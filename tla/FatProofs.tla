----------------------------- MODULE FatProofs -----------------------------
(***************************************************************************)
(* Proofs about lib/fs/fat: FatCache, for any number of buffers, sectors   *)
(* and users, and FatFiles, for any numbers of titles, handles, clusters   *)
(* and entries, any sizes of sectors, clusters and files.                  *)
(*                                                                         *)
(* The list of the buffers is told by an order of them, from its end, that *)
(* both pointers follow; moving a buffer to an end of the list makes       *)
(* another order.  With it the list and the use counts are exact whatever  *)
(* runs at the same time (BuffersAreExact).  That no store is lost needs   *)
(* more: a buffer that is not dirty is on the disk, unless its user has    *)
(* not marked it yet, and Flush leaves no dirty buffer behind it.  This is *)
(* true on one core only (CacheKeepsAll): on several a user may store      *)
(* between the two steps of Flush.                                         *)
(*                                                                         *)
(* Files are told by the sequences of their clusters: one for each entry,  *)
(* each open file and the root directory (Kept).  A sequence is linked in  *)
(* the FAT from its first cluster to its end, is as long as the size asks  *)
(* for, has the bytes of its file, and shares no cluster with another one, *)
(* unless both are an entry and its reader or two readers.  An open file   *)
(* stands in the cluster of the byte before its place.                     *)
(***************************************************************************)
EXTENDS FatCache, FatFiles, FiniteSetTheorems, SequenceTheorems, WellFoundedInduction, TLAPS

-----------------------------------------------------------------------------
(* Least and greatest members                                              *)

LEMMA LeastMember ==
  ASSUME NEW S \in SUBSET Nat, S # {}
  PROVE  \E n \in S : \A k \in S : n <= k
<1>1. PICK n \in S : \A k \in S : ~(<<k, n>> \in OpToRel(<, Nat))
  BY WFMin, NatLessThanWellFounded
<1>2. \A k \in S : ~(k < n)
  BY <1>1 DEF OpToRel
<1> QED
  BY <1>2

LEMMA GreatestMember ==
  ASSUME NEW m \in Nat, NEW S \in SUBSET (1 .. m), S # {}
  PROVE  \E n \in S : \A k \in S : k <= n
<1> DEFINE T == {m - n : n \in S}
<1>1. T \in SUBSET Nat /\ T # {}
  <2>1. \A n \in S : m - n \in Nat
    OBVIOUS
  <2> QED
    BY <2>1
<1>2. PICK t \in T : \A k \in T : t <= k
  BY <1>1, LeastMember
<1>3. PICK n \in S : t = m - n
  BY <1>2
<1>4. ASSUME NEW k \in S PROVE k <= n
  <2>1. m - k \in T
    OBVIOUS
  <2>2. m - n <= m - k
    BY <1>2, <1>3, <2>1
  <2> QED
    BY <2>2
<1> QED
  BY <1>3, <1>4

-----------------------------------------------------------------------------
(* The list                                                                *)

Lists == [pFirst : Buffers, pLast : Buffers,
          pNext : [Buffers -> Buffers \cup {0}], pPrev : [Buffers -> Buffers \cup {0}]]

Orders == {o \in [Buffers -> Buffers] : /\ \A i, j \in Buffers : o[i] = o[j] => i = j
                                        /\ \A b \in Buffers : \E i \in Buffers : o[i] = b}

\* The list l leads from its end to its front in the order o.
ListIs(l, o) ==
  /\ l.pLast = o[1] /\ l.pFirst = o[FAT_BUFFERS]
  /\ \A n \in Buffers : l.pPrev[o[n]] = IF n = FAT_BUFFERS THEN 0 ELSE o[n + 1]
  /\ \A n \in Buffers : l.pNext[o[n]] = IF n = 1 THEN 0 ELSE o[n - 1]

\* b, at place k, is moved to the front of the list, or to its end.
InFront(o, k) == [n \in Buffers |-> IF n < k THEN o[n]
                                    ELSE IF n < FAT_BUFFERS THEN o[n + 1] ELSE o[k]]
AtEnd(o, k) == [n \in Buffers |-> IF n = 1 THEN o[k] ELSE IF n <= k THEN o[n - 1] ELSE o[n]]

LEMMA BuffersFacts ==
  /\ FAT_BUFFERS \in Nat \ {0} /\ Buffers = 1 .. FAT_BUFFERS
  /\ 1 \in Buffers /\ FAT_BUFFERS \in Buffers /\ 0 \notin Buffers
  /\ \A n \in Buffers : n \in Nat /\ 1 <= n /\ n <= FAT_BUFFERS
  /\ \A n \in Buffers : n # 1 => n - 1 \in Buffers
  /\ \A n \in Buffers : n # FAT_BUFFERS => n + 1 \in Buffers
BY CacheAssumption DEF Buffers

LEMMA InFrontOrders ==
  ASSUME NEW o \in Orders, NEW k \in Buffers
  PROVE  InFront(o, k) \in Orders
<1> DEFINE p == InFront(o, k)
           From(n) == IF n < k THEN n ELSE IF n < FAT_BUFFERS THEN n + 1 ELSE k
<1>1. \A n \in Buffers : p[n] = IF n < k THEN o[n] ELSE IF n < FAT_BUFFERS THEN o[n + 1] ELSE o[k]
  BY DEF InFront
<1>2. \A n \in Buffers : From(n) \in Buffers /\ p[n] = o[From(n)]
  BY <1>1, BuffersFacts
<1>3. \A i, j \in Buffers : From(i) = From(j) => i = j
  BY BuffersFacts
<1>5. p \in [Buffers -> Buffers]
  <2>1. \A n \in Buffers : p[n] \in Buffers
    BY <1>2 DEF Orders
  <2>2. p = [n \in Buffers |-> p[n]]
    BY DEF InFront
  <2> QED
    BY <2>1, <2>2
<1>4. ASSUME NEW b \in Buffers PROVE \E i \in Buffers : p[i] = b
  <2>1. PICK i \in Buffers : o[i] = b
    BY DEF Orders
  <2>2. CASE i < k
    BY <1>1, <2>1, <2>2
  <2>3. CASE i = k
    BY <1>1, <2>1, <2>3, BuffersFacts
  <2>4. CASE i > k
    <3>1. i - 1 \in Buffers /\ ~(i - 1 < k) /\ i - 1 < FAT_BUFFERS /\ (i - 1) + 1 = i
      BY <2>4, BuffersFacts
    <3> QED
      BY <1>1, <2>1, <3>1
  <2> QED
    BY <2>2, <2>3, <2>4, BuffersFacts
<1> HIDE DEF p, From
<1>6. \A i, j \in Buffers : p[i] = p[j] => i = j
  BY <1>2, <1>3 DEF Orders
<1> QED
  BY <1>4, <1>5, <1>6 DEF Orders, p

LEMMA AtEndOrders ==
  ASSUME NEW o \in Orders, NEW k \in Buffers
  PROVE  AtEnd(o, k) \in Orders
<1> DEFINE p == AtEnd(o, k)
           From(n) == IF n = 1 THEN k ELSE IF n <= k THEN n - 1 ELSE n
<1>1. \A n \in Buffers : p[n] = IF n = 1 THEN o[k] ELSE IF n <= k THEN o[n - 1] ELSE o[n]
  BY DEF AtEnd
<1>2. \A n \in Buffers : From(n) \in Buffers /\ p[n] = o[From(n)]
  BY <1>1, BuffersFacts
<1>3. \A i, j \in Buffers : From(i) = From(j) => i = j
  BY BuffersFacts
<1>5. p \in [Buffers -> Buffers]
  <2>1. \A n \in Buffers : p[n] \in Buffers
    BY <1>2 DEF Orders
  <2>2. p = [n \in Buffers |-> p[n]]
    BY DEF AtEnd
  <2> QED
    BY <2>1, <2>2
<1>4. ASSUME NEW b \in Buffers PROVE \E i \in Buffers : p[i] = b
  <2>1. PICK i \in Buffers : o[i] = b
    BY DEF Orders
  <2>2. CASE i > k
    BY <1>1, <2>1, <2>2, BuffersFacts
  <2>3. CASE i = k
    BY <1>1, <2>1, <2>3, BuffersFacts
  <2>4. CASE i < k
    <3>1. i + 1 \in Buffers /\ i + 1 # 1 /\ i + 1 <= k /\ (i + 1) - 1 = i
      BY <2>4, BuffersFacts
    <3> QED
      BY <1>1, <2>1, <3>1
  <2> QED
    BY <2>2, <2>3, <2>4, BuffersFacts
<1> HIDE DEF p, From
<1>6. \A i, j \in Buffers : p[i] = p[j] => i = j
  BY <1>2, <1>3 DEF Orders
<1> QED
  BY <1>4, <1>5, <1>6 DEF Orders, p

LEMMA MoveFirst ==
  ASSUME NEW l \in Lists, NEW o \in Orders, ListIs(l, o), NEW k \in Buffers
  PROVE  /\ MoveBufferFirst(l, o[k]) \in Lists
         /\ ListIs(MoveBufferFirst(l, o[k]), InFront(o, k))
<1> DEFINE b == o[k]
           p == InFront(o, k)
           r == MoveBufferFirst(l, b)
<1>1. \A n \in Buffers : p[n] = IF n < k THEN o[n] ELSE IF n < FAT_BUFFERS THEN o[n + 1] ELSE o[k]
  BY DEF InFront
<1>2. \A i, j \in Buffers : o[i] = o[j] => i = j
  BY DEF Orders
<1>3. \A n \in Buffers : o[n] \in Buffers
  BY DEF Orders
<1>4. CASE k = FAT_BUFFERS
  <2>1. l.pFirst = b /\ r = l
    BY <1>4 DEF ListIs, MoveBufferFirst
  <2>2. \A n \in Buffers : p[n] = o[n]
    BY <1>1, <1>4, BuffersFacts
  <2> HIDE DEF p, r
  <2> QED
    BY <2>1, <2>2, BuffersFacts DEF ListIs, r, p
<1>5. CASE k # FAT_BUFFERS
  <2> DEFINE next == IF k = 1 THEN 0 ELSE o[k - 1]
             prev == o[k + 1]
             first == o[FAT_BUFFERS]
  <2>1. /\ l.pFirst = first /\ first # b
        /\ l.pNext[b] = next /\ l.pPrev[b] = prev
        /\ next \in Buffers \cup {0} /\ prev \in Buffers /\ first \in Buffers /\ b \in Buffers
    BY <1>2, <1>3, <1>5, BuffersFacts DEF ListIs
  <2>2. /\ r.pFirst = b /\ r.pLast = IF next = 0 THEN prev ELSE l.pLast
        /\ r.pNext = [l.pNext EXCEPT ![prev] = next, ![b] = first]
        /\ r.pPrev = [x \in Buffers |-> IF x = b THEN 0 ELSE IF x = first THEN b
                                        ELSE IF x = next THEN prev ELSE l.pPrev[x]]
        /\ r = [pFirst |-> r.pFirst, pLast |-> r.pLast, pNext |-> r.pNext, pPrev |-> r.pPrev]
    BY <2>1 DEF MoveBufferFirst
  <2> HIDE DEF r, p, next, prev, first, b
  <2>3. l.pNext \in [Buffers -> Buffers \cup {0}] /\ l.pPrev \in [Buffers -> Buffers \cup {0}]
        /\ l.pLast \in Buffers
    BY DEF Lists
  <2>4. r \in Lists
    <3>1. r.pNext \in [Buffers -> Buffers \cup {0}]
      BY <2>1, <2>2, <2>3
    <3>2. r.pPrev \in [Buffers -> Buffers \cup {0}]
      BY <2>1, <2>2, <2>3
    <3>3. r.pFirst \in Buffers /\ r.pLast \in Buffers
      BY <2>1, <2>2, <2>3
    <3> QED
      BY <2>2, <3>1, <3>2, <3>3 DEF Lists
  <2>5. r.pLast = p[1] /\ r.pFirst = p[FAT_BUFFERS]
    BY <1>1, <1>3, <1>5, <2>2, BuffersFacts DEF ListIs, next, prev, b
  <2>6. ASSUME NEW n \in Buffers
        PROVE  r.pPrev[p[n]] = IF n = FAT_BUFFERS THEN 0 ELSE p[n + 1]
    <3>1. CASE n = FAT_BUFFERS
      BY <1>1, <1>5, <2>1, <2>2, <3>1, BuffersFacts DEF b
    <3>2. CASE n # FAT_BUFFERS /\ n < k - 1
      <4>1. /\ p[n] = o[n] /\ p[n + 1] = o[n + 1]
            /\ o[n] # b /\ o[n] # first /\ o[n] # next /\ o[n] \in Buffers
        BY <1>1, <1>2, <1>3, <1>5, <3>2, BuffersFacts DEF b, first, next
      <4> QED
        BY <2>2, <3>2, <4>1 DEF ListIs
    <3>3. CASE n # FAT_BUFFERS /\ n = k - 1
      <4>1. /\ p[n] = o[n] /\ p[n + 1] = prev /\ o[n] = next
            /\ o[n] # b /\ o[n] # first /\ o[n] \in Buffers
        BY <1>1, <1>2, <1>3, <1>5, <3>3, BuffersFacts DEF b, first, next, prev
      <4> QED
        BY <2>2, <3>3, <4>1
    <3>4. CASE n # FAT_BUFFERS /\ n >= k /\ n + 1 = FAT_BUFFERS
      <4>1. p[n] = first /\ p[n + 1] = b
        BY <1>1, <1>3, <1>5, <3>4, BuffersFacts DEF b, first
      <4> QED
        BY <2>1, <2>2, <3>4, <4>1
    <3>5. CASE n # FAT_BUFFERS /\ n >= k /\ n + 1 # FAT_BUFFERS
      <4>1. n + 1 \in Buffers /\ n + 1 < FAT_BUFFERS /\ (n + 1) + 1 \in Buffers
        BY <3>5, BuffersFacts
      <4>2. /\ p[n] = o[n + 1] /\ p[n + 1] = o[(n + 1) + 1]
            /\ o[n + 1] # b /\ o[n + 1] # first /\ o[n + 1] # next /\ o[n + 1] \in Buffers
        BY <1>1, <1>2, <1>3, <1>5, <3>5, <4>1, BuffersFacts DEF b, first, next
      <4> QED
        BY <2>2, <3>5, <4>1, <4>2 DEF ListIs
    <3> QED
      BY <3>1, <3>2, <3>3, <3>4, <3>5, BuffersFacts
  <2>7. ASSUME NEW n \in Buffers
        PROVE  r.pNext[p[n]] = IF n = 1 THEN 0 ELSE p[n - 1]
    <3>1. CASE n = FAT_BUFFERS
      <4>1. p[n] = b /\ n # 1 /\ p[n - 1] = first
        BY <1>1, <1>5, <3>1, BuffersFacts DEF b, first
      <4> QED
        BY <2>1, <2>2, <2>3, <4>1
    <3>2. CASE n # FAT_BUFFERS /\ n < k
      <4>1. /\ p[n] = o[n] /\ (n # 1 => p[n - 1] = o[n - 1])
            /\ o[n] # b /\ o[n] # prev /\ o[n] \in Buffers
        BY <1>1, <1>2, <1>3, <1>5, <3>2, BuffersFacts DEF b, prev
      <4> QED
        BY <2>1, <2>2, <2>3, <3>2, <4>1 DEF ListIs
    <3>3. CASE n # FAT_BUFFERS /\ n = k
      <4>1. /\ p[n] = prev /\ (n # 1 => p[n - 1] = next) /\ (n = 1 => next = 0)
            /\ prev # b
        BY <1>1, <1>2, <1>3, <1>5, <3>3, BuffersFacts DEF b, prev, next
      <4> QED
        BY <2>1, <2>2, <2>3, <3>3, <4>1
    <3>4. CASE n # FAT_BUFFERS /\ n > k
      <4>1. n + 1 \in Buffers /\ n - 1 \in Buffers /\ n - 1 >= k /\ n - 1 < FAT_BUFFERS
            /\ (n + 1) - 1 = n /\ n + 1 # 1
        BY <3>4, BuffersFacts
      <4>2. /\ p[n] = o[n + 1] /\ p[n - 1] = o[n] /\ n # 1
            /\ o[n + 1] # b /\ o[n + 1] # prev /\ o[n + 1] \in Buffers
        BY <1>1, <1>2, <1>3, <1>5, <3>4, <4>1, BuffersFacts DEF b, prev
      <4>3. l.pNext[o[n + 1]] = o[n]
        BY <4>1 DEF ListIs
      <4> QED
        BY <2>1, <2>2, <2>3, <3>4, <4>2, <4>3
    <3> QED
      BY <3>1, <3>2, <3>3, <3>4, BuffersFacts
  <2> QED
    BY <2>4, <2>5, <2>6, <2>7 DEF ListIs, r, p, b
<1> QED
  BY <1>4, <1>5

LEMMA MoveLast ==
  ASSUME NEW l \in Lists, NEW o \in Orders, ListIs(l, o), NEW k \in Buffers
  PROVE  /\ MoveBufferLast(l, o[k]) \in Lists
         /\ ListIs(MoveBufferLast(l, o[k]), AtEnd(o, k))
<1> DEFINE b == o[k]
           p == AtEnd(o, k)
           r == MoveBufferLast(l, b)
<1>1. \A n \in Buffers : p[n] = IF n = 1 THEN o[k] ELSE IF n <= k THEN o[n - 1] ELSE o[n]
  BY DEF AtEnd
<1>2. \A i, j \in Buffers : o[i] = o[j] => i = j
  BY DEF Orders
<1>3. \A n \in Buffers : o[n] \in Buffers
  BY DEF Orders
<1>4. CASE k = 1
  <2>1. l.pLast = b /\ r = l
    BY <1>4 DEF ListIs, MoveBufferLast
  <2>2. \A n \in Buffers : p[n] = o[n]
    BY <1>1, <1>4, BuffersFacts
  <2> HIDE DEF p, r
  <2> QED
    BY <2>1, <2>2, BuffersFacts DEF ListIs, r, p
<1>5. CASE k # 1
  <2> DEFINE next == o[k - 1]
             prev == IF k = FAT_BUFFERS THEN 0 ELSE o[k + 1]
             last == o[1]
  <2>1. /\ l.pLast = last /\ last # b
        /\ l.pNext[b] = next /\ l.pPrev[b] = prev
        /\ next \in Buffers /\ prev \in Buffers \cup {0} /\ last \in Buffers /\ b \in Buffers
    BY <1>2, <1>3, <1>5, BuffersFacts DEF ListIs
  <2>2. /\ r.pFirst = (IF prev = 0 THEN next ELSE l.pFirst) /\ r.pLast = b
        /\ r.pPrev = [l.pPrev EXCEPT ![next] = prev, ![b] = last]
        /\ r.pNext = [x \in Buffers |-> IF x = b THEN 0 ELSE IF x = last THEN b
                                        ELSE IF x = prev THEN next ELSE l.pNext[x]]
        /\ r = [pFirst |-> r.pFirst, pLast |-> r.pLast, pNext |-> r.pNext, pPrev |-> r.pPrev]
    BY <2>1 DEF MoveBufferLast
  <2> HIDE DEF r, p, next, prev, last, b
  <2>3. l.pNext \in [Buffers -> Buffers \cup {0}] /\ l.pPrev \in [Buffers -> Buffers \cup {0}]
        /\ l.pFirst \in Buffers
    BY DEF Lists
  <2>4. r \in Lists
    <3>1. r.pNext \in [Buffers -> Buffers \cup {0}]
      BY <2>1, <2>2, <2>3
    <3>2. r.pPrev \in [Buffers -> Buffers \cup {0}]
      BY <2>1, <2>2, <2>3
    <3>3. r.pFirst \in Buffers /\ r.pLast \in Buffers
      BY <2>1, <2>2, <2>3
    <3> QED
      BY <2>2, <3>1, <3>2, <3>3 DEF Lists
  <2>5. r.pLast = p[1] /\ r.pFirst = p[FAT_BUFFERS]
    BY <1>1, <1>3, <1>5, <2>2, BuffersFacts DEF ListIs, next, prev, b
  <2>6. ASSUME NEW n \in Buffers
        PROVE  r.pPrev[p[n]] = IF n = FAT_BUFFERS THEN 0 ELSE p[n + 1]
    <3>1. CASE n = 1
      <4>1. p[n] = b /\ n # FAT_BUFFERS /\ p[n + 1] = last
        BY <1>1, <1>5, <3>1, BuffersFacts DEF b, last
      <4> QED
        BY <2>1, <2>2, <2>3, <4>1
    <3>2. CASE n # 1 /\ n < k
      <4>1. n - 1 \in Buffers /\ (n - 1) + 1 = n /\ n - 1 # FAT_BUFFERS /\ n # FAT_BUFFERS
        BY <3>2, BuffersFacts
      <4>2. /\ p[n] = o[n - 1] /\ p[n + 1] = o[n]
            /\ o[n - 1] # b /\ o[n - 1] # next /\ o[n - 1] \in Buffers
        BY <1>1, <1>2, <1>3, <1>5, <3>2, <4>1, BuffersFacts DEF b, next
      <4>3. l.pPrev[o[n - 1]] = o[n]
        BY <4>1 DEF ListIs
      <4> QED
        BY <2>1, <2>2, <2>3, <4>1, <4>2, <4>3
    <3>3. CASE n = k
      <4>1. /\ p[n] = next /\ next # b
            /\ (n # FAT_BUFFERS => p[n + 1] = prev) /\ (n = FAT_BUFFERS => prev = 0)
        BY <1>1, <1>2, <1>3, <1>5, <3>3, BuffersFacts DEF b, next, prev
      <4> QED
        BY <2>1, <2>2, <2>3, <3>3, <4>1
    <3>4. CASE n > k
      <4>1. /\ p[n] = o[n] /\ (n # FAT_BUFFERS => p[n + 1] = o[n + 1])
            /\ o[n] # b /\ o[n] # next /\ o[n] \in Buffers
        BY <1>1, <1>2, <1>3, <1>5, <3>4, BuffersFacts DEF b, next
      <4> QED
        BY <2>1, <2>2, <2>3, <4>1 DEF ListIs
    <3> QED
      BY <3>1, <3>2, <3>3, <3>4, BuffersFacts
  <2>7. ASSUME NEW n \in Buffers
        PROVE  r.pNext[p[n]] = IF n = 1 THEN 0 ELSE p[n - 1]
    <3>1. CASE n = 1
      BY <1>1, <2>1, <2>2, <3>1, BuffersFacts DEF b
    <3>2. CASE n = 2 /\ n <= k
      <4>1. p[n] = last /\ p[n - 1] = b
        BY <1>1, <3>2, BuffersFacts DEF b, last
      <4> QED
        BY <2>1, <2>2, <3>2, <4>1
    <3>3. CASE n # 1 /\ n # 2 /\ n <= k
      <4>1. /\ n - 1 \in Buffers /\ (n - 1) - 1 \in Buffers /\ n - 1 # 1
            /\ n - 1 <= k
        BY <3>3, BuffersFacts
      <4>2. /\ p[n] = o[n - 1] /\ p[n - 1] = o[(n - 1) - 1]
            /\ o[n - 1] # b /\ o[n - 1] # last /\ o[n - 1] # prev /\ o[n - 1] \in Buffers
        BY <1>1, <1>2, <1>3, <1>5, <3>3, <4>1, BuffersFacts DEF b, last, prev
      <4>3. l.pNext[o[n - 1]] = o[(n - 1) - 1]
        BY <4>1 DEF ListIs
      <4> QED
        BY <2>2, <3>3, <4>2, <4>3
    <3>4. CASE n = k + 1
      <4>1. /\ n # 1 /\ p[n] = prev /\ p[n - 1] = next /\ prev \in Buffers
            /\ prev # b /\ prev # last
        BY <1>1, <1>2, <1>3, <1>5, <3>4, BuffersFacts DEF b, next, prev, last
      <4> QED
        BY <2>2, <4>1
    <3>5. CASE n > k + 1
      <4>1. n # 1 /\ n - 1 \in Buffers /\ n - 1 > k
        BY <3>5, BuffersFacts
      <4>2. /\ p[n] = o[n] /\ p[n - 1] = o[n - 1]
            /\ o[n] # b /\ o[n] # last /\ o[n] # prev /\ o[n] \in Buffers
        BY <1>1, <1>2, <1>3, <1>5, <3>5, <4>1, BuffersFacts DEF b, last, prev
      <4>3. l.pNext[o[n]] = o[n - 1]
        BY <4>1 DEF ListIs
      <4> QED
        BY <2>2, <4>1, <4>2, <4>3
    <3> QED
      BY <3>1, <3>2, <3>3, <3>4, <3>5, BuffersFacts
  <2> QED
    BY <2>4, <2>5, <2>6, <2>7 DEF ListIs, r, p, b
<1> QED
  BY <1>4, <1>5

\* FromLast counts the buffers in the order of the list.
LEMMA FromLastIs ==
  ASSUME NEW o \in Orders, ListIs(m_BufferList, o)
  PROVE  FromLast = o
<1> DEFINE Counts(f) == f = [n \in Buffers |-> IF n = 1 THEN m_BufferList.pLast
                                               ELSE m_BufferList.pPrev[f[n - 1]]]
<1>1. Counts(o)
  <2>1. ASSUME NEW n \in Buffers
        PROVE  o[n] = IF n = 1 THEN m_BufferList.pLast ELSE m_BufferList.pPrev[o[n - 1]]
    <3>1. CASE n = 1
      BY <3>1 DEF ListIs
    <3>2. CASE n # 1
      <4>1. n - 1 \in Buffers /\ n - 1 # FAT_BUFFERS /\ (n - 1) + 1 = n
        BY <3>2, BuffersFacts
      <4> QED
        BY <3>2, <4>1 DEF ListIs
    <3> QED
      BY <3>1, <3>2
  <2> QED
    BY <2>1 DEF Orders
<1>2. FromLast = CHOOSE f : Counts(f)
  BY DEF FromLast
<1>3. Counts(FromLast)
  <2> HIDE DEF Counts
  <2> QED
    BY <1>1, <1>2
<1> DEFINE f == FromLast
<1>4. \A n \in Buffers : f[n] = IF n = 1 THEN m_BufferList.pLast
                                ELSE m_BufferList.pPrev[f[n - 1]]
  BY <1>3
<1>5. \A n \in Buffers : o[n] = IF n = 1 THEN m_BufferList.pLast
                                ELSE m_BufferList.pPrev[o[n - 1]]
  BY <1>1
<1> DEFINE Differ == {n \in Buffers : f[n] # o[n]}
<1>6. f = [n \in Buffers |-> f[n]] /\ o = [n \in Buffers |-> o[n]]
  BY <1>1, <1>3
<1> HIDE DEF f, Counts
<1>7. CASE Differ # {}
  <2>1. Differ \in SUBSET Nat
    BY BuffersFacts
  <2>2. PICK n \in Differ : \A k \in Differ : n <= k
    BY <1>7, <2>1, LeastMember
  <2>3. n # 1
    BY <1>4, <1>5
  <2>4. n - 1 \in Buffers /\ n - 1 \notin Differ
    BY <2>2, <2>3, BuffersFacts
  <2> QED
    BY <1>4, <1>5, <2>3, <2>4
<1>8. CASE Differ = {}
  BY <1>6, <1>8 DEF f
<1> QED
  BY <1>7, <1>8

-----------------------------------------------------------------------------
(* Buffers and their users                                                 *)

UsersIn(w, b) == {u \in CacheUsers : w[u].b = b}

BufferData == [nSector : Sectors \cup {NoSector}, nUseCount : Nat,
               bDirty : BOOLEAN, latest : BOOLEAN]
Uses == [b : Buffers \cup {0}, does : {"nothing", "reads", "overwrites", "has stored"}]

ListKept == \E o \in Orders : ListIs(m_BufferList, o)

UsersTrue ==
  \A u \in CacheUsers : /\ user[u].b = 0 <=> user[u].does = "nothing"
                        /\ user[u].b # 0 => buffer[user[u].b].nSector # NoSector

CountsTrue == \A b \in Buffers : buffer[b].nUseCount = Cardinality(UsersIn(user, b))

OneBuffer ==
  \A a, b \in Buffers :
    buffer[a].nSector = buffer[b].nSector /\ buffer[a].nSector # NoSector => a = b

NoneOpen == \A u \in CacheUsers : user[u].b = 0

BufferInv ==
  /\ CacheTypeOK /\ ListKept /\ UsersTrue /\ CountsTrue /\ OneBuffer
  /\ cache.state \in {"closing", "closed"} => NoneOpen

LEMMA CacheTypes ==
  CacheTypeOK <=> /\ buffer \in [Buffers -> BufferData]
                  /\ m_BufferList \in Lists
                  /\ disk \in [Sectors -> BOOLEAN]
                  /\ user \in [CacheUsers -> Uses]
                  /\ flush \in [b : Buffers \cup {0}, written : BOOLEAN]
                  /\ cache \in [state : {"open", "closing", "closed", "fault"}, cores : BOOLEAN]
BY DEF CacheTypeOK, BufferData, Lists, Uses

LEMMA NextCacheTypes ==
  CacheTypeOK' <=> /\ buffer' \in [Buffers -> BufferData]
                   /\ m_BufferList' \in Lists
                   /\ disk' \in [Sectors -> BOOLEAN]
                   /\ user' \in [CacheUsers -> Uses]
                   /\ flush' \in [b : Buffers \cup {0}, written : BOOLEAN]
                   /\ cache' \in [state : {"open", "closing", "closed", "fault"}, cores : BOOLEAN]
BY DEF CacheTypeOK, BufferData, Lists, Uses

\* A user gets buffer b ...
LEMMA CountUp ==
  ASSUME NEW w, NEW x, NEW u \in CacheUsers, NEW b \in Buffers,
         w[u].b = 0, x[u].b = b, \A v \in CacheUsers \ {u} : x[v].b = w[v].b,
         NEW c \in Buffers
  PROVE  /\ Cardinality(UsersIn(w, c)) \in Nat
         /\ Cardinality(UsersIn(x, c)) = IF c = b THEN Cardinality(UsersIn(w, c)) + 1
                                         ELSE Cardinality(UsersIn(w, c))
<1>1. IsFiniteSet(UsersIn(w, c))
  BY CacheAssumption, FS_Subset DEF UsersIn
<1>2. Cardinality(UsersIn(w, c)) \in Nat
  BY <1>1, FS_CardinalityType
<1>3. CASE c = b
  <2>1. UsersIn(x, c) = UsersIn(w, c) \cup {u} /\ u \notin UsersIn(w, c)
    BY <1>3, BuffersFacts DEF UsersIn
  <2>2. Cardinality(UsersIn(w, c) \cup {u}) = Cardinality(UsersIn(w, c)) + 1
    BY <1>1, <2>1, FS_AddElement
  <2> QED
    BY <1>2, <1>3, <2>1, <2>2
<1>4. CASE c # b
  <2>1. UsersIn(x, c) = UsersIn(w, c)
    BY <1>4, BuffersFacts DEF UsersIn
  <2> QED
    BY <1>2, <1>4, <2>1
<1> QED
  BY <1>3, <1>4

\* ... or frees it.
LEMMA CountDown ==
  ASSUME NEW w, NEW x, NEW u \in CacheUsers, NEW b \in Buffers,
         w[u].b = b, x[u].b = 0, \A v \in CacheUsers \ {u} : x[v].b = w[v].b,
         NEW c \in Buffers
  PROVE  /\ Cardinality(UsersIn(w, c)) \in Nat /\ Cardinality(UsersIn(x, c)) \in Nat
         /\ Cardinality(UsersIn(x, c)) = IF c = b THEN Cardinality(UsersIn(w, c)) - 1
                                         ELSE Cardinality(UsersIn(w, c))
<1>1. /\ Cardinality(UsersIn(x, c)) \in Nat
      /\ Cardinality(UsersIn(w, c)) = IF c = b THEN Cardinality(UsersIn(x, c)) + 1
                                      ELSE Cardinality(UsersIn(x, c))
  BY CountUp
<1> QED
  BY <1>1

LEMMA SameUsersCount ==
  ASSUME NEW w, NEW x, \A v \in CacheUsers : x[v].b = w[v].b, NEW c \in Buffers
  PROVE  UsersIn(x, c) = UsersIn(w, c)
BY DEF UsersIn

LEMMA NoUsersCount ==
  ASSUME NEW w, NEW c \in Buffers
  PROVE  Cardinality(UsersIn(w, c)) = 0 <=> \A u \in CacheUsers : w[u].b # c
<1>1. IsFiniteSet(UsersIn(w, c))
  BY CacheAssumption, FS_Subset DEF UsersIn
<1>2. Cardinality(UsersIn(w, c)) = 0 <=> UsersIn(w, c) = {}
  BY <1>1, FS_EmptySet
<1> QED
  BY <1>2 DEF UsersIn

LEMMA ListMoved ==
  ASSUME CacheTypeOK, ListKept, NEW b \in Buffers
  PROVE  /\ MoveBufferFirst(m_BufferList, b) \in Lists
         /\ \E o \in Orders : ListIs(MoveBufferFirst(m_BufferList, b), o)
         /\ MoveBufferLast(m_BufferList, b) \in Lists
         /\ \E o \in Orders : ListIs(MoveBufferLast(m_BufferList, b), o)
<1>1. PICK o \in Orders : ListIs(m_BufferList, o)
  BY DEF ListKept
<1>2. PICK k \in Buffers : o[k] = b
  BY DEF Orders
<1>3. m_BufferList \in Lists
  BY CacheTypes
<1>4. /\ MoveBufferFirst(m_BufferList, b) \in Lists
      /\ ListIs(MoveBufferFirst(m_BufferList, b), InFront(o, k))
  BY <1>1, <1>2, <1>3, MoveFirst
<1>5. /\ MoveBufferLast(m_BufferList, b) \in Lists
      /\ ListIs(MoveBufferLast(m_BufferList, b), AtEnd(o, k))
  BY <1>1, <1>2, <1>3, MoveLast
<1> QED
  BY <1>4, <1>5, InFrontOrders, AtEndOrders

\* The buffer nearest to the end exists, in any set of buffers.
LEMMA NearestFound ==
  ASSUME ListKept, NEW bs \in SUBSET Buffers, bs # {}
  PROVE  Nearest(bs) \in bs
<1>1. PICK o \in Orders : FromLast = o
  BY FromLastIs DEF ListKept
<1> DEFINE S == {n \in Buffers : o[n] \in bs}
           Good(n) == o[n] \in bs /\ \A k \in 1 .. n - 1 : o[k] \notin bs
<1>2. S \in SUBSET Nat /\ S # {}
  <2>1. PICK b \in bs : TRUE
    OBVIOUS
  <2>2. \E n \in Buffers : o[n] = b
    BY DEF Orders
  <2> QED
    BY <2>1, <2>2, BuffersFacts
<1>3. PICK n \in S : \A k \in S : n <= k
  BY <1>2, LeastMember
<1>4. n \in Buffers /\ Good(n)
  BY <1>3, BuffersFacts
<1>5. Nearest(bs) = o[CHOOSE m \in Buffers : Good(m)]
  BY <1>1 DEF Nearest
<1> HIDE DEF Good
<1>6. Good(CHOOSE m \in Buffers : Good(m))
  BY <1>4
<1> QED
  BY <1>5, <1>6 DEF Good

\* Flush goes on with the dirty buffer nearest to the front of those behind place p, if any.
LEMMA DirtyFound ==
  ASSUME NEW o \in Orders, FromLast = o, NEW p \in Buffers
  PROVE  LET b == DirtyFrom(o[p])
         IN  /\ b \in Buffers \cup {0}
             /\ b = 0 => \A n \in 1 .. p : ~Dirty(o[n])
             /\ b # 0 => \E q \in 1 .. p : b = o[q] /\ \A n \in 1 .. p : Dirty(o[n]) => n <= q
<1> DEFINE D == {n \in 1 .. p : Dirty(o[n])}
<1>1. p \in Nat /\ \A n \in 1 .. p : n \in Buffers /\ o[n] \in Buffers /\ o[n] # 0
  <2>1. \A n \in 1 .. p : n \in Buffers
    BY BuffersFacts
  <2>2. \A n \in Buffers : o[n] \in Buffers
    BY DEF Orders
  <2>3. p \in Nat /\ 0 \notin Buffers
    BY BuffersFacts
  <2> QED
    BY <2>1, <2>2, <2>3
<1>2. (CHOOSE n \in Buffers : o[n] = o[p]) = p
  BY DEF Orders
<1>3. DirtyFrom(o[p]) = IF D = {} THEN 0 ELSE o[CHOOSE n \in D : \A k \in D : k <= n]
  <2>1. DirtyFrom(o[p]) =
          LET place == CHOOSE n \in Buffers : o[n] = o[p]
              dirty == {n \in 1 .. place : Dirty(o[n])}
          IN  IF dirty = {} THEN 0 ELSE o[CHOOSE n \in dirty : \A k \in dirty : k <= n]
    BY DEF DirtyFrom
  <2> QED
    BY <1>2, <2>1
<1>4. CASE D = {}
  BY <1>3, <1>4
<1>5. CASE D # {}
  <2>1. D \in SUBSET (1 .. p)
    OBVIOUS
  <2> HIDE DEF D
  <2>2. \E n \in D : \A k \in D : k <= n
    BY <1>1, <1>5, <2>1, GreatestMember
  <2> DEFINE q == CHOOSE n \in D : \A k \in D : k <= n
  <2>3. q \in D /\ \A k \in D : k <= q
    BY <2>2
  <2> HIDE DEF q
  <2>4. DirtyFrom(o[p]) = o[q]
    BY <1>3, <1>5 DEF q
  <2>5. q \in 1 .. p /\ \A n \in 1 .. p : Dirty(o[n]) => n <= q
    BY <2>1, <2>3 DEF D
  <2> QED
    BY <1>1, <2>4, <2>5
<1> QED
  BY <1>4, <1>5

LEMMA ComesType ==
  ASSUME ListKept, NEW b \in Buffers \cup {0}
  PROVE  Comes(b) \in [b : Buffers \cup {0}, written : BOOLEAN]
<1>1. PICK o \in Orders : FromLast = o
  BY FromLastIs DEF ListKept
<1>2. CASE b = 0
  BY <1>2 DEF Comes
<1>3. CASE b # 0
  <2>1. PICK p \in Buffers : o[p] = b
    BY <1>3 DEF Orders
  <2>2. DirtyFrom(b) \in Buffers \cup {0}
    BY <1>1, <2>1, DirtyFound
  <2> QED
    BY <1>3, <2>2 DEF Comes
<1> QED
  BY <1>2, <1>3

-----------------------------------------------------------------------------
(* No step disturbs the list, the use counts or the sectors                *)

\* A step that neither takes nor frees a buffer, nor moves one in the list.
LEMMA SameUse ==
  ASSUME BufferInv, CacheTypeOK', m_BufferList' = m_BufferList,
         \A b \in Buffers : /\ buffer'[b].nSector = buffer[b].nSector
                            /\ buffer'[b].nUseCount = buffer[b].nUseCount,
         \A u \in CacheUsers : /\ user'[u].b = user[u].b
                               /\ user'[u].does = "nothing" <=> user[u].does = "nothing",
         cache'.state \in {"closing", "closed"} => cache.state \in {"closing", "closed"} \/ NoneOpen
  PROVE  BufferInv'
<1>1. user \in [CacheUsers -> Uses] /\ user' \in [CacheUsers -> Uses]
  BY CacheTypes, NextCacheTypes DEF BufferInv
<1>2. ListKept'
  BY DEF BufferInv, ListKept, ListIs
<1>3. UsersTrue'
  <2>1. ASSUME NEW u \in CacheUsers
        PROVE  /\ user'[u].b = 0 <=> user'[u].does = "nothing"
               /\ user'[u].b # 0 => buffer'[user'[u].b].nSector # NoSector
    <3>1. user[u].b \in Buffers \cup {0}
      BY <1>1 DEF Uses
    <3> QED
      BY <3>1 DEF BufferInv, UsersTrue
  <2> QED
    BY <2>1 DEF UsersTrue
<1>4. CountsTrue'
  BY SameUsersCount DEF BufferInv, CountsTrue
<1>5. OneBuffer'
  BY DEF BufferInv, OneBuffer
<1>6. cache'.state \in {"closing", "closed"} => NoneOpen'
  BY DEF BufferInv, NoneOpen
<1> QED
  BY <1>2, <1>3, <1>4, <1>5, <1>6 DEF BufferInv

\* User u gets buffer b, which is in front of the list then, for sector s.
LEMMA GotBuffer ==
  ASSUME BufferInv, NEW u \in CacheUsers, NEW b \in Buffers, NEW s \in Sectors,
         NEW writeOnly \in BOOLEAN, user[u].b = 0, cache.state = "open",
         CacheTypeOK',
         m_BufferList' = MoveBufferFirst(m_BufferList, b), Got(u, b, writeOnly),
         cache' = cache,
         buffer'[b].nSector = s, buffer'[b].nUseCount = Cardinality(UsersIn(user, b)) + 1,
         \A c \in Buffers \ {b} : buffer'[c] = buffer[c],
         \A v \in CacheUsers : user[v].b = b => buffer[b].nSector = s,
         \A c \in Buffers \ {b} : buffer[c].nSector # s
  PROVE  BufferInv'
<1>1. user \in [CacheUsers -> Uses]
  BY CacheTypes DEF BufferInv
<1>2. /\ user'[u].b = b /\ user'[u].does # "nothing"
      /\ \A v \in CacheUsers \ {u} : user'[v] = user[v]
  BY <1>1 DEF Got
<1>3. ListKept'
  BY ListMoved DEF BufferInv, ListKept, ListIs
<1>4. UsersTrue'
  <2>1. ASSUME NEW v \in CacheUsers
        PROVE  /\ user'[v].b = 0 <=> user'[v].does = "nothing"
               /\ user'[v].b # 0 => buffer'[user'[v].b].nSector # NoSector
    <3>1. CASE v = u
      BY <1>2, <3>1, BuffersFacts, CacheAssumption
    <3>2. CASE v # u
      <4>1. user'[v] = user[v] /\ user[v].b \in Buffers \cup {0}
        BY <1>1, <1>2, <3>2 DEF Uses
      <4> QED
        BY <4>1, CacheAssumption DEF BufferInv, UsersTrue
    <3> QED
      BY <3>1, <3>2
  <2> QED
    BY <2>1 DEF UsersTrue
<1>5. CountsTrue'
  <2>1. \A v \in CacheUsers \ {u} : user'[v].b = user[v].b
    BY <1>2
  <2>2. ASSUME NEW c \in Buffers PROVE buffer'[c].nUseCount = Cardinality(UsersIn(user', c))
    <3>1. Cardinality(UsersIn(user', c)) = IF c = b THEN Cardinality(UsersIn(user, c)) + 1
                                           ELSE Cardinality(UsersIn(user, c))
      <4> DEFINE w == user
                 x == user'
      <4>1. w[u].b = 0 /\ x[u].b = b /\ \A v \in CacheUsers \ {u} : x[v].b = w[v].b
        BY <1>2, <2>1
      <4> HIDE DEF w, x
      <4>2. Cardinality(UsersIn(x, c)) = IF c = b THEN Cardinality(UsersIn(w, c)) + 1
                                         ELSE Cardinality(UsersIn(w, c))
        BY <4>1, CountUp
      <4> QED
        BY <4>2 DEF w, x
    <3> QED
      BY <3>1 DEF BufferInv, CountsTrue
  <2> QED
    BY <2>2 DEF CountsTrue
<1>6. OneBuffer'
  BY DEF BufferInv, OneBuffer
<1> QED
  BY <1>3, <1>4, <1>5, <1>6 DEF BufferInv

LEMMA HitBuffers ==
  ASSUME BufferInv, NEW u \in CacheUsers, NEW s \in Sectors, NEW writeOnly \in BOOLEAN,
         MayRun, user[u].b = 0, Hit(u, s, writeOnly)
  PROVE  BufferInv'
<1>1. PICK b \in Holding(s) :
        /\ m_BufferList' = MoveBufferFirst(m_BufferList, b)
        /\ buffer' = [buffer EXCEPT ![b].nUseCount = @ + 1]
        /\ Got(u, b, writeOnly)
        /\ UNCHANGED <<disk, flush, cache>>
  BY DEF Hit
<1>2. b \in Buffers /\ buffer[b].nSector = s
  BY DEF Holding
<1>3. buffer \in [Buffers -> BufferData] /\ user \in [CacheUsers -> Uses]
  BY CacheTypes DEF BufferInv
<1>4. /\ buffer'[b].nSector = s /\ buffer'[b].nUseCount = buffer[b].nUseCount + 1
      /\ \A c \in Buffers \ {b} : buffer'[c] = buffer[c]
      /\ buffer' \in [Buffers -> BufferData]
  BY <1>1, <1>2, <1>3 DEF BufferData
<1>5. CacheTypeOK'
  <2>1. user' \in [CacheUsers -> Uses]
    BY <1>1, <1>2, <1>3 DEF Got, Uses
  <2>2. m_BufferList' \in Lists
    BY <1>1, <1>2, ListMoved DEF BufferInv
  <2> QED
    BY <1>1, <1>4, <2>1, <2>2, CacheTypes, NextCacheTypes DEF BufferInv
<1>6. \A c \in Buffers \ {b} : buffer[c].nSector # s
  BY <1>2, CacheAssumption DEF BufferInv, OneBuffer
<1>7. buffer'[b].nUseCount = Cardinality(UsersIn(user, b)) + 1
  BY <1>2, <1>4 DEF BufferInv, CountsTrue
<1> QED
  BY <1>1, <1>2, <1>4, <1>5, <1>6, <1>7, GotBuffer DEF MayRun

\* The buffer taken for another sector has no user.
LEMMA VictimUnused ==
  ASSUME BufferInv, NEW b \in Victims
  PROVE  b \in Buffers /\ \A u \in CacheUsers : user[u].b # b
<1>1. CASE b \in Holding(NoSector)
  BY <1>1, BuffersFacts DEF BufferInv, UsersTrue, Holding
<1>2. CASE b \notin Holding(NoSector)
  <2>1. b \in Buffers /\ buffer[b].nUseCount = 0
    BY <1>2 DEF Victims
  <2> QED
    BY <2>1, NoUsersCount DEF BufferInv, CountsTrue
<1> QED
  BY <1>1, <1>2

LEMMA MissBuffers ==
  ASSUME BufferInv, NEW u \in CacheUsers, NEW s \in Sectors, NEW writeOnly \in BOOLEAN,
         MayRun, user[u].b = 0, Miss(u, s, writeOnly)
  PROVE  BufferInv'
<1>0. /\ buffer \in [Buffers -> BufferData] /\ user \in [CacheUsers -> Uses]
      /\ disk \in [Sectors -> BOOLEAN]
      /\ cache \in [state : {"open", "closing", "closed", "fault"}, cores : BOOLEAN]
  BY CacheTypes DEF BufferInv
<1>1. CASE Victims = {}
  <2>1. /\ cache' = [cache EXCEPT !.state = "fault"]
        /\ UNCHANGED <<buffer, m_BufferList, disk, user, flush>>
    BY <1>1 DEF Miss
  <2>2. CacheTypeOK'
    BY <1>0, <2>1, CacheTypes, NextCacheTypes DEF BufferInv
  <2>3. cache'.state = "fault"
    BY <1>0, <2>1
  <2> QED
    BY <2>1, <2>2, <2>3, SameUse
<1>2. CASE Victims # {}
  <2> DEFINE b == Nearest(Victims)
  <2>1. /\ disk' = Evicted(b)
        /\ buffer' = [buffer EXCEPT ![b] = [nSector |-> s, nUseCount |-> 1, bDirty |-> FALSE,
                                            latest |-> ~writeOnly /\ disk[s]]]
        /\ m_BufferList' = MoveBufferFirst(m_BufferList, b)
        /\ Got(u, b, writeOnly)
        /\ UNCHANGED <<cache, flush>>
    BY <1>2 DEF Miss
  <2>2. b \in Victims
    BY <1>2, NearestFound DEF BufferInv, Victims, Holding
  <2>3. b \in Buffers /\ \A v \in CacheUsers : user[v].b # b
    BY <2>2, VictimUnused
  <2> HIDE DEF b
  <2>4. /\ buffer'[b].nSector = s /\ buffer'[b].nUseCount = 1
        /\ \A c \in Buffers \ {b} : buffer'[c] = buffer[c]
        /\ buffer' \in [Buffers -> BufferData]
    BY <1>0, <2>1, <2>3 DEF BufferData
  <2>5. CacheTypeOK'
    <3>1. user' \in [CacheUsers -> Uses]
      BY <1>0, <2>1, <2>3 DEF Got, Uses
    <3>2. m_BufferList' \in Lists
      BY <2>1, <2>3, ListMoved DEF BufferInv
    <3>3. disk' \in [Sectors -> BOOLEAN]
      <4>1. buffer[b].latest \in BOOLEAN
        BY <1>0, <2>3 DEF BufferData
      <4> QED
        BY <1>0, <2>1, <4>1 DEF Evicted
    <3> QED
      BY <2>1, <2>4, <3>1, <3>2, <3>3, CacheTypes, NextCacheTypes DEF BufferInv
  <2>6. \A c \in Buffers \ {b} : buffer[c].nSector # s
    BY DEF Miss, Holding
  <2>7. Cardinality(UsersIn(user, b)) = 0
    BY <2>3, NoUsersCount
  <2> QED
    BY <2>1, <2>3, <2>4, <2>5, <2>6, <2>7, GotBuffer DEF MayRun
<1> QED
  BY <1>1, <1>2

LEMMA StoreBuffers ==
  ASSUME BufferInv, NEW u \in CacheUsers, Store(u)
  PROVE  BufferInv'
<1>0. /\ buffer \in [Buffers -> BufferData] /\ user \in [CacheUsers -> Uses]
      /\ disk \in [Sectors -> BOOLEAN]
  BY CacheTypes DEF BufferInv
<1> DEFINE b == user[u].b
<1>1. /\ b \in Buffers /\ user[u].does # "nothing"
      /\ buffer' = [buffer EXCEPT ![b].latest = TRUE]
      /\ disk' = [disk EXCEPT ![buffer[b].nSector] = FALSE]
      /\ user' = [user EXCEPT ![u].does = "has stored"]
      /\ UNCHANGED <<m_BufferList, flush, cache>>
  BY <1>0 DEF Store, Uses, BufferInv, UsersTrue
<1> HIDE DEF b
<1>2. CacheTypeOK'
  <2>1. buffer' \in [Buffers -> BufferData]
    BY <1>0, <1>1 DEF BufferData
  <2>2. user' \in [CacheUsers -> Uses]
    BY <1>0, <1>1 DEF Uses
  <2> QED
    BY <1>0, <1>1, <2>1, <2>2, CacheTypes, NextCacheTypes DEF BufferInv
<1>3. \A c \in Buffers : buffer'[c].nSector = buffer[c].nSector
                         /\ buffer'[c].nUseCount = buffer[c].nUseCount
  BY <1>0, <1>1 DEF BufferData
<1>4. \A v \in CacheUsers : /\ user'[v].b = user[v].b
                            /\ user'[v].does = "nothing" <=> user[v].does = "nothing"
  BY <1>0, <1>1 DEF Uses
<1> QED
  BY <1>1, <1>2, <1>3, <1>4, SameUse

LEMMA MarkBuffers ==
  ASSUME BufferInv, NEW u \in CacheUsers, MarkDirty(u)
  PROVE  BufferInv'
<1>0. /\ buffer \in [Buffers -> BufferData] /\ user \in [CacheUsers -> Uses]
  BY CacheTypes DEF BufferInv
<1> DEFINE b == user[u].b
<1>1. /\ user[u].does = "has stored"
      /\ buffer' = [buffer EXCEPT ![b].bDirty = TRUE]
      /\ user' = [user EXCEPT ![u].does = "reads"]
      /\ UNCHANGED <<m_BufferList, disk, flush, cache>>
  BY DEF MarkDirty
<1> HIDE DEF b
<1>2. CacheTypeOK'
  <2>1. buffer' \in [Buffers -> BufferData]
    BY <1>0, <1>1 DEF BufferData
  <2>2. user' \in [CacheUsers -> Uses]
    BY <1>0, <1>1 DEF Uses
  <2> QED
    BY <1>1, <2>1, <2>2, CacheTypes, NextCacheTypes DEF BufferInv
<1>3. \A c \in Buffers : buffer'[c].nSector = buffer[c].nSector
                         /\ buffer'[c].nUseCount = buffer[c].nUseCount
  BY <1>0, <1>1 DEF BufferData
<1>4. \A v \in CacheUsers : /\ user'[v].b = user[v].b
                            /\ user'[v].does = "nothing" <=> user[v].does = "nothing"
  BY <1>0, <1>1 DEF Uses
<1> QED
  BY <1>1, <1>2, <1>3, <1>4, SameUse

LEMMA FreeBuffers ==
  ASSUME BufferInv, NEW u \in CacheUsers, FreeSector(u)
  PROVE  BufferInv'
<1>0. /\ buffer \in [Buffers -> BufferData] /\ user \in [CacheUsers -> Uses]
  BY CacheTypes DEF BufferInv
<1> DEFINE b == user[u].b
<1>1. /\ b \in Buffers /\ cache.state = "open"
      /\ buffer' = [buffer EXCEPT ![b].nUseCount = @ - 1]
      /\ user' = [user EXCEPT ![u] = [b |-> 0, does |-> "nothing"]]
      /\ m_BufferList' = m_BufferList \/ m_BufferList' = MoveBufferLast(m_BufferList, b)
      /\ UNCHANGED <<disk, flush, cache>>
  <2>1. user[u].does = "reads" /\ cache.state = "open"
    BY DEF FreeSector, MayRun
  <2>2. b \in Buffers
    BY <1>0, <2>1 DEF Uses, BufferInv, UsersTrue
  <2> QED
    BY <2>1, <2>2 DEF FreeSector
<1>2. user[u].b = b
  OBVIOUS
<1> HIDE DEF b
<1>3. user'[u].b = 0 /\ user'[u].does = "nothing" /\ \A v \in CacheUsers \ {u} : user'[v] = user[v]
  BY <1>0, <1>1
<1>4. ASSUME NEW c \in Buffers
      PROVE  /\ Cardinality(UsersIn(user, c)) \in Nat /\ Cardinality(UsersIn(user', c)) \in Nat
             /\ Cardinality(UsersIn(user', c)) = IF c = b THEN Cardinality(UsersIn(user, c)) - 1
                                                 ELSE Cardinality(UsersIn(user, c))
  <2> DEFINE w == user
             x == user'
  <2>1. w[u].b = b /\ x[u].b = 0 /\ \A v \in CacheUsers \ {u} : x[v].b = w[v].b
    BY <1>2, <1>3
  <2> HIDE DEF w, x
  <2>2. /\ Cardinality(UsersIn(w, c)) \in Nat /\ Cardinality(UsersIn(x, c)) \in Nat
        /\ Cardinality(UsersIn(x, c)) = IF c = b THEN Cardinality(UsersIn(w, c)) - 1
                                        ELSE Cardinality(UsersIn(w, c))
    BY <1>1, <2>1, CountDown
  <2> QED
    BY <2>2 DEF w, x
<1>5. CountsTrue'
  <2>1. ASSUME NEW c \in Buffers PROVE buffer'[c].nUseCount = Cardinality(UsersIn(user', c))
    <3>1. buffer'[c].nUseCount = IF c = b THEN buffer[c].nUseCount - 1 ELSE buffer[c].nUseCount
      BY <1>0, <1>1 DEF BufferData
    <3> QED
      BY <1>4, <3>1 DEF BufferInv, CountsTrue
  <2> QED
    BY <2>1 DEF CountsTrue
<1>6. CacheTypeOK'
  <2>1. buffer' \in [Buffers -> BufferData]
    <3>1. buffer[b].nUseCount - 1 \in Nat
      BY <1>1, <1>4 DEF BufferInv, CountsTrue
    <3> QED
      BY <1>0, <1>1, <3>1 DEF BufferData
  <2>2. user' \in [CacheUsers -> Uses]
    BY <1>0, <1>1 DEF Uses
  <2>3. m_BufferList' \in Lists
    BY <1>1, ListMoved, CacheTypes DEF BufferInv
  <2> QED
    BY <1>1, <2>1, <2>2, <2>3, CacheTypes, NextCacheTypes DEF BufferInv
<1>7. ListKept'
  BY <1>1, ListMoved DEF BufferInv, ListKept, ListIs
<1>8. \A c \in Buffers : buffer'[c].nSector = buffer[c].nSector
  BY <1>0, <1>1 DEF BufferData
<1>9. UsersTrue'
  <2>1. ASSUME NEW v \in CacheUsers
        PROVE  /\ user'[v].b = 0 <=> user'[v].does = "nothing"
               /\ user'[v].b # 0 => buffer'[user'[v].b].nSector # NoSector
    <3>1. CASE v = u
      BY <1>3, <3>1
    <3>2. CASE v # u
      <4>1. user'[v] = user[v] /\ user[v].b \in Buffers \cup {0}
        BY <1>0, <1>3, <3>2 DEF Uses
      <4> QED
        BY <1>8, <4>1 DEF BufferInv, UsersTrue
    <3> QED
      BY <3>1, <3>2
  <2> QED
    BY <2>1 DEF UsersTrue
<1>10. OneBuffer'
  BY <1>8 DEF BufferInv, OneBuffer
<1> QED
  BY <1>1, <1>5, <1>6, <1>7, <1>9, <1>10 DEF BufferInv

\* The steps of Synchronize and Close.
LEMMA FlushBuffers ==
  ASSUME BufferInv, Synchronize \/ Close \/ FlushWrite \/ FlushClear \/ Closed
  PROVE  BufferInv'
<1>0. /\ buffer \in [Buffers -> BufferData] /\ user \in [CacheUsers -> Uses]
      /\ m_BufferList \in Lists /\ disk \in [Sectors -> BOOLEAN]
      /\ flush \in [b : Buffers \cup {0}, written : BOOLEAN]
      /\ cache \in [state : {"open", "closing", "closed", "fault"}, cores : BOOLEAN]
  BY CacheTypes DEF BufferInv
<1>1. ASSUME NEW state \in {"open", "closing"}, Begins(state), state = "closing" => NoneOpen
      PROVE  BufferInv'
  <2>1. /\ flush' = Comes(m_BufferList.pFirst) /\ cache' = [cache EXCEPT !.state = state]
        /\ UNCHANGED <<buffer, m_BufferList, disk, user>>
    BY <1>1 DEF Begins
  <2>2. flush' \in [b : Buffers \cup {0}, written : BOOLEAN]
    BY <1>0, <2>1, ComesType DEF BufferInv, Lists
  <2>3. cache' \in [state : {"open", "closing", "closed", "fault"}, cores : BOOLEAN]
    BY <1>0, <2>1
  <2>4. CacheTypeOK'
    BY <1>0, <2>1, <2>2, <2>3, NextCacheTypes
  <2>5. cache'.state = state
    BY <1>0, <2>1
  <2> QED
    BY <1>1, <2>1, <2>4, <2>5, SameUse
<1>2. CASE Synchronize
  BY <1>1, <1>2 DEF Synchronize
<1>3. CASE Close
  BY <1>1, <1>3 DEF Close, NoneOpen
<1>4. CASE FlushWrite
  <2>1. flush' = [flush EXCEPT !.written = TRUE]
        /\ disk' = [disk EXCEPT ![buffer[flush.b].nSector] = buffer[flush.b].latest]
        /\ flush.b \in Buffers
        /\ UNCHANGED <<buffer, m_BufferList, user, cache>>
    BY <1>0, <1>4 DEF FlushWrite
  <2>2. buffer[flush.b].latest \in BOOLEAN
    BY <1>0, <2>1 DEF BufferData
  <2>3. CacheTypeOK'
    BY <1>0, <2>1, <2>2, NextCacheTypes
  <2> QED
    BY <2>1, <2>3, SameUse
<1>5. CASE FlushClear
  <2>1. buffer' = [buffer EXCEPT ![flush.b].bDirty = FALSE]
        /\ flush' = Comes(m_BufferList.pNext[flush.b])
        /\ flush.b \in Buffers
        /\ UNCHANGED <<m_BufferList, disk, user, cache>>
    BY <1>0, <1>5 DEF FlushClear
  <2>2. flush' \in [b : Buffers \cup {0}, written : BOOLEAN]
    BY <1>0, <2>1, ComesType DEF BufferInv, Lists
  <2>3. buffer' \in [Buffers -> BufferData]
    BY <1>0, <2>1 DEF BufferData
  <2>4. CacheTypeOK'
    BY <1>0, <2>1, <2>2, <2>3, NextCacheTypes
  <2>5. \A c \in Buffers : buffer'[c].nSector = buffer[c].nSector
                           /\ buffer'[c].nUseCount = buffer[c].nUseCount
    BY <1>0, <2>1 DEF BufferData
  <2> QED
    BY <2>1, <2>4, <2>5, SameUse
<1>6. CASE Closed
  <2>1. /\ cache.state = "closing" /\ cache' = [cache EXCEPT !.state = "closed"]
        /\ buffer' = [b \in Buffers |-> [buffer[b] EXCEPT !.nSector = NoSector]]
        /\ UNCHANGED <<m_BufferList, disk, user, flush>>
    BY <1>6 DEF Closed
  <2>2. NoneOpen
    BY <2>1 DEF BufferInv
  <2>3. \A c \in Buffers : /\ buffer'[c].nSector = NoSector
                           /\ buffer'[c].nUseCount = buffer[c].nUseCount
                           /\ buffer'[c] \in BufferData
    BY <1>0, <2>1 DEF BufferData
  <2>4. CacheTypeOK'
    <3>1. buffer' \in [Buffers -> BufferData]
      BY <2>1, <2>3
    <3> QED
      BY <1>0, <2>1, <3>1, NextCacheTypes
  <2>5. ListKept'
    BY <2>1 DEF BufferInv, ListKept, ListIs
  <2>6. UsersTrue' /\ NoneOpen'
    BY <2>1, <2>2 DEF BufferInv, UsersTrue, NoneOpen
  <2>7. CountsTrue'
    BY <2>1, <2>3 DEF BufferInv, CountsTrue
  <2>8. OneBuffer'
    BY <2>3 DEF OneBuffer
  <2> QED
    BY <2>4, <2>5, <2>6, <2>7, <2>8 DEF BufferInv
<1> QED
  BY <1>2, <1>3, <1>4, <1>5, <1>6

LEMMA InitBuffers == CacheInit => BufferInv
<1> SUFFICES ASSUME CacheInit PROVE BufferInv
  OBVIOUS
<1>1. CacheTypeOK
  <2>1. cache \in [state : {"open", "closing", "closed", "fault"}, cores : BOOLEAN]
    BY CacheAssumption DEF CacheInit
  <2>2. buffer \in [Buffers -> BufferData]
    BY DEF CacheInit, BufferData
  <2>3. m_BufferList \in Lists
    BY BuffersFacts DEF CacheInit, Lists
  <2>4. user \in [CacheUsers -> Uses]
    BY DEF CacheInit, Uses
  <2> QED
    BY <2>1, <2>2, <2>3, <2>4, CacheTypes DEF CacheInit
<1>2. ListKept
  <2> DEFINE o == [n \in Buffers |-> FAT_BUFFERS + 1 - n]
  <2>1. \A n \in Buffers : FAT_BUFFERS + 1 - n \in Buffers
    BY BuffersFacts
  <2>2. o \in Orders
    <3>1. \A b \in Buffers : o[FAT_BUFFERS + 1 - b] = b
      BY <2>1, BuffersFacts
    <3> QED
      BY <2>1, <3>1, BuffersFacts DEF Orders
  <2>3. ListIs(m_BufferList, o)
    BY <2>1, BuffersFacts DEF CacheInit, ListIs
  <2> QED
    BY <2>2, <2>3 DEF ListKept
<1>3. UsersTrue /\ OneBuffer /\ cache.state = "open"
  BY DEF CacheInit, UsersTrue, OneBuffer
<1>4. CountsTrue
  <2>1. \A b \in Buffers : Cardinality(UsersIn(user, b)) = 0
    BY NoUsersCount, BuffersFacts DEF CacheInit
  <2> QED
    BY <2>1 DEF CacheInit, CountsTrue
<1> QED
  BY <1>1, <1>2, <1>3, <1>4 DEF BufferInv

LEMMA NextBuffers ==
  ASSUME BufferInv, [CacheNext]_cacheVars
  PROVE  BufferInv'
<1>1. ASSUME NEW u \in CacheUsers, GetSector(u) PROVE BufferInv'
  BY <1>1, HitBuffers, MissBuffers DEF GetSector
<1>2. ASSUME NEW u \in CacheUsers, Store(u) PROVE BufferInv'
  BY <1>2, StoreBuffers
<1>3. ASSUME NEW u \in CacheUsers, MarkDirty(u) PROVE BufferInv'
  BY <1>3, MarkBuffers
<1>4. ASSUME NEW u \in CacheUsers, FreeSector(u) PROVE BufferInv'
  BY <1>4, FreeBuffers
<1>5. CASE Synchronize \/ Close \/ FlushWrite \/ FlushClear \/ Closed
  BY <1>5, FlushBuffers
<1>6. CASE UNCHANGED cacheVars
  <2>1. CacheTypeOK'
    BY <1>6, CacheTypes, NextCacheTypes DEF BufferInv, cacheVars
  <2> QED
    BY <1>6, <2>1, SameUse DEF cacheVars
<1> QED
  BY <1>1, <1>2, <1>3, <1>4, <1>5, <1>6 DEF CacheNext

-----------------------------------------------------------------------------
(* Every sector is the latest where it is looked for                       *)

Overwritten(b) == \E u \in CacheUsers : user[u].b = b /\ user[u].does = "overwrites"
Changed(b) == \E u \in CacheUsers : user[u].b = b /\ user[u].does \in {"overwrites", "has stored"}

\* Nobody stores between the two steps in which Flush writes a buffer and marks it clean.
OneCore == ~cache.cores

LatestKept == \A b \in Buffers : buffer[b].nSector # NoSector => buffer[b].latest \/ Overwritten(b)

\* What is not marked dirty is on the disk, but for what a user is about to mark.
CleanOnDisk ==
  \A b \in Buffers : buffer[b].nSector # NoSector /\ ~buffer[b].bDirty
                     => disk[buffer[b].nSector] \/ Changed(b)

DiskLatest == \A s \in Sectors : Holding(s) = {} => disk[s]

WrittenOnDisk ==
  flush.b # 0 /\ flush.written /\ buffer[flush.b].nSector # NoSector
    => disk[buffer[flush.b].nSector] \/ Changed(flush.b)

\* Flush has left no dirty buffer behind it.
NoneLeftDirty ==
  cache.state = "closing" =>
    \A n \in Buffers : Dirty(FromLast[n]) => \E p \in Buffers : flush.b = FromLast[p] /\ n <= p

DataInv == OneCore /\ LatestKept /\ CleanOnDisk /\ DiskLatest /\ WrittenOnDisk /\ NoneLeftDirty

CacheInv == BufferInv /\ DataInv

LEMMA SameData ==
  ASSUME DataInv, UNCHANGED <<buffer, disk, user>>
  PROVE  LatestKept' /\ CleanOnDisk' /\ DiskLatest'
<1>1. \A c \in Buffers : (Overwritten(c)' <=> Overwritten(c)) /\ (Changed(c)' <=> Changed(c))
  BY DEF Overwritten, Changed
<1>2. LatestKept'
  BY <1>1 DEF DataInv, LatestKept
<1>3. CleanOnDisk'
  BY <1>1 DEF DataInv, CleanOnDisk
<1>4. DiskLatest'
  BY DEF DataInv, DiskLatest, Holding
<1> QED
  BY <1>2, <1>3, <1>4

\* A user's step: Flush is not at a buffer.
LEMMA UserStepData ==
  ASSUME DataInv, MayRun, UNCHANGED flush, cache'.cores = cache.cores, cache'.state # "closing",
         LatestKept', CleanOnDisk', DiskLatest'
  PROVE  DataInv'
BY DEF DataInv, MayRun, ListFree, OneCore, WrittenOnDisk, NoneLeftDirty

LEMMA OthersGoOn ==
  ASSUME NEW u \in CacheUsers, \A v \in CacheUsers \ {u} : user'[v] = user[v], NEW c \in Buffers
  PROVE  /\ Overwritten(c) => Overwritten(c)' \/ (user[u].b = c /\ user[u].does = "overwrites")
         /\ Changed(c) => \/ Changed(c)'
                          \/ user[u].b = c /\ user[u].does \in {"overwrites", "has stored"}
BY DEF Overwritten, Changed

LEMMA HitData ==
  ASSUME CacheInv, NEW u \in CacheUsers, NEW s \in Sectors, NEW writeOnly \in BOOLEAN,
         MayRun, user[u].b = 0, Hit(u, s, writeOnly)
  PROVE  DataInv'
<1>1. PICK b \in Holding(s) :
        /\ buffer' = [buffer EXCEPT ![b].nUseCount = @ + 1]
        /\ Got(u, b, writeOnly)
        /\ UNCHANGED <<disk, flush, cache>>
  BY DEF Hit
<1>2. buffer \in [Buffers -> BufferData] /\ user \in [CacheUsers -> Uses]
  BY CacheTypes DEF CacheInv, BufferInv
<1>3. \A c \in Buffers : /\ buffer'[c].nSector = buffer[c].nSector
                         /\ buffer'[c].bDirty = buffer[c].bDirty
                         /\ buffer'[c].latest = buffer[c].latest
  BY <1>1, <1>2 DEF BufferData
<1>4. \A v \in CacheUsers \ {u} : user'[v] = user[v]
  BY <1>1, <1>2 DEF Got
<1>5. \A c \in Buffers : (Overwritten(c) => Overwritten(c)') /\ (Changed(c) => Changed(c)')
  BY <1>4, OthersGoOn, BuffersFacts
<1>6. LatestKept' /\ CleanOnDisk' /\ DiskLatest'
  BY <1>1, <1>3, <1>5
     DEF CacheInv, DataInv, LatestKept, CleanOnDisk, DiskLatest, Holding
<1> QED
  BY <1>1, <1>6, UserStepData DEF CacheInv, MayRun

LEMMA MissData ==
  ASSUME CacheInv, NEW u \in CacheUsers, NEW s \in Sectors, NEW writeOnly \in BOOLEAN,
         MayRun, user[u].b = 0, Miss(u, s, writeOnly)
  PROVE  DataInv'
<1>0. /\ buffer \in [Buffers -> BufferData] /\ user \in [CacheUsers -> Uses]
      /\ disk \in [Sectors -> BOOLEAN]
      /\ cache \in [state : {"open", "closing", "closed", "fault"}, cores : BOOLEAN]
  BY CacheTypes DEF CacheInv, BufferInv
<1>1. CASE Victims = {}
  <2>1. /\ cache' = [cache EXCEPT !.state = "fault"]
        /\ UNCHANGED <<buffer, disk, user, flush>>
    BY <1>1 DEF Miss
  <2>2. cache'.state = "fault" /\ cache'.cores = cache.cores
    BY <1>0, <2>1
  <2>3. LatestKept' /\ CleanOnDisk' /\ DiskLatest'
    BY <2>1, SameData DEF CacheInv
  <2> QED
    BY <2>1, <2>2, <2>3, UserStepData DEF CacheInv
<1>2. CASE Victims # {}
  <2> DEFINE b == Nearest(Victims)
  <2>1. /\ disk' = Evicted(b)
        /\ buffer' = [buffer EXCEPT ![b] = [nSector |-> s, nUseCount |-> 1, bDirty |-> FALSE,
                                            latest |-> ~writeOnly /\ disk[s]]]
        /\ Got(u, b, writeOnly)
        /\ UNCHANGED <<cache, flush>>
    BY <1>2 DEF Miss
  <2>2. b \in Victims
    BY <1>2, NearestFound DEF CacheInv, BufferInv, Victims, Holding
  <2>3. b \in Buffers /\ \A v \in CacheUsers : user[v].b # b
    BY <2>2, VictimUnused DEF CacheInv
  <2> HIDE DEF b
  <2>4. /\ buffer'[b].nSector = s /\ buffer'[b].latest = (~writeOnly /\ disk[s])
        /\ \A c \in Buffers \ {b} : buffer'[c] = buffer[c]
    BY <1>0, <2>1, <2>3
  <2>5. /\ user'[u] = [b |-> b, does |-> IF writeOnly THEN "overwrites" ELSE "reads"]
        /\ \A v \in CacheUsers \ {u} : user'[v] = user[v]
    BY <1>0, <2>1 DEF Got
  <2>6. \A c \in Buffers : (Overwritten(c) => Overwritten(c)') /\ (Changed(c) => Changed(c)')
    BY <2>5, OthersGoOn, BuffersFacts
  <2>7. /\ \A c \in Buffers : buffer[c].nSector # s
        /\ disk[s]
    BY DEF Miss, Holding, CacheInv, DataInv, DiskLatest
  \* The sector that was in the buffer is on the disk now.
  <2>8. /\ \A t \in Sectors : t # buffer[b].nSector => disk'[t] = disk[t]
        /\ buffer[b].nSector # NoSector => disk'[buffer[b].nSector]
    <3>1. buffer[b].nSector # NoSector => buffer[b].latest
      BY <2>3 DEF CacheInv, DataInv, LatestKept, Overwritten
    <3>2. buffer[b].nSector # NoSector /\ ~buffer[b].bDirty => disk[buffer[b].nSector]
      BY <2>3 DEF CacheInv, DataInv, CleanOnDisk, Changed
    <3>3. buffer[b].nSector \in Sectors \cup {NoSector}
      BY <1>0, <2>3 DEF BufferData
    <3> QED
      BY <1>0, <2>1, <3>1, <3>2, <3>3 DEF Evicted
  <2>9. LatestKept'
    <3>1. ASSUME NEW c \in Buffers, buffer'[c].nSector # NoSector
          PROVE  buffer'[c].latest \/ Overwritten(c)'
      <4>1. CASE c = b
        <5>1. user'[u].b = c /\ (writeOnly => user'[u].does = "overwrites")
          BY <2>5, <4>1
        <5> QED
          BY <2>4, <2>7, <4>1, <5>1 DEF Overwritten
      <4>2. CASE c # b
        BY <2>4, <2>6, <3>1, <4>2 DEF CacheInv, DataInv, LatestKept
      <4> QED
        BY <4>1, <4>2
    <3> QED
      BY <3>1 DEF LatestKept
  <2>10. CleanOnDisk'
    <3>1. ASSUME NEW c \in Buffers, buffer'[c].nSector # NoSector, ~buffer'[c].bDirty
          PROVE  disk'[buffer'[c].nSector] \/ Changed(c)'
      <4>1. CASE c = b
        BY <2>3, <2>4, <2>7, <2>8, <4>1
      <4>2. CASE c # b
        <5>1. buffer'[c] = buffer[c] /\ buffer[c].nSector # buffer[b].nSector
          BY <2>3, <2>4, <3>1, <4>2 DEF CacheInv, BufferInv, OneBuffer
        <5>2. buffer[c].nSector \in Sectors
          BY <1>0, <3>1, <5>1 DEF BufferData
        <5>3. disk[buffer[c].nSector] \/ Changed(c)
          BY <3>1, <5>1 DEF CacheInv, DataInv, CleanOnDisk
        <5> QED
          BY <2>6, <2>8, <5>1, <5>2, <5>3
      <4> QED
        BY <4>1, <4>2
    <3> QED
      BY <3>1 DEF CleanOnDisk
  <2>11. DiskLatest'
    <3>1. ASSUME NEW t \in Sectors, Holding(t)' = {} PROVE disk'[t]
      <4>1. CASE t = buffer[b].nSector
        BY <2>8, <4>1, CacheAssumption
      <4>2. CASE t # buffer[b].nSector
        <5>1. Holding(t) = {}
          BY <2>4, <3>1, <4>2 DEF Holding
        <5> QED
          BY <2>8, <4>2, <5>1 DEF CacheInv, DataInv, DiskLatest
      <4> QED
        BY <4>1, <4>2
    <3> QED
      BY <3>1 DEF DiskLatest
  <2> QED
    BY <2>1, <2>9, <2>10, <2>11, UserStepData DEF CacheInv, MayRun
<1> QED
  BY <1>1, <1>2

LEMMA StoreData ==
  ASSUME CacheInv, NEW u \in CacheUsers, Store(u)
  PROVE  DataInv'
<1>0. /\ buffer \in [Buffers -> BufferData] /\ user \in [CacheUsers -> Uses]
      /\ disk \in [Sectors -> BOOLEAN]
  BY CacheTypes DEF CacheInv, BufferInv
<1> DEFINE b == user[u].b
<1>1. /\ MayRun /\ b \in Buffers /\ buffer[b].nSector # NoSector
      /\ buffer' = [buffer EXCEPT ![b].latest = TRUE]
      /\ disk' = [disk EXCEPT ![buffer[b].nSector] = FALSE]
      /\ user' = [user EXCEPT ![u].does = "has stored"]
      /\ UNCHANGED <<flush, cache>>
  BY <1>0 DEF Store, Uses, CacheInv, BufferInv, UsersTrue
<1>2. /\ user'[u].b = b /\ user'[u].does = "has stored"
      /\ \A v \in CacheUsers \ {u} : user'[v] = user[v]
      /\ user[u].b = b
  BY <1>0, <1>1 DEF Uses
<1> HIDE DEF b
<1>3. \A c \in Buffers : /\ buffer'[c].nSector = buffer[c].nSector
                         /\ buffer'[c].bDirty = buffer[c].bDirty
                         /\ buffer'[c].latest = IF c = b THEN TRUE ELSE buffer[c].latest
  BY <1>0, <1>1 DEF BufferData
<1>4. \A c \in Buffers : /\ c # b => (Overwritten(c) => Overwritten(c)')
                         /\ Changed(c) => Changed(c)'
  <2>1. ASSUME NEW c \in Buffers, c = b PROVE Changed(c)'
    BY <1>2, <2>1 DEF Changed
  <2> QED
    BY <1>2, <2>1, OthersGoOn
<1>5. LatestKept'
  BY <1>3, <1>4 DEF CacheInv, DataInv, LatestKept
<1>6. CleanOnDisk'
  <2>1. ASSUME NEW c \in Buffers, buffer'[c].nSector # NoSector, ~buffer'[c].bDirty
        PROVE  disk'[buffer'[c].nSector] \/ Changed(c)'
    <3>1. CASE c = b
      BY <1>2, <3>1 DEF Changed
    <3>2. CASE c # b
      <4>1. buffer[c].nSector # buffer[b].nSector
        BY <1>1, <1>3, <2>1, <3>2 DEF CacheInv, BufferInv, OneBuffer
      <4>2. disk[buffer[c].nSector] \/ Changed(c)
        BY <1>3, <2>1 DEF CacheInv, DataInv, CleanOnDisk
      <4>3. buffer[c].nSector \in Sectors
        BY <1>0, <1>3, <2>1 DEF BufferData
      <4> QED
        BY <1>0, <1>1, <1>3, <1>4, <4>1, <4>2, <4>3
    <3> QED
      BY <3>1, <3>2
  <2> QED
    BY <2>1 DEF CleanOnDisk
<1>7. DiskLatest'
  <2>1. ASSUME NEW t \in Sectors, Holding(t)' = {} PROVE disk'[t]
    <3>1. Holding(t) = {} /\ t # buffer[b].nSector
      BY <1>1, <1>3, <2>1 DEF Holding
    <3> QED
      BY <1>0, <1>1, <3>1 DEF CacheInv, DataInv, DiskLatest
  <2> QED
    BY <2>1 DEF DiskLatest
<1> QED
  BY <1>1, <1>5, <1>6, <1>7, UserStepData DEF CacheInv, MayRun

LEMMA MarkData ==
  ASSUME CacheInv, NEW u \in CacheUsers, MarkDirty(u)
  PROVE  DataInv'
<1>0. /\ buffer \in [Buffers -> BufferData] /\ user \in [CacheUsers -> Uses]
  BY CacheTypes DEF CacheInv, BufferInv
<1> DEFINE b == user[u].b
<1>1. /\ MayRun /\ user[u].does = "has stored"
      /\ buffer' = [buffer EXCEPT ![b].bDirty = TRUE]
      /\ user' = [user EXCEPT ![u].does = "reads"]
      /\ UNCHANGED <<disk, flush, cache>>
  BY DEF MarkDirty
<1>2. /\ \A v \in CacheUsers \ {u} : user'[v] = user[v]
      /\ user[u].b = b
  BY <1>0, <1>1 DEF Uses
<1> HIDE DEF b
<1>3. \A c \in Buffers : /\ buffer'[c].nSector = buffer[c].nSector
                         /\ buffer'[c].bDirty = IF c = b THEN TRUE ELSE buffer[c].bDirty
                         /\ buffer'[c].latest = buffer[c].latest
  BY <1>0, <1>1 DEF BufferData
<1>4. \A c \in Buffers : /\ Overwritten(c) => Overwritten(c)'
                         /\ c # b => (Changed(c) => Changed(c)')
  BY <1>1, <1>2, OthersGoOn
<1>5. LatestKept' /\ CleanOnDisk' /\ DiskLatest'
  BY <1>1, <1>3, <1>4 DEF CacheInv, DataInv, LatestKept, CleanOnDisk, DiskLatest, Holding
<1> QED
  BY <1>1, <1>5, UserStepData DEF CacheInv, MayRun

LEMMA FreeData ==
  ASSUME CacheInv, NEW u \in CacheUsers, FreeSector(u)
  PROVE  DataInv'
<1>0. /\ buffer \in [Buffers -> BufferData] /\ user \in [CacheUsers -> Uses]
  BY CacheTypes DEF CacheInv, BufferInv
<1>1. /\ MayRun /\ user[u].does = "reads"
      /\ buffer' = [buffer EXCEPT ![user[u].b].nUseCount = @ - 1]
      /\ user' = [user EXCEPT ![u] = [b |-> 0, does |-> "nothing"]]
      /\ UNCHANGED <<disk, flush, cache>>
  BY DEF FreeSector
<1>2. \A v \in CacheUsers \ {u} : user'[v] = user[v]
  BY <1>0, <1>1
<1>3. \A c \in Buffers : /\ buffer'[c].nSector = buffer[c].nSector
                         /\ buffer'[c].bDirty = buffer[c].bDirty
                         /\ buffer'[c].latest = buffer[c].latest
  BY <1>0, <1>1 DEF BufferData
<1>4. \A c \in Buffers : (Overwritten(c) => Overwritten(c)') /\ (Changed(c) => Changed(c)')
  BY <1>1, <1>2, OthersGoOn
<1>5. LatestKept' /\ CleanOnDisk' /\ DiskLatest'
  BY <1>1, <1>3, <1>4 DEF CacheInv, DataInv, LatestKept, CleanOnDisk, DiskLatest, Holding
<1> QED
  BY <1>1, <1>5, UserStepData DEF CacheInv, MayRun

LEMMA BeginsData ==
  ASSUME CacheInv, NEW state \in {"open", "closing"}, Begins(state)
  PROVE  DataInv'
<1>0. cache \in [state : {"open", "closing", "closed", "fault"}, cores : BOOLEAN]
  BY CacheTypes DEF CacheInv, BufferInv
<1>1. /\ flush' = Comes(m_BufferList.pFirst) /\ cache' = [cache EXCEPT !.state = state]
      /\ UNCHANGED <<buffer, m_BufferList, disk, user>>
  BY DEF Begins
<1>2. LatestKept' /\ CleanOnDisk' /\ DiskLatest'
  BY <1>1, SameData DEF CacheInv
<1>3. OneCore' /\ WrittenOnDisk'
  BY <1>0, <1>1 DEF Comes, WrittenOnDisk, CacheInv, DataInv, OneCore
<1>4. NoneLeftDirty'
  <2>1. PICK o \in Orders : ListIs(m_BufferList, o)
    BY DEF CacheInv, BufferInv, ListKept
  <2>2. FromLast = o
    BY <2>1, FromLastIs
  <2>3. FromLast' = FromLast /\ \A b \in Buffers : Dirty(b)' <=> Dirty(b)
    BY <1>1 DEF FromLast, Dirty
  <2>4. m_BufferList.pFirst = o[FAT_BUFFERS] /\ o[FAT_BUFFERS] # 0 /\ FAT_BUFFERS \in Buffers
    BY <2>1, BuffersFacts DEF ListIs, Orders
  <2>5. flush'.b = DirtyFrom(o[FAT_BUFFERS])
    BY <1>1, <2>4 DEF Comes
  <2>6. ASSUME NEW n \in Buffers, Dirty(o[n])
        PROVE  \E p \in Buffers : flush'.b = o[p] /\ n <= p
    <3>1. n \in 1 .. FAT_BUFFERS /\ \A q \in 1 .. FAT_BUFFERS : q \in Buffers
      BY BuffersFacts
    <3>2. flush'.b # 0
      BY <2>2, <2>4, <2>5, <2>6, <3>1, DirtyFound
    <3>3. \E q \in 1 .. FAT_BUFFERS : flush'.b = o[q] /\ n <= q
      BY <2>2, <2>4, <2>5, <2>6, <3>1, <3>2, DirtyFound
    <3> QED
      BY <3>1, <3>3
  <2>7. \A n \in Buffers : o[n] \in Buffers
    BY DEF Orders
  <2> QED
    BY <2>2, <2>3, <2>6, <2>7 DEF NoneLeftDirty
<1> QED
  BY <1>2, <1>3, <1>4 DEF DataInv

LEMMA WriteData ==
  ASSUME CacheInv, FlushWrite
  PROVE  DataInv'
<1>0. /\ buffer \in [Buffers -> BufferData] /\ disk \in [Sectors -> BOOLEAN]
      /\ flush \in [b : Buffers \cup {0}, written : BOOLEAN]
  BY CacheTypes DEF CacheInv, BufferInv
<1>1. PICK b \in Buffers :
        /\ b = flush.b /\ b # 0
        /\ disk' = [disk EXCEPT ![buffer[b].nSector] = buffer[b].latest]
        /\ flush' = [flush EXCEPT !.written = TRUE]
        /\ UNCHANGED <<buffer, m_BufferList, user, cache>>
  BY <1>0 DEF FlushWrite
<1>2. flush'.b = b
  BY <1>0, <1>1
<1>3. \A c \in Buffers : /\ (Overwritten(c)' <=> Overwritten(c)) /\ (Changed(c)' <=> Changed(c))
                         /\ Overwritten(c) => Changed(c)
  BY <1>1 DEF Overwritten, Changed
<1>4. LatestKept'
  BY <1>1, <1>3 DEF CacheInv, DataInv, LatestKept
<1>5. buffer[b].nSector # NoSector => disk'[buffer[b].nSector] \/ Changed(b)
  <2>1. buffer[b].nSector # NoSector => buffer[b].nSector \in Sectors
    BY <1>0 DEF BufferData
  <2> QED
    BY <1>0, <1>1, <1>3, <2>1 DEF CacheInv, DataInv, LatestKept
<1>6. CleanOnDisk'
  <2>1. ASSUME NEW c \in Buffers, buffer[c].nSector # NoSector, ~buffer[c].bDirty
        PROVE  disk'[buffer[c].nSector] \/ Changed(c)
    <3>1. CASE c = b
      BY <1>5, <2>1, <3>1
    <3>2. CASE c # b
      <4>1. buffer[c].nSector # buffer[b].nSector
        BY <2>1, <3>2 DEF CacheInv, BufferInv, OneBuffer
      <4>2. buffer[c].nSector \in Sectors
        BY <1>0, <2>1 DEF BufferData
      <4> QED
        BY <1>0, <1>1, <2>1, <4>1, <4>2 DEF CacheInv, DataInv, CleanOnDisk
    <3> QED
      BY <3>1, <3>2
  <2> QED
    BY <1>1, <1>3, <2>1 DEF CleanOnDisk
<1>7. DiskLatest'
  <2>1. ASSUME NEW t \in Sectors, Holding(t) = {} PROVE disk'[t]
    <3>1. t # buffer[b].nSector
      BY <2>1 DEF Holding
    <3> QED
      BY <1>0, <1>1, <2>1, <3>1 DEF CacheInv, DataInv, DiskLatest
  <2> QED
    BY <1>1, <2>1 DEF DiskLatest, Holding
<1>8. OneCore' /\ WrittenOnDisk'
  BY <1>1, <1>2, <1>3, <1>5 DEF CacheInv, DataInv, OneCore, WrittenOnDisk
<1>9. NoneLeftDirty'
  BY <1>1, <1>2 DEF CacheInv, DataInv, NoneLeftDirty, FromLast, Dirty
<1> QED
  BY <1>4, <1>6, <1>7, <1>8, <1>9 DEF DataInv

LEMMA ClearData ==
  ASSUME CacheInv, FlushClear
  PROVE  DataInv'
<1>0. /\ buffer \in [Buffers -> BufferData] /\ m_BufferList \in Lists
      /\ flush \in [b : Buffers \cup {0}, written : BOOLEAN]
  BY CacheTypes DEF CacheInv, BufferInv
<1>1. PICK b \in Buffers :
        /\ b = flush.b /\ b # 0 /\ flush.written
        /\ buffer' = [buffer EXCEPT ![b].bDirty = FALSE]
        /\ flush' = Comes(m_BufferList.pNext[b])
        /\ UNCHANGED <<m_BufferList, disk, user, cache>>
  BY <1>0 DEF FlushClear
<1>2. \A c \in Buffers : /\ buffer'[c].nSector = buffer[c].nSector
                         /\ buffer'[c].latest = buffer[c].latest
                         /\ buffer'[c].bDirty = IF c = b THEN FALSE ELSE buffer[c].bDirty
  BY <1>0, <1>1 DEF BufferData
<1>3. \A c \in Buffers : (Overwritten(c)' <=> Overwritten(c)) /\ (Changed(c)' <=> Changed(c))
  BY <1>1 DEF Overwritten, Changed
<1>4. LatestKept'
  BY <1>2, <1>3 DEF CacheInv, DataInv, LatestKept
<1>5. CleanOnDisk'
  <2>1. ASSUME NEW c \in Buffers, buffer[c].nSector # NoSector, c = b \/ ~buffer[c].bDirty
        PROVE  disk[buffer[c].nSector] \/ Changed(c)
    BY <1>1, <2>1 DEF CacheInv, DataInv, CleanOnDisk, WrittenOnDisk
  <2> QED
    BY <1>1, <1>2, <1>3, <2>1 DEF CleanOnDisk
<1>6. DiskLatest'
  BY <1>1, <1>2 DEF CacheInv, DataInv, DiskLatest, Holding
<1>7. OneCore' /\ WrittenOnDisk'
  BY <1>1 DEF CacheInv, DataInv, OneCore, WrittenOnDisk, Comes
<1>8. NoneLeftDirty'
  <2>1. PICK o \in Orders : ListIs(m_BufferList, o)
    BY DEF CacheInv, BufferInv, ListKept
  <2>2. FromLast = o /\ FromLast' = o
    BY <1>1, <2>1, FromLastIs DEF FromLast
  <2>3. PICK p \in Buffers : b = o[p]
    BY DEF Orders
  <2>4. \A n \in Buffers : o[n] \in Buffers /\ o[n] # 0
    <3>1. \A n \in Buffers : o[n] \in Buffers
      BY DEF Orders
    <3> QED
      BY <3>1, BuffersFacts
  <2>5. ASSUME NEW n \in Buffers, Dirty(o[n])', cache.state = "closing"
        PROVE  \E q \in Buffers : flush'.b = o[q] /\ n <= q
    <3>1. Dirty(o[n]) /\ o[n] # b
      BY <1>2, <2>4, <2>5 DEF Dirty
    <3>2. PICK k \in Buffers : flush.b = o[k] /\ n <= k
      BY <2>2, <2>5, <3>1 DEF CacheInv, DataInv, NoneLeftDirty
    <3>3. k = p /\ n # p
      BY <1>1, <2>3, <3>1, <3>2 DEF Orders
    <3>4. p # 1 /\ p - 1 \in Buffers /\ n \in 1 .. p - 1 /\ \A q \in 1 .. p - 1 : q \in Buffers
      BY <3>2, <3>3, BuffersFacts
    <3>5. m_BufferList.pNext[b] = o[p - 1]
      BY <2>1, <2>3, <3>4 DEF ListIs
    <3>6. flush'.b = DirtyFrom(o[p - 1])
      BY <1>1, <2>4, <3>4, <3>5 DEF Comes
    <3>7. flush'.b # 0
      BY <2>2, <3>1, <3>4, <3>6, DirtyFound
    <3>8. \E q \in 1 .. p - 1 : flush'.b = o[q] /\ n <= q
      BY <2>2, <3>1, <3>4, <3>6, <3>7, DirtyFound
    <3> QED
      BY <3>4, <3>8
  <2> QED
    BY <1>1, <2>2, <2>5 DEF NoneLeftDirty
<1> QED
  BY <1>4, <1>5, <1>6, <1>7, <1>8 DEF DataInv

LEMMA ClosedData ==
  ASSUME CacheInv, Closed
  PROVE  DataInv'
<1>0. /\ buffer \in [Buffers -> BufferData]
      /\ cache \in [state : {"open", "closing", "closed", "fault"}, cores : BOOLEAN]
  BY CacheTypes DEF CacheInv, BufferInv
<1>1. /\ cache.state = "closing" /\ flush.b = 0 /\ cache' = [cache EXCEPT !.state = "closed"]
      /\ buffer' = [b \in Buffers |-> [buffer[b] EXCEPT !.nSector = NoSector]]
      /\ UNCHANGED <<m_BufferList, disk, user, flush>>
  BY DEF Closed, ListFree
<1>2. \A b \in Buffers : buffer'[b].nSector = NoSector
  BY <1>0, <1>1 DEF BufferData
<1>3. \A s \in Sectors : disk[s]
  <2>1. PICK o \in Orders : FromLast = o
    BY FromLastIs DEF CacheInv, BufferInv, ListKept
  <2>2. ASSUME NEW b \in Buffers PROVE ~Dirty(b)
    <3>1. PICK n \in Buffers : o[n] = b
      BY DEF Orders
    <3>2. \A p \in Buffers : o[p] # 0
      BY BuffersFacts DEF Orders
    <3> QED
      BY <1>1, <2>1, <3>1, <3>2 DEF CacheInv, DataInv, NoneLeftDirty
  <2>3. \A b \in Buffers : ~Changed(b)
    BY <1>1, BuffersFacts DEF Changed, CacheInv, BufferInv, NoneOpen
  <2>4. ASSUME NEW s \in Sectors, NEW b \in Holding(s) PROVE disk[s]
    <3>1. b \in Buffers /\ buffer[b].nSector = s /\ s # NoSector /\ ~buffer[b].bDirty
      BY <2>2, CacheAssumption DEF Holding, Dirty
    <3> QED
      BY <2>3, <3>1 DEF CacheInv, DataInv, CleanOnDisk
  <2> QED
    BY <2>4 DEF CacheInv, DataInv, DiskLatest
<1>4. LatestKept' /\ CleanOnDisk' /\ DiskLatest'
  BY <1>1, <1>2, <1>3 DEF LatestKept, CleanOnDisk, DiskLatest
<1>5. OneCore' /\ WrittenOnDisk' /\ NoneLeftDirty'
  BY <1>0, <1>1 DEF CacheInv, DataInv, OneCore, WrittenOnDisk, NoneLeftDirty
<1> QED
  BY <1>4, <1>5 DEF DataInv

LEMMA InitData ==
  ASSUME CacheInit, SeveralCores = {FALSE}
  PROVE  DataInv
BY DEF CacheInit, DataInv, OneCore, LatestKept, CleanOnDisk, DiskLatest, WrittenOnDisk,
       NoneLeftDirty

LEMMA NextData ==
  ASSUME CacheInv, [CacheNext]_cacheVars
  PROVE  DataInv'
<1>1. ASSUME NEW u \in CacheUsers, GetSector(u) PROVE DataInv'
  BY <1>1, HitData, MissData DEF GetSector
<1>2. ASSUME NEW u \in CacheUsers, Store(u) PROVE DataInv'
  BY <1>2, StoreData
<1>3. ASSUME NEW u \in CacheUsers, MarkDirty(u) PROVE DataInv'
  BY <1>3, MarkData
<1>4. ASSUME NEW u \in CacheUsers, FreeSector(u) PROVE DataInv'
  BY <1>4, FreeData
<1>5. CASE Synchronize \/ Close
  BY <1>5, BeginsData DEF Synchronize, Close
<1>6. CASE FlushWrite \/ FlushClear \/ Closed
  BY <1>6, WriteData, ClearData, ClosedData
<1>7. CASE UNCHANGED cacheVars
  <2>1. LatestKept' /\ CleanOnDisk' /\ DiskLatest'
    BY <1>7, SameData DEF CacheInv, cacheVars
  <2>2. OneCore'
    BY <1>7 DEF CacheInv, DataInv, OneCore, cacheVars
  <2>3. WrittenOnDisk'
    BY <1>7 DEF CacheInv, DataInv, WrittenOnDisk, Changed, cacheVars
  <2>4. NoneLeftDirty'
    BY <1>7 DEF CacheInv, DataInv, NoneLeftDirty, FromLast, Dirty, cacheVars
  <2> QED
    BY <2>1, <2>2, <2>3, <2>4 DEF DataInv
<1> QED
  BY <1>1, <1>2, <1>3, <1>4, <1>5, <1>6, <1>7 DEF CacheNext

-----------------------------------------------------------------------------
(* The theorems                                                            *)

LEMMA ExactBuffers == BufferInv => BuffersExact
<1> SUFFICES ASSUME BufferInv PROVE BuffersExact
  OBVIOUS
<1>1. PICK o \in Orders : ListIs(m_BufferList, o)
  BY DEF BufferInv, ListKept
<1>2. ASSUME NEW s \in Sectors PROVE Cardinality(Holding(s)) <= 1
  <2>1. CASE Holding(s) = {}
    BY <2>1, FS_EmptySet
  <2>2. CASE Holding(s) # {}
    <3>1. PICK b : b \in Holding(s)
      BY <2>2
    <3>2. Holding(s) = {b}
      BY <3>1, CacheAssumption DEF Holding, BufferInv, OneBuffer
    <3>3. Cardinality({b}) = 1
      BY FS_Singleton
    <3> QED
      BY <3>2, <3>3
  <2> QED
    BY <2>1, <2>2
<1>3. \A b \in Buffers : buffer[b].nUseCount = Cardinality({u \in CacheUsers : user[u].b = b})
  BY DEF BufferInv, CountsTrue, UsersIn
<1>4. {FromLast[n] : n \in Buffers} = Buffers
  BY <1>1, FromLastIs DEF Orders
<1>5. /\ m_BufferList.pPrev[m_BufferList.pFirst] = 0 /\ m_BufferList.pNext[m_BufferList.pLast] = 0
      /\ \A b \in Buffers \ {m_BufferList.pLast} : m_BufferList.pPrev[m_BufferList.pNext[b]] = b
  <2>1. ASSUME NEW b \in Buffers, b # m_BufferList.pLast
        PROVE  m_BufferList.pPrev[m_BufferList.pNext[b]] = b
    <3>1. PICK n \in Buffers : o[n] = b
      BY DEF Orders
    <3>2. n # 1 /\ n - 1 \in Buffers /\ n - 1 # FAT_BUFFERS /\ (n - 1) + 1 = n
      BY <1>1, <2>1, <3>1, BuffersFacts DEF ListIs
    <3> QED
      BY <1>1, <3>1, <3>2 DEF ListIs
  <2> QED
    BY <1>1, <2>1, BuffersFacts DEF ListIs
<1> QED
  BY <1>2, <1>3, <1>4, <1>5 DEF BuffersExact

LEMMA KeptStores == CacheInv => NothingLost
<1> SUFFICES ASSUME CacheInv PROVE NothingLost
  OBVIOUS
<1>1. user \in [CacheUsers -> Uses]
  BY CacheTypes DEF CacheInv, BufferInv
<1>2. ASSUME NEW b \in Buffers, Overwritten(b)
      PROVE  \E u \in CacheUsers : user[u] = [b |-> b, does |-> "overwrites"]
  <2>1. PICK u \in CacheUsers : user[u].b = b /\ user[u].does = "overwrites"
    BY <1>2 DEF Overwritten
  <2>2. user[u] = [b |-> user[u].b, does |-> user[u].does]
    BY <1>1 DEF Uses
  <2> QED
    BY <2>1, <2>2
<1>3. ASSUME NEW s \in Sectors, NEW b \in Holding(s)
      PROVE  buffer[b].latest \/ \E u \in CacheUsers : user[u] = [b |-> b, does |-> "overwrites"]
  <2>1. b \in Buffers /\ buffer[b].nSector # NoSector
    BY CacheAssumption DEF Holding
  <2> QED
    BY <1>2, <2>1 DEF CacheInv, DataInv, LatestKept
<1> QED
  BY <1>3 DEF CacheInv, DataInv, DiskLatest, NothingLost

\* Buffers, the list, users and Flush keep their types, on any number of cores.
THEOREM CacheTypeCorrect == CacheSpec => []CacheTypeOK
<1>1. BufferInv => CacheTypeOK
  BY DEF BufferInv
<1> QED
  BY <1>1, InitBuffers, NextBuffers, PTL DEF CacheSpec

\* GetSector, FreeSector and Flush keep the list and the use counts exact, on any number of cores:
\* no sector gets two buffers, and no buffer that is in use another sector.
THEOREM BuffersAreExact == CacheSpec => []BuffersExact
BY InitBuffers, NextBuffers, ExactBuffers, PTL DEF CacheSpec

\* On one core no store is lost either, by evictions, Synchronize or Close.
THEOREM CacheKeepsAll ==
  ASSUME SeveralCores = {FALSE}
  PROVE  CacheSpec => []CacheKept
<1>1. CacheInit => CacheInv
  BY InitBuffers, InitData DEF CacheInv
<1>2. CacheInv /\ [CacheNext]_cacheVars => CacheInv'
  BY NextBuffers, NextData DEF CacheInv
<1>3. CacheInv => CacheKept
  BY ExactBuffers, KeptStores DEF CacheKept, CacheInv
<1> QED
  BY <1>1, <1>2, <1>3, PTL DEF CacheSpec

-----------------------------------------------------------------------------
(* Places and clusters                                                     *)

\* The clusters that n bytes need, S to a cluster.
Needs(S, n) == (n + S - 1) \div S

\* A multiple that is smaller is smaller by S at least.
LEMMA Products ==
  ASSUME NEW S \in Nat \ {0}, NEW a \in Int, NEW b \in Int, a < b
  PROVE  S * a + S <= S * b
<1>1. S * b = S * a + S * (b - a) /\ b - a >= 1
  OBVIOUS
<1>2. S * (b - a) >= S
  <2> DEFINE x == b - a
  <2>1. x \in Int /\ x >= 1
    OBVIOUS
  <2> HIDE DEF x
  <2>2. S * x >= S
    BY <2>1
  <2> QED
    BY <2>2 DEF x
<1> QED
  BY <1>1, <1>2

\* Division by S, of a number of which the multiple and the rest are known.
LEMMA Quotients ==
  ASSUME NEW S \in Nat \ {0}, NEW q \in Int, NEW r \in 0 .. S - 1
  PROVE  (S * q + r) \div S = q /\ (S * q + r) % S = r
<1> DEFINE n == S * q + r
           p == n \div S
           s == n % S
<1>1. n \in Int /\ p \in Int /\ s \in 0 .. S - 1 /\ n = S * p + s
  OBVIOUS
<1>2. p = q
  <2>1. S * p + s = S * q + r
    BY <1>1
  <2>2. S * p \in Int /\ S * q \in Int
    BY <1>1
  <2> HIDE DEF p, s, n
  <2>3. ~(p < q)
    <3>1. ASSUME p < q PROVE FALSE
      <4>1. S * p + S <= S * q
        BY <1>1, <3>1, Products
      <4> QED
        BY <2>1, <2>2, <4>1, <1>1
    <3> QED
      BY <3>1
  <2>4. ~(q < p)
    <3>1. ASSUME q < p PROVE FALSE
      <4>1. S * q + S <= S * p
        BY <1>1, <3>1, Products
      <4> QED
        BY <2>1, <2>2, <4>1, <1>1
    <3> QED
      BY <3>1
  <2> QED
    BY <1>1, <2>3, <2>4
<1>3. s = r
  BY <1>1, <1>2
<1> QED
  BY <1>2, <1>3

\* A place is told by its cluster and the place in it.
LEMMA Places ==
  ASSUME NEW S \in Nat \ {0}, NEW n \in Nat
  PROVE  /\ n \div S \in Nat /\ n % S \in 0 .. S - 1 /\ n = S * (n \div S) + (n % S)
         /\ \A m \in Nat : m \div S = n \div S /\ m % S = n % S => m = n
<1>1. \A m \in Nat : m = S * (m \div S) + (m % S) /\ m \div S \in Int /\ m % S \in 0 .. S - 1
  OBVIOUS
<1>2. n \div S >= 0
  <2> DEFINE q == n \div S
             r == n % S
  <2>1. q \in Int /\ r \in 0 .. S - 1 /\ n = S * q + r
    BY <1>1
  <2> HIDE DEF q, r
  <2>2. ASSUME q < 0 PROVE FALSE
    <3>1. S * q + S <= S * 0
      BY <2>1, <2>2, Products
    <3>2. S * q \in Int
      BY <2>1
    <3> QED
      BY <2>1, <3>1, <3>2
  <2> QED
    BY <2>1, <2>2 DEF q
<1> QED
  BY <1>1, <1>2

\* The place n is in the last cluster of n + 1 bytes, which a file of n bytes has
\* already if they do not end with a cluster.
LEMMA NeedsOfNext ==
  ASSUME NEW S \in Nat \ {0}, NEW n \in Nat
  PROVE  /\ Needs(S, n) \in Nat /\ Needs(S, 0) = 0
         /\ Needs(S, n + 1) = (n \div S) + 1
         /\ Needs(S, n) = IF n % S = 0 THEN n \div S ELSE (n \div S) + 1
<1> DEFINE q == n \div S
           r == n % S
<1>1. q \in Nat /\ r \in 0 .. S - 1 /\ n = S * q + r
  BY Places
<1> HIDE DEF q, r
<1>2. S * (q + 1) = S * q + S /\ S * q \in Int
  BY <1>1
<1>3. Needs(S, n + 1) = q + 1
  <2>1. (S * (q + 1) + r) \div S = q + 1
    BY <1>1, Quotients
  <2>2. n + 1 + S - 1 = S * (q + 1) + r
    BY <1>1, <1>2
  <2> QED
    BY <2>1, <2>2 DEF Needs
<1>4. Needs(S, n) = IF r = 0 THEN q ELSE q + 1
  <2>1. CASE r = 0
    <3>1. (S * q + (S - 1)) \div S = q
      BY <1>1, Quotients
    <3>2. n + S - 1 = S * q + (S - 1)
      BY <1>1, <1>2, <2>1
    <3> QED
      BY <2>1, <3>1, <3>2 DEF Needs
  <2>2. CASE r # 0
    <3>1. (S * (q + 1) + (r - 1)) \div S = q + 1
      BY <1>1, <2>2, Quotients
    <3>2. n + S - 1 = S * (q + 1) + (r - 1)
      BY <1>1, <1>2
    <3> QED
      BY <2>2, <3>1, <3>2 DEF Needs
  <2> QED
    BY <2>1, <2>2
<1>5. Needs(S, 0) = 0
  <2>1. (S * 0 + (S - 1)) \div S = 0
    BY Quotients
  <2> QED
    BY <2>1 DEF Needs
<1> QED
  BY <1>1, <1>3, <1>4, <1>5 DEF q, r

LEMMA PlaceInFile ==
  ASSUME NEW S \in Nat \ {0}, NEW size \in Nat, NEW n \in 0 .. size - 1
  PROVE  (n \div S) + 1 \in 1 .. Needs(S, size) /\ n % S \in 0 .. S - 1
<1> DEFINE q == n \div S
           r == n % S
           p == size - 1 
           Q == p \div S
           R == p % S
<1>1. n \in Nat /\ p \in Nat /\ size = p + 1 /\ n <= p
  OBVIOUS
<1> HIDE DEF p
<1>2. q \in Nat /\ r \in 0 .. S - 1 /\ n = S * q + r
  BY <1>1, Places
<1>3. Q \in Nat /\ R \in 0 .. S - 1 /\ p = S * Q + R
  BY <1>1, Places
<1>4. Needs(S, size) = Q + 1
  BY <1>1, NeedsOfNext
<1> HIDE DEF q, r, Q, R
<1>5. q <= Q
  <2>1. ASSUME Q < q PROVE FALSE
    <3>1. S * Q + S <= S * q
      BY <1>2, <1>3, <2>1, Products
    <3>2. S * Q \in Int /\ S * q \in Int
      BY <1>2, <1>3
    <3> QED
      BY <1>1, <1>2, <1>3, <3>1, <3>2
  <2> QED
    BY <1>2, <1>3, <2>1
<1> QED
  BY <1>2, <1>3, <1>4, <1>5 DEF q, r

\* A place is the first of its cluster if it is that of a sector, and the sector the
\* first of the cluster.
LEMMA FirstOfCluster ==
  ASSUME NEW s \in Nat \ {0}, NEW k \in Nat \ {0}, NEW n \in Nat
  PROVE  n % (s * k) = 0 <=> n % s = 0 /\ (n \div s) % k = 0
<1> DEFINE q == n \div s
           r == n % s
           p == q \div k
           t == q % k
<1>1. q \in Nat /\ r \in 0 .. s - 1 /\ n = s * q + r
  BY Places
<1>2. p \in Nat /\ t \in 0 .. k - 1 /\ q = k * p + t
  BY <1>1, Places
<1>3. s * k \in Nat \ {0}
  OBVIOUS
<1> HIDE DEF q, r, p, t
<1>4. n = (s * k) * p + (s * t + r)
  <2>1. n = s * (k * p + t) + r
    BY <1>1, <1>2
  <2>2. s * (k * p + t) = (s * k) * p + s * t
    BY <1>2
  <2> QED
    BY <1>1, <1>2, <2>1, <2>2
<1>5. s * t + r \in 0 .. s * k - 1
  <2>1. s * t + s <= s * k
    BY <1>2, Products
  <2>2. s * t \in Nat /\ s * k \in Nat
    BY <1>2
  <2> QED
    BY <1>1, <2>1, <2>2
<1>6. n % (s * k) = s * t + r
  <2> DEFINE M == s * k
             x == s * t + r
  <2>1. M \in Nat \ {0} /\ x \in 0 .. M - 1 /\ n = M * p + x
    BY <1>3, <1>4, <1>5
  <2> HIDE DEF M, x
  <2>2. n % M = x
    BY <1>2, <2>1, Quotients
  <2> QED
    BY <2>2 DEF M, x
<1>7. s * t + r = 0 <=> r = 0 /\ t = 0
  <2>1. ASSUME t # 0 PROVE s * t >= s
    BY <1>2, <2>1, Products
  <2> QED
    BY <1>1, <1>2, <2>1
<1> QED
  BY <1>6, <1>7 DEF q, r, t

-----------------------------------------------------------------------------
(* Chains                                                                  *)

\* The sequence k is a chain in the FAT e.
Linked(e, k) ==
  /\ k \in Seq(Clusters)
  /\ \A i \in 1 .. Len(k) : e[k[i]] = IF i = Len(k) THEN EOC ELSE k[i + 1]
  /\ \A i, j \in 1 .. Len(k) : k[i] = k[j] => i = j

Members(k) == {k[i] : i \in 1 .. Len(k)}
FirstIn(k) == IF k = <<>> THEN 0 ELSE k[1]

\* The values of FAT entries are told apart, and there are m_nClusters clusters.
LEMMA ClustersFacts ==
  /\ m_nClusters \in Nat \ {0}
  /\ EOC \notin Clusters /\ 0 \notin Clusters /\ EOC # 0
  /\ IsFiniteSet(Clusters) /\ Cardinality(Clusters) = m_nClusters
<1>1. m_nClusters \in Nat \ {0}
  BY FilesAssumption
<1>2. IsFiniteSet(2 .. m_nClusters + 1) /\ Cardinality(2 .. m_nClusters + 1) = m_nClusters
  BY <1>1, FS_Interval
<1> QED
  BY <1>1, <1>2 DEF Clusters, EOC

\* A linked sequence has as many clusters as it is long.
LEMMA MembersCounted ==
  ASSUME NEW e, NEW k, Linked(e, k)
  PROVE  /\ Members(k) \subseteq Clusters /\ IsFiniteSet(Members(k))
         /\ Cardinality(Members(k)) = Len(k) /\ Len(k) \in 0 .. m_nClusters
<1>1. Len(k) \in Nat /\ k \in [1 .. Len(k) -> Clusters]
  BY LenProperties DEF Linked
<1>2. Members(k) \subseteq Clusters
  BY <1>1 DEF Members
<1>3. k \in Bijection(1 .. Len(k), Members(k))
  BY <1>1 DEF Bijection, Injection, Surjection, IsInjective, Members, Linked
<1>4. ExistsBijection(1 .. Len(k), Members(k))
  BY <1>3 DEF ExistsBijection
<1>5. Cardinality(Members(k)) = Len(k)
  BY <1>1, <1>4, FS_CountingElements
<1>6. IsFiniteSet(Members(k)) /\ Cardinality(Members(k)) <= m_nClusters
  BY <1>2, ClustersFacts, FS_Subset
<1> QED
  BY <1>1, <1>2, <1>5, <1>6

Follows(a, c, f) ==
  /\ f = [n \in 0 .. m_nClusters |-> f[n]] /\ f[0] = c
  /\ \A n \in 1 .. m_nClusters :
       f[n] = IF f[n - 1] \in Clusters THEN a.entry[f[n - 1]] ELSE f[n - 1]

\* The definition of Chain is one: what goes on as it says is the chain.
LEMMA ChainFollows ==
  ASSUME NEW a, NEW c, NEW f, Follows(a, c, f)
  PROVE  Chain(a, c) = f
<1> DEFINE G(at) == at = [n \in 0 .. m_nClusters |->
                            IF n = 0 THEN c
                            ELSE IF at[n - 1] \in Clusters THEN a.entry[at[n - 1]] ELSE at[n - 1]]
           g == Chain(a, c)
<1>0. m_nClusters \in Nat
  BY ClustersFacts
<1>1. G(f)
  <2>1. \A n \in 0 .. m_nClusters : n = 0 \/ n \in 1 .. m_nClusters
    BY <1>0
  <2>2. \A n \in 0 .. m_nClusters :
          f[n] = IF n = 0 THEN c
                 ELSE IF f[n - 1] \in Clusters THEN a.entry[f[n - 1]] ELSE f[n - 1]
    BY <2>1 DEF Follows
  <2> QED
    BY <2>2 DEF Follows
<1>2. g = CHOOSE at : G(at)
  BY DEF Chain
<1>3. G(g)
  BY <1>1, <1>2
<1> HIDE DEF g
<1>4. \A n \in 0 .. m_nClusters :
        g[n] = IF n = 0 THEN c
               ELSE IF g[n - 1] \in Clusters THEN a.entry[g[n - 1]] ELSE g[n - 1]
  BY <1>3
<1> DEFINE D == {n \in 0 .. m_nClusters : g[n] # f[n]}
<1>5. D = {}
  <2>1. SUFFICES ASSUME D # {} PROVE FALSE
    OBVIOUS
  <2>2. D \in SUBSET Nat
    BY <1>0
  <2> HIDE DEF D
  <2>3. PICK n \in D : \A k \in D : n <= k
    BY <2>1, <2>2, LeastMember
  <2>4. n \in 0 .. m_nClusters /\ g[n] # f[n]
    BY <2>3 DEF D
  <2>5. n # 0
    BY <2>4, <1>4 DEF Follows
  <2>6. n \in 1 .. m_nClusters /\ n - 1 \in 0 .. m_nClusters /\ ~(n <= n - 1)
    BY <2>4, <2>5, <1>0
  <2>7. n - 1 \notin D
    BY <2>3, <2>6
  <2>8. g[n - 1] = f[n - 1]
    BY <2>6, <2>7 DEF D
  <2> QED
    BY <2>4, <2>5, <2>6, <2>8, <1>4 DEF Follows
<1>6. \A n \in 0 .. m_nClusters : g[n] = f[n]
  BY <1>5
<1>7. g = [n \in 0 .. m_nClusters |-> g[n]]
  BY <1>3
<1>8. g = f
  BY <1>6, <1>7 DEF Follows
<1> QED
  BY <1>8 DEF g

\* No cluster belongs to a file whose first cluster is 0.
LEMMA ChainOfNone ==
  ASSUME NEW a
  PROVE  InChain(a, 0) = {}
<1> DEFINE f == [n \in 0 .. m_nClusters |-> 0]
<1>1. \A n \in 0 .. m_nClusters : f[n] = 0
  OBVIOUS
<1>2. f = [n \in 0 .. m_nClusters |-> f[n]] /\ m_nClusters \in Nat
  BY ClustersFacts
<1>3. f[0] = 0 /\ \A n \in 1 .. m_nClusters : f[n] = 0 /\ f[n - 1] = 0
  BY <1>1, <1>2
<1> HIDE DEF f
<1>4. Follows(a, 0, f)
  BY <1>2, <1>3, ClustersFacts DEF Follows
<1>5. Chain(a, 0) = f
  BY <1>4, ChainFollows
<1> QED
  BY <1>1, <1>5, ClustersFacts DEF InChain

\* A linked sequence is the chain that begins with its first cluster, and EOC follows it.
LEMMA ChainOfLinked ==
  ASSUME NEW a, NEW k, Linked(a.entry, k), k # <<>>
  PROVE  /\ \A n \in 0 .. m_nClusters : Chain(a, k[1])[n] = IF n < Len(k) THEN k[n + 1] ELSE EOC
         /\ InChain(a, k[1]) = Members(k)
<1> DEFINE f == [n \in 0 .. m_nClusters |-> IF n < Len(k) THEN k[n + 1] ELSE EOC]
<1>0. /\ m_nClusters \in Nat /\ Len(k) \in 1 .. m_nClusters
      /\ \A i \in 1 .. Len(k) : k[i] \in Clusters
  <2>1. Len(k) \in Nat /\ Len(k) # 0 /\ \A i \in 1 .. Len(k) : k[i] \in Clusters
    BY EmptySeq, ElementOfSeq DEF Linked
  <2> QED
    BY <2>1, ClustersFacts, MembersCounted
<1>1. \A n \in 0 .. m_nClusters : f[n] = IF n < Len(k) THEN k[n + 1] ELSE EOC
  OBVIOUS
<1>2. f = [n \in 0 .. m_nClusters |-> f[n]]
  OBVIOUS
<1> HIDE DEF f
<1>3. f[0] = k[1]
  BY <1>0, <1>1
<1>4. ASSUME NEW n \in 1 .. m_nClusters
      PROVE  f[n] = IF f[n - 1] \in Clusters THEN a.entry[f[n - 1]] ELSE f[n - 1]
  <2>1. n \in 0 .. m_nClusters /\ n - 1 \in 0 .. m_nClusters
    BY <1>0
  <2>2. f[n] = (IF n < Len(k) THEN k[n + 1] ELSE EOC)
    BY <1>1, <2>1
  <2>3. f[n - 1] = (IF n - 1 < Len(k) THEN k[n] ELSE EOC)
    BY <1>1, <2>1
  <2>4. CASE n <= Len(k)
    <3>1. n \in 1 .. Len(k)
      BY <1>0, <2>4
    <3>2. f[n - 1] = k[n] /\ k[n] \in Clusters
      BY <1>0, <2>3, <3>1
    <3>3. a.entry[k[n]] = IF n = Len(k) THEN EOC ELSE k[n + 1]
      BY <3>1 DEF Linked
    <3> QED
      BY <1>0, <2>2, <3>1, <3>2, <3>3
  <2>5. CASE ~(n <= Len(k))
    BY <1>0, <2>2, <2>3, <2>5, ClustersFacts
  <2> QED
    BY <2>4, <2>5
<1>5. Chain(a, k[1]) = f
  <2>1. Follows(a, k[1], f)
    BY <1>2, <1>3, <1>4 DEF Follows
  <2> QED
    BY <2>1, ChainFollows
<1>6. InChain(a, k[1]) = Members(k)
  <2>1. ASSUME NEW i \in 1 .. Len(k) PROVE k[i] \in InChain(a, k[1])
    <3>1. i - 1 \in 0 .. m_nClusters /\ f[i - 1] = k[i] /\ k[i] \in Clusters
      BY <1>0, <1>1
    <3> QED
      BY <3>1, <1>5 DEF InChain
  <2>2. ASSUME NEW n \in 0 .. m_nClusters, f[n] \in Clusters PROVE f[n] \in Members(k)
    <3>1. n < Len(k)
      BY <1>1, <2>2, ClustersFacts
    <3>2. n + 1 \in 1 .. Len(k) /\ f[n] = k[n + 1]
      BY <1>0, <1>1, <3>1
    <3> QED
      BY <3>2 DEF Members
  <2> QED
    BY <2>1, <2>2, <1>5 DEF InChain, Members
<1> QED
  BY <1>1, <1>5, <1>6

\* In both cases: the clusters of the chain that begins with the first one of k.
LEMMA ChainOf ==
  ASSUME NEW a, NEW k, Linked(a.entry, k)
  PROVE  /\ InChain(a, FirstIn(k)) = Members(k)
         /\ Len(k) > 0 => Chain(a, FirstIn(k))[Len(k)] = EOC
<1>1. CASE k = <<>>
  BY <1>1, ChainOfNone DEF FirstIn, Members
<1>2. CASE k # <<>>
  <2>1. Len(k) \in 0 .. m_nClusters
    BY MembersCounted
  <2> QED
    BY <1>2, <2>1, ChainOfLinked DEF FirstIn
<1> QED
  BY <1>1, <1>2

\* What is linked stays linked where nothing of it changes.
LEMMA SameLinks ==
  ASSUME NEW e, NEW e2, NEW k, Linked(e, k), \A c \in Members(k) : e2[c] = e[c]
  PROVE  Linked(e2, k)
BY DEF Linked, Members

\* No cluster of a linked sequence is free.
LEMMA LinkedUsed ==
  ASSUME NEW e, NEW k, Linked(e, k), NEW c \in Members(k)
  PROVE  c \in Clusters /\ e[c] # 0
<1>1. PICK i \in 1 .. Len(k) : c = k[i]
  BY DEF Members
<1>2. Len(k) \in Nat /\ \A j \in 1 .. Len(k) : k[j] \in Clusters
  BY ElementOfSeq DEF Linked
<1>3. i = Len(k) \/ i + 1 \in 1 .. Len(k)
  BY <1>2
<1> QED
  BY <1>1, <1>2, <1>3, ClustersFacts DEF Linked

\* A file without a byte has no cluster.
LEMMA NoneLinked ==
  ASSUME NEW e
  PROVE  Linked(e, <<>>) /\ Members(<<>>) = {} /\ Len(<<>>) = 0
BY DEF Linked, Members

Appends(e, e2, k, c) ==
  /\ Linked(e, k) /\ c \in Clusters /\ e[c] = 0 /\ e2[c] = EOC
  /\ k # <<>> => e2[k[Len(k)]] = c
  /\ \A b \in Members(k) : k # <<>> /\ b # k[Len(k)] => e2[b] = e[b]

\* A free cluster is appended.
LEMMA AppendLinked ==
  ASSUME NEW e, NEW e2, NEW k, NEW c, Appends(e, e2, k, c)
  PROVE  Linked(e2, Append(k, c)) /\ Members(Append(k, c)) = Members(k) \cup {c}
<1>0. /\ Linked(e, k) /\ c \in Clusters /\ e[c] = 0 /\ e2[c] = EOC
      /\ k # <<>> => e2[k[Len(k)]] = c
      /\ \A b \in Members(k) : k # <<>> /\ b # k[Len(k)] => e2[b] = e[b]
  BY DEF Appends
<1>1. k \in Seq(Clusters) /\ Len(k) \in Nat /\ \A i \in 1 .. Len(k) : k[i] \in Clusters
  BY <1>0, ElementOfSeq DEF Linked
<1> DEFINE l == Append(k, c)
<1>2. /\ l \in Seq(Clusters) /\ Len(l) = Len(k) + 1 /\ l[Len(k) + 1] = c
      /\ \A i \in 1 .. Len(k) : l[i] = k[i]
  BY <1>0, <1>1, AppendProperties
<1> HIDE DEF l
<1>3. \A i \in 1 .. Len(k) : k[i] # c
  <2>1. ASSUME NEW i \in 1 .. Len(k) PROVE k[i] # c
    <3>1. k[i] \in Members(k)
      BY DEF Members
    <3> QED
      BY <1>0, <3>1, LinkedUsed
  <2> QED
    BY <2>1
<1>4. ASSUME NEW i \in 1 .. Len(l) PROVE e2[l[i]] = IF i = Len(l) THEN EOC ELSE l[i + 1]
  <2>1. CASE i = Len(k) + 1
    BY <1>0, <1>2, <2>1
  <2>2. CASE i = Len(k)
    <3>1. k # <<>>
      BY <1>1, <2>2
    <3> QED
      BY <1>0, <1>1, <1>2, <2>2, <3>1
  <2>3. CASE i \in 1 .. Len(k) /\ i # Len(k)
    <3>1. k # <<>> /\ i + 1 \in 1 .. Len(k) /\ Len(k) \in 1 .. Len(k)
      BY <1>1, <2>3
    <3>2. k[i] \in Members(k) /\ k[i] # k[Len(k)]
      BY <1>0, <2>3, <3>1 DEF Linked, Members
    <3>3. e2[k[i]] = e[k[i]] /\ e[k[i]] = k[i + 1]
      BY <1>0, <2>3, <3>1, <3>2 DEF Linked
    <3>4. i # Len(l) /\ l[i] = k[i] /\ l[i + 1] = k[i + 1]
      BY <1>1, <1>2, <2>3, <3>1
    <3> QED
      BY <3>3, <3>4
  <2> QED
    BY <1>1, <1>2, <2>1, <2>2, <2>3
<1>5. \A i, j \in 1 .. Len(l) : l[i] = l[j] => i = j
  <2>1. \A i \in 1 .. Len(l) : i = Len(k) + 1 \/ i \in 1 .. Len(k)
    BY <1>1, <1>2
  <2> QED
    BY <1>0, <1>2, <1>3, <2>1 DEF Linked
<1>6. Members(l) = Members(k) \cup {c}
  <2>1. 1 .. Len(l) = 1 .. Len(k) \cup {Len(k) + 1}
    BY <1>1, <1>2
  <2> QED
    BY <1>2, <2>1 DEF Members
<1> QED
  BY <1>2, <1>4, <1>5, <1>6 DEF Linked, l

-----------------------------------------------------------------------------
(* Free clusters                                                           *)

Fats == [entry : [Clusters -> Clusters \cup {0, EOC}], next : Clusters,
         count : 0 .. m_nClusters \cup {FREE_COUNT_UNKNOWN}]

FreeIn(e) == {c \in Clusters : e[c] = 0}

\* What FreeClustersTrue says, of the FAT a.
FatTrue(type, a) ==
  /\ a \in Fats
  /\ \A c \in Clusters : c < a.next => a.entry[c] # 0
  /\ type = "FAT32" => a.count = Cardinality(FreeIn(a.entry))

\* The free clusters are finitely many.
LEMMA FreeCounted ==
  ASSUME NEW e
  PROVE  IsFiniteSet(FreeIn(e)) /\ Cardinality(FreeIn(e)) \in 0 .. m_nClusters
<1>1. FreeIn(e) \in SUBSET Clusters
  BY DEF FreeIn
<1>2. IsFiniteSet(FreeIn(e)) /\ Cardinality(FreeIn(e)) <= m_nClusters
  BY <1>1, ClustersFacts, FS_Subset
<1> QED
  BY <1>2, FS_CardinalityType, ClustersFacts

\* AllocateCluster returns a free cluster, the first one from m_nNextFreeCluster on.
LEMMA FreeClusterFound ==
  ASSUME NEW a \in Fats, FreeCluster(a) # 0
  PROVE  /\ FreeCluster(a) \in Clusters /\ a.entry[FreeCluster(a)] = 0
         /\ a.next <= FreeCluster(a)
         /\ \A d \in Clusters : a.next <= d /\ a.entry[d] = 0 => FreeCluster(a) <= d
<1> DEFINE free == {c \in Clusters : c >= a.next /\ a.entry[c] = 0}
<1>1. free \in SUBSET Nat
  BY ClustersFacts DEF Clusters
<1>2. free # {} /\ FreeCluster(a) = CHOOSE c \in free : \A d \in free : c <= d
  BY DEF FreeCluster
<1>3. \E c \in free : \A d \in free : c <= d
  BY <1>1, <1>2, LeastMember
<1>4. FreeCluster(a) \in free /\ \A d \in free : FreeCluster(a) <= d
  BY <1>2, <1>3
<1>5. a.next \in Int /\ Clusters \subseteq Int
  BY DEF Fats, Clusters
<1> QED
  BY <1>4, <1>5

\* There is a least one among some clusters.
LEMMA LeastFound ==
  ASSUME NEW cs \in SUBSET Clusters, cs # {}
  PROVE  Least(cs) \in cs /\ \A d \in cs : Least(cs) <= d
<1>1. cs \in SUBSET Nat
  BY ClustersFacts DEF Clusters
<1>2. \E c \in cs : \A d \in cs : c <= d
  BY <1>1, LeastMember
<1> QED
  BY <1>2 DEF Least

\* A cluster is allocated: it is the only one that is free no more.
LEMMA AllocatedTrue ==
  ASSUME NEW type, NEW a, FatTrue(type, a), FreeCluster(a) # 0
  PROVE  /\ FatTrue(type, Allocated(a, FreeCluster(a)))
         /\ Allocated(a, FreeCluster(a)).entry = [a.entry EXCEPT ![FreeCluster(a)] = EOC]
<1> DEFINE c == FreeCluster(a)
           b == Allocated(a, c)
           e == [a.entry EXCEPT ![c] = EOC]
<1>1. a \in Fats
  BY DEF FatTrue
<1>2. /\ c \in Clusters /\ a.entry[c] = 0 /\ a.next <= c
      /\ \A d \in Clusters : a.next <= d /\ a.entry[d] = 0 => c <= d
  BY <1>1, FreeClusterFound
<1> HIDE DEF c
<1>3. b.entry = e /\ b.next = (IF c <= m_nClusters THEN c + 1 ELSE 2)
      /\ b.count = IF a.count > 0 THEN a.count - 1 ELSE a.count
  BY DEF Allocated
<1>4. m_nClusters \in Nat \ {0}
  BY ClustersFacts
<1>5. a.entry \in [Clusters -> Clusters \cup {0, EOC}] /\ a.next \in Clusters
      /\ a.count \in 0 .. m_nClusters \cup {-1}
  BY <1>1 DEF Fats, FREE_COUNT_UNKNOWN
<1>6. e \in [Clusters -> Clusters \cup {0, EOC}] /\ e[c] = EOC
      /\ \A d \in Clusters \ {c} : e[d] = a.entry[d]
  BY <1>2, <1>5
<1> HIDE DEF e
<1>7. b \in Fats
  <2>1. b.next \in Clusters
    BY <1>2, <1>3, <1>4 DEF Clusters
  <2>2. b.count \in 0 .. m_nClusters \cup {-1}
    BY <1>3, <1>4, <1>5
  <2>3. b = [entry |-> b.entry, next |-> b.next, count |-> b.count]
    BY DEF Allocated
  <2> HIDE DEF b
  <2> QED
    BY <1>3, <1>6, <2>1, <2>2, <2>3 DEF Fats, FREE_COUNT_UNKNOWN
<1>8. ASSUME NEW d \in Clusters, d < b.next PROVE b.entry[d] # 0
  <2>1. d \in Int /\ c \in Int /\ d >= 2 /\ a.next \in Int
    BY <1>2, <1>4, <1>5 DEF Clusters
  <2>2. b.next = c + 1 /\ d <= c
    BY <1>3, <1>8, <2>1
  <2>3. CASE d = c
    BY <1>3, <1>6, <2>3, ClustersFacts
  <2>4. CASE d < c /\ d < a.next
    <3>1. a.entry[d] # 0
      BY <2>4 DEF FatTrue
    <3> QED
      BY <1>3, <1>6, <2>1, <2>4, <3>1
  <2>5. CASE d < c /\ a.next <= d
    <3>1. a.entry[d] # 0
      BY <1>2, <2>1, <2>5
    <3> QED
      BY <1>3, <1>6, <2>1, <2>5, <3>1
  <2> QED
    BY <2>1, <2>2, <2>3, <2>4, <2>5
<1>9. ASSUME type = "FAT32" PROVE b.count = Cardinality(FreeIn(b.entry))
  <2>1. c \in FreeIn(a.entry) /\ FreeIn(b.entry) = FreeIn(a.entry) \ {c}
    BY <1>2, <1>3, <1>6, ClustersFacts DEF FreeIn
  <2>2. Cardinality(FreeIn(b.entry)) = Cardinality(FreeIn(a.entry)) - 1
    BY <2>1, FreeCounted, FS_RemoveElement
  <2>3. Cardinality(FreeIn(b.entry)) \in Nat /\ Cardinality(FreeIn(a.entry)) \in Nat
    BY FreeCounted, <1>4
  <2>4. a.count = Cardinality(FreeIn(a.entry))
    BY <1>9 DEF FatTrue
  <2> QED
    BY <1>3, <2>2, <2>3, <2>4
<1> QED
  BY <1>3, <1>7, <1>8, <1>9 DEF FatTrue, c, e

\* SetClusterEntry links a used cluster to another one: none gets free.
LEMMA SetTrue ==
  ASSUME NEW type, NEW a, FatTrue(type, a), NEW c \in Clusters, NEW next \in Clusters, a.entry[c] # 0
  PROVE  /\ FatTrue(type, SetClusterEntry(a, c, next))
         /\ SetClusterEntry(a, c, next).entry = [a.entry EXCEPT ![c] = next]
<1> DEFINE b == SetClusterEntry(a, c, next)
           e == [a.entry EXCEPT ![c] = next]
<1>1. a.entry \in [Clusters -> Clusters \cup {0, EOC}] /\ a.next \in Clusters
      /\ a.count \in 0 .. m_nClusters \cup {FREE_COUNT_UNKNOWN}
      /\ a = [entry |-> a.entry, next |-> a.next, count |-> a.count]
  BY DEF FatTrue, Fats
<1>2. e \in [Clusters -> Clusters \cup {0, EOC}] /\ e[c] = next
      /\ \A d \in Clusters \ {c} : e[d] = a.entry[d]
  BY <1>1
<1>3. b = [a EXCEPT !.entry = e]
  BY DEF SetClusterEntry
<1> HIDE DEF b, e
<1>4. b = [entry |-> e, next |-> a.next, count |-> a.count]
  BY <1>1, <1>3
<1>5. b \in Fats /\ b.entry = e /\ b.next = a.next /\ b.count = a.count
  BY <1>1, <1>2, <1>4 DEF Fats
<1>6. FreeIn(e) = FreeIn(a.entry)
  BY <1>2, ClustersFacts DEF FreeIn
<1>7. \A d \in Clusters : d < a.next => e[d] # 0
  BY <1>2, ClustersFacts DEF FatTrue
<1> QED
  BY <1>5, <1>6, <1>7 DEF FatTrue, b, e

\* A chain is freed.
LEMMA FreedTrue ==
  ASSUME NEW type, NEW a, FatTrue(type, a), NEW k, Linked(a.entry, k), k # <<>>
  PROVE  /\ FatTrue(type, FreeClusterChain(a, k[1]))
         /\ FreeClusterChain(a, k[1]).entry =
              [c \in Clusters |-> IF c \in Members(k) THEN 0 ELSE a.entry[c]]
<1> DEFINE b == FreeClusterChain(a, k[1])
           e == [c \in Clusters |-> IF c \in Members(k) THEN 0 ELSE a.entry[c]]
           n == Cardinality(Members(k))
           l == Least({a.next} \cup Members(k))
<1>1. a.entry \in [Clusters -> Clusters \cup {0, EOC}] /\ a.next \in Clusters
      /\ a.count \in 0 .. m_nClusters \cup {-1}
  BY DEF FatTrue, Fats, FREE_COUNT_UNKNOWN
<1>2. InChain(a, k[1]) = Members(k)
  BY ChainOfLinked
<1>3. b.entry = e /\ b.next = l /\ b.count = Freed(a.count, n)
      /\ b = [entry |-> b.entry, next |-> b.next, count |-> b.count]
  BY <1>2 DEF FreeClusterChain
<1>4. Members(k) \subseteq Clusters /\ IsFiniteSet(Members(k)) /\ n \in 0 .. m_nClusters
  BY MembersCounted
<1>5. l \in Clusters /\ l <= a.next /\ \A c \in Members(k) : l <= c
  <2>1. {a.next} \cup Members(k) \in SUBSET Clusters
    BY <1>1, <1>4
  <2> QED
    BY <2>1, LeastFound
<1>6. \A c \in Clusters : e[c] = IF c \in Members(k) THEN 0 ELSE a.entry[c]
  OBVIOUS
<1>7. e \in [Clusters -> Clusters \cup {0, EOC}]
  BY <1>1
<1>8. m_nClusters \in Nat
  BY ClustersFacts
<1> HIDE DEF b, e, n, l
<1>9. Freed(a.count, n) \in 0 .. m_nClusters \cup {-1}
  BY <1>1, <1>4, <1>8 DEF Freed, FREE_COUNT_UNKNOWN
<1>10. b \in Fats
  BY <1>3, <1>5, <1>7, <1>9 DEF Fats, FREE_COUNT_UNKNOWN
<1>11. ASSUME NEW c \in Clusters, c < b.next PROVE b.entry[c] # 0
  <2>1. c < a.next /\ c \notin Members(k)
    <3>1. c \in Int /\ l \in Int /\ a.next \in Int
      BY <1>1, <1>5 DEF Clusters
    <3> QED
      BY <1>3, <1>5, <1>11, <3>1
  <2> QED
    BY <1>3, <1>6, <2>1 DEF FatTrue
<1>12. ASSUME type = "FAT32" PROVE b.count = Cardinality(FreeIn(b.entry))
  <2>1. FreeIn(e) = FreeIn(a.entry) \cup Members(k)
    BY <1>4, <1>6 DEF FreeIn
  <2>2. FreeIn(a.entry) \cap Members(k) = {}
    BY LinkedUsed DEF FreeIn
  <2>3. Cardinality(FreeIn(e)) = Cardinality(FreeIn(a.entry)) + n
    <3>1. Cardinality(FreeIn(a.entry) \cup Members(k)) =
            Cardinality(FreeIn(a.entry)) + n - Cardinality(FreeIn(a.entry) \cap Members(k))
      BY <1>4, FreeCounted, FS_Union DEF n
    <3>2. Cardinality(FreeIn(a.entry)) \in Nat /\ n \in Nat
      BY <1>4, <1>8, FreeCounted
    <3>3. Cardinality(FreeIn(a.entry) \cap Members(k)) = 0
      BY <2>2, FS_EmptySet
    <3> QED
      BY <2>1, <3>1, <3>2, <3>3
  <2>4. Cardinality(FreeIn(e)) \in 0 .. m_nClusters
    BY FreeCounted
  <2>5. a.count = Cardinality(FreeIn(a.entry)) /\ Cardinality(FreeIn(a.entry)) \in 0 .. m_nClusters
    BY <1>12, FreeCounted DEF FatTrue
  <2> QED
    BY <1>3, <1>4, <1>8, <2>3, <2>4, <2>5 DEF Freed, FREE_COUNT_UNKNOWN
<1> QED
  BY <1>3, <1>10, <1>11, <1>12 DEF FatTrue, b, e

-----------------------------------------------------------------------------
(* Files                                                                   *)

\* Two sequences of clusters have none in common.
Apart(k, l) == Members(k) \cap Members(l) = {}

\* The chain k has the bytes of the file t, which has n of them; S is the size of a cluster.
FileIs(S, e, d, k, t, n) ==
  /\ Linked(e, k) /\ Len(k) = Needs(S, n)
  /\ \A p \in 0 .. n - 1 : d[k[(p \div S) + 1]][p % S] = Byte(t, p)

\* Where an open file is: in the cluster of the last byte it has come to.
Position(S, f, k) ==
  /\ f.nUseCount = 1 /\ f.nOffset <= f.nSize
  /\ f.pBuffer = (f.nOffset % SectorSize # 0)
  /\ f.nCluster = IF f.nOffset = 0 THEN FirstIn(k) ELSE k[Needs(S, f.nOffset)]
  /\ f.bWrite => f.nOffset = f.nSize /\ f.nFirstCluster = FirstIn(k)

HandleIs(S, e, d, f, k) ==
  IF f.chTitle \in Titles
  THEN FileIs(S, e, d, k, f.chTitle, f.nSize) /\ Position(S, f, k)
  ELSE k = <<>> /\ f \in {NoFile, Orphan}

EntryIs(S, e, d, r, k) ==
  IF r.Name \in Titles
  THEN FileIs(S, e, d, k, r.Name, r.nFileSize) /\ r.nFirstCluster = FirstIn(k)
  ELSE k = <<>>

\* The root directory's own chain.
RootIs(type, e, r, k) ==
  IF type = "FAT32"
  THEN Linked(e, k) /\ k # <<>> /\ k[1] = RootCluster /\ Len(r) = Len(k) * RootEntries
  ELSE k = <<>>

\* The chains of entries and handles have no cluster in common, unless both are read.
Disjoint(r, m, E, W, R) ==
  /\ \A i, j \in DOMAIN r : i # j => Apart(E[i], E[j])
  /\ \A i \in DOMAIN r : Apart(E[i], R)
  /\ \A h \in Hs : Apart(W[h], R)
  /\ \A i \in DOMAIN r, h \in Hs : m[h].bWrite \/ m[h].chTitle # r[i].Name => Apart(E[i], W[h])
  /\ \A h, g \in Hs : h # g /\ m[h].bWrite => Apart(W[h], W[g])

Entries == [Name : Titles \cup {"free", "last"}, nFirstCluster : Clusters \cup {0},
            nFileSize : 0 .. MaxSize]
Files == [nUseCount : {0, 1}, chTitle : Titles \cup {"none"},
          nSize : 0 .. MaxSize, nOffset : 0 .. MaxSize,
          nCluster : Clusters \cup {0, EOC}, nFirstCluster : Clusters \cup {0},
          pBuffer : BOOLEAN, bWrite : BOOLEAN]
Bytes == [title : Titles \cup {"none"}, place : 0 .. MaxSize]

\* All of it: E has the chains of the entries, W those of the handles, R that of the directory.
Kept(S, type, a, d, r, m, E, W, R) ==
  /\ FatTrue(type, a)
  /\ d \in [Clusters -> [0 .. S - 1 -> Bytes]]
  /\ r \in Seq(Entries) /\ m \in [Hs -> Files]
  /\ \A i \in DOMAIN r : EntryIs(S, a.entry, d, r[i], E[i])
  /\ \A h \in Hs : HandleIs(S, a.entry, d, m[h], W[h])
  /\ RootIs(type, a.entry, r, R)
  /\ Disjoint(r, m, E, W, R)

FilesInv ==
  /\ m_FATInfo \in Formats
  /\ \E E, W, R : Kept(ClusterSize, m_FATInfo.FATType, alloc, data, m_Root, m_Files, E, W, R)

-----------------------------------------------------------------------------
(* Chains that nothing happens to                                          *)

SameIn(C, e, e2, d, d2) == \A c \in Clusters \ C : e2[c] = e[c] /\ d2[c] = d[c]

\* Each place of a file is in a cluster of its chain.
LEMMA FileLength ==
  ASSUME NEW S \in Nat \ {0}, NEW e, NEW d, NEW k, NEW t, NEW n \in Nat, FileIs(S, e, d, k, t, n)
  PROVE  /\ \A p \in 0 .. n - 1 : (p \div S) + 1 \in 1 .. Len(k) /\ p % S \in 0 .. S - 1
         /\ \A p \in 0 .. n - 1 : k[(p \div S) + 1] \in Members(k)
<1>1. \A p \in 0 .. n - 1 : (p \div S) + 1 \in 1 .. Len(k) /\ p % S \in 0 .. S - 1
  BY PlaceInFile DEF FileIs
<1> QED
  BY <1>1 DEF Members

\* A file stays the same where neither the FAT nor the data of its clusters change.
LEMMA SameFile ==
  ASSUME NEW S \in Nat \ {0}, NEW e, NEW d, NEW k, NEW t, NEW n \in Nat, FileIs(S, e, d, k, t, n),
         NEW C, NEW e2, NEW d2, SameIn(C, e, e2, d, d2), Members(k) \cap C = {}
  PROVE  FileIs(S, e2, d2, k, t, n)
<1>1. \A c \in Members(k) : e2[c] = e[c] /\ d2[c] = d[c]
  <2>1. Members(k) \subseteq Clusters
    BY MembersCounted DEF FileIs
  <2> QED
    BY <2>1 DEF SameIn
<1>2. Linked(e2, k)
  BY <1>1, SameLinks DEF FileIs
<1>3. \A p \in 0 .. n - 1 : d2[k[(p \div S) + 1]] = d[k[(p \div S) + 1]]
  BY <1>1, FileLength
<1> QED
  BY <1>2, <1>3 DEF FileIs

\* So does an entry,
LEMMA SameEntry ==
  ASSUME NEW S \in Nat \ {0}, NEW e, NEW d, NEW k, NEW r \in Entries, EntryIs(S, e, d, r, k),
         NEW C, NEW e2, NEW d2, SameIn(C, e, e2, d, d2), Members(k) \cap C = {}
  PROVE  EntryIs(S, e2, d2, r, k)
<1>1. r.nFileSize \in Nat
  BY FilesAssumption DEF Entries
<1> QED
  BY <1>1, SameFile DEF EntryIs

\* an open file,
LEMMA SameHandle ==
  ASSUME NEW S \in Nat \ {0}, NEW e, NEW d, NEW k, NEW f \in Files, HandleIs(S, e, d, f, k),
         NEW C, NEW e2, NEW d2, SameIn(C, e, e2, d, d2), Members(k) \cap C = {}
  PROVE  HandleIs(S, e2, d2, f, k)
<1>1. f.nSize \in Nat
  BY FilesAssumption DEF Files
<1> QED
  BY <1>1, SameFile DEF HandleIs

\* and the root directory.
LEMMA SameRoot ==
  ASSUME NEW type, NEW e, NEW d, NEW k, NEW r, RootIs(type, e, r, k),
         NEW C, NEW e2, NEW d2, SameIn(C, e, e2, d, d2), Members(k) \cap C = {}
  PROVE  RootIs(type, e2, r, k)
<1>1. ASSUME Linked(e, k) PROVE Linked(e2, k)
  <2>1. Members(k) \subseteq Clusters
    BY <1>1, MembersCounted
  <2>2. \A c \in Members(k) : e2[c] = e[c]
    BY <2>1 DEF SameIn
  <2> QED
    BY <1>1, <2>2, SameLinks
<1> QED
  BY <1>1 DEF RootIs

\* No chain has a free cluster.
LEMMA EntryUsed ==
  ASSUME NEW S, NEW e, NEW d, NEW r, NEW k, EntryIs(S, e, d, r, k), NEW c, e[c] = 0
  PROVE  c \notin Members(k)
BY LinkedUsed, NoneLinked DEF EntryIs, FileIs

\* Nor has an open file,
LEMMA HandleUsed ==
  ASSUME NEW S, NEW e, NEW d, NEW f, NEW k, HandleIs(S, e, d, f, k), NEW c, e[c] = 0
  PROVE  c \notin Members(k)
BY LinkedUsed, NoneLinked DEF HandleIs, FileIs

\* nor the root directory.
LEMMA RootUsed ==
  ASSUME NEW type, NEW e, NEW r, NEW k, RootIs(type, e, r, k), NEW c, e[c] = 0
  PROVE  c \notin Members(k)
BY LinkedUsed, NoneLinked DEF RootIs

\* No cluster in common: with nobody of no clusters, and in both directions.
LEMMA ApartFacts ==
  /\ \A k : Apart(k, <<>>) /\ Apart(<<>>, k)
  /\ \A k, l : Apart(k, l) => Apart(l, k)
<1>1. Members(<<>>) = {}
  BY NoneLinked
<1> QED
  BY <1>1 DEF Apart

\* The empty sequence has the bytes of an empty file.
LEMMA NoneFile ==
  ASSUME NEW S \in Nat \ {0}, NEW e, NEW d, NEW t
  PROVE  FileIs(S, e, d, <<>>, t, 0)
<1>1. Needs(S, 0) = 0
  BY NeedsOfNext
<1> QED
  BY <1>1, NoneLinked DEF FileIs

FileRecord(use, t, size, offset, c, first, sector, write) ==
  [nUseCount |-> use, chTitle |-> t, nSize |-> size, nOffset |-> offset, nCluster |-> c,
   nFirstCluster |-> first, pBuffer |-> sector, bWrite |-> write]

\* Handles and entries without a file.
LEMMA NoFileIs ==
  /\ NoFile \in Files /\ Orphan \in Files
  /\ NoFile.chTitle \notin Titles /\ Orphan.chTitle \notin Titles
  /\ ~NoFile.bWrite /\ ~Orphan.bWrite
  /\ \A S, e, d : HandleIs(S, e, d, NoFile, <<>>) /\ HandleIs(S, e, d, Orphan, <<>>)
<1>1. /\ NoFile = FileRecord(0, "none", 0, 0, 0, 0, FALSE, FALSE)
      /\ Orphan = FileRecord(1, "none", 0, 0, 0, 0, FALSE, FALSE)
  <2> DEFINE no == FALSE
  <2>1. NoFile = FileRecord(0, "none", 0, 0, 0, 0, no, no)
    BY DEF NoFile, FileRecord
  <2> HIDE DEF no
  <2>2. Orphan = [FileRecord(0, "none", 0, 0, 0, 0, no, no) EXCEPT !.nUseCount = 1]
    BY <2>1 DEF Orphan
  <2>3. Orphan = FileRecord(1, "none", 0, 0, 0, 0, no, no)
    BY <2>2 DEF FileRecord
  <2> QED
    BY <2>1, <2>3 DEF no
<1>2. "none" \notin Titles /\ MaxSize \in Nat
  BY FilesAssumption
<1>3. NoFile \in Files /\ Orphan \in Files
  BY <1>1, <1>2 DEF Files, FileRecord
<1> QED
  BY <1>1, <1>2, <1>3 DEF HandleIs, FileRecord

-----------------------------------------------------------------------------
(* Deleting a file                                                         *)

\* The FAT and the data change where no chain is.
LEMMA FatChanges ==
  ASSUME NEW S \in Nat \ {0}, NEW type, NEW a, NEW d, NEW r, NEW m, NEW E, NEW W, NEW R,
         Kept(S, type, a, d, r, m, E, W, R),
         NEW a2, FatTrue(type, a2), NEW d2 \in [Clusters -> [0 .. S - 1 -> Bytes]],
         NEW C, SameIn(C, a.entry, a2.entry, d, d2),
         \A i \in DOMAIN r : Members(E[i]) \cap C = {},
         \A h \in Hs : Members(W[h]) \cap C = {},
         Members(R) \cap C = {}
  PROVE  Kept(S, type, a2, d2, r, m, E, W, R)
<1>1. r \in Seq(Entries) /\ m \in [Hs -> Files] /\ \A i \in DOMAIN r : r[i] \in Entries
  <2>1. r \in Seq(Entries) /\ m \in [Hs -> Files]
    BY DEF Kept
  <2> QED
    BY <2>1, ElementOfSeq, LenProperties
<1>2. ASSUME NEW i \in DOMAIN r PROVE EntryIs(S, a2.entry, d2, r[i], E[i])
  <2>1. EntryIs(S, a.entry, d, r[i], E[i])
    BY DEF Kept
  <2> QED
    BY <1>1, <2>1, SameEntry
<1>3. ASSUME NEW h \in Hs PROVE HandleIs(S, a2.entry, d2, m[h], W[h])
  <2>1. HandleIs(S, a.entry, d, m[h], W[h])
    BY DEF Kept
  <2> QED
    BY <1>1, <2>1, SameHandle
<1>4. RootIs(type, a2.entry, r, R)
  <2>1. RootIs(type, a.entry, r, R)
    BY DEF Kept
  <2> QED
    BY <2>1, SameRoot
<1> QED
  BY <1>1, <1>2, <1>3, <1>4 DEF Kept

\* What Kept says of the types.
LEMMA KeptTypes ==
  ASSUME NEW S, NEW type, NEW a, NEW d, NEW r, NEW m, NEW E, NEW W, NEW R,
         Kept(S, type, a, d, r, m, E, W, R)
  PROVE  /\ r \in Seq(Entries) /\ DOMAIN r = 1 .. Len(r) /\ Len(r) \in Nat
         /\ \A i \in DOMAIN r : r[i] \in Entries
         /\ m \in [Hs -> Files]
         /\ a \in Fats
<1>1. r \in Seq(Entries) /\ m \in [Hs -> Files] /\ a \in Fats
  BY DEF Kept, FatTrue
<1> QED
  BY <1>1, ElementOfSeq, LenProperties

\* Nobody reads the file t any more.
LEMMA ReadersGone ==
  ASSUME NEW S \in Nat \ {0}, NEW type, NEW a, NEW d, NEW r, NEW m, NEW E, NEW W, NEW R,
         Kept(S, type, a, d, r, m, E, W, R),
         NEW t, NEW m2, m2 = [h \in Hs |-> IF m[h].chTitle = t /\ ~m[h].bWrite
                                          THEN Orphan ELSE m[h]]
  PROVE  \E W2 : Kept(S, type, a, d, r, m2, E, W2, R)
<1> DEFINE Reads(h) == m[h].chTitle = t /\ ~m[h].bWrite
           W2 == [h \in Hs |-> IF Reads(h) THEN <<>> ELSE W[h]]
<1>1. m \in [Hs -> Files]
  BY KeptTypes
<1>2. \A h \in Hs : IF Reads(h) THEN W2[h] = <<>> /\ m2[h] = Orphan
                    ELSE W2[h] = W[h] /\ m2[h] = m[h]
  OBVIOUS
<1> HIDE DEF W2
<1>3. m2 \in [Hs -> Files] /\ \A h \in Hs : ~m2[h].bWrite \/ ~Reads(h)
  BY <1>1, NoFileIs
<1> HIDE DEF Reads
<1>4. \A h \in Hs : HandleIs(S, a.entry, d, m2[h], W2[h])
  BY <1>2, NoFileIs DEF Kept
<1>5. Disjoint(r, m, E, W, R)
  BY DEF Kept
<1>6. Disjoint(r, m2, E, W2, R)
  <2>1. \A h \in Hs : Apart(W2[h], R)
    BY <1>2, <1>5, ApartFacts DEF Disjoint
  <2>2. ASSUME NEW j \in DOMAIN r, NEW h \in Hs, m2[h].bWrite \/ m2[h].chTitle # r[j].Name
        PROVE  Apart(E[j], W2[h])
    BY <1>2, <1>5, <2>2, ApartFacts DEF Disjoint
  <2>3. ASSUME NEW h \in Hs, NEW g \in Hs, h # g, m2[h].bWrite PROVE Apart(W2[h], W2[g])
    BY <1>2, <1>3, <1>5, <2>3, ApartFacts DEF Disjoint
  <2> QED
    BY <1>5, <2>1, <2>2, <2>3 DEF Disjoint
<1> QED
  BY <1>3, <1>4, <1>6 DEF Kept

NotRead(m, t) == \A h \in Hs : m[h].bWrite \/ m[h].chTitle # t
GivenUp(r, i) == [j \in DOMAIN r |-> IF j = i THEN [r[j] EXCEPT !.Name = "free"] ELSE r[j]]

\* The entry i is given up, of a file that nobody reads.
LEMMA EntryGone ==
  ASSUME NEW S \in Nat \ {0}, NEW type, NEW a, NEW d, NEW r, NEW m, NEW E, NEW W, NEW R,
         Kept(S, type, a, d, r, m, E, W, R),
         NEW i \in DOMAIN r, r[i].Name \in Titles,
         NotRead(m, r[i].Name), NEW r2, r2 = GivenUp(r, i)
  PROVE  \E E2 :
           /\ Kept(S, type, a, d, r2, m, E2, W, R)
           /\ \A j \in DOMAIN r2 : Apart(E2[j], E[i])
           /\ \A h \in Hs : Apart(W[h], E[i])
<1> DEFINE E2 == [j \in DOMAIN r |-> IF j = i THEN <<>> ELSE E[j]]
<1>1. /\ r \in Seq(Entries) /\ \A j \in DOMAIN r : r[j] \in Entries
      /\ DOMAIN r = 1 .. Len(r) /\ Len(r) \in Nat
  BY KeptTypes
<1>2. /\ E2[i] = <<>> /\ \A j \in DOMAIN r : j # i => E2[j] = E[j]
      /\ \A j \in DOMAIN r : j # i => r2[j] = r[j]
  BY DEF GivenUp
<1>3. "free" \notin Titles
  BY FilesAssumption
<1>4. r2 \in Seq(Entries) /\ DOMAIN r2 = DOMAIN r /\ r2[i].Name = "free" /\ Len(r2) = Len(r)
  <2>1. r2[i] = [r[i] EXCEPT !.Name = "free"]
    BY DEF GivenUp
  <2>2. r2[i] \in Entries /\ r2[i].Name = "free"
    BY <1>1, <2>1 DEF Entries
  <2>3. DOMAIN r2 = 1 .. Len(r) /\ \A j \in 1 .. Len(r) : r2[j] \in Entries
    BY <1>1, <1>2, <2>2 DEF GivenUp
  <2>4. r2 \in [1 .. Len(r) -> Entries]
    BY <2>3 DEF GivenUp
  <2> QED
    BY <1>1, <2>2, <2>4, IsASeq, LenProperties
<1> HIDE DEF E2
<1>5. \A j \in DOMAIN r2 : EntryIs(S, a.entry, d, r2[j], E2[j])
  BY <1>2, <1>3, <1>4 DEF EntryIs, Kept
<1>6. RootIs(type, a.entry, r2, R)
  BY <1>4 DEF RootIs, Kept
<1>7. Disjoint(r, m, E, W, R)
  BY DEF Kept
<1>8. Disjoint(r2, m, E2, W, R)
  <2>1. \A j, k \in DOMAIN r : j # k => Apart(E2[j], E2[k])
    BY <1>2, <1>7, ApartFacts DEF Disjoint
  <2>2. \A j \in DOMAIN r : Apart(E2[j], R)
    BY <1>2, <1>7, ApartFacts DEF Disjoint
  <2>3. ASSUME NEW j \in DOMAIN r, NEW h \in Hs, m[h].bWrite \/ m[h].chTitle # r2[j].Name
        PROVE  Apart(E2[j], W[h])
    BY <1>2, <1>7, <2>3, ApartFacts DEF Disjoint
  <2> QED
    BY <1>4, <1>7, <2>1, <2>2, <2>3 DEF Disjoint
<1>9. Kept(S, type, a, d, r2, m, E2, W, R)
  BY <1>4, <1>5, <1>6, <1>8 DEF Kept
<1>10. \A j \in DOMAIN r2 : Apart(E2[j], E[i])
  BY <1>2, <1>4, <1>7, ApartFacts DEF Disjoint
<1>11. \A h \in Hs : Apart(W[h], E[i])
  BY <1>7, ApartFacts DEF Disjoint, NotRead
<1> QED
  BY <1>9, <1>10, <1>11

\* The search for a title finds one entry.
LEMMA TitledOne ==
  ASSUME m_Root \in Seq(Entries), NEW title
  PROVE  /\ Titled(title) \subseteq DOMAIN m_Root
         /\ \A i \in Titled(title) : m_Root[i].Name = title
         /\ \A i, j \in Titled(title) : i = j
<1>1. DOMAIN m_Root = 1 .. Len(m_Root) /\ Len(m_Root) \in Nat
  BY LenProperties
<1>2. Titled(title) \subseteq DOMAIN m_Root /\ \A i \in Titled(title) : m_Root[i].Name = title
  BY DEF Titled
<1>3. ASSUME NEW i \in Titled(title), NEW j \in Titled(title) PROVE ~(i < j)
  <2>1. \A k \in 1 .. j - 1 : m_Root[k].Name # title
    BY DEF Titled
  <2> QED
    BY <1>1, <1>2, <2>1
<1> QED
  BY <1>1, <1>2, <1>3

DeletedWell(S, type, title) ==
  \E E2, W2, R2 : Kept(S, type, AllocWithout(title), DataIn(AllocWithout(title)),
                      RootWithout(title), Orphaned(title), E2, W2, R2)

\* What FileDelete leaves.
LEMMA FileDeleted ==
  ASSUME NEW S \in Nat \ {0}, S = ClusterSize, NEW type, NEW E, NEW W, NEW R,
         Kept(S, type, alloc, data, m_Root, m_Files, E, W, R), NEW title \in Titles
  PROVE  DeletedWell(S, type, title)
<1> DEFINE a2 == AllocWithout(title)
           d2 == DataIn(a2)
           r2 == RootWithout(title)
           m2 == Orphaned(title)
<1>1. /\ m_Root \in Seq(Entries) /\ \A i \in DOMAIN m_Root : m_Root[i] \in Entries
      /\ m_Files \in [Hs -> Files] /\ alloc \in Fats
      /\ data \in [Clusters -> [0 .. S - 1 -> Bytes]] /\ FatTrue(type, alloc)
  BY KeptTypes DEF Kept
<1>2. PICK W2 : Kept(S, type, alloc, data, m_Root, m2, E, W2, R)
  BY ReadersGone DEF Orphaned
<1>3. NotRead(m2, title)
  <2>1. Orphan.chTitle # title
    BY NoFileIs
  <2> QED
    BY <2>1 DEF Orphaned, NotRead
<1>4. Blank \in [0 .. S - 1 -> Bytes]
  <2>1. NoByte \in Bytes
    BY FilesAssumption DEF NoByte, Byte, Bytes
  <2> QED
    BY <2>1 DEF Blank
<1>5. d2 \in [Clusters -> [0 .. S - 1 -> Bytes]]
  BY <1>1, <1>4 DEF DataIn
<1> HIDE DEF m2
<1>6. \A c \in Clusters : a2.entry[c] # 0 => d2[c] = data[c]
  BY DEF DataIn
<1> HIDE DEF d2
<1>7. CASE Titled(title) = {}
  <2>1. a2 = alloc
    BY <1>7 DEF AllocWithout
  <2>2. r2 = m_Root
    BY <1>1, <1>7, LenProperties DEF RootWithout
  <2> HIDE DEF a2, r2
  <2>3. SameIn(FreeIn(alloc.entry), alloc.entry, alloc.entry, data, d2)
    BY <1>6, <2>1 DEF SameIn, FreeIn
  <2>4. /\ \A i \in DOMAIN m_Root : Members(E[i]) \cap FreeIn(alloc.entry) = {}
        /\ \A h \in Hs : Members(W2[h]) \cap FreeIn(alloc.entry) = {}
        /\ Members(R) \cap FreeIn(alloc.entry) = {}
    BY <1>2, EntryUsed, HandleUsed, RootUsed DEF Kept, FreeIn
  <2>5. Kept(S, type, alloc, d2, m_Root, m2, E, W2, R)
    BY <1>1, <1>2, <1>5, <2>3, <2>4, FatChanges
  <2> QED
    BY <2>1, <2>2, <2>5 DEF DeletedWell, a2, d2, r2, m2
<1>8. CASE Titled(title) # {}
  <2>1. PICK i \in Titled(title) : TRUE
    BY <1>8
  <2>2. Titled(title) = {i} /\ i \in DOMAIN m_Root /\ m_Root[i].Name = title
    BY <1>1, <2>1, TitledOne
  <2>3. r2 = GivenUp(m_Root, i)
    BY <2>2 DEF RootWithout, GivenUp
  <2> DEFINE k == E[i]
             C == Members(k) \cup FreeIn(alloc.entry)
  <2>4. EntryIs(S, alloc.entry, data, m_Root[i], k)
    BY <2>2 DEF Kept
  <2>5. Linked(alloc.entry, k) /\ m_Root[i].nFirstCluster = FirstIn(k)
    BY <2>2, <2>4 DEF EntryIs, FileIs
  <2>6. a2 = IF m_Root[i].nFirstCluster # 0 THEN FreeClusterChain(alloc, m_Root[i].nFirstCluster)
             ELSE alloc
    BY <2>2 DEF AllocWithout
  <2> HIDE DEF a2, r2
  <2>7. FatTrue(type, a2) /\ \A c \in Clusters : a2.entry[c] = IF c \in Members(k) THEN 0
                                                             ELSE alloc.entry[c]
    <3>1. CASE k = <<>>
      <4>1. a2 = alloc /\ Members(k) = {}
        BY <2>5, <2>6, <3>1, NoneLinked DEF FirstIn
      <4> QED
        BY <1>1, <4>1
    <3>2. CASE k # <<>>
      <4>1. k[1] \in Clusters
        BY <2>5, <3>2, ElementOfSeq, EmptySeq DEF Linked
      <4>2. a2 = FreeClusterChain(alloc, k[1])
        BY <2>5, <2>6, <3>2, <4>1, ClustersFacts DEF FirstIn
      <4> QED
        <5> HIDE DEF k
        <5>1. FatTrue(type, alloc) /\ Linked(alloc.entry, k)
          BY <1>1, <2>5
        <5>2. /\ FatTrue(type, FreeClusterChain(alloc, k[1]))
              /\ FreeClusterChain(alloc, k[1]).entry =
                   [c \in Clusters |-> IF c \in Members(k) THEN 0 ELSE alloc.entry[c]]
          BY <3>2, <5>1, FreedTrue
        <5> QED
          BY <4>2, <5>2
    <3> QED
      BY <3>1, <3>2
  <2>8. PICK E2 : /\ Kept(S, type, alloc, data, r2, m2, E2, W2, R)
                  /\ \A j \in DOMAIN r2 : Apart(E2[j], k)
                  /\ \A h \in Hs : Apart(W2[h], k)
    <3>1. i \in DOMAIN m_Root /\ m_Root[i].Name \in Titles
      BY <2>2
    <3>2. NotRead(m2, m_Root[i].Name)
      BY <1>3, <2>2
    <3> QED
      BY ONLY <1>2, <2>3, <3>1, <3>2, S \in Nat \ {0}, EntryGone
  <2>9. Apart(R, k)
    BY <2>2, ApartFacts DEF Kept, Disjoint
  <2>10. SameIn(C, alloc.entry, a2.entry, data, d2)
    BY <1>6, <2>7 DEF SameIn, FreeIn
  <2>11. /\ \A j \in DOMAIN r2 : Members(E2[j]) \cap FreeIn(alloc.entry) = {}
         /\ \A h \in Hs : Members(W2[h]) \cap FreeIn(alloc.entry) = {}
         /\ Members(R) \cap FreeIn(alloc.entry) = {}
    BY <2>8, EntryUsed, HandleUsed, RootUsed DEF Kept, FreeIn
  <2>12. /\ \A j \in DOMAIN r2 : Members(E2[j]) \cap C = {}
         /\ \A h \in Hs : Members(W2[h]) \cap C = {}
         /\ Members(R) \cap C = {}
    BY <2>8, <2>9, <2>11 DEF Apart
  <2> HIDE DEF C
  <2>13. Kept(S, type, a2, d2, r2, m2, E2, W2, R)
    BY <1>5, <2>7, <2>8, <2>10, <2>12, FatChanges
  <2> QED
    BY <2>13 DEF DeletedWell, a2, d2, r2, m2
<1> QED
  BY <1>7, <1>8

-----------------------------------------------------------------------------
(* A larger root directory                                                 *)

UnusedEntry == DirEntry("last", 0, 0)

\* The entries of a new cluster of the root directory have no file.
LEMMA UnusedIs ==
  /\ RootEntries \in Nat \ {0}
  /\ Unused \in Seq(Entries) /\ Len(Unused) = RootEntries
  /\ \A i \in 1 .. RootEntries : Unused[i] = UnusedEntry
  /\ UnusedEntry \in Entries /\ UnusedEntry.Name \notin Titles
<1>1. RootEntries \in Nat \ {0} /\ "last" \notin Titles /\ MaxSize \in Nat
  BY FilesAssumption
<1>2. UnusedEntry \in Entries /\ UnusedEntry.Name \notin Titles
  BY <1>1 DEF UnusedEntry, DirEntry, Entries
<1>3. Unused \in [1 .. RootEntries -> Entries]
  BY <1>2 DEF Unused, UnusedEntry
<1>4. Unused \in Seq(Entries) /\ Len(Unused) = RootEntries
  BY <1>1, <1>3, IsASeq, LenProperties
<1> QED
  BY <1>1, <1>2, <1>4 DEF Unused, UnusedEntry

\* The search for the end of the root directory finds its last cluster.
LEMMA RootEndIs ==
  ASSUME NEW a, NEW k, Linked(a.entry, k), k # <<>>, k[1] = RootCluster
  PROVE  RootEnd(a) = k[Len(k)] /\ Len(k) \in 1 .. Len(k)
<1>1. InChain(a, RootCluster) = Members(k)
  BY ChainOfLinked
<1>2. Len(k) \in Nat /\ Len(k) # 0 /\ \A i \in 1 .. Len(k) : k[i] \in Clusters
  BY EmptySeq, ElementOfSeq DEF Linked
<1>3. Len(k) \in 1 .. Len(k) /\ k[Len(k)] \in Members(k) /\ a.entry[k[Len(k)]] = EOC
  BY <1>2 DEF Linked, Members
<1>4. ASSUME NEW c \in Members(k), a.entry[c] = EOC PROVE c = k[Len(k)]
  <2>1. PICK i \in 1 .. Len(k) : c = k[i]
    BY DEF Members
  <2>2. i = Len(k) \/ (i + 1 \in 1 .. Len(k) /\ i # Len(k))
    BY <1>2
  <2> QED
    BY <1>2, <1>4, <2>1, <2>2, ClustersFacts DEF Linked
<1> QED
  BY <1>1, <1>3, <1>4 DEF RootEnd

\* The root directory gets another cluster.
LEMMA RootGrows ==
  ASSUME NEW S \in Nat \ {0}, NEW a, NEW d, NEW r, NEW m, NEW E, NEW W, NEW R,
         Kept(S, "FAT32", a, d, r, m, E, W, R), FreeCluster(a) # 0
  PROVE  \E E2, R2 : Kept(S, "FAT32", Grown(a), d, r \o Unused, m, E2, W, R2)
<1> DEFINE c == FreeCluster(a)
           b == Allocated(a, c)
           l == R[Len(R)]
           a2 == Grown(a)
           r2 == r \o Unused
           R2 == Append(R, c)
           E2 == [i \in DOMAIN r2 |-> IF i \in DOMAIN r THEN E[i] ELSE <<>>]
           C == {c, l}
<1>1. /\ r \in Seq(Entries) /\ DOMAIN r = 1 .. Len(r) /\ Len(r) \in Nat
      /\ \A i \in DOMAIN r : r[i] \in Entries
      /\ m \in [Hs -> Files] /\ a \in Fats
  BY KeptTypes
<1>2. c \in Clusters /\ a.entry[c] = 0
  BY <1>1, FreeClusterFound
<1>3. FatTrue("FAT32", b) /\ b.entry = [a.entry EXCEPT ![c] = EOC]
  BY AllocatedTrue DEF Kept
<1>4. Linked(a.entry, R) /\ R # <<>> /\ R[1] = RootCluster /\ Len(r) = Len(R) * RootEntries
  BY DEF Kept, RootIs
<1>5. RootEnd(a) = l /\ Len(R) \in 1 .. Len(R)
  BY <1>4, RootEndIs
<1>6. l \in Members(R) /\ l \in Clusters /\ l # c /\ Len(R) \in Nat
  <2>1. l \in Members(R)
    BY <1>5 DEF Members
  <2>2. l \in Clusters /\ a.entry[l] # 0
    BY <1>4, <2>1, LinkedUsed
  <2> QED
    BY <1>2, <1>4, <2>1, <2>2, LenProperties DEF Linked
<1>7. a.entry \in [Clusters -> Clusters \cup {0, EOC}]
  BY <1>1 DEF Fats
<1>8. b.entry[l] # 0
  BY <1>2, <1>3, <1>4, <1>6, <1>7, LinkedUsed
<1>9. a2 = SetClusterEntry(b, l, c)
  BY <1>5 DEF Grown
<1> HIDE DEF a2, b, c, l
<1>10. FatTrue("FAT32", a2) /\ a2.entry = [b.entry EXCEPT ![l] = c]
  <2>1. /\ FatTrue("FAT32", SetClusterEntry(b, l, c))
        /\ SetClusterEntry(b, l, c).entry = [b.entry EXCEPT ![l] = c]
    <3>1. FatTrue("FAT32", b) /\ l \in Clusters /\ c \in Clusters /\ b.entry[l] # 0
      BY <1>2, <1>3, <1>6, <1>8
    <3> QED
      BY ONLY <3>1, SetTrue
  <2> QED
    BY <1>9, <2>1
<1>11. /\ a2.entry[c] = EOC /\ a2.entry[l] = c
       /\ \A x \in Clusters \ C : a2.entry[x] = a.entry[x]
  BY <1>2, <1>3, <1>6, <1>7, <1>10
<1>12. SameIn(C, a.entry, a2.entry, d, d)
  BY <1>11 DEF SameIn
<1>13. /\ \A i \in DOMAIN r : Members(E[i]) \cap C = {}
       /\ \A h \in Hs : Members(W[h]) \cap C = {}
  <2>1. /\ \A i \in DOMAIN r : c \notin Members(E[i])
        /\ \A h \in Hs : c \notin Members(W[h])
    BY <1>2, EntryUsed, HandleUsed DEF Kept
  <2>2. /\ \A i \in DOMAIN r : l \notin Members(E[i])
        /\ \A h \in Hs : l \notin Members(W[h])
    BY <1>6 DEF Kept, Disjoint, Apart
  <2> QED
    BY <2>1, <2>2
<1>14. Linked(a2.entry, R2) /\ Members(R2) = Members(R) \cup {c}
  <2>1. \A x \in Members(R) : R # <<>> /\ x # R[Len(R)] => a2.entry[x] = a.entry[x]
    <3>1. Members(R) \subseteq Clusters /\ c \notin Members(R)
      BY <1>2, <1>4, MembersCounted, LinkedUsed
    <3> QED
      BY <1>11, <3>1 DEF l
  <2>2. R # <<>> => a2.entry[R[Len(R)]] = c
    BY <1>11 DEF l
  <2> QED
    <3>1. Appends(a.entry, a2.entry, R, c)
      BY <1>2, <1>4, <1>11, <2>1, <2>2 DEF Appends
    <3> QED
      BY <3>1, AppendLinked
<1>15. /\ r2 \in Seq(Entries) /\ Len(r2) = Len(r) + RootEntries
       /\ DOMAIN r2 = 1 .. Len(r) + RootEntries
       /\ \A i \in DOMAIN r : r2[i] = r[i]
       /\ \A i \in DOMAIN r2 : i \notin DOMAIN r => r2[i] = UnusedEntry
  <2>1. r2 \in Seq(Entries) /\ Len(r2) = Len(r) + RootEntries
    BY <1>1, UnusedIs, ConcatProperties
  <2>2. \A i \in 1 .. Len(r) + RootEntries :
          r2[i] = IF i <= Len(r) THEN r[i] ELSE Unused[i - Len(r)]
    BY <1>1, UnusedIs, ConcatProperties
  <2>3. DOMAIN r2 = 1 .. Len(r) + RootEntries
    BY <2>1, LenProperties
  <2>4. \A i \in 1 .. Len(r) + RootEntries : i \in 1 .. Len(r) => i <= Len(r)
    BY <1>1
  <2>5. \A i \in 1 .. Len(r) + RootEntries :
          i \notin 1 .. Len(r) => ~(i <= Len(r)) /\ i - Len(r) \in 1 .. RootEntries
    BY <1>1, UnusedIs
  <2>6. \A i \in 1 .. Len(r) : i \in 1 .. Len(r) + RootEntries
    BY <1>1, UnusedIs
  <2> QED
    BY <1>1, <2>1, <2>2, <2>3, <2>4, <2>5, <2>6, UnusedIs
<1>16. /\ \A i \in DOMAIN r : E2[i] = E[i] /\ i \in DOMAIN r2
       /\ \A i \in DOMAIN r2 : i \notin DOMAIN r => E2[i] = <<>>
  BY <1>1, <1>15, UnusedIs
<1> HIDE DEF E2, r2, R2, C
<1>17. ASSUME NEW i \in DOMAIN r2 PROVE EntryIs(S, a2.entry, d, r2[i], E2[i])
  <2>1. CASE i \in DOMAIN r
    <3>1. EntryIs(S, a.entry, d, r[i], E[i])
      BY <2>1 DEF Kept
    <3> QED
      BY <1>1, <1>12, <1>13, <1>15, <1>16, <2>1, <3>1, SameEntry
  <2>2. CASE i \notin DOMAIN r
    BY <1>15, <1>16, <2>2, UnusedIs DEF EntryIs
  <2> QED
    BY <2>1, <2>2
<1>18. ASSUME NEW h \in Hs PROVE HandleIs(S, a2.entry, d, m[h], W[h])
  <2>1. HandleIs(S, a.entry, d, m[h], W[h])
    BY DEF Kept
  <2> QED
    BY <1>1, <1>12, <1>13, <2>1, SameHandle
<1>19. RootIs("FAT32", a2.entry, r2, R2)
  <2>1. R2 # <<>> /\ R2[1] = RootCluster /\ Len(R2) = Len(R) + 1
    <3>1. R \in Seq(Clusters)
      BY <1>4 DEF Linked
    <3> QED
      BY <1>2, <1>4, <1>5, <1>6, <3>1, AppendProperties DEF R2
  <2>2. Len(r2) = Len(R2) * RootEntries
    BY <1>4, <1>6, <1>15, <2>1, UnusedIs
  <2> QED
    BY <1>14, <2>1, <2>2 DEF RootIs
<1>20. Disjoint(r, m, E, W, R)
  BY DEF Kept
<1>21. Disjoint(r2, m, E2, W, R2)
  <2>0. c \in C
    BY DEF C
  <2>1. \A i, j \in DOMAIN r2 : i # j => Apart(E2[i], E2[j])
    BY <1>16, <1>20, ApartFacts DEF Disjoint
  <2>2. ASSUME NEW i \in DOMAIN r2 PROVE Apart(E2[i], R2)
    <3>1. CASE i \in DOMAIN r
      <4>1. Apart(E[i], R) /\ c \notin Members(E[i])
        BY <1>13, <1>20, <2>0, <3>1 DEF Disjoint
      <4> QED
        BY <1>14, <1>16, <3>1, <4>1 DEF Apart
    <3>2. CASE i \notin DOMAIN r
      BY <1>16, <3>2, ApartFacts
    <3> QED
      BY <3>1, <3>2
  <2>3. ASSUME NEW h \in Hs PROVE Apart(W[h], R2)
    <3>1. Apart(W[h], R) /\ c \notin Members(W[h])
      BY <1>13, <1>20, <2>0 DEF Disjoint
    <3> QED
      BY <1>14, <3>1 DEF Apart
  <2>4. ASSUME NEW i \in DOMAIN r2, NEW h \in Hs, m[h].bWrite \/ m[h].chTitle # r2[i].Name
        PROVE  Apart(E2[i], W[h])
    <3>1. CASE i \in DOMAIN r
      BY <1>15, <1>16, <1>20, <2>4, <3>1 DEF Disjoint
    <3>2. CASE i \notin DOMAIN r
      BY <1>16, <3>2, ApartFacts
    <3> QED
      BY <3>1, <3>2
  <2>5. \A h, g \in Hs : h # g /\ m[h].bWrite => Apart(W[h], W[g])
    BY <1>20 DEF Disjoint
  <2> QED
    BY <2>1, <2>2, <2>3, <2>4, <2>5 DEF Disjoint
<1>22. d \in [Clusters -> [0 .. S - 1 -> Bytes]]
  BY DEF Kept
<1>23. Kept(S, "FAT32", a2, d, r2, m, E2, W, R2)
  BY <1>1, <1>10, <1>15, <1>17, <1>18, <1>19, <1>21, <1>22 DEF Kept
<1> QED
  BY <1>23 DEF a2, r2

\* A handle gets another file, or another place in the same one.
HandleFits(S, e, d, r, m, E, W, R, h, f, k) ==
  /\ f \in Files /\ HandleIs(S, e, d, f, k) /\ Apart(k, R)
  /\ \A i \in DOMAIN r : f.bWrite \/ f.chTitle # r[i].Name => Apart(E[i], k)
  /\ \A g \in Hs : g # h /\ (f.bWrite \/ m[g].bWrite) => Apart(k, W[g])

\* The chains fit together again if those of the new file at the handle do.
LEMMA HandleChanges ==
  ASSUME NEW S \in Nat \ {0}, NEW type, NEW a, NEW d, NEW r, NEW m, NEW E, NEW W, NEW R,
         Kept(S, type, a, d, r, m, E, W, R), NEW h \in Hs, NEW f, NEW k,
         HandleFits(S, a.entry, d, r, m, E, W, R, h, f, k)
  PROVE  \E W2 : Kept(S, type, a, d, r, [m EXCEPT ![h] = f], E, W2, R)
<1> DEFINE m2 == [m EXCEPT ![h] = f]
           W2 == [g \in Hs |-> IF g = h THEN k ELSE W[g]]
<1>1. m \in [Hs -> Files]
  BY KeptTypes
<1>2. /\ m2 \in [Hs -> Files] /\ m2[h] = f /\ \A g \in Hs : g # h => m2[g] = m[g]
      /\ W2[h] = k /\ \A g \in Hs : g # h => W2[g] = W[g]
  BY <1>1 DEF HandleFits
<1> HIDE DEF m2, W2
<1>3. \A g \in Hs : HandleIs(S, a.entry, d, m2[g], W2[g])
  BY <1>2 DEF Kept, HandleFits
<1>4. Disjoint(r, m2, E, W2, R)
  <2>1. Disjoint(r, m, E, W, R)
    BY DEF Kept
  <2>2. \A g \in Hs : Apart(W2[g], R)
    BY <1>2, <2>1 DEF Disjoint, HandleFits
  <2>3. \A i \in DOMAIN r, g \in Hs : m2[g].bWrite \/ m2[g].chTitle # r[i].Name
                                      => Apart(E[i], W2[g])
    BY <1>2, <2>1 DEF Disjoint, HandleFits
  <2>4. ASSUME NEW g \in Hs, NEW l \in Hs, g # l, m2[g].bWrite PROVE Apart(W2[g], W2[l])
    <3>1. CASE g = h
      BY <1>2, <2>4, <3>1 DEF HandleFits
    <3>2. CASE l = h
      <4>1. Apart(k, W[g])
        BY <1>2, <2>4, <3>2 DEF HandleFits
      <4> QED
        BY <1>2, <2>4, <3>2, <4>1, ApartFacts
    <3>3. CASE g # h /\ l # h
      BY <1>2, <2>1, <2>4, <3>3 DEF Disjoint
    <3> QED
      BY <3>1, <3>2, <3>3
  <2> QED
    BY <2>1, <2>2, <2>3, <2>4 DEF Disjoint
<1>5. Kept(S, type, a, d, r, m2, E, W2, R)
  BY <1>2, <1>3, <1>4 DEF Kept
<1> QED
  BY <1>5 DEF m2

\* No clusters fit always.
LEMMA NoneFits ==
  ASSUME NEW S, NEW e, NEW d, NEW r, NEW m, NEW E, NEW W, NEW R, NEW h, NEW f \in Files,
         HandleIs(S, e, d, f, <<>>)
  PROVE  HandleFits(S, e, d, r, m, E, W, R, h, f, <<>>)
BY ApartFacts DEF HandleFits

\* An unused entry gets a title.
LEMMA EntryMade ==
  ASSUME NEW S \in Nat \ {0}, NEW type, NEW a, NEW d, NEW r, NEW m, NEW E, NEW W, NEW R,
         Kept(S, type, a, d, r, m, E, W, R), NEW i \in DOMAIN r, r[i].Name \notin Titles,
         NEW t \in Titles
  PROVE  Kept(S, type, a, d, [r EXCEPT ![i] = DirEntry(t, 0, 0)], m, E, W, R)
<1> DEFINE x == DirEntry(t, 0, 0)
           r2 == [r EXCEPT ![i] = x]
<1>1. /\ r \in Seq(Entries) /\ DOMAIN r = 1 .. Len(r) /\ Len(r) \in Nat
  BY KeptTypes
<1>2. x \in Entries /\ x.Name = t /\ x.nFirstCluster = 0 /\ x.nFileSize = 0
  BY FilesAssumption DEF DirEntry, Entries
<1> HIDE DEF x
<1>3. /\ r2 \in Seq(Entries) /\ DOMAIN r2 = DOMAIN r /\ Len(r2) = Len(r)
      /\ r2[i] = x /\ \A j \in DOMAIN r : j # i => r2[j] = r[j]
  BY <1>1, <1>2, ExceptSeq
<1> HIDE DEF r2
<1>4. E[i] = <<>>
  BY DEF Kept, EntryIs
<1>5. EntryIs(S, a.entry, d, r2[i], E[i])
  BY <1>2, <1>3, <1>4, NoneFile DEF EntryIs, FirstIn
<1>6. \A j \in DOMAIN r2 : EntryIs(S, a.entry, d, r2[j], E[j])
  BY <1>3, <1>5 DEF Kept
<1>7. RootIs(type, a.entry, r2, R)
  BY <1>3 DEF Kept, RootIs
<1>8. Disjoint(r, m, E, W, R)
  BY DEF Kept
<1>9. ASSUME NEW j \in DOMAIN r2, NEW h \in Hs, m[h].bWrite \/ m[h].chTitle # r2[j].Name
      PROVE  Apart(E[j], W[h])
  BY <1>3, <1>4, <1>8, <1>9, ApartFacts DEF Disjoint
<1>10. Disjoint(r2, m, E, W, R)
  BY <1>3, <1>8, <1>9 DEF Disjoint
<1>11. Kept(S, type, a, d, r2, m, E, W, R)
  BY <1>3, <1>6, <1>7, <1>10 DEF Kept
<1> QED
  BY <1>11 DEF r2, x

-----------------------------------------------------------------------------
(* Opening, deleting and closing                                           *)

\* What Formats and FilesAssumption say of the sizes.
LEMMA FormatFacts ==
  ASSUME m_FATInfo \in Formats
  PROVE  /\ ClusterSize \in Nat \ {0} /\ SectorSize \in Nat \ {0}
         /\ m_FATInfo.SectorsPerCluster \in Nat \ {0}
         /\ m_FATInfo.FATType \in {"FAT16", "FAT32"}
<1>1. SectorSize \in Nat \ {0} /\ m_FATInfo.SectorsPerCluster \in Nat \ {0}
      /\ m_FATInfo.FATType \in {"FAT16", "FAT32"}
  BY FilesAssumption
<1> QED
  BY <1>1 DEF ClusterSize

\* FilesInv after a step, whose format is the same.
LEMMA InvAfter ==
  ASSUME m_FATInfo \in Formats, UNCHANGED m_FATInfo,
         \E E, W, R : Kept(ClusterSize, m_FATInfo.FATType, alloc', data', m_Root', m_Files', E, W, R)
  PROVE  FilesInv'
BY DEF FilesInv, ClusterSize

ReaderOf(title, size, c) ==
  [NoFile EXCEPT !.nUseCount = 1, !.chTitle = title, !.nSize = size, !.nCluster = c]
WriterOf(title) == [NoFile EXCEPT !.nUseCount = 1, !.chTitle = title, !.bWrite = TRUE]

\* The fields of a file that FileOpen opens,
LEMMA NewFile ==
  ASSUME NEW title \in Titles, NEW size \in 0 .. MaxSize, NEW c \in Clusters \cup {0},
         NEW f, f = ReaderOf(title, size, c)
  PROVE  /\ f \in Files /\ f.chTitle = title /\ f.nSize = size /\ f.nCluster = c
         /\ f.nUseCount = 1 /\ f.nOffset = 0 /\ ~f.pBuffer /\ ~f.bWrite
<1> DEFINE no == FALSE
           f1 == [NoFile EXCEPT !.nUseCount = 1]
           f2 == [f1 EXCEPT !.chTitle = title]
           f3 == [f2 EXCEPT !.nSize = size]
<1>1. NoFile = FileRecord(0, "none", 0, 0, 0, 0, no, no) /\ no \in BOOLEAN /\ ~no
  BY DEF NoFile, FileRecord
<1> HIDE DEF no
<1>2. f1 = FileRecord(1, "none", 0, 0, 0, 0, no, no)
  BY <1>1 DEF FileRecord
<1>3. f = [f3 EXCEPT !.nCluster = c]
  BY DEF f1, ReaderOf
<1> HIDE DEF f1
<1>4. f2 = FileRecord(1, title, 0, 0, 0, 0, no, no)
  BY <1>2 DEF FileRecord
<1> HIDE DEF f2
<1>5. f3 = FileRecord(1, title, size, 0, 0, 0, no, no)
  BY <1>4 DEF FileRecord
<1> HIDE DEF f3
<1>6. f = FileRecord(1, title, size, 0, c, 0, no, no)
  BY ONLY <1>3, <1>5 DEF FileRecord
<1>7. 0 \in 0 .. MaxSize /\ title \in Titles
  BY FilesAssumption
<1> QED
  BY ONLY <1>1, <1>6, <1>7, size \in 0 .. MaxSize, c \in Clusters \cup {0} DEF FileRecord, Files

\* and of one that FileCreate opens.
LEMMA NewWriter ==
  ASSUME NEW title \in Titles,
         NEW f, f = WriterOf(title)
  PROVE  /\ f \in Files /\ f.chTitle = title /\ f.nSize = 0 /\ f.nCluster = 0
         /\ f.nUseCount = 1 /\ f.nOffset = 0 /\ ~f.pBuffer /\ f.bWrite /\ f.nFirstCluster = 0
<1> DEFINE no == FALSE
           yes == TRUE
           f1 == [NoFile EXCEPT !.nUseCount = 1]
           f2 == [f1 EXCEPT !.chTitle = title]
<1>1. /\ NoFile = FileRecord(0, "none", 0, 0, 0, 0, no, no) /\ no \in BOOLEAN /\ ~no
      /\ yes \in BOOLEAN /\ yes
  BY DEF NoFile, FileRecord
<1>3. f = [f2 EXCEPT !.bWrite = yes]
  BY DEF f1, WriterOf
<1> HIDE DEF no, yes
<1>2. f1 = FileRecord(1, "none", 0, 0, 0, 0, no, no)
  BY <1>1 DEF FileRecord
<1> HIDE DEF f1
<1>4. f2 = FileRecord(1, title, 0, 0, 0, 0, no, no)
  BY <1>2 DEF FileRecord
<1> HIDE DEF f2
<1>5. f = FileRecord(1, title, 0, 0, 0, 0, no, yes)
  BY ONLY <1>3, <1>4 DEF FileRecord
<1>6. 0 \in 0 .. MaxSize /\ title \in Titles
  BY FilesAssumption
<1> QED
  BY ONLY <1>1, <1>5, <1>6 DEF FileRecord, Files

\* The place of a file that has just been opened.
LEMMA Opened ==
  ASSUME NEW S, NEW k, NEW f \in Files, f.nUseCount = 1, f.nOffset = 0, f.nCluster = FirstIn(k),
         ~f.pBuffer, f.bWrite => f.nSize = 0 /\ f.nFirstCluster = FirstIn(k)
  PROVE  Position(S, f, k)
<1>1. 0 % SectorSize = 0
  <2>1. SectorSize \in Nat \ {0}
    BY FilesAssumption
  <2>2. (SectorSize * 0 + 0) % SectorSize = 0
    BY <2>1, Quotients
  <2> QED
    BY <2>1, <2>2
<1>2. f.pBuffer = (f.nOffset % SectorSize # 0)
  <2>1. f.nOffset % SectorSize = 0
    BY <1>1
  <2>2. f.pBuffer \in BOOLEAN
    BY DEF Files
  <2> QED
    BY <2>1, <2>2
<1>3. f.nSize >= 0
  BY FilesAssumption DEF Files
<1> QED
  BY <1>2, <1>3 DEF Position

\* The reader shares the chain of the entry, and stands at its beginning.
LEMMA OpenStep ==
  ASSUME FilesInv, NEW title \in Titles, FileOpen(title)
  PROVE  FilesInv'
<1> DEFINE S == ClusterSize
           type == m_FATInfo.FATType
<1>1. m_FATInfo \in Formats /\ S \in Nat \ {0} /\ UNCHANGED <<m_FATInfo, alloc, m_Root, data>>
  BY FormatFacts DEF FilesInv, FileOpen
<1> HIDE DEF S
<1>2. PICK E, W, R : Kept(S, type, alloc, data, m_Root, m_Files, E, W, R)
  BY DEF FilesInv, S
<1> DEFINE f(i) == [NoFile EXCEPT !.nUseCount = 1, !.chTitle = title,
                                  !.nSize = m_Root[i].nFileSize,
                                  !.nCluster = m_Root[i].nFirstCluster]
<1>3. PICK h \in Hs, i \in Titled(title) :
        m_Files[h].nUseCount = 0 /\ m_Files' = [m_Files EXCEPT ![h] = f(i)]
  BY DEF FileOpen, FreeHandle
<1>4. /\ m_Root \in Seq(Entries) /\ i \in DOMAIN m_Root /\ m_Root[i].Name = title
      /\ m_Root[i] \in Entries
  BY <1>2, KeptTypes, TitledOne
<1> DEFINE size == m_Root[i].nFileSize
           first == m_Root[i].nFirstCluster
           x == f(i)
<1>5. size \in 0 .. MaxSize /\ first \in Clusters \cup {0}
  BY <1>4 DEF Entries
<1>6. EntryIs(S, alloc.entry, data, m_Root[i], E[i])
  BY <1>2, <1>4 DEF Kept
<1>7. FileIs(S, alloc.entry, data, E[i], title, size) /\ first = FirstIn(E[i])
  BY <1>4, <1>6 DEF EntryIs
<1> HIDE DEF size, first
<1>8. /\ x \in Files /\ x.chTitle = title /\ x.nSize = size /\ x.nCluster = first
      /\ x.nUseCount = 1 /\ x.nOffset = 0 /\ ~x.pBuffer /\ ~x.bWrite
  <2>1. x = ReaderOf(title, size, first)
    BY DEF size, first, ReaderOf
  <2> HIDE DEF x
  <2> QED
    BY ONLY <1>5, <2>1, NewFile, title \in Titles
<1> HIDE DEF x
<1>9. HandleIs(S, alloc.entry, data, x, E[i])
  BY <1>7, <1>8, Opened DEF HandleIs
<1>10. HandleFits(S, alloc.entry, data, m_Root, m_Files, E, W, R, h, x, E[i])
  <2>1. Disjoint(m_Root, m_Files, E, W, R)
    BY <1>2 DEF Kept
  <2> QED
    BY <1>4, <1>8, <1>9, <2>1, ApartFacts DEF Disjoint, HandleFits
<1>11. PICK W2 : Kept(S, type, alloc, data, m_Root, [m_Files EXCEPT ![h] = x], E, W2, R)
  BY <1>1, <1>2, <1>10, HandleChanges
<1>12. Kept(S, type, alloc', data', m_Root', m_Files', E, W2, R)
  BY <1>1, <1>3, <1>11 DEF x
<1> QED
  BY <1>1, <1>12, InvAfter DEF S

\* The clusters of the deleted file get free, and belong to nobody else.
LEMMA DeleteStep ==
  ASSUME FilesInv, NEW title \in Titles, FileDelete(title)
  PROVE  FilesInv'
<1> DEFINE S == ClusterSize
           type == m_FATInfo.FATType
<1>1. m_FATInfo \in Formats /\ S \in Nat \ {0} /\ UNCHANGED m_FATInfo
  BY FormatFacts DEF FilesInv, FileDelete
<1>2. PICK E, W, R : Kept(S, type, alloc, data, m_Root, m_Files, E, W, R)
  BY DEF FilesInv
<1>3. DeletedWell(S, type, title)
  <2> HIDE DEF type
  <2> QED
    BY <1>1, <1>2, FileDeleted
<1>4. \E E2, W2, R2 : Kept(S, type, alloc', data', m_Root', m_Files', E2, W2, R2)
  BY <1>3 DEF DeletedWell, FileDelete
<1> QED
  BY <1>1, <1>4, InvAfter

\* A reader that closes leaves everything else as it is.
LEMMA ReadEnds ==
  ASSUME FilesInv, NEW h \in Hs, FileClose(h), ~m_Files[h].bWrite
  PROVE  FilesInv'
<1> DEFINE S == ClusterSize
           type == m_FATInfo.FATType
<1>1. m_FATInfo \in Formats /\ S \in Nat \ {0} /\ UNCHANGED <<m_FATInfo, alloc, data>>
  BY FormatFacts DEF FilesInv, FileClose
<1> HIDE DEF S
<1>2. PICK E, W, R : Kept(S, type, alloc, data, m_Root, m_Files, E, W, R)
  BY DEF FilesInv, S
<1>3. m_Root' = m_Root
  <2>1. DOMAIN m_Root = 1 .. Len(m_Root) /\ m_Root \in Seq(Entries)
    BY <1>2, KeptTypes
  <2> QED
    BY <2>1, LenProperties DEF FileClose
<1>4. HandleFits(S, alloc.entry, data, m_Root, m_Files, E, W, R, h, NoFile, <<>>)
  BY NoFileIs, NoneFits
<1>5. PICK W2 : Kept(S, type, alloc, data, m_Root, [m_Files EXCEPT ![h] = NoFile], E, W2, R)
  BY <1>1, <1>2, <1>4, HandleChanges
<1>6. Kept(S, type, alloc', data', m_Root', m_Files', E, W2, R)
  BY <1>1, <1>3, <1>5 DEF FileClose
<1> QED
  BY <1>1, <1>6, InvAfter DEF S

-----------------------------------------------------------------------------
(* Closing a file that has been written                                    *)

EntriesOf(r, T, t) ==
  /\ T \subseteq DOMAIN r
  /\ \A i \in T : r[i].Name = t
  /\ \A i, j \in T : i = j
Written(r, T, f) ==
  [i \in DOMAIN r |-> IF i \in T THEN DirEntry(f.chTitle, f.nFirstCluster, f.nSize) ELSE r[i]]

\* The entry of its title gets the chain of the writer, and the writer none.
LEMMA WriterEnds ==
  ASSUME NEW S \in Nat \ {0}, NEW type, NEW a, NEW d, NEW r, NEW m, NEW E, NEW W, NEW R,
         Kept(S, type, a, d, r, m, E, W, R), NEW h \in Hs, m[h].bWrite,
         NEW T, EntriesOf(r, T, m[h].chTitle), NEW r2, r2 = Written(r, T, m[h])
  PROVE  \E E2, W2 : Kept(S, type, a, d, r2, [m EXCEPT ![h] = NoFile], E2, W2, R)
<1> DEFINE f == m[h]
           t == f.chTitle
           x == DirEntry(t, f.nFirstCluster, f.nSize)
           E2 == [i \in DOMAIN r |-> IF i \in T THEN W[h] ELSE E[i]]
           W2 == [g \in Hs |-> IF g = h THEN <<>> ELSE W[g]]
           m2 == [m EXCEPT ![h] = NoFile]
<1>1. /\ r \in Seq(Entries) /\ DOMAIN r = 1 .. Len(r) /\ Len(r) \in Nat
      /\ \A i \in DOMAIN r : r[i] \in Entries
      /\ m \in [Hs -> Files] /\ f \in Files
  BY KeptTypes
<1>2. HandleIs(S, a.entry, d, f, W[h]) /\ Disjoint(r, m, E, W, R)
  BY DEF Kept
<1>3. t \in Titles
  BY <1>2, NoFileIs DEF HandleIs
<1>4. FileIs(S, a.entry, d, W[h], t, f.nSize) /\ f.nFirstCluster = FirstIn(W[h])
  BY <1>2, <1>3 DEF HandleIs, Position
<1>5. x \in Entries /\ x.Name = t /\ x.nFirstCluster = f.nFirstCluster /\ x.nFileSize = f.nSize
  BY <1>1, <1>3 DEF DirEntry, Entries, Files
<1> HIDE DEF x
<1>6. EntryIs(S, a.entry, d, x, W[h])
  BY <1>3, <1>4, <1>5 DEF EntryIs
<1>7. /\ \A i \in DOMAIN r : IF i \in T THEN r2[i] = x /\ E2[i] = W[h]
                             ELSE r2[i] = r[i] /\ E2[i] = E[i]
      /\ r2 \in [1 .. Len(r) -> Entries] /\ DOMAIN r2 = DOMAIN r
  BY <1>1, <1>5 DEF Written, x
<1>8. r2 \in Seq(Entries) /\ Len(r2) = Len(r)
  BY <1>1, <1>7, IsASeq, LenProperties
<1>9. /\ T \subseteq DOMAIN r /\ \A i \in T : r[i].Name = t /\ r2[i].Name = t
      /\ \A i, j \in T : i = j
  BY <1>5, <1>7 DEF EntriesOf
<1>10. /\ m2 \in [Hs -> Files] /\ m2[h] = NoFile /\ W2[h] = <<>>
       /\ \A g \in Hs : g # h => m2[g] = m[g] /\ W2[g] = W[g]
  BY <1>1, NoFileIs
<1> HIDE DEF E2, W2, m2
<1>11. \A i \in DOMAIN r2 : EntryIs(S, a.entry, d, r2[i], E2[i])
  BY <1>6, <1>7 DEF Kept
<1>12. \A g \in Hs : HandleIs(S, a.entry, d, m2[g], W2[g])
  BY <1>10, NoFileIs DEF Kept
<1>13. RootIs(type, a.entry, r2, R)
  BY <1>8 DEF Kept, RootIs
<1>14. Disjoint(r2, m2, E2, W2, R)
  <2>1. \A i \in DOMAIN r : Apart(E[i], W[h]) /\ Apart(W[h], E[i])
    BY <1>2, ApartFacts DEF Disjoint
  <2>2. ASSUME NEW i \in DOMAIN r2, NEW j \in DOMAIN r2, i # j PROVE Apart(E2[i], E2[j])
    BY <1>2, <1>7, <1>9, <2>1, <2>2 DEF Disjoint
  <2>3. \A i \in DOMAIN r2 : Apart(E2[i], R)
    BY <1>2, <1>7 DEF Disjoint
  <2>4. \A g \in Hs : Apart(W2[g], R)
    BY <1>2, <1>10, ApartFacts DEF Disjoint
  <2>5. ASSUME NEW i \in DOMAIN r2, NEW g \in Hs, m2[g].bWrite \/ m2[g].chTitle # r2[i].Name
        PROVE  Apart(E2[i], W2[g])
    <3>1. CASE g = h
      BY <1>10, <3>1, ApartFacts
    <3>2. CASE g # h /\ i \in T
      <4>1. Apart(W[h], W[g])
        BY <1>2, <3>2 DEF Disjoint
      <4> QED
        BY <1>7, <1>10, <3>2, <4>1
    <3>3. CASE g # h /\ i \notin T
      BY <1>2, <1>7, <1>10, <2>5, <3>3 DEF Disjoint
    <3> QED
      BY <3>1, <3>2, <3>3
  <2>6. ASSUME NEW g \in Hs, NEW l \in Hs, g # l, m2[g].bWrite PROVE Apart(W2[g], W2[l])
    <3>1. g # h
      BY <1>10, <2>6, NoFileIs
    <3> QED
      BY <1>2, <1>10, <2>6, <3>1, ApartFacts DEF Disjoint
  <2> QED
    BY <2>2, <2>3, <2>4, <2>5, <2>6 DEF Disjoint
<1>15. Kept(S, type, a, d, r2, m2, E2, W2, R)
  BY <1>8, <1>10, <1>11, <1>12, <1>13, <1>14 DEF Kept
<1> QED
  BY <1>15 DEF m2

\* FileClose keeps the invariant, of a reader and of a writer.
LEMMA CloseStep ==
  ASSUME FilesInv, NEW h \in Hs, FileClose(h)
  PROVE  FilesInv'
<1> DEFINE S == ClusterSize
           type == m_FATInfo.FATType
           T == Titled(m_Files[h].chTitle)
<1>1. m_FATInfo \in Formats /\ S \in Nat \ {0} /\ UNCHANGED <<m_FATInfo, alloc, data>>
  BY FormatFacts DEF FilesInv, FileClose
<1>2. CASE ~m_Files[h].bWrite
  BY <1>2, ReadEnds
<1>3. CASE m_Files[h].bWrite
  <2> HIDE DEF S
  <2>1. PICK E, W, R : Kept(S, type, alloc, data, m_Root, m_Files, E, W, R)
    BY DEF FilesInv, S
  <2>2. EntriesOf(m_Root, T, m_Files[h].chTitle)
    BY <2>1, KeptTypes, TitledOne DEF EntriesOf
  <2>3. m_Root' = Written(m_Root, T, m_Files[h]) /\ m_Files' = [m_Files EXCEPT ![h] = NoFile]
    BY <1>3 DEF FileClose, Written
  <2> HIDE DEF T, type
  <2>4. PICK E2, W2 : Kept(S, type, alloc, data, m_Root', m_Files', E2, W2, R)
    BY <1>1, <1>3, <2>1, <2>2, <2>3, WriterEnds
  <2>5. Kept(S, type, alloc', data', m_Root', m_Files', E2, W2, R)
    BY <1>1, <2>4
  <2> QED
    BY <1>1, <2>5, InvAfter DEF S, type
<1> QED
  BY <1>2, <1>3

-----------------------------------------------------------------------------
(* Creating a file                                                         *)

\* If there is an unused entry, there is a first one,
LEMMA FreeEntryFound ==
  ASSUME NEW r \in Seq(Entries), NEW i \in DOMAIN r, r[i].Name \in {"free", "last"}
  PROVE  FirstFreeEntry(r) # {}
<1> DEFINE X == {j \in DOMAIN r : r[j].Name \in {"free", "last"}}
<1>1. DOMAIN r = 1 .. Len(r) /\ Len(r) \in Nat
  BY LenProperties
<1>2. X \in SUBSET Nat /\ X # {}
  BY <1>1
<1>3. PICK n \in X : \A k \in X : n <= k
  BY <1>2, LeastMember
<1>4. \A j \in 1 .. n - 1 : r[j].Name \notin {"free", "last"}
  <2>1. \A j \in 1 .. n - 1 : j \in DOMAIN r /\ ~(n <= j)
    BY <1>1
  <2> QED
    BY <1>3, <2>1
<1>5. n \in FirstFreeEntry(r)
  BY <1>4 DEF FirstFreeEntry
<1> QED
  BY <1>5

\* and one more cluster of the root directory has one.
LEMMA GrownHasFree ==
  ASSUME NEW r \in Seq(Entries)
  PROVE  FirstFreeEntry(r \o Unused) # {}
<1> DEFINE r2 == r \o Unused
           n == Len(r) + 1
<1>1. Len(r) \in Nat /\ RootEntries \in Nat \ {0}
  BY LenProperties, UnusedIs
<1>2. r2 \in Seq(Entries) /\ Len(r2) = Len(r) + RootEntries
      /\ \A i \in 1 .. Len(r) + RootEntries : r2[i] = IF i <= Len(r) THEN r[i] ELSE Unused[i - Len(r)]
  BY UnusedIs, ConcatProperties
<1>3. DOMAIN r2 = 1 .. Len(r) + RootEntries
  BY <1>2, LenProperties
<1>4. n \in 1 .. Len(r) + RootEntries /\ ~(n <= Len(r)) /\ n - Len(r) = 1 /\ 1 \in 1 .. RootEntries
  BY <1>1
<1>5. r2[n] = Unused[1] /\ n \in DOMAIN r2
  BY <1>2, <1>3, <1>4
<1>6. r2[n].Name = "last"
  BY <1>4, <1>5, UnusedIs DEF UnusedEntry, DirEntry
<1> HIDE DEF r2, n
<1>7. FirstFreeEntry(r2) # {}
  BY <1>2, <1>5, <1>6, FreeEntryFound
<1> QED
  BY <1>7 DEF r2

\* An entry and a writer are made for the title.
LEMMA Created ==
  ASSUME NEW S \in Nat \ {0}, NEW type, NEW a, NEW d, NEW r, NEW m, NEW E, NEW W, NEW R,
         Kept(S, type, a, d, r, m, E, W, R), NEW t \in Titles, NEW h \in Hs,
         FirstFreeEntry(r) # {}
  PROVE  \E W2 : Kept(S, type, a, d, [r EXCEPT ![CHOOSE i \in FirstFreeEntry(r) : TRUE] =
                                        DirEntry(t, 0, 0)],
                      [m EXCEPT ![h] = WriterOf(t)], E, W2, R)
<1> DEFINE i == CHOOSE i \in FirstFreeEntry(r) : TRUE
           r2 == [r EXCEPT ![i] = DirEntry(t, 0, 0)]
           f == WriterOf(t)
<1>1. i \in FirstFreeEntry(r)
  OBVIOUS
<1> HIDE DEF i
<1>2. i \in DOMAIN r /\ r[i].Name \notin Titles
  BY <1>1, FilesAssumption DEF FirstFreeEntry
<1>3. Kept(S, type, a, d, r2, m, E, W, R)
  BY <1>2, EntryMade
<1> HIDE DEF r2
<1>4. /\ f \in Files /\ f.chTitle = t /\ f.nSize = 0 /\ f.nCluster = 0
      /\ f.nUseCount = 1 /\ f.nOffset = 0 /\ ~f.pBuffer /\ f.bWrite /\ f.nFirstCluster = 0
  BY NewWriter
<1> HIDE DEF f
<1>5. HandleIs(S, a.entry, d, f, <<>>)
  <2>1. FirstIn(<<>>) = 0
    BY DEF FirstIn
  <2>2. Position(S, f, <<>>)
    BY <1>4, <2>1, Opened
  <2> QED
    BY <1>4, <2>2, NoneFile DEF HandleIs
<1>6. HandleFits(S, a.entry, d, r2, m, E, W, R, h, f, <<>>)
  BY <1>4, <1>5, NoneFits
<1>7. \E W2 : Kept(S, type, a, d, r2, [m EXCEPT ![h] = f], E, W2, R)
  BY <1>3, <1>6, HandleChanges
<1> QED
  BY <1>7 DEF r2, i, f

\* FileCreate deletes a file of the title, enlarges the root directory where it has to, and makes
\* an entry and a writer, without any cluster.
LEMMA CreateStep ==
  ASSUME FilesInv, NEW title \in Titles, FileCreate(title)
  PROVE  FilesInv'
<1> DEFINE S == ClusterSize
           type == m_FATInfo.FATType
           root == RootWithout(title)
           a == AllocWithout(title)
           full == FirstFreeEntry(root) = {}
           grows == full /\ type = "FAT32" /\ FreeCluster(a) # 0
           larger == IF grows THEN root \o Unused ELSE root
           a2 == IF grows THEN Grown(a) ELSE a
           d == DataIn(a)
           m == Orphaned(title)
<1>1. m_FATInfo \in Formats /\ S \in Nat \ {0} /\ UNCHANGED m_FATInfo
  BY FormatFacts DEF FilesInv, FileCreate
<1>2. PICK h \in Hs :
        /\ alloc' = a2 /\ data' = d
        /\ IF full /\ ~grows
           THEN m_Root' = root /\ m_Files' = m
           ELSE /\ m_Root' = [larger EXCEPT ![CHOOSE i \in FirstFreeEntry(larger) : TRUE] =
                                DirEntry(title, 0, 0)]
                /\ m_Files' = [m EXCEPT ![h] = WriterOf(title)]
  BY DEF FileCreate, WriterOf
<1>3. PICK E0, W0, R0 : Kept(S, type, alloc, data, m_Root, m_Files, E0, W0, R0)
  BY DEF FilesInv
<1>4. DeletedWell(S, type, title)
  <2> HIDE DEF type
  <2> QED
    BY <1>1, <1>3, FileDeleted
<1> HIDE DEF S, type
<1>5. PICK E, W, R : Kept(S, type, a, d, root, m, E, W, R)
  BY <1>4 DEF DeletedWell
<1>6. root \in Seq(Entries)
  BY <1>5, KeptTypes
<1> HIDE DEF root, a, d, m
<1>7. \E E1, R1 : Kept(S, type, a2, d, larger, m, E1, W, R1)
  <2>1. CASE grows
    <3>1. Kept(S, "FAT32", a, d, root, m, E, W, R)
      BY <1>5, <2>1
    <3> QED
      BY <1>1, <2>1, <3>1, RootGrows
  <2>2. CASE ~grows
    BY <1>5, <2>2
  <2> QED
    BY <2>1, <2>2
<1>8. grows => full
  OBVIOUS
<1>9. ~full => FirstFreeEntry(larger) # {}
  OBVIOUS
<1>10. grows => FirstFreeEntry(larger) # {}
  BY <1>6, GrownHasFree
<1>11. PICK E1, R1 : Kept(S, type, a2, d, larger, m, E1, W, R1)
  BY <1>7
<1> HIDE DEF larger, a2, full, grows
<1>12. CASE full /\ ~grows
  <2>1. larger = root
    BY <1>12 DEF larger
  <2>2. Kept(S, type, alloc', data', m_Root', m_Files', E1, W, R1)
    BY <1>2, <1>11, <1>12, <2>1
  <2> QED
    BY <1>1, <2>2, InvAfter DEF S, type
<1>13. CASE ~(full /\ ~grows)
  <2>1. FirstFreeEntry(larger) # {}
    BY <1>9, <1>10, <1>13
  <2>2. PICK W2 : Kept(S, type, a2, d, [larger EXCEPT ![CHOOSE i \in FirstFreeEntry(larger) : TRUE] =
                                          DirEntry(title, 0, 0)],
                       [m EXCEPT ![h] = WriterOf(title)], E1, W2, R1)
    BY <1>1, <1>11, <2>1, Created
  <2>3. Kept(S, type, alloc', data', m_Root', m_Files', E1, W2, R1)
    BY <1>2, <1>13, <2>2
  <2> QED
    BY <1>1, <2>3, InvAfter DEF S, type
<1> QED
  BY <1>12, <1>13

-----------------------------------------------------------------------------
(* Reading and writing                                                     *)

ReaderMoved(f, c) == Moved([f EXCEPT !.nCluster = c])
WriterMoved(f, c, first) ==
  [Moved(f) EXCEPT !.nCluster = c, !.nFirstCluster = first, !.nSize = f.nSize + 1]

\* An open file by its fields.
LEMMA FileIsRecord ==
  ASSUME NEW f \in Files
  PROVE  f = FileRecord(f.nUseCount, f.chTitle, f.nSize, f.nOffset, f.nCluster, f.nFirstCluster,
                        f.pBuffer, f.bWrite)
BY DEF Files, FileRecord

\* Moved changes the place, and whether a sector is kept.
LEMMA MovedFields ==
  ASSUME NEW use, NEW t, NEW size, NEW offset, NEW c, NEW first, NEW sector, NEW write,
         NEW f, f = FileRecord(use, t, size, offset, c, first, sector, write),
         NEW g, g = Moved(f)
  PROVE  g = FileRecord(use, t, size, offset + 1, c, first, (offset + 1) % SectorSize # 0, write)
<1> DEFINE b == (offset + 1) % SectorSize # 0
           o == offset + 1
           f1 == [f EXCEPT !.nOffset = o]
<1>1. f.nOffset = offset
  BY DEF FileRecord
<1>2. g = [f1 EXCEPT !.pBuffer = b]
  BY <1>1 DEF Moved
<1> HIDE DEF b, o
<1>3. f1 = FileRecord(use, t, size, o, c, first, sector, write)
  BY DEF FileRecord
<1> HIDE DEF f1
<1>4. g = FileRecord(use, t, size, o, c, first, b, write)
  BY ONLY <1>2, <1>3 DEF FileRecord
<1> QED
  BY <1>4 DEF b, o

\* The fields after FileRead,
LEMMA ReaderFields ==
  ASSUME NEW f \in Files, f.nOffset < MaxSize, NEW c \in Clusters, NEW g, g = ReaderMoved(f, c)
  PROVE  /\ g \in Files /\ g.nUseCount = f.nUseCount /\ g.chTitle = f.chTitle
         /\ g.nSize = f.nSize /\ g.nOffset = f.nOffset + 1 /\ g.nCluster = c
         /\ g.nFirstCluster = f.nFirstCluster /\ g.bWrite = f.bWrite
         /\ g.pBuffer = ((f.nOffset + 1) % SectorSize # 0)
<1> DEFINE use == f.nUseCount
           t == f.chTitle
           size == f.nSize
           offset == f.nOffset
           first == f.nFirstCluster
           sector == f.pBuffer
           write == f.bWrite
           b == (offset + 1) % SectorSize # 0
           o == offset + 1
           f1 == [f EXCEPT !.nCluster = c]
<1>1. /\ use \in {0, 1} /\ t \in Titles \cup {"none"} /\ size \in 0 .. MaxSize
      /\ offset \in 0 .. MaxSize /\ first \in Clusters \cup {0} /\ write \in BOOLEAN
      /\ b \in BOOLEAN /\ MaxSize \in Nat
  BY FilesAssumption DEF Files
<1>2. o \in 0 .. MaxSize
  BY <1>1
<1>3. f1 = FileRecord(use, t, size, offset, c, first, sector, write)
  <2>1. f = FileRecord(use, t, size, offset, f.nCluster, first, sector, write)
    BY FileIsRecord
  <2> HIDE DEF use, t, size, offset, first, sector, write
  <2> DEFINE c0 == f.nCluster
  <2> HIDE DEF c0
  <2>2. f = FileRecord(use, t, size, offset, c0, first, sector, write)
    BY <2>1 DEF c0
  <2> QED
    BY ONLY <2>2 DEF FileRecord
<1>4. g = Moved(f1)
  BY DEF ReaderMoved
<1> HIDE DEF f1, use, t, size, first, sector, write
<1>5. g = FileRecord(use, t, size, offset + 1, c, first, (offset + 1) % SectorSize # 0, write)
  BY ONLY <1>3, <1>4, MovedFields
<1> HIDE DEF b, o
<1>6. g = FileRecord(use, t, size, o, c, first, b, write)
  BY <1>5 DEF b, o
<1>7. g \in Files
  BY ONLY <1>1, <1>2, <1>6, c \in Clusters DEF FileRecord, Files
<1>8. /\ g.nUseCount = use /\ g.chTitle = t /\ g.nSize = size /\ g.nOffset = o /\ g.nCluster = c
      /\ g.nFirstCluster = first
  BY ONLY <1>6 DEF FileRecord
<1>9. g.bWrite = write
  BY ONLY <1>6 DEF FileRecord
<1>10. g.pBuffer = b
  BY ONLY <1>6 DEF FileRecord
<1> QED
  BY <1>7, <1>8, <1>9, <1>10 DEF use, t, size, o, first, write, b

\* and after FileWrite.
LEMMA WriterFields ==
  ASSUME NEW f \in Files, f.nOffset = f.nSize, f.nSize < MaxSize,
         NEW c \in Clusters, NEW first \in Clusters, NEW g, g = WriterMoved(f, c, first)
  PROVE  /\ g \in Files /\ g.nUseCount = f.nUseCount /\ g.chTitle = f.chTitle
         /\ g.nSize = f.nSize + 1 /\ g.nOffset = f.nOffset + 1 /\ g.nCluster = c
         /\ g.nFirstCluster = first /\ g.bWrite = f.bWrite
         /\ g.pBuffer = ((f.nOffset + 1) % SectorSize # 0)
<1> DEFINE use == f.nUseCount
           t == f.chTitle
           size == f.nSize
           offset == f.nOffset
           first0 == f.nFirstCluster
           c0 == f.nCluster
           sector == f.pBuffer
           write == f.bWrite
           b == (offset + 1) % SectorSize # 0
           o == offset + 1
           n == size + 1
           f1 == Moved(f)
           f2 == [f1 EXCEPT !.nCluster = c]
           f3 == [f2 EXCEPT !.nFirstCluster = first]
<1>1. /\ use \in {0, 1} /\ t \in Titles \cup {"none"} /\ size \in 0 .. MaxSize
      /\ offset \in 0 .. MaxSize /\ write \in BOOLEAN /\ b \in BOOLEAN /\ MaxSize \in Nat
  BY FilesAssumption DEF Files
<1>2. o \in 0 .. MaxSize /\ n \in 0 .. MaxSize
  BY <1>1
<1>3. f = FileRecord(use, t, size, offset, c0, first0, sector, write)
  BY FileIsRecord
<1>4. g = [f3 EXCEPT !.nSize = n]
  BY DEF WriterMoved
<1>5. f1 = Moved(f)
  OBVIOUS
<1> HIDE DEF f1, use, t, size, first0, c0, sector, write, n
<1>6. f1 = FileRecord(use, t, size, offset + 1, c0, first0, (offset + 1) % SectorSize # 0, write)
  BY ONLY <1>3, <1>5, MovedFields
<1> HIDE DEF b, o
<1>7. f1 = FileRecord(use, t, size, o, c0, first0, b, write)
  BY <1>6 DEF b, o
<1>8. f2 = FileRecord(use, t, size, o, c, first0, b, write)
  BY ONLY <1>7 DEF FileRecord
<1> HIDE DEF f2
<1>9. f3 = FileRecord(use, t, size, o, c, first, b, write)
  BY ONLY <1>8 DEF FileRecord
<1> HIDE DEF f3
<1>10. g = FileRecord(use, t, n, o, c, first, b, write)
  BY ONLY <1>4, <1>9 DEF FileRecord
<1>11. g \in Files
  BY ONLY <1>1, <1>2, <1>10, c \in Clusters, first \in Clusters DEF FileRecord, Files
<1>12. /\ g.nUseCount = use /\ g.chTitle = t /\ g.nSize = n /\ g.nOffset = o /\ g.nCluster = c
       /\ g.nFirstCluster = first
  BY ONLY <1>10 DEF FileRecord
<1>13. g.bWrite = write
  BY ONLY <1>10 DEF FileRecord
<1>14. g.pBuffer = b
  BY ONLY <1>10 DEF FileRecord
<1> QED
  BY <1>11, <1>12, <1>13, <1>14 DEF use, t, size, n, o, write, b

\* The sector has to be found where a cluster begins.
LEMMA AtClusterIs ==
  ASSUME m_FATInfo \in Formats, NEW f \in Files, f.pBuffer = (f.nOffset % SectorSize # 0)
  PROVE  AtCluster(f) <=> f.nOffset % ClusterSize = 0
<1> DEFINE n == f.nOffset
           s == SectorSize
           k == m_FATInfo.SectorsPerCluster
<1>1. s \in Nat \ {0} /\ k \in Nat \ {0} /\ n \in Nat
  BY FormatFacts, FilesAssumption DEF Files
<1> HIDE DEF n, s, k
<1>2. n % (s * k) = 0 <=> n % s = 0 /\ (n \div s) % k = 0
  BY ONLY <1>1, FirstOfCluster
<1>3. AtCluster(f) <=> ~f.pBuffer /\ (n \div s) % k = 0
  BY DEF AtCluster, n, s, k
<1>4. f.pBuffer = (n % s # 0)
  BY DEF n, s
<1>5. AtCluster(f) <=> n % (s * k) = 0
  BY <1>2, <1>3, <1>4
<1> QED
  BY <1>5 DEF ClusterSize, n, s, k

\* The cluster of a place is that of the place before, unless a cluster begins there.
LEMMA ClusterAt ==
  ASSUME NEW S \in Nat \ {0}, NEW f \in Files, NEW k, Position(S, f, k), NEW n, n = f.nOffset
  PROVE  /\ n \in Nat /\ n \div S \in Nat /\ Needs(S, n + 1) = (n \div S) + 1
         /\ n % S # 0 => f.nCluster = k[(n \div S) + 1] /\ Needs(S, n) = (n \div S) + 1
         /\ n % S = 0 /\ n > 0 =>
              f.nCluster = k[n \div S] /\ Needs(S, n) = n \div S /\ n \div S > 0
         /\ n = 0 => n % S = 0 /\ f.nCluster = FirstIn(k) /\ n \div S = 0
<1>1. n \in Nat
  BY FilesAssumption DEF Files
<1> DEFINE q == n \div S
           r == n % S
<1>2. q \in Nat /\ r \in 0 .. S - 1 /\ n = S * q + r
  BY <1>1, Places
<1>3. Needs(S, n + 1) = q + 1 /\ Needs(S, n) = IF r = 0 THEN q ELSE q + 1
  BY <1>1, NeedsOfNext
<1>4. n = 0 => q = 0 /\ r = 0
  <2>1. (S * 0 + 0) \div S = 0 /\ (S * 0 + 0) % S = 0
    BY Quotients
  <2>2. S * 0 + 0 = 0
    OBVIOUS
  <2> QED
    BY <2>1, <2>2
<1> HIDE DEF q, r
<1>5. r = 0 /\ n > 0 => q > 0
  <2>1. q = 0 => S * q = 0
    OBVIOUS
  <2> QED
    BY <1>2, <2>1
<1>6. f.nCluster = IF n = 0 THEN FirstIn(k) ELSE k[Needs(S, n)]
  BY DEF Position
<1>7. /\ r # 0 => f.nCluster = k[q + 1] /\ Needs(S, n) = q + 1
      /\ r = 0 /\ n > 0 => f.nCluster = k[q] /\ Needs(S, n) = q /\ q > 0
      /\ n = 0 => r = 0 /\ f.nCluster = FirstIn(k) /\ q = 0
  BY <1>1, <1>3, <1>4, <1>5, <1>6
<1> QED
  BY <1>1, <1>2, <1>3, <1>7 DEF q, r

\* A reader finds the cluster of its place.
LEMMA ReadFromIs ==
  ASSUME m_FATInfo \in Formats, NEW S, S = ClusterSize, NEW f \in Files, NEW k, NEW d, NEW t,
         FileIs(S, alloc.entry, d, k, t, f.nSize), Position(S, f, k), f.nOffset < f.nSize
  PROVE  /\ (f.nOffset \div S) + 1 \in 1 .. Len(k)
         /\ ReadFrom(f) = k[(f.nOffset \div S) + 1] /\ ReadFrom(f) \in Clusters
<1> DEFINE n == f.nOffset
           size == f.nSize
           c == f.nCluster
           q == n \div S
           r == n % S
<1>1. S \in Nat \ {0} /\ n \in Nat /\ size \in Nat /\ n \in 0 .. size - 1
  BY FormatFacts, FilesAssumption DEF Files
<1>2. AtCluster(f) <=> r = 0
  BY AtClusterIs DEF Position
<1>3. /\ q \in Nat
      /\ r # 0 => c = k[q + 1]
      /\ r = 0 /\ n > 0 => c = k[q] /\ q > 0
      /\ n = 0 => r = 0 /\ c = FirstIn(k) /\ q = 0
  BY <1>1, ClusterAt
<1>4. q + 1 \in 1 .. Len(k)
  <2>1. Len(k) = Needs(S, size)
    BY DEF FileIs
  <2> HIDE DEF size, n
  <2> QED
    BY <1>1, <2>1, PlaceInFile
<1>5. Linked(alloc.entry, k)
  BY DEF FileIs
<1>6. Len(k) \in Nat /\ \A i \in 1 .. Len(k) : k[i] \in Clusters
  BY <1>5, ElementOfSeq, LenProperties DEF Linked
<1>7. ReadFrom(f) = IF r = 0 /\ n > 0 THEN alloc.entry[c] ELSE c
  BY <1>2 DEF ReadFrom
<1> HIDE DEF n, size, c, q, r
<1>8. CASE r = 0 /\ n > 0
  <2>1. q \in 1 .. Len(k) /\ q # Len(k)
    BY <1>3, <1>4, <1>6, <1>8
  <2>2. alloc.entry[k[q]] = k[q + 1]
    BY <1>5, <2>1 DEF Linked
  <2> QED
    BY <1>3, <1>4, <1>6, <1>7, <1>8, <2>2 DEF n, q
<1>9. CASE n = 0
  <2>1. k # <<>>
    BY <1>4, <1>6, NoneLinked
  <2>2. c = k[q + 1]
    BY <1>3, <1>9, <2>1 DEF FirstIn
  <2> QED
    BY <1>1, <1>4, <1>6, <1>7, <1>9, <2>2 DEF n, q
<1>10. CASE r # 0
  BY <1>3, <1>4, <1>6, <1>7, <1>10 DEF n, q
<1> QED
  BY <1>1, <1>8, <1>9, <1>10

\* FileRead moves to the next place, in the cluster of the byte that has been read.
LEMMA ReadStep ==
  ASSUME FilesInv, NEW h \in Hs, FileRead(h)
  PROVE  FilesInv'
<1> DEFINE S == ClusterSize
           type == m_FATInfo.FATType
           f == m_Files[h]
           n == f.nOffset
           c == ReadFrom(f)
           g == ReaderMoved(f, c)
<1>1. /\ m_FATInfo \in Formats /\ S \in Nat \ {0} /\ UNCHANGED <<m_FATInfo, alloc, m_Root, data>>
      /\ ~f.bWrite /\ f.nOffset < f.nSize
  BY FormatFacts DEF FilesInv, FileRead
<1>2. m_Files' = [m_Files EXCEPT ![h] = g]
  BY DEF FileRead, ReaderMoved
<1>3. PICK E, W, R : Kept(S, type, alloc, data, m_Root, m_Files, E, W, R)
  BY DEF FilesInv
<1> DEFINE k == W[h]
           t == f.chTitle
           size == f.nSize
<1>4. f \in Files /\ HandleIs(S, alloc.entry, data, f, k) /\ Disjoint(m_Root, m_Files, E, W, R)
  BY <1>3, KeptTypes DEF Kept
<1>5. n \in Nat /\ size \in 0 .. MaxSize /\ MaxSize \in Nat /\ n < MaxSize
  BY <1>1, <1>4, FilesAssumption DEF Files
<1>6. t \in Titles
  <2>1. NoFile.nOffset = 0 /\ NoFile.nSize = 0 /\ Orphan.nOffset = 0 /\ Orphan.nSize = 0
    BY DEF NoFile, Orphan
  <2> QED
    BY <1>1, <1>4, <2>1 DEF HandleIs
<1>7. FileIs(S, alloc.entry, data, k, t, size) /\ Position(S, f, k)
  BY <1>4, <1>6 DEF HandleIs
<1>8. (n \div S) + 1 \in 1 .. Len(k) /\ c = k[(n \div S) + 1] /\ c \in Clusters
  BY <1>1, <1>4, <1>7, ReadFromIs
<1>9. Needs(S, n + 1) = (n \div S) + 1
  BY <1>1, <1>5, NeedsOfNext
<1> HIDE DEF c
<1>10. /\ g \in Files /\ g.nUseCount = f.nUseCount /\ g.chTitle = t
       /\ g.nSize = size /\ g.nOffset = n + 1 /\ g.nCluster = c
       /\ g.nFirstCluster = f.nFirstCluster /\ g.bWrite = f.bWrite
       /\ g.pBuffer = ((n + 1) % SectorSize # 0)
  BY <1>4, <1>5, <1>8, ReaderFields
<1> HIDE DEF g, S, type
<1>11. Position(S, g, k)
  <2>1. g.nOffset # 0 /\ g.nOffset <= g.nSize /\ g.nCluster = k[Needs(S, g.nOffset)]
    BY <1>1, <1>5, <1>8, <1>9, <1>10
  <2>2. g.nUseCount = 1
    BY <1>7, <1>10 DEF Position
  <2> QED
    BY <1>1, <1>10, <2>1, <2>2 DEF Position
<1>12. HandleIs(S, alloc.entry, data, g, k)
  BY <1>6, <1>7, <1>10, <1>11 DEF HandleIs
<1>13. HandleFits(S, alloc.entry, data, m_Root, m_Files, E, W, R, h, g, k)
  BY <1>1, <1>4, <1>10, <1>12, ApartFacts DEF Disjoint, HandleFits
<1>14. PICK W2 : Kept(S, type, alloc, data, m_Root, [m_Files EXCEPT ![h] = g], E, W2, R)
  BY <1>1, <1>3, <1>13, HandleChanges
<1>15. Kept(S, type, alloc', data', m_Root', m_Files', E, W2, R)
  BY <1>1, <1>2, <1>14
<1> QED
  BY <1>1, <1>15, InvAfter DEF S, type

\* A writer's chain gets longer, on the cost of free clusters.
LEMMA WriterChanges ==
  ASSUME NEW S \in Nat \ {0}, NEW type, NEW a, NEW d, NEW r, NEW m, NEW E, NEW W, NEW R,
         Kept(S, type, a, d, r, m, E, W, R), NEW h \in Hs, m[h].bWrite,
         NEW a2, FatTrue(type, a2), NEW d2 \in [Clusters -> [0 .. S - 1 -> Bytes]],
         NEW C, SameIn(C, a.entry, a2.entry, d, d2), C \subseteq Members(W[h]) \cup FreeIn(a.entry),
         NEW k, Members(k) \subseteq Members(W[h]) \cup FreeIn(a.entry),
         NEW f \in Files, HandleIs(S, a2.entry, d2, f, k)
  PROVE  \E W2 : Kept(S, type, a2, d2, r, [m EXCEPT ![h] = f], E, W2, R)
<1> DEFINE X == Members(W[h]) \cup FreeIn(a.entry)
           m2 == [m EXCEPT ![h] = f]
           W2 == [g \in Hs |-> IF g = h THEN k ELSE W[g]]
<1>1. /\ r \in Seq(Entries) /\ \A i \in DOMAIN r : r[i] \in Entries
      /\ m \in [Hs -> Files] /\ Disjoint(r, m, E, W, R)
  BY KeptTypes DEF Kept
<1>2. /\ m2 \in [Hs -> Files] /\ m2[h] = f /\ W2[h] = k
      /\ \A g \in Hs : g # h => m2[g] = m[g] /\ W2[g] = W[g]
  BY <1>1
<1> HIDE DEF m2, W2
<1>3. \A i \in DOMAIN r : Members(E[i]) \cap X = {}
  <2>1. \A i \in DOMAIN r : Members(E[i]) \cap Members(W[h]) = {}
    BY <1>1 DEF Disjoint, Apart
  <2>2. \A i \in DOMAIN r, c \in FreeIn(a.entry) : c \notin Members(E[i])
    BY EntryUsed DEF Kept, FreeIn
  <2> QED
    BY <2>1, <2>2
<1>4. \A g \in Hs : g # h => Members(W[g]) \cap X = {}
  <2>1. \A g \in Hs : g # h => Members(W[g]) \cap Members(W[h]) = {}
    BY <1>1 DEF Disjoint, Apart
  <2>2. \A g \in Hs, c \in FreeIn(a.entry) : c \notin Members(W[g])
    BY HandleUsed DEF Kept, FreeIn
  <2> QED
    BY <2>1, <2>2
<1>5. Members(R) \cap X = {}
  <2>1. Members(R) \cap Members(W[h]) = {}
    BY <1>1 DEF Disjoint, Apart
  <2>2. \A c \in FreeIn(a.entry) : c \notin Members(R)
    BY RootUsed DEF Kept, FreeIn
  <2> QED
    BY <2>1, <2>2
<1>6. C \subseteq X /\ Members(k) \subseteq X
  OBVIOUS
<1> HIDE DEF X
<1>7. ASSUME NEW i \in DOMAIN r PROVE EntryIs(S, a2.entry, d2, r[i], E[i])
  <2>1. EntryIs(S, a.entry, d, r[i], E[i]) /\ Members(E[i]) \cap C = {}
    BY <1>3, <1>6 DEF Kept
  <2> QED
    BY <1>1, <2>1, SameEntry
<1>8. ASSUME NEW g \in Hs PROVE HandleIs(S, a2.entry, d2, m2[g], W2[g])
  <2>1. CASE g = h
    BY <1>2, <2>1
  <2>2. CASE g # h
    <3>1. HandleIs(S, a.entry, d, m[g], W[g]) /\ Members(W[g]) \cap C = {} /\ m[g] \in Files
      BY <1>1, <1>4, <1>6, <2>2 DEF Kept
    <3> QED
      BY <1>2, <2>2, <3>1, SameHandle
  <2> QED
    BY <2>1, <2>2
<1>9. RootIs(type, a2.entry, r, R)
  <2>1. RootIs(type, a.entry, r, R) /\ Members(R) \cap C = {}
    BY <1>5, <1>6 DEF Kept
  <2> QED
    BY <2>1, SameRoot
<1>10. Disjoint(r, m2, E, W2, R)
  <2>1. \A g \in Hs : Apart(W2[g], R)
    BY <1>1, <1>2, <1>5, <1>6 DEF Disjoint, Apart
  <2>2. ASSUME NEW i \in DOMAIN r, NEW g \in Hs, m2[g].bWrite \/ m2[g].chTitle # r[i].Name
        PROVE  Apart(E[i], W2[g])
    <3>1. CASE g = h
      BY <1>2, <1>3, <1>6, <3>1 DEF Apart
    <3>2. CASE g # h
      BY <1>1, <1>2, <2>2, <3>2 DEF Disjoint
    <3> QED
      BY <3>1, <3>2
  <2>3. ASSUME NEW g \in Hs, NEW l \in Hs, g # l, m2[g].bWrite PROVE Apart(W2[g], W2[l])
    <3>1. CASE g = h
      BY <1>2, <1>4, <1>6, <2>3, <3>1 DEF Apart
    <3>2. CASE l = h
      BY <1>2, <1>4, <1>6, <2>3, <3>2 DEF Apart
    <3>3. CASE g # h /\ l # h
      BY <1>1, <1>2, <2>3, <3>3 DEF Disjoint
    <3> QED
      BY <3>1, <3>2, <3>3
  <2> QED
    BY <1>1, <2>1, <2>2, <2>3 DEF Disjoint
<1>11. Kept(S, type, a2, d2, r, m2, E, W2, R)
  BY <1>1, <1>2, <1>7, <1>8, <1>9, <1>10 DEF Kept
<1> QED
  BY <1>11 DEF m2

\* A free cluster is appended to the chain k.
LEMMA ChainLonger ==
  ASSUME NEW type, NEW a, FatTrue(type, a), NEW k, Linked(a.entry, k),
         NEW c, c = FreeCluster(a), c # 0,
         NEW a2, a2 = IF k = <<>> THEN Allocated(a, c)
                      ELSE SetClusterEntry(Allocated(a, c), k[Len(k)], c)
  PROVE  /\ FatTrue(type, a2) /\ c \in Clusters /\ c \in FreeIn(a.entry)
         /\ Linked(a2.entry, Append(k, c)) /\ Members(Append(k, c)) = Members(k) \cup {c}
         /\ \A x \in Clusters \ (Members(k) \cup {c}) : a2.entry[x] = a.entry[x]
<1> DEFINE b == Allocated(a, c)
           l == k[Len(k)]
<1>1. a \in Fats /\ a.entry \in [Clusters -> Clusters \cup {0, EOC}]
  BY DEF FatTrue, Fats
<1>2. c \in Clusters /\ a.entry[c] = 0 /\ c \in FreeIn(a.entry)
  BY <1>1, FreeClusterFound DEF FreeIn
<1>3. FatTrue(type, b) /\ b.entry = [a.entry EXCEPT ![c] = EOC]
  BY AllocatedTrue
<1>4. k # <<>> => /\ l \in Members(k) /\ l \in Clusters /\ l # c /\ b.entry[l] # 0
  <2>1. ASSUME k # <<>> PROVE l \in Members(k)
    <3>1. Len(k) \in Nat /\ Len(k) # 0
      BY <2>1, EmptySeq, LenProperties DEF Linked
    <3> QED
      BY <3>1 DEF Members
  <2>2. l \in Members(k) => l \in Clusters /\ a.entry[l] # 0
    BY LinkedUsed
  <2> QED
    BY <1>1, <1>2, <1>3, <2>1, <2>2
<1> HIDE DEF b, l
<1>5. CASE k = <<>>
  <2>1. a2 = b
    BY <1>5 DEF b
  <2>2. /\ a2.entry[c] = EOC /\ \A x \in Clusters : x # c => a2.entry[x] = a.entry[x]
    BY <1>1, <1>2, <1>3, <2>1
  <2>3. Appends(a.entry, a2.entry, k, c)
    BY <1>2, <1>5, <2>2 DEF Appends
  <2>4. Linked(a2.entry, Append(k, c)) /\ Members(Append(k, c)) = Members(k) \cup {c}
    BY <2>3, AppendLinked
  <2> QED
    BY <1>2, <1>3, <2>1, <2>2, <2>4
<1>6. CASE k # <<>>
  <2>1. a2 = SetClusterEntry(b, l, c)
    BY <1>6 DEF b, l
  <2>2. /\ FatTrue(type, SetClusterEntry(b, l, c))
        /\ SetClusterEntry(b, l, c).entry = [b.entry EXCEPT ![l] = c]
    <3>1. FatTrue(type, b) /\ l \in Clusters /\ c \in Clusters /\ b.entry[l] # 0
      BY <1>2, <1>3, <1>4, <1>6
    <3> QED
      BY ONLY <3>1, SetTrue
  <2>3. FatTrue(type, a2) /\ a2.entry = [b.entry EXCEPT ![l] = c]
    BY <2>1, <2>2
  <2>4. /\ a2.entry[c] = EOC /\ a2.entry[l] = c
        /\ \A x \in Clusters : x # c /\ x # l => a2.entry[x] = a.entry[x]
    BY <1>1, <1>2, <1>3, <1>4, <1>6, <2>3
  <2>5. \A x \in Members(k) : x # l => a2.entry[x] = a.entry[x]
    <3>1. \A x \in Members(k) : x \in Clusters /\ x # c
      BY <1>2, LinkedUsed
    <3> QED
      BY <2>4, <3>1
  <2>6. Appends(a.entry, a2.entry, k, c)
    BY <1>2, <1>6, <2>4, <2>5 DEF Appends, l
  <2>7. Linked(a2.entry, Append(k, c)) /\ Members(Append(k, c)) = Members(k) \cup {c}
    BY <2>6, AppendLinked
  <2>8. \A x \in Clusters \ (Members(k) \cup {c}) : x # c /\ x # l
    BY <1>4, <1>6
  <2> QED
    BY <1>2, <2>3, <2>4, <2>7, <2>8
<1> QED
  BY <1>5, <1>6

WithByte(d, c, place, byte) == [d EXCEPT ![c][place] = byte]
Extends(k, k2) == Len(k) <= Len(k2) /\ \A i \in 1 .. Len(k) : k2[i] = k[i]

\* The file t with n bytes in the chain k of the FAT e gets another byte.
GetsByte(S, e, d, k, t, n, e2, k2, c, d2) ==
  /\ d \in [Clusters -> [0 .. S - 1 -> Bytes]] /\ t \in Titles /\ n \in Nat /\ n < MaxSize
  /\ FileIs(S, e, d, k, t, n)
  /\ Linked(e2, k2) /\ Extends(k, k2) /\ Len(k2) = (n \div S) + 1
  /\ c = k2[(n \div S) + 1] /\ d2 = WithByte(d, c, n % S, Byte(t, n))

\* The next byte of a file is written, perhaps the first one of a cluster.
LEMMA ByteWritten ==
  ASSUME NEW S \in Nat \ {0}, NEW e, NEW d, NEW k, NEW t, NEW n, NEW e2, NEW k2, NEW c, NEW d2,
         GetsByte(S, e, d, k, t, n, e2, k2, c, d2)
  PROVE  /\ FileIs(S, e2, d2, k2, t, n + 1)
         /\ d2 \in [Clusters -> [0 .. S - 1 -> Bytes]]
         /\ \A x \in Clusters : x # c => d2[x] = d[x]
<1>0. /\ d \in [Clusters -> [0 .. S - 1 -> Bytes]] /\ t \in Titles /\ n \in Nat /\ n < MaxSize
      /\ FileIs(S, e, d, k, t, n)
      /\ Linked(e2, k2) /\ Extends(k, k2) /\ Len(k2) = (n \div S) + 1
      /\ c = k2[(n \div S) + 1] /\ d2 = WithByte(d, c, n % S, Byte(t, n))
  BY DEF GetsByte
<1> USE <1>0
<1> DEFINE q == n \div S
           r == n % S
<1>1. q \in Nat /\ r \in 0 .. S - 1 /\ Needs(S, n + 1) = q + 1
  BY Places, NeedsOfNext
<1>2. \A p \in Nat : p \div S = q /\ p % S = r => p = n
  BY Places
<1>3. \A p \in 0 .. n - 1 : (p \div S) + 1 \in 1 .. Len(k) /\ p % S \in 0 .. S - 1
  BY FileLength
<1>4. /\ q + 1 \in 1 .. Len(k2) /\ \A i \in 1 .. Len(k) : i \in 1 .. Len(k2) /\ k2[i] = k[i]
  <2>1. Len(k) \in Nat /\ Len(k2) = q + 1
    BY LenProperties DEF FileIs, Linked
  <2>2. Len(k) <= Len(k2) /\ \A i \in 1 .. Len(k) : k2[i] = k[i]
    BY DEF Extends
  <2> HIDE DEF q
  <2> QED
    BY ONLY <1>1, <2>1, <2>2
<1>5. /\ \A i \in 1 .. Len(k2) : k2[i] \in Clusters /\ (k2[i] = c => i = q + 1)
      /\ c \in Clusters
  BY <1>4, ElementOfSeq DEF Linked
<1>6. Byte(t, n) \in Bytes
  BY FilesAssumption DEF Byte, Bytes
<1> DEFINE v == Byte(t, n)
<1>7. d2 = [d EXCEPT ![c] = [d[c] EXCEPT ![r] = v]]
  BY DEF WithByte
<1> HIDE DEF v, q, r
<1>8. /\ d2 \in [Clusters -> [0 .. S - 1 -> Bytes]] /\ d2[c][r] = v
      /\ \A x \in Clusters : x # c => d2[x] = d[x]
      /\ \A s \in 0 .. S - 1 : s # r => d2[c][s] = d[c][s]
  <2>1. d[c] \in [0 .. S - 1 -> Bytes]
    BY <1>5
  <2> DEFINE dc == [d[c] EXCEPT ![r] = v]
  <2>2. dc \in [0 .. S - 1 -> Bytes] /\ dc[r] = v /\ \A s \in 0 .. S - 1 : s # r => dc[s] = d[c][s]
    BY <1>1, <1>6, <2>1 DEF v
  <2>3. d2 = [d EXCEPT ![c] = dc]
    BY <1>7
  <2> HIDE DEF dc
  <2> QED
    BY <1>5, <2>2, <2>3
<1>9. ASSUME NEW p \in 0 .. n PROVE d2[k2[(p \div S) + 1]][p % S] = Byte(t, p)
  <2>1. CASE p = n
    BY <1>8, <2>1 DEF q, r, v
  <2>2. CASE p # n
    <3> DEFINE i == (p \div S) + 1
               s == p % S
    <3>1. p \in Nat /\ p \in 0 .. n - 1
      BY <2>2
    <3>2. i \in 1 .. Len(k) /\ s \in 0 .. S - 1 /\ d[k[i]][s] = Byte(t, p)
      BY <1>3, <3>1 DEF FileIs
    <3>3. i = q + 1 => s # r
      <4> DEFINE w == p \div S
      <4>1. w \in Nat /\ (w = q /\ s = r => p = n)
        BY <1>2, <3>1, Places
      <4> HIDE DEF w, s
      <4>2. i = w + 1
        BY DEF w
      <4> HIDE DEF i
      <4> QED
        BY <1>1, <2>2, <4>1, <4>2
    <3> HIDE DEF i, s
    <3>4. i \in 1 .. Len(k2) /\ k2[i] = k[i] /\ k2[i] \in Clusters
      BY <1>4, <1>5, <3>2
    <3>5. d2[k2[i]][s] = d[k[i]][s]
      <4>1. CASE k2[i] = c
        BY <1>5, <1>8, <3>2, <3>3, <3>4, <4>1
      <4>2. CASE k2[i] # c
        BY <1>8, <3>4, <4>2
      <4> QED
        BY <4>1, <4>2
    <3> QED
      BY <3>2, <3>5 DEF i, s
  <2> QED
    BY <2>1, <2>2
<1>10. \A p \in 0 .. (n + 1) - 1 : p \in 0 .. n
  OBVIOUS
<1> QED
  BY <1>1, <1>8, <1>9, <1>10 DEF FileIs, q

\* FileWrite gives a byte to the file, and a cluster to its chain where one begins.
LEMMA WriteStep ==
  ASSUME FilesInv, NEW h \in Hs, FileWrite(h)
  PROVE  FilesInv'
<1> DEFINE S == ClusterSize
           type == m_FATInfo.FATType
           f == m_Files[h]
           at == AtCluster(f)
           n == f.nOffset
           t == f.chTitle
           c == IF at THEN FreeCluster(alloc) ELSE f.nCluster
           first == IF f.nFirstCluster = 0 THEN c ELSE f.nFirstCluster
           g == WriterMoved(f, c, first)
           a2 == IF ~at THEN alloc
                 ELSE IF f.nFirstCluster = 0 THEN Allocated(alloc, c)
                 ELSE SetClusterEntry(Allocated(alloc, c), f.nCluster, c)
           d2 == [data EXCEPT ![c][n % S] = Byte(t, n)]
<1>1. /\ m_FATInfo \in Formats /\ S \in Nat \ {0} /\ UNCHANGED <<m_FATInfo, m_Root>>
      /\ f.bWrite /\ f.nSize < MaxSize /\ c # 0
  BY FormatFacts DEF FilesInv, FileWrite
<1>2. alloc' = a2 /\ data' = d2 /\ m_Files' = [m_Files EXCEPT ![h] = g]
  BY DEF FileWrite, WriterMoved
<1>3. PICK E, W, R : Kept(S, type, alloc, data, m_Root, m_Files, E, W, R)
  BY DEF FilesInv
<1> DEFINE k == W[h]
           q == n \div S
           k2 == IF at THEN Append(k, c) ELSE k
<1>4. /\ f \in Files /\ HandleIs(S, alloc.entry, data, f, k) /\ FatTrue(type, alloc)
      /\ data \in [Clusters -> [0 .. S - 1 -> Bytes]]
  BY <1>3, KeptTypes DEF Kept
<1>5. t \in Titles
  BY <1>1, <1>4, NoFileIs DEF HandleIs
<1>6. FileIs(S, alloc.entry, data, k, t, n) /\ Position(S, f, k) /\ f.nOffset = f.nSize
      /\ f.nFirstCluster = FirstIn(k)
  BY <1>1, <1>4, <1>5 DEF HandleIs, Position
<1>7. /\ n \in Nat /\ q \in Nat /\ Needs(S, n + 1) = q + 1 /\ n < MaxSize
      /\ n % S # 0 => f.nCluster = k[q + 1] /\ Needs(S, n) = q + 1
      /\ n % S = 0 /\ n > 0 => f.nCluster = k[q] /\ Needs(S, n) = q /\ q > 0
      /\ n = 0 => n % S = 0 /\ f.nCluster = FirstIn(k) /\ q = 0
  BY <1>1, <1>4, <1>6, ClusterAt
<1>8. at <=> n % S = 0
  BY <1>1, <1>4, <1>6, AtClusterIs DEF Position
<1>9. Linked(alloc.entry, k) /\ Len(k) = Needs(S, n) /\ Needs(S, 0) = 0
  BY <1>1, <1>6, NeedsOfNext DEF FileIs
<1>10. /\ Len(k) \in Nat /\ (k = <<>> <=> Len(k) = 0) /\ \A i \in 1 .. Len(k) : k[i] \in Clusters
       /\ k \in Seq(Clusters)
  BY <1>9, EmptySeq, ElementOfSeq, LenProperties DEF Linked
<1>11. Len(k) = IF at THEN q ELSE q + 1
  BY <1>7, <1>8, <1>9
<1> HIDE DEF S, type, at, q, g, d2
<1>12. /\ c \in Clusters /\ FatTrue(type, a2) /\ Linked(a2.entry, k2)
       /\ c \in Members(k) \cup FreeIn(alloc.entry)
       /\ Members(k2) \subseteq Members(k) \cup FreeIn(alloc.entry)
       /\ \A x \in Clusters \ (Members(k) \cup {c}) : a2.entry[x] = alloc.entry[x]
       /\ Len(k2) = q + 1 /\ Extends(k, k2) /\ c = k2[q + 1]
  <2>1. CASE at
    <3>1. f.nFirstCluster = 0 <=> k = <<>>
      BY <1>6, <1>10, ClustersFacts DEF FirstIn
    <3>2. k # <<>> => f.nCluster = k[Len(k)]
      <4>1. k # <<>> => n > 0
        BY <1>7, <1>10, <1>11, <2>1
      <4> QED
        BY <1>7, <1>8, <1>11, <2>1, <4>1
    <3>3. c = FreeCluster(alloc)
      BY <2>1
    <3>4. a2 = IF k = <<>> THEN Allocated(alloc, c)
               ELSE SetClusterEntry(Allocated(alloc, c), k[Len(k)], c)
      BY <2>1, <3>1, <3>2
    <3>5. k2 = Append(k, c)
      BY <2>1
    <3> HIDE DEF a2, c, k2
    <3>6. /\ FatTrue(type, a2) /\ c \in Clusters /\ c \in FreeIn(alloc.entry)
          /\ Linked(a2.entry, Append(k, c)) /\ Members(Append(k, c)) = Members(k) \cup {c}
          /\ \A x \in Clusters \ (Members(k) \cup {c}) : a2.entry[x] = alloc.entry[x]
      BY <1>1, <1>4, <1>9, <3>3, <3>4, ChainLonger
    <3>7. /\ Len(k2) = Len(k) + 1 /\ k2[Len(k) + 1] = c /\ \A i \in 1 .. Len(k) : k2[i] = k[i]
      BY <1>10, <3>5, <3>6, AppendProperties
    <3>8. Extends(k, k2)
      BY <1>10, <3>7 DEF Extends
    <3> QED
      BY <1>11, <2>1, <3>5, <3>6, <3>7, <3>8
  <2>2. CASE ~at
    <3>1. c = k[q + 1] /\ q + 1 = Len(k) /\ k2 = k /\ a2 = alloc
      BY <1>7, <1>8, <1>11, <2>2
    <3>2. Len(k) \in 1 .. Len(k)
      BY <1>7, <1>10, <3>1
    <3>3. c \in Clusters /\ c \in Members(k)
      BY <1>10, <3>1, <3>2 DEF Members
    <3>4. Extends(k, k)
      BY <1>10 DEF Extends
    <3> QED
      BY <1>4, <1>9, <3>1, <3>3, <3>4
  <2> QED
    BY <2>1, <2>2
<1> HIDE DEF a2, c, k2
<1>13. d2 = WithByte(data, c, n % S, Byte(t, n))
  BY DEF d2, WithByte
<1>14. /\ FileIs(S, a2.entry, d2, k2, t, n + 1)
       /\ d2 \in [Clusters -> [0 .. S - 1 -> Bytes]]
       /\ \A x \in Clusters : x # c => d2[x] = data[x]
  <2>1. Len(k2) = (n \div S) + 1 /\ c = k2[(n \div S) + 1]
    BY <1>12 DEF q
  <2>2. /\ S \in Nat \ {0} /\ data \in [Clusters -> [0 .. S - 1 -> Bytes]]
        /\ t \in Titles /\ n \in Nat /\ n < MaxSize /\ FileIs(S, alloc.entry, data, k, t, n)
        /\ Linked(a2.entry, k2) /\ Extends(k, k2)
    BY <1>1, <1>4, <1>5, <1>6, <1>7, <1>12
  <2> DEFINE e == alloc.entry
             e2 == a2.entry
  <2> HIDE DEF n, t, k, e, e2
  <2>3. FileIs(S, e, data, k, t, n) /\ Linked(e2, k2)
    BY <2>2 DEF e, e2
  <2>4. /\ FileIs(S, e2, d2, k2, t, n + 1)
        /\ d2 \in [Clusters -> [0 .. S - 1 -> Bytes]]
        /\ \A x \in Clusters : x # c => d2[x] = data[x]
    <3>1. GetsByte(S, e, data, k, t, n, e2, k2, c, d2)
      BY ONLY <1>13, <2>1, <2>2, <2>3 DEF GetsByte
    <3> QED
      BY ONLY <2>2, <3>1, ByteWritten
  <2> QED
    BY <2>4 DEF e2
<1>15. first = FirstIn(k2) /\ first \in Clusters
  <2>1. k2 # <<>> /\ k2[1] \in Clusters
    <3>1. k2 \in Seq(Clusters) /\ 1 \in 1 .. Len(k2)
      BY <1>7, <1>12 DEF Linked
    <3> QED
      BY <3>1, ElementOfSeq, NoneLinked
  <2>2. CASE k = <<>>
    <3>1. q = 0
      <4>1. at
        BY <1>7, <1>10, <1>11, <2>2
      <4> QED
        BY <1>10, <1>11, <2>2, <4>1
    <3> QED
      BY <1>6, <1>12, <2>1, <2>2, <3>1 DEF FirstIn
  <2>3. CASE k # <<>>
    <3>1. 1 \in 1 .. Len(k)
      BY <1>10, <2>3
    <3>2. k2[1] = k[1] /\ k[1] # 0
      BY <1>10, <1>12, <3>1, ClustersFacts DEF Extends
    <3> QED
      BY <1>6, <2>1, <2>3, <3>2 DEF FirstIn
  <2> QED
    BY <2>2, <2>3
<1> HIDE DEF first
<1>16. /\ g \in Files /\ g.nUseCount = f.nUseCount /\ g.chTitle = f.chTitle
       /\ g.nSize = f.nSize + 1 /\ g.nOffset = f.nOffset + 1 /\ g.nCluster = c
       /\ g.nFirstCluster = first /\ g.bWrite = f.bWrite
       /\ g.pBuffer = ((f.nOffset + 1) % SectorSize # 0)
  <2>1. g = WriterMoved(f, c, first)
    BY DEF g
  <2>2. f \in Files /\ f.nOffset = f.nSize /\ f.nSize < MaxSize /\ c \in Clusters /\ first \in Clusters
    BY <1>1, <1>4, <1>6, <1>12, <1>15
  <2> HIDE DEF f
  <2> QED
    BY ONLY <2>1, <2>2, WriterFields
<1>17. Position(S, g, k2)
  <2>1. g.nOffset = n + 1 /\ g.nSize = n + 1 /\ g.nOffset # 0 /\ g.nOffset <= g.nSize
    BY <1>6, <1>7, <1>16
  <2>2. g.nCluster = k2[Needs(S, g.nOffset)]
    BY <1>7, <1>12, <1>16, <2>1
  <2>3. g.pBuffer = (g.nOffset % SectorSize # 0)
    BY <1>16, <2>1
  <2>4. g.nUseCount = 1
    BY <1>6, <1>16 DEF Position
  <2> QED
    BY <1>15, <1>16, <2>1, <2>2, <2>3, <2>4 DEF Position
<1>18. HandleIs(S, a2.entry, d2, g, k2)
  BY <1>5, <1>6, <1>14, <1>16, <1>17 DEF HandleIs
<1> DEFINE C == Members(k) \cup {c}
<1>19. SameIn(C, alloc.entry, a2.entry, data, d2) /\ C \subseteq Members(k) \cup FreeIn(alloc.entry)
  BY <1>12, <1>14 DEF SameIn
<1> HIDE DEF C
<1>20. PICK W2 : Kept(S, type, a2, d2, m_Root, [m_Files EXCEPT ![h] = g], E, W2, R)
  BY <1>1, <1>3, <1>12, <1>14, <1>16, <1>18, <1>19, WriterChanges
<1>21. Kept(S, type, alloc', data', m_Root', m_Files', E, W2, R)
  BY <1>1, <1>2, <1>20
<1> QED
  BY <1>1, <1>21, InvAfter DEF S, type

-----------------------------------------------------------------------------
(* The invariant and the theorems                                          *)

\* The FAT of an empty disk.
LEMMA FirstFat ==
  ASSUME NEW type \in {"FAT16", "FAT32"}, NEW a,
         a = [entry |-> [c \in Clusters |-> IF type = "FAT32" /\ c = RootCluster THEN EOC ELSE 0],
              next |-> 2,
              count |-> IF type = "FAT32" THEN m_nClusters - 1 ELSE FREE_COUNT_UNKNOWN]
  PROVE  FatTrue(type, a) /\ (type = "FAT32" => Linked(a.entry, <<RootCluster>>))
<1> DEFINE e == [c \in Clusters |-> IF type = "FAT32" /\ c = RootCluster THEN EOC ELSE 0]
           n == IF type = "FAT32" THEN m_nClusters - 1 ELSE FREE_COUNT_UNKNOWN
<1>1. m_nClusters \in Nat \ {0} /\ RootCluster \in Clusters /\ 2 \in Clusters
      /\ \A c \in Clusters : ~(c < 2)
  BY ClustersFacts DEF Clusters, RootCluster
<1>2. /\ e \in [Clusters -> Clusters \cup {0, EOC}]
      /\ \A c \in Clusters : e[c] = IF type = "FAT32" /\ c = RootCluster THEN EOC ELSE 0
  OBVIOUS
<1>3. n \in 0 .. m_nClusters \cup {FREE_COUNT_UNKNOWN}
  BY <1>1 DEF FREE_COUNT_UNKNOWN
<1>4. a = [entry |-> e, next |-> 2, count |-> n]
  OBVIOUS
<1> HIDE DEF e
<1>5. a \in Fats /\ a.entry = e /\ a.next = 2 /\ a.count = n
  BY <1>1, <1>2, <1>3, <1>4 DEF Fats
<1>6. ASSUME type = "FAT32"
      PROVE  a.count = Cardinality(FreeIn(e)) /\ Linked(e, <<RootCluster>>)
  <2>1. FreeIn(e) = Clusters \ {RootCluster}
    BY <1>2, <1>6, ClustersFacts DEF FreeIn
  <2>2. Cardinality(FreeIn(e)) = m_nClusters - 1
    BY <1>1, <2>1, ClustersFacts, FS_RemoveElement
  <2>3. Linked(e, <<RootCluster>>)
    <3> DEFINE k == <<RootCluster>>
    <3>1. k \in Seq(Clusters) /\ Len(k) = 1 /\ k[1] = RootCluster
      BY <1>1
    <3>2. \A i \in 1 .. Len(k) : i = 1 /\ i = Len(k)
      BY <3>1
    <3> HIDE DEF k
    <3>3. e[k[1]] = EOC
      BY <1>1, <1>2, <1>6, <3>1
    <3>4. Linked(e, k)
      BY <3>1, <3>2, <3>3 DEF Linked
    <3> QED
      BY <3>4 DEF k
  <2> QED
    BY <1>5, <1>6, <2>2, <2>3
<1> QED
  BY <1>1, <1>5, <1>6 DEF FatTrue

\* No files at first.
LEMMA InitHolds == FilesInit => FilesInv
<1> SUFFICES ASSUME FilesInit PROVE FilesInv
  OBVIOUS
<1> DEFINE S == ClusterSize
           type == m_FATInfo.FATType
           E == [i \in DOMAIN m_Root |-> <<>>]
           W == [h \in Hs |-> <<>>]
           R == IF type = "FAT32" THEN <<RootCluster>> ELSE <<>>
<1>1. m_FATInfo \in Formats /\ S \in Nat \ {0} /\ type \in {"FAT16", "FAT32"}
  BY FormatFacts DEF FilesInit
<1>2. alloc = [entry |-> [c \in Clusters |-> IF type = "FAT32" /\ c = RootCluster THEN EOC ELSE 0],
               next |-> 2,
               count |-> IF type = "FAT32" THEN m_nClusters - 1 ELSE FREE_COUNT_UNKNOWN]
  BY DEF FilesInit
<1>3. data \in [Clusters -> [0 .. S - 1 -> Bytes]]
  <2>1. NoByte \in Bytes
    BY FilesAssumption DEF NoByte, Byte, Bytes
  <2> QED
    BY <2>1 DEF FilesInit, Blank
<1> HIDE DEF S, type
<1>4. FatTrue(type, alloc) /\ (type = "FAT32" => Linked(alloc.entry, <<RootCluster>>))
  BY <1>1, <1>2, FirstFat
<1>5. m_Root = Unused /\ DOMAIN m_Root = 1 .. RootEntries
  BY DEF FilesInit, Unused
<1>6. m_Files \in [Hs -> Files] /\ \A h \in Hs : m_Files[h] = NoFile
  BY NoFileIs DEF FilesInit
<1>7. (\A i \in DOMAIN m_Root : E[i] = <<>>) /\ \A h \in Hs : W[h] = <<>>
  OBVIOUS
<1> HIDE DEF E, W
<1>8. \A i \in DOMAIN m_Root : EntryIs(S, alloc.entry, data, m_Root[i], E[i])
  BY <1>5, <1>7, UnusedIs DEF EntryIs
<1>9. \A h \in Hs : HandleIs(S, alloc.entry, data, m_Files[h], W[h])
  BY <1>6, <1>7, NoFileIs
<1>10. RootIs(type, alloc.entry, m_Root, R)
  BY <1>4, <1>5, UnusedIs DEF RootIs
<1> HIDE DEF R
<1>11. Disjoint(m_Root, m_Files, E, W, R)
  BY <1>7, ApartFacts DEF Disjoint
<1>12. Kept(S, type, alloc, data, m_Root, m_Files, E, W, R)
  BY <1>3, <1>4, <1>5, <1>6, <1>8, <1>9, <1>10, <1>11, UnusedIs DEF Kept
<1> QED
  BY <1>1, <1>12 DEF FilesInv, S, type

\* Each call keeps the invariant.
LEMMA StepHolds == FilesInv /\ [FilesNext]_filesVars => FilesInv'
<1> SUFFICES ASSUME FilesInv, [FilesNext]_filesVars PROVE FilesInv'
  OBVIOUS
<1>1. ASSUME NEW title \in Titles, FileOpen(title) PROVE FilesInv'
  BY <1>1, OpenStep
<1>2. ASSUME NEW title \in Titles, FileCreate(title) PROVE FilesInv'
  BY <1>2, CreateStep
<1>3. ASSUME NEW title \in Titles, FileDelete(title) PROVE FilesInv'
  BY <1>3, DeleteStep
<1>4. ASSUME NEW h \in Hs, FileClose(h) PROVE FilesInv'
  BY <1>4, CloseStep
<1>5. ASSUME NEW h \in Hs, FileRead(h) PROVE FilesInv'
  BY <1>5, ReadStep
<1>6. ASSUME NEW h \in Hs, FileWrite(h) PROVE FilesInv'
  BY <1>6, WriteStep
<1>7. CASE UNCHANGED filesVars
  BY <1>7 DEF FilesInv, filesVars, ClusterSize
<1> QED
  BY <1>1, <1>2, <1>3, <1>4, <1>5, <1>6, <1>7 DEF FilesNext

\* The invariant of the files holds always.
LEMMA AlwaysInv == FilesSpec => []FilesInv
<1>1. FilesInit => FilesInv
  BY InitHolds
<1>2. FilesInv /\ [FilesNext]_filesVars => FilesInv'
  BY StepHolds
<1> QED
  BY <1>1, <1>2, PTL DEF FilesSpec

\* Every call keeps the types of the FAT, of the root directory, of the open files and of the data.
THEOREM FilesTypeCorrect == FilesSpec => []FilesTypeOK
<1>1. FilesInv => FilesTypeOK
  <2> SUFFICES ASSUME FilesInv PROVE FilesTypeOK
    OBVIOUS
  <2>1. PICK E, W, R : Kept(ClusterSize, m_FATInfo.FATType, alloc, data, m_Root, m_Files, E, W, R)
    BY DEF FilesInv
  <2>2. /\ alloc \in Fats /\ data \in [Clusters -> [0 .. ClusterSize - 1 -> Bytes]]
        /\ \A i \in DOMAIN m_Root : m_Root[i] \in Entries
        /\ m_Files \in [Hs -> Files]
    BY <2>1, KeptTypes DEF Kept
  <2> QED
    BY <2>2 DEF FilesTypeOK, FilesInv, Fats, Entries, Files, Bytes
<1> QED
  BY <1>1, AlwaysInv, PTL

\* AllocateCluster finds a cluster as long as one is free, and m_nFreeCount is right on FAT32: no
\* free cluster lies before m_nNextFreeCluster, whatever has been allocated and freed.
THEOREM FreeClustersAreTrue == FilesSpec => []FreeClustersTrue
<1>1. FilesInv => FreeClustersTrue
  BY DEF FilesInv, Kept, FatTrue, FreeIn, FreeClustersTrue
<1> QED
  BY <1>1, AlwaysInv, PTL

\* FileRead finds the next byte where FileWrite has put it: the chain does not end before the file,
\* and the cluster that is kept between the calls is the one of the byte before.
THEOREM ReadsAreTrue == FilesSpec => []ReadsTrue
<1>1. FilesInv => ReadsTrue
  <2> SUFFICES ASSUME FilesInv, NEW h \in Hs, m_Files[h].nUseCount = 1, ~m_Files[h].bWrite,
                      m_Files[h].nOffset < m_Files[h].nSize
               PROVE  /\ ReadFrom(m_Files[h]) \in Clusters
                      /\ data[ReadFrom(m_Files[h])][m_Files[h].nOffset % ClusterSize] =
                           Byte(m_Files[h].chTitle, m_Files[h].nOffset)
    BY DEF ReadsTrue
  <2> DEFINE S == ClusterSize
             f == m_Files[h]
             n == f.nOffset
             size == f.nSize
  <2>1. m_FATInfo \in Formats
    BY DEF FilesInv
  <2>2. PICK E, W, R : Kept(S, m_FATInfo.FATType, alloc, data, m_Root, m_Files, E, W, R)
    BY DEF FilesInv
  <2>3. f \in Files /\ HandleIs(S, alloc.entry, data, f, W[h])
    BY <2>2, KeptTypes DEF Kept
  <2>4. f.chTitle \in Titles
    <3>1. NoFile.nOffset = 0 /\ NoFile.nSize = 0 /\ Orphan.nOffset = 0 /\ Orphan.nSize = 0
      BY DEF NoFile, Orphan
    <3> QED
      BY <2>3, <3>1 DEF HandleIs
  <2>5. FileIs(S, alloc.entry, data, W[h], f.chTitle, size) /\ Position(S, f, W[h])
    BY <2>3, <2>4 DEF HandleIs
  <2>6. ReadFrom(f) = W[h][(n \div S) + 1] /\ ReadFrom(f) \in Clusters
    BY <2>1, <2>3, <2>5, ReadFromIs
  <2>7. n \in Nat /\ size \in Nat /\ n \in 0 .. size - 1
    BY <2>3, FilesAssumption DEF Files
  <2>8. data[W[h][(n \div S) + 1]][n % S] = Byte(f.chTitle, n)
    BY <2>5, <2>7 DEF FileIs
  <2> QED
    BY <2>6, <2>8
<1> QED
  BY <1>1, AlwaysInv, PTL

\* The chain k is that of x.
ChainIs(e, k, x) == Linked(e, k) /\ FirstOf(x) = FirstIn(k) /\ ClustersOf(x) = Len(k)

\* No call makes two chains share a cluster, and each chain is as long as the size of its file asks
\* for: of entries, of writers, and of the root directory on FAT32.
THEOREM ChainsAreDisjoint == FilesSpec => []ChainsDisjoint
<1>1. FilesInv => ChainsDisjoint
  <2> SUFFICES ASSUME FilesInv PROVE ChainsDisjoint
    OBVIOUS
  <2> DEFINE S == ClusterSize
             type == m_FATInfo.FATType
             e == alloc.entry
  <2>1. S \in Nat \ {0} /\ type \in {"FAT16", "FAT32"}
    BY FormatFacts DEF FilesInv
  <2>2. PICK E, W, R : Kept(S, type, alloc, data, m_Root, m_Files, E, W, R)
    BY DEF FilesInv
  <2> DEFINE chain(x) == IF x[1] = "entry" THEN E[x[2]] ELSE IF x[1] = "writer" THEN W[x[2]] ELSE R
  <2>3. \A n : InClusters(n) = Needs(S, n)
    BY DEF InClusters, Needs
  <2>4. ASSUME NEW i \in InUse
        PROVE  i \in DOMAIN m_Root /\ ChainIs(e, E[i], <<"entry", i>>)
    <3>1. i \in DOMAIN m_Root /\ m_Root[i].Name \in Titles
      BY DEF InUse
    <3>2. EntryIs(S, e, data, m_Root[i], E[i])
      BY <2>2, <3>1 DEF Kept
    <3> QED
      BY <2>3, <3>1, <3>2 DEF EntryIs, FileIs, ChainIs, FirstOf, ClustersOf
  <2>5. ASSUME NEW h \in Writers
        PROVE  h \in Hs /\ m_Files[h].bWrite /\ ChainIs(e, W[h], <<"writer", h>>)
    <3>1. h \in Hs /\ m_Files[h].bWrite
      BY DEF Writers
    <3>2. HandleIs(S, e, data, m_Files[h], W[h])
      BY <2>2, <3>1 DEF Kept
    <3>3. m_Files[h].chTitle \in Titles
      BY <3>1, <3>2, NoFileIs DEF HandleIs
    <3> QED
      BY <2>3, <3>1, <3>2, <3>3 DEF HandleIs, FileIs, Position, ChainIs, FirstOf, ClustersOf
  <2>6. ASSUME type = "FAT32" PROVE ChainIs(e, R, <<"root", 0>>)
    <3>1. Linked(e, R) /\ R # <<>> /\ R[1] = RootCluster /\ Len(m_Root) = Len(R) * RootEntries
      BY <2>2, <2>6 DEF Kept, RootIs
    <3>2. Len(m_Root) \div RootEntries = Len(R)
      <4>1. Len(R) \in Nat /\ RootEntries \in Nat \ {0}
        BY <3>1, UnusedIs, LenProperties DEF Linked
      <4> DEFINE n == Len(R)
                 s == RootEntries
      <4> HIDE DEF n, s
      <4>2. n \in Nat /\ s \in Nat \ {0} /\ Len(m_Root) = n * s
        BY <3>1, <4>1 DEF n, s
      <4>3. (s * n + 0) \div s = n
        BY <4>2, Quotients
      <4>4. n * s = s * n + 0
        BY <4>2
      <4> QED
        BY <4>2, <4>3, <4>4 DEF n, s
    <3> QED
      BY <3>1, <3>2 DEF ChainIs, FirstOf, ClustersOf, FirstIn
  <2>7. Disjoint(m_Root, m_Files, E, W, R)
    BY <2>2 DEF Kept
  <2> HIDE DEF S, type, e
  <2>8. ASSUME NEW x \in Chains PROVE ChainIs(e, chain(x), x)
    BY <2>4, <2>5, <2>6 DEF Chains, type
  <2>9. ASSUME NEW x \in Chains, NEW y \in Chains, x # y PROVE Apart(chain(x), chain(y))
    <3>1. /\ \A i \in InUse : i \in DOMAIN m_Root
          /\ \A h \in Writers : h \in Hs /\ m_Files[h].bWrite
      BY <2>4, <2>5
    <3>2. x \in {<<"entry", i>> : i \in InUse} \/ x \in {<<"writer", h>> : h \in Writers}
          \/ x = <<"root", 0>>
      BY DEF Chains
    <3>3. y \in {<<"entry", i>> : i \in InUse} \/ y \in {<<"writer", h>> : h \in Writers}
          \/ y = <<"root", 0>>
      BY DEF Chains
    <3> QED
      BY <2>7, <2>9, <3>1, <3>2, <3>3, ApartFacts DEF Disjoint
  <2> HIDE DEF chain
  <2>10. ASSUME NEW x \in Chains
         PROVE  /\ InChain(alloc, FirstOf(x)) = Members(chain(x))
                /\ Cardinality(InChain(alloc, FirstOf(x))) = ClustersOf(x)
                /\ ClustersOf(x) > 0 => Chain(alloc, FirstOf(x))[ClustersOf(x)] = EOC
    <3>1. /\ Linked(alloc.entry, chain(x))
          /\ FirstOf(x) = FirstIn(chain(x)) /\ ClustersOf(x) = Len(chain(x))
      BY <2>8 DEF ChainIs, e
    <3>2. /\ InChain(alloc, FirstIn(chain(x))) = Members(chain(x))
          /\ Len(chain(x)) > 0 => Chain(alloc, FirstIn(chain(x)))[Len(chain(x))] = EOC
      BY <3>1, ChainOf
    <3>3. Cardinality(Members(chain(x))) = Len(chain(x))
      BY <3>1, MembersCounted
    <3> QED
      BY <3>1, <3>2, <3>3
  <2> QED
    BY <2>9, <2>10 DEF ChainsDisjoint, Apart
<1> QED
  BY <1>1, AlwaysInv, PTL

=============================================================================
