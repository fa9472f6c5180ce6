---------------------------------- MODULE RingProofs ----------------------------------
(***************************************************************************)
(* Proofs about the four modules whose data are in rings: that             *)
(* RetransmissionQueue implements ByteQueue, and Logger LogQueue, for      *)
(* every size of a ring, and for Logger any number of callers; that the    *)
(* commands and transfers of Xhci get their own answers; and that          *)
(* SoundDevice plays every frame once and in order.                        *)
(*                                                                         *)
(* The lemmas of the first part say how places of a ring are computed      *)
(* with, so that nothing below needs the modulus, and what becomes of the  *)
(* sequence that a ring stands for when it is written and read.  The rings *)
(* of Xhci have no pointer of the reader's: their part begins with what    *)
(* the cycle bits tell.                                                    *)
(***************************************************************************)
EXTENDS RetransmissionQueue, Logger, Xhci, SoundDevice, SequenceTheorems, TLAPS

-----------------------------------------------------------------------------
(* Rings                                                                    *)

\* A ring has M places: how a pointer advances, and how many steps lead from one to another.
Forward(M, p, n) == (p + n) % M
Distance(M, p, q) == IF q < p THEN M + q - p ELSE q - p

\* What the ring b holds from place o up to place i.
Content(M, b, o, i) == [k \in 1 .. Distance(M, o, i) |-> b[Forward(M, o, k - 1)]]

LEMMA ForwardValue ==
  ASSUME NEW M \in Nat \ {0}, NEW p \in 0 .. M - 1, NEW n \in 0 .. M
  PROVE  Forward(M, p, n) = IF p + n < M THEN p + n ELSE p + n - M
BY DEF Forward

\* A pointer that advances by at most the size of the ring stays inside it.
LEMMA ForwardType ==
  ASSUME NEW M \in Nat \ {0}, NEW p \in 0 .. M - 1, NEW n \in 0 .. M
  PROVE  Forward(M, p, n) \in 0 .. M - 1
BY ForwardValue

LEMMA DistanceType ==
  ASSUME NEW M \in Nat \ {0}, NEW p \in 0 .. M - 1, NEW q \in 0 .. M - 1
  PROVE  Distance(M, p, q) \in 0 .. M - 1
BY DEF Distance

\* Two advances are one.
LEMMA ForwardTwice ==
  ASSUME NEW M \in Nat \ {0}, NEW p \in 0 .. M - 1, NEW m \in Nat, NEW n \in Nat, m + n <= M
  PROVE  Forward(M, Forward(M, p, m), n) = Forward(M, p, m + n)
<1>1. /\ m \in 0 .. M /\ n \in 0 .. M /\ m + n \in 0 .. M
      /\ Forward(M, p, m) \in 0 .. M - 1
  BY ForwardType
<1>. QED
  BY <1>1, ForwardValue

\* Advancing by the distance to q leads to q.
LEMMA ForwardDistance ==
  ASSUME NEW M \in Nat \ {0}, NEW p \in 0 .. M - 1, NEW q \in 0 .. M - 1
  PROVE  Forward(M, p, Distance(M, p, q)) = q
<1>1. Distance(M, p, q) \in 0 .. M
  BY DistanceType
<1>. QED
  BY <1>1, ForwardValue DEF Distance

\* What is ahead grows as the place ahead advances, while it fits in the ring.
LEMMA DistanceGrows ==
  ASSUME NEW M \in Nat \ {0}, NEW p \in 0 .. M - 1, NEW q \in 0 .. M - 1, NEW n \in Nat,
         Distance(M, p, q) + n < M
  PROVE  Distance(M, p, Forward(M, q, n)) = Distance(M, p, q) + n
<1>1. Distance(M, p, q) \in 0 .. M - 1 /\ n \in 0 .. M
  BY DistanceType
<1>. QED
  BY <1>1, ForwardValue DEF Distance

\* What is ahead shrinks as the place behind advances towards it.
LEMMA DistanceShrinks ==
  ASSUME NEW M \in Nat \ {0}, NEW p \in 0 .. M - 1, NEW q \in 0 .. M - 1,
         NEW n \in 0 .. Distance(M, p, q)
  PROVE  Distance(M, Forward(M, p, n), q) = Distance(M, p, q) - n
<1>1. Distance(M, p, q) \in 0 .. M - 1 /\ n \in 0 .. M
  BY DistanceType
<1>. QED
  BY <1>1, ForwardValue DEF Distance

\* A place in between splits the way.
LEMMA DistanceBetween ==
  ASSUME NEW M \in Nat \ {0}, NEW o \in 0 .. M - 1, NEW r \in 0 .. M - 1, NEW i \in 0 .. M - 1,
         Distance(M, o, r) <= Distance(M, o, i)
  PROVE  Distance(M, r, i) = Distance(M, o, i) - Distance(M, o, r)
BY DEF Distance

LEMMA ContentType ==
  ASSUME NEW M \in Nat \ {0}, NEW S, NEW b \in [0 .. M - 1 -> S],
         NEW o \in 0 .. M - 1, NEW i \in 0 .. M - 1
  PROVE  /\ Content(M, b, o, i) \in Seq(S)
         /\ Len(Content(M, b, o, i)) = Distance(M, o, i)
<1>1. Distance(M, o, i) \in Nat /\ Distance(M, o, i) < M
  BY DistanceType
<1>2. ASSUME NEW k \in 1 .. Distance(M, o, i) PROVE b[Forward(M, o, k - 1)] \in S
  <2>1. k - 1 \in 0 .. M
    BY <1>1
  <2>. QED
    BY <2>1, ForwardType
<1>3. Content(M, b, o, i) \in [1 .. Distance(M, o, i) -> S]
  BY <1>2 DEF Content
<1>. QED
  BY <1>1, <1>3

LEMMA ConcatValue ==
  ASSUME NEW S, NEW s \in Seq(S), NEW t \in Seq(S)
  PROVE  s \o t = [k \in 1 .. Len(s) + Len(t) |->
                     IF k <= Len(s) THEN s[k] ELSE t[k - Len(s)]]
<1>1. s \o t \in Seq(S) /\ Len(s \o t) = Len(s) + Len(t)
  BY ConcatProperties
<1>2. s \o t = [k \in 1 .. Len(s) + Len(t) |-> (s \o t)[k]]
  BY <1>1, LenProperties
<1>3. \A k \in 1 .. Len(s) + Len(t) :
        (s \o t)[k] = IF k <= Len(s) THEN s[k] ELSE t[k - Len(s)]
  BY ConcatProperties
<1>. QED
  BY <1>2, <1>3, Zenon

\* What is read from o up to i is behind what is written from i on.
LEMMA DistanceApart ==
  ASSUME NEW M \in Nat \ {0}, NEW o \in 0 .. M - 1, NEW i \in 0 .. M - 1, NEW p \in 0 .. M - 1,
         NEW c \in Nat, Distance(M, o, i) + c <= M, Distance(M, o, p) < Distance(M, o, i)
  PROVE  ~(Distance(M, i, p) < c)
BY DEF Distance

\* The places behind i lie ahead of it.
LEMMA DistanceBehind ==
  ASSUME NEW M \in Nat \ {0}, NEW o \in 0 .. M - 1, NEW i \in 0 .. M - 1, NEW k \in Nat,
         Distance(M, o, i) <= k, k < M
  PROVE  Distance(M, i, Forward(M, o, k)) = k - Distance(M, o, i)
<1>1. Forward(M, o, k) = IF o + k < M THEN o + k ELSE o + k - M
  BY ForwardValue
<1> QED
  BY <1>1 DEF Distance

LEMMA DistanceForward ==
  ASSUME NEW M \in Nat \ {0}, NEW o \in 0 .. M - 1, NEW k \in Nat, k < M
  PROVE  Distance(M, o, Forward(M, o, k)) = k
<1>1. Forward(M, o, k) = IF o + k < M THEN o + k ELSE o + k - M
  BY ForwardValue
<1> QED
  BY <1>1 DEF Distance

\* b2 has in addition chunk at i, and nothing else that is not behind what b holds from o to i.
Adds(M, b, b2, o, i, chunk) ==
  /\ \A p \in 0 .. M - 1 :
       Distance(M, i, p) < Len(chunk) => b2[p] = chunk[Distance(M, i, p) + 1]
  /\ \A p \in 0 .. M - 1 : Distance(M, o, p) < Distance(M, o, i) => b2[p] = b[p]

\* chunk fits, too.
Writes(M, S, b, b2, o, i, chunk) ==
  /\ M \in Nat \ {0} /\ o \in 0 .. M - 1 /\ i \in 0 .. M - 1
  /\ b \in [0 .. M - 1 -> S] /\ b2 \in [0 .. M - 1 -> S] /\ chunk \in Seq(S)
  /\ Distance(M, o, i) + Len(chunk) < M
  /\ Adds(M, b, b2, o, i, chunk)

\* Writing appends, if it overwrites nothing of what is there.
LEMMA ContentWrite ==
  ASSUME NEW M, NEW S, NEW b, NEW b2, NEW o, NEW i, NEW chunk, Writes(M, S, b, b2, o, i, chunk)
  PROVE  Content(M, b2, o, Forward(M, i, Len(chunk))) = Content(M, b, o, i) \o chunk
<1> DEFINE u == Distance(M, o, i)
           c == Len(chunk)
           old == Content(M, b, o, i)
           new == Content(M, b2, o, Forward(M, i, c))
<1>0. /\ M \in Nat \ {0} /\ o \in 0 .. M - 1 /\ i \in 0 .. M - 1
      /\ b \in [0 .. M - 1 -> S] /\ b2 \in [0 .. M - 1 -> S] /\ chunk \in Seq(S)
      /\ Distance(M, o, i) + Len(chunk) < M /\ Adds(M, b, b2, o, i, chunk)
  BY DEF Writes
<1> USE <1>0
<1>1. u \in Nat /\ c \in Nat /\ u + c < M
  <2>1. u \in 0 .. M - 1
    BY DistanceType
  <2> QED
    BY <2>1
<1>2. new = [k \in 1 .. u + c |-> b2[Forward(M, o, k - 1)]]
  <2>1. Distance(M, o, Forward(M, i, c)) = u + c
    BY <1>1, DistanceGrows
  <2> QED
    BY <2>1 DEF Content
<1>3. old \in Seq(S) /\ Len(old) = u
  BY ONLY <1>0, ContentType
<1>4. \A k \in 1 .. u : old[k] = b[Forward(M, o, k - 1)]
  BY DEF Content
<1>5. old \o chunk = [k \in 1 .. u + c |-> IF k <= u THEN old[k] ELSE chunk[k - u]]
  <2> HIDE DEF old, u, c
  <2>1. old \o chunk = [k \in 1 .. Len(old) + Len(chunk) |->
                           IF k <= Len(old) THEN old[k] ELSE chunk[k - Len(old)]]
    <3>1. old \in Seq(S) /\ chunk \in Seq(S)
      BY <1>3
    <3> QED
      BY ONLY <3>1, ConcatValue
  <2> QED
    BY <1>3, <2>1 DEF c
<1>6. ASSUME NEW k \in 1 .. u + c
      PROVE  b2[Forward(M, o, k - 1)] = IF k <= u THEN old[k] ELSE chunk[k - u]
  <2>1. k - 1 \in Nat /\ k - 1 < M /\ Forward(M, o, k - 1) \in 0 .. M - 1
    <3>1. k - 1 \in Nat /\ k - 1 < M /\ k - 1 \in 0 .. M
      <4> HIDE DEF u, c
      <4> QED
        BY <1>1
    <3>2. Forward(M, o, k - 1) \in 0 .. M - 1
      BY <3>1, ForwardType
    <3> QED
      BY <3>1, <3>2
  <2>2. CASE k <= u
    <3>1. Distance(M, o, Forward(M, o, k - 1)) = k - 1
      BY <2>1, DistanceForward
    <3>2. b2[Forward(M, o, k - 1)] = b[Forward(M, o, k - 1)]
      BY <1>1, <2>1, <2>2, <3>1 DEF Adds
    <3> QED
      BY <1>4, <2>2, <3>2
  <2>3. CASE ~(k <= u)
    <3>1. Distance(M, i, Forward(M, o, k - 1)) = k - 1 - u
      BY <1>1, <2>1, <2>3, DistanceBehind
    <3> HIDE DEF u
    <3>2. k - 1 - u < c /\ k - 1 - u + 1 = k - u
      BY <1>1, <2>3
    <3> QED
      BY <2>1, <2>3, <3>1, <3>2 DEF Adds
  <2> QED
    BY <2>2, <2>3
<1> HIDE DEF u, c, old, new
<1>7. new = old \o chunk
  BY <1>2, <1>5, <1>6
<1> QED
  BY <1>7 DEF old, new, c

\* Advancing past n bytes takes them off the front.
LEMMA ContentAdvance ==
  ASSUME NEW M \in Nat \ {0}, NEW S, NEW b \in [0 .. M - 1 -> S],
         NEW o \in 0 .. M - 1, NEW i \in 0 .. M - 1,
         NEW n \in 0 .. Distance(M, o, i)
  PROVE  Content(M, b, Forward(M, o, n), i)
           = SubSeq(Content(M, b, o, i), n + 1, Len(Content(M, b, o, i)))
<1>. DEFINE u == Distance(M, o, i)
<1>0. u \in 0 .. M - 1
  BY DistanceType
<1>1. u \in Nat /\ u < M /\ n \in Nat /\ n \in 0 .. M
  BY <1>0
<1>2. Distance(M, Forward(M, o, n), i) = u - n
  BY DistanceShrinks
<1>3. Content(M, b, Forward(M, o, n), i)
        = [k \in 1 .. u - n |-> b[Forward(M, Forward(M, o, n), k - 1)]]
  BY <1>2 DEF Content
<1>4. ASSUME NEW k \in 1 .. u - n
      PROVE  b[Forward(M, Forward(M, o, n), k - 1)] = Content(M, b, o, i)[n + k]
  <2>1. k - 1 \in Nat /\ n + (k - 1) <= M /\ n + k \in 1 .. u
        /\ n + (k - 1) = (n + k) - 1
    BY <1>1
  <2>2. Forward(M, Forward(M, o, n), k - 1) = Forward(M, o, (n + k) - 1)
    BY <1>1, <2>1, ForwardTwice
  <2>3. Content(M, b, o, i)[n + k] = b[Forward(M, o, (n + k) - 1)]
    BY <2>1 DEF Content
  <2>. QED
    BY <2>2, <2>3
<1>5. Content(M, b, o, i) \in Seq(S) /\ Len(Content(M, b, o, i)) = u
  BY ContentType
<1>6. SubSeq(Content(M, b, o, i), n + 1, u) = [k \in 1 .. u - n |-> Content(M, b, o, i)[n + k]]
  <2>. HIDE DEF u
  <2>. QED
    BY <1>1, <1>5
<1>. QED
  BY <1>3, <1>4, <1>5, <1>6

\* n places can be read from r on, which is somewhere between o and i.
Reads(M, S, b, o, r, i, n) ==
  /\ M \in Nat \ {0} /\ b \in [0 .. M - 1 -> S]
  /\ o \in 0 .. M - 1 /\ r \in 0 .. M - 1 /\ i \in 0 .. M - 1 /\ n \in Nat
  /\ Distance(M, o, r) + n <= Distance(M, o, i)

\* Reading n places at r gives what follows the places from o to r.
LEMMA ContentRead ==
  ASSUME NEW M, NEW S, NEW b, NEW o, NEW r, NEW i, NEW n, Reads(M, S, b, o, r, i, n)
  PROVE  [k \in 1 .. n |-> b[Forward(M, r, k - 1)]]
           = SubSeq(Content(M, b, o, i), Distance(M, o, r) + 1, Distance(M, o, r) + n)
<1>. DEFINE u == Distance(M, o, i)
            s == Distance(M, o, r)
<1>. /\ M \in Nat \ {0} /\ b \in [0 .. M - 1 -> S]
     /\ o \in 0 .. M - 1 /\ r \in 0 .. M - 1 /\ i \in 0 .. M - 1 /\ n \in Nat
     /\ Distance(M, o, r) + n <= Distance(M, o, i)
  BY DEF Reads
<1>0. u \in 0 .. M - 1 /\ s \in 0 .. M - 1
  BY DistanceType
<1>1. u \in Nat /\ u < M /\ s \in Nat /\ s + n <= u
  BY <1>0
<1>2. ASSUME NEW k \in 1 .. n
      PROVE  b[Forward(M, r, k - 1)] = Content(M, b, o, i)[s + k]
  <2>1. k - 1 \in Nat /\ s + (k - 1) <= M /\ s + k \in 1 .. u
        /\ s + (k - 1) = (s + k) - 1
    BY <1>1
  <2>2. Forward(M, o, s) = r
    BY ForwardDistance
  <2>3. Forward(M, r, k - 1) = Forward(M, o, (s + k) - 1)
    BY <1>1, <2>1, <2>2, ForwardTwice
  <2>4. Content(M, b, o, i)[s + k] = b[Forward(M, o, (s + k) - 1)]
    BY <2>1 DEF Content
  <2>. QED
    BY <2>3, <2>4
<1>3. Content(M, b, o, i) \in Seq(S) /\ Len(Content(M, b, o, i)) = u
  <2>1. /\ Content(M, b, o, i) \in Seq(S)
        /\ Len(Content(M, b, o, i)) = Distance(M, o, i)
    BY ContentType, Zenon
  <2>. QED
    BY <2>1
<1>4. SubSeq(Content(M, b, o, i), s + 1, s + n) = [k \in 1 .. n |-> Content(M, b, o, i)[s + k]]
  <2>. HIDE DEF u, s
  <2>. QED
    BY <1>1, <1>3
<1>. QED
  BY <1>2, <1>4

-----------------------------------------------------------------------------
(* The retransmission queue's names for them                                *)

LEMMA RingOfBytes ==
  /\ m_nSize \in Nat \ {0} /\ Places = 0 .. m_nSize - 1
  /\ \A p, n : Step(p, n) = Forward(m_nSize, p, n)
  /\ \A p, q : Ahead(p, q) = Distance(m_nSize, p, q)
BY QueueAssumption DEF Places, Step, Forward, Ahead, Distance

LEMMA StepType ==
  ASSUME NEW p \in Places, NEW n \in 0 .. m_nSize
  PROVE  Step(p, n) \in Places
BY RingOfBytes, ForwardType

LEMMA AheadType ==
  ASSUME NEW p \in Places, NEW q \in Places
  PROVE  Ahead(p, q) \in 0 .. m_nSize - 1
BY RingOfBytes, DistanceType

LEMMA AheadGrows ==
  ASSUME NEW p \in Places, NEW q \in Places, NEW n \in Nat,
         Ahead(p, q) + n < m_nSize
  PROVE  Ahead(p, Step(q, n)) = Ahead(p, q) + n
BY RingOfBytes, DistanceGrows

LEMMA AheadShrinks ==
  ASSUME NEW p \in Places, NEW q \in Places, NEW n \in 0 .. Ahead(p, q)
  PROVE  Ahead(Step(p, n), q) = Ahead(p, q) - n
BY RingOfBytes, DistanceShrinks

LEMMA AheadBetween ==
  ASSUME NEW o \in Places, NEW r \in Places, NEW i \in Places,
         Ahead(o, r) <= Ahead(o, i)
  PROVE  Ahead(r, i) = Ahead(o, i) - Ahead(o, r)
BY RingOfBytes, DistanceBetween

-----------------------------------------------------------------------------
(* The invariant: types and the order of the pointers.  It is inductive.    *)

Inv == TypeOK /\ Ordered

LEMMA FreeSpaceValue ==
  ASSUME TypeOK
  PROVE  GetFreeSpace = m_nSize - 1 - Ahead(m_nOutPtr, m_nInPtr)
BY QueueAssumption DEF TypeOK, Places, GetFreeSpace, Ahead

LEMMA ChunkType ==
  ASSUME NEW chunk \in Chunks
  PROVE  /\ Len(chunk) \in 1 .. Frame
         /\ chunk \in [1 .. Len(chunk) -> Bytes]
         /\ chunk \in Seq(Bytes)
<1>1. PICK k \in 1 .. Frame : chunk \in [1 .. k -> Bytes]
  BY DEF Chunks
<1>2. k \in Nat
  BY <1>1, QueueAssumption
<1>3. chunk \in Seq(Bytes) /\ Len(chunk) = k
  BY <1>1, <1>2
<1>. QED
  BY <1>1, <1>3

LEMMA SpanType ==
  ASSUME TypeOK, NEW p \in Places, NEW n \in 0 .. m_nSize
  PROVE  Span(p, n) \in [1 .. n -> Bytes]
<1>1. ASSUME NEW k \in 1 .. n PROVE m_pBuffer[Step(p, k - 1)] \in Bytes
  <2>1. k - 1 \in 0 .. m_nSize
    BY QueueAssumption
  <2>. QED
    BY <2>1, StepType DEF TypeOK
<1>. QED
  BY <1>1 DEF Span

LEMMA InvInit == QInit => Inv
BY QueueAssumption DEF QInit, Inv, TypeOK, Ordered, Places, Ahead

LEMMA InvWrite == Inv /\ Write => Inv'
<1>. SUFFICES ASSUME Inv, Write PROVE Inv'
  OBVIOUS
<1>1. PICK chunk \in Chunks :
        /\ m_pBuffer' = [p \in Places |->
                           IF Ahead(m_nInPtr, p) < Len(chunk)
                           THEN chunk[Ahead(m_nInPtr, p) + 1]
                           ELSE m_pBuffer[p]]
        /\ m_nInPtr' = Step(m_nInPtr, Len(chunk))
  BY DEF Write
<1>2. GetFreeSpace >= Frame /\ UNCHANGED <<m_nOutPtr, m_nPreOutPtr, pBuffer>>
  BY DEF Write
<1>3. TypeOK /\ Ordered
  BY DEF Inv
<1>4. Len(chunk) \in 1 .. Frame /\ chunk \in [1 .. Len(chunk) -> Bytes]
  BY ChunkType
<1>5. m_nInPtr' \in Places
  BY <1>1, <1>3, <1>4, StepType, QueueAssumption DEF TypeOK
<1>6. m_pBuffer' \in [Places -> Bytes]
  <2>1. ASSUME NEW p \in Places
        PROVE  (IF Ahead(m_nInPtr, p) < Len(chunk)
                THEN chunk[Ahead(m_nInPtr, p) + 1] ELSE m_pBuffer[p]) \in Bytes
    <3>1. Ahead(m_nInPtr, p) \in Nat
      BY <1>3, AheadType, QueueAssumption DEF TypeOK
    <3>2. CASE Ahead(m_nInPtr, p) < Len(chunk)
      BY <3>1, <3>2, <1>4
    <3>3. CASE ~(Ahead(m_nInPtr, p) < Len(chunk))
      BY <3>3, <1>3 DEF TypeOK
    <3>. QED
      BY <3>2, <3>3
  <2>. QED
    BY <1>1, <2>1
<1>7. Ahead(m_nOutPtr, Step(m_nInPtr, Len(chunk)))
        = Ahead(m_nOutPtr, m_nInPtr) + Len(chunk)
  BY <1>2, <1>3, <1>4, FreeSpaceValue, AheadGrows, AheadType, QueueAssumption
     DEF TypeOK
<1>8. Ordered'
  BY <1>1, <1>2, <1>3, <1>4, <1>7, AheadType, QueueAssumption DEF Ordered, TypeOK
<1>. QED
  BY <1>2, <1>3, <1>5, <1>6, <1>8 DEF Inv, TypeOK

LEMMA InvRead == Inv /\ Read => Inv'
<1>. SUFFICES ASSUME Inv, Read PROVE Inv'
  OBVIOUS
<1>1. PICK n \in 1 .. Frame :
        /\ n <= GetBytesAvailable
        /\ pBuffer' = Span(m_nPreOutPtr, n)
        /\ m_nPreOutPtr' = Step(m_nPreOutPtr, n)
  BY DEF Read
<1>2. UNCHANGED <<m_pBuffer, m_nInPtr, m_nOutPtr>>
  BY DEF Read
<1>3. TypeOK /\ Ordered
  BY DEF Inv
<1>4. n \in 0 .. m_nSize /\ n \in Nat
  BY QueueAssumption
<1>5. m_nPreOutPtr' \in Places
  BY <1>1, <1>3, <1>4, StepType DEF TypeOK
<1>6. pBuffer' \in Seq(Bytes)
  BY <1>1, <1>3, <1>4, SpanType DEF TypeOK
<1>7. n <= Ahead(m_nOutPtr, m_nInPtr) - Ahead(m_nOutPtr, m_nPreOutPtr)
  BY <1>1, <1>3, AheadBetween DEF GetBytesAvailable, Ordered, TypeOK
<1>8. /\ Ahead(m_nOutPtr, m_nInPtr) \in 0 .. m_nSize - 1
      /\ Ahead(m_nOutPtr, m_nPreOutPtr) \in 0 .. m_nSize - 1
  BY <1>3, AheadType DEF TypeOK
<1>9. Ahead(m_nOutPtr, Step(m_nPreOutPtr, n)) = Ahead(m_nOutPtr, m_nPreOutPtr) + n
  BY <1>3, <1>4, <1>7, <1>8, AheadGrows, QueueAssumption DEF TypeOK
<1>10. Ordered'
  BY <1>1, <1>2, <1>4, <1>7, <1>8, <1>9, QueueAssumption DEF Ordered
<1>. QED
  BY <1>2, <1>3, <1>5, <1>6, <1>10 DEF Inv, TypeOK

LEMMA InvAdvance == Inv /\ Advance => Inv'
<1>. SUFFICES ASSUME Inv, Advance PROVE Inv'
  OBVIOUS
<1>1. PICK n \in 1 .. Ahead(m_nOutPtr, m_nPreOutPtr) :
        m_nOutPtr' = Step(m_nOutPtr, n)
  BY DEF Advance
<1>2. UNCHANGED <<m_pBuffer, m_nInPtr, m_nPreOutPtr, pBuffer>>
  BY DEF Advance
<1>3. TypeOK /\ Ordered
  BY DEF Inv
<1>4. /\ Ahead(m_nOutPtr, m_nInPtr) \in 0 .. m_nSize - 1
      /\ Ahead(m_nOutPtr, m_nPreOutPtr) \in 0 .. m_nSize - 1
  BY <1>3, AheadType DEF TypeOK
<1>5. /\ n \in 0 .. m_nSize
      /\ n \in 0 .. Ahead(m_nOutPtr, m_nPreOutPtr)
      /\ n \in 0 .. Ahead(m_nOutPtr, m_nInPtr)
  BY <1>3, <1>4, QueueAssumption DEF Ordered
<1>6. m_nOutPtr' \in Places
  BY <1>1, <1>3, <1>5, StepType DEF TypeOK
<1>7. /\ Ahead(Step(m_nOutPtr, n), m_nPreOutPtr) = Ahead(m_nOutPtr, m_nPreOutPtr) - n
      /\ Ahead(Step(m_nOutPtr, n), m_nInPtr) = Ahead(m_nOutPtr, m_nInPtr) - n
  BY <1>3, <1>5, AheadShrinks DEF TypeOK
<1>8. Ordered'
  BY <1>1, <1>2, <1>3, <1>4, <1>5, <1>7, QueueAssumption DEF Ordered
<1>. QED
  BY <1>2, <1>3, <1>6, <1>8 DEF Inv, TypeOK

LEMMA InvReset == Inv /\ Reset => Inv'
<1>. SUFFICES ASSUME Inv, Reset PROVE Inv'
  OBVIOUS
<1>1. TypeOK'
  BY DEF Inv, TypeOK, Reset
<1>2. Ordered'
  BY QueueAssumption DEF Inv, TypeOK, Reset, Ordered, Ahead, Places
<1>. QED
  BY <1>1, <1>2 DEF Inv

LEMMA InvFlush == Inv /\ Flush => Inv'
BY QueueAssumption DEF Inv, TypeOK, Flush, Ordered, Ahead, Places

LEMMA InvNext == Inv /\ [QNext]_qvars => Inv'
<1>1. Inv /\ UNCHANGED qvars => Inv'
  BY DEF Inv, TypeOK, Ordered, qvars
<1>. QED
  BY <1>1, InvWrite, InvRead, InvAdvance, InvReset, InvFlush DEF QNext

LEMMA QueueInv == QSpec => []Inv
<1>. QED
  BY InvInit, InvNext, PTL DEF QSpec

\* The ring buffer of CRetransmissionQueue stays in its bounds.
THEOREM QueueTypeOK == QSpec => []TypeOK
<1>1. Inv => TypeOK
  BY DEF Inv
<1>. QED
  BY <1>1, QueueInv, PTL

\* CRetransmissionQueue never has its next byte to send outside the bytes that
\* are not acknowledged.
THEOREM QueueOrdered == QSpec => []Ordered
<1>1. Inv => Ordered
  BY DEF Inv
<1>. QED
  BY <1>1, QueueInv, PTL

-----------------------------------------------------------------------------
(* The ring of bytes implements the queue.                                  *)

\* The bytes from place o up to place i of a ring with the contents b.
Image(b, o, i) == [k \in 1 .. Ahead(o, i) |-> b[Step(o, k - 1)]]

LEMMA ImageIsContent ==
  ASSUME NEW b, NEW o, NEW i
  PROVE  Image(b, o, i) = Content(m_nSize, b, o, i)
BY DEF Image, Content, Step, Forward, Ahead, Distance

LEMMA ImageType ==
  ASSUME NEW b \in [Places -> Bytes], NEW o \in Places, NEW i \in Places
  PROVE  /\ Image(b, o, i) \in Seq(Bytes)
         /\ Len(Image(b, o, i)) = Ahead(o, i)
<1>1. /\ Content(m_nSize, b, o, i) \in Seq(Bytes)
      /\ Len(Content(m_nSize, b, o, i)) = Distance(m_nSize, o, i)
  BY RingOfBytes, ContentType
<1> QED
  BY <1>1, ImageIsContent, RingOfBytes

\* Writing appends, and overwrites none of the bytes from o to i.
LEMMA ImageWrite ==
  ASSUME NEW b \in [Places -> Bytes], NEW o \in Places, NEW i \in Places,
         NEW c \in Nat, NEW chunk \in [1 .. c -> Bytes],
         Ahead(o, i) + c < m_nSize
  PROVE  Image([p \in Places |-> IF Ahead(i, p) < c THEN chunk[Ahead(i, p) + 1]
                                                    ELSE b[p]], o, Step(i, c))
           = Image(b, o, i) \o chunk
<1> DEFINE b2 == [p \in Places |-> IF Ahead(i, p) < c THEN chunk[Ahead(i, p) + 1] ELSE b[p]]
<1>1. chunk \in Seq(Bytes) /\ Len(chunk) = c
  OBVIOUS
<1>2. \A p \in Places : Ahead(i, p) \in Nat
  <2>1. ASSUME NEW p \in Places PROVE Ahead(i, p) \in Nat
    <3>1. Ahead(i, p) \in 0 .. m_nSize - 1
      BY AheadType
    <3> QED
      BY <3>1
  <2> QED
    BY <2>1
<1>3. b2 \in [Places -> Bytes]
  <2>1. ASSUME NEW p \in Places, Ahead(i, p) < c PROVE chunk[Ahead(i, p) + 1] \in Bytes
    BY <1>2, <2>1
  <2> QED
    BY <2>1
<1>4. ASSUME NEW p \in Places, Ahead(o, p) < Ahead(o, i) PROVE b2[p] = b[p]
  <2>1. ~(Distance(m_nSize, i, p) < c)
    <3>1. Distance(m_nSize, o, i) + c <= m_nSize
      <4>1. Ahead(o, i) \in 0 .. m_nSize - 1 /\ m_nSize \in Nat
        BY AheadType, QueueAssumption
      <4>2. Distance(m_nSize, o, i) = Ahead(o, i)
        BY RingOfBytes
      <4> QED
        BY <4>1, <4>2
    <3>2. Distance(m_nSize, o, p) < Distance(m_nSize, o, i)
      BY <1>4, RingOfBytes
    <3> QED
      BY <3>1, <3>2, RingOfBytes, DistanceApart
  <2> QED
    BY <2>1, RingOfBytes
<1>5. Adds(m_nSize, b, b2, o, i, chunk)
  <2>1. \A p \in Places : Ahead(i, p) < Len(chunk) => b2[p] = chunk[Ahead(i, p) + 1]
    BY <1>1
  <2>2. \A p \in Places : Ahead(o, p) < Ahead(o, i) => b2[p] = b[p]
    BY <1>4
  <2> HIDE DEF b2
  <2> QED
    BY <2>1, <2>2, RingOfBytes DEF Adds
<1> HIDE DEF b2
<1>6. Writes(m_nSize, Bytes, b, b2, o, i, chunk)
  BY <1>1, <1>3, <1>5, RingOfBytes DEF Writes
<1>7. Content(m_nSize, b2, o, Forward(m_nSize, i, c)) = Content(m_nSize, b, o, i) \o chunk
  BY <1>1, <1>6, ContentWrite
<1>8. Image(b2, o, Step(i, c)) = Image(b, o, i) \o chunk
  BY <1>7, ImageIsContent, RingOfBytes
<1> QED
  BY <1>8 DEF b2

\* Advancing past n bytes takes them off the front.
LEMMA ImageAdvance ==
  ASSUME NEW b \in [Places -> Bytes], NEW o \in Places, NEW i \in Places,
         NEW n \in 0 .. Ahead(o, i)
  PROVE  Image(b, Step(o, n), i) = SubSeq(Image(b, o, i), n + 1, Len(Image(b, o, i)))
<1>1. Content(m_nSize, b, Forward(m_nSize, o, n), i)
        = SubSeq(Content(m_nSize, b, o, i), n + 1, Len(Content(m_nSize, b, o, i)))
  BY RingOfBytes, ContentAdvance
<1> QED
  BY <1>1, ImageIsContent, RingOfBytes

\* Reading n bytes at r gives the bytes that follow those from o to r.
LEMMA ImageRead ==
  ASSUME NEW b \in [Places -> Bytes],
         NEW o \in Places, NEW r \in Places, NEW i \in Places, NEW n \in Nat,
         Ahead(o, r) + n <= Ahead(o, i)
  PROVE  [k \in 1 .. n |-> b[Step(r, k - 1)]]
           = SubSeq(Image(b, o, i), Ahead(o, r) + 1, Ahead(o, r) + n)
<1>1. [k \in 1 .. n |-> b[Forward(m_nSize, r, k - 1)]]
        = SubSeq(Content(m_nSize, b, o, i),
                 Distance(m_nSize, o, r) + 1, Distance(m_nSize, o, r) + n)
  <2>1. /\ m_nSize \in Nat \ {0} /\ b \in [0 .. m_nSize - 1 -> Bytes] /\ o \in 0 .. m_nSize - 1
        /\ r \in 0 .. m_nSize - 1 /\ i \in 0 .. m_nSize - 1
        /\ Distance(m_nSize, o, r) + n <= Distance(m_nSize, o, i)
    BY RingOfBytes
  <2>2. Reads(m_nSize, Bytes, b, o, r, i, n)
    BY <2>1 DEF Reads
  <2> QED
    BY ONLY <2>2, ContentRead
<1>2. [k \in 1 .. n |-> b[Step(r, k - 1)]] = [k \in 1 .. n |-> b[Forward(m_nSize, r, k - 1)]]
  BY DEF Step, Forward
<1> QED
  BY <1>1, <1>2, ImageIsContent, RingOfBytes

LEMMA QueueIsImage ==
  ASSUME Inv
  PROVE  /\ unacked = Image(m_pBuffer, m_nOutPtr, m_nInPtr)
         /\ unacked \in Seq(Bytes)
         /\ Len(unacked) = Ahead(m_nOutPtr, m_nInPtr)
         /\ Len(unacked) \in 0 .. m_nSize - 1
         /\ sent \in 0 .. Len(unacked)
<1>1. unacked = Image(m_pBuffer, m_nOutPtr, m_nInPtr)
  BY DEF unacked, Image, Span
<1>2. TypeOK /\ Ordered
  BY DEF Inv
<1>3. unacked \in Seq(Bytes) /\ Len(unacked) = Ahead(m_nOutPtr, m_nInPtr)
  BY <1>1, <1>2, ImageType DEF TypeOK
<1>4. /\ Ahead(m_nOutPtr, m_nInPtr) \in 0 .. m_nSize - 1
      /\ sent \in 0 .. m_nSize - 1 /\ sent <= Ahead(m_nOutPtr, m_nInPtr)
  BY <1>2, AheadType DEF TypeOK, Ordered, sent
<1>. QED
  BY <1>1, <1>3, <1>4, QueueAssumption

LEMMA QueueWrite == Inv /\ Write => Promise!BWrite
<1>. SUFFICES ASSUME Inv, Write PROVE Promise!BWrite
  OBVIOUS
<1>1. PICK chunk \in Chunks :
        /\ m_pBuffer' = [p \in Places |->
                           IF Ahead(m_nInPtr, p) < Len(chunk)
                           THEN chunk[Ahead(m_nInPtr, p) + 1]
                           ELSE m_pBuffer[p]]
        /\ m_nInPtr' = Step(m_nInPtr, Len(chunk))
  BY DEF Write
<1>2. GetFreeSpace >= Frame /\ UNCHANGED <<m_nOutPtr, m_nPreOutPtr, pBuffer>>
  BY DEF Write
<1>3. TypeOK
  BY DEF Inv
<1>4. Len(chunk) \in 1 .. Frame /\ chunk \in [1 .. Len(chunk) -> Bytes]
  BY ChunkType
<1>5. /\ Ahead(m_nOutPtr, m_nInPtr) \in 0 .. m_nSize - 1
      /\ Ahead(m_nOutPtr, m_nInPtr) + Frame <= m_nSize - 1
  BY <1>2, <1>3, FreeSpaceValue, AheadType, QueueAssumption DEF TypeOK
<1>6. unacked' = Image(m_pBuffer', m_nOutPtr', m_nInPtr')
  BY DEF unacked, Image, Span
<1>7. unacked' = unacked \o chunk
  <2>1. Len(chunk) \in Nat /\ Ahead(m_nOutPtr, m_nInPtr) + Len(chunk) < m_nSize
    BY <1>4, <1>5, QueueAssumption
  <2>2. Image(m_pBuffer', m_nOutPtr, Step(m_nInPtr, Len(chunk)))
          = Image(m_pBuffer, m_nOutPtr, m_nInPtr) \o chunk
    BY <1>1, <1>3, <1>4, <2>1, ImageWrite DEF TypeOK
  <2>. QED
    BY <1>1, <1>2, <1>6, <2>2, QueueIsImage
<1>8. Len(unacked) + Frame <= m_nSize - 1
  BY <1>5, QueueIsImage
<1>9. UNCHANGED <<sent, pBuffer>>
  BY <1>2 DEF sent
<1>10. chunk \in Promise!Chunks
  BY DEF Chunks, Promise!Chunks
<1>. QED
  BY <1>7, <1>8, <1>9, <1>10 DEF Promise!BWrite

LEMMA QueueRead == Inv /\ Read => Promise!BRead
<1>. SUFFICES ASSUME Inv, Read PROVE Promise!BRead
  OBVIOUS
<1>1. PICK n \in 1 .. Frame :
        /\ n <= GetBytesAvailable
        /\ pBuffer' = Span(m_nPreOutPtr, n)
        /\ m_nPreOutPtr' = Step(m_nPreOutPtr, n)
  BY DEF Read
<1>2. UNCHANGED <<m_pBuffer, m_nInPtr, m_nOutPtr>>
  BY DEF Read
<1>3. TypeOK /\ Ordered
  BY DEF Inv
<1>4. n \in Nat /\ n <= Len(unacked) - sent
  BY <1>1, <1>3, AheadBetween, QueueIsImage, QueueAssumption
     DEF GetBytesAvailable, Ordered, TypeOK, sent
<1>5. Len(unacked) = Ahead(m_nOutPtr, m_nInPtr)
      /\ Len(unacked) \in 0 .. m_nSize - 1 /\ sent \in 0 .. Len(unacked)
  BY QueueIsImage
<1>6. pBuffer' = SubSeq(unacked, sent + 1, sent + n)
  <2>1. Ahead(m_nOutPtr, m_nPreOutPtr) + n <= Ahead(m_nOutPtr, m_nInPtr)
    BY <1>4, <1>5, QueueAssumption DEF sent
  <2>2. [k \in 1 .. n |-> m_pBuffer[Step(m_nPreOutPtr, k - 1)]]
          = SubSeq(Image(m_pBuffer, m_nOutPtr, m_nInPtr),
                   Ahead(m_nOutPtr, m_nPreOutPtr) + 1, Ahead(m_nOutPtr, m_nPreOutPtr) + n)
    <3>1. m_pBuffer \in [Places -> Bytes]
          /\ m_nOutPtr \in Places /\ m_nPreOutPtr \in Places /\ m_nInPtr \in Places
      BY <1>3 DEF TypeOK
    <3>2. n \in Nat
      BY <1>4
    <3>. QED
      BY <2>1, <3>1, <3>2, ImageRead
  <2>. QED
    BY <1>1, <2>2, QueueIsImage DEF Span, sent
<1>7. sent' = sent + n
  <2>1. Ahead(m_nOutPtr, m_nPreOutPtr) + n < m_nSize
    BY <1>4, <1>5, QueueAssumption DEF sent
  <2>2. Ahead(m_nOutPtr, Step(m_nPreOutPtr, n)) = Ahead(m_nOutPtr, m_nPreOutPtr) + n
    BY <1>3, <1>4, <2>1, AheadGrows DEF TypeOK
  <2>. QED
    BY <1>1, <1>2, <2>2 DEF sent
<1>8. UNCHANGED unacked
  BY <1>2 DEF unacked, Span
<1>. QED
  BY <1>1, <1>4, <1>6, <1>7, <1>8 DEF Promise!BRead

LEMMA QueueAdvance == Inv /\ Advance => Promise!BAdvance
<1>. SUFFICES ASSUME Inv, Advance PROVE Promise!BAdvance
  OBVIOUS
<1>1. PICK n \in 1 .. Ahead(m_nOutPtr, m_nPreOutPtr) :
        m_nOutPtr' = Step(m_nOutPtr, n)
  BY DEF Advance
<1>2. UNCHANGED <<m_pBuffer, m_nInPtr, m_nPreOutPtr, pBuffer>>
  BY DEF Advance
<1>3. TypeOK /\ Ordered
  BY DEF Inv
<1>4. /\ n \in 1 .. sent
      /\ n \in 0 .. Ahead(m_nOutPtr, m_nPreOutPtr)
      /\ n \in 0 .. Ahead(m_nOutPtr, m_nInPtr)
  BY <1>1, <1>3, AheadType, QueueAssumption DEF TypeOK, Ordered, sent
<1>5. unacked' = Image(m_pBuffer', m_nOutPtr', m_nInPtr')
  BY DEF unacked, Image, Span
<1>6. Image(m_pBuffer, Step(m_nOutPtr, n), m_nInPtr)
        = SubSeq(Image(m_pBuffer, m_nOutPtr, m_nInPtr), n + 1,
                 Len(Image(m_pBuffer, m_nOutPtr, m_nInPtr)))
  BY <1>3, <1>4, ImageAdvance DEF TypeOK
<1>7. unacked' = SubSeq(unacked, n + 1, Len(unacked))
  BY <1>1, <1>2, <1>5, <1>6, QueueIsImage
<1>8. Ahead(Step(m_nOutPtr, n), m_nPreOutPtr) = Ahead(m_nOutPtr, m_nPreOutPtr) - n
  BY <1>3, <1>4, AheadShrinks DEF TypeOK
<1>9. sent' = sent - n
  BY <1>1, <1>2, <1>8 DEF sent
<1>. QED
  BY <1>2, <1>4, <1>7, <1>9 DEF Promise!BAdvance

LEMMA QueueReset == Inv /\ Reset => Promise!BReset
<1>. SUFFICES ASSUME Inv, Reset PROVE Promise!BReset
  OBVIOUS
<1>1. sent' = 0
  BY QueueAssumption DEF Inv, TypeOK, Reset, sent, Ahead, Places
<1>2. UNCHANGED <<unacked, pBuffer>>
  BY DEF Reset, unacked, Span
<1>. QED
  BY <1>1, <1>2 DEF Promise!BReset

LEMMA QueueFlush == Inv /\ Flush => Promise!BFlush
<1>. SUFFICES ASSUME Inv, Flush PROVE Promise!BFlush
  OBVIOUS
<1>1. Inv'
  BY InvFlush
<1>2. Ahead(m_nOutPtr, m_nInPtr)' = 0 /\ sent' = 0
  BY DEF Flush, Ahead, sent
<1>3. (unacked \in Seq(Bytes) /\ Len(unacked) = Ahead(m_nOutPtr, m_nInPtr))'
  <2>1. unacked' = Image(m_pBuffer', m_nOutPtr', m_nInPtr')
    BY DEF unacked, Image, Span
  <2>. QED
    BY <1>1, <2>1, ImageType DEF Inv, TypeOK
<1>4. unacked' = <<>>
  BY <1>2, <1>3
<1>. QED
  BY <1>2, <1>4 DEF Promise!BFlush, Flush

LEMMA QueueInit == QInit => Promise!BInit
<1>. SUFFICES ASSUME QInit PROVE Promise!BInit
  OBVIOUS
<1>1. Inv
  BY InvInit
<1>2. Ahead(m_nOutPtr, m_nInPtr) = 0 /\ sent = 0
  BY DEF QInit, Ahead, sent
<1>3. unacked = <<>>
  BY <1>1, <1>2, QueueIsImage
<1>. QED
  BY <1>2, <1>3 DEF Promise!BInit, QInit

\* CRetransmissionQueue implements the queue of unacknowledged bytes that
\* CTCPConnection relies on: what is sent again is what was sent before.
THEOREM QueueImplements == QSpec => Implements
<1>1. QInit => Promise!BInit
  BY QueueInit
<1>2. Inv /\ [QNext]_qvars => [Promise!BNext]_(Promise!BVars)
  <2>1. UNCHANGED qvars => UNCHANGED Promise!BVars
    BY DEF qvars, Promise!BVars, unacked, sent, Span
  <2>. QED
    BY <2>1, QueueWrite, QueueRead, QueueAdvance, QueueReset, QueueFlush
       DEF QNext, Promise!BNext
<1>. QED
  BY <1>1, <1>2, QueueInv, PTL DEF QSpec, Implements, Promise!BSpec

-----------------------------------------------------------------------------
(* The logger's ring of events                                              *)

AddressesIn(q) == Content(LOG_QUEUE_SIZE, q.at, q.outPtr, q.inPtr)
EventRing == [at : [EventPlaces -> Addresses \cup {NoEvent}],
              inPtr : EventPlaces, outPtr : EventPlaces]
Hand == [does : {"nothing", "enters", "deletes", "copies"}, pEvent : Addresses \cup {NoEvent}]

LEMMA PlacesOfEvents ==
  /\ LOG_QUEUE_SIZE \in Nat \ {0} /\ LOG_QUEUE_SIZE > 1
  /\ EventPlaces = 0 .. LOG_QUEUE_SIZE - 1
BY LoggerAssumption DEF EventPlaces

LEMMA PlacesOfText ==
  /\ LOGGER_BUFSIZE \in Nat \ {0} /\ LOGGER_BUFSIZE > 1
  /\ TextPlaces = 0 .. LOGGER_BUFSIZE - 1
BY LoggerAssumption DEF TextPlaces

LEMMA WrapsOnce ==
  ASSUME NEW M \in Nat \ {0}, NEW o \in 0 .. M - 1, NEW i \in 0 .. M - 1
  PROVE  (i - o) % M = Distance(M, o, i)
BY DEF Distance

LEMMA NextPlaceIs ==
  ASSUME NEW p \in EventPlaces
  PROVE  NextPlace(p) = Forward(LOG_QUEUE_SIZE, p, 1) /\ NextPlace(p) \in EventPlaces
<1>1. Forward(LOG_QUEUE_SIZE, p, 1)
        = IF p + 1 < LOG_QUEUE_SIZE THEN p + 1 ELSE p + 1 - LOG_QUEUE_SIZE
  BY PlacesOfEvents, ForwardValue
<1> QED
  BY <1>1, PlacesOfEvents DEF NextPlace

\* What becomes of the queued addresses
LEMMA AddressesType ==
  ASSUME NEW q \in EventRing
  PROVE  /\ AddressesIn(q) \in Seq(Addresses \cup {NoEvent})
         /\ Len(AddressesIn(q)) = Distance(LOG_QUEUE_SIZE, q.outPtr, q.inPtr)
         /\ Len(AddressesIn(q)) \in 0 .. LOG_QUEUE_SIZE - 1
<1>1. /\ q.at \in [0 .. LOG_QUEUE_SIZE - 1 -> Addresses \cup {NoEvent}]
      /\ q.inPtr \in 0 .. LOG_QUEUE_SIZE - 1 /\ q.outPtr \in 0 .. LOG_QUEUE_SIZE - 1
  BY PlacesOfEvents DEF EventRing
<1>2. Distance(LOG_QUEUE_SIZE, q.outPtr, q.inPtr) \in 0 .. LOG_QUEUE_SIZE - 1
  BY <1>1, PlacesOfEvents, DistanceType
<1>3. /\ Content(LOG_QUEUE_SIZE, q.at, q.outPtr, q.inPtr) \in Seq(Addresses \cup {NoEvent})
      /\ Len(Content(LOG_QUEUE_SIZE, q.at, q.outPtr, q.inPtr))
           = Distance(LOG_QUEUE_SIZE, q.outPtr, q.inPtr)
  <2> DEFINE at == q.at
             o == q.outPtr
             i == q.inPtr
             S == Addresses \cup {NoEvent}
  <2>1. LOG_QUEUE_SIZE \in Nat \ {0} /\ at \in [0 .. LOG_QUEUE_SIZE - 1 -> S]
        /\ o \in 0 .. LOG_QUEUE_SIZE - 1 /\ i \in 0 .. LOG_QUEUE_SIZE - 1
    BY <1>1, PlacesOfEvents
  <2> HIDE DEF at, o, i, S
  <2>2. Content(LOG_QUEUE_SIZE, at, o, i) \in Seq(S)
        /\ Len(Content(LOG_QUEUE_SIZE, at, o, i)) = Distance(LOG_QUEUE_SIZE, o, i)
    BY ONLY <2>1, ContentType
  <2> QED
    BY <2>2 DEF at, o, i, S
<1> QED
  BY <1>2, <1>3 DEF AddressesIn

\* Taking the oldest one
LEMMA AddressesTaken ==
  ASSUME NEW q \in EventRing, q.inPtr # q.outPtr
  PROVE  LET A == AddressesIn(q) IN
         /\ A # <<>> /\ q.at[q.outPtr] = Head(A)
         /\ AddressesIn([q EXCEPT !.outPtr = NextPlace(@)]) = Tail(A)
         /\ [q EXCEPT !.outPtr = NextPlace(@)] \in EventRing
<1> DEFINE A == AddressesIn(q)
           r == [q EXCEPT !.outPtr = NextPlace(@)]
<1>1. /\ q.at \in [0 .. LOG_QUEUE_SIZE - 1 -> Addresses \cup {NoEvent}]
      /\ q.inPtr \in 0 .. LOG_QUEUE_SIZE - 1 /\ q.outPtr \in 0 .. LOG_QUEUE_SIZE - 1
  BY PlacesOfEvents DEF EventRing
<1>2. Len(A) = Distance(LOG_QUEUE_SIZE, q.outPtr, q.inPtr) /\ Len(A) \in Nat
      /\ A \in Seq(Addresses \cup {NoEvent})
  BY AddressesType
<1>3. Len(A) > 0
  BY <1>1, <1>2, PlacesOfEvents DEF Distance
<1>4. A[1] = q.at[q.outPtr]
  <2>1. A[1] = q.at[Forward(LOG_QUEUE_SIZE, q.outPtr, 0)]
    <3> DEFINE d == Distance(LOG_QUEUE_SIZE, q.outPtr, q.inPtr)
               f(k) == q.at[Forward(LOG_QUEUE_SIZE, q.outPtr, k - 1)]
    <3>1. 1 \in 1 .. d
      BY <1>2, <1>3
    <3>2. A = [k \in 1 .. d |-> f(k)]
      BY DEF AddressesIn, Content
    <3> HIDE DEF A, f, d
    <3>3. A[1] = f(1)
      BY <3>1, <3>2
    <3> QED
      BY <3>3 DEF f
  <2>2. Forward(LOG_QUEUE_SIZE, q.outPtr, 0) = q.outPtr
    <3>1. 0 \in 0 .. LOG_QUEUE_SIZE
      BY PlacesOfEvents
    <3>2. Forward(LOG_QUEUE_SIZE, q.outPtr, 0)
            = IF q.outPtr + 0 < LOG_QUEUE_SIZE THEN q.outPtr + 0 ELSE q.outPtr + 0 - LOG_QUEUE_SIZE
      BY <1>1, <3>1, PlacesOfEvents, ForwardValue
    <3> QED
      BY <1>1, <3>2, PlacesOfEvents
  <2> QED
    BY <2>1, <2>2
<1>5. r \in EventRing /\ r.at = q.at /\ r.inPtr = q.inPtr
      /\ r.outPtr = Forward(LOG_QUEUE_SIZE, q.outPtr, 1)
  BY NextPlaceIs DEF EventRing
<1>6. AddressesIn(r) = SubSeq(A, 2, Len(A))
  <2>1. 1 \in 0 .. Distance(LOG_QUEUE_SIZE, q.outPtr, q.inPtr)
    BY <1>2, <1>3
  <2>2. Content(LOG_QUEUE_SIZE, q.at, Forward(LOG_QUEUE_SIZE, q.outPtr, 1), q.inPtr)
          = SubSeq(A, 1 + 1, Len(A))
    BY <1>1, <2>1, PlacesOfEvents, ContentAdvance DEF AddressesIn
  <2> QED
    BY <1>5, <2>2 DEF AddressesIn
<1> HIDE DEF A, r
<1>7. Tail(A) = SubSeq(A, 2, Len(A)) /\ Head(A) = A[1] /\ A # <<>>
  BY <1>2, <1>3
<1> QED
  BY <1>4, <1>5, <1>6, <1>7 DEF A, r

\* Entering one, where there is room
LEMMA AddressesAdded ==
  ASSUME NEW q \in EventRing, NEW a \in Addresses, ~Full(q)
  PROVE  LET r == [q EXCEPT !.at[q.inPtr] = a, !.inPtr = NextPlace(q.inPtr)]
         IN  r \in EventRing /\ AddressesIn(r) = Append(AddressesIn(q), a)
<1> DEFINE A == AddressesIn(q)
           r == [q EXCEPT !.at[q.inPtr] = a, !.inPtr = NextPlace(q.inPtr)]
           S == Addresses \cup {NoEvent}
<1>1. /\ q.at \in [0 .. LOG_QUEUE_SIZE - 1 -> S]
      /\ q.inPtr \in 0 .. LOG_QUEUE_SIZE - 1 /\ q.outPtr \in 0 .. LOG_QUEUE_SIZE - 1
      /\ q.inPtr \in EventPlaces
  BY PlacesOfEvents DEF EventRing
<1>2. /\ r.at = [q.at EXCEPT ![q.inPtr] = a] /\ r.outPtr = q.outPtr
      /\ r.inPtr = Forward(LOG_QUEUE_SIZE, q.inPtr, 1) /\ r.inPtr = NextPlace(q.inPtr)
  BY <1>1, NextPlaceIs DEF EventRing
<1>3. r \in EventRing
  <2> DEFINE X == [q.at EXCEPT ![q.inPtr] = a]
             Y == NextPlace(q.inPtr)
  <2>1. r = [[q EXCEPT !.at = X] EXCEPT !.inPtr = Y]
    OBVIOUS
  <2>2. X \in [EventPlaces -> S] /\ Y \in EventPlaces
    BY <1>1, PlacesOfEvents, NextPlaceIs
  <2> HIDE DEF X, Y, S
  <2>3. [q EXCEPT !.at = X] \in EventRing
    BY <2>2 DEF EventRing, S
  <2> QED
    BY <2>1, <2>2, <2>3 DEF EventRing
<1> HIDE DEF r
<1>4. r.at \in [0 .. LOG_QUEUE_SIZE - 1 -> S]
  BY <1>3, PlacesOfEvents DEF EventRing
<1>5. <<a>> \in Seq(S) /\ Len(<<a>>) = 1 /\ <<a>>[1] = a
  OBVIOUS
<1>6. Distance(LOG_QUEUE_SIZE, q.outPtr, q.inPtr) + 1 < LOG_QUEUE_SIZE
  <2>1. NextPlace(q.inPtr) # q.outPtr
    BY DEF Full
  <2> QED
    BY <1>1, <2>1, PlacesOfEvents DEF Distance, NextPlace
<1>0. \A p \in 0 .. LOG_QUEUE_SIZE - 1 : r.at[p] = IF p = q.inPtr THEN a ELSE q.at[p]
  <2> DEFINE b == q.at
             i == q.inPtr
  <2>1. b \in [0 .. LOG_QUEUE_SIZE - 1 -> S] /\ r.at = [b EXCEPT ![i] = a]
    BY <1>1, <1>2
  <2> HIDE DEF b, i, S
  <2>2. \A p \in 0 .. LOG_QUEUE_SIZE - 1 : r.at[p] = IF p = i THEN a ELSE b[p]
    BY <2>1
  <2> QED
    BY <2>2 DEF b, i
<1>7. ASSUME NEW p \in 0 .. LOG_QUEUE_SIZE - 1, Distance(LOG_QUEUE_SIZE, q.inPtr, p) < 1
      PROVE  r.at[p] = <<a>>[Distance(LOG_QUEUE_SIZE, q.inPtr, p) + 1]
  <2>1. p = q.inPtr /\ Distance(LOG_QUEUE_SIZE, q.inPtr, p) = 0
    BY <1>1, <1>7, PlacesOfEvents DEF Distance
  <2> QED
    BY <1>0, <2>1, <1>5
<1>8. ASSUME NEW p \in 0 .. LOG_QUEUE_SIZE - 1,
             Distance(LOG_QUEUE_SIZE, q.outPtr, p) < Distance(LOG_QUEUE_SIZE, q.outPtr, q.inPtr)
      PROVE  r.at[p] = q.at[p]
  <2>1. Distance(LOG_QUEUE_SIZE, q.outPtr, q.inPtr) \in Int
    BY <1>1, PlacesOfEvents DEF Distance
  <2> QED
    BY <1>0, <1>8, <2>1
<1>9. Content(LOG_QUEUE_SIZE, r.at, q.outPtr, Forward(LOG_QUEUE_SIZE, q.inPtr, Len(<<a>>)))
        = Content(LOG_QUEUE_SIZE, q.at, q.outPtr, q.inPtr) \o <<a>>
  <2> DEFINE chunk == <<a>>
             b2 == r.at
             b == q.at
             o == q.outPtr
             i == q.inPtr
  <2>1. Adds(LOG_QUEUE_SIZE, b, b2, o, i, chunk)
    BY <1>5, <1>7, <1>8 DEF Adds
  <2>2. chunk \in Seq(S) /\ Distance(LOG_QUEUE_SIZE, o, i) + Len(chunk) < LOG_QUEUE_SIZE
        /\ b \in [0 .. LOG_QUEUE_SIZE - 1 -> S] /\ b2 \in [0 .. LOG_QUEUE_SIZE - 1 -> S]
        /\ o \in 0 .. LOG_QUEUE_SIZE - 1 /\ i \in 0 .. LOG_QUEUE_SIZE - 1
        /\ LOG_QUEUE_SIZE \in Nat \ {0}
    BY <1>1, <1>4, <1>5, <1>6, PlacesOfEvents
  <2> HIDE DEF chunk, b2, b, o, i, S
  <2>3. Writes(LOG_QUEUE_SIZE, S, b, b2, o, i, chunk)
    BY <2>1, <2>2 DEF Writes
  <2>4. Content(LOG_QUEUE_SIZE, b2, o, Forward(LOG_QUEUE_SIZE, i, Len(chunk)))
          = Content(LOG_QUEUE_SIZE, b, o, i) \o chunk
    BY ONLY <2>3, ContentWrite
  <2> QED
    BY <2>4 DEF chunk, b2, b, o, i
<1>10. AddressesIn(r) = A \o <<a>>
  BY <1>2, <1>5, <1>9 DEF AddressesIn
<1>11. A \in Seq(S)
  BY AddressesType
<1> HIDE DEF A
<1>12. A \o <<a>> = Append(A, a)
  BY <1>5, <1>11
<1> QED
  BY <1>3, <1>10, <1>12 DEF r, A

LEMMA AddressesEntered ==
  ASSUME NEW q \in EventRing, NEW a \in Addresses
  PROVE  LET A == AddressesIn(q) IN
         /\ Entered(q, a) \in EventRing
         /\ Full(q) <=> Len(A) = LOG_QUEUE_SIZE - 1
         /\ AddressesIn(Entered(q, a)) = IF Full(q) THEN Append(Tail(A), a) ELSE Append(A, a)
         /\ Full(q) => A # <<>> /\ q.at[q.outPtr] = Head(A)
<1> DEFINE A == AddressesIn(q)
           first == [q EXCEPT !.outPtr = NextPlace(@)]
           room == IF Full(q) THEN first ELSE q
           X(r) == [r EXCEPT !.at[r.inPtr] = a, !.inPtr = NextPlace(r.inPtr)]
<1>1. q.inPtr \in EventPlaces /\ q.outPtr \in EventPlaces
      /\ q.inPtr \in 0 .. LOG_QUEUE_SIZE - 1 /\ q.outPtr \in 0 .. LOG_QUEUE_SIZE - 1
  BY PlacesOfEvents DEF EventRing
<1>2. Full(q) <=> Len(A) = LOG_QUEUE_SIZE - 1
  <2>1. Len(A) = Distance(LOG_QUEUE_SIZE, q.outPtr, q.inPtr)
    BY AddressesType
  <2> QED
    BY <1>1, <2>1, PlacesOfEvents DEF Full, NextPlace, Distance
<1>3. ASSUME Full(q)
      PROVE  /\ A # <<>> /\ q.at[q.outPtr] = Head(A) /\ AddressesIn(first) = Tail(A)
             /\ first \in EventRing /\ ~Full(first)
  <2>1. q.inPtr # q.outPtr
    BY <1>1, <1>3, PlacesOfEvents DEF Full, NextPlace
  <2>2. /\ A # <<>> /\ q.at[q.outPtr] = Head(A) /\ AddressesIn(first) = Tail(A)
        /\ first \in EventRing
    BY <2>1, AddressesTaken
  <2>3. first.inPtr = q.inPtr /\ first.outPtr = NextPlace(q.outPtr)
    BY DEF EventRing
  <2>4. ~Full(first)
    BY <1>1, <1>3, <2>3, PlacesOfEvents DEF Full, NextPlace
  <2> QED
    BY <2>2, <2>4
<1>4. room \in EventRing /\ ~Full(room)
      /\ AddressesIn(room) = IF Full(q) THEN Tail(A) ELSE A
  BY <1>3
<1>5. Entered(q, a) = X(room)
  <2>1. CASE Full(q)
    <3>1. q = [at |-> q.at, inPtr |-> q.inPtr, outPtr |-> q.outPtr]
      BY DEF EventRing
    <3> DEFINE at == q.at
               inPtr == q.inPtr
               out2 == NextPlace(q.outPtr)
               at2 == [at EXCEPT ![inPtr] = a]
               in2 == NextPlace(inPtr)
    <3>2. first = [at |-> at, inPtr |-> inPtr, outPtr |-> out2]
      BY <3>1
    <3>3. X(first) = [first EXCEPT !.at = at2, !.inPtr = in2]
      <4>1. first.at = at /\ first.inPtr = inPtr
        BY <3>2
      <4> HIDE DEF first
      <4> QED
        BY <4>1
    <3>4. Entered(q, a) = [q EXCEPT !.at = at2, !.inPtr = in2, !.outPtr = out2]
      BY <2>1 DEF Entered
    <3> HIDE DEF at2, in2, out2
    <3>5. X(first) = [at |-> at2, inPtr |-> in2, outPtr |-> out2]
      <4> HIDE DEF at, inPtr, first, X
      <4> QED
        BY ONLY <3>2, <3>3
    <3>6. Entered(q, a) = [at |-> at2, inPtr |-> in2, outPtr |-> out2]
      BY ONLY <3>1, <3>4
    <3> QED
      BY <2>1, <3>5, <3>6
  <2>2. CASE ~Full(q)
    <3>1. q = [at |-> q.at, inPtr |-> q.inPtr, outPtr |-> q.outPtr]
      BY DEF EventRing
    <3> DEFINE at2 == [q.at EXCEPT ![q.inPtr] = a]
               in2 == NextPlace(q.inPtr)
    <3>2. X(q) = [q EXCEPT !.at = at2, !.inPtr = in2]
      OBVIOUS
    <3>3. Entered(q, a) = [q EXCEPT !.at = at2, !.inPtr = in2, !.outPtr = q.outPtr]
      BY <2>2 DEF Entered
    <3> HIDE DEF at2, in2
    <3>4. Entered(q, a) = X(q)
      BY ONLY <3>1, <3>2, <3>3
    <3> QED
      BY <2>2, <3>4
  <2> QED
    BY <2>1, <2>2
<1> HIDE DEF room, first
<1>6. X(room) \in EventRing /\ AddressesIn(X(room)) = Append(AddressesIn(room), a)
  BY <1>4, AddressesAdded
<1> HIDE DEF X, A
<1> QED
  BY <1>2, <1>3, <1>4, <1>5, <1>6 DEF A

-----------------------------------------------------------------------------
(* The logger's invariant: what is queued is at addresses of its own, and   *)
(* what a caller has in hand is neither queued nor in another's hand.       *)

Separate(A, h, cl) ==
  /\ A \in Seq(Addresses)
  /\ \A k \in 1 .. Len(A) : h[A[k]] # NoEvent
  /\ \A j, k \in 1 .. Len(A) : A[j] = A[k] => j = k
  /\ \A c \in Callers :
       IF cl[c].does = "nothing" THEN cl[c].pEvent = NoEvent
       ELSE /\ cl[c].pEvent \in Addresses /\ h[cl[c].pEvent] # NoEvent
            /\ \A k \in 1 .. Len(A) : A[k] # cl[c].pEvent
  /\ \A c, d \in Callers : cl[c].does # "nothing" /\ cl[d].does # "nothing"
                           /\ cl[c].pEvent = cl[d].pEvent => c = d

Heaps == [Addresses -> Events \cup {NoEvent}]

LEMMA TailFacts ==
  ASSUME NEW S, NEW A \in Seq(S), A # <<>>
  PROVE  /\ Tail(A) \in Seq(S) /\ Len(Tail(A)) = Len(A) - 1 /\ Len(A) \in Nat /\ Len(A) > 0
         /\ \A k \in 1 .. Len(A) - 1 : Tail(A)[k] = A[k + 1]
         /\ Head(A) = A[1]
OBVIOUS

LEMMA AppendFacts ==
  ASSUME NEW S, NEW A \in Seq(S), NEW a \in S
  PROVE  /\ Append(A, a) \in Seq(S) /\ Len(Append(A, a)) = Len(A) + 1 /\ Len(A) \in Nat
         /\ \A k \in 1 .. Len(A) : Append(A, a)[k] = A[k]
         /\ Append(A, a)[Len(A) + 1] = a
OBVIOUS

\* The caller c goes on to what r says.
LEMMA SeparateNew ==
  ASSUME NEW A, NEW h \in Heaps, NEW cl \in [Callers -> Hand], Separate(A, h, cl),
         NEW c \in Callers, NEW a \in Addresses, NEW e \in Events, h[a] = NoEvent, cl[c] = Idle
  PROVE  Separate(A, [h EXCEPT ![a] = e],
                  [cl EXCEPT ![c] = [does |-> "enters", pEvent |-> a]])
<1> DEFINE g == [h EXCEPT ![a] = e]
           new == [does |-> "enters", pEvent |-> a]
           dl == [cl EXCEPT ![c] = new]
<1>1. g[a] = e /\ e # NoEvent /\ \A b \in Addresses : b # a => g[b] = h[b]
  BY LoggerAssumption DEF Heaps
<1>2. dl[c] = new /\ \A d \in Callers : d # c => dl[d] = cl[d]
  OBVIOUS
<1>3. new.does = "enters" /\ new.pEvent = a
  OBVIOUS
<1> HIDE DEF g, dl, new
<1>4. A \in Seq(Addresses) /\ \A k \in 1 .. Len(A) : A[k] \in Addresses /\ A[k] # a
  BY DEF Separate
<1> QED
  BY <1>1, <1>2, <1>3, <1>4 DEF Separate, g, dl, new

LEMMA SeparateFreed ==
  ASSUME NEW A, NEW h \in Heaps, NEW cl \in [Callers -> Hand], Separate(A, h, cl),
         NEW c \in Callers, cl[c].does # "nothing"
  PROVE  Separate(A, [h EXCEPT ![cl[c].pEvent] = NoEvent], [cl EXCEPT ![c] = Idle])
<1> DEFINE a == cl[c].pEvent
           g == [h EXCEPT ![a] = NoEvent]
           dl == [cl EXCEPT ![c] = Idle]
<1>1. a \in Addresses /\ \A b \in Addresses : b # a => g[b] = h[b]
  BY DEF Separate, Heaps
<1>2. dl[c] = Idle /\ \A d \in Callers : d # c => dl[d] = cl[d]
  OBVIOUS
<1>3. Idle.does = "nothing" /\ Idle.pEvent = NoEvent
  BY DEF Idle
<1>4. A \in Seq(Addresses) /\ \A k \in 1 .. Len(A) : A[k] \in Addresses /\ A[k] # a
  BY DEF Separate
<1>5. \A d \in Callers : d # c /\ cl[d].does # "nothing" => cl[d].pEvent # a
  BY DEF Separate
<1> HIDE DEF a, g, dl
<1>6. Separate(A, g, dl)
  BY <1>1, <1>2, <1>3, <1>4, <1>5 DEF Separate
<1> QED
  BY <1>6 DEF a, g, dl

LEMMA SeparateTaken ==
  ASSUME NEW A, NEW h \in Heaps, NEW cl \in [Callers -> Hand], Separate(A, h, cl),
         NEW c \in Callers, cl[c].does = "nothing", A # <<>>,
         NEW does \in {"enters", "deletes", "copies"}
  PROVE  Separate(Tail(A), h, [cl EXCEPT ![c] = [does |-> does, pEvent |-> Head(A)]])
<1> DEFINE new == [does |-> does, pEvent |-> Head(A)]
           dl == [cl EXCEPT ![c] = new]
           T == Tail(A)
<1>1. dl[c] = new /\ \A d \in Callers : d # c => dl[d] = cl[d]
  OBVIOUS
<1>2. new.does # "nothing" /\ new.pEvent = A[1]
  BY TailFacts DEF Separate
<1>3. /\ T \in Seq(Addresses) /\ Len(T) = Len(A) - 1 /\ Len(A) \in Nat /\ Len(A) > 0
      /\ \A k \in 1 .. Len(T) : T[k] = A[k + 1] /\ k + 1 \in 1 .. Len(A) /\ k + 1 # 1
      /\ 1 \in 1 .. Len(A) /\ A[1] \in Addresses
  BY TailFacts DEF Separate
<1> HIDE DEF new, dl, T
<1>4. \A k \in 1 .. Len(T) : h[T[k]] # NoEvent /\ T[k] # A[1]
  BY <1>3 DEF Separate
<1>5. \A j, k \in 1 .. Len(T) : T[j] = T[k] => j = k
  BY <1>3 DEF Separate
<1>6. \A d \in Callers :
        IF dl[d].does = "nothing" THEN dl[d].pEvent = NoEvent
        ELSE /\ dl[d].pEvent \in Addresses /\ h[dl[d].pEvent] # NoEvent
             /\ \A k \in 1 .. Len(T) : T[k] # dl[d].pEvent
  BY <1>1, <1>2, <1>3, <1>4 DEF Separate
<1>7. \A d, f \in Callers : dl[d].does # "nothing" /\ dl[f].does # "nothing"
                            /\ dl[d].pEvent = dl[f].pEvent => d = f
  BY <1>1, <1>2, <1>3 DEF Separate
<1>8. Separate(T, h, dl)
  BY <1>3, <1>4, <1>5, <1>6, <1>7 DEF Separate
<1> QED
  BY <1>8 DEF T, dl, new

LEMMA SeparateAdded ==
  ASSUME NEW A, NEW h \in Heaps, NEW cl \in [Callers -> Hand], Separate(A, h, cl),
         NEW c \in Callers, cl[c].does # "nothing"
  PROVE  Separate(Append(A, cl[c].pEvent), h, [cl EXCEPT ![c] = Idle])
<1> DEFINE a == cl[c].pEvent
           dl == [cl EXCEPT ![c] = Idle]
           T == Append(A, a)
<1>1. dl[c] = Idle /\ \A d \in Callers : d # c => dl[d] = cl[d]
  OBVIOUS
<1>2. Idle.does = "nothing" /\ Idle.pEvent = NoEvent
  BY DEF Idle
<1>3. a \in Addresses /\ h[a] # NoEvent /\ (\A k \in 1 .. Len(A) : A[k] # a)
      /\ \A d \in Callers : d # c /\ cl[d].does # "nothing" => cl[d].pEvent # a
  BY DEF Separate
<1>4. /\ T \in Seq(Addresses) /\ Len(T) = Len(A) + 1 /\ Len(A) \in Nat
      /\ \A k \in 1 .. Len(A) : T[k] = A[k]
      /\ T[Len(A) + 1] = a
  BY <1>3, AppendFacts DEF Separate
<1> HIDE DEF a, dl, T
<1>5. \A k \in 1 .. Len(T) : \/ k \in 1 .. Len(A) /\ T[k] = A[k]
                             \/ k = Len(A) + 1 /\ T[k] = a
  BY <1>4
<1>6. \A k \in 1 .. Len(T) : h[T[k]] # NoEvent
  BY <1>3, <1>5 DEF Separate
<1>7. \A j, k \in 1 .. Len(T) : T[j] = T[k] => j = k
  BY <1>3, <1>5 DEF Separate
<1>8. \A d \in Callers :
        IF dl[d].does = "nothing" THEN dl[d].pEvent = NoEvent
        ELSE /\ dl[d].pEvent \in Addresses /\ h[dl[d].pEvent] # NoEvent
             /\ \A k \in 1 .. Len(T) : T[k] # dl[d].pEvent
  BY <1>1, <1>2, <1>3, <1>5 DEF Separate
<1>9. \A d, f \in Callers : dl[d].does # "nothing" /\ dl[f].does # "nothing"
                            /\ dl[d].pEvent = dl[f].pEvent => d = f
  BY <1>1, <1>2 DEF Separate
<1>10. Separate(T, h, dl)
  BY <1>4, <1>6, <1>7, <1>8, <1>9 DEF Separate
<1> QED
  BY <1>10 DEF T, dl, a

\* The oldest event goes for the one that is entered.
LEMMA SeparateReplaced ==
  ASSUME NEW A, NEW h \in Heaps, NEW cl \in [Callers -> Hand], Separate(A, h, cl),
         NEW c \in Callers, cl[c].does # "nothing", A # <<>>
  PROVE  Separate(Append(Tail(A), cl[c].pEvent), h,
                  [cl EXCEPT ![c] = [does |-> "deletes", pEvent |-> Head(A)]])
<1> DEFINE a == cl[c].pEvent
           B == Append(A, a)
           idle == [cl EXCEPT ![c] = Idle]
           r == [does |-> "deletes", pEvent |-> Head(A)]
<1>1. Separate(B, h, idle)
  BY SeparateAdded
<1>2. A \in Seq(Addresses) /\ a \in Addresses
  BY DEF Separate
<1>3. idle \in [Callers -> Hand] /\ idle[c].does = "nothing"
  BY DEF Hand, Idle
<1>4. B # <<>> /\ Head(B) = Head(A) /\ Tail(B) = Append(Tail(A), a)
  <2> HIDE DEF a
  <2> QED
    BY <1>2, HeadTailAppend
<1>5. Separate(Tail(B), h, [idle EXCEPT ![c] = [does |-> "deletes", pEvent |-> Head(B)]])
  BY <1>1, <1>3, <1>4, SeparateTaken
<1>6. [idle EXCEPT ![c] = r] = [cl EXCEPT ![c] = r]
  OBVIOUS
<1> QED
  BY <1>4, <1>5, <1>6

-----------------------------------------------------------------------------
(* The logger's ring of characters                                          *)

TextRing == [at : [TextPlaces -> Chars \cup {"none"}],
             inPtr : TextPlaces, outPtr : TextPlaces]

LEMMA RoomLeft ==
  ASSUME NEW M \in Nat \ {0}, NEW o \in 0 .. M - 1, NEW i \in 0 .. M - 1
  PROVE  (o - i - 1) % M = M - 1 - Distance(M, o, i)
BY DEF Distance

LEMMA TextIsContent ==
  ASSUME NEW b \in TextRing
  PROVE  /\ InText(b) = Content(LOGGER_BUFSIZE, b.at, b.outPtr, b.inPtr)
         /\ InText(b) \in Seq(Chars \cup {"none"})
         /\ Len(InText(b)) = Distance(LOGGER_BUFSIZE, b.outPtr, b.inPtr)
         /\ Len(InText(b)) \in 0 .. LOGGER_BUFSIZE - 1
<1> DEFINE d == Distance(LOGGER_BUFSIZE, b.outPtr, b.inPtr)
<1>1. /\ b.inPtr \in 0 .. LOGGER_BUFSIZE - 1 /\ b.outPtr \in 0 .. LOGGER_BUFSIZE - 1
      /\ b.at \in [0 .. LOGGER_BUFSIZE - 1 -> Chars \cup {"none"}]
      /\ LOGGER_BUFSIZE \in Nat \ {0}
  BY PlacesOfText DEF TextRing
<1>2. (b.inPtr - b.outPtr) % LOGGER_BUFSIZE = d
  BY <1>1, WrapsOnce
<1>3. d \in 0 .. LOGGER_BUFSIZE - 1
  BY <1>1, DistanceType
<1>4. ASSUME NEW k \in 1 .. d
      PROVE  (b.outPtr + k - 1) % LOGGER_BUFSIZE = Forward(LOGGER_BUFSIZE, b.outPtr, k - 1)
  <2>1. b.outPtr + (k - 1) = b.outPtr + k - 1
    BY <1>1, <1>3
  <2> QED
    BY <2>1 DEF Forward
<1>5. InText(b) = Content(LOGGER_BUFSIZE, b.at, b.outPtr, b.inPtr)
  <2> HIDE DEF d
  <2>1. InText(b) = [k \in 1 .. d |-> b.at[Forward(LOGGER_BUFSIZE, b.outPtr, k - 1)]]
    BY <1>2, <1>4 DEF InText
  <2> QED
    BY <2>1 DEF d, Content
<1>6. /\ Content(LOGGER_BUFSIZE, b.at, b.outPtr, b.inPtr) \in Seq(Chars \cup {"none"})
      /\ Len(Content(LOGGER_BUFSIZE, b.at, b.outPtr, b.inPtr)) = d
  <2> DEFINE at == b.at
             o == b.outPtr
             i == b.inPtr
             S == Chars \cup {"none"}
  <2>1. LOGGER_BUFSIZE \in Nat \ {0} /\ at \in [0 .. LOGGER_BUFSIZE - 1 -> S]
        /\ o \in 0 .. LOGGER_BUFSIZE - 1 /\ i \in 0 .. LOGGER_BUFSIZE - 1
    BY <1>1
  <2> HIDE DEF at, o, i, S
  <2>2. Content(LOGGER_BUFSIZE, at, o, i) \in Seq(S)
        /\ Len(Content(LOGGER_BUFSIZE, at, o, i)) = Distance(LOGGER_BUFSIZE, o, i)
    BY ONLY <2>1, ContentType
  <2> QED
    BY <2>2 DEF at, o, i, S
<1> QED
  BY <1>3, <1>5, <1>6

\* What has room of s is appended to the text.
LEMMA TextWritten ==
  ASSUME NEW b \in TextRing, NEW s \in Seq(Chars), InText(b) \in Seq(Chars)
  PROVE  LET all == InText(b) \o s
             T == LOGGER_BUFSIZE - 1
         IN  /\ Written(b, s) \in TextRing
             /\ InText(Written(b, s)) \in Seq(Chars)
             /\ InText(Written(b, s)) = SubSeq(all, 1, IF Len(all) < T THEN Len(all) ELSE T)
<1> DEFINE M == LOGGER_BUFSIZE
           o == b.outPtr
           i == b.inPtr
           u == Distance(M, o, i)
           n == IF Len(s) < TextRoom(b) THEN Len(s) ELSE TextRoom(b)
           at2 == Written(b, s).at
           chunk == SubSeq(s, 1, n)
           S == Chars \cup {"none"}
<1>1. /\ o \in 0 .. M - 1 /\ i \in 0 .. M - 1 /\ b.at \in [0 .. M - 1 -> S]
      /\ M \in Nat \ {0} /\ TextPlaces = 0 .. M - 1
  BY PlacesOfText DEF TextRing
<1>2. u \in 0 .. M - 1 /\ Len(InText(b)) = u
  BY TextIsContent, <1>1, DistanceType
<1>3. TextRoom(b) = M - 1 - u
  <2>1. (o - i - 1) % M = M - 1 - Distance(M, o, i)
    BY <1>1, RoomLeft
  <2> QED
    BY <2>1 DEF TextRoom
<1>4. Len(s) \in Nat /\ n \in Nat /\ n <= Len(s) /\ n <= M - 1 - u
  BY <1>1, <1>2, <1>3
<1>5. chunk \in Seq(Chars) /\ chunk \in Seq(S) /\ Len(chunk) = n
      /\ \A k \in 1 .. n : chunk[k] = s[k]
  <2> HIDE DEF n
  <2>1. \A k \in 1 .. n : s[k] \in Chars
    BY <1>4
  <2>2. SubSeq(s, 1, n) \in Seq(Chars) /\ Len(SubSeq(s, 1, n)) = (IF 1 <= n THEN n - 1 + 1 ELSE 0)
        /\ \A k \in 1 .. n - 1 + 1 : SubSeq(s, 1, n)[k] = s[1 + k - 1]
    BY <1>4, <2>1, SubSeqProperties
  <2> QED
    BY <1>4, <2>2
<1>6. /\ Written(b, s) = [at |-> at2, inPtr |-> Forward(M, i, n), outPtr |-> o]
      /\ at2 = [p \in 0 .. M - 1 |-> IF Distance(M, i, p) < Len(s) /\ Distance(M, i, p) <= M - 1 - u
                                     THEN s[Distance(M, i, p) + 1] ELSE b.at[p]]
  <2> DEFINE f == [p \in TextPlaces |-> IF ((p - i) % M) < Len(s) /\ ((p - i) % M) <= TextRoom(b)
                                        THEN s[((p - i) % M) + 1] ELSE b.at[p]]
             j == (i + n) % M
  <2>1. Written(b, s) = [b EXCEPT !.at = f, !.inPtr = j]
    BY DEF Written
  <2>2. b = [at |-> b.at, inPtr |-> i, outPtr |-> o]
    BY DEF TextRing
  <2>3. \A p \in 0 .. M - 1 : (p - i) % M = Distance(M, i, p)
    BY <1>1, WrapsOnce
  <2>4. f = [p \in 0 .. M - 1 |-> IF Distance(M, i, p) < Len(s) /\ Distance(M, i, p) <= M - 1 - u
                                  THEN s[Distance(M, i, p) + 1] ELSE b.at[p]]
    <3> HIDE DEF u, n
    <3> QED
      BY <1>1, <1>3, <2>3
  <2>5. j = Forward(M, i, n)
    BY DEF Forward
  <2> HIDE DEF f, j
  <2>6. Written(b, s) = [at |-> f, inPtr |-> j, outPtr |-> o]
    BY ONLY <2>1, <2>2
  <2> QED
    BY <2>4, <2>5, <2>6
<1>7. at2 \in [0 .. M - 1 -> S]
  <2>1. ASSUME NEW p \in 0 .. M - 1, Distance(M, i, p) < Len(s)
        PROVE  s[Distance(M, i, p) + 1] \in S
    <3>1. Distance(M, i, p) \in 0 .. M - 1
      BY <1>1, DistanceType
    <3> QED
      BY <1>1, <1>4, <2>1, <3>1
  <2> HIDE DEF at2, u, n
  <2> QED
    BY <1>1, <1>6, <2>1
<1>8. Forward(M, i, n) \in 0 .. M - 1
  <2>1. n \in 0 .. M
    <3> HIDE DEF n, u
    <3> QED
      BY <1>1, <1>2, <1>4
  <2> HIDE DEF n
  <2> QED
    BY <1>1, <2>1, ForwardType
<1>9. Adds(M, b.at, at2, o, i, chunk)
  <2>1. ASSUME NEW p \in 0 .. M - 1, Distance(M, i, p) < Len(chunk)
        PROVE  at2[p] = chunk[Distance(M, i, p) + 1]
    <3>1. Distance(M, i, p) \in 0 .. M - 1
      BY <1>1, DistanceType
    <3> HIDE DEF at2, chunk, n, u
    <3>2. Distance(M, i, p) < Len(s) /\ Distance(M, i, p) <= M - 1 - u
          /\ Distance(M, i, p) + 1 \in 1 .. n
      BY <1>1, <1>2, <1>4, <1>5, <2>1, <3>1
    <3> QED
      BY <1>5, <1>6, <3>2
  <2>2. ASSUME NEW p \in 0 .. M - 1, Distance(M, o, p) < Distance(M, o, i)
        PROVE  at2[p] = b.at[p]
    <3>1. M - u \in Nat /\ Distance(M, o, i) + (M - u) <= M
      BY <1>1, <1>2
    <3>2. ~(Distance(M, i, p) < M - u)
      <4> DEFINE c == M - u
      <4>1. c \in Nat /\ Distance(M, o, i) + c <= M
        BY <3>1
      <4> HIDE DEF c
      <4>2. ~(Distance(M, i, p) < c)
        BY <1>1, <2>2, <4>1, DistanceApart
      <4> QED
        BY <4>2 DEF c
    <3>3. Distance(M, i, p) \in 0 .. M - 1
      BY <1>1, DistanceType
    <3> HIDE DEF at2, n, u
    <3>4. ~(Distance(M, i, p) <= M - 1 - u)
      BY <1>1, <1>2, <3>2, <3>3
    <3> QED
      BY <1>6, <3>4
  <2> HIDE DEF at2, chunk, u, n
  <2> QED
    BY <2>1, <2>2 DEF Adds
<1>10. Written(b, s) \in TextRing
  <2> HIDE DEF at2, n, u
  <2> QED
    BY <1>1, <1>6, <1>7, <1>8 DEF TextRing
<1>11. InText(Written(b, s)) = InText(b) \o chunk
  <2> DEFINE b1 == b.at
  <2>1. u + Len(chunk) < M
    BY <1>1, <1>2, <1>4, <1>5
  <2>2. Content(M, at2, o, Forward(M, i, Len(chunk))) = Content(M, b1, o, i) \o chunk
    <3> HIDE DEF at2, chunk, n, b1, S
    <3>1. M \in Nat \ {0} /\ b1 \in [0 .. M - 1 -> S] /\ at2 \in [0 .. M - 1 -> S]
          /\ o \in 0 .. M - 1 /\ i \in 0 .. M - 1 /\ chunk \in Seq(S)
          /\ Distance(M, o, i) + Len(chunk) < M /\ Adds(M, b1, at2, o, i, chunk)
      BY <1>1, <1>5, <1>7, <1>9, <2>1 DEF b1
    <3> HIDE DEF o, i, M, u
    <3>2. Writes(M, S, b1, at2, o, i, chunk)
      BY <3>1 DEF Writes
    <3> QED
      BY ONLY <3>2, ContentWrite
  <2>3. InText(b) = Content(M, b1, o, i)
    BY TextIsContent
  <2>4. InText(Written(b, s)) = Content(M, at2, o, Forward(M, i, n))
    <3>1. Written(b, s).outPtr = o /\ Written(b, s).inPtr = Forward(M, i, n)
      <4> HIDE DEF at2, n
      <4> QED
        BY <1>6
    <3> QED
      BY <1>10, <3>1, TextIsContent
  <2> QED
    BY <1>5, <2>2, <2>3, <2>4
<1> DEFINE whole == InText(b) \o s
           kept == SubSeq(whole, 1, IF Len(whole) < M - 1 THEN Len(whole) ELSE M - 1)
<1>12. InText(b) \o chunk = kept
  <2> DEFINE t == InText(b)
             all == t \o s
             m == u + n
  <2>1. t \in Seq(Chars) /\ Len(t) = u
    BY <1>2
  <2> HIDE DEF t
  <2>2. all \in Seq(Chars) /\ Len(all) = u + Len(s)
    BY <2>1, ConcatProperties
  <2>3. (IF Len(all) < M - 1 THEN Len(all) ELSE M - 1) = m
    <3> HIDE DEF u, all
    <3> QED
      BY <1>1, <1>2, <1>3, <1>4, <2>2
  <2>4. \A k \in 1 .. u + Len(s) : all[k] = IF k <= u THEN t[k] ELSE s[k - u]
    BY <2>1, ConcatProperties
  <2>5. t \o chunk \in Seq(Chars) /\ Len(t \o chunk) = m
        /\ \A k \in 1 .. m : (t \o chunk)[k] = IF k <= u THEN t[k] ELSE chunk[k - u]
    <3> HIDE DEF chunk, n, u
    <3>1. t \o chunk \in Seq(Chars) /\ Len(t \o chunk) = Len(t) + Len(chunk)
          /\ \A k \in 1 .. Len(t) + Len(chunk) :
               (t \o chunk)[k] = IF k <= Len(t) THEN t[k] ELSE chunk[k - Len(t)]
      BY <1>5, <2>1, ConcatProperties
    <3> QED
      BY <1>5, <2>1, <3>1
  <2> HIDE DEF all, chunk, u, n
  <2>6. m \in Nat /\ m <= Len(all)
    BY <1>2, <1>4, <2>2
  <2>7. SubSeq(all, 1, m) \in Seq(Chars) /\ Len(SubSeq(all, 1, m)) = m
        /\ \A k \in 1 .. m : SubSeq(all, 1, m)[k] = all[k]
    <3> HIDE DEF m
    <3>1. \A k \in 1 .. m : all[k] \in Chars
      BY <2>2, <2>6, <1>2, <1>4
    <3>2. SubSeq(all, 1, m) \in Seq(Chars)
          /\ Len(SubSeq(all, 1, m)) = (IF 1 <= m THEN m - 1 + 1 ELSE 0)
          /\ \A k \in 1 .. m - 1 + 1 : SubSeq(all, 1, m)[k] = all[1 + k - 1]
      BY <2>6, <3>1, SubSeqProperties
    <3> QED
      BY <2>6, <3>2
  <2>8. ASSUME NEW k \in 1 .. m
        PROVE  (t \o chunk)[k] = SubSeq(all, 1, m)[k]
    <3>1. k \in 1 .. u + Len(s) /\ (~(k <= u) => k - u \in 1 .. n)
      BY <1>2, <1>4
    <3> QED
      BY <2>4, <2>5, <2>7, <1>5, <3>1
  <2>9. t \o chunk = SubSeq(all, 1, m)
    <3> DEFINE x == t \o chunk
               y == SubSeq(all, 1, m)
    <3>1. /\ x \in Seq(Chars) /\ y \in Seq(Chars) /\ Len(x) = Len(y)
          /\ \A k \in 1 .. Len(x) : x[k] = y[k]
      BY <2>5, <2>7, <2>8
    <3> HIDE DEF x, y
    <3>2. x = y
      BY <3>1, SeqEqual
    <3> QED
      BY <3>2 DEF x, y
  <2>10. (IF Len(all) < M - 1 THEN Len(all) ELSE M - 1) = u + n
    BY <2>3
  <2> QED
    BY <2>9, <2>10 DEF t, all
<1>13. InText(b) \o chunk \in Seq(Chars)
  <2> HIDE DEF chunk
  <2> QED
    BY <1>5, ConcatProperties
<1>14. InText(Written(b, s)) = kept /\ InText(Written(b, s)) \in Seq(Chars)
  <2> HIDE DEF kept, chunk
  <2> QED
    BY <1>11, <1>12, <1>13
<1>15. kept = SubSeq(whole, 1, IF Len(whole) < LOGGER_BUFSIZE - 1 THEN Len(whole)
                               ELSE LOGGER_BUFSIZE - 1)
  OBVIOUS
<1> HIDE DEF kept
<1> QED
  BY <1>10, <1>14, <1>15, Zenon

\* Reading takes the oldest characters.
LEMMA TextRead ==
  ASSUME NEW b \in TextRing, NEW n \in 0 .. Len(InText(b))
  PROVE  LET c == [b EXCEPT !.outPtr = (@ + n) % LOGGER_BUFSIZE]
         IN  /\ c \in TextRing
             /\ InText(c) = SubSeq(InText(b), n + 1, Len(InText(b)))
<1> DEFINE M == LOGGER_BUFSIZE
           o == b.outPtr
           i == b.inPtr
           c == [b EXCEPT !.outPtr = (@ + n) % LOGGER_BUFSIZE]
           S == Chars \cup {"none"}
<1>1. /\ o \in 0 .. M - 1 /\ i \in 0 .. M - 1 /\ b.at \in [0 .. M - 1 -> S]
      /\ M \in Nat \ {0} /\ TextPlaces = 0 .. M - 1
  BY PlacesOfText DEF TextRing
<1>2. /\ InText(b) = Content(M, b.at, o, i) /\ Len(InText(b)) = Distance(M, o, i)
      /\ Len(InText(b)) \in 0 .. M - 1 /\ n \in 0 .. M /\ n \in 0 .. Distance(M, o, i)
  <2>1. /\ InText(b) = Content(M, b.at, o, i) /\ Len(InText(b)) = Distance(M, o, i)
        /\ Len(InText(b)) \in 0 .. M - 1
    BY TextIsContent
  <2>2. n \in 0 .. M /\ n \in 0 .. Distance(M, o, i)
    <3> DEFINE l == Len(InText(b))
    <3>1. n \in 0 .. l /\ l \in 0 .. M - 1 /\ l = Distance(M, o, i)
      BY <2>1
    <3> HIDE DEF l
    <3> QED
      BY <1>1, <3>1
  <2> QED
    BY <2>1, <2>2
<1>3. Forward(M, o, n) \in 0 .. M - 1
  BY <1>1, <1>2, ForwardType
<1>4. c = [at |-> b.at, inPtr |-> i, outPtr |-> Forward(M, o, n)]
  <2>1. b = [at |-> b.at, inPtr |-> i, outPtr |-> o]
    BY DEF TextRing
  <2>2. c = [b EXCEPT !.outPtr = Forward(M, o, n)]
    BY DEF Forward
  <2> QED
    BY <2>1, <2>2
<1> HIDE DEF c
<1>5. c \in TextRing /\ c.at = b.at /\ c.inPtr = i /\ c.outPtr = Forward(M, o, n)
  BY <1>1, <1>3, <1>4 DEF TextRing
<1>6. InText(c) = Content(M, b.at, Forward(M, o, n), i)
  BY <1>5, TextIsContent
<1>7. Content(M, b.at, Forward(M, o, n), i)
        = SubSeq(Content(M, b.at, o, i), n + 1, Len(Content(M, b.at, o, i)))
  <2> DEFINE at == b.at
  <2>1. at \in [0 .. M - 1 -> S] /\ M \in Nat \ {0} /\ o \in 0 .. M - 1 /\ i \in 0 .. M - 1
        /\ n \in 0 .. Distance(M, o, i)
    BY <1>1, <1>2
  <2> HIDE DEF at, M, o, i, S
  <2>2. Content(M, at, Forward(M, o, n), i)
          = SubSeq(Content(M, at, o, i), n + 1, Len(Content(M, at, o, i)))
    BY ONLY <2>1, ContentAdvance
  <2> QED
    BY <2>2 DEF at
<1> QED
  BY <1>2, <1>5, <1>6, <1>7 DEF c

-----------------------------------------------------------------------------
(* The invariant                                                            *)

\* The mapped state: the events at the queued addresses, and those being copied.
At(h, A) == [k \in 1 .. Len(A) |-> h[A[k]]]
Copied(h, cl) == [c \in Callers |-> IF cl[c].does = "copies" THEN h[cl[c].pEvent] ELSE NoEvent]

LoggerInv ==
  /\ LoggerTypeOK
  /\ Separate(AddressesIn(m_pEventQueue), heap, caller)
  /\ InText(textRing) \in Seq(Chars)

\* EventsIn, whatever the heap
LEMMA MappedEvents ==
  ASSUME NEW h, NEW q \in EventRing
  PROVE  [k \in 1 .. (q.inPtr - q.outPtr) % LOG_QUEUE_SIZE |->
           h[q.at[(q.outPtr + k - 1) % LOG_QUEUE_SIZE]]] = At(h, AddressesIn(q))
<1> DEFINE A == AddressesIn(q)
           d == Distance(LOG_QUEUE_SIZE, q.outPtr, q.inPtr)
<1>1. q.inPtr \in 0 .. LOG_QUEUE_SIZE - 1 /\ q.outPtr \in 0 .. LOG_QUEUE_SIZE - 1
  BY PlacesOfEvents DEF EventRing
<1>2. (q.inPtr - q.outPtr) % LOG_QUEUE_SIZE = d
  BY <1>1, PlacesOfEvents, WrapsOnce
<1>3. Len(A) = d /\ d \in Nat
  BY AddressesType
<1>4. ASSUME NEW k \in 1 .. d
      PROVE  A[k] = q.at[(q.outPtr + k - 1) % LOG_QUEUE_SIZE]
  <2>1. q.outPtr + (k - 1) = q.outPtr + k - 1
    BY <1>1, <1>3
  <2>2. A[k] = q.at[Forward(LOG_QUEUE_SIZE, q.outPtr, k - 1)]
    BY DEF AddressesIn, Content
  <2> QED
    BY <2>1, <2>2 DEF Forward
<1> HIDE DEF A, d
<1>5. At(h, A) = [k \in 1 .. d |-> h[A[k]]]
  BY <1>3 DEF At
<1>6. [k \in 1 .. d |-> h[q.at[(q.outPtr + k - 1) % LOG_QUEUE_SIZE]]] = At(h, A)
  BY <1>4, <1>5
<1> QED
  BY <1>2, <1>6 DEF A

LEMMA EventsMapped ==
  ASSUME LoggerTypeOK
  PROVE  /\ m_pEventQueue \in EventRing /\ textRing \in TextRing /\ heap \in Heaps
         /\ caller \in [Callers -> Hand] /\ returned \in Seq(Events \cup Chars)
         /\ EventsIn(m_pEventQueue) = At(heap, AddressesIn(m_pEventQueue))
<1>1. /\ m_pEventQueue \in EventRing /\ textRing \in TextRing /\ heap \in Heaps
      /\ caller \in [Callers -> Hand] /\ returned \in Seq(Events \cup Chars)
  BY DEF LoggerTypeOK, EventRing, TextRing, Heaps, Hand
<1>2. EventsIn(m_pEventQueue) = At(heap, AddressesIn(m_pEventQueue))
  BY <1>1, MappedEvents DEF EventsIn
<1> QED
  BY <1>1, <1>2

\* The same of the next state, as far as the ring of events goes.
LEMMA EventsMappedNext ==
  ASSUME LoggerTypeOK'
  PROVE  EventsIn(m_pEventQueue)' = At(heap', AddressesIn(m_pEventQueue'))
<1>1. m_pEventQueue' \in EventRing
  BY DEF LoggerTypeOK, EventRing, EventPlaces
<1>2. PICK h, q : h = heap' /\ q = m_pEventQueue'
  OBVIOUS
<1>3. [k \in 1 .. (q.inPtr - q.outPtr) % LOG_QUEUE_SIZE |->
           h[q.at[(q.outPtr + k - 1) % LOG_QUEUE_SIZE]]] = At(h, AddressesIn(q))
  BY <1>1, <1>2, MappedEvents
<1> QED
  BY <1>2, <1>3 DEF EventsIn

LEMMA AtTail ==
  ASSUME NEW h \in Heaps, NEW A \in Seq(Addresses), A # <<>>
  PROVE  At(h, A) # <<>> /\ Head(At(h, A)) = h[Head(A)] /\ At(h, Tail(A)) = Tail(At(h, A))
         /\ Len(At(h, A)) = Len(A)
<1> DEFINE S == Events \cup {NoEvent}
           E == At(h, A)
           T == Tail(A)
<1>1. Len(A) \in Nat /\ Len(A) > 0 /\ Len(T) = Len(A) - 1 /\ T \in Seq(Addresses)
      /\ (\A k \in 1 .. Len(A) - 1 : T[k] = A[k + 1]) /\ Head(A) = A[1]
  BY TailFacts
<1>2. E \in Seq(S) /\ Len(E) = Len(A) /\ \A k \in 1 .. Len(A) : E[k] = h[A[k]]
  <2>1. E \in [1 .. Len(A) -> S]
    BY <1>1 DEF At, Heaps
  <2> QED
    BY <1>1, <2>1 DEF At
<1> HIDE DEF E, T
<1>3. E # <<>> /\ Head(E) = E[1] /\ E[1] = h[A[1]]
  BY <1>1, <1>2
<1>4. Tail(E) \in Seq(S) /\ Len(Tail(E)) = Len(A) - 1
      /\ \A k \in 1 .. Len(A) - 1 : Tail(E)[k] = E[k + 1]
  BY <1>1, <1>2, <1>3, TailFacts
<1>5. At(h, T) = [k \in 1 .. Len(A) - 1 |-> h[A[k + 1]]]
  BY <1>1 DEF At
<1>6. Tail(E) = [k \in 1 .. Len(A) - 1 |-> h[A[k + 1]]]
  <2>1. Tail(E) = [k \in 1 .. Len(A) - 1 |-> Tail(E)[k]]
    <3> DEFINE X == Tail(E)
    <3>1. X \in Seq(S) /\ Len(X) = Len(A) - 1
      BY <1>4
    <3> HIDE DEF X
    <3>2. X \in [1 .. Len(X) -> S]
      BY <3>1, LenProperties
    <3>3. X = [k \in 1 .. Len(A) - 1 |-> X[k]]
      BY <3>1, <3>2
    <3> QED
      BY <3>3 DEF X
  <2>2. \A k \in 1 .. Len(A) - 1 : Tail(E)[k] = h[A[k + 1]]
    BY <1>1, <1>2, <1>4
  <2> QED
    BY <2>1, <2>2
<1> QED
  BY <1>1, <1>2, <1>3, <1>5, <1>6 DEF E, T

LEMMA AtAppend ==
  ASSUME NEW h \in Heaps, NEW A \in Seq(Addresses), NEW a \in Addresses
  PROVE  At(h, Append(A, a)) = Append(At(h, A), h[a]) /\ Len(At(h, A)) = Len(A)
<1> DEFINE S == Events \cup {NoEvent}
           E == At(h, A)
           T == Append(A, a)
           e == h[a]
<1>1. Len(A) \in Nat /\ Len(T) = Len(A) + 1 /\ T \in Seq(Addresses)
      /\ (\A k \in 1 .. Len(A) : T[k] = A[k]) /\ T[Len(A) + 1] = a
  BY AppendFacts
<1>2. E \in Seq(S) /\ Len(E) = Len(A) /\ \A k \in 1 .. Len(A) : E[k] = h[A[k]]
  <2>1. E \in [1 .. Len(A) -> S]
    BY <1>1 DEF At, Heaps
  <2> QED
    BY <1>1, <2>1 DEF At
<1>3. e \in S
  BY DEF Heaps
<1> HIDE DEF E, T, e, S
<1>4. Append(E, e) \in Seq(S) /\ Len(Append(E, e)) = Len(A) + 1
      /\ (\A k \in 1 .. Len(A) : Append(E, e)[k] = E[k]) /\ Append(E, e)[Len(A) + 1] = e
  BY <1>2, <1>3, AppendFacts
<1>5. At(h, T) = [k \in 1 .. Len(A) + 1 |-> h[T[k]]]
  BY <1>1 DEF At
<1>6. \A k \in 1 .. Len(A) + 1 : Append(E, e)[k] = h[T[k]]
  <2> SUFFICES ASSUME NEW k \in 1 .. Len(A) + 1 PROVE Append(E, e)[k] = h[T[k]]
    OBVIOUS
  <2>1. CASE k \in 1 .. Len(A)
    BY <1>1, <1>2, <1>4, <2>1
  <2>2. CASE k = Len(A) + 1
    BY <1>1, <1>4, <2>2 DEF e
  <2>3. k \in 1 .. Len(A) \/ k = Len(A) + 1
    BY <1>1
  <2> QED
    BY <2>1, <2>2, <2>3
<1>7. Append(E, e) = [k \in 1 .. Len(A) + 1 |-> Append(E, e)[k]]
  <2> DEFINE X == Append(E, e)
  <2>1. X \in Seq(S) /\ Len(X) = Len(A) + 1
    BY <1>4
  <2> HIDE DEF X
  <2>2. X \in [1 .. Len(X) -> S]
    BY <2>1, LenProperties
  <2>3. X = [k \in 1 .. Len(A) + 1 |-> X[k]]
    BY <2>1, <2>2
  <2> QED
    BY <2>3 DEF X
<1>8. Append(E, e) = At(h, T)
  BY <1>5, <1>6, <1>7
<1> QED
  BY <1>2, <1>8 DEF E, T, e

LEMMA LoggerInvInit == LoggerInit => LoggerInv
<1> SUFFICES ASSUME LoggerInit PROVE LoggerInv
  OBVIOUS
<1>1. LoggerTypeOK
  <2>1. 0 \in EventPlaces /\ 0 \in TextPlaces
    BY PlacesOfEvents, PlacesOfText
  <2>2. heap \in [Addresses -> Events \cup {NoEvent}]
    BY DEF LoggerInit
  <2>3. m_pEventQueue \in [at : [EventPlaces -> Addresses \cup {NoEvent}],
                           inPtr : EventPlaces, outPtr : EventPlaces]
    BY <2>1 DEF LoggerInit
  <2>4. caller \in [Callers -> [does : {"nothing", "enters", "deletes", "copies"},
                                pEvent : Addresses \cup {NoEvent}]]
    BY DEF LoggerInit, Idle
  <2>5. textRing \in [at : [TextPlaces -> Chars \cup {"none"}],
                      inPtr : TextPlaces, outPtr : TextPlaces]
    BY <2>1 DEF LoggerInit
  <2>6. returned \in Seq(Events \cup Chars)
    BY DEF LoggerInit
  <2> QED
    BY <2>2, <2>3, <2>4, <2>5, <2>6 DEF LoggerTypeOK
<1>2. AddressesIn(m_pEventQueue) = <<>>
  <2>1. m_pEventQueue.inPtr = 0 /\ m_pEventQueue.outPtr = 0
    BY DEF LoggerInit
  <2>2. Distance(LOG_QUEUE_SIZE, 0, 0) = 0
    BY PlacesOfEvents DEF Distance
  <2>3. Len(AddressesIn(m_pEventQueue)) = 0
        /\ AddressesIn(m_pEventQueue) \in Seq(Addresses \cup {NoEvent})
    BY <1>1, <2>1, <2>2, EventsMapped, AddressesType
  <2> QED
    BY <2>3
<1>3. Separate(<<>>, heap, caller)
  <2>1. \A c \in Callers : caller[c] = Idle
    BY DEF LoggerInit
  <2>2. Idle.does = "nothing" /\ Idle.pEvent = NoEvent
    BY DEF Idle
  <2>3. <<>> \in Seq(Addresses) /\ Len(<<>>) = 0
    OBVIOUS
  <2> QED
    BY <2>1, <2>2, <2>3 DEF Separate
<1>4. InText(textRing) \in Seq(Chars)
  <2>1. textRing.inPtr = 0 /\ textRing.outPtr = 0
    BY DEF LoggerInit
  <2>2. Distance(LOGGER_BUFSIZE, 0, 0) = 0
    BY PlacesOfText DEF Distance
  <2>3. Len(InText(textRing)) = 0 /\ InText(textRing) \in Seq(Chars \cup {"none"})
    BY <1>1, <2>1, <2>2, EventsMapped, TextIsContent
  <2> QED
    BY <2>3
<1> QED
  BY <1>1, <1>2, <1>3, <1>4 DEF LoggerInv

LEMMA LogInitMapped == LoggerInit => Log!LogInit
<1> SUFFICES ASSUME LoggerInit PROVE Log!LogInit
  OBVIOUS
<1>1. LoggerInv
  BY LoggerInvInit
<1>2. m_pEventQueue.inPtr = 0 /\ m_pEventQueue.outPtr = 0
      /\ textRing.inPtr = 0 /\ textRing.outPtr = 0
  BY DEF LoggerInit
<1>3. (0 - 0) % LOG_QUEUE_SIZE = 0 /\ (0 - 0) % LOGGER_BUFSIZE = 0
  <2>1. Distance(LOG_QUEUE_SIZE, 0, 0) = 0 /\ Distance(LOGGER_BUFSIZE, 0, 0) = 0
    BY PlacesOfEvents, PlacesOfText DEF Distance
  <2> QED
    BY <2>1, PlacesOfEvents, PlacesOfText, WrapsOnce
<1>4. EventsIn(m_pEventQueue) = <<>> /\ InText(textRing) = <<>>
  BY <1>2, <1>3 DEF EventsIn, InText
<1>5. [c \in Callers |-> IF caller[c].does = "copies" THEN heap[caller[c].pEvent] ELSE NoEvent]
        = [c \in Callers |-> NoEvent]
  BY DEF LoggerInit, Idle
<1> QED
  BY <1>4, <1>5 DEF Log!LogInit, LoggerInit

-----------------------------------------------------------------------------
(* One step per action: it keeps the invariant, and is a step of LogQueue.  *)

\* An address that is neither queued nor being copied says nothing to the mapped state.
LEMMA AtElsewhere ==
  ASSUME NEW h \in Heaps, NEW A \in Seq(Addresses), NEW a \in Addresses, NEW e,
         \A k \in 1 .. Len(A) : A[k] # a
  PROVE  At([h EXCEPT ![a] = e], A) = At(h, A)
<1> DEFINE g == [h EXCEPT ![a] = e]
<1>1. \A b \in Addresses : b # a => g[b] = h[b]
  BY DEF Heaps
<1>2. \A k \in 1 .. Len(A) : A[k] \in Addresses /\ A[k] # a
  OBVIOUS
<1> HIDE DEF g
<1>3. \A k \in 1 .. Len(A) : g[A[k]] = h[A[k]]
  BY <1>1, <1>2
<1> QED
  BY <1>3 DEF At, g

\* The caller c goes on to something else, and copies neither before nor after.
OthersCopy(h, g, cl, dl, c) ==
  /\ cl[c].does # "copies" /\ dl[c].does # "copies"
  /\ \A d \in Callers : d # c => dl[d] = cl[d]
  /\ \A d \in Callers : d # c /\ cl[d].does = "copies" => g[cl[d].pEvent] = h[cl[d].pEvent]

LEMMA CopiedKept ==
  ASSUME NEW h, NEW g, NEW cl, NEW dl, NEW c, OthersCopy(h, g, cl, dl, c)
  PROVE  Copied(g, dl) = Copied(h, cl)
<1>1. ASSUME NEW d \in Callers
      PROVE  (IF dl[d].does = "copies" THEN g[dl[d].pEvent] ELSE NoEvent)
               = (IF cl[d].does = "copies" THEN h[cl[d].pEvent] ELSE NoEvent)
  BY DEF OthersCopy
<1> QED
  BY <1>1 DEF Copied

LEMMA StepKeepsInv ==
  ASSUME LoggerInv, UNCHANGED textRing,
         heap' \in Heaps, m_pEventQueue' \in EventRing, caller' \in [Callers -> Hand],
         returned' \in Seq(Events \cup Chars),
         Separate(AddressesIn(m_pEventQueue'), heap', caller')
  PROVE  LoggerInv'
<1>1. LoggerTypeOK'
  <2>1. textRing' \in TextRing
    BY EventsMapped DEF LoggerInv
  <2> QED
    BY <2>1 DEF LoggerTypeOK, Heaps, EventRing, Hand, TextRing, EventPlaces, TextPlaces
<1>2. (InText(textRing) \in Seq(Chars))'
  BY DEF LoggerInv, InText
<1>3. Separate(AddressesIn(m_pEventQueue), heap, caller)'
  BY DEF Separate, AddressesIn, Content, Distance, Forward
<1> QED
  BY <1>1, <1>2, <1>3 DEF LoggerInv

LEMMA TextStepKeepsInv ==
  ASSUME LoggerInv, UNCHANGED <<heap, m_pEventQueue, caller>>,
         textRing' \in TextRing, InText(textRing') \in Seq(Chars),
         returned' \in Seq(Events \cup Chars) \/ UNCHANGED returned
  PROVE  LoggerInv'
<1>1. LoggerTypeOK'
  BY DEF LoggerInv, LoggerTypeOK, TextRing, EventPlaces, TextPlaces
<1>2. (InText(textRing) \in Seq(Chars))'
  BY DEF InText
<1>3. Separate(AddressesIn(m_pEventQueue), heap, caller)'
  <2>1. Separate(AddressesIn(m_pEventQueue'), heap', caller')
    BY DEF LoggerInv
  <2> QED
    BY <2>1 DEF Separate, AddressesIn, Content, Distance, Forward
<1> QED
  BY <1>1, <1>2, <1>3 DEF LoggerInv

\* What the mapped state is, before and after.
LEMMA Mapped ==
  ASSUME LoggerInv, LoggerInv', UNCHANGED textRing
  PROVE  /\ EventsIn(m_pEventQueue) = At(heap, AddressesIn(m_pEventQueue))
         /\ EventsIn(m_pEventQueue)' = At(heap', AddressesIn(m_pEventQueue'))
         /\ InText(textRing)' = InText(textRing)
<1>1. LoggerTypeOK /\ LoggerTypeOK'
  BY DEF LoggerInv
<1>2. InText(textRing)' = InText(textRing)
  BY DEF InText
<1> QED
  BY <1>1, <1>2, EventsMapped, EventsMappedNext

LEMMA NewEventStep ==
  ASSUME LoggerInv, NEW c \in Callers, NewEvent(c)
  PROVE  LoggerInv' /\ UNCHANGED Log!logVars
<1> DEFINE A == AddressesIn(m_pEventQueue)
<1>1. PICK a \in Addresses, e \in Events :
        /\ heap[a] = NoEvent /\ caller[c] = Idle
        /\ heap' = [heap EXCEPT ![a] = e]
        /\ caller' = [caller EXCEPT ![c] = [does |-> "enters", pEvent |-> a]]
        /\ UNCHANGED <<m_pEventQueue, textRing, returned>>
  BY DEF NewEvent
<1>2. /\ m_pEventQueue \in EventRing /\ heap \in Heaps /\ caller \in [Callers -> Hand]
      /\ returned \in Seq(Events \cup Chars) /\ Separate(A, heap, caller)
  BY EventsMapped DEF LoggerInv
<1>3. Separate(A, heap', caller')
  BY <1>1, <1>2, SeparateNew
<1>4. heap' \in Heaps /\ caller' \in [Callers -> Hand]
  BY <1>1, <1>2 DEF Heaps, Hand
<1>5. LoggerInv'
  BY <1>1, <1>2, <1>3, <1>4, StepKeepsInv
<1>6. A \in Seq(Addresses) /\ \A k \in 1 .. Len(A) : A[k] # a
  BY <1>1, <1>2 DEF Separate
<1>7. At(heap', A) = At(heap, A)
  <2> HIDE DEF A
  <2> QED
    BY <1>1, <1>2, <1>6, AtElsewhere
<1>8. Copied(heap', caller') = Copied(heap, caller)
  <2>2. ASSUME NEW d \in Callers, caller[d].does = "copies"
        PROVE  heap'[caller[d].pEvent] = heap[caller[d].pEvent]
    BY <1>1, <1>2, <2>2 DEF Separate, Heaps
  <2>3. caller[c].does # "copies"
    BY <1>1 DEF Idle
  <2>4. caller'[c].does # "copies" /\ \A d \in Callers : d # c => caller'[d] = caller[d]
    BY <1>1, <1>2
  <2>5. OthersCopy(heap, heap', caller, caller', c)
    BY <2>2, <2>3, <2>4 DEF OthersCopy
  <2> QED
    BY <2>5, CopiedKept
<1>9. EventsIn(m_pEventQueue)' = EventsIn(m_pEventQueue) /\ InText(textRing)' = InText(textRing)
  BY <1>1, <1>5, <1>7, Mapped
<1> QED
  BY <1>1, <1>5, <1>8, <1>9 DEF Copied, Log!logVars

LEMMA DeleteDroppedStep ==
  ASSUME LoggerInv, NEW c \in Callers, DeleteDropped(c)
  PROVE  LoggerInv' /\ UNCHANGED Log!logVars
<1> DEFINE A == AddressesIn(m_pEventQueue)
           a == caller[c].pEvent
<1>1. /\ caller[c].does = "deletes"
      /\ heap' = [heap EXCEPT ![a] = NoEvent]
      /\ caller' = [caller EXCEPT ![c] = Idle]
      /\ UNCHANGED <<m_pEventQueue, textRing, returned>>
  BY DEF DeleteDropped
<1>2. /\ m_pEventQueue \in EventRing /\ heap \in Heaps /\ caller \in [Callers -> Hand]
      /\ returned \in Seq(Events \cup Chars) /\ Separate(A, heap, caller)
  BY EventsMapped DEF LoggerInv
<1>3. Separate(A, heap', caller')
  BY <1>1, <1>2, SeparateFreed
<1>4. heap' \in Heaps /\ caller' \in [Callers -> Hand]
  BY <1>1, <1>2 DEF Heaps, Hand, Idle
<1>5. LoggerInv'
  BY <1>1, <1>2, <1>3, <1>4, StepKeepsInv
<1>6. A \in Seq(Addresses) /\ a \in Addresses /\ \A k \in 1 .. Len(A) : A[k] # a
  BY <1>1, <1>2 DEF Separate
<1>7. At(heap', A) = At(heap, A)
  <2> HIDE DEF A, a
  <2> QED
    BY <1>1, <1>2, <1>6, AtElsewhere
<1>8. Copied(heap', caller') = Copied(heap, caller)
  <2>1. /\ caller[c].does # "copies" /\ caller'[c].does # "copies"
        /\ \A d \in Callers : d # c => caller'[d] = caller[d]
    BY <1>1, <1>2 DEF Idle
  <2>2. ASSUME NEW d \in Callers, d # c, caller[d].does = "copies"
        PROVE  heap'[caller[d].pEvent] = heap[caller[d].pEvent]
    BY <1>1, <1>2, <2>2 DEF Separate, Heaps
  <2>3. OthersCopy(heap, heap', caller, caller', c)
    BY <2>1, <2>2 DEF OthersCopy
  <2> QED
    BY <2>3, CopiedKept
<1>9. EventsIn(m_pEventQueue)' = EventsIn(m_pEventQueue) /\ InText(textRing)' = InText(textRing)
  BY <1>1, <1>5, <1>7, Mapped
<1> QED
  BY <1>1, <1>5, <1>8, <1>9 DEF Copied, Log!logVars

LEMMA CopyEventStep ==
  ASSUME LoggerInv, NEW c \in Callers, CopyEvent(c)
  PROVE  LoggerInv' /\ Log!ReturnEvent(c)
<1> DEFINE A == AddressesIn(m_pEventQueue)
           a == caller[c].pEvent
<1>1. /\ caller[c].does = "copies" /\ returned' = <<heap[a]>>
      /\ heap' = [heap EXCEPT ![a] = NoEvent]
      /\ caller' = [caller EXCEPT ![c] = Idle]
      /\ UNCHANGED <<m_pEventQueue, textRing>>
  BY DEF CopyEvent
<1>2. /\ m_pEventQueue \in EventRing /\ heap \in Heaps /\ caller \in [Callers -> Hand]
      /\ Separate(A, heap, caller)
  BY EventsMapped DEF LoggerInv
<1>3. Separate(A, heap', caller')
  BY <1>1, <1>2, SeparateFreed
<1>4. heap' \in Heaps /\ caller' \in [Callers -> Hand]
  BY <1>1, <1>2 DEF Heaps, Hand, Idle
<1>5. a \in Addresses /\ heap[a] # NoEvent /\ heap[a] \in Events
  BY <1>1, <1>2 DEF Separate, Heaps
<1>6. LoggerInv'
  <2>1. returned' \in Seq(Events \cup Chars)
    BY <1>1, <1>5
  <2> QED
    BY <1>1, <1>2, <1>3, <1>4, <2>1, StepKeepsInv
<1>7. A \in Seq(Addresses) /\ \A k \in 1 .. Len(A) : A[k] # a
  BY <1>1, <1>2 DEF Separate
<1>8. At(heap', A) = At(heap, A)
  <2> HIDE DEF A, a
  <2> QED
    BY <1>1, <1>2, <1>5, <1>7, AtElsewhere
<1>9. Copied(heap', caller') = [Copied(heap, caller) EXCEPT ![c] = NoEvent]
      /\ Copied(heap, caller)[c] = heap[a]
  <2>1. ASSUME NEW d \in Callers, d # c
        PROVE  /\ caller'[d] = caller[d]
               /\ caller[d].does = "copies" => heap'[caller[d].pEvent] = heap[caller[d].pEvent]
    BY <1>1, <1>2, <2>1 DEF Separate, Heaps
  <2>2. caller'[c] = Idle /\ Idle.does # "copies"
    BY <1>1, <1>2 DEF Idle
  <2> HIDE DEF A, a
  <2>3. ASSUME NEW d \in Callers
        PROVE  (IF caller'[d].does = "copies" THEN heap'[caller'[d].pEvent] ELSE NoEvent)
                 = [Copied(heap, caller) EXCEPT ![c] = NoEvent][d]
    BY <2>1, <2>2 DEF Copied
  <2>4. Copied(heap', caller')
          = [d \in Callers |-> [Copied(heap, caller) EXCEPT ![c] = NoEvent][d]]
    BY <2>3 DEF Copied
  <2> QED
    BY <1>1, <2>4 DEF Copied, a
<1>10. EventsIn(m_pEventQueue)' = EventsIn(m_pEventQueue) /\ InText(textRing)' = InText(textRing)
  BY <1>1, <1>6, <1>8, Mapped
<1> QED
  BY <1>1, <1>5, <1>6, <1>9, <1>10 DEF Copied, Log!ReturnEvent

LEMMA TakeEventStep ==
  ASSUME LoggerInv, NEW c \in Callers, TakeEvent(c)
  PROVE  LoggerInv' /\ Log!TakeEvent(c)
<1> DEFINE A == AddressesIn(m_pEventQueue)
           q == m_pEventQueue
           r == [does |-> "copies", pEvent |-> q.at[q.outPtr]]
<1>1. /\ caller[c] = Idle /\ q.inPtr # q.outPtr
      /\ caller' = [caller EXCEPT ![c] = r]
      /\ m_pEventQueue' = [q EXCEPT !.outPtr = NextPlace(@)]
      /\ UNCHANGED <<heap, textRing, returned>>
  BY DEF TakeEvent
<1>2. /\ q \in EventRing /\ heap \in Heaps /\ caller \in [Callers -> Hand]
      /\ returned \in Seq(Events \cup Chars) /\ Separate(A, heap, caller)
  BY EventsMapped DEF LoggerInv
<1>3. /\ A # <<>> /\ q.at[q.outPtr] = Head(A)
      /\ AddressesIn(m_pEventQueue') = Tail(A) /\ m_pEventQueue' \in EventRing
  <2>1. /\ AddressesIn(q) # <<>> /\ q.at[q.outPtr] = Head(AddressesIn(q))
        /\ AddressesIn([q EXCEPT !.outPtr = NextPlace(@)]) = Tail(AddressesIn(q))
        /\ [q EXCEPT !.outPtr = NextPlace(@)] \in EventRing
    BY <1>1, <1>2, AddressesTaken
  <2> QED
    BY <1>1, <2>1
<1>4. Idle.does = "nothing"
  BY DEF Idle
<1>5. A \in Seq(Addresses) /\ Head(A) \in Addresses /\ heap[Head(A)] # NoEvent
  <2> HIDE DEF A
  <2>1. A \in Seq(Addresses) /\ \A k \in 1 .. Len(A) : heap[A[k]] # NoEvent
    BY <1>2 DEF Separate
  <2>2. Head(A) = A[1] /\ 1 \in 1 .. Len(A)
    BY <1>3, <2>1, TailFacts
  <2> QED
    BY <2>1, <2>2
<1>6. r = [does |-> "copies", pEvent |-> Head(A)]
  BY <1>3
<1>7. Separate(Tail(A), heap, caller')
  <2> HIDE DEF A, r, q
  <2> QED
    BY <1>1, <1>2, <1>3, <1>4, <1>6, SeparateTaken
<1>8. caller' \in [Callers -> Hand]
  <2>1. r \in Hand
    BY <1>5, <1>6 DEF Hand
  <2> HIDE DEF r
  <2> QED
    BY <1>1, <1>2, <2>1
<1>9. LoggerInv'
  BY <1>1, <1>2, <1>3, <1>7, <1>8, StepKeepsInv
<1> DEFINE E == EventsIn(m_pEventQueue)
<1>10. E = At(heap, A) /\ E' = At(heap, Tail(A)) /\ InText(textRing)' = InText(textRing)
  BY <1>1, <1>3, <1>9, Mapped
<1>11. E # <<>> /\ Head(E) = heap[Head(A)] /\ E' = Tail(E)
  BY <1>2, <1>3, <1>5, <1>10, AtTail
<1>12. Copied(heap, caller)[c] = NoEvent
       /\ Copied(heap', caller') = [Copied(heap, caller) EXCEPT ![c] = Head(E)]
  <2>1. \A d \in Callers : d # c => caller'[d] = caller[d]
    BY <1>1, <1>2
  <2>2. caller'[c].does = "copies" /\ caller'[c].pEvent = Head(A)
    BY <1>1, <1>2, <1>6
  <2> HIDE DEF A, r, E
  <2>3. ASSUME NEW d \in Callers
        PROVE  (IF caller'[d].does = "copies" THEN heap'[caller'[d].pEvent] ELSE NoEvent)
                 = [Copied(heap, caller) EXCEPT ![c] = Head(E)][d]
    BY <1>1, <1>11, <2>1, <2>2 DEF Copied
  <2>4. Copied(heap', caller')
          = [d \in Callers |-> [Copied(heap, caller) EXCEPT ![c] = Head(E)][d]]
    BY <2>3 DEF Copied
  <2>5. caller[c].does # "copies"
    BY <1>1, <1>4
  <2> QED
    BY <2>4, <2>5 DEF Copied
<1> QED
  BY <1>1, <1>9, <1>10, <1>11, <1>12 DEF Copied, Log!TakeEvent

LEMMA EnterEventStep ==
  ASSUME LoggerInv, NEW c \in Callers, EnterEvent(c)
  PROVE  LoggerInv' /\ \E e \in Events : Log!EnterEvent(e)
<1> DEFINE A == AddressesIn(m_pEventQueue)
           q == m_pEventQueue
           a == caller[c].pEvent
           r == IF Full(q) THEN [does |-> "deletes", pEvent |-> q.at[q.outPtr]] ELSE Idle
           B == IF Full(q) THEN Append(Tail(A), a) ELSE Append(A, a)
<1>1. /\ caller[c].does = "enters" /\ caller' = [caller EXCEPT ![c] = r]
      /\ m_pEventQueue' = Entered(q, a)
      /\ UNCHANGED <<heap, textRing, returned>>
  BY DEF EnterEvent
<1>2. /\ q \in EventRing /\ heap \in Heaps /\ caller \in [Callers -> Hand]
      /\ returned \in Seq(Events \cup Chars) /\ Separate(A, heap, caller)
  BY EventsMapped DEF LoggerInv
<1>3. a \in Addresses /\ heap[a] \in Events /\ A \in Seq(Addresses)
  BY <1>1, <1>2 DEF Separate, Heaps
<1>4. /\ m_pEventQueue' \in EventRing /\ AddressesIn(m_pEventQueue') = B
      /\ Full(q) <=> Len(A) = LOG_QUEUE_SIZE - 1
      /\ Full(q) => A # <<>> /\ q.at[q.outPtr] = Head(A)
  <2> HIDE DEF q, a
  <2>1. /\ Entered(q, a) \in EventRing
        /\ Full(q) <=> Len(AddressesIn(q)) = LOG_QUEUE_SIZE - 1
        /\ AddressesIn(Entered(q, a)) = IF Full(q) THEN Append(Tail(AddressesIn(q)), a)
                                        ELSE Append(AddressesIn(q), a)
        /\ Full(q) => AddressesIn(q) # <<>> /\ q.at[q.outPtr] = Head(AddressesIn(q))
    BY <1>2, <1>3, AddressesEntered
  <2> QED
    BY <1>1, <2>1 DEF q
<1>5. Separate(B, heap, caller') /\ caller' \in [Callers -> Hand] /\ r.does # "copies"
  <2>1. CASE Full(q)
    <3>1. r = [does |-> "deletes", pEvent |-> Head(A)] /\ B = Append(Tail(A), a) /\ A # <<>>
      BY <1>4, <2>1
    <3>2. Head(A) \in Addresses
      BY <1>3, <3>1, TailFacts
    <3>3. r \in Hand /\ r.does # "copies"
      BY <3>1, <3>2 DEF Hand
    <3> HIDE DEF A, r, B, q
    <3> QED
      BY <1>1, <1>2, <3>1, <3>3, SeparateReplaced
  <2>2. CASE ~Full(q)
    <3>1. r = Idle /\ B = Append(A, a)
      BY <2>2
    <3>2. Idle \in Hand /\ Idle.does # "copies"
      BY DEF Hand, Idle
    <3> HIDE DEF A, r, B, q
    <3> QED
      BY <1>1, <1>2, <3>1, <3>2, SeparateAdded
  <2> QED
    BY <2>1, <2>2
<1>6. LoggerInv'
  <2> HIDE DEF A, r, B, q, a
  <2> QED
    BY <1>1, <1>2, <1>4, <1>5, StepKeepsInv
<1> DEFINE E == EventsIn(m_pEventQueue)
           e == heap[a]
<1>7. E = At(heap, A) /\ E' = At(heap, B) /\ InText(textRing)' = InText(textRing)
  <2> HIDE DEF r, B, q, a
  <2> QED
    BY <1>1, <1>4, <1>6, Mapped
<1>8. Len(E) = Len(A)
  BY <1>2, <1>3, <1>7, AtAppend
<1>9. E' = IF Len(E) = LOG_QUEUE_SIZE - 1 THEN Append(Tail(E), e) ELSE Append(E, e)
  <2>1. CASE Full(q)
    <3>1. Len(E) = LOG_QUEUE_SIZE - 1 /\ A # <<>> /\ B = Append(Tail(A), a)
      BY <1>4, <1>8, <2>1
    <3>2. Tail(A) \in Seq(Addresses)
      BY <1>3, <3>1, TailFacts
    <3> HIDE DEF A, B, E, a
    <3>3. At(heap, Tail(A)) = Tail(E)
      BY <1>2, <1>3, <1>7, <3>1, AtTail
    <3>4. At(heap, Append(Tail(A), a)) = Append(At(heap, Tail(A)), heap[a])
      BY <1>2, <1>3, <3>2, AtAppend
    <3> QED
      BY <1>7, <3>1, <3>3, <3>4
  <2>2. CASE ~Full(q)
    <3>1. Len(E) # LOG_QUEUE_SIZE - 1 /\ B = Append(A, a)
      BY <1>4, <1>8, <2>2
    <3> HIDE DEF A, B, E, a
    <3>2. At(heap, Append(A, a)) = Append(At(heap, A), heap[a])
      BY <1>2, <1>3, AtAppend
    <3> QED
      BY <1>7, <3>1, <3>2
  <2> QED
    BY <2>1, <2>2
<1>10. Copied(heap', caller') = Copied(heap, caller)
  <2> HIDE DEF A, r, B, q, a, E, e
  <2>1. /\ heap' = heap /\ caller[c].does # "copies" /\ caller'[c].does # "copies"
        /\ \A d \in Callers : d # c => caller'[d] = caller[d]
    BY <1>1, <1>2, <1>5
  <2>2. OthersCopy(heap, heap', caller, caller', c)
    BY <2>1 DEF OthersCopy
  <2> QED
    BY <2>2, CopiedKept
<1>11. Log!EnterEvent(e)
  <2> HIDE DEF A, r, B, q, a, e
  <2> QED
    BY <1>1, <1>7, <1>9, <1>10 DEF Copied, Log!EnterEvent
<1>12. e \in Events
  BY <1>3
<1> HIDE DEF e
<1> QED
  BY <1>6, <1>11, <1>12

LEMMA WriteTextStep ==
  ASSUME LoggerInv, NEW s \in Texts, WriteText(s)
  PROVE  LoggerInv' /\ Log!WriteText(s)
<1> DEFINE t == InText(textRing)
           T == LOGGER_BUFSIZE - 1
<1>1. /\ textRing' = Written(textRing, s)
      /\ UNCHANGED <<heap, m_pEventQueue, caller, returned>>
  BY DEF WriteText
<1>2. LoggerTypeOK /\ textRing \in TextRing /\ s \in Seq(Chars) /\ t \in Seq(Chars)
  BY LoggerAssumption, EventsMapped DEF LoggerInv
<1>3. /\ textRing' \in TextRing /\ InText(textRing') \in Seq(Chars)
      /\ InText(textRing') = SubSeq(t \o s, 1, IF Len(t \o s) < T THEN Len(t \o s) ELSE T)
  BY <1>1, <1>2, TextWritten
<1>4. LoggerInv'
  BY <1>1, <1>3, TextStepKeepsInv
<1>5. UNCHANGED <<EventsIn(m_pEventQueue), Copied(heap, caller), returned>>
  BY <1>1 DEF EventsIn, Copied
<1>6. InText(textRing)' = SubSeq(t \o s, 1, IF Len(t \o s) < T THEN Len(t \o s) ELSE T)
  BY <1>3 DEF InText
<1> QED
  BY <1>4, <1>5, <1>6 DEF Log!WriteText, Copied

LEMMA ReadTextStep ==
  ASSUME LoggerInv, NEW nCount \in TextPlaces \ {0}, ReadText(nCount)
  PROVE  LoggerInv' /\ \E n \in 1 .. LOGGER_BUFSIZE - 1 : Log!ReadText(n)
<1> DEFINE t == InText(textRing)
           n == IF nCount < Len(t) THEN nCount ELSE Len(t)
<1>1. /\ textRing.inPtr # textRing.outPtr /\ returned' = SubSeq(t, 1, n)
      /\ textRing' = [textRing EXCEPT !.outPtr = (@ + n) % LOGGER_BUFSIZE]
      /\ UNCHANGED <<heap, m_pEventQueue, caller>>
  BY DEF ReadText
<1>2. LoggerTypeOK /\ textRing \in TextRing /\ t \in Seq(Chars)
  BY EventsMapped DEF LoggerInv
<1>3. /\ Len(t) = Distance(LOGGER_BUFSIZE, textRing.outPtr, textRing.inPtr)
      /\ Len(t) \in 0 .. LOGGER_BUFSIZE - 1
  BY <1>2, TextIsContent
<1>4. textRing.outPtr \in 0 .. LOGGER_BUFSIZE - 1 /\ textRing.inPtr \in 0 .. LOGGER_BUFSIZE - 1
      /\ nCount \in 1 .. LOGGER_BUFSIZE - 1 /\ LOGGER_BUFSIZE \in Nat
  BY <1>2, PlacesOfText DEF TextRing
<1>5. Len(t) > 0
  BY <1>1, <1>3, <1>4 DEF Distance
<1>6. n \in 1 .. Len(t) /\ n \in 0 .. Len(t) /\ n \in 1 .. LOGGER_BUFSIZE - 1
  <2> HIDE DEF t
  <2> QED
    BY <1>3, <1>4, <1>5
<1> HIDE DEF n
<1>7. /\ textRing' \in TextRing
      /\ InText(textRing') = SubSeq(t, n + 1, Len(t))
  BY <1>1, <1>2, <1>6, TextRead
<1>8. SubSeq(t, n + 1, Len(t)) \in Seq(Chars) /\ SubSeq(t, 1, n) \in Seq(Chars)
  <2> HIDE DEF t
  <2>1. (\A k \in n + 1 .. Len(t) : t[k] \in Chars) /\ \A k \in 1 .. n : t[k] \in Chars
    BY <1>2, <1>6
  <2>2. n \in Int /\ n + 1 \in Int /\ Len(t) \in Int
    BY <1>2, <1>6
  <2> QED
    BY <2>1, <2>2, SubSeqProperties
<1>9. returned' \in Seq(Events \cup Chars)
  <2> DEFINE x == SubSeq(t, 1, n)
  <2>1. x \in Seq(Chars) /\ returned' = x
    BY <1>1, <1>8
  <2> HIDE DEF x
  <2> QED
    BY <2>1
<1>10. LoggerInv'
  <2>1. InText(textRing') \in Seq(Chars)
    BY <1>7, <1>8
  <2> QED
    BY <1>1, <1>7, <1>9, <2>1, TextStepKeepsInv
<1>11. UNCHANGED <<EventsIn(m_pEventQueue), Copied(heap, caller)>>
  BY <1>1 DEF EventsIn, Copied
<1>12. InText(textRing)' = SubSeq(t, n + 1, Len(t))
  BY <1>7 DEF InText
<1>13. Log!ReadText(n)
  BY <1>1, <1>6, <1>11, <1>12 DEF Log!ReadText, Copied
<1> QED
  BY <1>6, <1>10, <1>13

\* A step of any caller keeps the invariant and is a step of LogQueue, or changes nothing there.
LEMMA LoggerStepMapped ==
  ASSUME LoggerInv, [LoggerNext]_loggerVars
  PROVE  LoggerInv' /\ [Log!LogNext]_(Log!logVars)
<1>1. ASSUME NEW c \in Callers, NewEvent(c)
      PROVE  LoggerInv' /\ UNCHANGED Log!logVars
  BY <1>1, NewEventStep
<1>2. ASSUME NEW c \in Callers, EnterEvent(c)
      PROVE  LoggerInv' /\ Log!LogNext
  BY <1>2, EnterEventStep DEF Log!LogNext
<1>3. ASSUME NEW c \in Callers, DeleteDropped(c)
      PROVE  LoggerInv' /\ UNCHANGED Log!logVars
  BY <1>3, DeleteDroppedStep
<1>4. ASSUME NEW c \in Callers, TakeEvent(c)
      PROVE  LoggerInv' /\ Log!LogNext
  BY <1>4, TakeEventStep DEF Log!LogNext
<1>5. ASSUME NEW c \in Callers, CopyEvent(c)
      PROVE  LoggerInv' /\ Log!LogNext
  BY <1>5, CopyEventStep DEF Log!LogNext
<1>6. ASSUME NEW s \in Texts, WriteText(s)
      PROVE  LoggerInv' /\ Log!LogNext
  BY <1>6, WriteTextStep DEF Log!LogNext
<1>7. ASSUME NEW n \in TextPlaces \ {0}, ReadText(n)
      PROVE  LoggerInv' /\ Log!LogNext
  BY <1>7, ReadTextStep DEF Log!LogNext
<1>8. CASE UNCHANGED loggerVars
  <2>1. UNCHANGED Log!logVars
    BY <1>8 DEF loggerVars, Log!logVars, EventsIn, InText
  <2>2. LoggerInv'
    <3>1. textRing' \in TextRing /\ InText(textRing') \in Seq(Chars)
      BY <1>8, EventsMapped DEF LoggerInv, loggerVars
    <3> QED
      BY <1>8, <3>1, TextStepKeepsInv DEF loggerVars
  <2> QED
    BY <2>1, <2>2
<1> QED
  BY <1>1, <1>2, <1>3, <1>4, <1>5, <1>6, <1>7, <1>8 DEF LoggerNext, EventStep, TextStep

\* Nobody overwrites, deletes or frees an event that is queued or in another caller's hand.
THEOREM LoggerInvariant == LoggerSpec => []LoggerInv
<1>1. LoggerInit => LoggerInv
  BY LoggerInvInit
<1>2. LoggerInv /\ [LoggerNext]_loggerVars => LoggerInv'
  BY LoggerStepMapped
<1> QED
  BY <1>1, <1>2, PTL DEF LoggerSpec

\* CLogger implements the two queues of LogQueue: a reader gets the events and the characters
\* in the order in which they were written, except the oldest event of a full queue and what
\* had no room.
THEOREM LoggerKeepsLog == LoggerSpec => LogKept
<1>1. LoggerInit => Log!LogInit
  BY LogInitMapped
<1>2. LoggerInv /\ [LoggerNext]_loggerVars => [Log!LogNext]_(Log!logVars)
  BY LoggerStepMapped
<1> QED
  BY <1>1, <1>2, LoggerInvariant, PTL DEF LoggerSpec, LogKept, Log!LogSpec

-----------------------------------------------------------------------------
(* Rings with cycle bits                                                   *)

\* The types of TRBs, of rings whose last place is L, and of the places in them.
RequestTRBs == [cycle : {0, 1}, n : Nat, urb : Nat, ioc : BOOLEAN]
EventTRBs == [cycle : {0, 1}, n : Nat, kind : {"none", "command", "transfer"}, at : Int, of : Nat,
              ok : BOOLEAN]
RingsOf(T, L) == [trb : [0 .. L -> T], index : 0 .. L, cycle : {0, 1}]
PlacesOf(L) == [at : 0 .. L, cycle : {0, 1}]

\* The ring with its link at L, to which m TRBs have been written, the last of them perhaps
\* without an advance of the index (w = 1), and of which n have been read from pos.  The places
\* before the index have this round's cycle bit, the others that of the round before, and each
\* has the number of the TRB that was written there last.  The reader is in the same round behind
\* the writer, or in the round before and ahead of it.
NumberAt(L, v, m, i) ==
  IF i < v THEN m - v + i + 1 ELSE IF m - v - L + i + 1 > 0 THEN m - v - L + i + 1 ELSE 0
RingFits(ring, L, w, m) ==
  /\ ring \in RingsOf(RequestTRBs, L) /\ ring.index < L
  /\ m \in Nat /\ ring.index + w <= m
  /\ \A i \in 0 .. L - 1 :
       /\ ring.trb[i].cycle = IF i < ring.index + w THEN ring.cycle ELSE 1 - ring.cycle
       /\ ring.trb[i].n = NumberAt(L, ring.index + w, m, i)
  /\ ring.trb[L].cycle = 1 - ring.cycle
ReaderFits(ring, L, w, pos, n, m) ==
  /\ pos \in PlacesOf(L)
  /\ n \in Nat /\ m \in Nat /\ n <= m
  /\ IF pos.cycle = ring.cycle THEN pos.at + m - n = ring.index + w
     ELSE ring.index + w <= pos.at /\ pos.at + m - n = ring.index + w + L
RingKept(ring, L, w, pos, n, m) == RingFits(ring, L, w, m) /\ ReaderFits(ring, L, w, pos, n, m)

\* What Put changes.
LEMMA PutFields ==
  ASSUME NEW L \in Nat \ {0}, NEW ring \in RingsOf(RequestTRBs, L), ring.index < L,
         NEW trb \in RequestTRBs
  PROVE  /\ Put(ring, trb) \in RingsOf(RequestTRBs, L)
         /\ Put(ring, trb).index = ring.index /\ Put(ring, trb).cycle = ring.cycle
         /\ Put(ring, trb).trb[ring.index].cycle = ring.cycle
         /\ Put(ring, trb).trb[ring.index].n = trb.n
         /\ Put(ring, trb).trb[ring.index].urb = trb.urb
         /\ Put(ring, trb).trb[ring.index].ioc = trb.ioc
         /\ \A i \in 0 .. L : i # ring.index => Put(ring, trb).trb[i] = ring.trb[i]
<1>. DEFINE own == [trb EXCEPT !.cycle = ring.cycle]
            trbs == [ring.trb EXCEPT ![ring.index] = own]
<1>1. /\ own \in RequestTRBs /\ own.cycle = ring.cycle
      /\ own.n = trb.n /\ own.urb = trb.urb /\ own.ioc = trb.ioc
  BY DEF RequestTRBs, RingsOf
<1>2. Put(ring, trb) = [ring EXCEPT !.trb = trbs]
  BY DEF Put, RingsOf
<1>. HIDE DEF own
<1>3. /\ trbs \in [0 .. L -> RequestTRBs] /\ trbs[ring.index] = own
      /\ \A i \in 0 .. L : i # ring.index => trbs[i] = ring.trb[i]
  BY <1>1 DEF RingsOf
<1>. HIDE DEF trbs
<1>. QED
  BY <1>1, <1>2, <1>3 DEF RingsOf

\* What IncrementEnqueue changes.
LEMMA IncrementEnqueueFields ==
  ASSUME NEW L \in Nat \ {0}, NEW ring \in RingsOf(RequestTRBs, L), ring.index < L
  PROVE  LET next == IncrementEnqueue(ring, L) IN
         /\ next \in RingsOf(RequestTRBs, L)
         /\ IF ring.index + 1 = L
              THEN /\ next.index = 0 /\ next.cycle = 1 - ring.cycle
                   /\ next.trb[L].cycle = 1 - ring.trb[L].cycle
              ELSE /\ next.index = ring.index + 1 /\ next.cycle = ring.cycle
                   /\ next.trb[L] = ring.trb[L]
         /\ \A i \in 0 .. L - 1 : next.trb[i] = ring.trb[i]
<1>. DEFINE link == [ring.trb[L] EXCEPT !.cycle = 1 - ring.trb[L].cycle]
            trbs == [ring.trb EXCEPT ![L] = link]
<1>1. CASE ring.index + 1 = L
  <2>1. ring.trb[L] \in RequestTRBs
    BY DEF RingsOf
  <2>2. link \in RequestTRBs /\ link.cycle = 1 - ring.trb[L].cycle
    BY <2>1 DEF RequestTRBs
  <2>3. IncrementEnqueue(ring, L) = [trb |-> trbs, index |-> 0, cycle |-> 1 - ring.cycle]
    <3>1. IncrementEnqueue(ring, L) = [ring EXCEPT !.index = 0, !.cycle = 1 - ring.cycle,
                                                   !.trb[L].cycle = 1 - ring.trb[L].cycle]
      BY <1>1 DEF IncrementEnqueue
    <3>. QED
      BY <3>1 DEF RingsOf
  <2>. HIDE DEF link
  <2>4. /\ trbs \in [0 .. L -> RequestTRBs] /\ trbs[L] = link
        /\ \A i \in 0 .. L - 1 : trbs[i] = ring.trb[i]
    BY <2>2 DEF RingsOf
  <2>. HIDE DEF trbs
  <2>. QED
    BY <1>1, <2>2, <2>3, <2>4 DEF RingsOf
<1>2. CASE ring.index + 1 # L
  <2>1. IncrementEnqueue(ring, L) = [ring EXCEPT !.index = ring.index + 1]
    BY <1>2 DEF IncrementEnqueue
  <2>. QED
    BY <1>2, <2>1 DEF RingsOf
<1>. QED
  BY <1>1, <1>2

\* A TRB is put into a ring that does not hold L of them: it gets the next number.
LEMMA PutKeeps ==
  ASSUME NEW L \in Nat \ {0}, NEW ring, NEW pos, NEW n, NEW m, RingKept(ring, L, 0, pos, n, m),
         m - n < L, NEW trb \in RequestTRBs, trb.n = m + 1
  PROVE  RingKept(Put(ring, trb), L, 1, pos, n, m + 1)
<1>. DEFINE new == Put(ring, trb)
<1>1. /\ ring \in RingsOf(RequestTRBs, L) /\ ring.index < L /\ ring.index \in Nat
      /\ ring.cycle \in {0, 1} /\ ring.index <= m /\ m \in Nat
      /\ ring.trb[L].cycle = 1 - ring.cycle
  BY DEF RingKept, RingFits, RingsOf
<1>2. /\ new \in RingsOf(RequestTRBs, L)
      /\ new.index = ring.index /\ new.cycle = ring.cycle
      /\ new.trb[ring.index].cycle = ring.cycle
      /\ new.trb[ring.index].n = m + 1
      /\ \A i \in 0 .. L : i # ring.index => new.trb[i] = ring.trb[i]
  BY <1>1, PutFields
<1>. HIDE DEF new
<1>3. ASSUME NEW i \in 0 .. L - 1
      PROVE  /\ new.trb[i].cycle = IF i < ring.index + 1 THEN ring.cycle ELSE 1 - ring.cycle
             /\ new.trb[i].n = NumberAt(L, ring.index + 1, m + 1, i)
  <2>1. /\ ring.trb[i].cycle = IF i < ring.index THEN ring.cycle ELSE 1 - ring.cycle
        /\ ring.trb[i].n = NumberAt(L, ring.index, m, i)
    BY <1>1 DEF RingKept, RingFits
  <2>2. CASE i = ring.index
    BY <1>1, <1>2, <2>2 DEF NumberAt
  <2>3. CASE i # ring.index
    <3>1. new.trb[i] = ring.trb[i]
      BY <1>2, <2>3
    <3>. QED
      BY <1>1, <2>1, <2>3, <3>1 DEF NumberAt
  <2>. QED
    BY <2>2, <2>3
<1>4. new.trb[L].cycle = 1 - new.cycle
  BY <1>1, <1>2
<1>5. RingFits(new, L, 1, m + 1)
  BY <1>1, <1>2, <1>3, <1>4 DEF RingFits
<1>6. ReaderFits(new, L, 1, pos, n, m + 1)
  BY <1>1, <1>2 DEF RingKept, ReaderFits, PlacesOf
<1>. QED
  BY <1>5, <1>6 DEF RingKept, new

\* The index advances over it, and over the link.
LEMMA IncrementEnqueueKeeps ==
  ASSUME NEW L \in Nat \ {0}, NEW ring, NEW pos, NEW n, NEW m, RingKept(ring, L, 1, pos, n, m),
         m - n < L
  PROVE  RingKept(IncrementEnqueue(ring, L), L, 0, pos, n, m)
<1>. DEFINE new == IncrementEnqueue(ring, L)
<1>1. /\ ring \in RingsOf(RequestTRBs, L) /\ ring.index < L /\ ring.index \in Nat
      /\ ring.cycle \in {0, 1} /\ ring.index + 1 <= m /\ m \in Nat
      /\ ring.trb[L].cycle = 1 - ring.cycle
  BY DEF RingKept, RingFits, RingsOf
<1>2. /\ new \in RingsOf(RequestTRBs, L)
      /\ IF ring.index + 1 = L
           THEN /\ new.index = 0 /\ new.cycle = 1 - ring.cycle
                /\ new.trb[L].cycle = 1 - ring.trb[L].cycle
           ELSE /\ new.index = ring.index + 1 /\ new.cycle = ring.cycle
                /\ new.trb[L] = ring.trb[L]
      /\ \A i \in 0 .. L - 1 : new.trb[i] = ring.trb[i]
  BY <1>1, IncrementEnqueueFields
<1>. HIDE DEF new
<1>3. ASSUME NEW i \in 0 .. L - 1
      PROVE  /\ new.trb[i].cycle = IF i < new.index THEN new.cycle ELSE 1 - new.cycle
             /\ new.trb[i].n = NumberAt(L, new.index, m, i)
  <2>1. /\ ring.trb[i].cycle = IF i < ring.index + 1 THEN ring.cycle ELSE 1 - ring.cycle
        /\ ring.trb[i].n = NumberAt(L, ring.index + 1, m, i)
    BY <1>1 DEF RingKept, RingFits
  <2>2. new.trb[i] = ring.trb[i]
    BY <1>2
  <2>. QED
    BY <1>1, <1>2, <2>1, <2>2 DEF NumberAt
<1>4. new.trb[L].cycle = 1 - new.cycle
  BY <1>1, <1>2
<1>5. RingFits(new, L, 0, m)
  BY <1>1, <1>2, <1>3, <1>4 DEF RingFits
<1>6. ReaderFits(new, L, 0, pos, n, m)
  <2>1. ReaderFits(ring, L, 1, pos, n, m) /\ pos.at \in 0 .. L /\ pos.cycle \in {0, 1}
    BY DEF RingKept, ReaderFits, PlacesOf
  <2>. QED
    BY <1>1, <1>2, <2>1 DEF ReaderFits
<1>. QED
  BY <1>5, <1>6 DEF RingKept, new

\* The reader is handed the next TRB, if there is one.
LEMMA RingHands ==
  ASSUME NEW L \in Nat \ {0}, NEW ring, NEW w \in {0, 1}, NEW pos, NEW n, NEW m,
         RingKept(ring, L, w, pos, n, m)
  PROVE  /\ RingHandsOn(ring, L, pos, n, m)
         /\ HasPlace(ring) <=> w = 0
<1>. DEFINE p == Through(ring, L, pos)
<1>1. /\ ring.index \in Nat /\ ring.index < L /\ ring.cycle \in {0, 1}
      /\ ring.index + w <= m /\ m \in Nat /\ n \in Nat /\ n <= m
      /\ ring.trb[L].cycle = 1 - ring.cycle
      /\ pos.at \in 0 .. L /\ pos.cycle \in {0, 1}
      /\ IF pos.cycle = ring.cycle THEN pos.at + m - n = ring.index + w
         ELSE ring.index + w <= pos.at /\ pos.at + m - n = ring.index + w + L
  BY DEF RingKept, RingFits, ReaderFits, RingsOf, PlacesOf
<1>2. \A i \in 0 .. L - 1 :
        /\ ring.trb[i].cycle = IF i < ring.index + w THEN ring.cycle ELSE 1 - ring.cycle
        /\ ring.trb[i].n = NumberAt(L, ring.index + w, m, i)
  BY DEF RingKept, RingFits
<1>3. HasPlace(ring) <=> w = 0
  BY <1>1, <1>2 DEF HasPlace
<1>4. IF pos.at = L /\ pos.cycle # ring.cycle THEN p.at = 0 /\ p.cycle = 1 - pos.cycle ELSE p = pos
  BY <1>1 DEF Through
<1>. HIDE DEF p
<1>. DEFINE v == ring.index + w
<1>a. /\ p.at \in 0 .. L /\ p.cycle \in {0, 1} /\ v \in 0 .. L
      /\ IF p.cycle = ring.cycle THEN p.at + m - n = v
         ELSE v <= p.at /\ p.at + m - n = v + L
      /\ p.at = L => p.cycle = ring.cycle
  BY <1>1, <1>4
<1>b. /\ v <= m /\ m \in Nat /\ n \in Nat /\ n <= m /\ ring.cycle \in {0, 1}
      /\ \A i \in 0 .. L - 1 : /\ ring.trb[i].cycle = IF i < v THEN ring.cycle ELSE 1 - ring.cycle
                              /\ ring.trb[i].n = NumberAt(L, v, m, i)
  BY <1>1, <1>2
<1>. HIDE DEF v
<1>5. n < m <=> p.at # L /\ ring.trb[p.at].cycle = p.cycle
  BY <1>a, <1>b
<1>6. ASSUME n < m  PROVE ring.trb[p.at].n = n + 1
  <2>1. p.at \in 0 .. L - 1
    BY <1>a, <1>b, <1>6
  <2>2. ring.trb[p.at].n = NumberAt(L, v, m, p.at)
    BY <1>b, <2>1
  <2>. QED
    BY <1>a, <1>b, <1>6, <2>1, <2>2 DEF NumberAt
<1>. QED
  BY <1>3, <1>5, <1>6 DEF RingHandsOn, Sees, p

\* The reader reads on.
LEMMA FetchKeeps ==
  ASSUME NEW L \in Nat \ {0}, NEW ring, NEW w \in {0, 1}, NEW pos, NEW n, NEW m,
         RingKept(ring, L, w, pos, n, m), Sees(ring, L, pos)
  PROVE  LET p == Through(ring, L, pos) IN
         /\ RingKept(ring, L, w, [p EXCEPT !.at = p.at + 1], n + 1, m)
         /\ p.at \in 0 .. L - 1 /\ ring.trb[p.at].n = n + 1 /\ n < m
<1>. DEFINE p == Through(ring, L, pos)
            next == [p EXCEPT !.at = p.at + 1]
<1>1. /\ ring.index \in Nat /\ ring.index < L /\ ring.cycle \in {0, 1}
      /\ ring.index + w <= m /\ m \in Nat /\ n \in Nat /\ n <= m
      /\ ring.trb[L].cycle = 1 - ring.cycle
      /\ pos \in PlacesOf(L)
      /\ pos.at \in 0 .. L /\ pos.cycle \in {0, 1}
      /\ IF pos.cycle = ring.cycle THEN pos.at + m - n = ring.index + w
         ELSE ring.index + w <= pos.at /\ pos.at + m - n = ring.index + w + L
  BY DEF RingKept, RingFits, ReaderFits, RingsOf, PlacesOf
<1>2. /\ n < m <=> p.at # L /\ ring.trb[p.at].cycle = p.cycle
      /\ n < m => ring.trb[p.at].n = n + 1
      /\ p.at # L /\ ring.trb[p.at].cycle = p.cycle
  <2>1. RingHandsOn(ring, L, pos, n, m)
    BY RingHands
  <2>. QED
    BY <2>1 DEF RingHandsOn, Sees
<1>3. /\ IF pos.at = L /\ pos.cycle # ring.cycle THEN p.at = 0 /\ p.cycle = 1 - pos.cycle ELSE p = pos
      /\ p \in PlacesOf(L)
  BY <1>1 DEF Through, PlacesOf
<1>. HIDE DEF p
<1>4. p.at \in 0 .. L - 1 /\ p.cycle \in {0, 1} /\ n < m
  BY <1>1, <1>2, <1>3 DEF PlacesOf
<1>5. next \in PlacesOf(L) /\ next.at = p.at + 1 /\ next.cycle = p.cycle
  BY <1>3, <1>4 DEF PlacesOf
<1>. HIDE DEF next
<1>6. ReaderFits(ring, L, w, next, n + 1, m)
  BY <1>1, <1>3, <1>4, <1>5 DEF ReaderFits
<1>. QED
  BY <1>2, <1>4, <1>6 DEF RingKept, p, next

-----------------------------------------------------------------------------
(* The ring of events, which has no link                                   *)

\* Of p events that have been written the last has been written before pos, and h have been
\* read: no more than fit between the reader and the writer.
EventsFit(ring, pos, p) ==
  /\ ring \in RingsOf(EventTRBs, EventCount - 1) /\ pos \in PlacesOf(EventCount - 1)
  /\ p \in Nat /\ pos.at <= p
  /\ \A i \in 0 .. EventCount - 1 :
       /\ ring.trb[i].cycle = IF i < pos.at THEN pos.cycle ELSE 1 - pos.cycle
       /\ ring.trb[i].n = NumberAt(EventCount, pos.at, p, i)
HandlerFits(ring, pos, h, p) ==
  /\ h \in Nat /\ p \in Nat /\ h <= p
  /\ IF pos.cycle = ring.cycle THEN ring.index + p - h = pos.at
     ELSE pos.at < ring.index /\ ring.index + p - h = pos.at + EventCount
EventRingKept(ring, pos, h, p) == EventsFit(ring, pos, p) /\ HandlerFits(ring, pos, h, p)

Posted(ring, pos, p, event) ==
  [ring EXCEPT !.trb[pos.at] = [event EXCEPT !.cycle = pos.cycle, !.n = p + 1]]
NextOf(pos) == (pos.at + 1) % EventCount
Advanced(pos) ==
  [at |-> NextOf(pos), cycle |-> IF NextOf(pos) = 0 THEN 1 - pos.cycle ELSE pos.cycle]

\* How the writer of the events gets to the next place.
LEMMA NextOfIs ==
  ASSUME NEW C \in Nat \ {0}, NEW k \in 0 .. C - 1
  PROVE  (k + 1) % C = IF k + 1 = C THEN 0 ELSE k + 1
OBVIOUS

\* What posting an event changes.
LEMMA PostedFields ==
  ASSUME NEW ring \in RingsOf(EventTRBs, EventCount - 1), NEW pos \in PlacesOf(EventCount - 1),
         NEW p \in Nat, NEW event \in EventTRBs
  PROVE  LET new == Posted(ring, pos, p, event) IN
         /\ new \in RingsOf(EventTRBs, EventCount - 1)
         /\ new.index = ring.index /\ new.cycle = ring.cycle
         /\ new.trb[pos.at].cycle = pos.cycle /\ new.trb[pos.at].n = p + 1
         /\ new.trb[pos.at].kind = event.kind /\ new.trb[pos.at].at = event.at
         /\ new.trb[pos.at].of = event.of /\ new.trb[pos.at].ok = event.ok
         /\ \A i \in 0 .. EventCount - 1 : i # pos.at => new.trb[i] = ring.trb[i]
<1>. DEFINE own == [event EXCEPT !.cycle = pos.cycle, !.n = p + 1]
            trbs == [ring.trb EXCEPT ![pos.at] = own]
<1>. DEFINE marked == [event EXCEPT !.cycle = pos.cycle]
<1>1. /\ marked \in EventTRBs /\ marked.cycle = pos.cycle
      /\ marked.kind = event.kind /\ marked.at = event.at /\ marked.of = event.of
      /\ marked.ok = event.ok
  BY DEF EventTRBs, PlacesOf
<1>2. /\ own \in EventTRBs /\ own.cycle = pos.cycle /\ own.n = p + 1
      /\ own.kind = event.kind /\ own.at = event.at /\ own.of = event.of /\ own.ok = event.ok
  <2>1. own = [marked EXCEPT !.n = p + 1]
    OBVIOUS
  <2>. HIDE DEF marked, own
  <2>. QED
    BY <1>1, <2>1 DEF EventTRBs
<1>3. Posted(ring, pos, p, event) = [ring EXCEPT !.trb = trbs]
  BY DEF Posted, RingsOf
<1>. HIDE DEF own
<1>4. /\ trbs \in [0 .. EventCount - 1 -> EventTRBs] /\ trbs[pos.at] = own
      /\ \A i \in 0 .. EventCount - 1 : i # pos.at => trbs[i] = ring.trb[i]
  BY <1>2 DEF RingsOf, PlacesOf
<1>. HIDE DEF trbs
<1>. QED
  BY <1>2, <1>3, <1>4 DEF RingsOf

\* The place of a new event was not one of an event that has not been read.
LEMMA PostKeeps ==
  ASSUME NEW ring, NEW pos, NEW h, NEW p, EventRingKept(ring, pos, h, p), NEW event \in EventTRBs,
         NextOf(pos) # ring.index
  PROVE  /\ EventRingKept(Posted(ring, pos, p, event), Advanced(pos), h, p + 1)
         /\ pos.at \in 0 .. EventCount - 1 /\ ring.trb[pos.at].n <= h
<1>. DEFINE new == Posted(ring, pos, p, event)
            next == Advanced(pos)
<1>0. EventCount \in Nat /\ EventCount > 1
  BY XhciAssumption
<1>1. /\ ring \in RingsOf(EventTRBs, EventCount - 1) /\ pos \in PlacesOf(EventCount - 1)
      /\ pos.at \in 0 .. EventCount - 1 /\ pos.cycle \in {0, 1}
      /\ ring.index \in 0 .. EventCount - 1 /\ ring.cycle \in {0, 1}
      /\ p \in Nat /\ pos.at <= p /\ h \in Nat /\ h <= p
      /\ IF pos.cycle = ring.cycle THEN ring.index + p - h = pos.at
         ELSE pos.at < ring.index /\ ring.index + p - h = pos.at + EventCount
  BY DEF EventRingKept, EventsFit, HandlerFits, RingsOf, PlacesOf
<1>2. /\ new \in RingsOf(EventTRBs, EventCount - 1)
      /\ new.index = ring.index /\ new.cycle = ring.cycle
      /\ new.trb[pos.at].cycle = pos.cycle /\ new.trb[pos.at].n = p + 1
      /\ \A i \in 0 .. EventCount - 1 : i # pos.at => new.trb[i] = ring.trb[i]
  <2>. USE DEF new
  <2>. QED
    BY ONLY <1>1, PostedFields, event \in EventTRBs
<1>3. NextOf(pos) = IF pos.at + 1 = EventCount THEN 0 ELSE pos.at + 1
  BY <1>0, <1>1, NextOfIs DEF NextOf
<1>4. /\ next \in PlacesOf(EventCount - 1)
      /\ next.at = IF pos.at + 1 = EventCount THEN 0 ELSE pos.at + 1
      /\ next.cycle = IF pos.at + 1 = EventCount THEN 1 - pos.cycle ELSE pos.cycle
  BY <1>0, <1>1, <1>3 DEF Advanced, PlacesOf
<1>. HIDE DEF new, next
<1>5. \A i \in 0 .. EventCount - 1 :
        /\ ring.trb[i].cycle = IF i < pos.at THEN pos.cycle ELSE 1 - pos.cycle
        /\ ring.trb[i].n = NumberAt(EventCount, pos.at, p, i)
  BY DEF EventRingKept, EventsFit
<1>6. ASSUME NEW i \in 0 .. EventCount - 1
      PROVE  /\ new.trb[i].cycle = IF i < next.at THEN next.cycle ELSE 1 - next.cycle
             /\ new.trb[i].n = NumberAt(EventCount, next.at, p + 1, i)
  <2>1. CASE i = pos.at
    BY <1>0, <1>1, <1>2, <1>4, <2>1 DEF NumberAt
  <2>2. CASE i # pos.at
    <3>1. new.trb[i] = ring.trb[i]
      BY <1>2, <2>2
    <3>. QED
      BY <1>0, <1>1, <1>4, <1>5, <2>2, <3>1 DEF NumberAt
  <2>. QED
    BY <2>1, <2>2
<1>7. EventsFit(new, next, p + 1)
  BY <1>0, <1>1, <1>2, <1>4, <1>6 DEF EventsFit
<1>8. HandlerFits(new, next, h, p + 1)
  BY <1>0, <1>1, <1>2, <1>3, <1>4 DEF HandlerFits
<1>9. ring.trb[pos.at].n <= h
  BY <1>0, <1>1, <1>3, <1>5 DEF NumberAt
<1>. QED
  BY <1>1, <1>7, <1>8, <1>9 DEF EventRingKept, new, next

\* The handler finds an event if there is one that has not been read, and it is the next.
LEMMA EventsHandedOn ==
  ASSUME EventRingKept(m_EventRing, eventAt, handled, posted)
  PROVE  /\ handled < posted <=> HasEvent
         /\ HasEvent => FirstEvent.n = handled + 1
<1>0. EventCount \in Nat /\ EventCount > 1
  BY XhciAssumption
<1>1. /\ eventAt.at \in 0 .. EventCount - 1 /\ eventAt.cycle \in {0, 1}
      /\ m_EventRing.index \in 0 .. EventCount - 1 /\ m_EventRing.cycle \in {0, 1}
      /\ posted \in Nat /\ eventAt.at <= posted /\ handled \in Nat /\ handled <= posted
      /\ IF eventAt.cycle = m_EventRing.cycle THEN m_EventRing.index + posted - handled = eventAt.at
         ELSE eventAt.at < m_EventRing.index
              /\ m_EventRing.index + posted - handled = eventAt.at + EventCount
  BY DEF EventRingKept, EventsFit, HandlerFits, RingsOf, PlacesOf
<1>2. /\ FirstEvent.cycle = IF m_EventRing.index < eventAt.at THEN eventAt.cycle ELSE 1 - eventAt.cycle
      /\ FirstEvent.n = NumberAt(EventCount, eventAt.at, posted, m_EventRing.index)
  BY <1>1 DEF EventRingKept, EventsFit, FirstEvent
<1>3. HasEvent <=> FirstEvent.cycle = m_EventRing.cycle
  BY DEF HasEvent, FirstEvent
<1>4. CASE eventAt.cycle = m_EventRing.cycle
  BY <1>0, <1>1, <1>2, <1>3, <1>4 DEF NumberAt
<1>5. CASE eventAt.cycle # m_EventRing.cycle
  <2>1. FirstEvent.cycle = m_EventRing.cycle /\ handled < posted
    BY <1>0, <1>1, <1>2, <1>5
  <2>. QED
    BY <1>0, <1>1, <1>2, <1>3, <1>5, <2>1 DEF NumberAt
<1>. QED
  BY <1>4, <1>5

\* The handler reads on.
LEMMA DequeueKeeps ==
  ASSUME EventRingKept(m_EventRing, eventAt, handled, posted), HasEvent
  PROVE  /\ EventRingKept(IncrementDequeue(m_EventRing), eventAt, handled + 1, posted)
         /\ IncrementDequeue(m_EventRing).trb = m_EventRing.trb
<1>. DEFINE new == IncrementDequeue(m_EventRing)
<1>0. EventCount \in Nat /\ EventCount > 1
  BY XhciAssumption
<1>1. /\ m_EventRing \in RingsOf(EventTRBs, EventCount - 1)
      /\ eventAt.at \in 0 .. EventCount - 1 /\ eventAt.cycle \in {0, 1}
      /\ m_EventRing.index \in 0 .. EventCount - 1 /\ m_EventRing.cycle \in {0, 1}
      /\ posted \in Nat /\ handled \in Nat /\ handled < posted
      /\ IF eventAt.cycle = m_EventRing.cycle THEN m_EventRing.index + posted - handled = eventAt.at
         ELSE eventAt.at < m_EventRing.index
              /\ m_EventRing.index + posted - handled = eventAt.at + EventCount
  BY EventsHandedOn DEF EventRingKept, EventsFit, HandlerFits, RingsOf, PlacesOf
<1>2. /\ new \in RingsOf(EventTRBs, EventCount - 1) /\ new.trb = m_EventRing.trb
      /\ IF m_EventRing.index + 1 = EventCount
           THEN new.index = 0 /\ new.cycle = 1 - m_EventRing.cycle
           ELSE new.index = m_EventRing.index + 1 /\ new.cycle = m_EventRing.cycle
  <2>1. CASE m_EventRing.index + 1 = EventCount
    <3>1. new = [m_EventRing EXCEPT !.index = 0, !.cycle = 1 - m_EventRing.cycle]
      BY <2>1 DEF IncrementDequeue
    <3>2. new = [trb |-> m_EventRing.trb, index |-> 0, cycle |-> 1 - m_EventRing.cycle]
      BY <1>1, <3>1 DEF RingsOf
    <3>. HIDE DEF new
    <3>. QED
      BY <1>0, <1>1, <2>1, <3>2 DEF RingsOf
  <2>2. CASE m_EventRing.index + 1 # EventCount
    <3>1. new = [m_EventRing EXCEPT !.index = m_EventRing.index + 1]
      BY <2>2 DEF IncrementDequeue
    <3>2. new = [trb |-> m_EventRing.trb, index |-> m_EventRing.index + 1, cycle |-> m_EventRing.cycle]
      BY <1>1, <3>1 DEF RingsOf
    <3>3. m_EventRing.index + 1 \in 0 .. EventCount - 1
      BY <1>0, <1>1, <2>2
    <3>. HIDE DEF new
    <3>. QED
      BY <1>1, <2>2, <3>2, <3>3 DEF RingsOf
  <2>. QED
    BY <2>1, <2>2
<1>. HIDE DEF new
<1>3. EventsFit(new, eventAt, posted)
  BY <1>2 DEF EventRingKept, EventsFit
<1>4. HandlerFits(new, eventAt, handled + 1, posted)
  BY <1>0, <1>1, <1>2 DEF HandlerFits
<1>. QED
  BY <1>2, <1>3, <1>4 DEF EventRingKept, new

\* The numbers of the events in the ring differ.
LEMMA EventNumbers ==
  ASSUME NEW ring, NEW pos, NEW p, EventsFit(ring, pos, p)
  PROVE  /\ \A i \in 0 .. EventCount - 1 : ring.trb[i].n \in 0 .. p
         /\ \A i, j \in 0 .. EventCount - 1 :
              ring.trb[i].n = ring.trb[j].n => i = j \/ ring.trb[i].n = 0
<1>0. EventCount \in Nat /\ EventCount > 1 /\ p \in Nat /\ pos.at <= p /\ pos.at \in 0 .. EventCount - 1
  BY XhciAssumption DEF EventsFit, PlacesOf
<1>1. \A i \in 0 .. EventCount - 1 : ring.trb[i].n = NumberAt(EventCount, pos.at, p, i)
  BY DEF EventsFit
<1>2. \A i \in 0 .. EventCount - 1 : ring.trb[i].n \in 0 .. p
  BY <1>0, <1>1 DEF NumberAt
<1>3. ASSUME NEW i \in 0 .. EventCount - 1, NEW j \in 0 .. EventCount - 1,
             ring.trb[i].n = ring.trb[j].n, ring.trb[i].n # 0
      PROVE  i = j
  <2>1. NumberAt(EventCount, pos.at, p, i) = NumberAt(EventCount, pos.at, p, j)
        /\ NumberAt(EventCount, pos.at, p, i) # 0
    BY <1>1, <1>3
  <2>. QED
    BY <1>0, <2>1 DEF NumberAt
<1>. QED
  BY <1>2, <1>3

\* The events that have not been read.
UnreadIn(trbs, h) == {i \in 0 .. EventCount - 1 : trbs[i].n > h}

\* A posted event is one more that has not been read, with the greatest number.
LEMMA PostUnread ==
  ASSUME NEW ring, NEW pos, NEW h, NEW p, EventRingKept(ring, pos, h, p), NEW event \in EventTRBs,
         NextOf(pos) # ring.index
  PROVE  LET new == Posted(ring, pos, p, event) IN
         /\ UnreadIn(new.trb, h) = UnreadIn(ring.trb, h) \cup {pos.at}
         /\ pos.at \notin UnreadIn(ring.trb, h)
         /\ \A i \in UnreadIn(ring.trb, h) : new.trb[i] = ring.trb[i] /\ new.trb[i].n <= p
         /\ new.trb[pos.at].n = p + 1
         /\ new.trb[pos.at].kind = event.kind /\ new.trb[pos.at].at = event.at
         /\ new.trb[pos.at].of = event.of /\ new.trb[pos.at].ok = event.ok
<1>. DEFINE new == Posted(ring, pos, p, event)
<1>1. /\ ring \in RingsOf(EventTRBs, EventCount - 1) /\ pos \in PlacesOf(EventCount - 1)
      /\ p \in Nat /\ h \in Nat /\ h <= p
  BY DEF EventRingKept, EventsFit, HandlerFits
<1>2. /\ \A i \in 0 .. EventCount - 1 : i # pos.at => new.trb[i] = ring.trb[i]
      /\ new.trb[pos.at].n = p + 1
      /\ new.trb[pos.at].kind = event.kind /\ new.trb[pos.at].at = event.at
      /\ new.trb[pos.at].of = event.of /\ new.trb[pos.at].ok = event.ok
  BY ONLY <1>1, PostedFields, event \in EventTRBs
<1>3. pos.at \in 0 .. EventCount - 1 /\ ring.trb[pos.at].n <= h
  BY PostKeeps
<1>4. \A i \in 0 .. EventCount - 1 : ring.trb[i].n \in 0 .. p
  BY EventNumbers DEF EventRingKept
<1>. HIDE DEF new
<1>5. pos.at \notin UnreadIn(ring.trb, h)
  BY <1>1, <1>3, <1>4 DEF UnreadIn
<1>6. UnreadIn(new.trb, h) = UnreadIn(ring.trb, h) \cup {pos.at}
  BY <1>1, <1>2, <1>3 DEF UnreadIn
<1>7. \A i \in UnreadIn(ring.trb, h) : new.trb[i] = ring.trb[i] /\ new.trb[i].n <= p
  BY <1>2, <1>4, <1>5 DEF UnreadIn
<1>. QED
  BY <1>2, <1>5, <1>6, <1>7 DEF new

\* The event that is read is no longer among those that have not been.
LEMMA DequeueUnread ==
  ASSUME EventRingKept(m_EventRing, eventAt, handled, posted), HasEvent
  PROVE  /\ m_EventRing.index \in UnreadIn(m_EventRing.trb, handled)
         /\ UnreadIn(m_EventRing.trb, handled + 1)
               = UnreadIn(m_EventRing.trb, handled) \ {m_EventRing.index}
<1>1. /\ m_EventRing.index \in 0 .. EventCount - 1 /\ handled \in Nat
      /\ m_EventRing.trb[m_EventRing.index].n = handled + 1
  BY EventsHandedOn DEF EventRingKept, EventsFit, HandlerFits, RingsOf, FirstEvent
<1>2. /\ \A i \in 0 .. EventCount - 1 : m_EventRing.trb[i].n \in 0 .. posted
      /\ \A i, j \in 0 .. EventCount - 1 :
           m_EventRing.trb[i].n = m_EventRing.trb[j].n => i = j \/ m_EventRing.trb[i].n = 0
  BY EventNumbers DEF EventRingKept
<1>3. posted \in Nat
  BY DEF EventRingKept, HandlerFits
<1>4. ASSUME NEW i \in 0 .. EventCount - 1
      PROVE  m_EventRing.trb[i].n > handled + 1
               <=> m_EventRing.trb[i].n > handled /\ i # m_EventRing.index
  <2>1. m_EventRing.trb[i].n = handled + 1 => i = m_EventRing.index
    BY <1>1, <1>2
  <2>2. m_EventRing.trb[i].n \in Nat
    BY <1>2, <1>3
  <2>. QED
    BY <1>1, <2>1, <2>2
<1>. QED
  BY <1>1, <1>4 DEF UnreadIn

\* A TRB of a request is put into the ring, and the index advances.
LEMMA EnqueueKeeps ==
  ASSUME NEW ring, NEW pos, NEW n, NEW m, RingKept(ring, TransferCount - 1, 0, pos, n, m),
         m - n < TransferCount - 2, NEW trb \in RequestTRBs, trb.n = m + 1
  PROVE  /\ RingKept(EnqueueTRB(ring, trb), TransferCount - 1, 0, pos, n, m + 1)
         /\ \A i \in 0 .. TransferCount - 2 :
              \/ EnqueueTRB(ring, trb).trb[i] = ring.trb[i]
              \/ /\ EnqueueTRB(ring, trb).trb[i].n = m + 1
                 /\ EnqueueTRB(ring, trb).trb[i].urb = trb.urb
                 /\ EnqueueTRB(ring, trb).trb[i].ioc = trb.ioc
<1>. DEFINE L == TransferCount - 1
            put == Put(ring, trb)
            next == IncrementEnqueue(put, L)
<1>1. L \in Nat \ {0} /\ TransferCount - 2 = L - 1
  BY XhciAssumption
<1>2. m \in Nat /\ n \in Nat
  BY DEF RingKept, ReaderFits
<1>. HIDE DEF L
<1>3. RingKept(ring, L, 0, pos, n, m) /\ m - n < L - 1
  BY <1>1 DEF L
<1>4. HasPlace(ring)
  BY <1>1, <1>3, RingHands
<1>5. EnqueueTRB(ring, trb) = next
  BY <1>4 DEF EnqueueTRB, L
<1>6. RingKept(put, L, 1, pos, n, m + 1)
  BY <1>1, <1>2, <1>3, PutKeeps
<1>7. RingKept(next, L, 0, pos, n, m + 1)
  <2>1. (m + 1) - n < L
    BY <1>1, <1>2, <1>3
  <2>. HIDE DEF put
  <2>. QED
    BY <1>1, <1>6, <2>1, IncrementEnqueueKeeps
<1>8. ring \in RingsOf(RequestTRBs, L) /\ ring.index < L /\ ring.index \in Nat
  BY <1>3 DEF RingKept, RingFits, RingsOf
<1>9. /\ put \in RingsOf(RequestTRBs, L) /\ put.index = ring.index
      /\ put.trb[ring.index].n = trb.n /\ put.trb[ring.index].urb = trb.urb
      /\ put.trb[ring.index].ioc = trb.ioc
      /\ \A i \in 0 .. L : i # ring.index => put.trb[i] = ring.trb[i]
  BY <1>1, <1>8, PutFields
<1>10. \A i \in 0 .. L - 1 : next.trb[i] = put.trb[i]
  <2>. HIDE DEF put
  <2>. QED
    BY <1>1, <1>8, <1>9, IncrementEnqueueFields
<1>. HIDE DEF put, next
<1>11. ASSUME NEW i \in 0 .. L - 1
       PROVE  \/ next.trb[i] = ring.trb[i]
              \/ /\ next.trb[i].n = m + 1 /\ next.trb[i].urb = trb.urb /\ next.trb[i].ioc = trb.ioc
  BY <1>1, <1>9, <1>10
<1>. QED
  BY <1>1, <1>5, <1>7, <1>11 DEF L

\* It keeps its type in any case.
LEMMA EnqueueTyped ==
  ASSUME NEW ring \in RingsOf(RequestTRBs, TransferCount - 1), ring.index < TransferCount - 1,
         NEW trb \in RequestTRBs
  PROVE  /\ EnqueueTRB(ring, trb) \in RingsOf(RequestTRBs, TransferCount - 1)
         /\ EnqueueTRB(ring, trb).index < TransferCount - 1
<1>. DEFINE L == TransferCount - 1
            put == Put(ring, trb)
            next == IncrementEnqueue(put, L)
<1>1. L \in Nat \ {0}
  BY XhciAssumption
<1>2. ring.index \in Nat
  BY <1>1 DEF RingsOf
<1>3. put \in RingsOf(RequestTRBs, L) /\ put.index = ring.index
  BY <1>1, PutFields
<1>4. next \in RingsOf(RequestTRBs, L) /\ next.index < L
  <2>1. /\ next \in RingsOf(RequestTRBs, L)
        /\ IF put.index + 1 = L THEN next.index = 0 ELSE next.index = put.index + 1
    <3>. HIDE DEF put, L
    <3>. QED
      BY <1>1, <1>3, IncrementEnqueueFields DEF L
  <2>. HIDE DEF put, next
  <2>. QED
    BY <1>1, <1>2, <1>3, <2>1
<1>. QED
  BY <1>4 DEF EnqueueTRB

-----------------------------------------------------------------------------
(* Transfers that are put into their ring                                   *)

\* The ring after k of n TRBs.
Ring1(n) == EnqueueTRB(m_pTransferRing, RequestTRB(1, n))
Ring2(n) == EnqueueTRB(Ring1(n), RequestTRB(2, n))
Ring3(n) == EnqueueTRB(Ring2(n), RequestTRB(3, n))
AfterPut(n) == IF n = 1 THEN Ring1(n) ELSE IF n = 2 THEN Ring2(n) ELSE Ring3(n)

\* What TransferAsync does to the ring, without the recursion, for it puts at most three TRBs there.
LEMMA TransferAsyncIs ==
  ASSUME NEW n \in 1 .. 3, NEW free, NEW stop, TransferAsync(n, free, stop)
  PROVE  /\ m_pTransferRing' = AfterPut(n) /\ inRing' = inRing + n
         /\ issued + submitted < MaxRequests
         /\ IF free THEN submitted' = submitted + 1 /\ m_pURB' = submitted' /\ xhciStuck' = stop
            ELSE xhciStuck' = TRUE /\ UNCHANGED <<submitted, m_pURB>>
<1>. DEFINE Put1(r, k) == EnqueueTRB(r, RequestTRB(k, n))
            after == CHOOSE f : f = [k \in 0 .. n |-> IF k = 0 THEN m_pTransferRing
                                                      ELSE Put1(f[k - 1], k)]
            g == [k \in 0 .. n |-> IF k = 0 THEN m_pTransferRing ELSE IF k = 1 THEN Ring1(n)
                                   ELSE IF k = 2 THEN Ring2(n) ELSE Ring3(n)]
<1>1. g = [k \in 0 .. n |-> IF k = 0 THEN m_pTransferRing ELSE Put1(g[k - 1], k)]
  <2>1. Ring1(n) = Put1(m_pTransferRing, 1) /\ Ring2(n) = Put1(Ring1(n), 2)
        /\ Ring3(n) = Put1(Ring2(n), 3)
    BY DEF Ring1, Ring2, Ring3
  <2>. HIDE DEF Put1
  <2>2. ASSUME NEW k \in 0 .. n
        PROVE  g[k] = IF k = 0 THEN m_pTransferRing ELSE Put1(g[k - 1], k)
    <3>1. k = 0 \/ k = 1 \/ k = 2 \/ k = 3
      OBVIOUS
    <3>. QED
      BY <2>1, <3>1
  <2>. HIDE DEF g
  <2>3. g = [k \in 0 .. n |-> g[k]]
    BY DEF g
  <2>. QED
    BY <2>2, <2>3
<1>2. after = [k \in 0 .. n |-> IF k = 0 THEN m_pTransferRing ELSE Put1(after[k - 1], k)]
  <2>. HIDE DEF Put1, g
  <2>. QED
    BY <1>1
<1>3. m_pTransferRing' = after[n]
  BY DEF TransferAsync
<1>. HIDE DEF after
<1>4. after[n] = AfterPut(n)
  <2>1. Ring1(n) = Put1(m_pTransferRing, 1) /\ Ring2(n) = Put1(Ring1(n), 2)
        /\ Ring3(n) = Put1(Ring2(n), 3)
    BY DEF Ring1, Ring2, Ring3
  <2>. HIDE DEF Put1
  <2>2. \A k \in 0 .. n : after[k] = IF k = 0 THEN m_pTransferRing ELSE Put1(after[k - 1], k)
    BY <1>2
  <2>3. after[0] = m_pTransferRing /\ after[1] = Ring1(n)
    BY <2>1, <2>2
  <2>4. n > 1 => after[2] = Ring2(n)
    BY <2>1, <2>2, <2>3
  <2>5. n > 2 => after[3] = Ring3(n)
    BY <2>1, <2>2, <2>4
  <2>. QED
    BY <2>3, <2>4, <2>5 DEF AfterPut
<1>. QED
  BY <1>3, <1>4 DEF TransferAsync

\* A TRB of a request has its type.
LEMMA RequestTRBTyped ==
  ASSUME NEW k \in 1 .. 3, NEW n \in 1 .. 3, inRing \in Nat, submitted \in Nat
  PROVE  /\ RequestTRB(k, n) \in RequestTRBs
         /\ RequestTRB(k, n).n = inRing + k /\ RequestTRB(k, n).urb = submitted + 1
         /\ RequestTRB(k, n).ioc <=> k = n
<1>. DEFINE last == (k = n)
            no == FALSE
            one == [NoTRBYet EXCEPT !.n = inRing + k]
            two == [one EXCEPT !.urb = submitted + 1]
<1>1. last \in BOOLEAN
  OBVIOUS
<1>2. RequestTRB(k, n) = [cycle |-> 0, n |-> inRing + k, urb |-> submitted + 1, ioc |-> last]
  <2>1. RequestTRB(k, n) = [two EXCEPT !.ioc = last]
    BY DEF RequestTRB
  <2>2. NoTRBYet = [cycle |-> 0, n |-> 0, urb |-> NoURB, ioc |-> no]
    BY DEF NoTRBYet
  <2>. HIDE DEF no, last, two, one
  <2>3. one = [cycle |-> 0, n |-> inRing + k, urb |-> NoURB, ioc |-> no]
    BY ONLY <2>2 DEF one
  <2>4. two = [cycle |-> 0, n |-> inRing + k, urb |-> submitted + 1, ioc |-> no]
    BY ONLY <2>3 DEF two
  <2>. QED
    BY ONLY <2>1, <2>4
<1>. HIDE DEF last
<1>3. RequestTRB(k, n).ioc = last
  BY <1>2
<1>4. /\ RequestTRB(k, n) \in RequestTRBs
      /\ RequestTRB(k, n).n = inRing + k /\ RequestTRB(k, n).urb = submitted + 1
  BY <1>1, <1>2 DEF RequestTRBs
<1>. QED
  BY <1>3, <1>4 DEF last

\* The TRBs are numbered on, of the new request, and only the last asks for an event.
LEMMA TransferAsyncKeeps ==
  ASSUME NEW n \in 1 .. 3, inRing \in Nat, submitted \in Nat,
         RingKept(m_pTransferRing, TransferCount - 1, 0, transferAt, taken, inRing),
         inRing - taken + n <= TransferCount - 2
  PROVE  /\ RingKept(AfterPut(n), TransferCount - 1, 0, transferAt, taken, inRing + n)
         /\ \A i \in 0 .. TransferCount - 2 : AfterPut(n).trb[i].n > inRing =>
              /\ AfterPut(n).trb[i].urb = submitted + 1
              /\ AfterPut(n).trb[i].ioc <=> AfterPut(n).trb[i].n = inRing + n
<1>. DEFINE L == TransferCount - 1
            New(ring, k) == \A i \in 0 .. TransferCount - 2 :
              \/ ring.trb[i].n <= inRing
              \/ \E j \in 1 .. k : /\ ring.trb[i].n = inRing + j /\ ring.trb[i].urb = submitted + 1
                                   /\ ring.trb[i].ioc <=> j = n
<1>1. taken \in Nat /\ L \in Nat \ {0} /\ TransferCount - 2 = L - 1
  BY XhciAssumption DEF RingKept, ReaderFits
<1>2. ASSUME NEW ring, NEW k \in 0 .. n - 1, RingKept(ring, L, 0, transferAt, taken, inRing + k),
             New(ring, k)
      PROVE  LET next == EnqueueTRB(ring, RequestTRB(k + 1, n)) IN
             RingKept(next, L, 0, transferAt, taken, inRing + (k + 1)) /\ New(next, k + 1)
  <2>. DEFINE trb == RequestTRB(k + 1, n)
              next == EnqueueTRB(ring, trb)
  <2>0. k + 1 \in 1 .. 3
    OBVIOUS
  <2>1. /\ trb \in RequestTRBs /\ trb.n = (inRing + k) + 1 /\ trb.urb = submitted + 1
        /\ trb.ioc <=> k + 1 = n
    BY <2>0, RequestTRBTyped
  <2>. HIDE DEF trb
  <2>2. (inRing + k) - taken < TransferCount - 2
    BY <1>1
  <2>3. /\ RingKept(next, L, 0, transferAt, taken, (inRing + k) + 1)
        /\ \A i \in 0 .. TransferCount - 2 :
             \/ next.trb[i] = ring.trb[i]
             \/ /\ next.trb[i].n = (inRing + k) + 1 /\ next.trb[i].urb = trb.urb
                /\ next.trb[i].ioc = trb.ioc
    BY <1>2, <2>1, <2>2, EnqueueKeeps
  <2>. HIDE DEF next
  <2>4. New(next, k + 1)
    <3>1. ASSUME NEW i \in 0 .. TransferCount - 2
          PROVE  \/ next.trb[i].n <= inRing
                 \/ \E j \in 1 .. k + 1 : /\ next.trb[i].n = inRing + j
                                          /\ next.trb[i].urb = submitted + 1
                                          /\ next.trb[i].ioc <=> j = n
      <4>1. CASE next.trb[i] = ring.trb[i]
        <5>1. \/ ring.trb[i].n <= inRing
              \/ \E j \in 1 .. k : /\ ring.trb[i].n = inRing + j /\ ring.trb[i].urb = submitted + 1
                                   /\ ring.trb[i].ioc <=> j = n
          BY <1>2
        <5>2. \A j \in 1 .. k : j \in 1 .. k + 1
          OBVIOUS
        <5>. QED
          BY <4>1, <5>1, <5>2
      <4>2. CASE /\ next.trb[i].n = (inRing + k) + 1 /\ next.trb[i].urb = trb.urb
                 /\ next.trb[i].ioc = trb.ioc
        <5>1. k + 1 \in 1 .. k + 1 /\ next.trb[i].n = inRing + (k + 1)
          BY <4>2
        <5>2. next.trb[i].urb = submitted + 1 /\ (next.trb[i].ioc <=> k + 1 = n)
          BY <2>1, <4>2
        <5>. QED
          BY <5>1, <5>2
      <4>. QED
        BY <2>3, <4>1, <4>2
    <3>. QED
      BY <3>1
  <2>5. RingKept(next, L, 0, transferAt, taken, inRing + (k + 1))
    <3>1. (inRing + k) + 1 = inRing + (k + 1)
      OBVIOUS
    <3>. QED
      BY <2>3, <3>1
  <2>. QED
    BY <2>4, <2>5 DEF next, trb
<1>3. RingKept(m_pTransferRing, L, 0, transferAt, taken, inRing + 0) /\ New(m_pTransferRing, 0)
  <2>1. \A i \in 0 .. L - 1 : m_pTransferRing.trb[i].n <= inRing
    <3>1. /\ m_pTransferRing.index + 0 <= inRing /\ m_pTransferRing.index \in Nat
          /\ \A i \in 0 .. L - 1 :
               m_pTransferRing.trb[i].n = NumberAt(L, m_pTransferRing.index + 0, inRing, i)
      BY <1>1 DEF RingKept, RingFits, RingsOf
    <3>. HIDE DEF L
    <3>. QED
      BY <1>1, <3>1 DEF NumberAt
  <2>. QED
    BY <1>1, <2>1
<1>. HIDE DEF New
<1>4. RingKept(Ring1(n), L, 0, transferAt, taken, inRing + 1) /\ New(Ring1(n), 1)
  <2>1. 0 \in 0 .. n - 1 /\ 0 + 1 = 1
    OBVIOUS
  <2>. HIDE DEF L
  <2>. QED
    BY <1>2, <1>3, <2>1 DEF Ring1
<1>5. n > 1 => RingKept(Ring2(n), L, 0, transferAt, taken, inRing + 2) /\ New(Ring2(n), 2)
  <2>1. n > 1 => 1 \in 0 .. n - 1 /\ 1 + 1 = 2
    OBVIOUS
  <2>. HIDE DEF L
  <2>. QED
    BY <1>2, <1>4, <2>1 DEF Ring2
<1>6. n > 2 => RingKept(Ring3(n), L, 0, transferAt, taken, inRing + 3) /\ New(Ring3(n), 3)
  <2>1. n > 2 => 2 \in 0 .. n - 1 /\ 2 + 1 = 3
    OBVIOUS
  <2>. HIDE DEF L
  <2>. QED
    BY <1>2, <1>5, <2>1 DEF Ring3
<1>7. RingKept(AfterPut(n), L, 0, transferAt, taken, inRing + n) /\ New(AfterPut(n), n)
  <2>1. n = 1 \/ n = 2 \/ n = 3
    OBVIOUS
  <2>. HIDE DEF L
  <2>. QED
    BY <1>4, <1>5, <1>6, <2>1 DEF AfterPut
<1>8. ASSUME NEW i \in 0 .. TransferCount - 2, AfterPut(n).trb[i].n > inRing
      PROVE  /\ AfterPut(n).trb[i].urb = submitted + 1
             /\ AfterPut(n).trb[i].ioc <=> AfterPut(n).trb[i].n = inRing + n
  <2>. DEFINE trb == AfterPut(n).trb[i]
  <2>0. trb.n \in Nat
    <3>1. AfterPut(n) \in RingsOf(RequestTRBs, L) /\ i \in 0 .. L
      BY <1>1, <1>7 DEF RingKept, RingFits
    <3>. HIDE DEF L
    <3>. QED
      BY <3>1 DEF RingsOf, RequestTRBs
  <2>1. \/ trb.n <= inRing
        \/ \E j \in 1 .. n : trb.n = inRing + j /\ trb.urb = submitted + 1 /\ (trb.ioc <=> j = n)
    BY <1>7 DEF New
  <2>. HIDE DEF trb
  <2>2. trb.n > inRing
    BY <1>8 DEF trb
  <2>3. PICK j \in 1 .. n : trb.n = inRing + j /\ trb.urb = submitted + 1 /\ (trb.ioc <=> j = n)
    BY <2>0, <2>1, <2>2
  <2>4. trb.n = inRing + n <=> j = n
    BY <2>0, <2>3
  <2>. QED
    BY <2>3, <2>4 DEF trb
<1>. QED
  BY <1>7, <1>8 DEF L

\* TransferAsync keeps the type of the ring, even of one without room.
LEMMA TransferAsyncTyped ==
  ASSUME NEW n \in 1 .. 3, inRing \in Nat, submitted \in Nat,
         m_pTransferRing \in RingsOf(RequestTRBs, TransferCount - 1),
         m_pTransferRing.index < TransferCount - 1
  PROVE  /\ AfterPut(n) \in RingsOf(RequestTRBs, TransferCount - 1)
         /\ AfterPut(n).index < TransferCount - 1
<1>. DEFINE Typed(ring) == /\ ring \in RingsOf(RequestTRBs, TransferCount - 1)
                           /\ ring.index < TransferCount - 1
<1>1. \A k \in 1 .. 3 : RequestTRB(k, n) \in RequestTRBs
  BY RequestTRBTyped
<1>2. ASSUME NEW ring, NEW k \in 1 .. 3, Typed(ring)  PROVE Typed(EnqueueTRB(ring, RequestTRB(k, n)))
  BY <1>1, <1>2, EnqueueTyped
<1>3. Typed(m_pTransferRing) /\ 1 \in 1 .. 3 /\ 2 \in 1 .. 3 /\ 3 \in 1 .. 3
  OBVIOUS
<1>. HIDE DEF Typed
<1>4. Typed(Ring1(n)) /\ Typed(Ring2(n)) /\ Typed(Ring3(n))
  BY <1>2, <1>3 DEF Ring1, Ring2, Ring3
<1>. QED
  BY <1>4 DEF AfterPut, Typed

-----------------------------------------------------------------------------
(* The inductive invariant                                                  *)

EventOf(i) == m_EventRing.trb[i]
UnreadEvents == UnreadIn(m_EventRing.trb, handled)
UnreadCommands == {i \in UnreadEvents : EventOf(i).kind = "command"}
UnreadTransfers == {i \in UnreadEvents : EventOf(i).kind = "transfer"}

EventsKept ==
  /\ EventRingKept(m_EventRing, eventAt, handled, posted)
  /\ ERDP = m_EventRing.index
  /\ \A i \in UnreadEvents : EventOf(i).kind \in {"command", "transfer"}

\* The command a in the ring is that which the controller has fetched last.
IsExecuted(a) ==
  executing = <<[at |-> a, n |-> fetched]>> /\ m_CmdRing.trb[a].n = fetched
ExecutingKept ==
  \/ executing = <<>>
  \/ answered < fetched /\ \E a \in 0 .. CmdCount - 2 : IsExecuted(a)
CommandTyped ==
  /\ doing \in {"idle", "written", "waits"} /\ m_bCommandCompleted \in BOOLEAN
  /\ m_pCurrentCommandTRB \in (0 .. CmdCount - 2) \cup {NoTRB}
  /\ answered \in Nat /\ answered <= fetched /\ issued - answered <= CmdCount - 2
\* The events for commands that have not been read are in order, each for a command that has been
\* fetched, is not executed any more and is still in its place.
CommandEventsKept ==
  /\ \A i \in UnreadCommands :
       /\ EventOf(i).of > answered /\ EventOf(i).of <= fetched
       /\ executing # <<>> => EventOf(i).of < fetched
       /\ EventOf(i).at \in 0 .. CmdCount - 2
       /\ m_CmdRing.trb[EventOf(i).at].n = EventOf(i).of
  /\ \A i, j \in UnreadCommands : EventOf(i).n < EventOf(j).n => EventOf(i).of < EventOf(j).of
\* DoCommand waits for the command that has been issued last.
WaitKept ==
  ~m_bCommandCompleted =>
    /\ doing = "waits" /\ m_pCurrentCommandTRB # NoTRB
    /\ m_CmdRing.trb[m_pCurrentCommandTRB].n = issued
BeingWritten == IF doing = "written" THEN 1 ELSE 0
CommandsKept ==
  /\ RingKept(m_CmdRing, CmdCount - 1, BeingWritten, cmdAt, fetched, issued)
  /\ CommandTyped /\ ExecutingKept /\ CommandEventsKept /\ WaitKept /\ AnswerTrue

\* While the endpoint runs, a request is in the ring or answered by an event, and nothing else is;
\* when an error has halted it, its rest and at most one more request are left in the ring.
TransfersKept ==
  /\ RingKept(m_pTransferRing, TransferCount - 1, 0, transferAt, taken, inRing)
  /\ \A i, j \in UnreadTransfers : i = j
  /\ \A i \in UnreadTransfers :
       m_pURB # NoURB /\ EventOf(i).of = submitted /\ (EventOf(i).ok <=> submitted \in done)
  /\ endpoint = "running" /\ (m_pURB = NoURB \/ UnreadTransfers # {}) => inRing = taken
  /\ endpoint = "running" /\ m_pURB # NoURB /\ UnreadTransfers = {} =>
       /\ inRing - taken \in 1 .. 3
       /\ \A i \in 0 .. TransferCount - 2 : m_pTransferRing.trb[i].n > taken =>
            /\ m_pTransferRing.trb[i].urb = submitted
            /\ m_pTransferRing.trb[i].ioc <=> m_pTransferRing.trb[i].n = inRing
  /\ endpoint = "halted" =>
       inRing - taken <= IF m_pURB # NoURB /\ UnreadTransfers = {} THEN 5 ELSE 2
  /\ m_pURB # NoURB /\ UnreadTransfers = {} => submitted \notin done
  /\ transferring /\ m_bTransferCompleted => m_pURB = NoURB
  /\ use = "Transfer" /\ ~transferring /\ m_pURB # NoURB => timedOut
  /\ use = "TransferAsync" => ~transferring /\ m_bTransferCompleted

\* What holds even when an assertion has failed, and then nothing happens any more.
RequestsKept ==
  /\ endpoint \in {"running", "halted"} /\ use \in {"Transfer", "TransferAsync"}
  /\ m_bTransferCompleted \in BOOLEAN /\ transferring \in BOOLEAN
  /\ timedOut \in BOOLEAN /\ xhciStuck \in BOOLEAN
  /\ issued \in Nat /\ submitted \in Nat /\ issued + submitted <= MaxRequests
  /\ inRing \in Nat /\ done \subseteq 1 .. submitted
  /\ m_pTransferRing \in RingsOf(RequestTRBs, TransferCount - 1)
  /\ m_pTransferRing.index < TransferCount - 1
  /\ transferAt \in PlacesOf(TransferCount - 1)
  /\ TransferTrue

XhciKept == EventsKept /\ CommandsKept /\ RequestsKept /\ (xhciStuck \/ TransfersKept)

\* It is what is to be proved, and more.
LEMMA XhciKeptIsRight == XhciKept => XhciTypeOK /\ XhciRight
<1>. SUFFICES ASSUME XhciKept  PROVE XhciTypeOK /\ XhciRight
  OBVIOUS
<1>1. /\ CmdCount - 1 \in Nat \ {0} /\ TransferCount - 1 \in Nat \ {0} /\ EventCount - 1 \in Nat
      /\ MaxRequests \in Nat /\ CmdCount \in Nat /\ TransferCount \in Nat
  BY XhciAssumption
<1>2. /\ RingHandsOn(m_CmdRing, CmdCount - 1, cmdAt, fetched, issued)
      /\ HasPlace(m_CmdRing) <=> BeingWritten = 0
  <2>1. BeingWritten \in {0, 1} /\ RingKept(m_CmdRing, CmdCount - 1, BeingWritten, cmdAt, fetched, issued)
    BY DEF XhciKept, CommandsKept, BeingWritten
  <2>. QED
    BY ONLY <1>1, <2>1, RingHands
<1>3. ~xhciStuck =>
        /\ RingHandsOn(m_pTransferRing, TransferCount - 1, transferAt, taken, inRing)
        /\ HasPlace(m_pTransferRing)
  <2>1. ~xhciStuck => RingKept(m_pTransferRing, TransferCount - 1, 0, transferAt, taken, inRing)
    BY DEF XhciKept, TransfersKept
  <2>. QED
    BY ONLY <1>1, <2>1, RingHands
<1>4. (handled < posted <=> HasEvent) /\ (HasEvent => FirstEvent.n = handled + 1)
  BY EventsHandedOn DEF XhciKept, EventsKept
<1>5. xhciStuck \/ RingsTrue
  BY <1>2, <1>3, <1>4 DEF RingsTrue, BeingWritten
<1>6. XhciRight
  BY <1>5 DEF XhciRight, XhciKept, CommandsKept, RequestsKept
<1>7. /\ m_CmdRing.index \in 0 .. CmdCount - 2 /\ m_CmdRing.cycle \in {0, 1}
      /\ cmdAt.at \in 0 .. CmdCount - 1 /\ cmdAt.cycle \in {0, 1}
  BY <1>1 DEF XhciKept, CommandsKept, RingKept, RingFits, ReaderFits, RingsOf, PlacesOf
<1>8. /\ m_pTransferRing.index \in 0 .. TransferCount - 2 /\ m_pTransferRing.cycle \in {0, 1}
      /\ transferAt.at \in 0 .. TransferCount - 1 /\ transferAt.cycle \in {0, 1}
  BY <1>1 DEF XhciKept, RequestsKept, RingsOf, PlacesOf
<1>9. /\ m_EventRing.index \in 0 .. EventCount - 1 /\ m_EventRing.cycle \in {0, 1}
      /\ eventAt.at \in 0 .. EventCount - 1 /\ eventAt.cycle \in {0, 1}
      /\ ERDP \in 0 .. EventCount - 1
  BY <1>1 DEF XhciKept, EventsKept, EventRingKept, EventsFit, RingsOf, PlacesOf
<1>10. Len(executing) <= 1
  <2>1. executing = <<>> \/ \E a \in 0 .. CmdCount - 2 : executing = <<[at |-> a, n |-> fetched]>>
    BY DEF XhciKept, CommandsKept, ExecutingKept, IsExecuted
  <2>2. CASE executing = <<>>
    BY <2>2
  <2>3. CASE executing # <<>>
    <3>1. PICK a \in 0 .. CmdCount - 2 : executing = <<[at |-> a, n |-> fetched]>>
      BY <2>1, <2>3
    <3>. DEFINE command == [at |-> a, n |-> fetched]
    <3>2. executing = <<command>>
      BY <3>1
    <3>. HIDE DEF command
    <3>. QED
      BY ONLY <3>2
  <2>. QED
    BY <2>2, <2>3
<1>11. /\ endpoint \in {"running", "halted"} /\ doing \in {"idle", "written", "waits"}
       /\ m_pCurrentCommandTRB \in 0 .. CmdCount - 2 \cup {NoTRB}
       /\ m_pURB \in 0 .. MaxRequests
       /\ good \cup done \subseteq 1 .. MaxRequests
       /\ {m_bCommandCompleted, m_bTransferCompleted, transferring, timedOut, xhciStuck}
            \subseteq BOOLEAN
  <2>1. submitted \in Nat /\ issued \in Nat /\ issued + submitted <= MaxRequests
        /\ done \subseteq 1 .. submitted /\ good \subseteq done /\ m_pURB \in {NoURB, submitted}
    BY DEF XhciKept, RequestsKept, TransferTrue
  <2>2. m_pURB \in 0 .. MaxRequests /\ good \cup done \subseteq 1 .. MaxRequests
    BY <1>1, <2>1 DEF NoURB
  <2>. QED
    BY <2>2 DEF XhciKept, RequestsKept, CommandsKept, CommandTyped
<1>12. XhciTypeOK
  BY <1>7, <1>8, <1>9, <1>10, <1>11 DEF XhciTypeOK
<1>. QED
  BY <1>6, <1>12

-----------------------------------------------------------------------------
(* Initially                                                                *)

\* A new ring is one to which nothing has been written.
LEMMA NewRingKept ==
  ASSUME NEW L \in Nat \ {0}, NEW count, count - 1 = L
  PROVE  RingKept(NewRing(count, NoTRBYet), L, 0, [at |-> 0, cycle |-> 1], 0, 0)
<1>. DEFINE ring == NewRing(count, NoTRBYet)
            pos == [at |-> 0, cycle |-> 1]
            no == FALSE
<1>1. NoTRBYet = [cycle |-> 0, n |-> 0, urb |-> 0, ioc |-> no]
  BY DEF NoTRBYet, NoURB
<1>2. no \in BOOLEAN
  OBVIOUS
<1>. HIDE DEF no
<1>3. NoTRBYet \in RequestTRBs /\ NoTRBYet.cycle = 0 /\ NoTRBYet.n = 0
  BY <1>1, <1>2 DEF RequestTRBs
<1>4. ring = [trb |-> [i \in 0 .. L |-> NoTRBYet], index |-> 0, cycle |-> 1]
  BY DEF NewRing
<1>. HIDE DEF ring
<1>5. /\ ring \in RingsOf(RequestTRBs, L) /\ ring.index = 0 /\ ring.cycle = 1
      /\ \A i \in 0 .. L : ring.trb[i] = NoTRBYet
  BY <1>3, <1>4 DEF RingsOf
<1>6. RingFits(ring, L, 0, 0)
  BY <1>3, <1>5 DEF RingFits, NumberAt
<1>7. pos \in PlacesOf(L) /\ pos.at = 0 /\ pos.cycle = 1
  BY DEF PlacesOf
<1>. HIDE DEF pos
<1>8. ReaderFits(ring, L, 0, pos, 0, 0)
  BY <1>5, <1>7 DEF ReaderFits
<1>. QED
  BY <1>6, <1>8 DEF RingKept, ring, pos

\* The invariant holds initially.
LEMMA XhciStarts == XhciInit => XhciKept
<1>. SUFFICES ASSUME XhciInit  PROVE XhciKept
  OBVIOUS
<1>. DEFINE pos == [at |-> 0, cycle |-> 1]
<1>1. /\ CmdCount - 1 \in Nat \ {0} /\ TransferCount - 1 \in Nat \ {0}
      /\ EventCount \in Nat /\ EventCount > 1 /\ CmdCount \in Nat /\ TransferCount \in Nat
      /\ CmdCount > 3 /\ MaxRequests \in Nat
  BY XhciAssumption
<1>2. cmdAt = pos /\ transferAt = pos /\ eventAt = pos
  BY DEF XhciInit
<1>3. RingKept(m_CmdRing, CmdCount - 1, BeingWritten, cmdAt, fetched, issued)
  BY <1>1, <1>2, NewRingKept DEF XhciInit, BeingWritten
<1>4. RingKept(m_pTransferRing, TransferCount - 1, 0, transferAt, taken, inRing)
  BY <1>1, <1>2, NewRingKept DEF XhciInit
<1>5. NoEventTRB \in EventTRBs /\ NoEventTRB.cycle = 0 /\ NoEventTRB.n = 0
  <2>. DEFINE no == FALSE
  <2>1. NoEventTRB = [cycle |-> 0, n |-> 0, kind |-> "none", at |-> NoTRB, of |-> 0, ok |-> no]
    BY DEF NoEventTRB
  <2>2. no \in BOOLEAN
    OBVIOUS
  <2>. HIDE DEF no
  <2>. QED
    BY <2>1, <2>2 DEF EventTRBs, NoTRB
<1>6. m_EventRing = [trb |-> [i \in 0 .. EventCount - 1 |-> NoEventTRB], index |-> 0, cycle |-> 1]
  BY DEF XhciInit, NewRing
<1>7. /\ m_EventRing \in RingsOf(EventTRBs, EventCount - 1) /\ m_EventRing.index = 0
      /\ m_EventRing.cycle = 1 /\ \A i \in 0 .. EventCount - 1 : m_EventRing.trb[i] = NoEventTRB
  BY <1>1, <1>5, <1>6 DEF RingsOf
<1>8. eventAt \in PlacesOf(EventCount - 1) /\ eventAt.at = 0 /\ eventAt.cycle = 1
  BY <1>1, <1>2 DEF PlacesOf
<1>9. posted = 0 /\ handled = 0 /\ ERDP = 0
  BY DEF XhciInit
<1>10. EventRingKept(m_EventRing, eventAt, handled, posted)
  <2>1. EventsFit(m_EventRing, eventAt, posted)
    BY <1>1, <1>5, <1>7, <1>8, <1>9 DEF EventsFit, NumberAt
  <2>2. HandlerFits(m_EventRing, eventAt, handled, posted)
    BY <1>1, <1>7, <1>8, <1>9 DEF HandlerFits
  <2>. QED
    BY <2>1, <2>2 DEF EventRingKept
<1>11. UnreadEvents = {}
  BY <1>5, <1>7, <1>9 DEF UnreadEvents, UnreadIn
<1>12. UnreadCommands = {} /\ UnreadTransfers = {}
  BY <1>11 DEF UnreadCommands, UnreadTransfers
<1>13. EventsKept
  BY <1>7, <1>9, <1>10, <1>11 DEF EventsKept
<1>14. CommandsKept
  <2>1. CommandTyped
    BY <1>1 DEF CommandTyped, XhciInit
  <2>2. ExecutingKept /\ WaitKept /\ AnswerTrue
    BY DEF ExecutingKept, WaitKept, AnswerTrue, XhciInit
  <2>3. CommandEventsKept
    BY <1>12 DEF CommandEventsKept
  <2>. QED
    BY <1>3, <2>1, <2>2, <2>3 DEF CommandsKept
<1>15. TransferTrue
  BY DEF TransferTrue, XhciInit, NoURB
<1>16. RequestsKept
  <2>1. /\ m_pTransferRing \in RingsOf(RequestTRBs, TransferCount - 1)
        /\ m_pTransferRing.index < TransferCount - 1
        /\ transferAt \in PlacesOf(TransferCount - 1)
    BY <1>4 DEF RingKept, RingFits, ReaderFits
  <2>2. /\ issued = 0 /\ submitted = 0 /\ inRing = 0 /\ done = {}
        /\ endpoint = "running" /\ use \in {"Transfer", "TransferAsync"}
    BY DEF XhciInit
  <2>3. /\ m_bTransferCompleted \in BOOLEAN /\ transferring \in BOOLEAN
        /\ timedOut \in BOOLEAN /\ xhciStuck \in BOOLEAN
    BY DEF XhciInit
  <2>4. issued + submitted <= MaxRequests /\ done \subseteq 1 .. submitted
    BY <1>1, <2>2
  <2>. QED
    BY <1>15, <2>1, <2>2, <2>3, <2>4 DEF RequestsKept
<1>17. TransfersKept
  BY <1>4, <1>12 DEF TransfersKept, XhciInit
<1>. QED
  BY <1>13, <1>14, <1>16, <1>17 DEF XhciKept

-----------------------------------------------------------------------------
(* What steps do to the events                                              *)

\* Those that have not been read go on without one.
LEMMA EventsPosted ==
  ASSUME EventsKept, NEW event \in EventTRBs, event.kind \in {"command", "transfer"}, Post(event)
  PROVE  /\ EventsKept'
         /\ UnreadEvents' = UnreadEvents \cup {eventAt.at} /\ eventAt.at \notin UnreadEvents
         /\ \A i \in UnreadEvents : EventOf(i)' = EventOf(i) /\ EventOf(i).n <= posted
         /\ \A i : i = eventAt.at =>
              /\ EventOf(i)'.n = posted + 1
              /\ EventOf(i)'.kind = event.kind /\ EventOf(i)'.at = event.at
              /\ EventOf(i)'.of = event.of /\ EventOf(i)'.ok = event.ok
<1>1. /\ NextOf(eventAt) # m_EventRing.index
      /\ m_EventRing' = Posted(m_EventRing, eventAt, posted, event)
      /\ eventAt' = Advanced(eventAt) /\ posted' = posted + 1
      /\ ERDP' = ERDP /\ handled' = handled
  BY DEF EventsKept, Post, NextOf, Posted, Advanced
<1>2. EventRingKept(m_EventRing, eventAt, handled, posted)
  BY DEF EventsKept
<1>3. EventRingKept(m_EventRing, eventAt, handled, posted)'
  BY <1>1, <1>2, PostKeeps
<1>4. /\ UnreadIn(m_EventRing'.trb, handled) = UnreadIn(m_EventRing.trb, handled) \cup {eventAt.at}
      /\ eventAt.at \notin UnreadIn(m_EventRing.trb, handled)
      /\ \A i \in UnreadIn(m_EventRing.trb, handled) :
           m_EventRing'.trb[i] = m_EventRing.trb[i] /\ m_EventRing'.trb[i].n <= posted
      /\ m_EventRing'.trb[eventAt.at].n = posted + 1
      /\ m_EventRing'.trb[eventAt.at].kind = event.kind /\ m_EventRing'.trb[eventAt.at].at = event.at
      /\ m_EventRing'.trb[eventAt.at].of = event.of /\ m_EventRing'.trb[eventAt.at].ok = event.ok
  BY <1>1, <1>2, PostUnread
<1>5. /\ UnreadEvents' = UnreadEvents \cup {eventAt.at} /\ eventAt.at \notin UnreadEvents
      /\ \A i \in UnreadEvents : EventOf(i)' = EventOf(i) /\ EventOf(i).n <= posted
  BY <1>1, <1>4 DEF UnreadEvents, EventOf
<1>6. \A i : i = eventAt.at =>
        /\ EventOf(i)'.n = posted + 1
        /\ EventOf(i)'.kind = event.kind /\ EventOf(i)'.at = event.at
        /\ EventOf(i)'.of = event.of /\ EventOf(i)'.ok = event.ok
  BY <1>4 DEF EventOf
<1>7. ERDP' = m_EventRing'.index
  <2>1. m_EventRing \in RingsOf(EventTRBs, EventCount - 1) /\ eventAt \in PlacesOf(EventCount - 1)
        /\ posted \in Nat
    BY <1>2 DEF EventRingKept, EventsFit
  <2>2. m_EventRing'.index = m_EventRing.index
    BY ONLY <1>1, <2>1, event \in EventTRBs, PostedFields
  <2>. QED
    BY <1>1, <2>2 DEF EventsKept
<1>8. \A i \in UnreadEvents' : EventOf(i)'.kind \in {"command", "transfer"}
  BY <1>5, <1>6 DEF EventsKept
<1>9. EventsKept'
  BY <1>3, <1>7, <1>8 DEF EventsKept
<1>. QED
  BY <1>5, <1>6, <1>9

\* The first of those that have not been read is read.
LEMMA EventsHandled ==
  ASSUME EventsKept, HasEvent, m_EventRing' = IncrementDequeue(m_EventRing),
         ERDP' = m_EventRing'.index, handled' = handled + 1, eventAt' = eventAt, posted' = posted
  PROVE  /\ EventsKept'
         /\ m_EventRing.index \in UnreadEvents /\ FirstEvent = EventOf(m_EventRing.index)
         /\ UnreadEvents' = UnreadEvents \ {m_EventRing.index}
         /\ \A i : EventOf(i)' = EventOf(i)
         /\ \A i \in UnreadEvents' : EventOf(i).n > FirstEvent.n
<1>1. EventRingKept(m_EventRing, eventAt, handled, posted)
  BY DEF EventsKept
<1>2. /\ EventRingKept(m_EventRing, eventAt, handled, posted)'
      /\ m_EventRing'.trb = m_EventRing.trb
  BY <1>1, DequeueKeeps
<1>3. /\ m_EventRing.index \in UnreadEvents
      /\ UnreadEvents' = UnreadEvents \ {m_EventRing.index}
  BY <1>1, <1>2, DequeueUnread DEF UnreadEvents
<1>4. \A i : EventOf(i)' = EventOf(i)
  BY <1>2 DEF EventOf
<1>5. \A i \in UnreadEvents' : EventOf(i).n > FirstEvent.n
  <2>1. FirstEvent.n = handled + 1
    BY <1>1, EventsHandedOn
  <2>2. \A i \in UnreadEvents' : EventOf(i)'.n > handled + 1
    BY DEF UnreadEvents, UnreadIn, EventOf
  <2>. QED
    BY <1>4, <2>1, <2>2
<1>6. EventsKept'
  BY <1>2, <1>3, <1>4 DEF EventsKept
<1>. QED
  BY <1>3, <1>4, <1>5, <1>6 DEF FirstEvent, EventOf

\* A step that leaves the ring of events alone leaves the unread ones as they are.
LEMMA EventsStay ==
  ASSUME UNCHANGED eventVars
  PROVE  /\ EventsKept => EventsKept'
         /\ UnreadEvents' = UnreadEvents /\ \A i : EventOf(i)' = EventOf(i)
         /\ UnreadCommands' = UnreadCommands /\ UnreadTransfers' = UnreadTransfers
<1>1. UnreadEvents' = UnreadEvents /\ \A i : EventOf(i)' = EventOf(i)
  BY DEF eventVars, UnreadEvents, UnreadIn, EventOf
<1>2. UnreadCommands' = UnreadCommands /\ UnreadTransfers' = UnreadTransfers
  BY <1>1 DEF UnreadCommands, UnreadTransfers
<1>3. EventsKept => EventsKept'
  BY <1>1 DEF EventsKept, eventVars
<1>. QED
  BY <1>1, <1>2, <1>3

-----------------------------------------------------------------------------
(* Commands                                                                 *)

\* Nothing changes of the commands, unless for a transfer.
LEMMA CommandsStay ==
  ASSUME CommandsKept, UNCHANGED cmdVars, UnreadCommands' \subseteq UnreadCommands,
         \A i \in UnreadCommands' : EventOf(i)' = EventOf(i)
  PROVE  CommandsKept'
<1>1. RingKept(m_CmdRing, CmdCount - 1, BeingWritten, cmdAt, fetched, issued)'
  BY DEF CommandsKept, cmdVars, BeingWritten
<1>2. CommandTyped' /\ ExecutingKept' /\ WaitKept' /\ AnswerTrue'
  BY DEF CommandsKept, cmdVars, CommandTyped, ExecutingKept, IsExecuted, WaitKept, AnswerTrue
<1>3. CommandEventsKept'
  BY DEF CommandsKept, CommandEventsKept, cmdVars
<1>. QED
  BY <1>1, <1>2, <1>3 DEF CommandsKept

\* The controller fetches the next command, which stays in its place while it is executed.
LEMMA FetchCommandKeeps ==
  ASSUME CommandsKept, FetchCommand
  PROVE  CommandsKept'
<1>. DEFINE p == Through(m_CmdRing, CmdCount - 1, cmdAt)
<1>1. CmdCount - 1 \in Nat \ {0} /\ CmdCount \in Nat
  BY XhciAssumption
<1>2. BeingWritten \in {0, 1}
      /\ RingKept(m_CmdRing, CmdCount - 1, BeingWritten, cmdAt, fetched, issued)
      /\ fetched \in Nat /\ issued \in Nat
  BY DEF CommandsKept, BeingWritten, RingKept, ReaderFits
<1>3. /\ RingKept(m_CmdRing, CmdCount - 1, BeingWritten, [p EXCEPT !.at = p.at + 1], fetched + 1, issued)
      /\ p.at \in 0 .. CmdCount - 2 /\ m_CmdRing.trb[p.at].n = fetched + 1
  <2>1. Sees(m_CmdRing, CmdCount - 1, cmdAt) /\ (CmdCount - 1) - 1 = CmdCount - 2
    BY <1>1 DEF FetchCommand
  <2>. QED
    BY ONLY <1>1, <1>2, <2>1, FetchKeeps
<1>4. /\ executing = <<>> /\ executing' = <<[at |-> p.at, n |-> fetched']>>
      /\ cmdAt' = [p EXCEPT !.at = p.at + 1] /\ fetched' = fetched + 1
  BY <1>3 DEF FetchCommand
<1>5. UNCHANGED <<m_CmdRing, issued, answered, doing, m_bCommandCompleted, m_pCurrentCommandTRB,
                  answer>> /\ UNCHANGED eventVars
  BY DEF FetchCommand
<1>. HIDE DEF p
<1>6. RingKept(m_CmdRing, CmdCount - 1, BeingWritten, cmdAt, fetched, issued)'
  BY <1>3, <1>4, <1>5 DEF BeingWritten
<1>7. CommandTyped'
  BY <1>2, <1>4, <1>5 DEF CommandsKept, CommandTyped
<1>8. ExecutingKept'
  <2>1. answered' < fetched'
    BY <1>2, <1>4, <1>5 DEF CommandsKept, CommandTyped
  <2>2. \A a : a = p.at => IsExecuted(a)'
    BY <1>3, <1>4, <1>5 DEF IsExecuted
  <2>. QED
    BY <1>3, <2>1, <2>2 DEF ExecutingKept
<1>9. CommandEventsKept'
  <2>1. UnreadCommands' = UnreadCommands /\ \A i : EventOf(i)' = EventOf(i)
    BY <1>5, EventsStay
  <2>2. ASSUME NEW i \in UnreadCommands'
        PROVE  /\ EventOf(i)'.of > answered' /\ EventOf(i)'.of < fetched' /\ EventOf(i)'.of <= fetched'
               /\ EventOf(i)'.at \in 0 .. CmdCount - 2
               /\ m_CmdRing'.trb[EventOf(i)'.at].n = EventOf(i)'.of
    <3>1. /\ EventOf(i).of > answered /\ EventOf(i).of <= fetched
          /\ EventOf(i).at \in 0 .. CmdCount - 2
          /\ m_CmdRing.trb[EventOf(i).at].n = EventOf(i).of
      BY <2>1 DEF CommandsKept, CommandEventsKept
    <3>2. m_CmdRing.trb[EventOf(i).at].n \in Nat
      <4>1. m_CmdRing.trb \in [0 .. CmdCount - 1 -> RequestTRBs]
        BY <1>2 DEF RingKept, RingFits, RingsOf
      <4>2. m_CmdRing.trb[EventOf(i).at] \in RequestTRBs
        BY <1>1, <3>1, <4>1
      <4>. QED
        BY <4>2 DEF RequestTRBs
    <3>. QED
      BY <1>2, <1>4, <1>5, <2>1, <3>1, <3>2
  <2>3. \A i, j \in UnreadCommands' : EventOf(i)'.n < EventOf(j)'.n => EventOf(i)'.of < EventOf(j)'.of
    BY <2>1 DEF CommandsKept, CommandEventsKept
  <2>. QED
    BY <2>2, <2>3 DEF CommandEventsKept
<1>10. WaitKept' /\ AnswerTrue'
  BY <1>5 DEF CommandsKept, WaitKept, AnswerTrue
<1>. QED
  BY <1>6, <1>7, <1>8, <1>9, <1>10 DEF CommandsKept

\* The events that the controller posts.
CommandDone(at, of) == [NoEventTRB EXCEPT !.kind = "command", !.at = at, !.of = of]
TransferDone(of) == [NoEventTRB EXCEPT !.kind = "transfer", !.of = of, !.ok = TRUE]
TransferFailed(of) == [NoEventTRB EXCEPT !.kind = "transfer", !.of = of]

\* Each kind of event may be posted: it has the type of an event.
LEMMA PostedEvents ==
  ASSUME NEW at \in Int, NEW of \in Nat
  PROVE  /\ CommandDone(at, of) \in EventTRBs /\ CommandDone(at, of).kind = "command"
         /\ CommandDone(at, of).at = at /\ CommandDone(at, of).of = of
         /\ TransferDone(of) \in EventTRBs /\ TransferDone(of).kind = "transfer"
         /\ TransferDone(of).of = of /\ TransferDone(of).ok
         /\ TransferFailed(of) \in EventTRBs /\ TransferFailed(of).kind = "transfer"
         /\ TransferFailed(of).of = of /\ ~TransferFailed(of).ok
<1>. DEFINE no == FALSE
            yes == TRUE
            c1 == [NoEventTRB EXCEPT !.kind = "command"]
            c2 == [c1 EXCEPT !.at = at]
            t1 == [NoEventTRB EXCEPT !.kind = "transfer"]
            t2 == [t1 EXCEPT !.of = of]
<1>1. NoEventTRB = [cycle |-> 0, n |-> 0, kind |-> "none", at |-> NoTRB, of |-> 0, ok |-> no]
  BY DEF NoEventTRB
<1>2. no \in BOOLEAN /\ yes \in BOOLEAN /\ ~no /\ yes /\ NoTRB \in Int
  BY DEF NoTRB
<1>3. CommandDone(at, of) = [c2 EXCEPT !.of = of]
  BY DEF CommandDone
<1>4. TransferFailed(of) = t2 /\ TransferDone(of) = [t2 EXCEPT !.ok = yes]
  BY DEF TransferFailed, TransferDone
<1>. HIDE DEF no, yes, c2, t2
<1>5. c1 = [cycle |-> 0, n |-> 0, kind |-> "command", at |-> NoTRB, of |-> 0, ok |-> no]
      /\ t1 = [cycle |-> 0, n |-> 0, kind |-> "transfer", at |-> NoTRB, of |-> 0, ok |-> no]
  BY ONLY <1>1
<1>. HIDE DEF c1, t1
<1>6. c2 = [cycle |-> 0, n |-> 0, kind |-> "command", at |-> at, of |-> 0, ok |-> no]
  BY ONLY <1>5 DEF c2
<1>7. CommandDone(at, of) = [cycle |-> 0, n |-> 0, kind |-> "command", at |-> at, of |-> of, ok |-> no]
  BY ONLY <1>3, <1>6
<1>8. t2 = [cycle |-> 0, n |-> 0, kind |-> "transfer", at |-> NoTRB, of |-> of, ok |-> no]
  BY ONLY <1>5 DEF t2
<1>9. TransferDone(of) = [cycle |-> 0, n |-> 0, kind |-> "transfer", at |-> NoTRB, of |-> of, ok |-> yes]
  BY ONLY <1>4, <1>8
<1>10. TransferDone(of).ok = yes /\ TransferFailed(of).ok = no
  BY ONLY <1>4, <1>8, <1>9
<1>. HIDE DEF NoTRB
<1>11. /\ CommandDone(at, of) \in EventTRBs /\ TransferDone(of) \in EventTRBs
       /\ TransferFailed(of) \in EventTRBs
  <2>1. ASSUME NEW kind \in {"none", "command", "transfer"}, NEW place \in Int, NEW ok \in BOOLEAN
        PROVE  [cycle |-> 0, n |-> 0, kind |-> kind, at |-> place, of |-> of, ok |-> ok] \in EventTRBs
    BY DEF EventTRBs
  <2>2. "command" \in {"none", "command", "transfer"} /\ "transfer" \in {"none", "command", "transfer"}
    OBVIOUS
  <2>3. CommandDone(at, of) \in EventTRBs
    BY ONLY <1>2, <1>7, <2>1, <2>2, at \in Int
  <2>4. TransferDone(of) \in EventTRBs
    BY ONLY <1>2, <1>9, <2>1, <2>2
  <2>5. TransferFailed(of) \in EventTRBs
    BY ONLY <1>2, <1>4, <1>8, <2>1, <2>2
  <2>. QED
    BY ONLY <2>3, <2>4, <2>5
<1>12. /\ CommandDone(at, of).kind = "command" /\ CommandDone(at, of).at = at
       /\ CommandDone(at, of).of = of
       /\ TransferDone(of).kind = "transfer" /\ TransferDone(of).of = of
       /\ TransferFailed(of).kind = "transfer" /\ TransferFailed(of).of = of
  BY ONLY <1>4, <1>7, <1>8, <1>9
<1>. QED
  BY <1>2, <1>10, <1>11, <1>12

\* The event of an executed command is the last of those of commands that have not been read.
LEMMA ExecuteCommandKeeps ==
  ASSUME EventsKept, CommandsKept, ExecuteCommand
  PROVE  EventsKept' /\ CommandsKept' /\ UnreadTransfers' = UnreadTransfers
         /\ \A i \in UnreadTransfers : EventOf(i)' = EventOf(i)
<1>1. PICK a \in 0 .. CmdCount - 2 : IsExecuted(a)
  BY DEF CommandsKept, ExecutingKept, ExecuteCommand
<1>2. answered < fetched /\ executing # <<>> /\ fetched \in Nat /\ issued \in Nat /\ a \in Int
      /\ CmdCount \in Nat
  BY XhciAssumption
     DEF CommandsKept, ExecutingKept, ExecuteCommand, RingKept, ReaderFits
<1>3. executing[1].at = a /\ executing[1].n = fetched /\ m_CmdRing.trb[a].n = fetched
  BY <1>1 DEF IsExecuted
<1>4. Post(CommandDone(a, fetched))
  BY <1>3 DEF ExecuteCommand, CommandDone
<1>5. /\ executing' = <<>>
      /\ UNCHANGED <<m_CmdRing, cmdAt, issued, fetched, answered, doing, m_bCommandCompleted,
                     m_pCurrentCommandTRB, answer>>
  BY DEF ExecuteCommand
<1>. DEFINE event == CommandDone(a, fetched)
<1>6. event \in EventTRBs /\ event.kind = "command" /\ event.at = a /\ event.of = fetched
  BY <1>2, PostedEvents
<1>. HIDE DEF event
<1>7. /\ EventsKept'
      /\ UnreadEvents' = UnreadEvents \cup {eventAt.at} /\ eventAt.at \notin UnreadEvents
      /\ \A i \in UnreadEvents : EventOf(i)' = EventOf(i) /\ EventOf(i).n <= posted
      /\ \A i : i = eventAt.at =>
           /\ EventOf(i)'.n = posted + 1
           /\ EventOf(i)'.kind = "command" /\ EventOf(i)'.at = a /\ EventOf(i)'.of = fetched
  <2>1. Post(event)
    BY <1>4 DEF event
  <2>. QED
    BY <1>6, <2>1, EventsPosted
<1>8. /\ UnreadTransfers' = UnreadTransfers /\ \A i \in UnreadTransfers : EventOf(i)' = EventOf(i)
      /\ \A i \in UnreadCommands' : i \in UnreadCommands \/ i = eventAt.at
      /\ \A i \in UnreadCommands : EventOf(i)' = EventOf(i) /\ EventOf(i).n <= posted
                                  /\ i # eventAt.at
  BY <1>7 DEF UnreadTransfers, UnreadCommands
<1>9. posted \in Nat /\ \A i \in UnreadEvents : EventOf(i).n \in Nat
  <2>1. posted \in Nat
    BY DEF EventsKept, EventRingKept, HandlerFits
  <2>. QED
    BY <2>1, EventNumbers DEF EventsKept, EventRingKept, EventOf, UnreadEvents, UnreadIn
<1>10. RingKept(m_CmdRing, CmdCount - 1, BeingWritten, cmdAt, fetched, issued)'
  BY <1>5 DEF CommandsKept, BeingWritten
<1>11. CommandTyped' /\ ExecutingKept' /\ WaitKept' /\ AnswerTrue'
  BY <1>5 DEF CommandsKept, CommandTyped, ExecutingKept, WaitKept, AnswerTrue
<1>12. ASSUME NEW i \in UnreadCommands'
       PROVE  /\ EventOf(i)'.of > answered /\ EventOf(i)'.of <= fetched
              /\ EventOf(i)'.at \in 0 .. CmdCount - 2
              /\ m_CmdRing.trb[EventOf(i)'.at].n = EventOf(i)'.of
  <2>1. CASE i \in UnreadCommands
    BY <1>8, <2>1 DEF CommandsKept, CommandEventsKept
  <2>2. CASE i = eventAt.at
    BY <1>2, <1>3, <1>7, <2>2 DEF CommandsKept, CommandTyped
  <2>. QED
    BY <1>8, <2>1, <2>2
<1>13. ASSUME NEW i \in UnreadCommands', NEW j \in UnreadCommands', EventOf(i)'.n < EventOf(j)'.n
       PROVE  EventOf(i)'.of < EventOf(j)'.of
  <2>1. CASE i \in UnreadCommands /\ j \in UnreadCommands
    BY <1>8, <1>13, <2>1 DEF CommandsKept, CommandEventsKept
  <2>2. CASE i \in UnreadCommands /\ j = eventAt.at
    BY <1>2, <1>7, <1>8, <2>2 DEF CommandsKept, CommandEventsKept
  <2>3. CASE i = eventAt.at
    <3>1. EventOf(j)'.n <= posted + 1 /\ EventOf(i)'.n = posted + 1
      BY <1>7, <1>8, <1>9, <2>3 DEF UnreadCommands
    <3>2. EventOf(j)'.n \in Int
      BY <1>7, <1>8, <1>9 DEF UnreadCommands
    <3>. QED
      BY <1>9, <1>13, <3>1, <3>2
  <2>. QED
    BY <1>8, <2>1, <2>2, <2>3
<1>14. CommandEventsKept'
  BY <1>5, <1>12, <1>13 DEF CommandEventsKept
<1>. QED
  BY <1>7, <1>8, <1>10, <1>11, <1>14 DEF CommandsKept

\* A command has its type.
LEMMA CommandTRBTyped ==
  ASSUME NEW n \in Nat
  PROVE  [NoTRBYet EXCEPT !.n = n, !.ioc = TRUE] \in RequestTRBs
         /\ [NoTRBYet EXCEPT !.n = n, !.ioc = TRUE].n = n
<1>. DEFINE no == FALSE
            yes == TRUE
            one == [NoTRBYet EXCEPT !.n = n]
            two == [NoTRBYet EXCEPT !.n = n, !.ioc = TRUE]
<1>1. NoTRBYet = [cycle |-> 0, n |-> 0, urb |-> 0, ioc |-> no]
  BY DEF NoTRBYet, NoURB
<1>2. two = [one EXCEPT !.ioc = yes]
  OBVIOUS
<1>3. yes \in BOOLEAN
  OBVIOUS
<1>. HIDE DEF no, yes, two, one
<1>4. one = [cycle |-> 0, n |-> n, urb |-> 0, ioc |-> no]
  BY ONLY <1>1 DEF one
<1>5. two = [cycle |-> 0, n |-> n, urb |-> 0, ioc |-> yes]
  BY ONLY <1>2, <1>4
<1>6. two \in RequestTRBs /\ two.n = n
  BY ONLY <1>3, <1>5, n \in Nat DEF RequestTRBs
<1>. QED
  BY <1>6 DEF two

\* The place that is written next does not hold a command that may be answered.
LEMMA DoCommandKeeps ==
  ASSUME CommandsKept, DoCommand
  PROVE  CommandsKept'
<1>. DEFINE L == CmdCount - 1
            trb == [NoTRBYet EXCEPT !.n = issued', !.ioc = TRUE]
<1>1. L \in Nat \ {0} /\ CmdCount \in Nat /\ CmdCount - 2 = L - 1 /\ L > 2
  BY XhciAssumption
<1>2. /\ doing = "idle" /\ doing' = "written" /\ issued' = issued + 1
      /\ issued - answered < CmdCount - 2 /\ m_CmdRing' = Put(m_CmdRing, trb)
      /\ UNCHANGED <<cmdAt, executing, fetched, answered, m_bCommandCompleted,
                     m_pCurrentCommandTRB, answer>> /\ UNCHANGED eventVars
  BY DEF DoCommand
<1>3. BeingWritten = 0 /\ BeingWritten' = 1
  BY <1>2 DEF BeingWritten
<1>4. RingKept(m_CmdRing, L, 0, cmdAt, fetched, issued)
  BY <1>3 DEF CommandsKept
<1>5. issued \in Nat /\ fetched \in Nat /\ answered \in Nat /\ answered <= fetched
  BY <1>4 DEF RingKept, ReaderFits, CommandsKept, CommandTyped
<1>6. trb \in RequestTRBs /\ trb.n = issued + 1
  <2>1. issued' \in Nat
    BY <1>2, <1>5
  <2>. QED
    BY <1>2, <2>1, CommandTRBTyped
<1>. HIDE DEF trb, L
<1>7. RingKept(m_CmdRing', L, 1, cmdAt, fetched, issued + 1)
  <2>1. issued - fetched < L
    BY <1>1, <1>2, <1>5
  <2>. QED
    BY <1>1, <1>2, <1>4, <1>6, <2>1, PutKeeps
<1>8. ASSUME NEW x \in 0 .. L - 1, m_CmdRing.trb[x].n > answered
      PROVE  m_CmdRing'.trb[x] = m_CmdRing.trb[x]
  <2>1. m_CmdRing \in RingsOf(RequestTRBs, L) /\ m_CmdRing.index < L /\ m_CmdRing.index \in Nat
    BY <1>4 DEF RingKept, RingFits, RingsOf
  <2>2. m_CmdRing.trb[m_CmdRing.index].n = NumberAt(L, m_CmdRing.index + 0, issued, m_CmdRing.index)
    BY <1>1, <1>4, <2>1 DEF RingKept, RingFits
  <2>3. x # m_CmdRing.index
    BY <1>1, <1>2, <1>5, <1>8, <2>1, <2>2 DEF NumberAt
  <2>. QED
    BY <1>1, <1>2, <1>6, <2>1, <2>3, PutFields
<1>9. RingKept(m_CmdRing, CmdCount - 1, BeingWritten, cmdAt, fetched, issued)'
  BY <1>2, <1>3, <1>7 DEF L
<1>10. CommandTyped'
  BY <1>1, <1>2, <1>5 DEF CommandsKept, CommandTyped
<1>11. ExecutingKept'
  <2>1. CASE executing = <<>>
    BY <1>2, <2>1 DEF ExecutingKept
  <2>2. CASE executing # <<>>
    <3>1. PICK a \in 0 .. CmdCount - 2 : IsExecuted(a)
      BY <2>2 DEF CommandsKept, ExecutingKept
    <3>2. answered < fetched /\ m_CmdRing.trb[a].n = fetched
      BY <2>2, <3>1 DEF CommandsKept, ExecutingKept, IsExecuted
    <3>3. m_CmdRing'.trb[a] = m_CmdRing.trb[a]
      BY <1>1, <1>5, <1>8, <3>2
    <3>4. IsExecuted(a)'
      BY <1>2, <3>1, <3>3 DEF IsExecuted
    <3>. QED
      BY <1>2, <3>2, <3>4 DEF ExecutingKept
  <2>. QED
    BY <2>1, <2>2
<1>12. CommandEventsKept'
  <2>1. UnreadCommands' = UnreadCommands /\ \A i : EventOf(i)' = EventOf(i)
    BY <1>2, EventsStay
  <2>2. ASSUME NEW i \in UnreadCommands
        PROVE  m_CmdRing'.trb[EventOf(i).at].n = EventOf(i).of
    BY <1>1, <1>8 DEF CommandsKept, CommandEventsKept
  <2>. QED
    BY <1>2, <2>1, <2>2 DEF CommandsKept, CommandEventsKept
<1>13. WaitKept' /\ AnswerTrue'
  BY <1>2 DEF CommandsKept, WaitKept, AnswerTrue
<1>. QED
  BY <1>9, <1>10, <1>11, <1>12, <1>13 DEF CommandsKept

\* The index advances and the door bell rings: from now on the command may be fetched.
LEMMA CommandStartsKeeps ==
  ASSUME CommandsKept, CommandStarts
  PROVE  CommandsKept'
<1>. DEFINE L == CmdCount - 1
<1>1. L \in Nat \ {0} /\ CmdCount \in Nat /\ CmdCount - 2 = L - 1 /\ L > 2
  BY XhciAssumption
<1>2. /\ doing = "written" /\ doing' = "waits" /\ m_pCurrentCommandTRB' = m_CmdRing.index
      /\ m_bCommandCompleted' = FALSE /\ m_CmdRing' = IncrementEnqueue(m_CmdRing, L)
      /\ UNCHANGED <<cmdAt, executing, issued, fetched, answered, answer>> /\ UNCHANGED eventVars
  BY DEF CommandStarts
<1>3. BeingWritten = 1 /\ BeingWritten' = 0
  BY <1>2 DEF BeingWritten
<1>4. RingKept(m_CmdRing, L, 1, cmdAt, fetched, issued)
  BY <1>3 DEF CommandsKept
<1>5. /\ issued \in Nat /\ fetched \in Nat /\ answered \in Nat /\ answered <= fetched
      /\ issued - answered <= L - 1
  BY <1>1, <1>4 DEF RingKept, ReaderFits, CommandsKept, CommandTyped
<1>6. /\ m_CmdRing \in RingsOf(RequestTRBs, L) /\ m_CmdRing.index < L /\ m_CmdRing.index \in Nat
  BY <1>4 DEF RingKept, RingFits, RingsOf
<1>7. m_CmdRing.trb[m_CmdRing.index].n = issued
  <2>1. m_CmdRing.trb[m_CmdRing.index].n = NumberAt(L, m_CmdRing.index + 1, issued, m_CmdRing.index)
    BY <1>1, <1>4, <1>6 DEF RingKept, RingFits
  <2>. QED
    BY <1>1, <1>5, <1>6, <2>1 DEF NumberAt
<1>. HIDE DEF L
<1>8. RingKept(m_CmdRing', L, 0, cmdAt, fetched, issued)
  <2>1. issued - fetched < L
    BY <1>1, <1>5
  <2>. QED
    BY <1>1, <1>2, <1>4, <2>1, IncrementEnqueueKeeps
<1>9. \A x \in 0 .. CmdCount - 2 : m_CmdRing'.trb[x] = m_CmdRing.trb[x]
  BY <1>1, <1>2, <1>6, IncrementEnqueueFields
<1>10. RingKept(m_CmdRing, CmdCount - 1, BeingWritten, cmdAt, fetched, issued)'
  BY <1>2, <1>3, <1>8 DEF L
<1>11. CommandTyped'
  <2>1. m_CmdRing.index \in 0 .. CmdCount - 2
    BY <1>1, <1>6
  <2>2. m_bCommandCompleted' \in BOOLEAN /\ doing' \in {"idle", "written", "waits"}
    BY <1>2
  <2>. QED
    BY <1>2, <2>1, <2>2 DEF CommandsKept, CommandTyped
<1>12. ExecutingKept'
  BY <1>2, <1>9 DEF CommandsKept, ExecutingKept, IsExecuted
<1>13. CommandEventsKept'
  <2>1. UnreadCommands' = UnreadCommands /\ \A i : EventOf(i)' = EventOf(i)
    BY <1>2, EventsStay
  <2>. QED
    BY <1>2, <1>9, <2>1 DEF CommandsKept, CommandEventsKept
<1>14. WaitKept'
  <2>1. m_CmdRing.index # NoTRB /\ m_CmdRing.index \in 0 .. CmdCount - 2
    BY <1>1, <1>6 DEF NoTRB
  <2>. QED
    BY <1>2, <1>7, <1>9, <2>1 DEF WaitKept
<1>15. AnswerTrue'
  BY <1>2 DEF AnswerTrue
<1>. QED
  BY <1>10, <1>11, <1>12, <1>13, <1>14, <1>15 DEF CommandsKept

\* DoCommand returns, with the answer or without one.
LEMMA CommandEndsKeeps ==
  ASSUME CommandsKept, CommandReturns \/ CommandTimesOut
  PROVE  CommandsKept'
<1>1. /\ doing = "waits" /\ doing' = "idle" /\ m_bCommandCompleted' /\ m_bCommandCompleted' \in BOOLEAN
      /\ m_pCurrentCommandTRB' \in {m_pCurrentCommandTRB, NoTRB}
      /\ UNCHANGED <<m_CmdRing, cmdAt, executing, issued, fetched, answered, answer>>
      /\ UNCHANGED eventVars
  BY DEF CommandReturns, CommandTimesOut, CommandsKept, CommandTyped
<1>2. BeingWritten' = BeingWritten
  BY <1>1 DEF BeingWritten
<1>3. RingKept(m_CmdRing, CmdCount - 1, BeingWritten, cmdAt, fetched, issued)'
  BY <1>1, <1>2 DEF CommandsKept
<1>4. CommandTyped' /\ ExecutingKept' /\ WaitKept' /\ AnswerTrue'
  BY <1>1 DEF CommandsKept, CommandTyped, ExecutingKept, IsExecuted, WaitKept, AnswerTrue
<1>5. CommandEventsKept'
  <2>1. UnreadCommands' = UnreadCommands /\ \A i : EventOf(i)' = EventOf(i)
    BY <1>1, EventsStay
  <2>. QED
    BY <1>1, <2>1 DEF CommandsKept, CommandEventsKept
<1>. QED
  BY <1>3, <1>4, <1>5 DEF CommandsKept

\* An event at the place of the command that DoCommand waits for is for that command.
LEMMA CommandCompletedKeeps ==
  ASSUME EventsKept, CommandsKept, HandleEvents, FirstEvent.kind = "command"
  PROVE  EventsKept' /\ CommandsKept' /\ UnreadTransfers' = UnreadTransfers
         /\ (\A i : EventOf(i)' = EventOf(i)) /\ UNCHANGED transferVars
<1>. DEFINE e == m_EventRing.index
<1>1. /\ HasEvent /\ m_EventRing' = IncrementDequeue(m_EventRing) /\ ERDP' = m_EventRing'.index
      /\ handled' = handled + 1 /\ eventAt' = eventAt /\ posted' = posted
      /\ CommandCompleted(FirstEvent) /\ UNCHANGED transferVars
      /\ UNCHANGED <<m_CmdRing, cmdAt, executing, issued, fetched, doing>>
  BY DEF HandleEvents
<1>2. /\ EventsKept' /\ e \in UnreadEvents /\ FirstEvent = EventOf(e)
      /\ UnreadEvents' = UnreadEvents \ {e} /\ \A i : EventOf(i)' = EventOf(i)
      /\ \A i \in UnreadEvents' : EventOf(i).n > FirstEvent.n
  BY <1>1, EventsHandled
<1>. HIDE DEF e
<1>3. /\ e \in UnreadCommands /\ UnreadCommands' = UnreadCommands \ {e}
      /\ UnreadTransfers' = UnreadTransfers
  BY <1>2 DEF UnreadCommands, UnreadTransfers
<1>4. /\ FirstEvent.of > answered /\ FirstEvent.of <= fetched
      /\ executing # <<>> => FirstEvent.of < fetched
      /\ FirstEvent.at \in 0 .. CmdCount - 2
      /\ m_CmdRing.trb[FirstEvent.at].n = FirstEvent.of
  BY <1>2, <1>3 DEF CommandsKept, CommandEventsKept
<1>5. FirstEvent.of \in Nat /\ fetched \in Nat /\ issued \in Nat /\ answered \in Nat
  <2>1. FirstEvent \in EventTRBs
    BY <1>2 DEF EventsKept, EventRingKept, EventsFit, RingsOf, EventOf, UnreadEvents, UnreadIn
  <2>. QED
    BY <2>1 DEF EventTRBs, CommandsKept, RingKept, ReaderFits, CommandTyped
<1>6. /\ answered' = FirstEvent.of
      /\ \/ UNCHANGED <<m_pCurrentCommandTRB, answer, m_bCommandCompleted>>
         \/ /\ ~m_bCommandCompleted /\ m_pCurrentCommandTRB = FirstEvent.at
            /\ m_pCurrentCommandTRB' = NoTRB /\ answer' = FirstEvent.of /\ m_bCommandCompleted' = TRUE
  BY <1>1 DEF CommandCompleted
<1>7. RingKept(m_CmdRing, CmdCount - 1, BeingWritten, cmdAt, fetched, issued)'
  BY <1>1 DEF CommandsKept, BeingWritten
<1>8. CommandTyped'
  <2>1. /\ answered' \in Nat /\ answered' <= fetched' /\ issued' - answered' <= CmdCount - 2
        /\ doing' \in {"idle", "written", "waits"}
    BY <1>1, <1>4, <1>5, <1>6, XhciAssumption DEF CommandsKept, CommandTyped
  <2>2. m_bCommandCompleted' \in BOOLEAN /\ m_pCurrentCommandTRB' \in (0 .. CmdCount - 2) \cup {NoTRB}
    BY <1>6 DEF CommandsKept, CommandTyped
  <2>. QED
    BY <2>1, <2>2 DEF CommandTyped
<1>9. ExecutingKept'
  BY <1>1, <1>4, <1>6 DEF CommandsKept, ExecutingKept, IsExecuted
<1>10. CommandEventsKept'
  <2>1. ASSUME NEW i \in UnreadCommands'
        PROVE  EventOf(i).of > answered'
    <3>1. EventOf(i).n > EventOf(e).n /\ i \in UnreadCommands
      BY <1>2, <1>3 DEF UnreadCommands
    <3>2. EventOf(i).n \in Nat /\ EventOf(e).n \in Nat /\ EventOf(i).of \in Nat
      <4>1. EventOf(i) \in EventTRBs /\ EventOf(e) \in EventTRBs
        BY <1>2, <3>1 DEF EventsKept, EventRingKept, EventsFit, RingsOf, EventOf, UnreadCommands,
                          UnreadEvents, UnreadIn
      <4>. QED
        BY <4>1 DEF EventTRBs
    <3>3. EventOf(e).of < EventOf(i).of
      <4>1. EventOf(e).n < EventOf(i).n
        BY <3>1, <3>2
      <4>. QED
        BY <1>3, <3>1, <4>1 DEF CommandsKept, CommandEventsKept
    <3>. QED
      BY <1>2, <1>5, <1>6, <3>2, <3>3
  <2>. QED
    BY <1>1, <1>2, <1>3, <2>1 DEF CommandsKept, CommandEventsKept
<1>11. WaitKept' /\ AnswerTrue'
  <2>1. CASE UNCHANGED <<m_pCurrentCommandTRB, answer, m_bCommandCompleted>>
    BY <1>1, <2>1 DEF CommandsKept, WaitKept, AnswerTrue
  <2>2. CASE /\ ~m_bCommandCompleted /\ m_pCurrentCommandTRB = FirstEvent.at
             /\ m_pCurrentCommandTRB' = NoTRB /\ answer' = FirstEvent.of /\ m_bCommandCompleted' = TRUE
    <3>1. answer' = issued
      BY <1>4, <2>2 DEF CommandsKept, WaitKept
    <3>. QED
      BY <1>1, <2>2, <3>1 DEF WaitKept, AnswerTrue
  <2>. QED
    BY <1>6, <2>1, <2>2
<1>. QED
  BY <1>1, <1>2, <1>3, <1>7, <1>8, <1>9, <1>10, <1>11 DEF CommandsKept

-----------------------------------------------------------------------------
(* Transfers                                                                *)

\* Nothing changes of the transfers, unless for a command.
LEMMA TransfersStay ==
  ASSUME RequestsKept, UNCHANGED <<transferVars, use>>, UnreadTransfers' = UnreadTransfers,
         \A i \in UnreadTransfers : EventOf(i)' = EventOf(i),
         issued' \in Nat, issued' + submitted <= MaxRequests
  PROVE  RequestsKept' /\ (TransfersKept => TransfersKept')
<1>1. RequestsKept'
  BY DEF RequestsKept, TransferTrue, transferVars
<1>2. TransfersKept => TransfersKept'
  BY DEF TransfersKept, transferVars
<1>. QED
  BY <1>1, <1>2

\* The controller carries out a TRB: it posts an event for the last of a request, or for one that
\* fails, and that halts the endpoint.
LEMMA CarryOutKeeps ==
  ASSUME EventsKept, RequestsKept, TransfersKept, CarryOut
  PROVE  /\ EventsKept' /\ RequestsKept' /\ TransfersKept' /\ UNCHANGED cmdVars
         /\ UnreadCommands' = UnreadCommands /\ \A i \in UnreadCommands : EventOf(i)' = EventOf(i)
<1>. DEFINE L == TransferCount - 1
            p == Through(m_pTransferRing, L, transferAt)
            trb == m_pTransferRing.trb[p.at]
<1>1. L \in Nat \ {0} /\ TransferCount - 2 = L - 1
  BY XhciAssumption
<1>2. /\ RingKept(m_pTransferRing, L, 0, transferAt, taken, inRing)
      /\ taken \in Nat /\ inRing \in Nat
  BY DEF TransfersKept, RingKept, ReaderFits
<1>3. /\ endpoint = "running" /\ Sees(m_pTransferRing, L, transferAt)
      /\ transferAt' = [p EXCEPT !.at = p.at + 1] /\ taken' = taken + 1
      /\ UNCHANGED <<cmdVars, m_pTransferRing, submitted, inRing, m_pURB, m_bTransferCompleted,
                     transferring, good, timedOut, xhciStuck, use>>
      /\ \/ ~trb.ioc /\ UNCHANGED <<done, endpoint, eventVars>>
         \/ /\ trb.ioc /\ done' = done \cup {trb.urb} /\ UNCHANGED endpoint
            /\ Post(TransferDone(trb.urb))
         \/ endpoint' = "halted" /\ UNCHANGED done /\ Post(TransferFailed(trb.urb))
  BY DEF CarryOut, TransferDone, TransferFailed
<1>. HIDE DEF L
<1>4. /\ RingKept(m_pTransferRing, L, 0, [p EXCEPT !.at = p.at + 1], taken + 1, inRing)
      /\ p.at \in 0 .. L - 1 /\ trb.n = taken + 1 /\ taken < inRing
  BY <1>1, <1>2, <1>3, FetchKeeps
<1>. HIDE DEF p
<1>5. m_pURB # NoURB /\ UnreadTransfers = {} /\ inRing - taken \in 1 .. 3 /\ submitted \notin done
  BY <1>2, <1>3, <1>4 DEF TransfersKept
<1>6. trb.urb = submitted /\ (trb.ioc <=> taken + 1 = inRing)
  <2>1. p.at \in 0 .. TransferCount - 2 /\ trb.n > taken
    BY <1>1, <1>2, <1>4
  <2>. QED
    BY <1>3, <1>4, <1>5, <2>1 DEF TransfersKept
<1>. HIDE DEF trb
<1>7. m_pURB = submitted /\ submitted \in Nat /\ submitted # 0 /\ ~(transferring /\ m_bTransferCompleted)
  BY <1>5 DEF RequestsKept, TransferTrue, TransfersKept, NoURB
<1>8. RingKept(m_pTransferRing, TransferCount - 1, 0, transferAt, taken, inRing)'
  BY <1>3, <1>4 DEF L
<1>9. transferAt' \in PlacesOf(TransferCount - 1)
  BY <1>8 DEF RingKept, ReaderFits
<1>10. ASSUME done' \in {done, done \cup {submitted}}, endpoint' \in {"running", "halted"}
       PROVE  RequestsKept'
  <2>1. done \subseteq 1 .. submitted /\ good \subseteq done
    BY DEF RequestsKept, TransferTrue
  <2>2. done' \subseteq 1 .. submitted' /\ good' \subseteq done'
    BY <1>3, <1>7, <1>10, <2>1
  <2>3. TransferTrue'
    BY <1>3, <1>7, <2>2 DEF RequestsKept, TransferTrue
  <2>4. issued' = issued
    BY <1>3 DEF cmdVars
  <2>. QED
    BY <1>3, <1>9, <1>10, <2>2, <2>3, <2>4 DEF RequestsKept
<1>11. CASE ~trb.ioc /\ UNCHANGED <<done, endpoint, eventVars>>
  <2>1. /\ EventsKept' /\ UnreadCommands' = UnreadCommands /\ UnreadTransfers' = {}
        /\ \A i : EventOf(i)' = EventOf(i)
    BY <1>5, <1>11, EventsStay
  <2>2. RequestsKept'
    BY <1>3, <1>10, <1>11
  <2>3. inRing' - taken' \in 1 .. 3
    BY <1>2, <1>3, <1>4, <1>5, <1>6, <1>11
  <2>4. ASSUME NEW i \in 0 .. TransferCount - 2, m_pTransferRing'.trb[i].n > taken'
        PROVE  /\ m_pTransferRing'.trb[i].urb = submitted'
               /\ m_pTransferRing'.trb[i].ioc <=> m_pTransferRing'.trb[i].n = inRing'
    <3>1. m_pTransferRing.trb[i].n \in Nat
      BY <1>1 DEF RequestsKept, RingsOf, RequestTRBs, L
    <3>2. m_pTransferRing.trb[i].n > taken
      BY <1>2, <1>3, <2>4, <3>1
    <3>. QED
      BY <1>3, <1>5, <3>2 DEF TransfersKept
  <2>5. TransfersKept'
    BY <1>3, <1>5, <1>7, <1>8, <1>11, <2>1, <2>3, <2>4 DEF TransfersKept
  <2>. QED
    BY <1>3, <2>1, <2>2, <2>5
<1>12. ASSUME NEW event \in EventTRBs, event.kind = "transfer", event.of = submitted,
              event.ok <=> submitted \in done', Post(event),
              \/ endpoint' = "running" /\ inRing = taken + 1
              \/ endpoint' = "halted",
              done' \in {done, done \cup {submitted}}
       PROVE  /\ EventsKept' /\ RequestsKept' /\ TransfersKept'
              /\ UnreadCommands' = UnreadCommands /\ \A i \in UnreadCommands : EventOf(i)' = EventOf(i)
  <2>1. /\ EventsKept'
        /\ UnreadEvents' = UnreadEvents \cup {eventAt.at} /\ eventAt.at \notin UnreadEvents
        /\ \A i \in UnreadEvents : EventOf(i)' = EventOf(i)
        /\ \A i : i = eventAt.at => /\ EventOf(i)'.kind = "transfer" /\ EventOf(i)'.of = submitted
                                   /\ EventOf(i)'.ok = event.ok
    BY <1>12, EventsPosted
  <2>2. UnreadCommands' = UnreadCommands /\ \A i \in UnreadCommands : EventOf(i)' = EventOf(i)
    BY <2>1 DEF UnreadCommands
  <2>3. UnreadTransfers' = {eventAt.at}
    BY <1>5, <2>1 DEF UnreadTransfers
  <2>4. RequestsKept'
    BY <1>10, <1>12
  <2>5. \A i \in UnreadTransfers' :
          m_pURB' # NoURB /\ EventOf(i)'.of = submitted' /\ (EventOf(i)'.ok <=> submitted' \in done')
    BY <1>3, <1>5, <1>12, <2>1, <2>3
  <2>6. inRing' - taken' <= 2 /\ (endpoint' = "running" => inRing' = taken')
    BY <1>2, <1>3, <1>5, <1>12
  <2>7. TransfersKept'
    <3>1. UnreadTransfers' # {} /\ \A i, j \in UnreadTransfers' : i = j
      BY <2>3
    <3>. QED
      BY <1>3, <1>7, <1>8, <2>5, <2>6, <3>1 DEF TransfersKept
  <2>. QED
    BY <2>1, <2>2, <2>4, <2>7
<1>13. CASE trb.ioc /\ done' = done \cup {trb.urb} /\ UNCHANGED endpoint /\ Post(TransferDone(trb.urb))
  <2>. DEFINE event == TransferDone(trb.urb)
  <2>1. event \in EventTRBs /\ event.kind = "transfer" /\ event.of = submitted /\ event.ok /\ Post(event)
    BY <1>6, <1>7, <1>13, PostedEvents
  <2>. HIDE DEF event
  <2>2. submitted \in done' /\ done' \in {done, done \cup {submitted}}
    BY <1>6, <1>13
  <2>3. endpoint' = "running" /\ inRing = taken + 1
    BY <1>3, <1>6, <1>13
  <2>. QED
    BY <1>3, <1>12, <2>1, <2>2, <2>3
<1>14. CASE endpoint' = "halted" /\ UNCHANGED done /\ Post(TransferFailed(trb.urb))
  <2>. DEFINE event == TransferFailed(trb.urb)
  <2>1. event \in EventTRBs /\ event.kind = "transfer" /\ event.of = submitted /\ ~event.ok /\ Post(event)
    BY <1>6, <1>7, <1>14, PostedEvents
  <2>. HIDE DEF event
  <2>2. submitted \notin done' /\ done' \in {done, done \cup {submitted}}
    BY <1>5, <1>14
  <2>. QED
    BY <1>3, <1>12, <1>14, <2>1, <2>2
<1>. QED
  BY <1>3, <1>11, <1>13, <1>14

\* What TransferAsync does if m_pURB is free.
NewRequest(n) ==
  /\ m_pTransferRing' = AfterPut(n) /\ inRing' = inRing + n /\ issued + submitted < MaxRequests
  /\ submitted' = submitted + 1 /\ m_pURB' = submitted + 1 /\ xhciStuck' = FALSE

\* A request is put into the ring when the one before has been answered, or there was none.
LEMMA RequestKeeps ==
  ASSUME RequestsKept, UnreadTransfers' = {}, NEW n \in 1 .. 3,
         RingKept(m_pTransferRing, TransferCount - 1, 0, transferAt, taken, inRing),
         endpoint = "running" => inRing = taken, inRing - taken <= 2,
         NewRequest(n), UNCHANGED <<issued, use, transferAt, endpoint, taken, done, timedOut>>,
         good' \subseteq done,
         transferring' \in BOOLEAN, m_bTransferCompleted' \in BOOLEAN,
         ~(transferring' /\ m_bTransferCompleted'),
         use = "Transfer" => transferring',
         use = "TransferAsync" => ~transferring' /\ m_bTransferCompleted'
  PROVE  RequestsKept' /\ TransfersKept' /\ ~xhciStuck'
<1>1. TransferCount \in Nat /\ TransferCount > 6
  BY XhciAssumption
<1>2. /\ m_pTransferRing' = AfterPut(n) /\ inRing' = inRing + n
      /\ issued + submitted < MaxRequests
      /\ submitted' = submitted + 1 /\ m_pURB' = submitted + 1 /\ ~xhciStuck'
  BY DEF NewRequest
<1>3. /\ inRing \in Nat /\ submitted \in Nat /\ issued \in Nat /\ done \subseteq 1 .. submitted
      /\ endpoint \in {"running", "halted"} /\ use \in {"Transfer", "TransferAsync"}
      /\ timedOut \in BOOLEAN /\ transferAt \in PlacesOf(TransferCount - 1) /\ MaxRequests \in Nat
  BY XhciAssumption DEF RequestsKept
<1>4. taken \in Nat /\ taken <= inRing
  BY DEF RingKept, ReaderFits
<1>5. /\ RingKept(AfterPut(n), TransferCount - 1, 0, transferAt, taken, inRing + n)
      /\ \A i \in 0 .. TransferCount - 2 : AfterPut(n).trb[i].n > inRing =>
           /\ AfterPut(n).trb[i].urb = submitted + 1
           /\ AfterPut(n).trb[i].ioc <=> AfterPut(n).trb[i].n = inRing + n
  <2>1. inRing - taken + n <= TransferCount - 2
    BY <1>1, <1>3, <1>4
  <2>. QED
    BY <1>3, <2>1, TransferAsyncKeeps
<1>6. RingKept(m_pTransferRing, TransferCount - 1, 0, transferAt, taken, inRing)'
  BY <1>2, <1>5
<1>7. submitted' \notin done' /\ done' \subseteq 1 .. submitted' /\ m_pURB' # NoURB
  BY <1>2, <1>3 DEF NoURB
<1>8. TransferTrue'
  BY <1>2 DEF TransferTrue
<1>9. RequestsKept'
  <2>1. /\ m_pTransferRing' \in RingsOf(RequestTRBs, TransferCount - 1)
        /\ m_pTransferRing'.index < TransferCount - 1
    BY <1>6 DEF RingKept, RingFits
  <2>2. issued' \in Nat /\ submitted' \in Nat /\ issued' + submitted' <= MaxRequests /\ inRing' \in Nat
    BY <1>2, <1>3
  <2>3. xhciStuck' \in BOOLEAN
    BY DEF NewRequest
  <2>. QED
    BY <1>3, <1>7, <1>8, <2>1, <2>2, <2>3 DEF RequestsKept
<1>10. TransfersKept'
  <2>1. endpoint' = "running" => inRing' - taken' \in 1 .. 3
    BY <1>2, <1>3
  <2>2. endpoint' = "running" => \A i \in 0 .. TransferCount - 2 : m_pTransferRing'.trb[i].n > taken' =>
          /\ m_pTransferRing'.trb[i].urb = submitted'
          /\ m_pTransferRing'.trb[i].ioc <=> m_pTransferRing'.trb[i].n = inRing'
    BY <1>2, <1>5
  <2>3. inRing' - taken' <= 5
    BY <1>2, <1>3, <1>4
  <2>4. use' = "Transfer" => transferring'
    OBVIOUS
  <2>. QED
    BY <1>6, <1>7, <2>1, <2>2, <2>3, <2>4 DEF TransfersKept
<1>. QED
  BY <1>2, <1>9, <1>10

\* Transfer puts a request into the ring.
LEMMA TransferKeeps ==
  ASSUME RequestsKept, TransfersKept, NEW n \in 1 .. 3, Transfer(n)
  PROVE  RequestsKept' /\ (xhciStuck' \/ TransfersKept')
<1>1. /\ use = "Transfer" /\ ~transferring /\ m_bTransferCompleted' = FALSE /\ transferring' = TRUE
      /\ TransferAsync(n, m_pURB = NoURB, FALSE)
      /\ UNCHANGED <<issued, use, transferAt, endpoint, taken, good, done, timedOut>>
      /\ UNCHANGED eventVars
  BY DEF Transfer, cmdVars
<1>2. m_bTransferCompleted' \in BOOLEAN /\ transferring' \in BOOLEAN
  BY <1>1
<1>3. CASE m_pURB = NoURB
  <2>1. UnreadTransfers' = {}
    <3>1. UnreadTransfers = {}
      BY <1>3 DEF TransfersKept
    <3>. QED
      BY <1>1, <3>1, EventsStay
  <2>2. RingKept(m_pTransferRing, TransferCount - 1, 0, transferAt, taken, inRing)
        /\ (endpoint = "running" => inRing = taken) /\ inRing - taken <= 2
    <3>1. RingKept(m_pTransferRing, TransferCount - 1, 0, transferAt, taken, inRing)
          /\ inRing \in Nat /\ taken \in Nat
      BY DEF TransfersKept, RingKept, ReaderFits
    <3>. QED
      BY <1>3, <3>1 DEF TransfersKept, RequestsKept
  <2>3. good' \subseteq done
    BY <1>1 DEF RequestsKept, TransferTrue
  <2>4. NewRequest(n)
    BY <1>1, <1>3, TransferAsyncIs DEF NewRequest
  <2>5. ~(transferring' /\ m_bTransferCompleted')
    BY <1>1
  <2>. QED
    BY <1>1, <1>2, <2>1, <2>2, <2>3, <2>4, <2>5, RequestKeeps
<1>4. CASE m_pURB # NoURB
  <2>1. /\ m_pTransferRing' = AfterPut(n) /\ inRing' = inRing + n /\ xhciStuck' = TRUE
        /\ UNCHANGED <<submitted, m_pURB>>
    BY <1>1, <1>4, TransferAsyncIs
  <2>2. timedOut
    BY <1>1, <1>4 DEF TransfersKept
  <2>3. inRing \in Nat /\ submitted \in Nat
    BY DEF RequestsKept
  <2>4. /\ m_pTransferRing' \in RingsOf(RequestTRBs, TransferCount - 1)
        /\ m_pTransferRing'.index < TransferCount - 1
    BY <2>1, <2>3, TransferAsyncTyped DEF RequestsKept
  <2>5. TransferTrue'
    BY <1>1, <2>1, <2>2 DEF RequestsKept, TransferTrue
  <2>6. inRing' \in Nat /\ xhciStuck' \in BOOLEAN
    BY <2>1, <2>3
  <2>7. RequestsKept'
    BY <1>1, <1>2, <2>1, <2>4, <2>5, <2>6 DEF RequestsKept
  <2>. QED
    BY <2>1, <2>7
<1>. QED
  BY <1>3, <1>4

\* So does StartRequest, which does not wait for it.
LEMMA StartRequestKeeps ==
  ASSUME RequestsKept, TransfersKept, StartRequest
  PROVE  RequestsKept' /\ TransfersKept'
<1>1. /\ use = "TransferAsync" /\ submitted = 0 /\ TransferAsync(1, m_pURB = NoURB, FALSE)
      /\ UNCHANGED <<issued, use, transferAt, endpoint, taken, good, done, timedOut,
                     m_bTransferCompleted, transferring>> /\ UNCHANGED eventVars
  BY DEF StartRequest, cmdVars
<1>2. m_pURB = NoURB
  BY <1>1 DEF RequestsKept, TransferTrue, NoURB
<1>3. UnreadTransfers' = {}
  <2>1. UnreadTransfers = {}
    BY <1>2 DEF TransfersKept
  <2>. QED
    BY <1>1, <2>1, EventsStay
<1>4. RingKept(m_pTransferRing, TransferCount - 1, 0, transferAt, taken, inRing)
      /\ (endpoint = "running" => inRing = taken) /\ inRing - taken <= 2
  <2>1. RingKept(m_pTransferRing, TransferCount - 1, 0, transferAt, taken, inRing)
        /\ inRing \in Nat /\ taken \in Nat
    BY DEF TransfersKept, RingKept, ReaderFits
  <2>. QED
    BY <1>2, <2>1 DEF TransfersKept, RequestsKept
<1>5. good' \subseteq done
  BY <1>1 DEF RequestsKept, TransferTrue
<1>6. NewRequest(1)
  <2>1. 1 \in 1 .. 3
    OBVIOUS
  <2>. QED
    BY <1>1, <1>2, <2>1, TransferAsyncIs DEF NewRequest
<1>7. ~transferring' /\ m_bTransferCompleted' /\ transferring' \in BOOLEAN
      /\ m_bTransferCompleted' \in BOOLEAN
  BY <1>1 DEF TransfersKept, RequestsKept
<1>8. 1 \in 1 .. 3 /\ ~(transferring' /\ m_bTransferCompleted')
      /\ use # "Transfer"
  BY <1>1, <1>2, <1>7
<1>. QED
  BY <1>1, <1>3, <1>4, <1>5, <1>6, <1>7, <1>8, RequestKeeps

\* Transfer returns, and gives up its request when the time is over.
LEMMA TransferEndsKeeps ==
  ASSUME RequestsKept, TransfersKept, TransferReturns \/ TransferTimesOut
  PROVE  RequestsKept' /\ TransfersKept'
<1>1. /\ transferring /\ ~transferring' /\ transferring' \in BOOLEAN
      /\ m_bTransferCompleted' /\ m_bTransferCompleted' \in BOOLEAN
      /\ timedOut' \in BOOLEAN /\ (timedOut => timedOut')
      /\ m_bTransferCompleted \/ timedOut'
      /\ UNCHANGED <<use, m_pTransferRing, transferAt, endpoint, submitted, inRing, taken, m_pURB,
                     good, done, xhciStuck>>
      /\ UNCHANGED cmdVars /\ UNCHANGED eventVars
  BY DEF TransferReturns, TransferTimesOut, RequestsKept
<1>2. UnreadTransfers' = UnreadTransfers /\ \A i : EventOf(i)' = EventOf(i)
  BY <1>1, EventsStay
<1>3. TransferTrue'
  BY <1>1 DEF RequestsKept, TransferTrue
<1>4. RequestsKept'
  BY <1>1, <1>3 DEF RequestsKept, cmdVars
<1>5. use # "TransferAsync"
  BY <1>1 DEF TransfersKept
<1>6. m_pURB # NoURB => timedOut'
  BY <1>1 DEF TransfersKept
<1>7. TransfersKept'
  BY <1>1, <1>2, <1>5, <1>6 DEF TransfersKept
<1>. QED
  BY <1>4, <1>7

\* The handler of an event for a transfer takes the request that it is for.
LEMMA TransferEventKeeps ==
  ASSUME EventsKept, RequestsKept, TransfersKept, ~xhciStuck, HandleEvents,
         FirstEvent.kind = "transfer"
  PROVE  /\ EventsKept' /\ RequestsKept' /\ (xhciStuck' \/ TransfersKept')
         /\ UNCHANGED cmdVars
         /\ UnreadCommands' = UnreadCommands /\ \A i : EventOf(i)' = EventOf(i)
<1>. DEFINE e == m_EventRing.index
<1>1. /\ HasEvent /\ m_EventRing' = IncrementDequeue(m_EventRing) /\ ERDP' = m_EventRing'.index
      /\ handled' = handled + 1 /\ eventAt' = eventAt /\ posted' = posted
      /\ TransferEvent(FirstEvent)
      /\ UNCHANGED <<transferAt, endpoint, taken, transferring, done, timedOut, use, issued>>
      /\ UNCHANGED cmdVars
  BY DEF HandleEvents, cmdVars
<1>2. /\ EventsKept' /\ e \in UnreadEvents /\ FirstEvent = EventOf(e)
      /\ UnreadEvents' = UnreadEvents \ {e} /\ \A i : EventOf(i)' = EventOf(i)
  BY <1>1, EventsHandled
<1>. HIDE DEF e
<1>3. e \in UnreadTransfers /\ UnreadCommands' = UnreadCommands
  BY <1>2 DEF UnreadCommands, UnreadTransfers
<1>4. UnreadTransfers' = {}
  <2>1. \A i \in UnreadTransfers' : i \in UnreadTransfers /\ i # e
    BY <1>2 DEF UnreadTransfers
  <2>. QED
    BY <1>3, <2>1 DEF TransfersKept
<1>5. m_pURB # NoURB /\ m_pURB = submitted /\ (FirstEvent.ok <=> submitted \in done)
  BY <1>2, <1>3 DEF TransfersKept, RequestsKept, TransferTrue
<1>6. /\ RingKept(m_pTransferRing, TransferCount - 1, 0, transferAt, taken, inRing)
      /\ endpoint = "running" => inRing = taken
      /\ inRing - taken <= 2
  <2>1. RingKept(m_pTransferRing, TransferCount - 1, 0, transferAt, taken, inRing)
        /\ inRing \in Nat /\ taken \in Nat
    BY DEF TransfersKept, RingKept, ReaderFits
  <2>. QED
    BY <1>3, <2>1 DEF TransfersKept, RequestsKept
<1>7. good' \subseteq done /\ (submitted \in good' <=> submitted \in done)
  <2>1. good \subseteq done /\ good' = IF FirstEvent.ok THEN good \cup {m_pURB} ELSE good
    BY <1>1 DEF TransferEvent, RequestsKept, TransferTrue
  <2>. QED
    BY <1>5, <2>1
<1>8. CASE use = "Transfer"
  <2>1. /\ m_pURB' = NoURB /\ m_bTransferCompleted' = TRUE
        /\ xhciStuck' = (m_pURB = NoURB \/ m_bTransferCompleted)
        /\ UNCHANGED <<m_pTransferRing, submitted, inRing>>
    BY <1>1, <1>8 DEF TransferEvent
  <2>2. xhciStuck' \in BOOLEAN /\ (xhciStuck' <=> m_bTransferCompleted)
    BY <1>5, <2>1 DEF RequestsKept
  <2>3. xhciStuck' => timedOut
    BY <1>5, <1>8, <2>2 DEF TransfersKept
  <2>4. TransferTrue'
    BY <1>1, <1>7, <1>8, <2>1, <2>3 DEF TransferTrue
  <2>5. RequestsKept'
    BY <1>1, <2>1, <2>2, <2>4 DEF RequestsKept
  <2>6. TransfersKept'
    BY <1>1, <1>4, <1>6, <1>8, <2>1 DEF TransfersKept
  <2>. QED
    BY <1>1, <1>2, <1>3, <2>5, <2>6
<1>9. CASE use = "TransferAsync"
  <2>1. TransferAsync(1, TRUE, m_pURB = NoURB) /\ UNCHANGED m_bTransferCompleted
    BY <1>1, <1>9 DEF TransferEvent
  <2>2. 1 \in 1 .. 3 /\ ~(m_pURB = NoURB)
    BY <1>5
  <2>3. NewRequest(1)
    BY <2>1, <2>2, TransferAsyncIs DEF NewRequest
  <2>4. /\ ~transferring' /\ m_bTransferCompleted'
        /\ transferring' \in BOOLEAN /\ m_bTransferCompleted' \in BOOLEAN
    BY <1>1, <1>9, <2>1 DEF TransfersKept, RequestsKept
  <2>5. RequestsKept' /\ TransfersKept'
    BY <1>1, <1>4, <1>6, <1>7, <1>9, <2>1, <2>2, <2>3, <2>4, RequestKeeps
  <2>. QED
    BY <1>1, <1>2, <1>3, <2>5
<1>. QED
  BY <1>8, <1>9 DEF RequestsKept

-----------------------------------------------------------------------------
(* Every step                                                               *)

\* Every step keeps the invariant.
LEMMA XhciStep ==
  ASSUME XhciKept, [XhciNext]_xhciVars
  PROVE  XhciKept'
<1>1. EventsKept /\ CommandsKept /\ RequestsKept /\ issued \in Nat /\ issued + submitted <= MaxRequests
      /\ issued \in Nat /\ submitted \in Nat
  BY DEF XhciKept, RequestsKept
<1>2. CASE UNCHANGED xhciVars
  <2>1. UNCHANGED cmdVars /\ UNCHANGED eventVars /\ UNCHANGED <<transferVars, use>> /\ issued' = issued
        /\ xhciStuck' = xhciStuck
    BY <1>2 DEF xhciVars, cmdVars, transferVars
  <2>2. /\ EventsKept' /\ UnreadCommands' = UnreadCommands /\ UnreadTransfers' = UnreadTransfers
        /\ \A i : EventOf(i)' = EventOf(i)
    BY <1>1, <2>1, EventsStay
  <2>3. CommandsKept'
    BY <1>1, <2>1, <2>2, CommandsStay
  <2>4. RequestsKept' /\ (TransfersKept => TransfersKept')
    BY <1>1, <2>1, <2>2, TransfersStay
  <2>. QED
    BY <2>1, <2>2, <2>3, <2>4 DEF XhciKept
<1>3. CASE XhciNext
  <2>1. ~xhciStuck /\ TransfersKept
    BY <1>3 DEF XhciNext, XhciKept
  <2>2. CASE FetchCommand \/ DoCommand \/ CommandStarts \/ CommandReturns \/ CommandTimesOut
    <3>1. UNCHANGED eventVars /\ UNCHANGED <<transferVars, use>> /\ xhciStuck' = xhciStuck
          /\ issued' \in Nat /\ issued' + submitted <= MaxRequests
      BY <1>1, <2>2, XhciAssumption
         DEF FetchCommand, DoCommand, CommandStarts, CommandReturns, CommandTimesOut, transferVars
    <3>2. /\ EventsKept' /\ UnreadTransfers' = UnreadTransfers /\ \A i : EventOf(i)' = EventOf(i)
      BY <1>1, <3>1, EventsStay
    <3>3. CommandsKept'
      BY <1>1, <2>2, FetchCommandKeeps, DoCommandKeeps, CommandStartsKeeps, CommandEndsKeeps
    <3>4. RequestsKept' /\ TransfersKept'
      BY <1>1, <2>1, <3>1, <3>2, TransfersStay
    <3>. QED
      BY <3>2, <3>3, <3>4 DEF XhciKept
  <2>3. CASE ExecuteCommand
    <3>1. EventsKept' /\ CommandsKept' /\ UnreadTransfers' = UnreadTransfers
          /\ \A i \in UnreadTransfers : EventOf(i)' = EventOf(i)
      BY <1>1, <2>3, ExecuteCommandKeeps
    <3>2. UNCHANGED <<transferVars, use>> /\ issued' = issued
      BY <2>3 DEF ExecuteCommand
    <3>3. RequestsKept' /\ TransfersKept'
      BY <1>1, <2>1, <3>1, <3>2, TransfersStay
    <3>. QED
      BY <3>1, <3>3 DEF XhciKept
  <2>4. CASE CarryOut
    <3>1. /\ EventsKept' /\ RequestsKept' /\ TransfersKept' /\ UNCHANGED cmdVars
          /\ UnreadCommands' = UnreadCommands /\ \A i \in UnreadCommands : EventOf(i)' = EventOf(i)
      BY <1>1, <2>1, <2>4, CarryOutKeeps
    <3>2. CommandsKept'
      BY <1>1, <3>1, CommandsStay
    <3>. QED
      BY <3>1, <3>2 DEF XhciKept
  <2>5. CASE (\E n \in 1 .. 3 : Transfer(n)) \/ StartRequest \/ TransferReturns \/ TransferTimesOut
    <3>1. UNCHANGED eventVars /\ UNCHANGED cmdVars
      BY <2>5 DEF Transfer, StartRequest, TransferReturns, TransferTimesOut
    <3>2. /\ EventsKept' /\ UnreadCommands' = UnreadCommands /\ \A i : EventOf(i)' = EventOf(i)
      BY <1>1, <3>1, EventsStay
    <3>3. CommandsKept'
      BY <1>1, <3>1, <3>2, CommandsStay
    <3>4. RequestsKept' /\ (xhciStuck' \/ TransfersKept')
      BY <1>1, <2>1, <2>5, TransferKeeps, StartRequestKeeps, TransferEndsKeeps
    <3>. QED
      BY <3>2, <3>3, <3>4 DEF XhciKept
  <2>6. CASE HandleEvents /\ FirstEvent.kind = "command"
    <3>1. /\ EventsKept' /\ CommandsKept' /\ UnreadTransfers' = UnreadTransfers
          /\ (\A i : EventOf(i)' = EventOf(i)) /\ UNCHANGED transferVars
      BY <1>1, <2>6, CommandCompletedKeeps
    <3>2. UNCHANGED <<transferVars, use>> /\ issued' = issued
      BY <2>6, <3>1 DEF HandleEvents
    <3>3. RequestsKept' /\ TransfersKept'
      BY <1>1, <2>1, <3>1, <3>2, TransfersStay
    <3>. QED
      BY <3>1, <3>3 DEF XhciKept
  <2>7. CASE HandleEvents /\ FirstEvent.kind = "transfer"
    <3>1. /\ EventsKept' /\ RequestsKept' /\ (xhciStuck' \/ TransfersKept') /\ UNCHANGED cmdVars
          /\ UnreadCommands' = UnreadCommands /\ \A i : EventOf(i)' = EventOf(i)
      BY <1>1, <2>1, <2>7, TransferEventKeeps
    <3>2. CommandsKept'
      BY <1>1, <3>1, CommandsStay
    <3>. QED
      BY <3>1, <3>2 DEF XhciKept
  <2>8. HandleEvents => FirstEvent.kind = "command" \/ FirstEvent.kind = "transfer"
    BY DEF HandleEvents
  <2>. QED
    BY <1>3, <2>2, <2>3, <2>4, <2>5, <2>6, <2>7, <2>8 DEF XhciNext
<1>. QED
  BY <1>2, <1>3

\* The inductive invariant of the three rings, the controller and the callers.
THEOREM XhciKeeps == XhciSpec => []XhciKept
<1>1. XhciInit => XhciKept
  BY XhciStarts
<1>2. XhciKept /\ [XhciNext]_xhciVars => XhciKept'
  BY XhciStep
<1>. QED
  BY <1>1, <1>2, PTL DEF XhciSpec

\* Every variable of Xhci keeps its type.
THEOREM XhciTypeCorrect == XhciSpec => []XhciTypeOK
<1>1. XhciKept => XhciTypeOK
  BY XhciKeptIsRight
<1>. QED
  BY <1>1, XhciKeeps, PTL

\* A command and a transfer get their own answer, each at most once and in order, and the rings
\* hand every TRB on once and when it is complete (XhciRight), whatever the sizes of the rings and
\* however many requests there are: also when DoCommand or Transfer has given up and the controller
\* answers later, and until an assertion fails, which happens only after a transfer was given up.
THEOREM RequestsAreAnswered == XhciSpec => []XhciRight
<1>1. XhciKept => XhciRight
  BY XhciKeptIsRight
<1>. QED
  BY <1>1, XhciKeeps, PTL

-----------------------------------------------------------------------------
(* The sound device: its queue, whose places are bytes and whose elements are frames *)

\* Products that take a multiple of a positive number further, or compare two.
LEMMA Multiples ==
  ASSUME NEW F \in Nat \ {0}, NEW k \in Nat, NEW n \in Nat
  PROVE  /\ k * F \in Nat /\ (k + n) * F = k * F + n * F /\ 0 * F = 0 /\ 1 * F = F
         /\ k <= n => k * F <= n * F
         /\ k < n => k * F + F <= n * F
<1>1. \A j \in Nat : j * F \in Nat /\ 0 * F = 0 /\ 1 * F = F
  OBVIOUS
<1>2. \A i, j \in Nat : (i + j) * F = i * F + j * F
  OBVIOUS
<1>3. ASSUME k <= n  PROVE k * F <= n * F
  <2>1. n - k \in Nat /\ k + (n - k) = n
    BY <1>3
  <2>2. n * F = k * F + (n - k) * F /\ (n - k) * F \in Nat /\ k * F \in Nat /\ n * F \in Nat
    BY <1>1, <1>2, <2>1
  <2>. DEFINE a == k * F
              b == n * F
              c == (n - k) * F
  <2>3. b = a + c /\ a \in Nat /\ b \in Nat /\ c \in Nat
    BY <2>2
  <2>. HIDE DEF a, b, c
  <2>4. a <= b
    BY <2>3
  <2>. QED
    BY <2>4 DEF a, b
<1>4. ASSUME k < n  PROVE k * F + F <= n * F
  <2>1. n - k - 1 \in Nat /\ k + (n - k - 1) + 1 = n /\ k + (n - k - 1) \in Nat /\ 1 \in Nat
    BY <1>4
  <2>2. /\ n * F = (k + (n - k - 1)) * F + 1 * F
        /\ (k + (n - k - 1)) * F = k * F + (n - k - 1) * F
    BY <1>2, <2>1
  <2>3. (n - k - 1) * F \in Nat /\ k * F \in Nat /\ n * F \in Nat /\ 1 * F = F
    BY <1>1, <2>1
  <2>. DEFINE a == k * F
              b == n * F
              c == (n - k - 1) * F
  <2>4. b = a + c + F /\ a \in Nat /\ b \in Nat /\ c \in Nat
    BY <2>2, <2>3
  <2>. HIDE DEF a, b, c
  <2>5. a + F <= b
    BY <2>4
  <2>. QED
    BY <2>5 DEF a, b
<1>. QED
  BY <1>1, <1>2, <1>3, <1>4

\* A number of bytes that is a multiple of a frame's is as many frames.
LEMMA FramesOfBytes ==
  ASSUME NEW F \in Nat \ {0}, NEW n \in Nat
  PROVE  (n * F) \div F = n
<1>. DEFINE b == n * F
            d == b \div F
            r == b % F
            c == d * F
<1>1. b \in Nat /\ d \in Int /\ r \in 0 .. F - 1 /\ b = F * d + r
  BY Multiples
<1>2. b = c + r /\ c \in Int
  BY <1>1
<1>3. ASSUME d < 0  PROVE FALSE
  <2>1. -d \in Nat /\ -d > 0 /\ c = -((-d) * F) /\ 0 \in Nat
    BY <1>1, <1>3
  <2>2. 0 * F + F <= (-d) * F /\ 0 * F = 0
    BY <2>1, Multiples
  <2>. DEFINE e == (-d) * F
  <2>3. c = -e /\ F <= e /\ e \in Int
    BY <2>1, <2>2
  <2>. HIDE DEF b, c, d, r, e
  <2>. QED
    BY <1>1, <1>2, <2>3
<1>. HIDE DEF d, r
<1>4. d \in Nat
  BY <1>1, <1>3
<1>5. (d < n => c + F <= b) /\ (n < d => b + F <= c)
  BY <1>4, Multiples
<1>. HIDE DEF b, c
<1>6. d = n
  BY <1>1, <1>2, <1>4, <1>5
<1>. QED
  BY <1>6 DEF d, b

\* The sizes of a frame, of the queue and of a chunk.
LEMMA SoundSizes ==
  /\ m_nHWFrameSize \in Nat \ {0} /\ m_nQueueSize \in Nat \ {0} /\ m_nHWFrameSize < m_nQueueSize
  /\ ChunkFrames \in Nat \ {0} /\ MaxFrames \in Nat /\ QueuePlaces = 0 .. m_nQueueSize - 1
BY SoundAssumption DEF QueuePlaces

\* Byte k of frame n in a queue, counted from the one that is read next.
ByteOf(n, k) == (n - 1) * m_nHWFrameSize + k - 1

LEMMA BytesOfFrames ==
  ASSUME NEW q \in Nat, NEW n \in 1 .. q, NEW k \in 1 .. m_nHWFrameSize
  PROVE  /\ ByteOf(n, k) \in Nat /\ ByteOf(n, k) < q * m_nHWFrameSize
         /\ \A t \in Nat : ByteOf(t + n, k) = t * m_nHWFrameSize + ByteOf(n, k)
<1>. DEFINE F == m_nHWFrameSize
            b == (n - 1) * F
            e == q * F
<1>1. F \in Nat \ {0} /\ n - 1 \in Nat /\ n - 1 < q
  BY SoundSizes
<1>2. b \in Nat /\ e \in Nat /\ b + F <= e
  BY <1>1, Multiples
<1>3. ASSUME NEW t \in Nat  PROVE ByteOf(t + n, k) = t * F + ByteOf(n, k)
  <2>1. (t + (n - 1)) * F = t * F + b /\ t * F \in Nat /\ t + n - 1 = t + (n - 1)
    BY <1>1, Multiples
  <2>. DEFINE c == t * F
              d == (t + n - 1) * F
  <2>2. d = c + b /\ c \in Nat
    BY <2>1
  <2>. HIDE DEF b, c, d
  <2>3. d + k - 1 = c + (b + k - 1)
    BY <1>2, <2>2
  <2>. QED
    BY <2>3 DEF ByteOf, b, c, d
<1>. HIDE DEF F, b, e
<1>4. b + k - 1 \in Nat /\ b + k - 1 < e
  BY <1>1, <1>2 DEF F
<1>. QED
  BY <1>3, <1>4 DEF ByteOf, F, b, e

\* The queue from o up to i has q frames, the last of w.
Queued(mem, o, i, w, q) ==
  /\ Distance(m_nQueueSize, o, i) = q * m_nHWFrameSize
  /\ \A n \in 1 .. q, k \in 1 .. m_nHWFrameSize :
       mem[Forward(m_nQueueSize, o, ByteOf(n, k))] = <<w - q + n, k>>

\* The queue's own functions in these terms.
LEMMA QueueTerms ==
  /\ \A p \in QueuePlaces, n \in 0 .. m_nQueueSize : Beyond(p, n) = Forward(m_nQueueSize, p, n)
  /\ GetQueueBytesAvail = Distance(m_nQueueSize, soundOut, soundIn)
  /\ soundIn \in QueuePlaces /\ soundOut \in QueuePlaces =>
       GetQueueBytesFree = m_nQueueSize - 1 - GetQueueBytesAvail
<1>1. ASSUME NEW p \in QueuePlaces, NEW n \in 0 .. m_nQueueSize
      PROVE  Beyond(p, n) = Forward(m_nQueueSize, p, n)
  <2>1. Forward(m_nQueueSize, p, n) = IF p + n < m_nQueueSize THEN p + n ELSE p + n - m_nQueueSize
    BY SoundSizes, ForwardValue
  <2>. QED
    BY <2>1, SoundSizes DEF Beyond
<1>2. GetQueueBytesAvail = Distance(m_nQueueSize, soundOut, soundIn)
  BY DEF GetQueueBytesAvail, Distance
<1>3. ASSUME soundIn \in QueuePlaces, soundOut \in QueuePlaces
      PROVE  GetQueueBytesFree = m_nQueueSize - 1 - GetQueueBytesAvail
  BY <1>3, SoundSizes DEF GetQueueBytesFree, GetQueueBytesAvail
<1>. QED
  BY <1>1, <1>2, <1>3

\* What Write has put into the queue.
WithFrame(mem, i, f) ==
  [p \in QueuePlaces |->
     IF \E k \in 1 .. m_nHWFrameSize : p = Forward(m_nQueueSize, i, k - 1)
       THEN <<f, CHOOSE k \in 1 .. m_nHWFrameSize : p = Forward(m_nQueueSize, i, k - 1)>>
       ELSE mem[p]]

\* A frame is written behind those that are queued.
LEMMA QueuedMore ==
  ASSUME NEW o \in QueuePlaces, NEW i \in QueuePlaces, NEW mem, NEW w \in Nat, NEW q \in Nat,
         Queued(mem, o, i, w, q), q * m_nHWFrameSize + m_nHWFrameSize < m_nQueueSize
  PROVE  Queued(WithFrame(mem, i, w + 1), o, Forward(m_nQueueSize, i, m_nHWFrameSize), w + 1, q + 1)
<1>. DEFINE F == m_nHWFrameSize
            M == m_nQueueSize
            e == q * F
            new == WithFrame(mem, i, w + 1)
            OffsetBy(j) == Forward(M, o, j)
<1>1. F \in Nat \ {0} /\ M \in Nat \ {0} /\ o \in 0 .. M - 1 /\ i \in 0 .. M - 1
  BY SoundSizes
<1>2. e \in Nat /\ (q + 1) * F = e + F /\ e + F < M /\ Distance(M, o, i) = e
  BY <1>1, Multiples DEF Queued
<1>. HIDE DEF F, M, e
<1>3. Distance(M, o, Forward(M, i, F)) = (q + 1) * F
  BY <1>1, <1>2, DistanceGrows
<1>4. \A j \in 0 .. M - 1 : OffsetBy(j) \in 0 .. M - 1 /\ Distance(M, o, OffsetBy(j)) = j
  BY <1>1, ForwardType, DistanceForward
<1>5. \A k \in 1 .. F : Forward(M, i, k - 1) = OffsetBy(e + (k - 1)) /\ e + (k - 1) \in 0 .. M - 1
  <2>1. i = Forward(M, o, e)
    BY <1>1, <1>2, ForwardDistance
  <2>. QED
    BY <1>1, <1>2, <2>1, ForwardTwice
<1>. HIDE DEF OffsetBy
<1>6. ASSUME NEW n \in 1 .. q + 1, NEW k \in 1 .. F  PROVE new[OffsetBy(ByteOf(n, k))] = <<w + 1 - (q + 1) + n, k>>
  <2>1. CASE n = q + 1
    <3>1. ByteOf(n, k) = e + (k - 1)
      <4>1. ByteOf(n, k) = (q + 1 - 1) * F + k - 1 /\ q + 1 - 1 = q
        BY <2>1 DEF ByteOf, F
      <4>. QED
        BY <1>2, <4>1 DEF e
    <3>. DEFINE p == OffsetBy(e + (k - 1))
    <3>2. p \in 0 .. M - 1 /\ p = Forward(M, i, k - 1)
      BY <1>4, <1>5
    <3>3. \A l \in 1 .. F : p = Forward(M, i, l - 1) => l = k
      <4>1. \A l \in 1 .. F : e + (l - 1) \in 0 .. M - 1 /\ Distance(M, o, OffsetBy(e + (l - 1))) = e + (l - 1)
        BY <1>4, <1>5
      <4>2. \A l \in 1 .. F : e + (l - 1) = e + (k - 1) => l = k
        BY <1>1, <1>2
      <4>. QED
        BY <1>5, <4>1, <4>2
    <3>. HIDE DEF p
    <3>4. (CHOOSE l \in 1 .. F : p = Forward(M, i, l - 1)) = k
      BY <3>2, <3>3
    <3>5. new[p] = <<w + 1, CHOOSE l \in 1 .. F : p = Forward(M, i, l - 1)>>
      BY <3>2, SoundSizes DEF WithFrame, F, M
    <3>6. w + 1 - (q + 1) + n = w + 1
      BY <2>1
    <3>. QED
      BY <3>1, <3>4, <3>5, <3>6 DEF p
  <2>2. CASE n # q + 1
    <3>1. n \in 1 .. q
      BY <2>2
    <3>. DEFINE j == ByteOf(n, k)
    <3>2. j \in Nat /\ j < e
      BY <3>1, BytesOfFrames DEF F, e
    <3>. HIDE DEF j
    <3>3. j \in 0 .. M - 1
      BY <1>1, <1>2, <3>2
    <3>4. \A l \in 1 .. F : OffsetBy(j) # Forward(M, i, l - 1)
      <4>1. \A l \in 1 .. F : e + (l - 1) \in 0 .. M - 1 /\ e + (l - 1) # j
        BY <1>1, <1>2, <1>5, <3>2
      <4>2. \A l \in 1 .. F : OffsetBy(j) # OffsetBy(e + (l - 1))
        BY <1>4, <3>3, <4>1
      <4>. QED
        BY <1>5, <4>2
    <3>5. new[OffsetBy(j)] = mem[OffsetBy(j)]
      BY <1>4, <3>3, <3>4, SoundSizes DEF WithFrame, F, M
    <3>6. mem[OffsetBy(j)] = <<w - q + n, k>>
      BY <3>1 DEF Queued, OffsetBy, M, F, j
    <3>7. w + 1 - (q + 1) + n = w - q + n
      BY <3>1
    <3>. QED
      BY <3>5, <3>6, <3>7 DEF j
  <2>. QED
    BY <2>1, <2>2
<1>. QED
  BY <1>3, <1>6 DEF Queued, OffsetBy, F, M

\* Frames are read off the queue.
LEMMA QueuedLess ==
  ASSUME NEW o \in QueuePlaces, NEW i \in QueuePlaces, NEW mem, NEW w \in Nat, NEW q \in Nat,
         Queued(mem, o, i, w, q), NEW t \in 0 .. q
  PROVE  /\ Queued(mem, Forward(m_nQueueSize, o, t * m_nHWFrameSize), i, w, q - t)
         /\ Forward(m_nQueueSize, o, t * m_nHWFrameSize) \in QueuePlaces
         /\ t * m_nHWFrameSize \in 0 .. m_nQueueSize - 1
<1>. DEFINE F == m_nHWFrameSize
            M == m_nQueueSize
            e == q * F
            c == t * F
            d == (q - t) * F
            r == Forward(M, o, c)
<1>1. F \in Nat \ {0} /\ M \in Nat \ {0} /\ o \in 0 .. M - 1 /\ i \in 0 .. M - 1
  BY SoundSizes
<1>2. e \in Nat /\ c \in Nat /\ d \in Nat /\ e = c + d /\ Distance(M, o, i) = e
  <2>1. t \in Nat /\ q - t \in Nat /\ t + (q - t) = q
    OBVIOUS
  <2>. QED
    BY <1>1, <2>1, Multiples DEF Queued
<1>. HIDE DEF F, M, e, c, d
<1>3. e < M
  BY <1>1, <1>2, DistanceType
<1>4. c \in 0 .. M - 1 /\ r \in 0 .. M - 1 /\ Distance(M, r, i) = d
  <2>1. c \in 0 .. Distance(M, o, i) /\ c \in 0 .. M
    BY <1>1, <1>2, <1>3
  <2>2. Distance(M, r, i) = Distance(M, o, i) - c
    BY <1>1, <2>1, DistanceShrinks
  <2>. QED
    BY <1>1, <1>2, <1>3, <2>1, <2>2, ForwardType
<1>5. ASSUME NEW n \in 1 .. q - t, NEW k \in 1 .. F
      PROVE  mem[Forward(M, r, ByteOf(n, k))] = <<w - (q - t) + n, k>>
  <2>1. q - t \in Nat /\ t \in Nat /\ t + n \in 1 .. q
    OBVIOUS
  <2>. DEFINE j == ByteOf(n, k)
  <2>2. j \in Nat /\ j < d /\ ByteOf(t + n, k) = c + j
    BY <2>1, BytesOfFrames DEF F, c, d
  <2>. HIDE DEF j
  <2>3. Forward(M, r, j) = Forward(M, o, c + j)
    BY <1>1, <1>2, <1>3, <2>2, ForwardTwice
  <2>4. mem[Forward(M, o, ByteOf(t + n, k))] = <<w - q + (t + n), k>>
    BY <2>1 DEF Queued, F, M
  <2>5. w - q + (t + n) = w - (q - t) + n
    OBVIOUS
  <2>. QED
    BY <2>2, <2>3, <2>4, <2>5 DEF j
<1>6. Queued(mem, r, i, w, q - t)
  BY <1>4, <1>5 DEF Queued, F, M, d
<1>. QED
  BY <1>1, <1>4, <1>6, SoundSizes DEF F, M, c, r

\* A queued frame is found as a whole.
LEMMA QueuedIsFrame ==
  ASSUME soundOut \in QueuePlaces, soundIn \in QueuePlaces, NEW w \in Nat, NEW q \in Nat,
         Queued(m_pQueue, soundOut, soundIn, w, q), NEW n \in 1 .. q
  PROVE  QueuedFrame(n) = w - q + n
<1>. DEFINE F == m_nHWFrameSize
            M == m_nQueueSize
            byte(k) == m_pQueue[Beyond(soundOut, (n - 1) * m_nHWFrameSize + k - 1)]
<1>1. F \in Nat \ {0} /\ M \in Nat \ {0} /\ Distance(M, soundOut, soundIn) = q * F /\ q * F < M
  <2>1. soundOut \in 0 .. M - 1 /\ soundIn \in 0 .. M - 1 /\ M \in Nat \ {0} /\ F \in Nat \ {0}
    BY SoundSizes
  <2>2. Distance(M, soundOut, soundIn) \in 0 .. M - 1
    BY <2>1, DistanceType
  <2>. QED
    BY <2>1, <2>2 DEF Queued
<1>2. ASSUME NEW k \in 1 .. F  PROVE byte(k) = <<w - q + n, k>>
  <2>1. ByteOf(n, k) \in Nat /\ ByteOf(n, k) < q * F
    BY BytesOfFrames
  <2>. DEFINE j == ByteOf(n, k)
              e == q * F
  <2>2. j \in Nat /\ j < e /\ e \in Nat /\ e < M
    BY <1>1, <2>1, Multiples
  <2>. HIDE DEF j, e
  <2>3. j \in 0 .. M
    BY <1>1, <2>2
  <2>4. Beyond(soundOut, j) = Forward(M, soundOut, j)
    BY <2>3, QueueTerms
  <2>5. m_pQueue[Forward(M, soundOut, ByteOf(n, k))] = <<w - q + n, k>>
    BY DEF Queued
  <2>. QED
    BY <2>4, <2>5 DEF j, ByteOf
<1>. HIDE DEF byte
<1>3. 1 \in 1 .. F /\ byte(1) = <<w - q + n, 1>> /\ byte(1)[1] = w - q + n
  BY <1>1, <1>2
<1>4. \A k \in 1 .. F : byte(k) = <<byte(1)[1], k>>
  BY <1>2, <1>3
<1>5. QueuedFrame(n) = IF \A k \in 1 .. F : byte(k) = <<byte(1)[1], k>> THEN byte(1)[1] ELSE Noise
  BY DEF QueuedFrame, byte
<1>. QED
  BY <1>3, <1>4, <1>5

-----------------------------------------------------------------------------
(* What is heard of chunks                                                  *)

\* n frames in order, behind the first x.
Run(x, n) == [i \in 1 .. n |-> x + i]

\* A chunk with n frames, which come behind the first x, and with silence for the rest.
IsChunk(chunk, x, n) ==
  /\ chunk \in Seq(Frames \cup {NullFrame}) /\ Len(chunk) <= ChunkFrames /\ n \in 0 .. Len(chunk)
  /\ \A i \in 1 .. Len(chunk) : chunk[i] = IF i <= n THEN x + i ELSE NullFrame

LEMMA RunType ==
  ASSUME NEW x \in Nat, NEW n \in Nat
  PROVE  /\ Run(x, n) \in Seq(Nat) /\ Len(Run(x, n)) = n /\ \A i \in 1 .. n : Run(x, n)[i] = x + i
         /\ x + n <= MaxFrames => Run(x, n) \in Seq(Frames)
<1>1. \A i \in 1 .. n : x + i \in Nat /\ (x + n <= MaxFrames => x + i \in Frames)
  BY SoundSizes DEF Frames
<1>2. Run(x, n) \in [1 .. n -> Nat] /\ (x + n <= MaxFrames => Run(x, n) \in [1 .. n -> Frames])
  BY <1>1 DEF Run
<1>. QED
  BY <1>2, LenProperties DEF Run

\* One run goes on with the next.
LEMMA RunsJoin ==
  ASSUME NEW x \in Nat, NEW a \in Nat, NEW b \in Nat
  PROVE  Run(x, a) \o Run(x + a, b) = Run(x, a + b)
<1>. DEFINE s == Run(x, a)
            t == Run(x + a, b)
<1>1. /\ s \in Seq(Nat) /\ t \in Seq(Nat) /\ Len(s) = a /\ Len(t) = b
      /\ \A i \in 1 .. a : s[i] = x + i
      /\ \A i \in 1 .. b : t[i] = x + a + i
  <2>1. x + a \in Nat
    OBVIOUS
  <2>. QED
    BY <2>1, RunType
<1>. HIDE DEF s, t
<1>2. s \o t = [k \in 1 .. a + b |-> IF k <= a THEN s[k] ELSE t[k - a]]
  <2>1. s \o t = [k \in 1 .. Len(s) + Len(t) |-> IF k <= Len(s) THEN s[k] ELSE t[k - Len(s)]]
    BY <1>1, ConcatValue
  <2>. QED
    BY <1>1, <2>1
<1>3. \A k \in 1 .. a + b : (IF k <= a THEN s[k] ELSE t[k - a]) = x + k
  BY <1>1
<1>4. s \o t = [k \in 1 .. a + b |-> x + k]
  BY <1>2, <1>3
<1>. QED
  BY <1>4 DEF Run, s, t

\* Its frames are heard.
LEMMA HeardOfChunk ==
  ASSUME NEW x \in Nat, NEW n, NEW chunk, IsChunk(chunk, x, n)
  PROVE  Sounds(chunk) = Run(x, n)
<1>1. /\ chunk \in Seq(Frames \cup {NullFrame}) /\ Len(chunk) \in Nat /\ n \in 0 .. Len(chunk)
      /\ \A i \in 1 .. Len(chunk) : chunk[i] = IF i <= n THEN x + i ELSE NullFrame
  BY DEF IsChunk
<1>2. IsHeard(chunk, n)
  <2>1. n # 0 => chunk[n] # NullFrame
    BY <1>1 DEF NullFrame
  <2>2. \A i \in n + 1 .. Len(chunk) : chunk[i] = NullFrame
    BY <1>1
  <2>. QED
    BY <2>1, <2>2 DEF IsHeard
<1>3. ASSUME NEW m \in 0 .. Len(chunk), IsHeard(chunk, m)  PROVE m = n
  <2>1. ~(m < n)
    <3>1. ASSUME m < n  PROVE FALSE
      <4>1. n \in 1 .. Len(chunk) /\ n \in m + 1 .. Len(chunk)
        BY <1>1, <3>1
      <4>2. chunk[n] = NullFrame /\ chunk[n] = x + n
        BY <1>1, <1>3, <4>1 DEF IsHeard
      <4>. QED
        BY <1>1, <3>1, <4>2 DEF NullFrame
    <3>. QED
      BY <3>1
  <2>2. ~(n < m)
    <3>1. ASSUME n < m  PROVE FALSE
      <4>1. m \in 1 .. Len(chunk) /\ m # 0 /\ ~(m <= n)
        BY <1>1, <3>1
      <4>. QED
        BY <1>1, <1>3, <4>1 DEF IsHeard
    <3>. QED
      BY <3>1
  <2>. QED
    BY <1>1, <2>1, <2>2
<1>4. (CHOOSE m \in 0 .. Len(chunk) : IsHeard(chunk, m)) = n
  BY <1>1, <1>2, <1>3
<1>5. SubSeq(chunk, 1, n) = [i \in 1 .. n |-> chunk[i]]
  BY <1>1, SubSeqProperties
<1>6. \A i \in 1 .. n : chunk[i] = x + i
  BY <1>1
<1>. QED
  BY <1>4, <1>5, <1>6 DEF Sounds, Run

-----------------------------------------------------------------------------
(* The sound device: the inductive invariant                                *)

\* The frames in the queue, or in the sample buffer, are the last of those written.
SourceKept ==
  /\ FramesAvail \in 0 .. written
  /\ source = "queue" => Queued(m_pQueue, soundOut, soundIn, written, FramesAvail)

HasChunk(b, x, n) == IF b = NoBlock THEN n = 0 ELSE IsChunk(m_pDMABuffer[b], x, n)
\* The buffer that is filled ahead.
FilledAhead ==
  IF starting = "filled" THEN 0 ELSE IF CONBLK = m_nNextBuffer THEN 1 - CONBLK ELSE NoBlock
\* p frames have been played, a are at the DMA channel, b in the buffer that is filled ahead.
InChunks(p, a, b) ==
  /\ played = Run(0, p)
  /\ HasChunk(CONBLK, p, a) /\ HasChunk(FilledAhead, p + a, b)
  /\ p + a + b = written - FramesAvail

\* Where the device and the DMA channel are, together.
Stopped == CONBLK = NoBlock /\ NEXTCONBK = NoBlock
IsIdle == starting = "no" /\ Stopped /\ soundState = "Idle" /\ ~interrupt
IsRunningOut == starting = "no" /\ Stopped /\ soundState = "Terminating" /\ interrupt
IsFilled ==
  /\ starting = "filled" /\ Stopped /\ m_nNextBuffer = 1 /\ ~interrupt
  /\ soundState \in {"Running", "Cancelled"}
IsStarted ==
  /\ starting = "plays" /\ CONBLK = 0 /\ NEXTCONBK = 1 /\ m_nNextBuffer = 1 /\ ~interrupt
  /\ soundState \in {"Running", "Cancelled"}
IsPlaying ==
  /\ starting = "no" /\ CONBLK \in SoundBuffers /\ NEXTCONBK = 1 - CONBLK
  /\ m_nNextBuffer = (IF interrupt THEN 1 - CONBLK ELSE CONBLK)
  /\ soundState \in {"Running", "Cancelled"}
IsAtLast ==
  /\ starting = "no" /\ CONBLK \in SoundBuffers /\ NEXTCONBK = NoBlock
  /\ m_nNextBuffer = 1 - CONBLK /\ soundState = "Terminating" /\ ~interrupt
PhaseKept == IsIdle \/ IsRunningOut \/ IsFilled \/ IsStarted \/ IsPlaying \/ IsAtLast

SoundKept ==
  /\ SoundTypeOK /\ SourceKept /\ PhaseKept
  /\ \E p, a, b \in Nat : InChunks(p, a, b)

\* How many frames a source has.
FramesIn(s, o, i, n) ==
  IF s = "queue" THEN Distance(m_nQueueSize, o, i) \div m_nHWFrameSize ELSE n

LEMMA FramesAvailIs ==
  /\ FramesAvail = FramesIn(source, soundOut, soundIn, m_nSamples)
  /\ FramesAvail' = FramesIn(source', soundOut', soundIn', m_nSamples')
BY DEF FramesAvail, FramesIn, GetQueueBytesAvail, Distance

LEMMA FramesQueued ==
  ASSUME NEW mem, NEW o, NEW i, NEW w, NEW q \in Nat, Queued(mem, o, i, w, q), NEW n
  PROVE  FramesIn("queue", o, i, n) = q
BY SoundSizes, FramesOfBytes DEF Queued, FramesIn

\* What the invariant says when it is unfolded.
LEMMA SoundFacts ==
  ASSUME SoundTypeOK, SourceKept
  PROVE  /\ source \in {"queue", "samples"} /\ m_nNextBuffer \in SoundBuffers
         /\ soundIn \in QueuePlaces /\ soundOut \in QueuePlaces /\ written \in 0 .. MaxFrames
         /\ m_nSamples \in 0 .. MaxFrames /\ FramesAvail \in 0 .. written
         /\ source = "samples" => FramesAvail = m_nSamples
         /\ \A n \in 1 .. FramesAvail :
              /\ source = "queue" => QueuedFrame(n) = written - FramesAvail + n
              /\ written - FramesAvail + n \in Frames
<1>1. /\ source \in {"queue", "samples"} /\ m_nNextBuffer \in SoundBuffers
      /\ soundIn \in QueuePlaces /\ soundOut \in QueuePlaces /\ written \in 0 .. MaxFrames
      /\ m_nSamples \in 0 .. MaxFrames /\ FramesAvail \in 0 .. written
  BY DEF SoundTypeOK, SourceKept
<1>2. source = "samples" => FramesAvail = m_nSamples
  BY DEF FramesAvail
<1>3. \A n \in 1 .. FramesAvail : written - FramesAvail + n \in Frames
  BY <1>1, SoundSizes DEF Frames
<1>4. ASSUME NEW n \in 1 .. FramesAvail, source = "queue"
      PROVE  QueuedFrame(n) = written - FramesAvail + n
  <2>1. Queued(m_pQueue, soundOut, soundIn, written, FramesAvail)
    BY <1>4 DEF SourceKept
  <2>2. written \in Nat /\ FramesAvail \in Nat
    BY <1>1, SoundSizes
  <2>. HIDE DEF FramesAvail
  <2>. QED
    BY <1>1, <2>1, <2>2, QueuedIsFrame
<1>. QED
  BY <1>1, <1>2, <1>3, <1>4

-----------------------------------------------------------------------------
(* The sound device: what its steps do                                      *)

\* As many frames are taken as there are and the chunk has room for.
LEMMA TakenIs ==
  ASSUME SoundTypeOK, SourceKept
  PROVE  FramesTaken \in 0 .. FramesAvail /\ FramesTaken <= ChunkFrames
<1>1. FramesAvail \in Nat
  BY SoundFacts, SoundSizes
<1>2. Room \in Nat /\ Room <= ChunkFrames
  BY SoundSizes DEF Room
<1>. HIDE DEF FramesAvail, Room
<1>. QED
  BY <1>1, <1>2, SoundSizes DEF FramesTaken, Fewer

\* The next chunk has the next frames of the source, and only the sample buffer ends.
LEMMA NextChunkIs ==
  ASSUME SoundTypeOK, SourceKept
  PROVE  /\ IsChunk(NextChunk, written - FramesAvail, FramesTaken)
         /\ source = "queue" => NextChunk # <<>>
<1>. DEFINE t == FramesTaken
            x == written - FramesAvail
            S == Frames \cup {NullFrame}
<1>1. /\ t \in 0 .. FramesAvail /\ t <= ChunkFrames /\ t \in Nat /\ x \in Nat
      /\ ChunkFrames \in Nat \ {0} /\ FramesAvail \in Nat
  BY TakenIs, SoundFacts, SoundSizes
<1>2. \A i \in 1 .. t : i \in 1 .. FramesAvail /\ x + i \in Frames
  BY <1>1, SoundFacts
<1>. HIDE DEF t, x
<1>3. CASE source = "queue"
  <2>. DEFINE q == QueuedFrames(t)
              z == [i \in 1 .. ChunkFrames - t |-> NullFrame]
  <2>1. \A i \in 1 .. t : QueuedFrame(i) = x + i
    BY <1>2, <1>3, SoundFacts DEF x
  <2>2. q = [i \in 1 .. t |-> x + i]
    BY <2>1 DEF QueuedFrames
  <2>3. q \in Seq(S) /\ Len(q) = t /\ \A i \in 1 .. t : q[i] = x + i
    <3>1. q \in [1 .. t -> S]
      BY <1>2, <2>2
    <3>. QED
      BY <1>1, <2>2, <3>1, LenProperties
  <2>4. z \in Seq(S) /\ Len(z) = ChunkFrames - t /\ \A i \in 1 .. ChunkFrames - t : z[i] = NullFrame
    <3>1. z \in [1 .. ChunkFrames - t -> S] /\ ChunkFrames - t \in Nat
      BY <1>1
    <3>. QED
      BY <3>1, LenProperties
  <2>5. NextChunk = q \o z
    BY <1>3 DEF NextChunk, t
  <2>. HIDE DEF q, z, S
  <2>6. /\ q \o z \in Seq(S) /\ Len(q \o z) = ChunkFrames
        /\ \A i \in 1 .. ChunkFrames : (q \o z)[i] = IF i <= t THEN q[i] ELSE z[i - t]
    <3>1. /\ q \o z \in Seq(S) /\ Len(q \o z) = Len(q) + Len(z)
          /\ \A i \in 1 .. Len(q) + Len(z) : (q \o z)[i] = IF i <= Len(q) THEN q[i] ELSE z[i - Len(q)]
      BY <2>3, <2>4, ConcatProperties
    <3>2. Len(q) + Len(z) = ChunkFrames
      BY <1>1, <2>3, <2>4
    <3>. QED
      BY <2>3, <3>1, <3>2
  <2>7. \A i \in 1 .. ChunkFrames : (q \o z)[i] = IF i <= t THEN x + i ELSE NullFrame
    <3>1. ASSUME NEW i \in 1 .. ChunkFrames
          PROVE  (q \o z)[i] = IF i <= t THEN x + i ELSE NullFrame
      <4>1. CASE i <= t
        BY <1>1, <2>3, <2>6, <4>1
      <4>2. CASE ~(i <= t)
        <5>1. i - t \in 1 .. ChunkFrames - t
          BY <1>1, <4>2
        <5>. QED
          BY <2>4, <2>6, <4>2, <5>1
      <4>. QED
        BY <4>1, <4>2
    <3>. QED
      BY <3>1
  <2>8. IsChunk(q \o z, x, t)
    BY <1>1, <2>6, <2>7 DEF IsChunk, S
  <2>9. q \o z # <<>>
    BY <1>1, <2>6
  <2>. QED
    BY <2>5, <2>8, <2>9 DEF x, t
<1>4. CASE source # "queue"
  <2>1. source = "samples"
    BY <1>4, SoundFacts
  <2>2. FramesAvail = m_nSamples
    BY <2>1, SoundFacts
  <2>3. NextChunk = [i \in 1 .. t |-> x + i]
    BY <1>4, <2>2 DEF NextChunk, SampleFrames, x, t
  <2>4. NextChunk \in [1 .. t -> S] /\ \A i \in 1 .. t : NextChunk[i] = x + i
    BY <1>2, <2>3
  <2>. HIDE DEF S
  <2>5. NextChunk \in Seq(S) /\ Len(NextChunk) = t
    BY <1>1, <2>4, LenProperties
  <2>6. IsChunk(NextChunk, x, t)
    BY <1>1, <2>4, <2>5 DEF IsChunk, S
  <2>. QED
    BY <1>4, <2>6 DEF x, t
<1>. QED
  BY <1>3, <1>4

\* The frames of the next chunk are taken from the source.
LEMMA TakeKeeps ==
  ASSUME SoundTypeOK, SourceKept, TakeFrames, UNCHANGED <<source, m_pQueue, soundIn, written>>
  PROVE  /\ SourceKept' /\ FramesAvail' = FramesAvail - FramesTaken
         /\ soundOut' \in QueuePlaces /\ m_nSamples' \in 0 .. MaxFrames
<1>. DEFINE t == FramesTaken
            q == FramesAvail
<1>1. /\ t \in 0 .. q /\ q \in 0 .. written /\ q \in Nat /\ written \in Nat /\ written \in 0 .. MaxFrames
      /\ soundOut \in QueuePlaces /\ soundIn \in QueuePlaces /\ q - t \in Nat
  BY TakenIs, SoundFacts, SoundSizes
<1>2. CASE source = "queue"
  <2>1. Queued(m_pQueue, soundOut, soundIn, written, q)
    BY <1>2 DEF SourceKept
  <2>2. soundOut' = Beyond(soundOut, t * m_nHWFrameSize) /\ m_nSamples' = m_nSamples
    BY <1>2 DEF TakeFrames
  <2>. HIDE DEF t, q
  <2>. DEFINE r == Forward(m_nQueueSize, soundOut, t * m_nHWFrameSize)
  <2>3. /\ Queued(m_pQueue, r, soundIn, written, q - t)
        /\ r \in QueuePlaces /\ t * m_nHWFrameSize \in 0 .. m_nQueueSize - 1
    BY <1>1, <2>1, QueuedLess
  <2>4. soundOut' = r
    <3>. DEFINE c == t * m_nHWFrameSize
    <3>1. c \in 0 .. m_nQueueSize - 1 /\ soundOut' = Beyond(soundOut, c)
      BY <2>2, <2>3
    <3>2. r = Forward(m_nQueueSize, soundOut, c)
      OBVIOUS
    <3>. HIDE DEF c, r
    <3>3. c \in 0 .. m_nQueueSize
      BY <3>1, SoundSizes
    <3>. QED
      BY <1>1, <3>1, <3>2, <3>3, QueueTerms
  <2>. HIDE DEF r
  <2>5. Queued(m_pQueue', soundOut', soundIn', written', q - t)
    BY <2>3, <2>4
  <2>6. FramesAvail' = q - t
    <3>1. FramesIn("queue", soundOut', soundIn', m_nSamples') = q - t
      BY <1>1, <2>5, FramesQueued
    <3>. QED
      BY <1>2, <3>1, FramesAvailIs
  <2>7. q - t \in 0 .. written'
    BY <1>1
  <2>8. m_nSamples' \in 0 .. MaxFrames
    BY <2>2, SoundFacts
  <2>9. SourceKept'
    BY <2>5, <2>6, <2>7 DEF SourceKept
  <2>. QED
    BY <2>3, <2>4, <2>6, <2>8, <2>9 DEF q, t
<1>3. CASE source # "queue"
  <2>1. source = "samples" /\ q = m_nSamples
    BY <1>3, SoundFacts
  <2>2. m_nSamples' = m_nSamples - t /\ soundOut' = soundOut
    BY <1>3 DEF TakeFrames
  <2>3. FramesAvail' = m_nSamples'
    BY <1>3, FramesAvailIs DEF FramesIn
  <2>. HIDE DEF q, t
  <2>4. FramesAvail' = q - t /\ q - t \in 0 .. written' /\ m_nSamples' \in 0 .. MaxFrames
    BY <1>1, <2>1, <2>2, <2>3, SoundSizes
  <2>5. source' # "queue"
    BY <1>3
  <2>6. SourceKept'
    BY <2>4, <2>5 DEF SourceKept
  <2>. QED
    BY <1>1, <2>2, <2>4, <2>6 DEF q, t
<1>. QED
  BY <1>2, <1>3

\* The next chunk gets into the next buffer.
LEMMA NextChunkFilled ==
  ASSUME SoundTypeOK, SourceKept, GetNextChunk, UNCHANGED <<source, m_pQueue, soundIn, written>>
  PROVE  /\ SourceKept' /\ FramesAvail' = FramesAvail - FramesTaken /\ FramesTaken \in Nat
         /\ soundOut' \in QueuePlaces /\ m_nSamples' \in 0 .. MaxFrames
         /\ m_nNextBuffer' = 1 - m_nNextBuffer /\ m_nNextBuffer' \in SoundBuffers
         /\ m_pDMABuffer' \in [SoundBuffers -> Seq(Frames \cup {NullFrame})]
         /\ \A b \in SoundBuffers : Len(m_pDMABuffer'[b]) <= ChunkFrames
         /\ IsChunk(m_pDMABuffer'[m_nNextBuffer], written - FramesAvail, FramesTaken)
         /\ m_pDMABuffer'[1 - m_nNextBuffer] = m_pDMABuffer[1 - m_nNextBuffer]
<1>1. /\ SourceKept' /\ FramesAvail' = FramesAvail - FramesTaken /\ FramesTaken \in Nat
      /\ soundOut' \in QueuePlaces /\ m_nSamples' \in 0 .. MaxFrames
  <2>1. TakeFrames
    BY DEF GetNextChunk
  <2>2. FramesTaken \in Nat
    BY TakenIs, SoundFacts, SoundSizes
  <2>. QED
    BY <2>1, <2>2, TakeKeeps
<1>2. m_nNextBuffer \in SoundBuffers /\ 1 - m_nNextBuffer \in SoundBuffers
      /\ 1 - m_nNextBuffer # m_nNextBuffer
  BY SoundFacts DEF SoundBuffers
<1>3. IsChunk(NextChunk, written - FramesAvail, FramesTaken)
  BY NextChunkIs
<1>4. /\ NextChunk \in Seq(Frames \cup {NullFrame}) /\ Len(NextChunk) <= ChunkFrames
  BY <1>3 DEF IsChunk
<1>. DEFINE x == written - FramesAvail
            t == FramesTaken
            chunk == NextChunk
            T == Seq(Frames \cup {NullFrame})
<1>5. /\ m_pDMABuffer' = [m_pDMABuffer EXCEPT ![m_nNextBuffer] = chunk]
      /\ m_nNextBuffer' = 1 - m_nNextBuffer
      /\ m_pDMABuffer \in [SoundBuffers -> T]
      /\ \A b \in SoundBuffers : Len(m_pDMABuffer[b]) <= ChunkFrames
  BY DEF GetNextChunk, SoundTypeOK
<1>. HIDE DEF x, t, chunk, T
<1>6. /\ m_pDMABuffer' \in [SoundBuffers -> T]
      /\ m_pDMABuffer'[m_nNextBuffer] = chunk
      /\ \A b \in SoundBuffers : b # m_nNextBuffer => m_pDMABuffer'[b] = m_pDMABuffer[b]
  BY <1>2, <1>4, <1>5 DEF chunk, T
<1>7. \A b \in SoundBuffers : Len(m_pDMABuffer'[b]) <= ChunkFrames
  <2>1. ASSUME NEW b \in SoundBuffers  PROVE Len(m_pDMABuffer'[b]) <= ChunkFrames
    <3>1. CASE b = m_nNextBuffer
      BY <1>4, <1>6, <3>1 DEF chunk
    <3>2. CASE b # m_nNextBuffer
      BY <1>5, <1>6, <3>2
    <3>. QED
      BY <3>1, <3>2
  <2>. QED
    BY <2>1
<1>8. m_pDMABuffer'[1 - m_nNextBuffer] = m_pDMABuffer[1 - m_nNextBuffer]
  BY <1>2, <1>6
<1>9. IsChunk(m_pDMABuffer'[m_nNextBuffer], x, t)
  BY <1>3, <1>6 DEF chunk, x, t
<1>. QED
  BY <1>1, <1>2, <1>5, <1>6, <1>7, <1>8, <1>9 DEF x, t, T

\* A frame is written: the source has one more.
LEMMA WriteFrameKeeps ==
  ASSUME SoundKept, WriteFrame
  PROVE  SoundKept'
<1>. DEFINE q == FramesAvail
            F == m_nHWFrameSize
            M == m_nQueueSize
<1>1. /\ SoundTypeOK /\ SourceKept /\ source = "queue" /\ written < MaxFrames
      /\ GetQueueBytesFree >= F /\ soundIn' = Beyond(soundIn, F) /\ written' = written + 1
      /\ UNCHANGED <<source, soundState, m_nNextBuffer, m_pDMABuffer, dmaVars, starting, soundOut,
                     m_nSamples, played>>
  BY DEF WriteFrame, SoundKept
<1>2. /\ soundIn \in QueuePlaces /\ soundOut \in QueuePlaces /\ written \in Nat
      /\ q \in 0 .. written /\ q \in Nat /\ F \in Nat \ {0} /\ M \in Nat \ {0} /\ F < M
      /\ QueuePlaces = 0 .. M - 1 /\ MaxFrames \in Nat
  BY <1>1, SoundFacts, SoundSizes
<1>3. Queued(m_pQueue, soundOut, soundIn, written, q)
  BY <1>1 DEF SourceKept
<1>. HIDE DEF q
<1>4. q * F + F < M
  <2>. DEFINE e == q * F
  <2>1. /\ GetQueueBytesFree = M - 1 - GetQueueBytesAvail /\ GetQueueBytesAvail = e
        /\ e \in Nat
    BY <1>2, <1>3, QueueTerms, Multiples DEF Queued
  <2>. HIDE DEF e, F, M
  <2>2. e + F < M
    BY <1>1, <1>2, <2>1 DEF F
  <2>. QED
    BY <2>2 DEF e
<1>5. /\ \A k \in 1 .. F : Beyond(soundIn, k - 1) = Forward(M, soundIn, k - 1)
      /\ soundIn' = Forward(M, soundIn, F) /\ soundIn' \in QueuePlaces
  <2>1. \A n \in 0 .. M : Beyond(soundIn, n) = Forward(M, soundIn, n)
    BY <1>2, QueueTerms
  <2>2. F \in 0 .. M /\ \A k \in 1 .. F : k - 1 \in 0 .. M
    BY <1>2
  <2>3. Forward(M, soundIn, F) \in 0 .. M - 1
    BY <1>2, <2>2, ForwardType
  <2>. QED
    BY <1>1, <1>2, <2>1, <2>2, <2>3
<1>6. m_pQueue' = WithFrame(m_pQueue, soundIn, written + 1)
  <2>1. m_pQueue' = [i \in QueuePlaces |->
       IF \E k \in 1 .. F : i = Beyond(soundIn, k - 1)
         THEN <<written + 1, CHOOSE k \in 1 .. F : i = Beyond(soundIn, k - 1)>>
         ELSE m_pQueue[i]]
    BY DEF WriteFrame
  <2>2. \A i : \A k \in 1 .. F : (i = Beyond(soundIn, k - 1)) <=> (i = Forward(M, soundIn, k - 1))
    BY <1>5
  <2>3. \A i : (CHOOSE k \in 1 .. F : i = Beyond(soundIn, k - 1))
                 = (CHOOSE k \in 1 .. F : i = Forward(M, soundIn, k - 1))
    BY <2>2
  <2>. QED
    BY <2>1, <2>2, <2>3 DEF WithFrame
<1>7. Queued(m_pQueue', soundOut', soundIn', written', q + 1)
  BY <1>1, <1>2, <1>3, <1>4, <1>5, <1>6, QueuedMore
<1>8. FramesAvail' = q + 1
  <2>1. FramesIn("queue", soundOut', soundIn', m_nSamples') = q + 1
    BY <1>2, <1>7, FramesQueued
  <2>. QED
    BY <1>1, <2>1, FramesAvailIs
<1>9. SourceKept'
  BY <1>1, <1>2, <1>7, <1>8 DEF SourceKept
<1>10. SoundTypeOK'
  <2>1. m_pQueue' \in [QueuePlaces -> (Frames \cup {NullFrame}) \X (1 .. F)]
    <3>1. m_pQueue \in [QueuePlaces -> (Frames \cup {NullFrame}) \X (1 .. F)]
      BY <1>1 DEF SoundTypeOK
    <3>2. written + 1 \in Frames
      BY <1>1, <1>2 DEF Frames
    <3>3. ASSUME NEW i, \E k \in 1 .. F : i = Forward(M, soundIn, k - 1)
          PROVE  (CHOOSE k \in 1 .. F : i = Forward(M, soundIn, k - 1)) \in 1 .. F
      BY <3>3
    <3>. QED
      BY <1>6, <3>1, <3>2, <3>3 DEF WithFrame
  <2>2. written' \in 0 .. MaxFrames
    BY <1>1, <1>2
  <2>. QED
    BY <1>1, <1>5, <2>1, <2>2 DEF SoundTypeOK, dmaVars
<1>11. PhaseKept'
  BY <1>1 DEF SoundKept, PhaseKept, IsIdle, IsRunningOut, IsFilled, IsStarted, IsPlaying, IsAtLast,
     Stopped, dmaVars
<1>12. ASSUME NEW p \in Nat, NEW a \in Nat, NEW b \in Nat, InChunks(p, a, b)
       PROVE  InChunks(p, a, b)'
  <2>1. written' - FramesAvail' = written - FramesAvail
    BY <1>1, <1>2, <1>8 DEF q
  <2>. QED
    BY <1>1, <1>12, <2>1 DEF InChunks, HasChunk, FilledAhead, dmaVars
<1>. QED
  BY <1>9, <1>10, <1>11, <1>12 DEF SoundKept

\* The sample buffer is replaced, from where nothing is being played.
LEMMA SetSamplesKeeps ==
  ASSUME SoundKept, NEW n \in 0 .. MaxFrames, SetSamples(n)
  PROVE  SoundKept'
<1>1. /\ SoundTypeOK /\ SourceKept /\ source = "samples" /\ soundState = "Idle" /\ starting = "no"
      /\ written' = written - m_nSamples + n /\ written' <= MaxFrames /\ m_nSamples' = n
      /\ UNCHANGED <<source, soundState, m_nNextBuffer, m_pDMABuffer, CONBLK, NEXTCONBK, interrupt,
                     starting, m_pQueue, soundIn, soundOut, played>>
  BY DEF SetSamples, SoundKept, dmaVars, queueVars
<1>2. /\ FramesAvail = m_nSamples /\ written \in Nat /\ m_nSamples \in 0 .. written
      /\ n \in Nat /\ MaxFrames \in Nat
  BY <1>1, SoundFacts, SoundSizes
<1>3. FramesAvail' = n
  BY <1>1, FramesAvailIs DEF FramesIn
<1>. HIDE DEF FramesAvail
<1>4. SourceKept'
  BY <1>1, <1>2, <1>3 DEF SourceKept
<1>5. SoundTypeOK'
  <2>1. written' \in 0 .. MaxFrames
    BY <1>1, <1>2
  <2>. QED
    BY <1>1, <2>1 DEF SoundTypeOK
<1>6. PhaseKept'
  BY <1>1 DEF SoundKept, PhaseKept, IsIdle, IsRunningOut, IsFilled, IsStarted, IsPlaying, IsAtLast,
     Stopped
<1>7. ASSUME NEW p \in Nat, NEW a \in Nat, NEW b \in Nat, InChunks(p, a, b)
      PROVE  InChunks(p, a, b)'
  <2>1. written' - FramesAvail' = written - FramesAvail
    BY <1>1, <1>2, <1>3
  <2>. QED
    BY <1>1, <1>7, <2>1 DEF InChunks, HasChunk, FilledAhead
<1>. QED
  BY <1>4, <1>5, <1>6, <1>7 DEF SoundKept

\* A step that takes nothing from the source leaves it as it is.
LEMMA SourceStays ==
  ASSUME SourceKept, UNCHANGED <<source, m_pQueue, soundIn, soundOut, written, m_nSamples>>
  PROVE  SourceKept' /\ FramesAvail' = FramesAvail
<1>1. FramesAvail' = FramesAvail
  BY FramesAvailIs
<1>. QED
  BY <1>1 DEF SourceKept

\* Start fills the first buffer.
LEMMA StartFillKeeps ==
  ASSUME SoundKept, StartFill
  PROVE  SoundKept'
<1>1. /\ SoundTypeOK /\ SourceKept /\ PhaseKept /\ starting = "no" /\ soundState = "Idle"
      /\ m_nNextBuffer = 0 /\ GetNextChunk /\ soundState' = "Running" /\ starting' = "filled"
      /\ UNCHANGED <<source, CONBLK, NEXTCONBK, interrupt, m_pQueue, soundIn, written, played>>
  BY DEF StartFill, SoundKept, dmaVars
<1>2. IsIdle
  BY <1>1 DEF PhaseKept, IsIdle, IsRunningOut, IsFilled, IsStarted, IsPlaying, IsAtLast
<1>0. PICK t \in Nat : t = FramesTaken
  BY <1>1, TakenIs, SoundFacts, SoundSizes
<1>3. /\ SourceKept' /\ FramesAvail' = FramesAvail - t /\ t \in Nat
      /\ soundOut' \in QueuePlaces /\ m_nSamples' \in 0 .. MaxFrames
      /\ m_nNextBuffer' = 1 /\ m_nNextBuffer' \in SoundBuffers
      /\ m_pDMABuffer' \in [SoundBuffers -> Seq(Frames \cup {NullFrame})]
      /\ \A b \in SoundBuffers : Len(m_pDMABuffer'[b]) <= ChunkFrames
      /\ IsChunk(m_pDMABuffer'[0], written - FramesAvail, t)
  BY <1>0, <1>1, NextChunkFilled
<1>4. written \in Nat /\ FramesAvail \in Nat
  BY <1>1, SoundFacts, SoundSizes
<1>. HIDE DEF FramesAvail
<1>5. SoundTypeOK'
  BY <1>1, <1>3 DEF SoundTypeOK
<1>6. PhaseKept'
  BY <1>1, <1>2, <1>3 DEF PhaseKept, IsIdle, IsFilled, Stopped
<1>7. ASSUME NEW p \in Nat, NEW a \in Nat, NEW b \in Nat, InChunks(p, a, b)
      PROVE  InChunks(p, 0, t)'
  <2>1. a = 0 /\ b = 0
    BY <1>1, <1>2, <1>7 DEF InChunks, HasChunk, FilledAhead, IsIdle, Stopped, NoBlock
  <2>2. p = written - FramesAvail /\ p + 0 = p /\ p + 0 + t = written' - FramesAvail'
    BY <1>1, <1>3, <1>4, <1>7, <2>1 DEF InChunks
  <2>3. FilledAhead' = 0 /\ CONBLK' = NoBlock /\ NoBlock # 0
    BY <1>1, <1>2 DEF FilledAhead, IsIdle, Stopped, NoBlock
  <2>4. HasChunk(CONBLK, p, 0)'
    BY <2>3 DEF HasChunk
  <2>5. HasChunk(FilledAhead, p + 0, t)'
    BY <1>3, <2>2, <2>3 DEF HasChunk
  <2>. QED
    BY <1>1, <1>7, <2>2, <2>4, <2>5 DEF InChunks
<1>8. 0 \in Nat
  OBVIOUS
<1>. QED
  BY <1>3, <1>5, <1>6, <1>7, <1>8 DEF SoundKept

\* Start begins with the first buffer; the DMA channel is activated; somebody cancels.
LEMMA StartsAndCancelKeep ==
  ASSUME SoundKept, StartReset \/ StartDMA \/ Cancel
  PROVE  SoundKept'
<1>1. /\ SoundTypeOK /\ SourceKept /\ PhaseKept
      /\ UNCHANGED <<source, m_pDMABuffer, interrupt, m_pQueue, soundIn, soundOut, written, m_nSamples,
                     played>>
  BY DEF StartReset, StartDMA, Cancel, SoundKept, dmaVars, queueVars
<1>2. SourceKept' /\ FramesAvail' = FramesAvail
  BY <1>1, SourceStays
<1>. HIDE DEF FramesAvail
<1>3. CASE StartReset
  <2>1. /\ IsIdle /\ m_nNextBuffer' = 0
        /\ UNCHANGED <<soundState, CONBLK, NEXTCONBK, starting>>
    BY <1>1, <1>3 DEF StartReset, dmaVars, PhaseKept, IsIdle, IsRunningOut, IsFilled, IsStarted,
       IsPlaying, IsAtLast
  <2>2. SoundTypeOK' /\ IsIdle'
    BY <1>1, <2>1 DEF SoundTypeOK, SoundBuffers, IsIdle, Stopped
  <2>3. ASSUME NEW p \in Nat, NEW a \in Nat, NEW b \in Nat, InChunks(p, a, b)
        PROVE  InChunks(p, a, b)'
    <3>1. FilledAhead = NoBlock /\ FilledAhead' = NoBlock
      BY <1>1, <2>1 DEF FilledAhead, IsIdle, Stopped, NoBlock, SoundTypeOK, SoundBuffers
    <3>. QED
      BY <1>1, <1>2, <2>1, <2>3, <3>1 DEF InChunks, HasChunk
  <2>. QED
    BY <1>2, <2>2, <2>3 DEF SoundKept, PhaseKept
<1>4. CASE StartDMA
  <2>1. /\ IsFilled /\ CONBLK' = 0 /\ NEXTCONBK' = 1 /\ starting' = "plays"
        /\ UNCHANGED <<soundState, m_nNextBuffer>>
    BY <1>1, <1>4 DEF StartDMA, PhaseKept, IsIdle, IsRunningOut, IsFilled, IsStarted,
       IsPlaying, IsAtLast
  <2>2. SoundTypeOK' /\ IsStarted'
    BY <1>1, <2>1 DEF SoundTypeOK, SoundBuffers, IsFilled, IsStarted
  <2>3. ASSUME NEW p \in Nat, NEW a \in Nat, NEW b \in Nat, InChunks(p, a, b)
        PROVE  InChunks(p, b, 0)'
    <3>1. /\ CONBLK = NoBlock /\ FilledAhead = 0 /\ FilledAhead' = NoBlock /\ NoBlock # 0
      BY <2>1 DEF FilledAhead, IsFilled, Stopped, NoBlock
    <3>2. a = 0 /\ p + a = p /\ p + b + 0 = p + a + b
      BY <2>3, <3>1 DEF InChunks, HasChunk
    <3>. QED
      BY <1>1, <1>2, <2>1, <2>3, <3>1, <3>2 DEF InChunks, HasChunk
  <2>4. 0 \in Nat
    OBVIOUS
  <2>. QED
    BY <1>2, <2>2, <2>3, <2>4 DEF SoundKept, PhaseKept
<1>5. CASE Cancel
  <2>1. /\ soundState = "Running" /\ soundState' = "Cancelled"
        /\ UNCHANGED <<m_nNextBuffer, CONBLK, NEXTCONBK, starting>>
    BY <1>5 DEF Cancel, dmaVars
  <2>2. SoundTypeOK'
    BY <1>1, <2>1 DEF SoundTypeOK
  <2>3. PhaseKept'
    BY <1>1, <2>1 DEF PhaseKept, IsIdle, IsRunningOut, IsFilled, IsStarted, IsPlaying, IsAtLast,
       Stopped
  <2>4. ASSUME NEW p \in Nat, NEW a \in Nat, NEW b \in Nat, InChunks(p, a, b)
        PROVE  InChunks(p, a, b)'
    BY <1>1, <1>2, <2>1, <2>4 DEF InChunks, HasChunk, FilledAhead
  <2>. QED
    BY <1>2, <2>2, <2>3, <2>4 DEF SoundKept
<1>. QED
  BY <1>3, <1>4, <1>5

\* A buffer is filled ahead of the one that is at the DMA channel.
FillsAhead ==
  /\ GetNextChunk /\ CONBLK \in SoundBuffers /\ m_nNextBuffer = 1 - CONBLK /\ starting' = "no"
  /\ UNCHANGED <<source, CONBLK, m_pQueue, soundIn, written, played>>

LEMMA FillsAheadKeeps ==
  ASSUME SoundTypeOK, SourceKept, FillsAhead, starting # "filled",
         NEW p \in Nat, NEW a \in Nat, NEW b \in Nat, InChunks(p, a, b)
  PROVE  SourceKept' /\ \E c \in Nat : InChunks(p, a, c)'
<1>0. PICK t \in Nat : t = FramesTaken
  BY TakenIs, SoundFacts, SoundSizes
<1>. DEFINE d == 1 - CONBLK
<1>1. /\ GetNextChunk /\ CONBLK \in SoundBuffers /\ m_nNextBuffer = d /\ starting' = "no"
      /\ UNCHANGED <<source, CONBLK, m_pQueue, soundIn, written, played>>
  BY DEF FillsAhead
<1>2. /\ d \in SoundBuffers /\ 1 - d = CONBLK /\ CONBLK # d
      /\ CONBLK # NoBlock /\ d # NoBlock
  BY <1>1 DEF SoundBuffers, NoBlock
<1>3. /\ SourceKept' /\ FramesAvail' = FramesAvail - t /\ t \in Nat
      /\ m_nNextBuffer' = 1 - m_nNextBuffer
      /\ IsChunk(m_pDMABuffer'[m_nNextBuffer], written - FramesAvail, t)
      /\ m_pDMABuffer'[1 - m_nNextBuffer] = m_pDMABuffer[1 - m_nNextBuffer]
  BY <1>0, <1>1, NextChunkFilled
<1>4. written \in Nat /\ FramesAvail \in Nat
  BY SoundFacts, SoundSizes
<1>. HIDE DEF FramesAvail, d
<1>5. b = 0 /\ p + a = written - FramesAvail
  <2>1. FilledAhead = NoBlock
    BY <1>1, <1>2 DEF FilledAhead
  <2>2. b = 0 /\ p + a + b = written - FramesAvail
    BY <2>1 DEF InChunks, HasChunk
  <2>. QED
    BY <2>2
<1>6. m_nNextBuffer' = CONBLK' /\ FilledAhead' = d
  BY <1>1, <1>2, <1>3 DEF FilledAhead, d
<1>7. HasChunk(CONBLK, p, a)'
  BY <1>1, <1>2, <1>3 DEF InChunks, HasChunk
<1>8. HasChunk(FilledAhead, p + a, t)'
  BY <1>1, <1>2, <1>3, <1>5, <1>6 DEF HasChunk
<1>9. p + a + t = written' - FramesAvail'
  BY <1>1, <1>3, <1>4, <1>5
<1>10. InChunks(p, a, t)'
  BY <1>1, <1>7, <1>8, <1>9 DEF InChunks
<1>. QED
  BY <1>3, <1>10

\* Start fills the second buffer, or ends after the first.
LEMMA StartSecondKeeps ==
  ASSUME SoundKept, StartSecond
  PROVE  SoundKept'
<1>1. /\ SoundTypeOK /\ SourceKept /\ PhaseKept /\ starting = "plays" /\ starting' = "no"
      /\ UNCHANGED <<source, CONBLK, interrupt, m_pQueue, soundIn, written, played>>
  BY DEF StartSecond, SoundKept
<1>2. IsStarted
  BY <1>1 DEF PhaseKept, IsIdle, IsRunningOut, IsFilled, IsStarted, IsPlaying, IsAtLast
<1>3. CASE GetNextChunk /\ UNCHANGED <<soundState, NEXTCONBK>>
  <2>1. FillsAhead
    BY <1>1, <1>2, <1>3 DEF FillsAhead, IsStarted, SoundBuffers
  <2>2. SoundTypeOK' /\ m_nNextBuffer' = 1 - m_nNextBuffer
    BY <1>1, <1>3, NextChunkFilled DEF SoundTypeOK
  <2>3. IsPlaying'
    BY <1>1, <1>2, <1>3, <2>2 DEF IsStarted, IsPlaying, SoundBuffers
  <2>4. PICK p \in Nat, a \in Nat, b \in Nat : InChunks(p, a, b)
    BY DEF SoundKept
  <2>5. SourceKept' /\ \E c \in Nat : InChunks(p, a, c)'
    BY <1>1, <2>1, <2>4, FillsAheadKeeps
  <2>. QED
    BY <2>2, <2>3, <2>5 DEF SoundKept, PhaseKept
<1>4. CASE NoNextChunk /\ soundState' = "Terminating" /\ NEXTCONBK' = NoBlock
  <2>1. UNCHANGED <<m_pDMABuffer, m_nNextBuffer, soundOut, m_nSamples>>
    BY <1>4 DEF NoNextChunk
  <2>2. SourceKept' /\ FramesAvail' = FramesAvail
    BY <1>1, <2>1, SourceStays
  <2>3. SoundTypeOK' /\ IsAtLast'
    BY <1>1, <1>2, <1>4, <2>1 DEF SoundTypeOK, IsStarted, IsAtLast, SoundBuffers
  <2>. HIDE DEF FramesAvail
  <2>4. ASSUME NEW p \in Nat, NEW a \in Nat, NEW b \in Nat, InChunks(p, a, b)
        PROVE  InChunks(p, a, b)'
    <3>1. FilledAhead = NoBlock /\ FilledAhead' = NoBlock
      BY <1>1, <1>2, <2>1 DEF FilledAhead, IsStarted
    <3>. QED
      BY <1>1, <2>1, <2>2, <2>4, <3>1 DEF InChunks, HasChunk
  <2>. QED
    BY <2>2, <2>3, <2>4 DEF SoundKept, PhaseKept
<1>. QED
  BY <1>3, <1>4 DEF StartSecond

\* A buffer has been played: its frames follow those before.
LEMMA PlaysChunkKeeps ==
  ASSUME SoundKept, PlaysChunk
  PROVE  SoundKept'
<1>1. /\ SoundTypeOK /\ SourceKept /\ PhaseKept /\ CONBLK # NoBlock /\ ~interrupt /\ starting = "no"
      /\ played' = played \o Sounds(m_pDMABuffer[CONBLK])
      /\ CONBLK' = NEXTCONBK /\ interrupt' = TRUE
      /\ NEXTCONBK' = IF NEXTCONBK = NoBlock THEN NoBlock ELSE 1 - NEXTCONBK
      /\ UNCHANGED <<source, soundState, m_nNextBuffer, m_pDMABuffer, starting, m_pQueue, soundIn,
                     soundOut, written, m_nSamples>>
  BY DEF PlaysChunk, SoundKept, queueVars
<1>2. IsPlaying \/ IsAtLast
  BY <1>1 DEF PhaseKept, IsIdle, IsRunningOut, IsFilled, IsStarted, Stopped
<1>3. SourceKept' /\ FramesAvail' = FramesAvail
  BY <1>1, SourceStays
<1>4. written \in 0 .. MaxFrames /\ FramesAvail \in Nat /\ MaxFrames \in Nat
  BY <1>1, SoundFacts, SoundSizes
<1>. HIDE DEF FramesAvail
<1>5. PhaseKept'
  <2>1. CASE IsPlaying
    <3>1. IsPlaying'
      BY <1>1, <2>1 DEF IsPlaying, SoundBuffers, NoBlock
    <3>. QED
      BY <3>1 DEF PhaseKept
  <2>2. CASE IsAtLast
    <3>1. IsRunningOut'
      BY <1>1, <2>2 DEF IsAtLast, IsRunningOut, Stopped, SoundBuffers, NoBlock
    <3>. QED
      BY <3>1 DEF PhaseKept
  <2>. QED
    BY <1>2, <2>1, <2>2
<1>6. PICK p \in Nat, a \in Nat, b \in Nat : InChunks(p, a, b)
  BY DEF SoundKept
<1>7. /\ played = Run(0, p) /\ IsChunk(m_pDMABuffer[CONBLK], p, a)
      /\ HasChunk(FilledAhead, p + a, b) /\ p + a + b = written - FramesAvail
  BY <1>1, <1>6 DEF InChunks, HasChunk
<1>8. played' = Run(0, p + a)
  <2>1. 0 \in Nat /\ 0 + p = p
    OBVIOUS
  <2>2. Sounds(m_pDMABuffer[CONBLK]) = Run(p, a)
    BY <1>7, HeardOfChunk
  <2>3. Run(0, p) \o Run(0 + p, a) = Run(0, p + a)
    BY <2>1, RunsJoin
  <2>. QED
    BY <1>1, <1>7, <2>1, <2>2, <2>3
<1>9. SoundTypeOK'
  <2>1. played' \in Seq(Frames)
    <3>1. p + a \in Nat /\ 0 \in Nat /\ 0 + (p + a) <= MaxFrames
      BY <1>4, <1>7
    <3>. QED
      BY <1>8, <3>1, RunType
  <2>2. {CONBLK', NEXTCONBK'} \subseteq SoundBuffers \cup {NoBlock}
    BY <1>1 DEF SoundTypeOK, SoundBuffers, NoBlock
  <2>. QED
    BY <1>1, <2>1, <2>2 DEF SoundTypeOK
<1>10. CONBLK' = FilledAhead /\ FilledAhead' = NoBlock
  BY <1>1, <1>2 DEF FilledAhead, IsPlaying, IsAtLast, SoundBuffers, NoBlock
<1>11. InChunks(p + a, b, 0)'
  <2>1. HasChunk(CONBLK, p + a, b)'
    BY <1>1, <1>7, <1>10 DEF HasChunk
  <2>2. HasChunk(FilledAhead, p + a + b, 0)'
    BY <1>10 DEF HasChunk
  <2>3. (p + a) + b + 0 = written' - FramesAvail'
    BY <1>1, <1>3, <1>7
  <2>. QED
    BY <1>8, <2>1, <2>2, <2>3 DEF InChunks
<1>12. p + a \in Nat /\ 0 \in Nat
  OBVIOUS
<1>. QED
  BY <1>3, <1>5, <1>9, <1>11, <1>12 DEF SoundKept

\* The interrupt handler fills the buffer that has been played, ends, or has ended.
LEMMA HandlesInterruptKeeps ==
  ASSUME SoundKept, HandlesInterrupt
  PROVE  SoundKept'
<1>1. /\ SoundTypeOK /\ SourceKept /\ PhaseKept /\ interrupt /\ interrupt' = FALSE
      /\ NextIsFilled \/ ComesToEnd \/ IsOver
      /\ UNCHANGED <<source, CONBLK, starting, m_pQueue, soundIn, written, played>>
  BY DEF HandlesInterrupt, SoundKept
<1>2. IsPlaying \/ IsRunningOut
  BY <1>1 DEF PhaseKept, IsIdle, IsFilled, IsStarted, IsAtLast
<1>3. PICK p \in Nat, a \in Nat, b \in Nat : InChunks(p, a, b)
  BY DEF SoundKept
<1>4. CASE NextIsFilled
  <2>1. IsPlaying /\ soundState' = soundState /\ NEXTCONBK' = NEXTCONBK /\ GetNextChunk
    BY <1>2, <1>4 DEF NextIsFilled, IsRunningOut
  <2>2. FillsAhead
    BY <1>1, <2>1 DEF FillsAhead, IsPlaying
  <2>3. SoundTypeOK' /\ m_nNextBuffer' = 1 - m_nNextBuffer
    BY <1>1, <2>1, NextChunkFilled DEF SoundTypeOK
  <2>4. IsPlaying'
    BY <1>1, <2>1, <2>3 DEF IsPlaying, SoundBuffers
  <2>5. SourceKept' /\ \E c \in Nat : InChunks(p, a, c)'
    BY <1>1, <1>3, <2>1, <2>2, FillsAheadKeeps DEF IsPlaying
  <2>. QED
    BY <2>3, <2>4, <2>5 DEF SoundKept, PhaseKept
<1>5. CASE ComesToEnd \/ IsOver
  <2>1. UNCHANGED <<m_pDMABuffer, m_nNextBuffer, soundOut, m_nSamples>>
    BY <1>5 DEF ComesToEnd, IsOver
  <2>2. SourceKept' /\ FramesAvail' = FramesAvail
    BY <1>1, <2>1, SourceStays
  <2>3. InChunks(p, a, b)'
    BY <1>1, <1>3, <2>1, <2>2 DEF InChunks, HasChunk, FilledAhead
  <2>4. CASE ComesToEnd
    <3>1. IsPlaying /\ NEXTCONBK' = NoBlock /\ soundState' = "Terminating"
      BY <1>2, <2>4 DEF ComesToEnd, IsRunningOut
    <3>2. SoundTypeOK' /\ IsAtLast'
      BY <1>1, <2>1, <3>1 DEF SoundTypeOK, IsPlaying, IsAtLast
    <3>. QED
      BY <2>2, <2>3, <3>2 DEF SoundKept, PhaseKept
  <2>5. CASE IsOver
    <3>1. IsRunningOut /\ NEXTCONBK' = NEXTCONBK /\ soundState' = "Idle"
      BY <1>2, <2>5 DEF IsOver, IsPlaying
    <3>2. SoundTypeOK' /\ IsIdle'
      BY <1>1, <2>1, <3>1 DEF SoundTypeOK, IsRunningOut, IsIdle, Stopped
    <3>. QED
      BY <2>2, <2>3, <3>2 DEF SoundKept, PhaseKept
  <2>. QED
    BY <1>5, <2>4, <2>5
<1>. QED
  BY <1>1, <1>4, <1>5

\* The invariant holds initially.
LEMMA SoundStarts == SoundInit => SoundKept
<1>. SUFFICES ASSUME SoundInit  PROVE SoundKept
  OBVIOUS
<1>1. /\ source \in {"queue", "samples"} /\ soundState = "Idle" /\ m_nNextBuffer = 0
      /\ m_pDMABuffer = [b \in SoundBuffers |-> <<>>]
      /\ CONBLK = NoBlock /\ NEXTCONBK = NoBlock /\ interrupt = FALSE /\ starting = "no"
      /\ m_pQueue = [i \in QueuePlaces |-> <<NullFrame, 1>>] /\ soundIn = 0 /\ soundOut = 0
      /\ written = 0 /\ m_nSamples = 0 /\ played = <<>>
  BY DEF SoundInit
<1>2. FramesAvail = 0
  <2>1. 0 * m_nHWFrameSize = 0 /\ 0 \in Nat
    BY SoundSizes
  <2>2. Distance(m_nQueueSize, 0, 0) = 0
    BY SoundSizes DEF Distance
  <2>3. 0 \div m_nHWFrameSize = 0
    BY <2>1, SoundSizes, FramesOfBytes
  <2>. QED
    BY <1>1, <2>2, <2>3, FramesAvailIs DEF FramesIn
<1>3. SourceKept
  <2>1. Queued(m_pQueue, 0, 0, 0, 0)
    BY SoundSizes DEF Queued, Distance
  <2>. QED
    BY <1>1, <1>2, <2>1 DEF SourceKept
<1>4. SoundTypeOK
  <2>1. 0 \in QueuePlaces /\ 0 \in 0 .. MaxFrames /\ 1 \in 1 .. m_nHWFrameSize /\ 0 \in SoundBuffers
    BY SoundSizes DEF SoundBuffers
  <2>2. /\ m_pDMABuffer \in [SoundBuffers -> Seq(Frames \cup {NullFrame})]
        /\ \A b \in SoundBuffers : Len(m_pDMABuffer[b]) <= ChunkFrames
    BY <1>1, SoundSizes
  <2>3. m_pQueue \in [QueuePlaces -> (Frames \cup {NullFrame}) \X (1 .. m_nHWFrameSize)]
    BY <1>1, <2>1
  <2>. QED
    BY <1>1, <2>1, <2>2, <2>3 DEF SoundTypeOK
<1>5. InChunks(0, 0, 0)
  <2>1. played = Run(0, 0)
    BY <1>1 DEF Run
  <2>2. FilledAhead = NoBlock
    BY <1>1 DEF FilledAhead, NoBlock
  <2>. QED
    BY <1>1, <1>2, <2>1, <2>2 DEF InChunks, HasChunk
<1>6. IsIdle /\ 0 \in Nat
  BY <1>1 DEF IsIdle, Stopped
<1>. QED
  BY <1>3, <1>4, <1>5, <1>6 DEF SoundKept, PhaseKept

\* Every step keeps the invariant.
LEMMA SoundStep == SoundKept /\ [SoundNext]_soundVars => SoundKept'
<1>. SUFFICES ASSUME SoundKept, [SoundNext]_soundVars  PROVE SoundKept'
  OBVIOUS
<1>1. CASE SoundNext
  BY <1>1, WriteFrameKeeps, SetSamplesKeeps, StartFillKeeps, StartsAndCancelKeep, StartSecondKeeps,
     PlaysChunkKeeps, HandlesInterruptKeeps DEF SoundNext
<1>2. CASE UNCHANGED soundVars
  <2>1. /\ UNCHANGED <<source, soundState, m_nNextBuffer, m_pDMABuffer, CONBLK, NEXTCONBK, interrupt,
                       starting, m_pQueue, soundIn, soundOut, written, m_nSamples, played>>
        /\ SoundTypeOK /\ SourceKept /\ PhaseKept
    BY <1>2 DEF soundVars, dmaVars, queueVars, SoundKept
  <2>2. SourceKept' /\ FramesAvail' = FramesAvail
    BY <2>1, SourceStays
  <2>3. SoundTypeOK'
    BY <2>1 DEF SoundTypeOK
  <2>4. PhaseKept'
    BY <2>1 DEF PhaseKept, IsIdle, IsRunningOut, IsFilled, IsStarted, IsPlaying, IsAtLast, Stopped
  <2>. HIDE DEF FramesAvail
  <2>5. ASSUME NEW p \in Nat, NEW a \in Nat, NEW b \in Nat, InChunks(p, a, b)
        PROVE  InChunks(p, a, b)'
    BY <2>1, <2>2, <2>5 DEF InChunks, HasChunk, FilledAhead
  <2>. QED
    BY <2>2, <2>3, <2>4, <2>5 DEF SoundKept
<1>. QED
  BY <1>1, <1>2

\* What has been played and what is still to come are the frames that were written, in order.
LEMMA SoundKeptIsRight == SoundKept => SoundRight
<1>. SUFFICES ASSUME SoundKept  PROVE SoundRight
  OBVIOUS
<1>1. SoundTypeOK /\ SourceKept /\ PhaseKept
  BY DEF SoundKept
<1>2. PICK p \in Nat, a \in Nat, b \in Nat : InChunks(p, a, b)
  BY DEF SoundKept
<1>3. written \in Nat /\ FramesAvail \in 0 .. written /\ FramesAvail \in Nat
  BY <1>1, SoundFacts, SoundSizes
<1>4. StoppedWhenIdle
  BY <1>1 DEF StoppedWhenIdle, PhaseKept, IsIdle, IsRunningOut, IsFilled, IsStarted, IsPlaying,
     IsAtLast, Stopped
<1>. DEFINE X == IF CONBLK = NoBlock THEN <<>> ELSE Sounds(m_pDMABuffer[CONBLK])
            Y == IF starting = "filled" THEN Sounds(m_pDMABuffer[0])
                 ELSE IF CONBLK = m_nNextBuffer THEN Sounds(m_pDMABuffer[1 - CONBLK]) ELSE <<>>
            Z == IF source = "queue" THEN QueuedFrames(FramesAvail) ELSE SampleFrames(FramesAvail)
            r == FramesAvail
<1>5. \A x : Run(x, 0) = <<>>
  BY DEF Run
<1>6. X = Run(p, a)
  BY <1>2, <1>5, HeardOfChunk DEF InChunks, HasChunk
<1>7. Y = Run(p + a, b)
  <2>1. HasChunk(FilledAhead, p + a, b) /\ p + a \in Nat
    BY <1>2 DEF InChunks
  <2>2. CASE FilledAhead = NoBlock
    <3>1. b = 0
      BY <2>1, <2>2 DEF HasChunk
    <3>2. starting # "filled" /\ CONBLK # m_nNextBuffer
      BY <1>1, <2>2 DEF FilledAhead, NoBlock, SoundTypeOK, SoundBuffers
    <3>. QED
      BY <1>5, <3>1, <3>2
  <2>3. CASE FilledAhead # NoBlock
    <3>1. Sounds(m_pDMABuffer[FilledAhead]) = Run(p + a, b)
      BY <2>1, <2>3, HeardOfChunk DEF HasChunk
    <3>2. Y = Sounds(m_pDMABuffer[FilledAhead])
      BY <2>3 DEF FilledAhead
    <3>. QED
      BY <3>1, <3>2
  <2>. QED
    BY <2>2, <2>3
<1>8. Z = Run(p + a + b, r)
  <2>1. p + a + b = written - r
    BY <1>2 DEF InChunks
  <2>2. CASE source = "queue"
    <3>1. \A n \in 1 .. r : QueuedFrame(n) = written - r + n
      BY <1>1, <2>2, SoundFacts
    <3>. QED
      BY <2>1, <2>2, <3>1 DEF QueuedFrames, Run
  <2>3. CASE source # "queue"
    <3>1. r = m_nSamples
      BY <1>1, <2>3, SoundFacts
    <3>. QED
      BY <2>1, <2>3, <3>1 DEF SampleFrames, Run
  <2>. QED
    BY <2>2, <2>3
<1>. HIDE DEF X, Y, Z, r
<1>9. X \o Y \o Z = Run(p, a + b + r)
  <2>1. /\ a \in Nat /\ b \in Nat /\ r \in Nat /\ a + b \in Nat /\ p + a + b = p + (a + b)
    BY <1>3 DEF r
  <2>2. Run(p, a) \o Run(p + a, b) = Run(p, a + b)
    BY <2>1, RunsJoin
  <2>3. Run(p, a + b) \o Run(p + (a + b), r) = Run(p, (a + b) + r)
    BY <2>1, RunsJoin
  <2>. QED
    BY <1>6, <1>7, <1>8, <2>1, <2>2, <2>3
<1>10. played \o (X \o Y \o Z) = Run(0, written)
  <2>1. played = Run(0, p)
    BY <1>2 DEF InChunks
  <2>2. /\ 0 \in Nat /\ a + b + r \in Nat /\ 0 + p = p /\ p + (a + b + r) = written
    <3>1. p + a + b = written - r
      BY <1>2 DEF InChunks, r
    <3>. QED
      BY <1>3, <3>1 DEF r
  <2>3. Run(0, p) \o Run(0 + p, a + b + r) = Run(0, p + (a + b + r))
    BY <2>2, RunsJoin
  <2>. QED
    BY <1>9, <2>1, <2>2, <2>3
<1>11. Coming = X \o Y \o Z
  BY DEF Coming, X, Y, Z
<1>12. Run(0, written) = [i \in 1 .. written |-> i]
  <2>1. \A i \in 1 .. written : 0 + i = i
    BY <1>3
  <2>. QED
    BY <2>1 DEF Run
<1>13. FramesInOrder
  BY <1>10, <1>11, <1>12 DEF FramesInOrder
<1>. QED
  BY <1>4, <1>13 DEF SoundRight

\* The inductive invariant of the device, its buffers and the source.
THEOREM SoundKeeps == SoundSpec => []SoundKept
<1>1. SoundInit => SoundKept
  BY SoundStarts
<1>2. SoundKept /\ [SoundNext]_soundVars => SoundKept'
  BY SoundStep
<1>. QED
  BY <1>1, <1>2, PTL DEF SoundSpec

\* Every variable of SoundDevice keeps its type.
THEOREM SoundTypeCorrect == SoundSpec => []SoundTypeOK
<1>1. SoundKept => SoundTypeOK
  BY DEF SoundKept
<1>. QED
  BY <1>1, SoundKeeps, PTL

\* Every frame is played once and in order (SoundRight), for every size of a frame, of the queue
\* and of a chunk: also when a frame is on both sides of the queue's end, when the device is
\* cancelled in the middle of Start, and when it is started again.
THEOREM FramesAreInOrder == SoundSpec => []SoundRight
<1>1. SoundKept => SoundRight
  BY SoundKeptIsRight
<1>. QED
  BY <1>1, SoundKeeps, PTL
=====================================================================================
