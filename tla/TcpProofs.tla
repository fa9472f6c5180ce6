------------------------------- MODULE TcpProofs -------------------------------
(***************************************************************************)
(* Proofs about TcpConnection, for any programs of the users, sizes,       *)
(* numbers and faults.  Each handler and each piece of it has a lemma, for *)
(* the types (TypeInv) and then for what is kept of the streams (Kept).    *)
(***************************************************************************)
EXTENDS TcpConnection, SequenceTheorems, WellFoundedInduction, TLAPS

-----------------------------------------------------------------------------
(* The constants                                                           *)

\* Half of the numbers, with what is assumed of them.
LEMMA ConstantsAre ==
  /\ Half \in Nat /\ Half >= 2 /\ NumMod = 2 * Half /\ NumMod \in Nat
  /\ Window \in 1 .. Half - 1 /\ MAX_RETRANSMISSIONS \in Nat /\ MaxFaults \in Nat
  /\ MSS \in Nat \ {0} /\ Frame \in Nat \ {0} /\ Capacity \in Nat /\ Capacity >= Frame
<1>1. NumMod \in Nat /\ NumMod = 2 * Half /\ Window \in 1 .. Half - 1
  BY TcpAssumption
<1>2. Half \in Nat
  BY <1>1 DEF Half
<1> HIDE DEF Half
<1> QED
  BY <1>1, <1>2, TcpAssumption

LEMMA EndsAre ==
  ASSUME NEW n \in Ends
  PROVE  /\ Peer(n) \in Ends /\ Peer(n) # n /\ Peer(Peer(n)) = n
         /\ Active # Passive /\ (n = Active \/ n = Passive)
         /\ Peer(Active) = Passive /\ Peer(Passive) = Active
         /\ \A p \in Ends : p = n \/ p = Peer(n)
<1>1. Peer(Active) = Passive /\ Peer(Passive) = Active
  BY TcpAssumption DEF Peer, Ends
<1> QED
  BY <1>1, TcpAssumption DEF Ends

-----------------------------------------------------------------------------
(* Sequence numbers                                                        *)

LEMMA Remainder ==
  ASSUME NEW m \in Nat, m > 0, NEW x \in Int
  PROVE  x % m \in 0 .. m - 1
OBVIOUS

LEMMA RemainderIs ==
  ASSUME NEW m \in Nat, m > 0, NEW x \in Int
  PROVE  /\ 0 <= x /\ x < m => x % m = x
         /\ m <= x /\ x < 2 * m => x % m = x - m
         /\ -m <= x /\ x < 0 => x % m = x + m
OBVIOUS

\* The distance of two numbers.
LEMMA DiffIs ==
  ASSUME NEW x \in Numbers, NEW y \in Numbers
  PROVE  /\ Diff(x, y) = IF y <= x THEN x - y ELSE x - y + NumMod
         /\ Diff(x, y) \in Numbers
BY ConstantsAre, RemainderIs DEF Diff, Numbers

LEMMA PlusIs ==
  ASSUME NEW x \in Numbers, NEW k \in Numbers
  PROVE  /\ Plus(x, k) = IF x + k < NumMod THEN x + k ELSE x + k - NumMod
         /\ Plus(x, k) \in Numbers
BY ConstantsAre, RemainderIs DEF Plus, Numbers

LEMMA PlusType ==
  ASSUME NEW x \in Numbers, NEW k \in Int
  PROVE  Plus(x, k) \in Numbers
BY ConstantsAre, Remainder DEF Plus, Numbers

LEMMA ltIs ==
  ASSUME NEW x \in Numbers, NEW y \in Numbers
  PROVE  lt(x, y) <=> Diff(x, y) >= Half
BY DEF lt, Diff

\* Numbers as distances from i: they add up, and compare as long as they are
\* in the half that follows i.
LEMMA PlusAt ==
  ASSUME NEW i \in Numbers, NEW x \in Numbers, NEW k \in Nat, Diff(x, i) + k < NumMod
  PROVE  Plus(x, k) \in Numbers /\ Diff(Plus(x, k), i) = Diff(x, i) + k
<1>1. k \in Numbers
  BY DiffIs, ConstantsAre DEF Numbers
<1>2. Plus(x, k) \in Numbers /\ Plus(x, k) = IF x + k < NumMod THEN x + k ELSE x + k - NumMod
  BY <1>1, PlusIs
<1>3. Diff(Plus(x, k), i) = IF i <= Plus(x, k) THEN Plus(x, k) - i ELSE Plus(x, k) - i + NumMod
  BY <1>2, DiffIs
<1>4. Diff(x, i) = IF i <= x THEN x - i ELSE x - i + NumMod
  BY DiffIs
<1>5. x \in 0 .. NumMod - 1 /\ i \in 0 .. NumMod - 1 /\ NumMod \in Nat
  BY ConstantsAre DEF Numbers
<1>6. CASE x + k < NumMod
  <2>1. Plus(x, k) = x + k
    BY <1>2, <1>6
  <2> QED
    BY <1>2, <1>3, <1>4, <1>5, <2>1
<1>7. CASE ~(x + k < NumMod)
  <2>1. Plus(x, k) = x + k - NumMod
    BY <1>2, <1>7
  <2> QED
    BY <1>2, <1>3, <1>4, <1>5, <2>1
<1> QED
  BY <1>6, <1>7

LEMMA DiffAt ==
  ASSUME NEW i \in Numbers, NEW x \in Numbers, NEW y \in Numbers
  PROVE  /\ Diff(y, i) <= Diff(x, i) => Diff(x, y) = Diff(x, i) - Diff(y, i)
         /\ x = y <=> Diff(x, i) = Diff(y, i)
<1>1. /\ Diff(x, i) = IF i <= x THEN x - i ELSE x - i + NumMod
      /\ Diff(y, i) = IF i <= y THEN y - i ELSE y - i + NumMod
      /\ Diff(x, y) = IF y <= x THEN x - y ELSE x - y + NumMod
  BY DiffIs
<1>2. /\ x \in 0 .. NumMod - 1 /\ i \in 0 .. NumMod - 1 /\ y \in 0 .. NumMod - 1
      /\ NumMod \in Nat
  BY ConstantsAre DEF Numbers
<1> QED
  BY <1>1, <1>2

LEMMA ltAt ==
  ASSUME NEW i \in Numbers, NEW x \in Numbers, NEW y \in Numbers,
         Diff(x, i) < Half, Diff(y, i) < Half
  PROVE  /\ lt(x, y) <=> Diff(x, i) < Diff(y, i)
         /\ le(x, y) <=> Diff(x, i) <= Diff(y, i)
<1>1. lt(x, y) <=> Diff(x, i) < Diff(y, i)
  <2>1. /\ Diff(x, i) = IF i <= x THEN x - i ELSE x - i + NumMod
        /\ Diff(y, i) = IF i <= y THEN y - i ELSE y - i + NumMod
        /\ Diff(x, y) = IF y <= x THEN x - y ELSE x - y + NumMod
        /\ lt(x, y) <=> Diff(x, y) >= Half
    BY DiffIs, ltIs
  <2>2. /\ x \in 0 .. NumMod - 1 /\ i \in 0 .. NumMod - 1 /\ y \in 0 .. NumMod - 1
        /\ Half \in Nat /\ NumMod = 2 * Half
    BY ConstantsAre DEF Numbers
  <2> QED
    BY <2>1, <2>2
<1>2. x = y <=> Diff(x, i) = Diff(y, i)
  BY DiffAt
<1>3. Diff(x, i) \in Int /\ Diff(y, i) \in Int
  BY DiffIs DEF Numbers
<1> QED
  BY <1>1, <1>2, <1>3 DEF le

LEMMA bwhAt ==
  ASSUME NEW i \in Numbers, NEW l \in Numbers, NEW x \in Numbers, NEW h \in Numbers,
         Diff(l, i) < Half, Diff(x, i) < Half, Diff(h, i) < Half
  PROVE  bwh(l, x, h) <=> Diff(l, i) < Diff(x, i) /\ Diff(x, i) <= Diff(h, i)
BY ltAt DEF bwh

-----------------------------------------------------------------------------
(* Least members                                                           *)

LEMMA LeastMember ==
  ASSUME NEW S \in SUBSET Nat, S # {}
  PROVE  \E n \in S : \A k \in S : n <= k
<1>1. PICK n \in S : \A k \in S : ~(<<k, n>> \in OpToRel(<, Nat))
  BY WFMin, NatLessThanWellFounded
<1>2. \A k \in S : ~(k < n)
  BY <1>1 DEF OpToRel
<1> QED
  BY <1>2

\* Induction, for a set.
LEMMA AllNumbers ==
  ASSUME NEW S, 0 \in S, \A k \in Nat : k \in S => k + 1 \in S
  PROVE  Nat \subseteq S
<1>1. SUFFICES ASSUME Nat \ S # {} PROVE FALSE
  OBVIOUS
<1>2. PICK n \in Nat \ S : \A k \in Nat \ S : n <= k
  BY <1>1, LeastMember
<1>3. n # 0 /\ n - 1 \in Nat
  BY <1>2
<1>4. n - 1 \in S
  BY <1>2, <1>3
<1> QED
  BY <1>2, <1>3, <1>4

-----------------------------------------------------------------------------
(* Runs: consecutive bytes of a stream                                     *)

\* The k bytes of a stream that come after the first b.
Run(b, k) == [i \in 1 .. k |-> b + i]

LEMMA RunIs ==
  ASSUME NEW b \in Int, NEW k \in Nat
  PROVE  /\ Run(b, k) \in Seq(Int) /\ Len(Run(b, k)) = k
         /\ \A i \in 1 .. k : Run(b, k)[i] = b + i
         /\ Run(b, k) = <<>> <=> k = 0
BY DEF Run

LEMMA EmptyRun ==
  ASSUME NEW b \in Int
  PROVE  Run(b, 0) = <<>>
BY DEF Run

LEMMA RunPiece ==
  ASSUME NEW b \in Int, NEW k \in Nat, NEW l \in Nat, NEW m \in 1 .. l + 1, l <= k
  PROVE  SubSeq(Run(b, k), m, l) = Run(b + m - 1, l - m + 1)
<1> DEFINE s == Run(b, k)
<1>1. s \in Seq(Int) /\ Len(s) = k /\ \A i \in 1 .. k : s[i] = b + i
  BY RunIs
<1>2. b + m - 1 \in Int /\ l - m + 1 \in Nat
  OBVIOUS
<1>3. Run(b + m - 1, l - m + 1) = [i \in 1 .. l - m + 1 |-> b + m - 1 + i]
  BY DEF Run
<1> HIDE DEF s
<1>4. SubSeq(s, m, l) = [i \in 1 .. l - m + 1 |-> s[m + i - 1]]
  BY <1>1
<1>5. \A i \in 1 .. l - m + 1 : s[m + i - 1] = b + m - 1 + i
  BY <1>1
<1> QED
  BY <1>3, <1>4, <1>5 DEF s

LEMMA RunJoin ==
  ASSUME NEW b \in Int, NEW k \in Nat, NEW l \in Nat
  PROVE  Run(b, k) \o Run(b + k, l) = Run(b, k + l)
<1> DEFINE s == Run(b, k)
           t == Run(b + k, l)
           u == Run(b, k + l)
<1>1. /\ s \in Seq(Int) /\ Len(s) = k /\ \A i \in 1 .. k : s[i] = b + i
      /\ t \in Seq(Int) /\ Len(t) = l /\ \A i \in 1 .. l : t[i] = b + k + i
      /\ u \in Seq(Int) /\ Len(u) = k + l /\ \A i \in 1 .. k + l : u[i] = b + i
  BY RunIs
<1> HIDE DEF s, t, u
<1>2. s \o t \in Seq(Int) /\ Len(s \o t) = k + l
  BY <1>1, ConcatProperties
<1>3. ASSUME NEW i \in 1 .. k + l PROVE (s \o t)[i] = u[i]
  <2>1. (s \o t)[i] = IF i <= Len(s) THEN s[i] ELSE t[i - Len(s)]
    BY <1>1, ConcatProperties
  <2>2. CASE i <= k
    BY <1>1, <2>1, <2>2
  <2>3. CASE i > k
    BY <1>1, <2>1, <2>3
  <2>4. i \in Int /\ k \in Int
    OBVIOUS
  <2>5. i <= k \/ i > k
    BY ONLY <2>4
  <2> QED
    BY ONLY <2>2, <2>3, <2>5
<1>4. s \o t = u
  BY <1>1, <1>2, <1>3, SeqEqual
<1> QED
  BY <1>4 DEF s, t, u

\* Two sequences that make up a run are runs.
Joined(T, s, t, b, k) ==
  b \in Int /\ k \in Nat /\ s \in Seq(T) /\ t \in Seq(T) /\ s \o t = Run(b, k)
Halves(s, t, b, k) ==
  Len(s) + Len(t) = k /\ s = Run(b, Len(s)) /\ t = Run(b + Len(s), Len(t))

LEMMA RunSplit ==
  ASSUME NEW T, NEW s, NEW t, NEW b, NEW k, Joined(T, s, t, b, k)
  PROVE  Halves(s, t, b, k)
<1>0. s \in Seq(T) /\ t \in Seq(T) /\ b \in Int /\ k \in Nat /\ s \o t = Run(b, k)
  BY DEF Joined
<1>1. Len(s \o t) = Len(s) + Len(t)
  BY <1>0
<1>2. Len(s) + Len(t) = k
  BY <1>0, <1>1, RunIs
<1>3. \A i \in 1 .. k : (s \o t)[i] = b + i
  BY <1>0, RunIs
<1>4. \A i \in 1 .. Len(s) : s[i] = b + i
  <2> TAKE i \in 1 .. Len(s)
  <2>1. (s \o t)[i] = s[i]
    BY <1>0
  <2> QED
    BY <1>0, <2>1, <1>2, <1>3
<1>5. \A i \in 1 .. Len(t) : t[i] = b + Len(s) + i
  <2> TAKE i \in 1 .. Len(t)
  <2>1. (s \o t)[Len(s) + i] = t[i]
    BY <1>0
  <2> QED
    BY <1>0, <2>1, <1>2, <1>3
<1>6. s = [i \in 1 .. Len(s) |-> b + i] /\ t = [i \in 1 .. Len(t) |-> b + Len(s) + i]
  BY <1>0, <1>4, <1>5
<1> QED
  BY <1>2, <1>6 DEF Run, Halves

-----------------------------------------------------------------------------
(* Frames in a queue, one after the other                                  *)

\* f[k] is what the first k sequences of s are together.
Joins(f, s) ==
  /\ f = [k \in 1 .. Len(s) |-> f[k]]
  /\ f[1] = s[1]
  /\ \A k \in 2 .. Len(s) : f[k] = f[k - 1] \o s[k]

LEMMA JoinsExist ==
  ASSUME NEW s, NEW N \in Nat \ {0}, Len(s) = N
  PROVE  \E f : Joins(f, s)
<1> DEFINE Upto(f, n) == /\ f = [k \in 1 .. n |-> f[k]]
                         /\ f[1] = s[1]
                         /\ \A k \in 2 .. n : f[k] = f[k - 1] \o s[k]
           S == {n \in Nat \ {0} : ~\E f : Upto(f, n)}
<1>1. S = {}
  <2>1. SUFFICES ASSUME S # {} PROVE FALSE
    OBVIOUS
  <2>2. S \in SUBSET Nat
    OBVIOUS
  <2> HIDE DEF S
  <2>3. PICK n \in S : \A k \in S : n <= k
    BY <2>1, <2>2, LeastMember
  <2>4. n \in Nat \ {0} /\ ~\E f : Upto(f, n)
    BY <2>3 DEF S
  <2>5. CASE n = 1
    <3> DEFINE f == [k \in 1 .. 1 |-> s[1]]
    <3>1. Upto(f, 1)
      OBVIOUS
    <3> QED
      BY <2>4, <2>5, <3>1
  <2>6. CASE n # 1
    <3>1. n - 1 \in Nat \ {0} /\ n - 1 \notin S
      BY <2>3, <2>4, <2>6
    <3>2. PICK f : Upto(f, n - 1)
      BY <3>1 DEF S
    <3> DEFINE g == [k \in 1 .. n |-> IF k = n THEN f[n - 1] \o s[n] ELSE f[k]]
    <3>3. \A k \in 1 .. n : g[k] = IF k = n THEN f[n - 1] \o s[n] ELSE f[k]
      OBVIOUS
    <3>4. g = [k \in 1 .. n |-> g[k]]
      OBVIOUS
    <3> HIDE DEF g
    <3>5. g[1] = s[1]
      <4>1. 1 \in 1 .. n /\ 1 # n
        BY <2>4, <2>6
      <4>2. g[1] = f[1]
        BY <3>3, <4>1
      <4> QED
        BY <3>2, <4>2
    <3>6. ASSUME NEW k \in 2 .. n PROVE g[k] = g[k - 1] \o s[k]
      <4>1. g[k - 1] = f[k - 1]
        BY <2>4, <3>3
      <4>2. CASE k # n
        <5>1. k \in 2 .. n - 1 /\ g[k] = f[k]
          BY <2>4, <3>3, <4>2
        <5>2. f[k] = f[k - 1] \o s[k]
          BY <3>2, <5>1
        <5> QED
          BY <4>1, <5>1, <5>2
      <4>3. CASE k = n
        <5>1. g[n] = f[n - 1] \o s[n]
          <6>1. n \in 1 .. n
            BY <2>4
          <6> QED
            BY <3>3, <6>1
        <5> QED
          BY <4>1, <4>3, <5>1
      <4> QED
        BY <4>2, <4>3
    <3> QED
      BY <2>4, <3>4, <3>5, <3>6
  <2> QED
    BY <2>5, <2>6
<1>2. N \notin S
  BY <1>1
<1>3. PICK f : Upto(f, N)
  BY <1>2
<1> QED
  BY <1>3 DEF Joins

\* FlattenSeq joins, and there is one way to do so.
LEMMA FlattenIs ==
  ASSUME NEW s, NEW N \in Nat \ {0}, Len(s) = N, NEW g, Joins(g, s)
  PROVE  FlattenSeq(s) = g[N]
<1> DEFINE Step(f) == [i \in 1 .. Len(s) |-> IF i = 1 THEN s[i] ELSE f[i - 1] \o s[i]]
           flatten == CHOOSE f : f = Step(f)
<1>1. g = Step(g)
  <2>1. ASSUME NEW k \in 1 .. Len(s) PROVE g[k] = IF k = 1 THEN s[k] ELSE g[k - 1] \o s[k]
    <3>1. k # 1 => k \in 2 .. Len(s)
      OBVIOUS
    <3> QED
      BY <3>1 DEF Joins
  <2>2. g = [k \in 1 .. Len(s) |-> g[k]]
    BY DEF Joins
  <2> QED
    BY <2>1, <2>2
<1>2. FlattenSeq(s) = flatten[N]
  BY SMTT(30) DEF FlattenSeq
<1>3. flatten = Step(flatten)
  <2> DEFINE P(f) == f = Step(f)
  <2>1. P(g)
    BY <1>1
  <2> HIDE DEF P
  <2>2. P(CHOOSE f : P(f))
    BY <2>1
  <2> QED
    BY <2>2 DEF P
<1> HIDE DEF flatten
<1>4. \A k \in 1 .. N : flatten[k] = IF k = 1 THEN s[k] ELSE flatten[k - 1] \o s[k]
  BY <1>3
<1>5. \A k \in 1 .. N : g[k] = IF k = 1 THEN s[k] ELSE g[k - 1] \o s[k]
  BY <1>1
<1> DEFINE Differ == {k \in 1 .. N : g[k] # flatten[k]}
<1>6. Differ = {}
  <2>1. SUFFICES ASSUME Differ # {} PROVE FALSE
    OBVIOUS
  <2>2. Differ \in SUBSET Nat
    OBVIOUS
  <2>3. PICK k \in Differ : \A l \in Differ : k <= l
    BY <2>1, <2>2, LeastMember
  <2>4. k # 1
    BY <1>4, <1>5
  <2>5. k - 1 \in 1 .. N /\ k - 1 \notin Differ
    BY <2>3, <2>4
  <2> QED
    BY <1>4, <1>5, <2>4, <2>5
<1> QED
  BY <1>2, <1>6

LEMMA FlattenEmpty ==
  FlattenSeq(<<>>) = <<>>
BY DEF FlattenSeq

LEMMA FlattenAppend ==
  ASSUME NEW T, NEW s \in Seq(Seq(T)), NEW x \in Seq(T)
  PROVE  FlattenSeq(Append(s, x)) = FlattenSeq(s) \o x
<1> DEFINE N == Len(s)
           u == Append(s, x)
<1>1. Len(u) = N + 1 /\ u[N + 1] = x /\ \A k \in 1 .. N : u[k] = s[k]
  OBVIOUS
<1>2. N \in Nat
  OBVIOUS
<1> HIDE DEF N, u
<1>3. PICK f : Joins(f, u)
  BY <1>1, <1>2, JoinsExist
<1>4. FlattenSeq(u) = f[N + 1]
  BY <1>1, <1>2, <1>3, FlattenIs
<1>5. CASE N = 0
  <2>1. s = <<>>
    BY <1>5 DEF N
  <2>2. f[1] = x
    BY <1>1, <1>3, <1>5 DEF Joins
  <2> QED
    BY <1>4, <1>5, <2>1, <2>2, FlattenEmpty, ConcatEmptySeq DEF u
<1>6. CASE N # 0
  <2> DEFINE g == [k \in 1 .. N |-> f[k]]
  <2>1. Joins(g, s)
    <3>1. \A k \in 1 .. N : g[k] = f[k]
      OBVIOUS
    <3>2. g = [k \in 1 .. Len(s) |-> g[k]]
      BY DEF N
    <3>3. g[1] = s[1]
      <4>1. 1 \in 1 .. N
        BY <1>2, <1>6
      <4>2. g[1] = f[1] /\ f[1] = u[1] /\ u[1] = s[1]
        BY <1>1, <1>3, <3>1, <4>1 DEF Joins
      <4> QED
        BY <4>2
    <3>4. ASSUME NEW k \in 2 .. N PROVE g[k] = g[k - 1] \o s[k]
      <4>1. k \in 2 .. Len(u) /\ k \in 1 .. N /\ k - 1 \in 1 .. N
        BY <1>1, <1>2
      <4>2. f[k] = f[k - 1] \o u[k]
        BY <1>3, <4>1 DEF Joins
      <4> QED
        BY <1>1, <3>1, <4>1, <4>2
    <3> HIDE DEF g
    <3> QED
      BY <3>2, <3>3, <3>4 DEF Joins, N
  <2>2. N \in Nat \ {0} /\ Len(s) = N
    BY <1>2, <1>6 DEF N
  <2>3. FlattenSeq(s) = g[N]
    BY <2>1, <2>2, FlattenIs
  <2>4. g[N] = f[N]
    BY <2>2
  <2>5. f[N + 1] = f[N] \o x
    <3>1. N + 1 \in 2 .. Len(u) /\ (N + 1) - 1 = N
      BY <1>1, <2>2
    <3> QED
      BY <1>1, <1>3, <3>1 DEF Joins
  <2> QED
    BY <1>4, <2>3, <2>4, <2>5 DEF u
<1> QED
  BY <1>5, <1>6

LEMMA LastOne ==
  ASSUME NEW F, NEW s \in Seq(F), NEW k \in Nat, Len(s) = k + 1
  PROVE  \E r \in Seq(F), x \in F : s = Append(r, x)
BY SequenceEmptyOrAppend

LEMMA FlattenType ==
  ASSUME NEW T, NEW s \in Seq(Seq(T))
  PROVE  FlattenSeq(s) \in Seq(T)
<1> DEFINE S == {k \in Nat : \A t \in Seq(Seq(T)) : Len(t) = k => FlattenSeq(t) \in Seq(T)}
<1>1. 0 \in S
  <2>1. ASSUME NEW t \in Seq(Seq(T)), Len(t) = 0 PROVE FlattenSeq(t) \in Seq(T)
    <3>1. t = <<>>
      BY <2>1
    <3>2. <<>> \in Seq(T)
      OBVIOUS
    <3> QED
      BY <3>1, <3>2, FlattenEmpty
  <2> QED
    BY <2>1
<1>2. ASSUME NEW k \in Nat, k \in S PROVE k + 1 \in S
  <2>1. ASSUME NEW t \in Seq(Seq(T)), Len(t) = k + 1 PROVE FlattenSeq(t) \in Seq(T)
    <3>1. PICK r \in Seq(Seq(T)), x \in Seq(T) : t = Append(r, x)
      BY <2>1, LastOne
    <3>2. Len(r) = k
      BY <2>1, <3>1
    <3>3. FlattenSeq(r) \in Seq(T)
      BY <1>2, <3>2
    <3>4. FlattenSeq(t) = FlattenSeq(r) \o x
      BY <3>1, FlattenAppend
    <3> QED
      BY <3>3, <3>4
  <2> QED
    BY <2>1
<1> HIDE DEF S
<1>3. Nat \subseteq S
  BY <1>1, <1>2, AllNumbers
<1>4. Len(s) \in Nat
  OBVIOUS
<1> QED
  BY <1>3, <1>4 DEF S

LEMMA FlattenConcat ==
  ASSUME NEW T, NEW s \in Seq(Seq(T)), NEW t \in Seq(Seq(T))
  PROVE  FlattenSeq(s \o t) = FlattenSeq(s) \o FlattenSeq(t)
<1> DEFINE S == {k \in Nat : \A u \in Seq(Seq(T)) :
                   Len(u) = k => FlattenSeq(s \o u) = FlattenSeq(s) \o FlattenSeq(u)}
<1>1. 0 \in S
  <2>1. ASSUME NEW u \in Seq(Seq(T)), Len(u) = 0
        PROVE  FlattenSeq(s \o u) = FlattenSeq(s) \o FlattenSeq(u)
    <3>1. u = <<>> /\ s \o u = s
      BY <2>1
    <3> QED
      BY <3>1, FlattenEmpty, FlattenType, ConcatEmptySeq
  <2> QED
    BY <2>1
<1>2. ASSUME NEW k \in Nat, k \in S PROVE k + 1 \in S
  <2>1. ASSUME NEW u \in Seq(Seq(T)), Len(u) = k + 1
        PROVE  FlattenSeq(s \o u) = FlattenSeq(s) \o FlattenSeq(u)
    <3>1. PICK r \in Seq(Seq(T)), x \in Seq(T) : u = Append(r, x)
      BY <2>1, LastOne
    <3>2. Len(r) = k
      BY <2>1, <3>1
    <3>3. FlattenSeq(s \o r) = FlattenSeq(s) \o FlattenSeq(r)
      BY <1>2, <3>2
    <3>4. s \o u = Append(s \o r, x)
      BY <3>1
    <3>5. FlattenSeq(s \o u) = FlattenSeq(s \o r) \o x
      <4>1. s \o r \in Seq(Seq(T))
        OBVIOUS
      <4>2. FlattenSeq(Append(s \o r, x)) = FlattenSeq(s \o r) \o x
        BY ONLY <4>1, FlattenAppend, x \in Seq(T)
      <4> QED
        BY <3>4, <4>2
    <3>6. FlattenSeq(u) = FlattenSeq(r) \o x
      BY <3>1, FlattenAppend
    <3>7. FlattenSeq(s) \in Seq(T) /\ FlattenSeq(r) \in Seq(T)
      BY FlattenType
    <3>8. (FlattenSeq(s) \o FlattenSeq(r)) \o x = FlattenSeq(s) \o (FlattenSeq(r) \o x)
      BY <3>7, ConcatAssociative, SMTT(30)
    <3> QED
      BY <3>3, <3>5, <3>6, <3>8
  <2> QED
    BY <2>1
<1> HIDE DEF S
<1>3. Nat \subseteq S
  BY <1>1, <1>2, AllNumbers
<1>4. Len(t) \in Nat
  OBVIOUS
<1> QED
  BY <1>3, <1>4 DEF S

LEMMA FlattenOne ==
  ASSUME NEW T, NEW x \in Seq(T)
  PROVE  FlattenSeq(<<x>>) = x
<1>1. <<x>> = Append(<<>>, x) /\ <<>> \in Seq(Seq(T))
  OBVIOUS
<1>2. FlattenSeq(<<x>>) = FlattenSeq(<<>>) \o x
  BY <1>1, FlattenAppend
<1> QED
  BY <1>2, FlattenEmpty, ConcatEmptySeq

LEMMA FlattenHead ==
  ASSUME NEW T, NEW s \in Seq(Seq(T)), s # <<>>
  PROVE  FlattenSeq(s) = Head(s) \o FlattenSeq(Tail(s))
<1>1. Head(s) \in Seq(T) /\ Tail(s) \in Seq(Seq(T)) /\ <<Head(s)>> \in Seq(Seq(T))
  OBVIOUS
<1>2. s = <<Head(s)>> \o Tail(s)
  OBVIOUS
<1>3. FlattenSeq(<<Head(s)>> \o Tail(s)) = FlattenSeq(<<Head(s)>>) \o FlattenSeq(Tail(s))
  BY ONLY <1>1, FlattenConcat
<1> QED
  BY <1>1, <1>2, <1>3, FlattenOne
-----------------------------------------------------------------------------
(* Parts of a sequence                                                     *)

LEMMA Part ==
  ASSUME NEW F, NEW s \in Seq(F), NEW a \in Nat \ {0}, NEW b \in Nat, b <= Len(s)
  PROVE  /\ SubSeq(s, a, b) \in Seq(F)
         /\ Len(SubSeq(s, a, b)) = IF a <= b THEN b - a + 1 ELSE 0
         /\ \A k \in 1 .. b - a + 1 : SubSeq(s, a, b)[k] = s[a + k - 1]
<1>1. \A k \in a .. b : s[k] \in F
  OBVIOUS
<1> QED
  BY <1>1, SubSeqProperties

LEMMA PartAppend ==
  ASSUME NEW F, NEW s \in Seq(F), NEW m \in 1 .. Len(s)
  PROVE  SubSeq(s, 1, m) = Append(SubSeq(s, 1, m - 1), s[m])
<1> DEFINE p == SubSeq(s, 1, m - 1)
<1>1. p \in Seq(F) /\ s[m] \in F
  BY Part
<1>2. 1 \in 1 .. Len(s) /\ m \in 1 .. Len(s)
  OBVIOUS
<1>3. SubSeq(s, 1, m) = p \o <<s[m]>>
  BY <1>2, SubSeqRecursiveSecond
<1>4. Append(p, s[m]) = p \o <<s[m]>>
  BY <1>1, AppendIsConcat
<1> QED
  BY <1>3, <1>4

LEMMA PartsJoin ==
  ASSUME NEW F, NEW s \in Seq(F), NEW m \in 0 .. Len(s)
  PROVE  SubSeq(s, 1, m) \o SubSeq(s, m + 1, Len(s)) = s
<1>1. Len(s) \in Nat
  OBVIOUS
<1>2. 1 \in 1 .. Len(s) + 1 /\ m \in 1 - 1 .. Len(s) /\ Len(s) \in m .. Len(s)
  BY <1>1
<1>3. SubSeq(s, 1, m) \o SubSeq(s, m + 1, Len(s)) = SubSeq(s, 1, Len(s))
  BY <1>2, ConcatAdjacentSubSeq
<1> QED
  BY <1>3, SubSeqFull

-----------------------------------------------------------------------------
(* The types of what the handlers make of a connection                     *)

\* The members of a connection of end n.  A frame fits into the retransmission
\* queue, and the last retransmission leaves no timer running.
Typed(n, c) ==
  /\ c \in Connection(n)
  /\ c.rtq.pre <= Len(c.rtq.data) /\ Len(c.rtq.data) <= Capacity
  /\ \A k \in 1 .. Len(c.TxQueue) : Len(c.TxQueue[k]) <= Frame
  /\ c.nRetransmissionCount = -1 => c.bTimedOut /\ "Retransmission" \notin c.hTimer

LEMMA SegmentTyped ==
  ASSUME NEW n \in Ends, NEW flags \in SUBSET Flags, NEW seq \in Numbers, NEW ack \in Numbers,
         NEW data \in Seq(Stream(n))
  PROVE  Segment(flags, seq, ack, data) \in Segments(n)
BY ConstantsAre DEF Segment, Segments, Numbers

LEMMA SendSegmentTyped ==
  ASSUME NEW n \in Ends, NEW c, Typed(n, c), NEW flags \in SUBSET Flags, NEW seq \in Numbers,
         NEW ack \in Numbers
  PROVE  Typed(n, SendSegment(c, flags, seq, ack, <<>>))
<1>0. <<>> \in Seq(Stream(n))
  OBVIOUS
<1>1. Segment(flags, seq, ack, <<>>) \in Segments(n)
  BY <1>0, SegmentTyped
<1> QED
  BY <1>1 DEF Typed, Connection, SendSegment

LEMMA SendAckTyped ==
  ASSUME NEW n \in Ends, NEW c, Typed(n, c)
  PROVE  Typed(n, SendAck(c))
<1>1. {"ACK"} \in SUBSET Flags /\ c.SND_NXT \in Numbers /\ c.RCV_NXT \in Numbers
  BY DEF Typed, Connection, Flags
<1> QED
  BY <1>1, SendSegmentTyped DEF SendAck

LEMMA StartTimerTyped ==
  ASSUME NEW n \in Ends, NEW c, Typed(n, c), NEW t \in Timers,
         t = "Retransmission" => c.nRetransmissionCount # -1
  PROVE  Typed(n, StartTimer(c, t))
BY DEF Typed, Connection, StartTimer

LEMMA FailTyped ==
  ASSUME NEW n \in Ends, NEW c, Typed(n, c)
  PROVE  Typed(n, Fail(c))
BY ZenonT(60) DEF Typed, Connection, Fail, States

LEMMA EmptyQueueTyped ==
  ASSUME NEW n \in Ends, NEW c, Typed(n, c)
  PROVE  Typed(n, [c EXCEPT !.rtq = EmptyQueue])
<1>1. EmptyQueue \in [data : Seq(Stream(n)), pre : Nat, over : Nat]
      /\ EmptyQueue.pre <= Len(EmptyQueue.data) /\ Len(EmptyQueue.data) <= Capacity
  BY ConstantsAre DEF EmptyQueue
<1> QED
  BY <1>1 DEF Typed, Connection

LEMMA FlushTyped ==
  ASSUME NEW n \in Ends, NEW c, Typed(n, c)
  PROVE  Typed(n, Flush(c))
<1>1. Typed(n, [c EXCEPT !.rtq = EmptyQueue])
  BY EmptyQueueTyped
<1> DEFINE d == [c EXCEPT !.rtq = EmptyQueue]
<1>2. Flush(c) = [d EXCEPT !.TxQueue = <<>>, !.RxQueue = <<>>]
  BY DEF Flush, Typed, Connection
<1>3. Typed(n, d)
  BY <1>1
<1> HIDE DEF d
<1>4. /\ d.rtq = EmptyQueue
      /\ <<>> \in Seq(Seq(Stream(n))) /\ <<>> \in Seq(Seq(Stream(Peer(n))))
  BY DEF d, Typed, Connection
<1> DEFINE e == [d EXCEPT !.TxQueue = <<>>, !.RxQueue = <<>>]
<1>5. e \in Connection(n) /\ e.TxQueue = <<>> /\ e.rtq = d.rtq
      /\ e.nRetransmissionCount = d.nRetransmissionCount /\ e.bTimedOut = d.bTimedOut
      /\ e.hTimer = d.hTimer
  BY <1>3, <1>4 DEF Typed, Connection
<1> HIDE DEF e
<1>6. Typed(n, e)
  BY <1>3, <1>5 DEF Typed
<1> QED
  BY <1>2, <1>6 DEF e

LEMMA SendSYNTyped ==
  ASSUME NEW n \in Ends, NEW c, Typed(n, c), ~c.bTimedOut
  PROVE  Typed(n, SendSYN(c))
<1> DEFINE d == [c EXCEPT !.bSendSYN = FALSE]
           flags == IF c.State = "SynSent" THEN {"SYN"} ELSE {"SYN", "ACK"}
           e == SendSegment(d, flags, c.ISS, c.RCV_NXT, <<>>)
<1>1. Typed(n, d) /\ d.nRetransmissionCount # -1
  BY DEF Typed, Connection
<1>2. flags \in SUBSET Flags /\ c.ISS \in Numbers /\ c.RCV_NXT \in Numbers
  BY DEF Typed, Connection, Flags
<1>3. SendSYN(c) = StartTimer(e, "Retransmission")
  BY DEF SendSYN
<1> HIDE DEF d, flags
<1>4. Typed(n, e)
  BY <1>1, <1>2, SendSegmentTyped
<1>5. e.nRetransmissionCount = d.nRetransmissionCount
  BY <1>1 DEF Typed, Connection, SendSegment
<1> HIDE DEF e
<1> QED
  BY <1>1, <1>3, <1>4, <1>5, StartTimerTyped DEF Timers

LEMMA SendFINTyped ==
  ASSUME NEW n \in Ends, NEW c, Typed(n, c), ~c.bTimedOut
  PROVE  Typed(n, SendFIN(c)) /\ ~SendFIN(c).bTimedOut
<1> DEFINE d == SendSegment(c, {"FIN", "ACK"}, c.SND_NXT, c.RCV_NXT, <<>>)
           e == [d EXCEPT !.SND_NXT = Plus(@, 1), !.State = c.StateAfterFIN, !.bFINQueued = FALSE]
<1>1. {"FIN", "ACK"} \in SUBSET Flags /\ c.SND_NXT \in Numbers /\ c.RCV_NXT \in Numbers
  BY DEF Typed, Connection, Flags
<1>2. Typed(n, d)
  BY <1>1, SendSegmentTyped
<1>3. d.nRetransmissionCount # -1 /\ ~d.bTimedOut
  BY DEF Typed, Connection, SendSegment
<1>4. SendFIN(c) = IF ~FINMayGo(c) THEN c ELSE StartTimer(e, "Retransmission")
  BY DEF SendFIN
<1>5. c.StateAfterFIN \in States
  BY DEF Typed, Connection, States
<1> HIDE DEF d
<1>6. Plus(d.SND_NXT, 1) \in Numbers
  BY <1>2, PlusType DEF Typed, Connection
<1>7. Typed(n, e) /\ e.nRetransmissionCount # -1 /\ ~e.bTimedOut
  BY <1>2, <1>3, <1>5, <1>6, ZenonT(60) DEF Typed, Connection
<1> HIDE DEF e
<1>8. Typed(n, StartTimer(e, "Retransmission"))
  BY <1>7, StartTimerTyped DEF Timers
<1>9. ~StartTimer(e, "Retransmission").bTimedOut
  BY <1>7 DEF StartTimer, Typed, Connection
<1> QED
  BY <1>4, <1>8, <1>9

-----------------------------------------------------------------------------
(* The frames that move to the retransmission queue                        *)

\* The retransmission queue of c and what is still to be moved there.
Queued(c) == c.rtq.data \o FlattenSeq(c.TxQueue)

\* What is in the queue when k of the frames q have moved behind the bytes r, whether
\* the longest frame fits there then, and whether k frames is where the loop ends.
Moved(r, q, k) == r \o FlattenSeq(SubSeq(q, 1, k))
Fits(r, over, q, k) == Len(Moved(r, q, k)) + over + Frame <= Capacity
Stops(r, over, q, k) ==
  (\A j \in 0 .. k - 1 : Fits(r, over, q, j)) /\ (k < Len(q) => ~Fits(r, over, q, k))

\* The loop ends.
LEMMA FillingStops ==
  ASSUME NEW S, NEW r \in Seq(S), NEW over \in Nat, NEW q \in Seq(Seq(S))
  PROVE  \E k \in 0 .. Len(q) : Stops(r, over, q, k)
<1>n. Len(q) \in Nat
  OBVIOUS
<1> DEFINE K == {k \in 0 .. Len(q) : k = Len(q) \/ ~Fits(r, over, q, k)}
<1>1. K \in SUBSET Nat /\ K # {}
  BY <1>n
<1>2. PICK k \in K : \A l \in K : k <= l
  BY <1>1, LeastMember
<1>3. k \in 0 .. Len(q) /\ (k < Len(q) => ~Fits(r, over, q, k))
  BY <1>2, <1>n
<1>4. ASSUME NEW j \in 0 .. k - 1 PROVE Fits(r, over, q, j)
  <2>1. j \in 0 .. Len(q) /\ j \notin K
    BY <1>2, <1>3, <1>n
  <2> QED
    BY <2>1
<1> QED
  BY <1>3, <1>4 DEF Stops

\* The bytes d and the frames p are the bytes r and the frames q.
Same(d, p, r, q) == d \o FlattenSeq(p) = r \o FlattenSeq(q)

\* Each of the frames s is one of q.
Among(s, q) == \A k \in 1 .. Len(s) : \E l \in 1 .. Len(q) : s[k] = q[l]

\* The loop ends when m frames have moved.
Fills(S, r, over, q, m) ==
  /\ r \in Seq(S) /\ Len(r) <= Capacity /\ over \in Nat /\ q \in Seq(Seq(S))
  /\ \A k \in 1 .. Len(q) : Len(q[k]) <= Frame
  /\ m \in 0 .. Len(q) /\ Stops(r, over, q, m)

\* Nothing is lost, and what has moved fits.
LEMMA FramesThatFit ==
  ASSUME NEW S, NEW r, NEW over, NEW q, NEW m, Fills(S, r, over, q, m),
         NEW rest, rest = SubSeq(q, m + 1, Len(q))
  PROVE  /\ Moved(r, q, m) \in Seq(S)
         /\ Len(r) <= Len(Moved(r, q, m)) /\ Len(Moved(r, q, m)) <= Capacity
         /\ rest \in Seq(Seq(S)) /\ Len(rest) = Len(q) - m
         /\ Among(rest, q)
         /\ Same(Moved(r, q, m), rest, r, q)
<1> DEFINE first(k) == SubSeq(q, 1, k)
           data(k) == r \o FlattenSeq(first(k))
<1>a. /\ r \in Seq(S) /\ Len(r) <= Capacity /\ over \in Nat /\ q \in Seq(Seq(S))
      /\ \A k \in 1 .. Len(q) : Len(q[k]) <= Frame
      /\ m \in 0 .. Len(q) /\ Stops(r, over, q, m)
  BY DEF Fills
<1> USE <1>a
<1>0. Len(q) \in Nat /\ Len(r) \in Nat
  OBVIOUS
<1>1. ASSUME NEW k \in 0 .. Len(q)
      PROVE  /\ first(k) \in Seq(Seq(S)) /\ FlattenSeq(first(k)) \in Seq(S)
             /\ data(k) \in Seq(S) /\ Len(data(k)) = Len(r) + Len(FlattenSeq(first(k)))
             /\ Len(data(k)) \in Nat /\ Len(r) <= Len(data(k))
  <2>1. first(k) \in Seq(Seq(S))
    OBVIOUS
  <2> HIDE DEF first
  <2>2. FlattenSeq(first(k)) \in Seq(S)
    BY <2>1, FlattenType
  <2> DEFINE f == FlattenSeq(first(k))
  <2>3. f \in Seq(S)
    BY <2>2
  <2> HIDE DEF f
  <2>4. /\ r \o f \in Seq(S) /\ Len(r \o f) = Len(r) + Len(f) /\ Len(r \o f) \in Nat
        /\ Len(r) <= Len(r \o f)
    BY <2>3
  <2> QED
    BY <2>1, <2>2, <2>4 DEF f
<1>3. m \in 0 .. Len(q) /\ Stops(r, over, q, m)
  OBVIOUS
<1>m. Moved(r, q, m) = data(m)
  BY DEF Moved
<1>4. Len(data(m)) <= Capacity
  <2>1. CASE m = 0
    <3>1. FlattenSeq(first(0)) = <<>>
      <4>1. first(0) = <<>>
        OBVIOUS
      <4> QED
        BY <4>1, FlattenEmpty
    <3>2. r \o <<>> = r
      BY ConcatEmptySeq
    <3>3. data(0) = r
      BY <3>1, <3>2
    <3>4. data(m) = r
      BY <2>1, <3>3
    <3> QED
      BY ONLY <3>4, Len(r) <= Capacity
  <2>2. CASE m # 0
    <3> DEFINE l == m - 1
    <3>1. l \in 0 .. m - 1 /\ l \in 0 .. Len(q) /\ l + 1 = m /\ m \in 1 .. Len(q)
      BY <1>0, <1>3, <2>2
    <3>2. Len(data(l)) + over + Frame <= Capacity
      BY <1>3, <3>1 DEF Stops, Fits, Moved
    <3>3. first(m) = Append(first(l), q[m])
      <4> DEFINE F == Seq(S)
      <4>1. q \in Seq(F)
        OBVIOUS
      <4> HIDE DEF F
      <4> QED
        BY <3>1, <4>1, PartAppend
    <3>4. q[m] \in Seq(S) /\ Len(q[m]) <= Frame
      BY <3>1
    <3>5. first(l) \in Seq(Seq(S)) /\ FlattenSeq(first(l)) \in Seq(S)
          /\ Len(data(l)) = Len(r) + Len(FlattenSeq(first(l)))
          /\ Len(data(m)) = Len(r) + Len(FlattenSeq(first(m)))
      BY <1>1, <1>3, <3>1
    <3> HIDE DEF first, data
    <3>6. FlattenSeq(first(m)) = FlattenSeq(first(l)) \o q[m]
      BY <3>3, <3>4, <3>5, FlattenAppend
    <3> DEFINE f == FlattenSeq(first(l))
    <3>7. f \in Seq(S) /\ FlattenSeq(first(m)) = f \o q[m]
          /\ Len(data(l)) = Len(r) + Len(f)
      BY <3>5, <3>6
    <3> HIDE DEF f
    <3>8. Len(f \o q[m]) = Len(f) + Len(q[m]) /\ Len(f) \in Nat /\ Len(q[m]) \in Nat
      BY <3>4, <3>7, SMTT(30)
    <3> QED
      BY <1>0, <3>2, <3>4, <3>5, <3>7, <3>8, ConstantsAre
  <2> QED
    BY <2>1, <2>2
<1>5. /\ rest \in Seq(Seq(S)) /\ Len(rest) = Len(q) - m
      /\ Among(rest, q)
  <2> DEFINE F == Seq(S)
  <2>1. q \in Seq(F)
    OBVIOUS
  <2> HIDE DEF F
  <2>2. m + 1 \in Nat \ {0} /\ Len(q) \in Nat /\ m <= Len(q) /\ m \in Nat
    BY ONLY <1>0, <1>3
  <2>3. /\ rest \in Seq(F) /\ Len(rest) = IF m + 1 <= Len(q) THEN Len(q) - (m + 1) + 1 ELSE 0
        /\ \A k \in 1 .. Len(q) - (m + 1) + 1 : rest[k] = q[m + 1 + k - 1]
    <3>1. rest = SubSeq(q, m + 1, Len(q))
      OBVIOUS
    <3>2. Len(q) <= Len(q)
      BY <1>0
    <3> QED
      BY ONLY <2>1, <2>2, <3>1, <3>2, Part
  <2>4. Len(rest) = Len(q) - m /\ Len(q) - (m + 1) + 1 = Len(q) - m
    BY ONLY <2>2, <2>3
  <2>5. ASSUME NEW k \in 1 .. Len(rest) PROVE \E l \in 1 .. Len(q) : rest[k] = q[l]
    <3>1. m + 1 + k - 1 = m + k
      BY <2>2
    <3>2. k \in 1 .. Len(q) - (m + 1) + 1
      BY <2>4
    <3>3. rest[k] = q[m + k]
      BY ONLY <2>3, <3>1, <3>2
    <3>4. m + k \in 1 .. Len(q)
      <4>1. k \in 1 .. Len(rest)
        OBVIOUS
      <4> QED
        BY ONLY <2>2, <2>4, <4>1
    <3> QED
      BY <3>3, <3>4
  <2> QED
    BY <2>3, <2>4, <2>5 DEF F, Among
<1>6. data(m) \o FlattenSeq(rest) = r \o FlattenSeq(q)
  <2>1. first(m) \o rest = q
    BY <1>3, PartsJoin
  <2>2. first(m) \in Seq(Seq(S)) /\ FlattenSeq(first(m)) \in Seq(S)
    BY <1>1, <1>3
  <2>3. FlattenSeq(rest) \in Seq(S)
    BY <1>5, FlattenType
  <2> HIDE DEF first
  <2>4. FlattenSeq(q) = FlattenSeq(first(m)) \o FlattenSeq(rest)
    BY <1>5, <2>1, <2>2, FlattenConcat
  <2> DEFINE f == FlattenSeq(first(m))
             g == FlattenSeq(rest)
  <2>5. f \in Seq(S) /\ g \in Seq(S) /\ data(m) = r \o f /\ FlattenSeq(q) = f \o g
    BY <2>2, <2>3, <2>4
  <2> HIDE DEF f, data
  <2>6. data(m) \o g = r \o FlattenSeq(q)
    <3> HIDE DEF g
    <3>1. (r \o f) \o g = r \o (f \o g)
      BY <2>5, ConcatAssociative, SMTT(30)
    <3> QED
      BY <2>5, <3>1
  <2> QED
    BY <2>6
<1>7. data(m) \in Seq(S) /\ Len(r) <= Len(data(m))
  BY <1>1, <1>3
<1> HIDE DEF data
<1> QED
  BY <1>m, <1>3, <1>4, <1>5, <1>6, <1>7 DEF Same

LEMMA FillQueueIs ==
  ASSUME NEW n \in Ends, NEW c, Typed(n, c)
  PROVE  \E m \in 0 .. Len(c.TxQueue) : \E data \in Seq(Stream(n)), rest \in Seq(Seq(Stream(n))) :
           /\ FillQueue(c) = [c EXCEPT !.rtq.data = data, !.TxQueue = rest]
           /\ Len(c.rtq.data) <= Len(data) /\ Len(data) <= Capacity
           /\ Len(rest) = Len(c.TxQueue) - m
           /\ Among(rest, c.TxQueue)
           /\ data \o FlattenSeq(rest) = Queued(c)
<1> DEFINE q == c.TxQueue
           r == c.rtq.data
           over == c.rtq.over
           m == CHOOSE k \in 0 .. Len(q) : Stops(r, over, q, k)
           data == Moved(r, q, m)
           rest == SubSeq(q, m + 1, Len(q))
           S == Stream(n)
<1>1. q \in Seq(Seq(S)) /\ r \in Seq(S) /\ over \in Nat /\ Len(r) <= Capacity
  BY DEF Typed, Connection
<1>2. \A k \in 1 .. Len(q) : Len(q[k]) <= Frame
  BY DEF Typed
<1>3. FillQueue(c) = [c EXCEPT !.rtq.data = data, !.TxQueue = rest]
  BY DEF FillQueue, Moved, Fits, Stops
<1>4. Queued(c) = r \o FlattenSeq(q)
  BY DEF Queued
<1> HIDE DEF q, r, over, S, m, rest
<1>5. /\ m \in 0 .. Len(q)
      /\ data \in Seq(S) /\ Len(r) <= Len(data) /\ Len(data) <= Capacity
      /\ rest \in Seq(Seq(S)) /\ Len(rest) = Len(q) - m
      /\ Among(rest, q)
      /\ Same(data, rest, r, q)
  <2>0. \E k \in 0 .. Len(q) : Stops(r, over, q, k)
    BY <1>1, FillingStops
  <2>1. m \in 0 .. Len(q) /\ Stops(r, over, q, m)
    BY <2>0 DEF m
  <2>2. rest = SubSeq(q, m + 1, Len(q))
    BY DEF rest
  <2> HIDE DEF data
  <2>3. data = Moved(r, q, m)
    BY DEF data
  <2> QED
    <3>1. Fills(S, r, over, q, m)
      BY <1>1, <1>2, <2>1 DEF Fills
    <3> QED
      <4>1. data \in Seq(S) /\ Len(r) <= Len(data) /\ Len(data) <= Capacity
        BY ONLY <2>1, <2>2, <2>3, <3>1, FramesThatFit
      <4>2. rest \in Seq(Seq(S)) /\ Among(rest, q)
        BY ONLY <2>1, <2>2, <2>3, <3>1, FramesThatFit
      <4>3. Len(rest) = Len(q) - m
        BY ONLY <2>1, <2>2, <2>3, <3>1, FramesThatFit
      <4>4. Same(data, rest, r, q)
        BY ONLY <2>1, <2>2, <2>3, <3>1, FramesThatFit
      <4> QED
        BY <2>1, <4>1, <4>2, <4>3, <4>4
<1> HIDE DEF data
<1>6. /\ m \in 0 .. Len(c.TxQueue) /\ data \in Seq(Stream(n)) /\ rest \in Seq(Seq(Stream(n)))
      /\ Len(c.rtq.data) <= Len(data) /\ Len(data) <= Capacity
      /\ Len(rest) = Len(c.TxQueue) - m
      /\ Among(rest, c.TxQueue)
  BY <1>5 DEF q, r, S
<1>7. data \o FlattenSeq(rest) = Queued(c)
  BY <1>4, <1>5 DEF Same
<1> QED
  BY <1>3, <1>6, <1>7

-----------------------------------------------------------------------------
(* A sequence in pieces                                                    *)

LEMMA Quotient ==
  ASSUME NEW k \in Nat, k > 0, NEW a \in Nat
  PROVE  /\ a \div k \in Nat
         /\ (a \div k) * k <= a /\ a < (a \div k) * k + k
OBVIOUS

LEMMA Multiples ==
  ASSUME NEW k \in Nat, NEW i \in Nat, NEW d \in Nat
  PROVE  /\ i * k \in Nat /\ (i + 1) * k = i * k + k /\ 0 * k = 0
         /\ i <= d => i * k <= d * k
<1>1. ASSUME i <= d PROVE i * k <= d * k
  <2>1. PICK e \in Nat : d = i + e
    <3>1. d - i \in Nat /\ d = i + (d - i)
      BY <1>1
    <3> QED
      BY <3>1
  <2>2. (i + e) * k = i * k + e * k /\ e * k \in Nat /\ i * k \in Nat
    OBVIOUS
  <2> QED
    BY <2>1, <2>2
<1> QED
  BY <1>1

\* P is s cut into pieces of k: how many there are, and where piece i begins.
Cut(F, s, k, P) ==
  /\ P \in Seq(Seq(F)) /\ (P = <<>> <=> s = <<>>)
  /\ Len(P) * k >= Len(s)
  /\ \A i \in 1 .. Len(P) :
       /\ (i - 1) * k \in Nat /\ (i - 1) * k < Len(s) /\ i * k = (i - 1) * k + k
       /\ P[i] = SubSeq(s, (i - 1) * k + 1, Least(i * k, Len(s)))
       /\ P[i] \in Seq(F)
       /\ Len(P[i]) = Least(i * k, Len(s)) - (i - 1) * k
       /\ Len(P[i]) \in 1 .. k

LEMMA PiecesAre ==
  ASSUME NEW F, NEW s \in Seq(F), NEW k \in Nat, k > 0, NEW P, P = Pieces(s, k)
  PROVE  Cut(F, s, k, P)
<1> DEFINE N == (Len(s) + k - 1) \div k
<1>1. Len(s) \in Nat /\ Len(s) + k - 1 \in Nat
  OBVIOUS
<1>2. N \in Nat /\ N * k <= Len(s) + k - 1 /\ Len(s) + k - 1 < N * k + k
  BY <1>1, Quotient
<1>3. P = [i \in 1 .. N |-> SubSeq(s, (i - 1) * k + 1, Least(i * k, Len(s)))]
  BY DEF Pieces
<1> HIDE DEF N
<1>4. ASSUME NEW i \in 1 .. N
      PROVE  /\ (i - 1) * k \in Nat /\ (i - 1) * k < Len(s) /\ i * k = (i - 1) * k + k
             /\ P[i] = SubSeq(s, (i - 1) * k + 1, Least(i * k, Len(s)))
             /\ P[i] \in Seq(F)
             /\ Len(P[i]) = Least(i * k, Len(s)) - (i - 1) * k
             /\ Len(P[i]) \in 1 .. k
  <2> DEFINE a == (i - 1) * k
             b == Least(i * k, Len(s))
  <2>1. i - 1 \in Nat /\ i \in Nat /\ N \in Nat /\ i <= N /\ (i - 1) + 1 = i
    BY <1>2
  <2>2. a \in Nat /\ ((i - 1) + 1) * k = a + k
    BY <2>1, Multiples
  <2>3. i * k = a + k /\ i * k <= N * k /\ i * k \in Nat
    BY <2>1, <2>2, Multiples
  <2>4. P[i] = SubSeq(s, a + 1, b)
    BY <1>3
  <2> HIDE DEF a
  <2>5. N * k \in Nat
    BY <2>1, Multiples
  <2>6. a < Len(s)
    BY <1>1, <1>2, <2>2, <2>3, <2>5
  <2>7. b \in Nat /\ b <= Len(s) /\ a < b /\ b <= a + k
    BY <1>1, <2>2, <2>3, <2>6 DEF Least
  <2>8. a + 1 \in Nat \ {0}
    BY <2>2
  <2> HIDE DEF b
  <2>9. SubSeq(s, a + 1, b) \in Seq(F)
        /\ Len(SubSeq(s, a + 1, b)) = IF a + 1 <= b THEN b - (a + 1) + 1 ELSE 0
    BY ONLY <2>7, <2>8, s \in Seq(F), Part
  <2>10. P[i] \in Seq(F) /\ Len(P[i]) = b - a /\ Len(P[i]) \in 1 .. k
    BY ONLY <2>2, <2>4, <2>7, <2>9, k \in Nat
  <2> QED
    BY <2>2, <2>3, <2>4, <2>6, <2>10 DEF a, b
<1>5. P \in Seq(Seq(F)) /\ Len(P) = N
  <2>1. \A i \in 1 .. N : SubSeq(s, (i - 1) * k + 1, Least(i * k, Len(s))) \in Seq(F)
    BY <1>4
  <2> DEFINE G == Seq(F)
             p(i) == SubSeq(s, (i - 1) * k + 1, Least(i * k, Len(s)))
  <2>2. P = [i \in 1 .. N |-> p(i)] /\ \A i \in 1 .. N : p(i) \in G
    BY <1>3, <2>1
  <2> HIDE DEF G, p
  <2>3. P \in Seq(G) /\ Len(P) = N
    BY <1>2, <2>2
  <2> QED
    BY <2>3 DEF G
<1>6. N * k >= Len(s)
  BY <1>1, <1>2, Multiples
<1>7. P = <<>> <=> s = <<>>
  <2>1. P = <<>> <=> N = 0
    BY <1>2, <1>5
  <2>2. N = 0 <=> Len(s) = 0
    <3>1. ASSUME N = 0 PROVE Len(s) = 0
      BY <1>1, <1>6, <3>1, Multiples
    <3>2. ASSUME Len(s) = 0, N # 0 PROVE FALSE
      <4>1. 1 * k <= N * k /\ 1 * k = k
        BY <1>2, <3>2, Multiples
      <4> QED
        BY <1>2, <3>2, <4>1, Multiples
    <3> QED
      BY <3>1, <3>2
  <2> QED
    BY <2>1, <2>2
<1> HIDE DEF N
<1> QED
  BY <1>4, <1>5, <1>6, <1>7 DEF Cut

\* Nothing is lost in pieces.
LEMMA PiecesJoin ==
  ASSUME NEW F, NEW s \in Seq(F), NEW k \in Nat, k > 0, NEW P, P = Pieces(s, k)
  PROVE  FlattenSeq(P) = s
<1> DEFINE first(m) == SubSeq(P, 1, m)
           cut(m) == SubSeq(s, 1, Least(m * k, Len(s)))
           Done == {m \in Nat : m <= Len(P) => FlattenSeq(first(m)) = cut(m)}
<1>0. Cut(F, s, k, P)
  BY PiecesAre
<1>1. /\ P \in Seq(Seq(F)) /\ Len(P) * k >= Len(s) /\ Len(s) \in Nat /\ Len(P) \in Nat
  BY <1>0 DEF Cut
<1>2. 0 \in Done
  <2>1. first(0) = <<>>
    OBVIOUS
  <2>2. Least(0 * k, Len(s)) = 0
    BY <1>1, Multiples DEF Least
  <2>3. cut(0) = <<>>
    BY <2>2
  <2> QED
    BY <2>1, <2>3, FlattenEmpty
<1>3. ASSUME NEW m \in Nat, m \in Done PROVE m + 1 \in Done
  <2>1. SUFFICES ASSUME m + 1 <= Len(P) PROVE FlattenSeq(first(m + 1)) = cut(m + 1)
    OBVIOUS
  <2> DEFINE i == m + 1
             a == m * k
             b == Least(i * k, Len(s))
             G == Seq(F)
  <2>2. i \in 1 .. Len(P) /\ i - 1 = m
    BY <1>1, <2>1
  <2>3. /\ a \in Nat /\ a < Len(s) /\ i * k = a + k
        /\ P[i] = SubSeq(s, a + 1, b) /\ P[i] \in Seq(F)
    BY <1>0, <2>2 DEF Cut
  <2>4. first(i) = Append(first(m), P[i])
    <3>1. P \in Seq(G)
      BY <1>1
    <3> HIDE DEF G
    <3> QED
      BY <2>2, <3>1, PartAppend
  <2>5. first(m) \in Seq(Seq(F))
    <3>1. P \in Seq(G)
      BY <1>1
    <3> HIDE DEF G
    <3>2. SubSeq(P, 1, m) \in Seq(G)
      BY <1>1, <2>1, <3>1, Part
    <3> QED
      BY <3>2 DEF G
  <2>6. FlattenSeq(first(i)) = FlattenSeq(first(m)) \o P[i]
    <3> HIDE DEF first
    <3> QED
      BY <2>3, <2>4, <2>5, FlattenAppend
  <2>7. FlattenSeq(first(m)) = cut(m)
    BY <1>3, <2>1, <1>1
  <2>8. cut(m) = SubSeq(s, 1, a)
    BY <1>1, <2>3 DEF Least
  <2>9. b \in a .. Len(s)
    BY <1>1, <2>3 DEF Least
  <2>10. SubSeq(s, 1, a) \o SubSeq(s, a + 1, b) = SubSeq(s, 1, b)
    <3> HIDE DEF a, b
    <3>1. 1 \in 1 .. Len(s) + 1 /\ a \in 1 - 1 .. Len(s) /\ b \in a .. Len(s)
      BY <1>1, <2>3, <2>9
    <3> QED
      BY ONLY <3>1, s \in Seq(F), ConcatAdjacentSubSeq
  <2>11. cut(i) = SubSeq(s, 1, b)
    OBVIOUS
  <2> HIDE DEF first, cut, a, b
  <2> QED
    BY <2>3, <2>6, <2>7, <2>8, <2>10, <2>11
<1>4. Len(P) \in Done
  <2> HIDE DEF Done
  <2> QED
    BY <1>1, <1>2, <1>3, AllNumbers
<1>5. FlattenSeq(first(Len(P))) = cut(Len(P))
  BY <1>1, <1>4
<1>6. first(Len(P)) = P
  <2> DEFINE G == Seq(F)
  <2>1. P \in Seq(G)
    BY <1>1
  <2> HIDE DEF G
  <2> QED
    BY <2>1, SubSeqFull
<1>7. cut(Len(P)) = s
  <2>1. Len(P) * k \in Nat
    BY <1>1, Multiples
  <2>2. Least(Len(P) * k, Len(s)) = Len(s)
    BY <1>1, <2>1 DEF Least
  <2> QED
    BY <2>2, SubSeqFull
<1> HIDE DEF first, cut
<1> QED
  BY <1>5, <1>6, <1>7

-----------------------------------------------------------------------------
(* Parts behind others                                                     *)

LEMMA PartFrom ==
  ASSUME NEW F, NEW s \in Seq(F), NEW b \in Nat, NEW l \in Nat, b + l <= Len(s)
  PROVE  /\ SubSeq(s, b + 1, b + l) \in Seq(F) /\ Len(SubSeq(s, b + 1, b + l)) = l
         /\ \A j \in 1 .. l : SubSeq(s, b + 1, b + l)[j] = s[b + j]
<1> DEFINE t == SubSeq(s, b + 1, b + l)
<1>1. b + 1 \in Nat \ {0} /\ b + l \in Nat
  OBVIOUS
<1>2. /\ t \in Seq(F) /\ Len(t) = IF b + 1 <= b + l THEN (b + l) - (b + 1) + 1 ELSE 0
      /\ \A j \in 1 .. (b + l) - (b + 1) + 1 : t[j] = s[b + 1 + j - 1]
  <2> DEFINE c == b + 1
             d == b + l
  <2>1. c \in Nat \ {0} /\ d \in Nat /\ d <= Len(s)
    BY <1>1
  <2> HIDE DEF c, d
  <2>2. /\ SubSeq(s, c, d) \in Seq(F) /\ Len(SubSeq(s, c, d)) = IF c <= d THEN d - c + 1 ELSE 0
        /\ \A j \in 1 .. d - c + 1 : SubSeq(s, c, d)[j] = s[c + j - 1]
    BY <2>1, Part
  <2> QED
    BY <2>2 DEF c, d
<1> HIDE DEF t
<1>3. (b + l) - (b + 1) + 1 = l
  OBVIOUS
<1>4. ASSUME NEW j \in 1 .. l PROVE t[j] = s[b + j]
  <2>1. b + 1 + j - 1 = b + j
    OBVIOUS
  <2> QED
    BY <1>2, <1>3, <2>1
<1>5. Len(t) = l
  BY <1>2, <1>3
<1> QED
  BY <1>2, <1>4, <1>5 DEF t

\* t is the part of s, k long, that comes after its first p members, and has l
\* members after its first a.
Inside(F, s, p, k, t, a, l) ==
  /\ s \in Seq(F) /\ p \in Nat /\ k \in Nat /\ p + k <= Len(s)
  /\ t \in Seq(F) /\ Len(t) = k /\ \A j \in 1 .. k : t[j] = s[p + j]
  /\ a \in Nat /\ l \in Nat /\ a + l <= k
SamePart(t, s, p, a, l) == SubSeq(t, a + 1, a + l) = SubSeq(s, p + a + 1, p + a + l)

LEMMA PartOfPart ==
  ASSUME NEW F, NEW s, NEW p, NEW k, NEW t, NEW a, NEW l, Inside(F, s, p, k, t, a, l)
  PROVE  SamePart(t, s, p, a, l)
<1> DEFINE u == SubSeq(t, a + 1, a + l)
           v == SubSeq(s, p + a + 1, p + a + l)
<1>0. /\ s \in Seq(F) /\ p \in Nat /\ k \in Nat /\ p + k <= Len(s)
      /\ t \in Seq(F) /\ Len(t) = k /\ \A j \in 1 .. k : t[j] = s[p + j]
      /\ a \in Nat /\ l \in Nat /\ a + l <= k
  BY DEF Inside
<1> USE <1>0
<1>1. u \in Seq(F) /\ Len(u) = l /\ \A j \in 1 .. l : u[j] = t[a + j]
  BY PartFrom
<1>2. p + a \in Nat /\ p + a + l <= Len(s)
  OBVIOUS
<1>3. v \in Seq(F) /\ Len(v) = l /\ \A j \in 1 .. l : v[j] = s[p + a + j]
  <2> DEFINE b == p + a
  <2>1. b \in Nat /\ b + l <= Len(s)
    BY <1>2
  <2> HIDE DEF b
  <2>2. /\ SubSeq(s, b + 1, b + l) \in Seq(F) /\ Len(SubSeq(s, b + 1, b + l)) = l
        /\ \A j \in 1 .. l : SubSeq(s, b + 1, b + l)[j] = s[b + j]
    BY <2>1, PartFrom
  <2> QED
    BY <2>2 DEF b
<1> HIDE DEF u, v
<1>4. ASSUME NEW j \in 1 .. l PROVE u[j] = v[j]
  <2>1. a + j \in 1 .. k /\ p + (a + j) = p + a + j
    OBVIOUS
  <2>2. t[a + j] = s[p + (a + j)]
    BY <1>0, <2>1
  <2> QED
    BY <1>1, <1>3, <2>1, <2>2
<1>5. u = v
  BY ONLY <1>1, <1>3, <1>4
<1> QED
  BY <1>5 DEF SamePart, u, v

-----------------------------------------------------------------------------
(* The types, continued                                                    *)

\* What FillQueue makes of c: some of the frames are at the end of the queue.
LEMMA FillQueueTyped ==
  ASSUME NEW n \in Ends, NEW c, Typed(n, c), ~c.bTimedOut
  PROVE  Typed(n, FillQueue(c)) /\ ~FillQueue(c).bTimedOut
<1>1. PICK m \in 0 .. Len(c.TxQueue) :
        \E data \in Seq(Stream(n)), rest \in Seq(Seq(Stream(n))) :
           /\ FillQueue(c) = [c EXCEPT !.rtq.data = data, !.TxQueue = rest]
           /\ Len(c.rtq.data) <= Len(data) /\ Len(data) <= Capacity
           /\ Among(rest, c.TxQueue)
  BY FillQueueIs
<1>2. PICK data \in Seq(Stream(n)), rest \in Seq(Seq(Stream(n))) :
           /\ FillQueue(c) = [c EXCEPT !.rtq.data = data, !.TxQueue = rest]
           /\ Len(c.rtq.data) <= Len(data) /\ Len(data) <= Capacity
           /\ Among(rest, c.TxQueue)
  BY <1>1
<1> DEFINE d == [c EXCEPT !.rtq.data = data, !.TxQueue = rest]
<1>3. /\ d \in Connection(n) /\ d.rtq.pre = c.rtq.pre /\ d.rtq.data = data /\ d.TxQueue = rest
      /\ d.bTimedOut = c.bTimedOut /\ d.nRetransmissionCount = c.nRetransmissionCount
  BY DEF Typed, Connection
<1>4. \A k \in 1 .. Len(rest) : Len(rest[k]) <= Frame
  BY <1>2 DEF Typed, Among
<1>5. c.rtq.pre \in Nat /\ Len(c.rtq.data) \in Nat /\ Len(data) \in Nat
      /\ c.rtq.pre <= Len(c.rtq.data) /\ c.nRetransmissionCount # -1
  BY DEF Typed, Connection
<1> HIDE DEF d
<1>6. Typed(n, d) /\ ~d.bTimedOut
  BY <1>2, <1>3, <1>4, <1>5 DEF Typed
<1> QED
  BY <1>2, <1>6 DEF d

LEMMA GoBackTyped ==
  ASSUME NEW n \in Ends, NEW c, Typed(n, c), ~c.bTimedOut
  PROVE  Typed(n, GoBack(c)) /\ ~GoBack(c).bTimedOut
<1> DEFINE d == [c EXCEPT !.bRetransmit = FALSE, !.rtq.pre = 0, !.SND_NXT = c.SND_UNA]
<1>1. Len(c.rtq.data) \in Nat
  BY DEF Typed, Connection
<1>2. /\ d \in Connection(n) /\ d.rtq.pre = 0 /\ d.rtq.data = c.rtq.data
      /\ d.TxQueue = c.TxQueue /\ d.nRetransmissionCount = c.nRetransmissionCount
      /\ d.bTimedOut = c.bTimedOut
  BY DEF Typed, Connection
<1>3. c.nRetransmissionCount # -1
  BY DEF Typed
<1> HIDE DEF d
<1>4. Typed(n, d) /\ ~d.bTimedOut
  BY <1>1, <1>2, <1>3 DEF Typed
<1> HIDE DEF d
<1> QED
  BY <1>4 DEF GoBack, d

-----------------------------------------------------------------------------
(* The data that are sent                                                  *)

\* Segment s carries the bytes a + 1 to a + l behind the ones that c has sent.
Carries(c, s, a, l) ==
  \E flags \in {{"ACK"}, {"ACK", "PSH"}} :
    s = Segment(flags, Plus(c.SND_NXT, a), c.RCV_NXT,
                SubSeq(c.rtq.data, c.rtq.pre + a + 1, c.rtq.pre + a + l))

\* a is where a segment may begin when k bytes are sent, and l its length.
Cuts(k, a, l) ==
  /\ a \in Nat /\ l \in 1 .. MSS /\ a + l <= k
  /\ \E i \in Nat : a = i * MSS
  /\ l = MSS \/ a + l = k

Left(c) == Diff(Plus(c.SND_UNA, Window), c.SND_NXT)

\* d is c when it has sent k bytes in the segments X.
Sent(c, d, k, X) ==
  /\ k = Least(Len(c.rtq.data) - c.rtq.pre, Left(c)) /\ k > 0
  /\ \A s \in X : \E a, l : Cuts(k, a, l) /\ Carries(c, s, a, l)
  /\ d = StartTimer([c EXCEPT !.out = @ \cup X, !.SND_NXT = Plus(@, k), !.rtq.pre = @ + k],
                    "Retransmission")

LEMMA SendDataIs ==
  ASSUME NEW n \in Ends, NEW c, Typed(n, c)
  PROVE  SendData(c) = c \/ \E k \in Nat : \E X : Sent(c, SendData(c), k, X)
<1> DEFINE S == Stream(n)
           r == c.rtq.data
           pre == c.rtq.pre
           ready == SubSeq(r, pre + 1, Len(r))
           k == Least(Len(ready), Left(c))
           data == SubSeq(ready, 1, k)
           P == Pieces(data, MSS)
           push == IF IsEmpty(c.rtq) /\ c.TxQueue = <<>> THEN {"PSH"} ELSE {}
           Piece(i) == Segment({"ACK"} \cup push, Plus(c.SND_NXT, (i - 1) * MSS), c.RCV_NXT, P[i])
           X == {Piece(i) : i \in DOMAIN P}
<1>1. r \in Seq(S) /\ pre \in Nat /\ pre <= Len(r) /\ Len(r) \in Nat
  BY DEF Typed, Connection
<1>2. Left(c) \in Nat
  <2>1. c.SND_UNA \in Numbers /\ c.SND_NXT \in Numbers
    BY DEF Typed, Connection
  <2>2. Plus(c.SND_UNA, Window) \in Numbers
    BY <2>1, PlusType, ConstantsAre
  <2> QED
    BY <2>1, <2>2, DiffIs DEF Left, Numbers
<1>3. SendData(c) = IF data = <<>> THEN c
        ELSE StartTimer([c EXCEPT !.out = @ \cup X, !.SND_NXT = Plus(@, Len(data)),
                                  !.rtq.pre = @ + Len(data)], "Retransmission")
  BY DEF SendData, Left
<1> HIDE DEF S, r, pre
<1>4. /\ ready \in Seq(S) /\ Len(ready) = Len(r) - pre
      /\ \A i \in 1 .. Len(r) - pre : ready[i] = r[pre + i]
  <2>1. pre + 1 \in Nat \ {0} /\ Len(r) <= Len(r)
    BY <1>1
  <2>2. /\ ready \in Seq(S)
        /\ Len(ready) = IF pre + 1 <= Len(r) THEN Len(r) - (pre + 1) + 1 ELSE 0
        /\ \A i \in 1 .. Len(r) - (pre + 1) + 1 : ready[i] = r[pre + 1 + i - 1]
    BY ONLY <1>1, <2>1, Part
  <2> HIDE DEF ready
  <2> QED
    BY <1>1, <2>2
<1> HIDE DEF ready
<1>5. k \in Nat /\ k <= Len(ready) /\ k = Least(Len(r) - pre, Left(c))
  BY <1>1, <1>2, <1>4 DEF Least
<1> HIDE DEF k
<1>6. /\ data \in Seq(S) /\ Len(data) = k
      /\ \A i \in 1 .. k : data[i] = r[pre + i]
  <2>1. /\ data \in Seq(S) /\ Len(data) = IF 1 <= k THEN k - 1 + 1 ELSE 0
        /\ \A i \in 1 .. k - 1 + 1 : data[i] = ready[1 + i - 1]
    BY ONLY <1>4, <1>5, Part, 1 \in Nat \ {0}
  <2> HIDE DEF data
  <2> QED
    BY <1>1, <1>4, <1>5, <2>1
<1> HIDE DEF data
<1>7. data = <<>> <=> k = 0
  BY <1>5, <1>6
<1>8. Cut(S, data, MSS, P)
  BY ONLY <1>6, ConstantsAre, PiecesAre, P = Pieces(data, MSS)
<1> HIDE DEF P
<1>9. P \in Seq(Seq(S)) /\ DOMAIN P = 1 .. Len(P) /\ Len(P) \in Nat
  BY <1>8 DEF Cut
<1>10. ASSUME NEW i \in DOMAIN P
       PROVE  \E a, l : Cuts(k, a, l) /\ Carries(c, Piece(i), a, l)
  <2> DEFINE a == (i - 1) * MSS
             l == Len(P[i])
  <2>1. /\ a \in Nat /\ a < k /\ i * MSS = a + MSS /\ l = Least(i * MSS, k) - a
        /\ P[i] = SubSeq(data, a + 1, Least(i * MSS, k)) /\ l \in 1 .. MSS /\ P[i] \in Seq(S)
    BY <1>6, <1>8, <1>9 DEF Cut
  <2>2. i - 1 \in Nat
    BY <1>9
  <2>3. \E e \in Nat : a = e * MSS
    BY <2>2
  <2> HIDE DEF a, l
  <2>4. a + l <= k /\ (l = MSS \/ a + l = k) /\ Least(i * MSS, k) = a + l
    <3> DEFINE b == i * MSS
    <3>1. b = a + MSS /\ l = Least(b, k) - a /\ a \in Nat /\ a < k
      BY <2>1
    <3> HIDE DEF b
    <3>2. a + l <= k /\ (l = MSS \/ a + l = k) /\ Least(b, k) = a + l
      BY <1>5, <3>1, ConstantsAre DEF Least
    <3> QED
      BY <3>2 DEF b
  <2>5. Cuts(k, a, l)
    BY <2>1, <2>3, <2>4 DEF Cuts
  <2>6. P[i] = SubSeq(data, a + 1, a + l)
    BY <2>1, <2>4
  <2>7. P[i] = SubSeq(r, pre + a + 1, pre + a + l)
    <3>1. pre + k <= Len(r) /\ k \in Nat /\ l \in Nat
      BY <1>1, <1>4, <1>5, <2>1, ConstantsAre
    <3>2. SubSeq(data, a + 1, a + l) = SubSeq(r, pre + a + 1, pre + a + l)
      <4>1. Inside(S, r, pre, k, data, a, l)
        BY <1>1, <1>6, <2>1, <2>4, <3>1 DEF Inside
      <4>2. SamePart(data, r, pre, a, l)
        BY <4>1, PartOfPart
      <4> QED
        BY <4>2 DEF SamePart
    <3> QED
      BY <2>6, <3>2
  <2>8. {"ACK"} \cup push \in {{"ACK"}, {"ACK", "PSH"}}
    OBVIOUS
  <2>9. Carries(c, Piece(i), a, l)
    <3>1. Piece(i) = Segment({"ACK"} \cup push, Plus(c.SND_NXT, a), c.RCV_NXT,
                             SubSeq(c.rtq.data, c.rtq.pre + a + 1, c.rtq.pre + a + l))
      BY <2>7 DEF r, pre, a
    <3> HIDE DEF push, Piece
    <3> QED
      BY <2>8, <3>1 DEF Carries
  <2> QED
    BY <2>5, <2>9
<1>11. \A s \in X : \E a, l : Cuts(k, a, l) /\ Carries(c, s, a, l)
  <2>1. ASSUME NEW s \in X PROVE \E a, l : Cuts(k, a, l) /\ Carries(c, s, a, l)
    <3>1. PICK i \in DOMAIN P : s = Piece(i)
      OBVIOUS
    <3> HIDE DEF Piece
    <3> QED
      BY <1>10, <3>1
  <2> QED
    BY <2>1
<1> HIDE DEF X
<1>12. CASE k = 0
  BY <1>3, <1>7, <1>12
<1>13. CASE k # 0
  <2>1. Sent(c, SendData(c), k, X)
    BY <1>3, <1>5, <1>6, <1>7, <1>11, <1>13 DEF Sent, r, pre
  <2> QED
    BY <1>5, <2>1
<1> QED
  BY <1>12, <1>13

\* A segment of data.
LEMMA CarriesTyped ==
  ASSUME NEW n \in Ends, NEW c, Typed(n, c), NEW k \in Nat, k <= Len(c.rtq.data) - c.rtq.pre,
         NEW s, NEW a, NEW l, Cuts(k, a, l), Carries(c, s, a, l)
  PROVE  s \in Segments(n)
<1>1. PICK flags \in {{"ACK"}, {"ACK", "PSH"}} :
        s = Segment(flags, Plus(c.SND_NXT, a), c.RCV_NXT,
                    SubSeq(c.rtq.data, c.rtq.pre + a + 1, c.rtq.pre + a + l))
  BY DEF Carries
<1> DEFINE data == SubSeq(c.rtq.data, c.rtq.pre + a + 1, c.rtq.pre + a + l)
           S == Stream(n)
<1>2. /\ c.rtq.data \in Seq(S) /\ c.rtq.pre \in Nat /\ c.SND_NXT \in Numbers /\ c.RCV_NXT \in Numbers
  BY DEF Typed, Connection
<1>3. /\ c.rtq.pre + a + 1 \in Nat \ {0} /\ c.rtq.pre + a + l \in Nat
      /\ c.rtq.pre + a + l <= Len(c.rtq.data) /\ a \in Int
  <2>1. a \in Nat /\ l \in Nat /\ a + l <= k
    BY ConstantsAre DEF Cuts
  <2>2. Len(c.rtq.data) \in Nat
    BY <1>2
  <2> QED
    BY <1>2, <2>1, <2>2, SMTT(30)
<1> HIDE DEF S
<1>4. data \in Seq(S)
  BY <1>2, <1>3, Part
<1>5. Plus(c.SND_NXT, a) \in Numbers
  BY <1>2, <1>3, PlusType
<1>6. flags \in SUBSET Flags
  BY DEF Flags
<1> HIDE DEF data
<1>7. Segment(flags, Plus(c.SND_NXT, a), c.RCV_NXT, data) \in Segments(n)
  BY <1>2, <1>4, <1>5, <1>6, SegmentTyped DEF S
<1> QED
  BY <1>1, <1>7 DEF data

LEMMA SendDataTyped ==
  ASSUME NEW n \in Ends, NEW c, Typed(n, c), ~c.bTimedOut
  PROVE  Typed(n, SendData(c))
<1>1. CASE SendData(c) = c
  BY <1>1
<1>2. CASE \E k \in Nat : \E X : Sent(c, SendData(c), k, X)
  <2>0. PICK k \in Nat : \E X : Sent(c, SendData(c), k, X)
    BY <1>2
  <2>1. PICK X : Sent(c, SendData(c), k, X)
    BY <2>0
  <2> DEFINE d == [c EXCEPT !.out = @ \cup X, !.SND_NXT = Plus(@, k), !.rtq.pre = @ + k]
  <2>2. k <= Len(c.rtq.data) - c.rtq.pre
    <3>1. Left(c) \in Nat
      <4>1. c.SND_UNA \in Numbers /\ c.SND_NXT \in Numbers
        BY DEF Typed, Connection
      <4>2. Plus(c.SND_UNA, Window) \in Numbers
        BY <4>1, PlusType, ConstantsAre
      <4> QED
        BY <4>1, <4>2, DiffIs DEF Left, Numbers
    <3>2. Len(c.rtq.data) \in Nat /\ c.rtq.pre \in Nat
      BY DEF Typed, Connection
    <3>3. k = Least(Len(c.rtq.data) - c.rtq.pre, Left(c))
      BY <2>1 DEF Sent
    <3> QED
      BY <3>1, <3>2, <3>3 DEF Least
  <2>3. X \subseteq Segments(n)
    <3>1. ASSUME NEW s \in X PROVE s \in Segments(n)
      <4>1. PICK a, l : Cuts(k, a, l) /\ Carries(c, s, a, l)
        BY <2>1 DEF Sent
      <4> QED
        BY <2>2, <4>1, CarriesTyped
    <3> QED
      BY <3>1
  <2>4. Plus(c.SND_NXT, k) \in Numbers
    <3>1. c.SND_NXT \in Numbers
      BY DEF Typed, Connection
    <3> QED
      BY <3>1, PlusType
  <2>a. c.rtq.pre + k \in Nat
    BY DEF Typed, Connection
  <2>5. /\ d \in Connection(n) /\ d.rtq.pre = c.rtq.pre + k /\ d.rtq.data = c.rtq.data
        /\ d.TxQueue = c.TxQueue /\ d.nRetransmissionCount = c.nRetransmissionCount
    <3> DEFINE o == c.out \cup X
               x == Plus(c.SND_NXT, k)
               y == c.rtq.pre + k
    <3>1. o \in SUBSET Segments(n) /\ x \in Numbers /\ y \in Nat
      BY <2>3, <2>4, <2>a DEF Typed, Connection
    <3>2. d = [c EXCEPT !.out = o, !.SND_NXT = x, !.rtq.pre = y]
      BY DEF Typed, Connection
    <3> HIDE DEF o, x, y, d
    <3>3. /\ d \in Connection(n) /\ d.rtq.pre = y /\ d.rtq.data = c.rtq.data
          /\ d.TxQueue = c.TxQueue /\ d.nRetransmissionCount = c.nRetransmissionCount
      BY <3>1, <3>2 DEF Typed, Connection
    <3> QED
      BY <3>3 DEF y
  <2>6. c.rtq.pre \in Nat /\ Len(c.rtq.data) \in Nat /\ c.nRetransmissionCount # -1
    BY DEF Typed, Connection
  <2> HIDE DEF d
  <2>7. Typed(n, d) /\ d.nRetransmissionCount # -1
    BY <2>2, <2>5, <2>6 DEF Typed
  <2>8. SendData(c) = StartTimer(d, "Retransmission")
    BY <2>1 DEF Sent, d
  <2> QED
    BY <2>7, <2>8, StartTimerTyped DEF Timers
<1> QED
  BY <1>1, <1>2, SendDataIs

LEMMA ProcessTyped ==
  ASSUME NEW n \in Ends, NEW c, Typed(n, c)
  PROVE  Typed(n, Process(c))
<1>1. CASE c.bTimedOut
  <2>1. Process(c) = Fail(c)
    BY <1>1 DEF Process
  <2> QED
    BY <2>1, FailTyped
<1>2. CASE ~c.bTimedOut /\ c.State \in {"SynSent", "SynReceived"} /\ c.bSendSYN
  <2>1. Process(c) = SendSYN(c)
    BY <1>2 DEF Process
  <2> QED
    BY <1>2, <2>1, SendSYNTyped
<1>3. CASE ~c.bTimedOut /\ c.State \in {"Established", "FinWait1", "CloseWait", "Closing", "LastAck"}
  <2> DEFINE f == SendFIN(c)
             q == FillQueue(f)
             g == GoBack(q)
  <2>1. Process(c) = SendData(g)
    BY <1>3 DEF Process
  <2>2. Typed(n, f) /\ ~f.bTimedOut
    BY <1>3, SendFINTyped
  <2> HIDE DEF f
  <2>3. Typed(n, q) /\ ~q.bTimedOut
    BY <2>2, FillQueueTyped
  <2> HIDE DEF q
  <2>4. Typed(n, g) /\ ~g.bTimedOut
    BY <2>3, GoBackTyped
  <2> HIDE DEF g
  <2> QED
    BY <2>1, <2>4, SendDataTyped
<1>4. CASE /\ ~c.bTimedOut /\ ~(c.State \in {"SynSent", "SynReceived"} /\ c.bSendSYN)
           /\ c.State \notin {"Established", "FinWait1", "CloseWait", "Closing", "LastAck"}
  <2>1. Process(c) = c
    BY <1>4 DEF Process
  <2> QED
    BY <2>1
<1> QED
  BY <1>1, <1>2, <1>3, <1>4

-----------------------------------------------------------------------------
(* The types of what the segments of the peer make of a connection         *)

LEMMA SegmentIs ==
  ASSUME NEW n \in Ends, NEW s \in Segments(n)
  PROVE  /\ s.flags \in SUBSET Flags /\ s.seq \in Numbers /\ s.ack \in Numbers
         /\ s.data \in Seq(Stream(n)) /\ Len(s.data) \in Nat
         /\ SegLen(s) \in Nat
<1>1. /\ s.flags \in SUBSET Flags /\ s.seq \in Numbers /\ s.ack \in Numbers
      /\ s.data \in Seq(Stream(n))
  BY DEF Segments
<1>2. Len(s.data) \in Nat
  BY <1>1
<1>3. SegLen(s) \in Nat
  <2> DEFINE a == IF "SYN" \in s.flags THEN 1 ELSE 0
             b == IF "FIN" \in s.flags THEN 1 ELSE 0
             l == Len(s.data)
  <2>1. SegLen(s) = l + a + b
    BY DEF SegLen
  <2>2. a \in Nat /\ b \in Nat /\ l \in Nat
    BY <1>2
  <2> HIDE DEF a, b, l
  <2> QED
    BY <2>1, <2>2
<1> QED
  BY <1>1, <1>2, <1>3

LEMMA ResetTyped ==
  ASSUME NEW n \in Ends, NEW c, Typed(n, c), c.State \in Synchronized
  PROVE  Typed(n, Reset(c))
<1> DEFINE q == [c EXCEPT !.rtq = EmptyQueue]
<1>1. Typed(n, q)
  BY EmptyQueueTyped
<1>2. CASE c.State = "SynReceived" /\ ~c.bActiveOpen
  <2>1. Reset(c) = [q EXCEPT !.State = "Listen"]
    BY <1>2 DEF Reset, Typed, Connection
  <2> HIDE DEF q
  <2>2. Typed(n, [q EXCEPT !.State = "Listen"])
    BY <1>1, ZenonT(60) DEF Typed, Connection, States
  <2> QED
    BY <2>1, <2>2
<1>3. CASE c.State = "SynReceived" /\ c.bActiveOpen
  <2>1. Reset(c) = Fail(q)
    BY <1>3 DEF Reset
  <2> HIDE DEF q
  <2> QED
    BY <1>1, <2>1, FailTyped
<1>4. CASE c.State \in {"Established", "FinWait1", "FinWait2", "CloseWait"}
  <2>1. Reset(c) = Fail(Flush(c))
    BY <1>4 DEF Reset
  <2>2. Typed(n, Flush(c))
    BY FlushTyped
  <2> QED
    BY <2>1, <2>2, FailTyped
<1>5. CASE c.State \in {"Closing", "LastAck", "TimeWait"}
  <2>1. Reset(c) = [c EXCEPT !.State = "Closed", !.Event = TRUE]
    BY <1>5 DEF Reset
  <2>2. Typed(n, [c EXCEPT !.State = "Closed", !.Event = TRUE])
    BY ZenonT(60) DEF Typed, Connection, States
  <2> QED
    BY <2>1, <2>2
<1>6. c.bActiveOpen \in BOOLEAN
  BY DEF Typed, Connection
<1> QED
  BY <1>2, <1>3, <1>4, <1>5, <1>6 DEF Synchronized, States

LEMMA SynAgainTyped ==
  ASSUME NEW n \in Ends, NEW c, Typed(n, c)
  PROVE  Typed(n, SynAgain(c))
<1>1. CASE c.State = "SynReceived" /\ ~c.bActiveOpen
  <2>1. SynAgain(c) = [c EXCEPT !.State = "Listen"]
    BY <1>1 DEF SynAgain
  <2>2. Typed(n, [c EXCEPT !.State = "Listen"])
    BY DEF Typed, Connection, States
  <2> QED
    BY <2>1, <2>2
<1>2. CASE ~(c.State = "SynReceived" /\ ~c.bActiveOpen)
  <2> DEFINE d == SendSegment(c, {"RST"}, c.SND_NXT, 0, <<>>)
  <2>1. SynAgain(c) = Fail(Flush(d))
    BY <1>2 DEF SynAgain
  <2>2. {"RST"} \in SUBSET Flags /\ c.SND_NXT \in Numbers /\ 0 \in Numbers
    BY ConstantsAre DEF Typed, Connection, Flags, Numbers
  <2>3. Typed(n, d)
    BY <2>2, SendSegmentTyped
  <2> HIDE DEF d
  <2>4. Typed(n, Flush(d))
    BY <2>3, FlushTyped
  <2> QED
    BY <2>1, <2>4, FailTyped
<1> QED
  BY <1>1, <1>2

\* What is taken out of the queue: k bytes, or what it holds.
Taken(q, d, k) ==
  /\ k \in Nat
  /\ d.data = SubSeq(q.data, Least(k, Len(q.data)) + 1, Len(q.data))
  /\ d.pre = (IF q.pre >= Least(k, Len(q.data)) THEN q.pre - Least(k, Len(q.data)) ELSE 0)
  /\ d.over = q.over + k - Least(k, Len(q.data))

LEMMA AdvanceTyped ==
  ASSUME NEW F, NEW q \in [data : Seq(F), pre : Nat, over : Nat], NEW k \in Nat,
         q.pre <= Len(q.data)
  PROVE  /\ Advance(q, k) \in [data : Seq(F), pre : Nat, over : Nat]
         /\ Advance(q, k).pre <= Len(Advance(q, k).data)
         /\ Len(Advance(q, k).data) <= Len(q.data)
         /\ Taken(q, Advance(q, k), k)
<1> DEFINE k0 == Least(k, Len(q.data))
           data == SubSeq(q.data, k0 + 1, Len(q.data))
           pre == IF q.pre >= k0 THEN q.pre - k0 ELSE 0
           over == q.over + k - k0
<1>1. Len(q.data) \in Nat /\ q.pre \in Nat /\ q.over \in Nat /\ q.data \in Seq(F)
  OBVIOUS
<1>2. k0 \in Nat /\ k0 <= k /\ k0 <= Len(q.data)
  BY <1>1 DEF Least
<1>3. Advance(q, k) = [data |-> data, pre |-> pre, over |-> over]
  BY DEF Advance
<1> HIDE DEF k0
<1>4. data \in Seq(F) /\ Len(data) = Len(q.data) - k0
  <2> DEFINE a == k0 + 1
             b == Len(q.data)
  <2>1. a \in Nat \ {0} /\ b \in Nat /\ b <= b
    BY <1>1, <1>2
  <2>2. SubSeq(q.data, a, b) \in Seq(F)
        /\ Len(SubSeq(q.data, a, b)) = IF a <= b THEN b - a + 1 ELSE 0
    <3> HIDE DEF a
    <3> QED
      BY <1>1, <2>1, Part
  <2> QED
    BY <1>1, <1>2, <2>2
<1> HIDE DEF data
<1>5. pre \in Nat /\ pre <= Len(data) /\ over \in Nat
  BY <1>1, <1>2, <1>4
<1>6. Taken(q, Advance(q, k), k)
  <2> DEFINE r == Advance(q, k)
  <2>1. r.data = data /\ r.pre = pre /\ r.over = over
    BY <1>3
  <2> HIDE DEF r
  <2>2. Taken(q, r, k)
    BY <2>1 DEF Taken, k0, data
  <2> QED
    BY <2>2 DEF r
<1> HIDE DEF pre, over
<1> QED
  BY <1>1, <1>2, <1>3, <1>4, <1>5, <1>6

\* An acknowledgment takes Nat bytes out of the queue.
LEMMA BytesAckedIs ==
  ASSUME NEW n \in Ends, NEW c, Typed(n, c), NEW p \in Ends, NEW s \in Segments(p),
         bwh(c.SND_UNA, s.ack, c.SND_NXT)
  PROVE  BytesAcked(c, s) \in Nat /\ Diff(s.ack, c.SND_UNA) \in Nat \ {0}
<1>1. c.SND_UNA \in Numbers /\ s.ack \in Numbers
  BY DEF Typed, Connection, Segments
<1>2. Diff(c.SND_UNA, s.ack) >= Half
  BY <1>1, ltIs DEF bwh
<1>3. Diff(s.ack, c.SND_UNA) \in Nat /\ Diff(s.ack, c.SND_UNA) # 0
  <2> DEFINE x == s.ack
             y == c.SND_UNA
  <2>1. x \in Numbers /\ y \in Numbers /\ Diff(y, x) >= Half
    BY <1>1, <1>2
  <2> HIDE DEF x, y
  <2>2. /\ Diff(x, y) = IF y <= x THEN x - y ELSE x - y + NumMod
        /\ Diff(y, x) = IF x <= y THEN y - x ELSE y - x + NumMod
        /\ Diff(x, y) \in Numbers
    BY ONLY <2>1, DiffIs
  <2>3. Diff(x, y) \in Nat /\ Diff(x, y) # 0
    <3> DEFINE e == Diff(x, y)
               f == Diff(y, x)
    <3>1. /\ e = IF y <= x THEN x - y ELSE x - y + NumMod
          /\ f = IF x <= y THEN y - x ELSE y - x + NumMod
          /\ e \in Nat /\ f >= Half /\ x \in Nat /\ y \in Nat /\ x < NumMod /\ y < NumMod
      BY <2>1, <2>2, ConstantsAre DEF Numbers
    <3> HIDE DEF e, f
    <3>2. e # 0
      BY ONLY <3>1, ConstantsAre
    <3> QED
      BY <3>1, <3>2 DEF e
  <2> QED
    BY <2>3 DEF x, y
<1> QED
  BY <1>3 DEF BytesAcked

LEMMA NewAckTyped ==
  ASSUME NEW n \in Ends, NEW c, Typed(n, c), NEW p \in Ends, NEW s \in Segments(p),
         bwh(c.SND_UNA, s.ack, c.SND_NXT)
  PROVE  Typed(n, NewAck(c, s))
<1> DEFINE all == s.ack = c.SND_NXT
           fin == c.State \in {"FinWait1", "Closing"}
           h == IF all THEN c.hTimer \ {"Retransmission"} ELSE c.hTimer
           m == IF all THEN MAX_RETRANSMISSIONS ELSE c.nRetransmissionCount
           q == Advance(c.rtq, BytesAcked(c, s))
           d == [c EXCEPT !.SND_UNA = s.ack, !.hTimer = h, !.nRetransmissionCount = m,
                          !.Event = c.Event \/ all, !.bFINQueued = c.bFINQueued /\ ~fin,
                          !.rtq = q]
<1>1. NewAck(c, s) = d
  BY DEF NewAck, Typed, Connection
<1>2. h \in SUBSET Timers /\ m \in -1 .. MAX_RETRANSMISSIONS /\ s.ack \in Numbers
  BY ConstantsAre DEF Typed, Connection, Segments
<1>3. m = -1 => c.nRetransmissionCount = -1 /\ h = c.hTimer
  BY ConstantsAre
<1>4. c.rtq \in [data : Seq(Stream(n)), pre : Nat, over : Nat] /\ c.rtq.pre <= Len(c.rtq.data)
      /\ Len(c.rtq.data) <= Capacity
  BY DEF Typed, Connection
<1> DEFINE k == BytesAcked(c, s)
<1>5. k \in Nat
  BY BytesAckedIs
<1>6. q \in [data : Seq(Stream(n)), pre : Nat, over : Nat] /\ q.pre <= Len(q.data)
      /\ Len(q.data) <= Len(c.rtq.data)
  <2> HIDE DEF k
  <2>1. /\ Advance(c.rtq, k) \in [data : Seq(Stream(n)), pre : Nat, over : Nat]
        /\ Advance(c.rtq, k).pre <= Len(Advance(c.rtq, k).data)
        /\ Len(Advance(c.rtq, k).data) <= Len(c.rtq.data)
    <3> DEFINE S == Stream(n)
    <3> HIDE DEF S
    <3>1. c.rtq \in [data : Seq(S), pre : Nat, over : Nat]
      BY <1>4 DEF S
    <3>2. /\ Advance(c.rtq, k) \in [data : Seq(S), pre : Nat, over : Nat]
          /\ Advance(c.rtq, k).pre <= Len(Advance(c.rtq, k).data)
          /\ Len(Advance(c.rtq, k).data) <= Len(c.rtq.data)
      BY ONLY <1>4, <1>5, <3>1, AdvanceTyped
    <3> QED
      BY <3>2 DEF S
  <2> QED
    BY <2>1 DEF k
<1>7. (c.Event \/ all) \in BOOLEAN /\ (c.bFINQueued /\ ~fin) \in BOOLEAN
  OBVIOUS
<1> DEFINE ev == c.Event \/ all
           bf == c.bFINQueued /\ ~fin
<1>8. ev \in BOOLEAN /\ bf \in BOOLEAN
      /\ d = [c EXCEPT !.SND_UNA = s.ack, !.hTimer = h, !.nRetransmissionCount = m,
                       !.Event = ev, !.bFINQueued = bf, !.rtq = q]
  OBVIOUS
<1> HIDE DEF h, m, q, ev, bf, d
<1>9. /\ d \in Connection(n) /\ d.rtq = q /\ d.TxQueue = c.TxQueue /\ d.nRetransmissionCount = m
      /\ d.hTimer = h /\ d.bTimedOut = c.bTimedOut
  BY <1>2, <1>6, <1>8, ZenonT(60) DEF Typed, Connection
<1>10. Len(q.data) <= Capacity
  <2>1. Len(q.data) \in Nat /\ Len(c.rtq.data) \in Nat
    BY <1>4, <1>6
  <2> QED
    BY <1>4, <1>6, <2>1, ConstantsAre
<1>11. Typed(n, d)
  BY <1>3, <1>6, <1>9, <1>10 DEF Typed
<1> QED
  BY <1>1, <1>11

LEMMA FINAckedTyped ==
  ASSUME NEW n \in Ends, NEW c, Typed(n, c), NEW state \in States
  PROVE  Typed(n, FINAcked(c, state))
<1> DEFINE ev == c.Event \/ (state = "FinWait2" /\ IsEmpty(c.rtq))
           h == (c.hTimer \ {"Retransmission"}) \cup {"TimeWait"}
           d == [c EXCEPT !.bFINQueued = FALSE, !.State = state, !.hTimer = h, !.Event = ev]
<1>1. FINAcked(c, state) = d /\ ev \in BOOLEAN /\ h \in SUBSET Timers
  BY DEF FINAcked, Typed, Connection, Timers
<1>2. "Retransmission" \notin h
  OBVIOUS
<1> HIDE DEF ev, h
<1>3. Typed(n, d)
  BY <1>1, <1>2, ZenonT(60) DEF Typed, Connection
<1> QED
  BY <1>1, <1>3

LEMMA AckFieldTyped ==
  ASSUME NEW n \in Ends, NEW c, Typed(n, c), c.State \in Synchronized,
         NEW p \in Ends, NEW s \in Segments(p)
  PROVE  Typed(n, AckField(c, s))
<1> DEFINE d == IF bwh(c.SND_UNA, s.ack, c.SND_NXT) THEN NewAck(c, s) ELSE c
           all == s.ack = c.SND_NXT
<1>0. s.ack \in Numbers /\ 0 \in Numbers
  BY ConstantsAre DEF Segments, Numbers
<1>1. Typed(n, d)
  <2>1. CASE bwh(c.SND_UNA, s.ack, c.SND_NXT)
    <3>1. Typed(n, NewAck(c, s))
      BY <2>1, NewAckTyped
    <3> QED
      BY <2>1, <3>1
  <2>2. CASE ~bwh(c.SND_UNA, s.ack, c.SND_NXT)
    BY <2>2
  <2> QED
    BY <2>1, <2>2
<1>2. CASE c.State = "SynReceived"
  <2> DEFINE e == [c EXCEPT !.SND_UNA = s.ack, !.State = "Established",
                            !.nRetransmissionCount = MAX_RETRANSMISSIONS]
             f == SendSegment(c, {"RST"}, s.ack, 0, <<>>)
  <2>1. AckField(c, s) = IF le(c.SND_UNA, s.ack) /\ le(s.ack, c.SND_NXT) THEN e ELSE f
    BY <1>2 DEF AckField
  <2>2. Typed(n, e)
    <3>1. MAX_RETRANSMISSIONS \in -1 .. MAX_RETRANSMISSIONS /\ MAX_RETRANSMISSIONS # -1
          /\ "Established" \in States
      BY ConstantsAre DEF States
    <3>2. /\ e \in Connection(n) /\ e.rtq = c.rtq /\ e.TxQueue = c.TxQueue
          /\ e.nRetransmissionCount = MAX_RETRANSMISSIONS
      BY <1>0, <3>1 DEF Typed, Connection
    <3> HIDE DEF e
    <3> QED
      BY <3>1, <3>2 DEF Typed
  <2>3. Typed(n, f)
    <3>1. {"RST"} \in SUBSET Flags
      BY DEF Flags
    <3> QED
      BY <1>0, <3>1, SendSegmentTyped
  <2> HIDE DEF e, f
  <2> QED
    BY <2>1, <2>2, <2>3
<1>3. CASE c.State = "LastAck"
  <2> DEFINE e == [c EXCEPT !.bFINQueued = FALSE, !.State = "Closed", !.Event = TRUE]
  <2>1. AckField(c, s) = IF all THEN e ELSE c
    BY <1>3 DEF AckField
  <2>2. Typed(n, e)
    BY ZenonT(60) DEF Typed, Connection, States
  <2> HIDE DEF e, all
  <2> QED
    BY <2>1, <2>2
<1>4. CASE c.State = "TimeWait"
  <2> DEFINE e == [c EXCEPT !.bFINQueued = FALSE]
             f == StartTimer(SendAck(e), "TimeWait")
  <2>1. AckField(c, s) = IF all THEN f ELSE c
    BY <1>4 DEF AckField
  <2>2. Typed(n, e)
    BY ZenonT(60) DEF Typed, Connection
  <2> HIDE DEF e
  <2>3. Typed(n, SendAck(e))
    BY <2>2, SendAckTyped
  <2>4. Typed(n, f)
    BY <2>3, StartTimerTyped DEF Timers
  <2> HIDE DEF f, all
  <2> QED
    BY <2>1, <2>4
<1>5. CASE c.State \in {"Established", "CloseWait", "FinWait1", "FinWait2", "Closing"}
  <2> DEFINE future == lt(c.SND_NXT, s.ack) /\ ~le(s.ack, c.SND_UNA)
             ev == d.Event \/ IsEmpty(d.rtq)
             e == [d EXCEPT !.Event = ev]
  <2>1. AckField(c, s) =
          CASE future -> SendAck(c)
            [] all /\ c.State = "FinWait1" -> FINAcked(d, "FinWait2")
            [] all /\ c.State = "Closing" -> FINAcked(d, "TimeWait")
            [] OTHER -> IF c.State = "FinWait2" THEN e ELSE d
    BY <1>1, <1>5 DEF AckField, Typed, Connection
  <2>2. ev \in BOOLEAN
    OBVIOUS
  <2> HIDE DEF d, ev, future, all
  <2>3. Typed(n, e)
    BY <1>1, <2>2, ZenonT(60) DEF Typed, Connection
  <2>4. Typed(n, FINAcked(d, "FinWait2")) /\ Typed(n, FINAcked(d, "TimeWait"))
    BY <1>1, FINAckedTyped DEF States
  <2>5. Typed(n, SendAck(c))
    BY SendAckTyped
  <2> HIDE DEF e
  <2> QED
    BY <1>1, <2>1, <2>3, <2>4, <2>5
<1> QED
  BY <1>2, <1>3, <1>4, <1>5 DEF Synchronized, States

LEMMA TextTyped ==
  ASSUME NEW n \in Ends, NEW c, Typed(n, c), NEW s \in Segments(Peer(n))
  PROVE  Typed(n, Text(c, s))
<1> DEFINE ev == c.Event \/ "PSH" \in s.flags
           q == Append(c.RxQueue, s.data)
           x == Plus(c.RCV_NXT, Len(s.data))
           d == [c EXCEPT !.RxQueue = q, !.RCV_NXT = x, !.Event = ev]
<1>1. CASE c.State \in Receiving /\ ~InOrder(c, s)
  <2>1. Text(c, s) = SendAck(c)
    BY <1>1 DEF Text, Receiving
  <2> QED
    BY <2>1, SendAckTyped
<1>2. CASE c.State \in Receiving /\ InOrder(c, s) /\ s.data # <<>>
  <2>1. Text(c, s) = SendAck(d)
    <3>1. Text(c, s) = SendAck([c EXCEPT !.RxQueue = Append(@, s.data),
                             !.RCV_NXT = Plus(@, Len(s.data)), !.Event = @ \/ "PSH" \in s.flags])
      BY <1>2 DEF Text, Receiving
    <3>2. [c EXCEPT !.RxQueue = Append(@, s.data),
                    !.RCV_NXT = Plus(@, Len(s.data)), !.Event = @ \/ "PSH" \in s.flags] = d
      BY DEF Typed, Connection
    <3> HIDE DEF d
    <3> QED
      BY <3>1, <3>2
  <2>2. ev \in BOOLEAN
    OBVIOUS
  <2>3. x \in Numbers
    <3>1. c.RCV_NXT \in Numbers /\ Len(s.data) \in Int
      BY DEF Typed, Connection, Segments
    <3> QED
      BY <3>1, PlusType
  <2>4. q \in Seq(Seq(Stream(Peer(n))))
    BY DEF Typed, Connection, Segments
  <2> HIDE DEF ev, x, q
  <2>5. Typed(n, d)
    BY <2>2, <2>3, <2>4, ZenonT(60) DEF Typed, Connection
  <2> HIDE DEF d
  <2> QED
    BY <2>1, <2>5, SendAckTyped
<1>3. CASE c.State = "SynReceived"
  <2>1. Text(c, s) = Panic(c)
    BY <1>3 DEF Text, Receiving
  <2>2. Typed(n, Panic(c))
    BY DEF Typed, Connection, Panic
  <2> QED
    BY <2>1, <2>2
<1>4. CASE /\ ~(c.State \in Receiving /\ ~InOrder(c, s))
           /\ ~(c.State \in Receiving /\ InOrder(c, s) /\ s.data # <<>>)
           /\ c.State # "SynReceived"
  <2>1. Text(c, s) = c
    BY <1>4 DEF Text
  <2> QED
    BY <2>1
<1> QED
  BY <1>1, <1>2, <1>3, <1>4

LEMMA FinTyped ==
  ASSUME NEW n \in Ends, NEW c, Typed(n, c), NEW p \in Ends, NEW s \in Segments(p)
  PROVE  Typed(n, Fin(c, s))
<1> DEFINE b == [c EXCEPT !.RCV_NXT = Plus(@, 1)]
           d == SendAck(b)
           h == (d.hTimer \ {"Retransmission"}) \cup {"TimeWait"}
           w == [d EXCEPT !.State = "TimeWait", !.hTimer = h]
           all == s.ack = c.SND_NXT
<1>1. Fin(c, s) =
        CASE c.State = "Established" -> [d EXCEPT !.State = "CloseWait", !.Event = TRUE]
          [] c.State = "FinWait1" -> IF all THEN [w EXCEPT !.bFINQueued = FALSE]
                                     ELSE [d EXCEPT !.State = "Closing"]
          [] c.State = "FinWait2" -> w
          [] c.State = "TimeWait" -> StartTimer(d, "TimeWait")
          [] OTHER -> d
  <2>1. w = [d EXCEPT !.State = "TimeWait", !.hTimer = (@ \ {"Retransmission"}) \cup {"TimeWait"}]
    <3> HIDE DEF d
    <3> QED
      OBVIOUS
  <2> QED
    BY <2>1 DEF Fin
<1>2. Typed(n, b)
  <2>1. c.RCV_NXT \in Numbers
    BY DEF Typed, Connection
  <2>2. Plus(c.RCV_NXT, 1) \in Numbers
    BY <2>1, PlusType
  <2> QED
    BY <2>2 DEF Typed, Connection
<1> HIDE DEF b
<1>3. Typed(n, d)
  BY <1>2, SendAckTyped
<1> HIDE DEF d
<1>4. h \in SUBSET Timers /\ "Retransmission" \notin h
  BY <1>3 DEF Typed, Connection, Timers
<1> HIDE DEF h
<1>5. Typed(n, w)
  BY <1>3, <1>4, ZenonT(60) DEF Typed, Connection, States
<1> HIDE DEF w
<1>6. Typed(n, [w EXCEPT !.bFINQueued = FALSE])
  BY <1>5, ZenonT(60) DEF Typed, Connection
<1>7. /\ Typed(n, [d EXCEPT !.State = "CloseWait", !.Event = TRUE])
      /\ Typed(n, [d EXCEPT !.State = "Closing"])
  BY <1>3, ZenonT(60) DEF Typed, Connection, States
<1>8. Typed(n, StartTimer(d, "TimeWait"))
  BY <1>3, StartTimerTyped DEF Timers
<1> HIDE DEF all
<1> QED
  BY <1>1, <1>3, <1>5, <1>6, <1>7, <1>8

LEMMA ArrivesTyped ==
  ASSUME NEW n \in Ends, NEW c, Typed(n, c), c.State \in Synchronized,
         NEW s \in Segments(Peer(n))
  PROVE  Typed(n, Arrives(c, s))
<1> DEFINE a == AckField(c, s)
           t == Text(a, s)
<1>0. Peer(n) \in Ends
  BY EndsAre
<1>1. Typed(n, a)
  BY <1>0, AckFieldTyped
<1>3. Arrives(c, s) \in {a, t, Fin(t, s)}
  BY DEF Arrives
<1> HIDE DEF a
<1>2. Typed(n, t)
  BY <1>1, TextTyped
<1> HIDE DEF t
<1>4. Typed(n, Fin(t, s))
  BY <1>0, <1>2, FinTyped
<1> QED
  BY <1>1, <1>2, <1>3, <1>4

-----------------------------------------------------------------------------
(* The type invariant                                                      *)

CallNames == {"Accept", "Send", "Receive", "Close"}

\* What the user of n has still to write is part of its stream.
Room(n, w, t) ==
  /\ w \in Nat /\ t \in Seq(CallNames)
  /\ \E p \in Programs : w + Message[n] * Len(t) <= Message[n] * Len(p[n])

TcbTyped ==
  /\ tcb \in [Ends -> Connection(Active) \cup Connection(Passive)]
  /\ \A n \in Ends : Typed(n, tcb[n]) /\ tcb[n].out = {}
NetTyped ==
  /\ net \in [Ends -> SUBSET (Segments(Active) \cup Segments(Passive))]
  /\ \A n \in Ends : net[n] \in SUBSET Segments(n)
UserTyped ==
  /\ pc \in [Ends -> {"idle", "Connect", "Accept", "Send", "Receive"}]
  /\ DOMAIN todo = Ends /\ DOMAIN wrote = Ends /\ DOMAIN got = Ends
  /\ \A n \in Ends : Room(n, wrote[n], todo[n]) /\ got[n] \in Seq(Stream(Peer(n)))
RestTyped == faults \in 0 .. MaxFaults /\ deleted \subseteq Ends /\ polling \subseteq Ends

TypeInv == TcbTyped /\ NetTyped /\ UserTyped /\ RestTyped

LEMMA MessageIs ==
  ASSUME NEW n \in Ends
  PROVE  Message[n] \in Nat /\ Message[n] > 0
BY TcpAssumption

LEMMA ProgramIs ==
  ASSUME NEW p \in Programs, NEW n \in Ends
  PROVE  p[n] \in Seq(CallNames) /\ DOMAIN p = Ends /\ Len(p[n]) \in Nat
BY TcpAssumption DEF CallNames

\* What has been written belongs to the stream, and so does one more message as
\* long as there is a call to make.
LEMMA RoomIs ==
  ASSUME NEW n \in Ends, NEW w, NEW t, Room(n, w, t)
  PROVE  /\ \A i \in 1 .. w : i \in Stream(n)
         /\ t # <<>> => /\ Room(n, w, Tail(t)) /\ Room(n, w + Message[n], Tail(t))
                        /\ \A i \in 1 .. w + Message[n] : i \in Stream(n)
<1>1. PICK p \in Programs : w + Message[n] * Len(t) <= Message[n] * Len(p[n])
  BY DEF Room
<1>2. w \in Nat /\ t \in Seq(CallNames) /\ Len(t) \in Nat /\ Len(p[n]) \in Nat
  BY ProgramIs DEF Room
<1> DEFINE m == Message[n]
           l == Len(t)
           all == m * Len(p[n])
           left == m * l
<1>3. m \in Nat /\ m > 0
  BY MessageIs
<1>4. all \in Nat /\ left \in Nat /\ w + left <= all
  <2> HIDE DEF m
  <2> QED
    BY <1>1, <1>2, <1>3, Multiples DEF m
<1>5. ASSUME NEW i \in 1 .. all PROVE i \in Stream(n)
  BY <1>5 DEF Stream
<1>6. \A i \in 1 .. w : i \in Stream(n)
  <2> HIDE DEF all, left
  <2> QED
    BY <1>2, <1>4, <1>5
<1>7. ASSUME t # <<>>
      PROVE  /\ Room(n, w, Tail(t)) /\ Room(n, w + m, Tail(t))
             /\ \A i \in 1 .. w + m : i \in Stream(n)
  <2> DEFINE rest == m * Len(Tail(t))
  <2>1. Tail(t) \in Seq(CallNames) /\ Len(Tail(t)) \in Nat /\ l = Len(Tail(t)) + 1
    BY <1>2, <1>7
  <2>2. left = rest + m /\ rest \in Nat
    <3> DEFINE k == Len(Tail(t))
    <3>1. k \in Nat /\ l = k + 1
      BY <2>1
    <3> HIDE DEF k, m, l
    <3>2. m * (k + 1) = m * k + m /\ m * k \in Nat
      BY <1>3, <3>1
    <3> QED
      BY <3>1, <3>2 DEF k
  <2> HIDE DEF left, rest, all, l
  <2>3. w + m + rest <= all /\ w + rest <= all /\ w + m \in Nat
    BY <1>2, <1>3, <1>4, <2>2
  <2>4. Room(n, w, Tail(t)) /\ Room(n, w + m, Tail(t))
    BY <1>2, <2>1, <2>3 DEF Room, all, rest
  <2>5. w + m <= all
    BY <1>2, <1>3, <1>4, <2>2
  <2>6. \A i \in 1 .. w + m : i \in Stream(n)
    <3> HIDE DEF m
    <3> QED
      BY <1>2, <1>3, <1>4, <1>5, <2>5
  <2> QED
    BY <2>4, <2>6
<1> QED
  BY <1>6, <1>7

-----------------------------------------------------------------------------
(* What a step does to the variables                                       *)

LEMMA TcbStep ==
  ASSUME TcbTyped, NEW n \in Ends, NEW c, Typed(n, c), c.out = {},
         tcb' = [tcb EXCEPT ![n] = c]
  PROVE  TcbTyped'
<1>1. c \in Connection(Active) \cup Connection(Passive)
  BY EndsAre DEF Typed
<1> DEFINE C == Connection(Active) \cup Connection(Passive)
<1>2. tcb \in [Ends -> C] /\ c \in C
  BY <1>1 DEF TcbTyped
<1> HIDE DEF C
<1>3. tcb' \in [Ends -> C] /\ tcb'[n] = c /\ \A m \in Ends : m # n => tcb'[m] = tcb[m]
  BY <1>2
<1>4. \A m \in Ends : Typed(m, tcb'[m]) /\ tcb'[m].out = {}
  BY <1>3 DEF TcbTyped
<1> QED
  BY <1>3, <1>4 DEF TcbTyped, C, Typed

LEMMA MembersTyped ==
  ASSUME TcbTyped, NEW n \in Ends, NEW c, Typed(n, c), Members(n, c)
  PROVE  TcbTyped'
<1> DEFINE d == [c EXCEPT !.out = {}]
<1>1. Typed(n, d) /\ d.out = {}
  BY DEF Typed, Connection
<1>2. tcb' = [tcb EXCEPT ![n] = d]
  BY DEF Members
<1> HIDE DEF d
<1> QED
  BY <1>1, <1>2, TcbStep

LEMMA NetStep ==
  ASSUME NetTyped, NEW n \in Ends, NEW X, X \subseteq Segments(n), NEW Y,
         \/ net' = [net EXCEPT ![n] = @ \cup X]
         \/ net' = [net EXCEPT ![n] = @ \cup X, ![Peer(n)] = @ \ Y]
         \/ net' = [net EXCEPT ![n] = @ \ Y]
  PROVE  NetTyped'
<1> DEFINE S == Segments(Active) \cup Segments(Passive)
<1>1. net \in [Ends -> SUBSET S] /\ net[n] \cup X \in SUBSET S /\ net[n] \ Y \in SUBSET S
      /\ net[Peer(n)] \ Y \in SUBSET S /\ Peer(n) \in Ends /\ Peer(n) # n
  BY EndsAre DEF NetTyped
<1> HIDE DEF S
<1>2. /\ net' \in [Ends -> SUBSET S]
      /\ \A m \in Ends : net'[m] \subseteq net[m] \cup (IF m = n THEN X ELSE {})
  <2>1. CASE net' = [net EXCEPT ![n] = @ \cup X]
    BY <1>1, <2>1
  <2>2. CASE net' = [net EXCEPT ![n] = @ \cup X, ![Peer(n)] = @ \ Y]
    <3> DEFINE e == [net EXCEPT ![n] = @ \cup X]
    <3>1. e \in [Ends -> SUBSET S] /\ e[Peer(n)] = net[Peer(n)] /\ e[n] = net[n] \cup X
          /\ \A m \in Ends : m # n => e[m] = net[m]
      BY <1>1
    <3>2. net' = [e EXCEPT ![Peer(n)] = net[Peer(n)] \ Y]
      BY <1>1, <2>2
    <3> HIDE DEF e
    <3> QED
      BY <1>1, <3>1, <3>2
  <2>3. CASE net' = [net EXCEPT ![n] = @ \ Y]
    BY <1>1, <2>3
  <2> QED
    BY <2>1, <2>2, <2>3
<1>3. \A m \in Ends : net'[m] \in SUBSET Segments(m)
  BY <1>2 DEF NetTyped
<1> QED
  BY <1>2, <1>3 DEF NetTyped, S

LEMMA ReceivesTyped ==
  ASSUME TypeInv, NEW n \in Ends, NEW s, NEW c, Typed(n, c), Receives(n, s, c)
  PROVE  TypeInv'
<1>1. TcbTyped'
  BY MembersTyped DEF Receives, TypeInv
<1>2. NetTyped'
  <2>1. c.out \subseteq Segments(n)
    BY DEF Typed, Connection
  <2>2. \/ net' = [net EXCEPT ![n] = @ \cup c.out]
        \/ net' = [net EXCEPT ![n] = @ \cup c.out, ![Peer(n)] = @ \ {s}]
    BY DEF Receives
  <2> QED
    BY <2>1, <2>2, NetStep DEF TypeInv
<1>3. UserTyped'
  BY DEF TypeInv, UserTyped, Receives, user, Room
<1>4. RestTyped'
  BY ConstantsAre DEF TypeInv, RestTyped, Receives, Fault
<1> QED
  BY <1>1, <1>2, <1>3, <1>4 DEF TypeInv

LEMMA RefuseTyped ==
  ASSUME TypeInv, NEW n \in Ends, NEW s \in net[Peer(n)], Refuse(n, s)
  PROVE  TypeInv'
<1> DEFINE c == tcb[n]
           d == IF "ACK" \in s.flags THEN SendSegment(c, {"RST"}, s.ack, 0, <<>>)
                ELSE SendSegment(c, {"RST", "ACK"}, 0, Plus(s.seq, SegLen(s)), <<>>)
<1>1. Receives(n, s, d)
  BY DEF Refuse
<1>2. Typed(n, c) /\ s \in Segments(Peer(n)) /\ Peer(n) \in Ends
  BY EndsAre DEF TypeInv, TcbTyped, NetTyped
<1>3. s.ack \in Numbers /\ s.seq \in Numbers /\ SegLen(s) \in Int /\ 0 \in Numbers
  BY <1>2, SegmentIs, ConstantsAre DEF Numbers
<1>4. Plus(s.seq, SegLen(s)) \in Numbers
  BY <1>3, PlusType
<1>5. {"RST"} \in SUBSET Flags /\ {"RST", "ACK"} \in SUBSET Flags
  BY DEF Flags
<1> HIDE DEF c
<1>6. Typed(n, SendSegment(c, {"RST"}, s.ack, 0, <<>>))
  BY <1>2, <1>3, <1>5, SendSegmentTyped
<1>7. Typed(n, SendSegment(c, {"RST", "ACK"}, 0, Plus(s.seq, SegLen(s)), <<>>))
  BY <1>2, <1>3, <1>4, <1>5, SendSegmentTyped
<1>8. Typed(n, d)
  BY <1>6, <1>7
<1> HIDE DEF d
<1> QED
  BY <1>1, <1>8, ReceivesTyped

LEMMA ListenSYNTyped ==
  ASSUME TypeInv, NEW n \in Ends, NEW s \in net[Peer(n)], ListenSYN(n, s)
  PROVE  TypeInv'
<1> DEFINE c == tcb[n]
<1>1. PICK isn \in ISNs[n] :
        Receives(n, s, SendSegment([c EXCEPT !.RCV_NXT = Plus(s.seq, 1), !.ISS = isn,
                                        !.SND_UNA = isn, !.SND_NXT = Plus(isn, 1),
                                        !.State = "SynReceived", !.Event = TRUE],
                              {"SYN", "ACK"}, isn, Plus(s.seq, 1), <<>>))
  BY DEF ListenSYN
<1> DEFINE x == Plus(s.seq, 1)
           y == Plus(isn, 1)
           d == [c EXCEPT !.RCV_NXT = x, !.ISS = isn, !.SND_UNA = isn, !.SND_NXT = y,
                          !.State = "SynReceived", !.Event = TRUE]
           e == SendSegment(d, {"SYN", "ACK"}, isn, x, <<>>)
<1>2. Receives(n, s, e)
  BY <1>1
<1>3. Typed(n, c) /\ s \in Segments(Peer(n)) /\ Peer(n) \in Ends
  BY EndsAre DEF TypeInv, TcbTyped, NetTyped
<1>4. s.seq \in Numbers /\ isn \in Numbers
  BY <1>3, SegmentIs, TcpAssumption DEF Numbers
<1>5. x \in Numbers /\ y \in Numbers
  BY <1>4, PlusType
<1> HIDE DEF x, y, c
<1>6. Typed(n, d)
  BY <1>3, <1>4, <1>5, ZenonT(60) DEF Typed, Connection, States
<1> HIDE DEF d
<1>7. Typed(n, e)
  <2>1. {"SYN", "ACK"} \in SUBSET Flags
    BY DEF Flags
  <2> QED
    BY <1>4, <1>5, <1>6, <2>1, SendSegmentTyped
<1> HIDE DEF e
<1> QED
  BY <1>2, <1>7, ReceivesTyped

LEMMA SynSentTyped ==
  ASSUME TypeInv, NEW n \in Ends, NEW s \in net[Peer(n)], SynSentSegment(n, s)
  PROVE  TypeInv'
<1> DEFINE c == tcb[n]
           x == Plus(s.seq, 1)
           h == c.hTimer \ {"Retransmission"}
           e1 == SendSegment(c, {"RST"}, s.ack, 0, <<>>)
           d2 == [c EXCEPT !.bSendSYN = FALSE]
           d3 == [c EXCEPT !.RCV_NXT = x, !.SND_UNA = s.ack,
                           !.State = "Established", !.bSendSYN = FALSE,
                           !.hTimer = h, !.Event = TRUE,
                           !.nRetransmissionCount = MAX_RETRANSMISSIONS]
           d4 == [c EXCEPT !.RCV_NXT = x, !.State = "SynReceived", !.bSendSYN = FALSE,
                           !.nRetransmissionCount = MAX_RETRANSMISSIONS]
           e4 == SendSegment(d4, {"SYN", "ACK"}, c.ISS, x, <<>>)
<1>1. Typed(n, c) /\ s \in Segments(Peer(n)) /\ Peer(n) \in Ends
  BY EndsAre DEF TypeInv, TcbTyped, NetTyped
<1>2. PICK d : Receives(n, s, d) /\ d \in {e1, Fail(d2), SendAck(d3), StartTimer(e4, "Retransmission"), c}
  <2>1. d3 = [c EXCEPT !.RCV_NXT = Plus(s.seq, 1), !.SND_UNA = s.ack,
                                !.State = "Established", !.bSendSYN = FALSE,
                                !.hTimer = @ \ {"Retransmission"}, !.Event = TRUE,
                                !.nRetransmissionCount = MAX_RETRANSMISSIONS]
    BY <1>1 DEF Typed, Connection
  <2> HIDE DEF d3
  <2> QED
    BY <2>1 DEF SynSentSegment
<1>3. s.seq \in Numbers /\ s.ack \in Numbers /\ 0 \in Numbers
  BY <1>1, SegmentIs, ConstantsAre DEF Numbers
<1>4. x \in Numbers
  BY <1>3, PlusType
<1>5. h \in SUBSET Timers /\ c.ISS \in Numbers
  BY <1>1 DEF Typed, Connection
<1>6. MAX_RETRANSMISSIONS \in -1 .. MAX_RETRANSMISSIONS /\ MAX_RETRANSMISSIONS # -1
      /\ "Established" \in States /\ "SynReceived" \in States
  BY ConstantsAre DEF States
<1>7. {"RST"} \in SUBSET Flags /\ {"SYN", "ACK"} \in SUBSET Flags
  BY DEF Flags
<1> HIDE DEF c, x, h
<1>8. Typed(n, e1)
  BY <1>1, <1>3, <1>7, SendSegmentTyped
<1>9. Typed(n, d2)
  BY <1>1, ZenonT(60) DEF Typed, Connection
<1>10. Typed(n, d3)
  <2>1. /\ d3 \in Connection(n) /\ d3.rtq = c.rtq /\ d3.TxQueue = c.TxQueue
        /\ d3.nRetransmissionCount = MAX_RETRANSMISSIONS
    BY <1>1, <1>3, <1>4, <1>5, <1>6, ZenonT(60) DEF Typed, Connection
  <2> HIDE DEF d3
  <2> QED
    BY <1>1, <1>6, <2>1 DEF Typed
<1>11. Typed(n, d4) /\ d4.nRetransmissionCount = MAX_RETRANSMISSIONS
  <2>1. /\ d4 \in Connection(n) /\ d4.rtq = c.rtq /\ d4.TxQueue = c.TxQueue
        /\ d4.nRetransmissionCount = MAX_RETRANSMISSIONS
    BY <1>1, <1>3, <1>4, <1>5, <1>6, ZenonT(60) DEF Typed, Connection
  <2> HIDE DEF d4
  <2> QED
    BY <1>1, <1>6, <2>1 DEF Typed
<1> HIDE DEF d2, d3, d4
<1>12. Typed(n, Fail(d2)) /\ Typed(n, SendAck(d3))
  BY <1>9, <1>10, FailTyped, SendAckTyped
<1>13. Typed(n, e4) /\ e4.nRetransmissionCount = MAX_RETRANSMISSIONS
  <2>1. Typed(n, e4)
    BY <1>4, <1>5, <1>7, <1>11, SendSegmentTyped
  <2>2. e4.nRetransmissionCount = d4.nRetransmissionCount
    BY <1>11 DEF Typed, Connection, SendSegment
  <2> QED
    BY <1>11, <2>1, <2>2
<1> HIDE DEF e4, e1
<1>14. Typed(n, StartTimer(e4, "Retransmission"))
  BY <1>6, <1>13, StartTimerTyped DEF Timers
<1>15. Typed(n, d)
  BY <1>1, <1>2, <1>8, <1>12, <1>14
<1> QED
  BY <1>2, <1>15, ReceivesTyped

LEMMA SynchronizedTyped ==
  ASSUME TypeInv, NEW n \in Ends, NEW s \in net[Peer(n)], SynchronizedSegment(n, s)
  PROVE  TypeInv'
<1> DEFINE c == tcb[n]
<1>1. Typed(n, c) /\ s \in Segments(Peer(n)) /\ Peer(n) \in Ends /\ c.State \in Synchronized
  BY EndsAre DEF TypeInv, TcbTyped, NetTyped, SynchronizedSegment
<1>2. PICK d : Receives(n, s, d) /\ d \in {SendAck(c), Reset(c), SynAgain(c), Arrives(c, s), c}
  BY DEF SynchronizedSegment
<1> HIDE DEF c
<1>3. /\ Typed(n, SendAck(c)) /\ Typed(n, Reset(c)) /\ Typed(n, SynAgain(c))
      /\ Typed(n, Arrives(c, s))
  BY <1>1, SendAckTyped, ResetTyped, SynAgainTyped, ArrivesTyped
<1>4. Typed(n, d)
  BY <1>1, <1>2, <1>3
<1> QED
  BY <1>2, <1>4, ReceivesTyped

LEMMA LoseTyped ==
  ASSUME TypeInv, NEW n \in Ends, Lose(n)
  PROVE  TypeInv'
<1>1. PICK s \in net[n] : net' = [net EXCEPT ![n] = @ \ {s}]
  BY DEF Lose
<1>2. NetTyped'
  BY <1>1, NetStep, {} \subseteq Segments(n) DEF TypeInv
<1>3. TcbTyped' /\ UserTyped'
  BY DEF TypeInv, Lose, TcbTyped, Typed, UserTyped, user, Room
<1>4. RestTyped'
  BY ConstantsAre DEF TypeInv, RestTyped, Lose, Fault
<1> QED
  BY <1>2, <1>3, <1>4 DEF TypeInv

LEMMA NotificationTyped ==
  ASSUME TypeInv, NEW n \in Ends, NotificationReceived(n)
  PROVE  TypeInv'
<1> DEFINE c == [tcb[n] EXCEPT !.nErrno = -1, !.Event = TRUE]
<1>1. Typed(n, tcb[n]) /\ tcb[n].out = {} /\ n \in DOMAIN tcb
  BY DEF TypeInv, TcbTyped
<1>2. tcb' = [tcb EXCEPT ![n] = c]
  BY <1>1 DEF NotificationReceived
<1>3. Typed(n, c) /\ c.out = {}
  BY <1>1 DEF Typed, Connection
<1> HIDE DEF c
<1>4. TcbTyped'
  BY <1>2, <1>3, TcbStep DEF TypeInv
<1>5. NetTyped' /\ UserTyped' /\ RestTyped'
  BY DEF TypeInv, NotificationReceived, NetTyped, UserTyped, user, Room, RestTyped
<1> QED
  BY <1>4, <1>5 DEF TypeInv

LEMMA EndPassTyped ==
  ASSUME TypeInv, NEW n \in Ends, EndPass(n)
  PROVE  TypeInv'
<1>1. UserTyped' /\ RestTyped'
  BY DEF TypeInv, EndPass, UserTyped, user, Room, RestTyped
<1>2. Typed(n, tcb[n]) /\ tcb[n].out = {} /\ n \in DOMAIN tcb
  BY DEF TypeInv, TcbTyped
<1>3. CASE UNCHANGED <<tcb, net>>
  BY <1>1, <1>3 DEF TypeInv, TcbTyped, Typed, NetTyped
<1>4. CASE tcb' = [tcb EXCEPT ![n].hTimer = {}] /\ UNCHANGED net
  <2> DEFINE c == [tcb[n] EXCEPT !.hTimer = {}]
  <2>1. tcb' = [tcb EXCEPT ![n] = c]
    BY <1>2, <1>4
  <2>2. Typed(n, c) /\ c.out = {}
    BY <1>2 DEF Typed, Connection
  <2> HIDE DEF c
  <2>3. TcbTyped'
    BY <2>1, <2>2, TcbStep DEF TypeInv
  <2> QED
    BY <1>1, <1>4, <2>3 DEF TypeInv, NetTyped
<1>5. CASE /\ Members(n, Process(tcb[n]))
           /\ net' = [net EXCEPT ![n] = @ \cup Process(tcb[n]).out]
  <2> DEFINE d == Process(tcb[n])
  <2>1. Typed(n, d)
    BY <1>2, ProcessTyped
  <2>2. Members(n, d) /\ net' = [net EXCEPT ![n] = @ \cup d.out]
    BY <1>5
  <2> HIDE DEF d
  <2>3. TcbTyped'
    BY <2>1, <2>2, MembersTyped DEF TypeInv
  <2>4. d.out \subseteq Segments(n)
    BY <2>1 DEF Typed, Connection
  <2>5. NetTyped'
    BY <2>2, <2>4, NetStep DEF TypeInv
  <2> QED
    BY <1>1, <2>3, <2>5 DEF TypeInv
<1> QED
  BY <1>3, <1>4, <1>5 DEF EndPass

LEMMA RetransmissionTyped ==
  ASSUME TypeInv, NEW n \in Ends, RetransmissionTimer(n)
  PROVE  TypeInv'
<1> DEFINE b == tcb[n]
           c == [b EXCEPT !.hTimer = @ \ {"Retransmission"}, !.nRetransmissionCount = @ - 1]
<1>1. Typed(n, b) /\ b.out = {} /\ n \in DOMAIN tcb
  BY DEF TypeInv, TcbTyped
<1>2. "Retransmission" \in b.hTimer
  BY DEF RetransmissionTimer, Elapses
<1>3. PICK d : /\ tcb' = [tcb EXCEPT ![n] = d]
               /\ \/ b.nRetransmissionCount = 0 /\ d = [c EXCEPT !.bTimedOut = TRUE]
                  \/ /\ b.nRetransmissionCount # 0
                     /\ d \in {Panic(c), [c EXCEPT !.bSendSYN = TRUE], [c EXCEPT !.bRetransmit = TRUE],
                               [c EXCEPT !.bFINQueued = TRUE]}
  BY DEF RetransmissionTimer
<1>4. b.nRetransmissionCount \in 0 .. MAX_RETRANSMISSIONS
  BY <1>1, <1>2, ConstantsAre DEF Typed, Connection
<1> HIDE DEF b
<1>5. /\ c \in Connection(n) /\ c.out = {} /\ c.rtq = b.rtq /\ c.TxQueue = b.TxQueue
      /\ c.nRetransmissionCount = b.nRetransmissionCount - 1 /\ "Retransmission" \notin c.hTimer
  <2> DEFINE h == b.hTimer \ {"Retransmission"}
             m == b.nRetransmissionCount - 1
  <2>1. h \in SUBSET Timers /\ m \in -1 .. MAX_RETRANSMISSIONS /\ "Retransmission" \notin h
    BY <1>1, <1>4, ConstantsAre DEF Typed, Connection
  <2>2. c = [b EXCEPT !.hTimer = h, !.nRetransmissionCount = m]
    BY <1>1 DEF Typed, Connection
  <2> HIDE DEF h, m, c
  <2>3. /\ c \in Connection(n) /\ c.out = {} /\ c.rtq = b.rtq /\ c.TxQueue = b.TxQueue
        /\ c.nRetransmissionCount = m /\ c.hTimer = h
    BY <1>1, <2>1, <2>2 DEF Typed, Connection
  <2> QED
    BY <2>1, <2>3 DEF m
<1> HIDE DEF c
<1>6. Typed(n, d) /\ d.out = {}
  <2>1. CASE b.nRetransmissionCount = 0 /\ d = [c EXCEPT !.bTimedOut = TRUE]
    <3>1. /\ d \in Connection(n) /\ d.rtq = c.rtq /\ d.TxQueue = c.TxQueue /\ d.bTimedOut
          /\ d.nRetransmissionCount = c.nRetransmissionCount /\ d.hTimer = c.hTimer /\ d.out = c.out
      BY <1>5, <2>1, ZenonT(60) DEF Connection
    <3> QED
      BY <1>1, <1>5, <3>1 DEF Typed
  <2>2. CASE b.nRetransmissionCount # 0
    <3>1. c.nRetransmissionCount # -1
      BY <1>4, <1>5, <2>2, ConstantsAre
    <3>2. d \in {Panic(c), [c EXCEPT !.bSendSYN = TRUE], [c EXCEPT !.bRetransmit = TRUE],
                 [c EXCEPT !.bFINQueued = TRUE]}
      BY <1>3, <2>2
    <3>3. /\ d \in Connection(n) /\ d.rtq = c.rtq /\ d.TxQueue = c.TxQueue
          /\ d.nRetransmissionCount = c.nRetransmissionCount /\ d.out = c.out
      <4>1. CASE d = Panic(c)
        BY <1>5, <4>1 DEF Connection, Panic
      <4>2. CASE d = [c EXCEPT !.bSendSYN = TRUE]
        BY <1>5, <4>2 DEF Connection, Panic
      <4>3. CASE d = [c EXCEPT !.bRetransmit = TRUE]
        BY <1>5, <4>3 DEF Connection, Panic
      <4>4. CASE d = [c EXCEPT !.bFINQueued = TRUE]
        BY <1>5, <4>4 DEF Connection, Panic
      <4> QED
        BY <3>2, <4>1, <4>2, <4>3, <4>4
    <3> QED
      BY <1>1, <1>5, <3>1, <3>3 DEF Typed
  <2> QED
    BY <1>3, <2>1, <2>2
<1>7. TcbTyped'
  BY <1>3, <1>6, TcbStep DEF TypeInv
<1>8. NetTyped' /\ UserTyped'
  BY DEF TypeInv, RetransmissionTimer, NetTyped, UserTyped, user, Room
<1>9. RestTyped'
  BY ConstantsAre DEF TypeInv, RetransmissionTimer, Elapses, Fault, RestTyped
<1> QED
  BY <1>7, <1>8, <1>9 DEF TypeInv

LEMMA TimeWaitTyped ==
  ASSUME TypeInv, NEW n \in Ends, TimeWaitTimer(n)
  PROVE  TypeInv'
<1> DEFINE h == tcb[n].hTimer \ {"TimeWait"}
           c == [tcb[n] EXCEPT !.hTimer = h, !.State = "Closed"]
<1>1. Typed(n, tcb[n]) /\ tcb[n].out = {} /\ n \in DOMAIN tcb
  BY DEF TypeInv, TcbTyped
<1>2. tcb' = [tcb EXCEPT ![n] = c]
  BY <1>1 DEF TimeWaitTimer
<1>3. Typed(n, c) /\ c.out = {}
  <2>1. h \in SUBSET Timers /\ ("Retransmission" \in h => "Retransmission" \in tcb[n].hTimer)
    BY <1>1 DEF Typed, Connection
  <2> HIDE DEF h
  <2> QED
    BY <1>1, <2>1, ZenonT(60) DEF Typed, Connection, States
<1> HIDE DEF c
<1>4. TcbTyped'
  BY <1>2, <1>3, TcbStep DEF TypeInv
<1>5. NetTyped' /\ UserTyped'
  BY DEF TypeInv, TimeWaitTimer, NetTyped, UserTyped, user, Room
<1>6. RestTyped'
  BY ConstantsAre DEF TypeInv, TimeWaitTimer, Elapses, Fault, RestTyped
<1> QED
  BY <1>4, <1>5, <1>6 DEF TypeInv

-----------------------------------------------------------------------------
(* The steps of the users                                                  *)

LEMMA CallsTyped ==
  ASSUME TypeInv, NEW n \in Ends, NEW op, Calls(n, op)
  PROVE  /\ NetTyped' /\ RestTyped' /\ DOMAIN todo' = Ends
         /\ todo'[n] = Tail(todo[n]) /\ todo[n] # <<>>
         /\ \A m \in Ends : /\ m # n => todo'[m] = todo[m]
                            /\ Room(m, wrote[m], todo'[m])
<1>1. NetTyped' /\ RestTyped'
  BY DEF TypeInv, Calls, NetTyped, RestTyped
<1>2. /\ todo' = [todo EXCEPT ![n] = Tail(@)] /\ todo[n] # <<>> /\ DOMAIN todo = Ends
      /\ \A m \in Ends : Room(m, wrote[m], todo[m])
  BY DEF TypeInv, Calls, UserTyped
<1>3. DOMAIN todo' = Ends /\ todo'[n] = Tail(todo[n]) /\ \A m \in Ends : m # n => todo'[m] = todo[m]
  BY <1>2
<1>4. Room(n, wrote[n], Tail(todo[n]))
  BY <1>2, RoomIs
<1> QED
  BY <1>1, <1>2, <1>3, <1>4

\* What a call leaves alone of what the user has seen.
LEMMA SilentCallTyped ==
  ASSUME TypeInv, NEW n \in Ends, NEW op, Calls(n, op), UNCHANGED <<wrote, got>>,
         pc' \in [Ends -> {"idle", "Connect", "Accept", "Send", "Receive"}], TcbTyped'
  PROVE  TypeInv'
<1>1. /\ NetTyped' /\ RestTyped' /\ DOMAIN todo' = Ends
      /\ \A m \in Ends : Room(m, wrote[m], todo'[m])
  BY CallsTyped
<1>2. UserTyped'
  BY <1>1 DEF TypeInv, UserTyped
<1> QED
  BY <1>1, <1>2 DEF TypeInv

LEMMA CallFailsTyped ==
  ASSUME TypeInv, NEW n \in Ends, CallFails(n)
  PROVE  TypeInv'
<1>1. PICK op : Calls(n, op)
  BY DEF CallFails
<1>2. UNCHANGED <<tcb, pc, wrote, got>>
  BY DEF CallFails
<1>3. TcbTyped' /\ pc' \in [Ends -> {"idle", "Connect", "Accept", "Send", "Receive"}]
  BY <1>2 DEF TypeInv, TcbTyped, Typed, UserTyped
<1> QED
  BY <1>1, <1>2, <1>3, SilentCallTyped

LEMMA AcceptTyped ==
  ASSUME TypeInv, NEW n \in Ends, Accept(n)
  PROVE  TypeInv'
<1> DEFINE c == [tcb[n] EXCEPT !.Event = FALSE]
<1>1. Typed(n, tcb[n]) /\ tcb[n].out = {} /\ n \in DOMAIN tcb
  BY DEF TypeInv, TcbTyped
<1>2. Calls(n, "Accept") /\ UNCHANGED <<wrote, got>>
  BY DEF Accept
<1>3. pc' \in [Ends -> {"idle", "Connect", "Accept", "Send", "Receive"}]
  BY DEF Accept, TypeInv, UserTyped
<1>4. Typed(n, c) /\ c.out = {}
  BY <1>1, ZenonT(60) DEF Typed, Connection
<1>5. tcb' = [tcb EXCEPT ![n] = c] \/ UNCHANGED tcb
  BY <1>1 DEF Accept
<1> HIDE DEF c
<1>6. TcbTyped'
  <2>1. CASE tcb' = [tcb EXCEPT ![n] = c]
    BY <1>4, <2>1, TcbStep DEF TypeInv
  <2>2. CASE UNCHANGED tcb
    BY <2>2 DEF TypeInv, TcbTyped, Typed
  <2> QED
    BY <1>5, <2>1, <2>2
<1> QED
  BY <1>2, <1>3, <1>6, SilentCallTyped

LEMMA CloseTyped ==
  ASSUME TypeInv, NEW n \in Ends, Close(n)
  PROVE  TypeInv'
<1> DEFINE c == tcb[n]
           f == StopTimer(c, "Retransmission")
           d == [f EXCEPT !.State = "Closed"]
           a == IF c.State = "CloseWait" THEN "LastAck" ELSE "FinWait1"
           e == [c EXCEPT !.StateAfterFIN = a, !.nRetransmissionCount = MAX_RETRANSMISSIONS,
                          !.bFINQueued = TRUE]
<1>1. Typed(n, c) /\ c.out = {} /\ n \in DOMAIN tcb
  BY DEF TypeInv, TcbTyped
<1>2. Calls(n, "Close") /\ UNCHANGED <<pc, wrote, got>>
  BY DEF Close
<1>3. tcb' = [tcb EXCEPT ![n] = d] \/ tcb' = [tcb EXCEPT ![n] = e]
  BY <1>1 DEF Close
<1>4. pc' \in [Ends -> {"idle", "Connect", "Accept", "Send", "Receive"}]
  BY <1>2 DEF TypeInv, UserTyped
<1>5. a \in {"Closed", "FinWait1", "LastAck"}
  OBVIOUS
<1> HIDE DEF c, a
<1>6. Typed(n, f) /\ f.out = {}
  BY <1>1 DEF Typed, Connection, StopTimer
<1> HIDE DEF f
<1>7. Typed(n, d) /\ d.out = {}
  BY <1>6, ZenonT(60) DEF Typed, Connection, States
<1>8. Typed(n, e) /\ e.out = {}
  <2>1. MAX_RETRANSMISSIONS \in -1 .. MAX_RETRANSMISSIONS /\ MAX_RETRANSMISSIONS # -1
    BY ConstantsAre
  <2>2. /\ e \in Connection(n) /\ e.rtq = c.rtq /\ e.TxQueue = c.TxQueue /\ e.out = c.out
        /\ e.nRetransmissionCount = MAX_RETRANSMISSIONS
    BY <1>1, <1>5, <2>1 DEF Typed, Connection
  <2> HIDE DEF e
  <2> QED
    BY <1>1, <2>1, <2>2 DEF Typed
<1> HIDE DEF d, e
<1>9. TcbTyped'
  BY <1>3, <1>7, <1>8, TcbStep DEF TypeInv
<1> QED
  BY <1>2, <1>4, <1>9, SilentCallTyped

\* A message, and the frames it is cut into.
LEMMA MessageTyped ==
  ASSUME NEW n \in Ends, NEW w \in Nat, \A i \in 1 .. w + Message[n] : i \in Stream(n),
         NEW message, message = [i \in 1 .. Message[n] |-> w + i]
  PROVE  /\ message \in Seq(Stream(n)) /\ message = Run(w, Message[n]) /\ Len(message) = Message[n]
         /\ Cut(Stream(n), message, Frame, Pieces(message, Frame))
         /\ FlattenSeq(Pieces(message, Frame)) = message
<1>1. Message[n] \in Nat /\ Frame \in Nat /\ Frame > 0
  BY MessageIs, ConstantsAre
<1>2. \A i \in 1 .. Message[n] : w + i \in Stream(n)
  BY <1>1
<1>3. message \in Seq(Stream(n)) /\ Len(message) = Message[n]
  BY <1>1, <1>2
<1>4. Cut(Stream(n), message, Frame, Pieces(message, Frame))
  BY <1>1, <1>3, PiecesAre
<1>5. FlattenSeq(Pieces(message, Frame)) = message
  BY <1>1, <1>3, PiecesJoin
<1> QED
  BY <1>3, <1>4, <1>5 DEF Run

LEMMA SendTyped ==
  ASSUME TypeInv, NEW n \in Ends, Send(n)
  PROVE  TypeInv'
<1> DEFINE c == tcb[n]
           message == [i \in 1 .. Message[n] |-> wrote[n] + i]
           P == Pieces(message, Frame)
           q == c.TxQueue \o P
<1>1. PICK wait \in Waits :
       /\ tcb' = [tcb EXCEPT ![n].TxQueue = @ \o P, ![n].Event = @ /\ ~wait]
       /\ pc' = [pc EXCEPT ![n] = IF wait THEN "Send" ELSE @]
  BY DEF Send
<1>2. Calls(n, "Send") /\ wrote' = [wrote EXCEPT ![n] = @ + Message[n]] /\ UNCHANGED got
  BY DEF Send
<1>3. Typed(n, c) /\ c.out = {} /\ n \in DOMAIN tcb
  BY DEF TypeInv, TcbTyped
<1>4. /\ NetTyped' /\ RestTyped' /\ DOMAIN todo' = Ends /\ todo'[n] = Tail(todo[n]) /\ todo[n] # <<>>
      /\ \A m \in Ends : /\ m # n => todo'[m] = todo[m]
                         /\ Room(m, wrote[m], todo'[m])
  BY <1>2, CallsTyped
<1>5. Room(n, wrote[n], todo[n]) /\ DOMAIN wrote = Ends
  BY DEF TypeInv, UserTyped
<1>6. Room(n, wrote[n] + Message[n], todo'[n]) /\ wrote[n] \in Nat
      /\ \A i \in 1 .. wrote[n] + Message[n] : i \in Stream(n)
  BY <1>4, <1>5, RoomIs DEF Room
<1>7. /\ Cut(Stream(n), message, Frame, P)
  BY <1>6, MessageTyped
<1> HIDE DEF P
<1>8. P \in Seq(Seq(Stream(n))) /\ \A i \in 1 .. Len(P) : Len(P[i]) \in 1 .. Frame
  BY <1>7 DEF Cut
<1>9. q \in Seq(Seq(Stream(n))) /\ \A i \in 1 .. Len(q) : Len(q[i]) <= Frame
  <2> DEFINE F == Seq(Stream(n))
             p == c.TxQueue
  <2>1. p \in Seq(F) /\ P \in Seq(F) /\ \A i \in 1 .. Len(p) : Len(p[i]) <= Frame
    BY <1>3, <1>8 DEF Typed, Connection
  <2> HIDE DEF F, p
  <2>2. /\ p \o P \in Seq(F) /\ Len(p \o P) = Len(p) + Len(P)
        /\ \A i \in 1 .. Len(p) + Len(P) : (p \o P)[i] = IF i <= Len(p) THEN p[i] ELSE P[i - Len(p)]
    BY <2>1, ConcatProperties
  <2>3. ASSUME NEW i \in 1 .. Len(p \o P) PROVE Len((p \o P)[i]) <= Frame
    <3>1. Len(p) \in Nat /\ Len(P) \in Nat /\ i \in 1 .. Len(p) + Len(P)
      BY <2>1, <2>2
    <3>2. CASE i <= Len(p)
      BY <2>1, <2>2, <3>1, <3>2
    <3>3. CASE i > Len(p)
      <4>1. i - Len(p) \in 1 .. Len(P)
        BY <3>1, <3>3
      <4>2. (p \o P)[i] = P[i - Len(p)]
        BY <2>2, <3>1, <3>3
      <4>3. Len(P[i - Len(p)]) \in 1 .. Frame
        BY <1>8, <4>1
      <4> QED
        BY <4>2, <4>3, ConstantsAre
    <3> QED
      BY <3>1, <3>2, <3>3
  <2> QED
    BY <2>2, <2>3 DEF F, p
<1> DEFINE ev == c.Event /\ ~wait
           d == [c EXCEPT !.TxQueue = q, !.Event = ev]
<1>10. tcb' = [tcb EXCEPT ![n] = d] /\ ev \in BOOLEAN
  BY <1>1, <1>3 DEF Typed, Connection
<1> HIDE DEF c, q, ev
<1>11. Typed(n, d) /\ d.out = {}
  <2>1. /\ d \in Connection(n) /\ d.rtq = c.rtq /\ d.TxQueue = q /\ d.out = c.out
        /\ d.nRetransmissionCount = c.nRetransmissionCount /\ d.bTimedOut = c.bTimedOut
        /\ d.hTimer = c.hTimer
    BY <1>3, <1>9, <1>10, ZenonT(60) DEF Typed, Connection
  <2> HIDE DEF d
  <2> QED
    BY <1>3, <1>9, <2>1 DEF Typed
<1> HIDE DEF d
<1>12. TcbTyped'
  BY <1>10, <1>11, TcbStep DEF TypeInv
<1>13. UserTyped'
  <2>1. pc' \in [Ends -> {"idle", "Connect", "Accept", "Send", "Receive"}]
    BY <1>1 DEF TypeInv, UserTyped
  <2>2. DOMAIN wrote' = Ends /\ wrote'[n] = wrote[n] + Message[n]
        /\ \A m \in Ends : m # n => wrote'[m] = wrote[m]
    BY <1>2, <1>5
  <2>3. \A m \in Ends : Room(m, wrote'[m], todo'[m])
    BY <1>4, <1>6, <2>2
  <2> QED
    BY <1>2, <1>4, <2>1, <2>2, <2>3 DEF TypeInv, UserTyped
<1> QED
  BY <1>4, <1>12, <1>13 DEF TypeInv

LEMMA TakeOrWaitTyped ==
  ASSUME TypeInv, NEW n \in Ends, TakeOrWait(n)
  PROVE  /\ TcbTyped' /\ DOMAIN got' = Ends /\ \A m \in Ends : got'[m] \in Seq(Stream(Peer(m)))
         /\ pc' \in [Ends -> {"idle", "Connect", "Accept", "Send", "Receive"}]
<1> DEFINE c == tcb[n]
           F == Seq(Stream(Peer(n)))
<1>1. Typed(n, c) /\ c.out = {} /\ n \in DOMAIN tcb /\ c.RxQueue \in Seq(F)
  BY DEF TypeInv, TcbTyped, Typed, Connection
<1>2. /\ DOMAIN got = Ends /\ \A m \in Ends : got[m] \in Seq(Stream(Peer(m)))
      /\ pc \in [Ends -> {"idle", "Connect", "Accept", "Send", "Receive"}]
  BY DEF TypeInv, UserTyped
<1>3. pc' \in [Ends -> {"idle", "Connect", "Accept", "Send", "Receive"}]
  BY <1>2 DEF TakeOrWait
<1>4. CASE /\ c.RxQueue # <<>>
           /\ got' = [got EXCEPT ![n] = @ \o Head(c.RxQueue)]
           /\ tcb' = [tcb EXCEPT ![n].RxQueue = Tail(@)]
  <2> DEFINE d == [c EXCEPT !.RxQueue = Tail(@)]
  <2>1. Tail(c.RxQueue) \in Seq(F) /\ Head(c.RxQueue) \in F
    <3> HIDE DEF F
    <3> QED
      BY <1>1, <1>4
  <2>2. tcb' = [tcb EXCEPT ![n] = d]
    BY <1>1, <1>4
  <2>3. Typed(n, d) /\ d.out = {}
    BY <1>1, <2>1 DEF Typed, Connection
  <2> HIDE DEF d
  <2>4. TcbTyped'
    BY <2>2, <2>3, TcbStep DEF TypeInv
  <2>5. got[n] \o Head(c.RxQueue) \in Seq(Stream(Peer(n)))
    BY <1>2, <2>1
  <2>6. DOMAIN got' = Ends /\ \A m \in Ends : got'[m] \in Seq(Stream(Peer(m)))
    BY <1>2, <1>4, <2>5
  <2> QED
    BY <1>3, <2>4, <2>6
<1>5. CASE tcb' = [tcb EXCEPT ![n].Event = FALSE] /\ UNCHANGED got
  <2> DEFINE d == [c EXCEPT !.Event = FALSE]
  <2>1. tcb' = [tcb EXCEPT ![n] = d]
    BY <1>1, <1>5
  <2>2. Typed(n, d) /\ d.out = {}
    BY <1>1, ZenonT(60) DEF Typed, Connection
  <2> HIDE DEF d
  <2>3. TcbTyped'
    BY <2>1, <2>2, TcbStep DEF TypeInv
  <2> QED
    BY <1>2, <1>3, <1>5, <2>3
<1>6. CASE UNCHANGED <<tcb, got>>
  BY <1>2, <1>3, <1>6 DEF TypeInv, TcbTyped, Typed
<1> QED
  BY <1>4, <1>5, <1>6 DEF TakeOrWait

LEMMA ReceiveTyped ==
  ASSUME TypeInv, NEW n \in Ends, Receive(n)
  PROVE  TypeInv'
<1>1. /\ TcbTyped' /\ DOMAIN got' = Ends /\ \A m \in Ends : got'[m] \in Seq(Stream(Peer(m)))
      /\ pc' \in [Ends -> {"idle", "Connect", "Accept", "Send", "Receive"}]
  BY TakeOrWaitTyped DEF Receive
<1>2. /\ NetTyped' /\ RestTyped' /\ DOMAIN todo' = Ends
      /\ \A m \in Ends : Room(m, wrote[m], todo'[m])
  BY CallsTyped DEF Receive
<1>3. UserTyped'
  BY <1>1, <1>2 DEF TypeInv, UserTyped, Receive
<1> QED
  BY <1>1, <1>2, <1>3 DEF TypeInv

LEMMA WakesTyped ==
  ASSUME TypeInv, NEW n \in Ends, Wakes(n)
  PROVE  TypeInv'
<1>1. NetTyped' /\ RestTyped'
  BY DEF TypeInv, Wakes, NetTyped, RestTyped
<1>2. CASE TakeOrWait(n)
  <2>1. /\ TcbTyped' /\ DOMAIN got' = Ends /\ \A m \in Ends : got'[m] \in Seq(Stream(Peer(m)))
        /\ pc' \in [Ends -> {"idle", "Connect", "Accept", "Send", "Receive"}]
    BY <1>2, TakeOrWaitTyped
  <2>2. UserTyped'
    BY <2>1 DEF TypeInv, UserTyped, Wakes, Room
  <2> QED
    BY <1>1, <2>1, <2>2 DEF TypeInv
<1>3. CASE pc' = [pc EXCEPT ![n] = "idle"] /\ UNCHANGED <<tcb, got>>
  <2>1. pc' \in [Ends -> {"idle", "Connect", "Accept", "Send", "Receive"}]
    BY <1>3 DEF TypeInv, UserTyped
  <2>2. UserTyped' /\ TcbTyped'
    BY <1>3, <2>1 DEF TypeInv, UserTyped, Wakes, Room, TcbTyped, Typed
  <2> QED
    BY <1>1, <2>2 DEF TypeInv
<1> QED
  BY <1>2, <1>3 DEF Wakes

-----------------------------------------------------------------------------
(* The type invariant holds                                                *)

LEMMA NewConnectionTyped ==
  ASSUME NEW n \in Ends
  PROVE  Typed(n, NewConnection(n)) /\ NewConnection(n).out = {}
<1> DEFINE c == NewConnection(n)
<1>1. EmptyQueue \in [data : Seq(Stream(n)), pre : Nat, over : Nat]
      /\ EmptyQueue.pre <= Len(EmptyQueue.data) /\ Len(EmptyQueue.data) <= Capacity
  BY ConstantsAre DEF EmptyQueue
<1>2. 0 \in Numbers /\ 0 \in -1 .. MAX_RETRANSMISSIONS
  BY ConstantsAre DEF Numbers
<1>3. c \in Connection(n) /\ c.rtq = EmptyQueue /\ c.TxQueue = <<>> /\ c.out = {}
      /\ c.nRetransmissionCount = 0
  BY <1>1, <1>2 DEF NewConnection, Connection, States
<1> HIDE DEF c
<1>4. Typed(n, c) /\ c.out = {}
  BY <1>1, <1>3 DEF Typed
<1> QED
  BY <1>4 DEF c

LEMMA InitTyped ==
  ASSUME Init
  PROVE  TypeInv
<1> DEFINE b == NewConnection(Active)
<1>1. PICK isn \in ISNs[Active] :
       LET a == ActiveOpen(NewConnection(Active), isn) IN
       /\ tcb = [n \in Ends |-> IF n = Active THEN [a EXCEPT !.out = {}] ELSE NewConnection(n)]
       /\ net = [n \in Ends |-> IF n = Active THEN a.out ELSE {}]
  BY DEF Init
<1>2. Active \in Ends /\ Passive \in Ends /\ \A n \in Ends : n = Active \/ n = Passive
  BY DEF Ends
<1>3. Typed(Active, b) /\ b.out = {} /\ Typed(Passive, NewConnection(Passive))
      /\ NewConnection(Passive).out = {}
  BY <1>2, NewConnectionTyped
<1> DEFINE x == Plus(isn, 1)
           d == [b EXCEPT !.ISS = isn, !.SND_UNA = isn, !.SND_NXT = x,
                     !.State = "SynSent", !.nRetransmissionCount = MAX_RETRANSMISSIONS]
           e == SendSegment(d, {"SYN"}, isn, 0, <<>>)
           a == StartTimer(e, "Retransmission")
<1>4. /\ tcb = [n \in Ends |-> IF n = Active THEN [a EXCEPT !.out = {}] ELSE NewConnection(n)]
      /\ net = [n \in Ends |-> IF n = Active THEN a.out ELSE {}]
  BY <1>1 DEF ActiveOpen
<1>5. isn \in Numbers
  BY <1>2, TcpAssumption DEF Numbers
<1>6. x \in Numbers
  BY <1>5, PlusType
<1>7. MAX_RETRANSMISSIONS \in -1 .. MAX_RETRANSMISSIONS /\ MAX_RETRANSMISSIONS # -1
      /\ "SynSent" \in States /\ {"SYN"} \in SUBSET Flags /\ 0 \in Numbers
  BY ConstantsAre DEF States, Flags, Numbers
<1> HIDE DEF b, x
<1>8. Typed(Active, d) /\ d.nRetransmissionCount # -1
  <2>1. /\ d \in Connection(Active) /\ d.rtq = b.rtq /\ d.TxQueue = b.TxQueue
        /\ d.nRetransmissionCount = MAX_RETRANSMISSIONS
    BY <1>3, <1>5, <1>6, <1>7, ZenonT(60) DEF Typed, Connection
  <2> HIDE DEF d
  <2> QED
    BY <1>3, <1>7, <2>1 DEF Typed
<1> HIDE DEF d
<1>9. Typed(Active, e) /\ e.nRetransmissionCount = d.nRetransmissionCount
  <2>1. Typed(Active, e)
    BY <1>2, <1>5, <1>7, <1>8, SendSegmentTyped
  <2>2. e.nRetransmissionCount = d.nRetransmissionCount
    BY <1>8 DEF Typed, Connection, SendSegment
  <2> QED
    BY <2>1, <2>2
<1> HIDE DEF e
<1>10. Typed(Active, a)
  BY <1>2, <1>8, <1>9, StartTimerTyped DEF Timers
<1> HIDE DEF a
<1> DEFINE a0 == [a EXCEPT !.out = {}]
<1>11. Typed(Active, a0) /\ a0.out = {}
  BY <1>10 DEF Typed, Connection
<1>12. tcb = [n \in Ends |-> IF n = Active THEN a0 ELSE NewConnection(n)]
  BY <1>4
<1> HIDE DEF a0
<1>13. TcbTyped
  <2>1. tcb[Active] = a0 /\ tcb[Passive] = NewConnection(Passive) /\ DOMAIN tcb = Ends
    BY <1>2, <1>12, TcpAssumption
  <2>2. \A n \in Ends : Typed(n, tcb[n]) /\ tcb[n].out = {}
    BY <1>2, <1>3, <1>11, <2>1
  <2>3. a0 \in Connection(Active) /\ NewConnection(Passive) \in Connection(Passive)
    BY <1>3, <1>11 DEF Typed
  <2> DEFINE A == Connection(Active)
             B == Connection(Passive)
             nc == NewConnection(Passive)
  <2>4. tcb = [n \in Ends |-> tcb[n]] /\ a0 \in A /\ nc \in B /\ tcb[Active] = a0 /\ tcb[Passive] = nc
    BY <1>12, <2>1, <2>3
  <2> HIDE DEF A, B, nc
  <2>5. tcb \in [Ends -> A \cup B]
    BY <1>2, <2>4
  <2> QED
    BY <2>2, <2>5 DEF TcbTyped, A, B
<1>14. NetTyped
  <2>1. a.out \in SUBSET Segments(Active)
    BY <1>10 DEF Typed, Connection
  <2>2. net = [n \in Ends |-> IF n = Active THEN a.out ELSE {}]
    BY <1>4
  <2> QED
    BY <1>2, <2>1, <2>2 DEF NetTyped
<1>15. UserTyped
  <2>1. todo \in Programs /\ wrote = [n \in Ends |-> 0] /\ got = [n \in Ends |-> <<>>]
        /\ pc = [n \in Ends |-> IF n = Active THEN "Connect" ELSE "idle"]
    BY DEF Init
  <2>2. ASSUME NEW n \in Ends PROVE Room(n, wrote[n], todo[n]) /\ got[n] \in Seq(Stream(Peer(n)))
    <3>1. todo[n] \in Seq(CallNames) /\ wrote[n] = 0 /\ got[n] = <<>>
      BY <2>1, ProgramIs
    <3>2. Message[n] * Len(todo[n]) \in Nat
      BY <2>1, MessageIs, ProgramIs, Multiples
    <3>3. wrote[n] + Message[n] * Len(todo[n]) <= Message[n] * Len(todo[n])
      <4> DEFINE z == Message[n] * Len(todo[n])
      <4> HIDE DEF z
      <4>1. z \in Nat => 0 + z <= z
        OBVIOUS
      <4> QED
        BY <3>1, <3>2, <4>1 DEF z
    <3>4. Room(n, wrote[n], todo[n])
      BY <2>1, <3>1, <3>3 DEF Room
    <3> QED
      BY <3>1, <3>4
  <2>3. DOMAIN todo = Ends
    BY <1>2, <2>1, ProgramIs
  <2> QED
    BY <2>1, <2>2, <2>3 DEF UserTyped
<1>16. RestTyped
  BY ConstantsAre DEF Init, RestTyped
<1> QED
  BY <1>13, <1>14, <1>15, <1>16 DEF TypeInv

LEMMA NextTyped ==
  ASSUME TypeInv, [Next]_vars
  PROVE  TypeInv'
<1>1. CASE UNCHANGED vars
  BY <1>1 DEF vars, user, TypeInv, TcbTyped, Typed, NetTyped, UserTyped, Room, RestTyped
<1>2. ASSUME NEW n \in Ends, Lose(n) PROVE TypeInv'
  BY <1>2, LoseTyped
<1>3. ASSUME NEW n \in Ends, NetTask(n) PROVE TypeInv'
  <2>1. CASE Deliver(n)
    BY <2>1, RefuseTyped, ListenSYNTyped, SynSentTyped, SynchronizedTyped DEF Deliver
  <2>2. CASE NotificationReceived(n)
    BY <2>2, NotificationTyped
  <2>3. CASE EndPass(n)
    BY <2>3, EndPassTyped
  <2> QED
    BY <1>3, <2>1, <2>2, <2>3 DEF NetTask
<1>4. ASSUME NEW n \in Ends, Interrupt(n) PROVE TypeInv'
  BY <1>4, RetransmissionTyped, TimeWaitTyped DEF Interrupt
<1>5. ASSUME NEW n \in Ends, UserTask(n) PROVE TypeInv'
  BY <1>5, CallFailsTyped, AcceptTyped, SendTyped, ReceiveTyped, CloseTyped, WakesTyped DEF UserTask
<1> QED
  BY <1>1, <1>2, <1>3, <1>4, <1>5 DEF Next

LEMMA TypeInvImplies ==
  ASSUME TypeInv
  PROVE  TypeOK
<1>1. ASSUME NEW n \in Ends PROVE wrote[n] \in Stream(n) \cup {0}
  <2>1. Room(n, wrote[n], todo[n])
    BY DEF TypeInv, UserTyped
  <2>2. wrote[n] \in Nat /\ \A i \in 1 .. wrote[n] : i \in Stream(n)
    BY <2>1, RoomIs DEF Room
  <2> QED
    BY <2>2
<1>2. ASSUME NEW n \in Ends
      PROVE  /\ tcb[n] \in Connection(n) /\ tcb[n].out = {}
             /\ tcb[n].rtq.pre <= Len(tcb[n].rtq.data) /\ Len(tcb[n].rtq.data) <= Capacity
             /\ net[n] \in SUBSET Segments(n)
             /\ todo[n] \in Seq({"Accept", "Send", "Receive", "Close"})
             /\ got[n] \in Seq(Stream(Peer(n)))
  BY DEF TypeInv, TcbTyped, Typed, NetTyped, UserTyped, Room, CallNames
<1>3. /\ tcb \in [Ends -> Connection(Active) \cup Connection(Passive)]
      /\ net \in [Ends -> SUBSET (Segments(Active) \cup Segments(Passive))]
      /\ pc \in [Ends -> {"idle", "Connect", "Accept", "Send", "Receive"}]
      /\ DOMAIN todo = Ends /\ DOMAIN wrote = Ends /\ DOMAIN got = Ends
      /\ faults \in 0 .. MaxFaults /\ deleted \subseteq Ends /\ polling \subseteq Ends
  BY DEF TypeInv, TcbTyped, NetTyped, UserTyped, RestTyped
<1> QED
  BY <1>1, <1>2, <1>3 DEF TypeOK

\* The variables have their types, for every value of the constants: the
\* retransmission queue never holds more than it can, what has been sent of it is
\* part of it, and no number leaves the range of its field.
THEOREM TypeCorrect == Spec => []TypeOK
<1>1. Init => TypeInv
  BY InitTyped
<1>2. TypeInv /\ [Next]_vars => TypeInv'
  BY NextTyped
<1>3. TypeInv => TypeOK
  BY TypeInvImplies
<1> QED
  BY <1>1, <1>2, <1>3, PTL DEF Spec

-----------------------------------------------------------------------------
(* What is kept                                                            *)

Opening  == {"Listen", "SynSent", "SynReceived"}
Early    == {"Listen", "SynReceived", "Closed"}
Flowing  == {"Established", "CloseWait"}
Ending   == {"FinWait1", "FinWait2", "Closing", "LastAck", "TimeWait"}
Sending  == {"FinWait1", "Closing", "LastAck"}
AfterFIN == {"CloseWait", "LastAck", "Closing", "TimeWait"}
Finished == Ending \cup {"Closed"}

Even(k) == k % 2 = 0

\* How far the numbers of an end can come that has written w bytes: its SYN, the
\* bytes and the FINs, each of which takes a number of its own.
Furthest(w) == 2 + w + MAX_RETRANSMISSIONS

Acks(s) == "ACK" \in s.flags /\ "RST" \notin s.flags

Iss(n) == IF n = Active THEN tcb[Active].ISS ELSE CHOOSE i \in Numbers : ISNs[Passive] = {i}

\* What matters of an end and its peer besides the end's members: the initial
\* numbers i and j of both, the lengths w and v of what they have written, and
\* of the peer its state and how far it has received.
View(n) ==
  [n |-> n, i |-> Iss(n), j |-> Iss(Peer(n)), w |-> wrote[n], v |-> wrote[Peer(n)],
   st |-> tcb[Peer(n)].State, r |-> Diff(tcb[Peer(n)].RCV_NXT, Iss(n))]

\* The bytes of a stream that start at b, and that have all been written.
Bytes(data, b, w) ==
  b >= 0 /\ Even(b) /\ Even(Len(data)) /\ b + Len(data) <= w /\ data = Run(b, Len(data))

\* A segment s that the end with members c has sent.
DataKept(z, c, s) ==
  s.data # <<>> =>
    /\ c.ISS = z.i /\ c.State \notin Opening
    /\ "ACK" \in s.flags /\ s.flags \cap {"SYN", "FIN", "RST"} = {}
    /\ Bytes(s.data, Diff(s.seq, z.i) - 1, z.w)
FinKept(z, c, s) ==
  "FIN" \in s.flags =>
    /\ s.flags = {"FIN", "ACK"} /\ s.data = <<>> /\ c.State \in Finished
    /\ 1 + z.w <= Diff(s.seq, z.i) /\ Diff(s.seq, z.i) < Furthest(z.w)
SynKept(z, s) ==
  "SYN" \in s.flags =>
    s.data = <<>> /\ s.seq = z.i /\ s.flags = IF z.n = Active THEN {"SYN"} ELSE {"SYN", "ACK"}
AckKept(z, c, s) ==
  Acks(s) =>
    /\ 1 <= Diff(s.ack, z.j) /\ Diff(s.ack, z.j) <= Diff(c.RCV_NXT, z.j)
    /\ Diff(c.RCV_NXT, z.j) <= Furthest(z.v)
    /\ z.st \notin Finished => ~Even(Diff(s.ack, z.j))
    /\ c.State # "SynSent"
    /\ z.st \in Opening \/ c.State = "Listen" => Diff(s.ack, z.j) = 1

Out(z, c, X) ==
  \A s \in X : DataKept(z, c, s) /\ FinKept(z, c, s) /\ SynKept(z, s) /\ AckKept(z, c, s)

\* The members c of an end, as it sends.
OpeningKept(z, c) ==
  c.State \in Opening =>
    c.rtq = EmptyQueue /\ FlattenSeq(c.TxQueue) = Run(0, z.w) /\ ~c.bRetransmit
OpenedKept(z, c) ==
  c.State \in {"SynSent", "SynReceived"} =>
    c.ISS = z.i /\ c.SND_UNA = z.i /\ c.SND_NXT = Plus(z.i, 1)
\* b bytes have been acknowledged; the others are still there.
Holds(q, p, b, w) ==
  b >= 0 /\ b <= w /\ Even(b) /\ q.data \o FlattenSeq(p) = Run(b, w - b) /\ Even(Len(q.data))
FlowingKept(z, c) ==
  c.State \in Flowing =>
    /\ c.ISS = z.i /\ Holds(c.rtq, c.TxQueue, Diff(c.SND_UNA, z.i) - 1, z.w)
    /\ c.rtq.over = 0 /\ c.rtq.pre = Diff(c.SND_NXT, c.SND_UNA)
    /\ Even(c.rtq.pre) /\ c.rtq.pre <= Window
EndingKept(z, c) ==
  c.State \in Ending =>
    /\ c.ISS = z.i /\ c.rtq.data = <<>> /\ c.TxQueue = <<>>
    /\ 1 + z.w <= Diff(c.SND_UNA, z.i) /\ Diff(c.SND_UNA, z.i) <= Diff(c.SND_NXT, z.i)
    /\ Diff(c.SND_NXT, z.i) <= Furthest(z.w)
\* Each FIN that may still be sent has a number.
SendingKept(z, c) ==
  c.State \in Sending =>
    Diff(c.SND_NXT, z.i) + c.nRetransmissionCount + (IF c.bFINQueued THEN 1 ELSE 0)
      <= Furthest(z.w)
PeerKept(z, c) ==
  c.State \in Flowing \cup Ending =>
    /\ Diff(c.SND_UNA, z.i) <= z.r /\ z.r <= Furthest(z.w)
    /\ z.st = "Listen" => Diff(c.SND_UNA, z.i) = 1
FramesKept(z, c) == Even(z.w) /\ \A k \in 1 .. Len(c.TxQueue) : Even(Len(c.TxQueue[k]))

SenderKept(z, c) ==
  /\ OpeningKept(z, c) /\ OpenedKept(z, c) /\ FlowingKept(z, c) /\ EndingKept(z, c)
  /\ SendingKept(z, c) /\ PeerKept(z, c) /\ FramesKept(z, c)

\* Its requests and its timer.
Off(c) == "Retransmission" \notin c.hTimer
TimersKept(z, c) ==
  /\ c.panic => c.State = "Closed"
  /\ c.bSendSYN => Off(c) /\ c.State \in {"SynSent", "Closed"}
  /\ c.State \in Sending /\ c.bFINQueued => Off(c)
  /\ c.State \in {"Listen", "SynReceived", "FinWait2", "TimeWait"} => Off(c)
  /\ z.n = Passive => ~c.bSendSYN /\ c.State # "SynSent"
  /\ z.n = Active => c.State \notin {"Listen", "SynReceived"}
  /\ c.StateAfterFIN = "LastAck" => c.State \in {"CloseWait", "LastAck", "Closed"}
  /\ c.bFINQueued \/ c.State \in Sending => c.StateAfterFIN # "Closed"
RequestKept(c) == c.bRetransmit => Off(c)

\* As it receives: R is what has arrived.  The peer's FIN is taken when all the
\* bytes are there, and once for each number that it has been sent with.
InStep(z, c, R) ==
  /\ Even(Len(R))
  /\ \/ Diff(c.RCV_NXT, z.j) = 1 + Len(R) /\ c.State \notin AfterFIN
     \/ /\ z.st \in Finished /\ Len(R) = z.v /\ c.State # "SynReceived"
        /\ 2 + z.v <= Diff(c.RCV_NXT, z.j) /\ Diff(c.RCV_NXT, z.j) <= Furthest(z.v)
  /\ z.st \in Opening => Diff(c.RCV_NXT, z.j) = 1
ArrivedKept(z, c, R) ==
  /\ R = Run(0, Len(R)) /\ Len(R) <= z.v
  /\ c.State \in Opening => R = <<>>
  /\ c.State \in Synchronized => InStep(z, c, R)
ReceiverKept(z, c, g) == ArrivedKept(z, c, g \o FlattenSeq(c.RxQueue))

HandshakeKept(z, c) ==
  /\ z.st = "SynSent" => c.State \in Early
  /\ c.State = "SynSent" => z.st \in Early

Almost(z, c, g) ==
  /\ Typed(z.n, c) /\ g \in Seq(Stream(Peer(z.n)))
  /\ SenderKept(z, c) /\ TimersKept(z, c) /\ ReceiverKept(z, c, g) /\ HandshakeKept(z, c)
Mine(z, c, g) == Almost(z, c, g) /\ RequestKept(c)

Kept ==
  \A n \in Ends : Mine(View(n), tcb[n], got[n]) /\ Out(View(n), tcb[n], net[n])


-----------------------------------------------------------------------------
(* Even numbers                                                            *)

LEMMA EvenSum ==
  ASSUME NEW a \in Int, NEW b \in Int, NEW x, x = a + b, Even(a), Even(b)
  PROVE  Even(x)
BY DEF Even

LEMMA EvenDifference ==
  ASSUME NEW a \in Int, NEW b \in Int, NEW x, x = a - b, Even(a) <=> Even(b)
  PROVE  Even(x)
BY DEF Even

LEMMA EvenNext ==
  ASSUME NEW a \in Int, NEW x, x = a + 1
  PROVE  Even(x) <=> ~Even(a)
BY DEF Even

LEMMA EvenZero == Even(0) /\ ~Even(1)
BY DEF Even

LEMMA EvenMultiple ==
  ASSUME NEW m \in Nat, Even(m), NEW k \in Nat
  PROVE  Even(k * m)
<1> DEFINE S == {l \in Nat : Even(l * m)}
<1>1. 0 \in S
  BY EvenZero, Multiples
<1>2. ASSUME NEW l \in Nat, l \in S PROVE l + 1 \in S
  <2>1. l * m \in Nat /\ (l + 1) * m = l * m + m
    BY Multiples
  <2>2. Even((l + 1) * m)
    BY <1>2, <2>1, EvenSum
  <2> QED
    BY <2>2
<1> HIDE DEF S
<1>3. Nat \subseteq S
  BY <1>1, <1>2, AllNumbers
<1> QED
  BY <1>3 DEF S

\* Frames of an even length make up a sequence of an even length.
EvenFrames(q) == \A k \in 1 .. Len(q) : Even(Len(q[k]))

LEMMA FlattenEven ==
  ASSUME NEW T, NEW q \in Seq(Seq(T)), EvenFrames(q)
  PROVE  Even(Len(FlattenSeq(q)))
<1> DEFINE F == Seq(T)
           EvenOf(l) == \A s \in Seq(F) : Len(s) = l /\ EvenFrames(s) => Even(Len(FlattenSeq(s)))
           S == {l \in Nat : EvenOf(l)}
<1>1. 0 \in S
  <2>1. ASSUME NEW s \in Seq(F), Len(s) = 0 PROVE Even(Len(FlattenSeq(s)))
    <3>1. s = <<>>
      BY <2>1
    <3>2. Len(FlattenSeq(s)) = 0
      BY <3>1, FlattenEmpty
    <3> QED
      BY <3>2, EvenZero
  <2> QED
    BY <2>1
<1>2. ASSUME NEW l \in Nat, l \in S PROVE l + 1 \in S
  <2>1. ASSUME NEW s \in Seq(F), Len(s) = l + 1, EvenFrames(s) PROVE Even(Len(FlattenSeq(s)))
    <3>1. PICK r \in Seq(F), x \in F : s = Append(r, x)
      BY <2>1, LastOne
    <3>2. FlattenSeq(s) = FlattenSeq(r) \o x
      BY <3>1, FlattenAppend
    <3>3. FlattenSeq(r) \in Seq(T) /\ x \in Seq(T)
      BY FlattenType
    <3>4. Len(FlattenSeq(s)) = Len(FlattenSeq(r)) + Len(x) /\ Len(x) \in Nat
          /\ Len(FlattenSeq(r)) \in Nat
      BY <3>2, <3>3
    <3> HIDE DEF F
    <3>5. Len(r) = l /\ s[l + 1] = x /\ \A k \in 1 .. l : s[k] = r[k]
      BY <2>1, <3>1
    <3>6. EvenFrames(r) /\ Even(Len(x))
      BY <2>1, <3>5 DEF EvenFrames
    <3>7. Even(Len(FlattenSeq(r)))
      BY <1>2, <3>5, <3>6
    <3> QED
      BY <3>4, <3>6, <3>7, EvenSum
  <2> QED
    BY <2>1
<1> HIDE DEF S
<1>3. Nat \subseteq S
  BY <1>1, <1>2, AllNumbers
<1>4. EvenOf(Len(q))
  BY <1>3 DEF S
<1> QED
  BY <1>4

-----------------------------------------------------------------------------
(* The view of an end                                                      *)

Scene(z) ==
  /\ z.n \in Ends /\ z.i \in Numbers /\ z.j \in Numbers
  /\ z.w \in Nat /\ z.v \in Nat /\ z.r \in Numbers /\ z.st \in States
  /\ Furthest(z.w) \in Nat /\ Furthest(z.w) < Half /\ z.w + 2 <= Furthest(z.w)
  /\ Furthest(z.v) \in Nat /\ Furthest(z.v) < Half /\ z.v + 2 <= Furthest(z.v)

LEMMA DiffNat ==
  ASSUME NEW x \in Numbers, NEW y \in Numbers
  PROVE  Diff(x, y) \in Nat /\ Diff(x, y) \in Int /\ Diff(x, y) < NumMod /\ Diff(x, y) \in Numbers
<1>1. Diff(x, y) \in 0 .. NumMod - 1 /\ NumMod \in Nat
  BY DiffIs, ConstantsAre DEF Numbers
<1> QED
  BY <1>1 DEF Numbers

\* A step of the handlers: no number is taken back, and nothing is forgotten.
Onward(z, c, d) ==
  /\ d.ISS = c.ISS
  /\ d.State \in Opening => d.State = c.State
  /\ c.State \in Finished => d.State \in Finished
  /\ \/ d.RCV_NXT = c.RCV_NXT
     \/ /\ Diff(c.RCV_NXT, z.j) <= Diff(d.RCV_NXT, z.j)
        /\ Diff(d.RCV_NXT, z.j) <= Furthest(z.v)

LEMMA OnwardStill ==
  ASSUME NEW z, NEW c
  PROVE  Onward(z, c, c)
BY DEF Onward

LEMMA MembersAre ==
  ASSUME NEW n \in Ends, NEW c, Typed(n, c)
  PROVE  /\ c.State \in States /\ c.StateAfterFIN \in {"Closed", "FinWait1", "LastAck"}
         /\ c.bActiveOpen = (n = Active)
         /\ c.ISS \in Numbers /\ c.SND_UNA \in Numbers /\ c.SND_NXT \in Numbers
         /\ c.RCV_NXT \in Numbers
         /\ c.TxQueue \in Seq(Seq(Stream(n))) /\ c.RxQueue \in Seq(Seq(Stream(Peer(n))))
         /\ c.rtq.data \in Seq(Stream(n)) /\ Len(c.rtq.data) \in Nat
         /\ c.rtq.pre \in Nat /\ c.rtq.over \in Nat /\ c.rtq.pre <= Len(c.rtq.data)
         /\ c.nRetransmissionCount \in Int /\ -1 <= c.nRetransmissionCount
         /\ c.nRetransmissionCount <= MAX_RETRANSMISSIONS
         /\ c.hTimer \in SUBSET Timers /\ c.out \subseteq Segments(n)
         /\ c.bRetransmit \in BOOLEAN /\ c.bSendSYN \in BOOLEAN /\ c.bFINQueued \in BOOLEAN
         /\ c.bTimedOut \in BOOLEAN
<1>1. c \in Connection(n) /\ c.rtq.pre <= Len(c.rtq.data)
  BY DEF Typed
<1>2. MAX_RETRANSMISSIONS \in Nat
  BY ConstantsAre
<1>3. c.nRetransmissionCount \in -1 .. MAX_RETRANSMISSIONS
  BY <1>1 DEF Connection
<1>4. c.rtq \in [data : Seq(Stream(n)), pre : Nat, over : Nat]
  BY <1>1 DEF Connection
<1>5. c.rtq.data \in Seq(Stream(n)) /\ Len(c.rtq.data) \in Nat /\ c.rtq.pre \in Nat
      /\ c.rtq.over \in Nat
  BY <1>4
<1> QED
  BY <1>1, <1>2, <1>3, <1>5 DEF Connection

LEMMA OnwardOnward ==
  ASSUME NEW z, Scene(z), NEW c, NEW d, NEW e, Typed(z.n, c), Typed(z.n, d), Typed(z.n, e),
         Onward(z, c, d), Onward(z, d, e)
  PROVE  Onward(z, c, e)
<1>1. /\ Diff(c.RCV_NXT, z.j) \in Int /\ Diff(d.RCV_NXT, z.j) \in Int
      /\ Diff(e.RCV_NXT, z.j) \in Int /\ Furthest(z.v) \in Int
  <2>1. z.n \in Ends /\ z.j \in Numbers /\ Furthest(z.v) \in Int
    BY DEF Scene
  <2>2. c.RCV_NXT \in Numbers /\ d.RCV_NXT \in Numbers /\ e.RCV_NXT \in Numbers
    BY <2>1, MembersAre
  <2> QED
    BY <2>1, <2>2, DiffNat
<1> QED
  BY <1>1 DEF Onward

\* What has been sent stays true.
LEMMA OnwardOut ==
  ASSUME NEW z, Scene(z), NEW c, NEW d, Typed(z.n, c), Typed(z.n, d), Onward(z, c, d),
         NEW X, X \subseteq Segments(z.n), Out(z, c, X)
  PROVE  Out(z, d, X)
<1>1. SUFFICES ASSUME NEW s \in X
               PROVE  DataKept(z, d, s) /\ FinKept(z, d, s) /\ SynKept(z, s) /\ AckKept(z, d, s)
  BY DEF Out
<1>2. DataKept(z, c, s) /\ FinKept(z, c, s) /\ SynKept(z, s) /\ AckKept(z, c, s)
  BY DEF Out
<1>3. DataKept(z, d, s)
  BY <1>2 DEF DataKept, Onward
<1>4. FinKept(z, d, s)
  BY <1>2 DEF FinKept, Onward
<1>5. /\ Diff(c.RCV_NXT, z.j) \in Int /\ Diff(d.RCV_NXT, z.j) \in Int
      /\ Diff(s.ack, z.j) \in Int /\ Furthest(z.v) \in Int
  <2>1. z.n \in Ends /\ z.j \in Numbers /\ Furthest(z.v) \in Int
    BY DEF Scene
  <2>2. c.RCV_NXT \in Numbers /\ d.RCV_NXT \in Numbers /\ s.ack \in Numbers
    BY <2>1, MembersAre, SegmentIs
  <2> QED
    BY <2>1, <2>2, DiffNat
<1>6. AckKept(z, d, s)
  BY <1>2, <1>5 DEF AckKept, Onward, Opening
<1> QED
  BY <1>2, <1>3, <1>4, <1>6

LEMMA OutBoth ==
  ASSUME NEW z, NEW c, NEW X, NEW Y, Out(z, c, X), Out(z, c, Y)
  PROVE  Out(z, c, X \cup Y)
BY DEF Out

\* Members that no invariant is about.
Inert(c, d) ==
  /\ d.State = c.State /\ d.StateAfterFIN = c.StateAfterFIN
  /\ d.TxQueue = c.TxQueue /\ d.RxQueue = c.RxQueue /\ d.rtq = c.rtq
  /\ d.bRetransmit = c.bRetransmit /\ d.bSendSYN = c.bSendSYN /\ d.bFINQueued = c.bFINQueued
  /\ d.nRetransmissionCount = c.nRetransmissionCount /\ d.ISS = c.ISS
  /\ d.SND_UNA = c.SND_UNA /\ d.SND_NXT = c.SND_NXT /\ d.RCV_NXT = c.RCV_NXT
  /\ d.panic = c.panic /\ (Off(c) => Off(d))

LEMMA InertKept ==
  ASSUME NEW z, NEW c, NEW d, NEW g, Almost(z, c, g), Typed(z.n, d), Inert(c, d)
  PROVE  Almost(z, d, g) /\ Onward(z, c, d) /\ (RequestKept(c) => RequestKept(d))
<1>1. SenderKept(z, d)
  <2>1. SenderKept(z, c)
    BY DEF Almost
  <2> QED
    BY <2>1 DEF Inert, SenderKept, OpeningKept, OpenedKept, FlowingKept, EndingKept, SendingKept,
                PeerKept, FramesKept
<1>2. TimersKept(z, d) /\ HandshakeKept(z, d)
  BY DEF Almost, Inert, TimersKept, HandshakeKept
<1>3. ReceiverKept(z, d, g)
  <2>1. ReceiverKept(z, c, g)
    BY DEF Almost
  <2> QED
    BY <2>1 DEF Inert, ReceiverKept, ArrivedKept, InStep
<1>4. Onward(z, c, d)
  BY DEF Inert, Onward
<1> QED
  BY <1>1, <1>2, <1>3, <1>4 DEF Almost, RequestKept, Inert

\* A segment that acknowledges what has arrived.
LEMMA AckSent ==
  ASSUME NEW z, Scene(z), NEW c, NEW g, Almost(z, c, g), c.State \in Synchronized,
         NEW s, s.ack = c.RCV_NXT
  PROVE  AckKept(z, c, s)
<1> DEFINE R == g \o FlattenSeq(c.RxQueue)
           r == Diff(c.RCV_NXT, z.j)
<1>1. ArrivedKept(z, c, R)
  BY DEF Almost, ReceiverKept
<1>2. InStep(z, c, R) /\ Len(R) <= z.v /\ R = Run(0, Len(R))
  BY <1>1 DEF ArrivedKept
<1>3. Len(R) \in Nat
  <2>1. z.n \in Ends /\ Typed(z.n, c) /\ g \in Seq(Stream(Peer(z.n)))
    BY DEF Scene, Almost
  <2>2. c.RxQueue \in Seq(Seq(Stream(Peer(z.n))))
    BY <2>1, MembersAre
  <2>3. FlattenSeq(c.RxQueue) \in Seq(Stream(Peer(z.n)))
    BY <2>2, FlattenType
  <2> QED
    BY <2>1, <2>3
<1>4. r \in Nat /\ z.v \in Nat /\ Furthest(z.v) \in Nat /\ z.v + 2 <= Furthest(z.v)
  <2>1. z.n \in Ends /\ Typed(z.n, c) /\ z.j \in Numbers
    BY DEF Scene, Almost
  <2>2. c.RCV_NXT \in Numbers
    BY <2>1, MembersAre
  <2> QED
    BY <2>1, <2>2, DiffNat DEF Scene
<1>5. c.State # "SynSent" /\ c.State # "Listen"
  BY DEF Synchronized
<1>6. z.st \in Opening => r = 1
  BY <1>2 DEF InStep
<1>7. /\ r = 1 + Len(R) \/ (z.st \in Finished /\ 2 + z.v <= r /\ r <= Furthest(z.v))
      /\ Even(Len(R))
  BY <1>2 DEF InStep
<1> HIDE DEF r, R
<1>8. 1 <= r /\ r <= Furthest(z.v)
  BY <1>2, <1>3, <1>4, <1>7
<1>9. z.st \notin Finished => ~Even(r)
  <2>1. r = 1 + Len(R) => ~Even(r)
    BY <1>3, <1>7, EvenNext
  <2> QED
    BY <1>7, <2>1
<1>10. Diff(s.ack, z.j) = r /\ Diff(c.RCV_NXT, z.j) = r
  BY DEF r
<1> QED
  BY <1>4, <1>5, <1>6, <1>8, <1>9, <1>10 DEF AckKept

-----------------------------------------------------------------------------
(* Positions                                                               *)

LEMMA DiffSum ==
  ASSUME NEW i \in Numbers, NEW x \in Numbers, NEW y \in Numbers,
         Diff(y, i) + Diff(x, y) < NumMod
  PROVE  Diff(x, i) = Diff(y, i) + Diff(x, y)
<1>1. /\ Diff(x, i) = IF i <= x THEN x - i ELSE x - i + NumMod
      /\ Diff(y, i) = IF i <= y THEN y - i ELSE y - i + NumMod
      /\ Diff(x, y) = IF y <= x THEN x - y ELSE x - y + NumMod
  BY DiffIs
<1>2. /\ x \in 0 .. NumMod - 1 /\ i \in 0 .. NumMod - 1 /\ y \in 0 .. NumMod - 1
      /\ NumMod \in Nat
  BY ConstantsAre DEF Numbers
<1> QED
  BY <1>1, <1>2

LEMMA DiffSelf ==
  ASSUME NEW x \in Numbers
  PROVE  Diff(x, x) = 0
<1>1. x \in Int
  BY ConstantsAre DEF Numbers
<1> QED
  BY <1>1, DiffIs

\* One more.
LEMMA PlusOne ==
  ASSUME NEW i \in Numbers, NEW x \in Numbers, Diff(x, i) < Half
  PROVE  Plus(x, 1) \in Numbers /\ Diff(Plus(x, 1), i) = Diff(x, i) + 1
<1>1. Half \in Nat /\ Half >= 2 /\ NumMod = 2 * Half /\ Diff(x, i) \in Nat
  BY ConstantsAre, DiffNat
<1>2. Diff(x, i) + 1 < NumMod
  BY <1>1
<1> QED
  BY <1>2, PlusAt

\* A connection on which data flow: b bytes are acknowledged, the queue holds those
\* after them, and the frames those after the queue's.
Position(z, c, b, l) ==
  /\ b \in Nat /\ Even(b) /\ Diff(c.SND_UNA, z.i) = 1 + b
  /\ l = Len(c.rtq.data) /\ l \in Nat /\ Even(l) /\ b + l <= z.w
  /\ c.rtq.data = Run(b, l) /\ FlattenSeq(c.TxQueue) = Run(b + l, z.w - b - l)
  /\ c.rtq.pre \in Nat /\ c.rtq.pre <= l /\ c.rtq.pre <= Window /\ Even(c.rtq.pre)
  /\ c.rtq.over = 0 /\ c.ISS = z.i
  /\ Diff(c.SND_NXT, c.SND_UNA) = c.rtq.pre /\ Diff(c.SND_NXT, z.i) = 1 + b + c.rtq.pre
  /\ 1 + b <= z.r /\ z.r <= Furthest(z.w)

LEMMA FlowingIs ==
  ASSUME NEW z, Scene(z), NEW c, NEW g, Almost(z, c, g), c.State \in Flowing
  PROVE  Position(z, c, Diff(c.SND_UNA, z.i) - 1, Len(c.rtq.data))
<1> DEFINE b == Diff(c.SND_UNA, z.i) - 1
           l == Len(c.rtq.data)
<1>1. z.n \in Ends /\ Typed(z.n, c) /\ z.i \in Numbers /\ z.w \in Nat /\ z.r \in Nat
      /\ Furthest(z.w) \in Nat /\ Furthest(z.w) < Half /\ z.w + 2 <= Furthest(z.w)
  BY ConstantsAre DEF Almost, Scene, Numbers
<1>2. FlowingKept(z, c) /\ PeerKept(z, c)
  BY DEF Almost, SenderKept
<1>3. Holds(c.rtq, c.TxQueue, b, z.w) /\ c.ISS = z.i /\ c.rtq.over = 0
      /\ c.rtq.pre = Diff(c.SND_NXT, c.SND_UNA) /\ Even(c.rtq.pre) /\ c.rtq.pre <= Window
  BY <1>2 DEF FlowingKept
<1>4. /\ c.SND_UNA \in Numbers /\ c.SND_NXT \in Numbers /\ c.TxQueue \in Seq(Seq(Stream(z.n)))
      /\ c.rtq.data \in Seq(Stream(z.n)) /\ l \in Nat /\ c.rtq.pre \in Nat /\ c.rtq.pre <= l
  BY <1>1, MembersAre
<1>5. Diff(c.SND_UNA, z.i) \in Nat
  BY <1>1, <1>4, DiffNat
<1>6. Diff(c.SND_UNA, z.i) <= z.r /\ z.r <= Furthest(z.w)
  BY <1>2 DEF PeerKept
<1>7. FlattenSeq(c.TxQueue) \in Seq(Stream(z.n))
  BY <1>4, FlattenType
<1>8. b \in Nat /\ b <= z.w /\ Even(b) /\ c.rtq.data \o FlattenSeq(c.TxQueue) = Run(b, z.w - b)
      /\ Even(l) /\ Diff(c.SND_UNA, z.i) = 1 + b
  BY <1>3, <1>5 DEF Holds
<1>9. z.w - b \in Nat /\ b \in Int
  BY <1>1, <1>8
<1> DEFINE F == FlattenSeq(c.TxQueue)
           k == z.w - b
           q == c.rtq.data
           S == Stream(z.n)
<1>10a. /\ b \in Int /\ k \in Nat /\ q \in Seq(S) /\ F \in Seq(S) /\ q \o F = Run(b, k)
       /\ l = Len(q)
  BY <1>4, <1>7, <1>8, <1>9
<1> HIDE DEF F, b, k, l, q, S
<1>10b. Joined(S, q, F, b, k)
  BY <1>10a DEF Joined
<1>10c. Halves(q, F, b, k)
  BY <1>10b, RunSplit
<1>10. l + Len(F) = k /\ c.rtq.data = Run(b, l) /\ F = Run(b + l, Len(F))
  BY <1>10a, <1>10c DEF q, Halves
<1>11. Len(F) \in Nat
  BY <1>10a
<1>12. Len(F) = z.w - b - l /\ b + l <= z.w
  <2>1. z.w \in Int /\ b \in Int /\ l \in Int /\ Len(F) \in Nat /\ l + Len(F) = z.w - b
    BY <1>1, <1>4, <1>8, <1>10, <1>11 DEF k
  <2> QED
    BY ONLY <2>1
<1>13. Diff(c.SND_NXT, z.i) = 1 + b + c.rtq.pre
  <2>1. Half \in Nat /\ NumMod = 2 * Half
    BY ConstantsAre
  <2>2. Diff(c.SND_UNA, z.i) + Diff(c.SND_NXT, c.SND_UNA) < NumMod
    BY <1>1, <1>3, <1>4, <1>8, <1>12, <2>1, SMTT(30)
  <2> QED
    BY <1>1, <1>3, <1>4, <1>8, <2>2, DiffSum
<1>14. F = Run(b + l, z.w - b - l)
  BY <1>10, <1>12
<1>15. 1 + b <= z.r
  BY <1>6, <1>8
<1>16. l = Len(c.rtq.data)
  BY DEF l
<1>17. Position(z, c, b, l)
  BY <1>3, <1>4, <1>6, <1>8, <1>10, <1>12, <1>13, <1>14, <1>15, <1>16 DEF Position, F
<1> QED
  BY <1>17 DEF b, l

\* The other way round.
LEMMA PositionFlowing ==
  ASSUME NEW z, Scene(z), NEW c, Typed(z.n, c), NEW b, NEW l, Position(z, c, b, l)
  PROVE  FlowingKept(z, c)
<1>1. z.n \in Ends /\ z.w \in Nat /\ b \in Nat /\ l \in Nat /\ b + l <= z.w
  BY DEF Position, Scene
<1>2. c.rtq.data = Run(b, l) /\ FlattenSeq(c.TxQueue) = Run(b + l, z.w - b - l)
      /\ l = Len(c.rtq.data)
  BY DEF Position
<1> DEFINE m == z.w - b - l
<1>3. m \in Nat /\ l + m = z.w - b
  BY <1>1
<1> HIDE DEF m
<1>4. Run(b, l) \o Run(b + l, m) = Run(b, l + m)
  <2>1. b \in Int /\ l \in Nat /\ m \in Nat
    BY <1>1, <1>3
  <2> QED
    BY ONLY <2>1, RunJoin
<1>5. c.rtq.data \o FlattenSeq(c.TxQueue) = Run(b, z.w - b)
  BY <1>2, <1>3, <1>4 DEF m
<1>6. Diff(c.SND_UNA, z.i) - 1 = b
  BY <1>1 DEF Position
<1>7. b >= 0 /\ b <= z.w
  BY <1>1
<1>8. Even(b) /\ Even(Len(c.rtq.data))
  BY <1>2 DEF Position
<1>9. Holds(c.rtq, c.TxQueue, b, z.w)
  BY <1>5, <1>7, <1>8 DEF Holds
<1> QED
  BY <1>6, <1>9 DEF Position, FlowingKept

-----------------------------------------------------------------------------
(* Segments that are sent                                                  *)

LEMMA SegmentHas ==
  ASSUME NEW flags, NEW seq, NEW ack, NEW data
  PROVE  /\ Segment(flags, seq, ack, data).flags = flags
         /\ Segment(flags, seq, ack, data).seq = seq
         /\ Segment(flags, seq, ack, data).data = data
         /\ "ACK" \in flags => Segment(flags, seq, ack, data).ack = ack
BY DEF Segment

LEMMA SentKept ==
  ASSUME NEW z, Scene(z), NEW c, NEW d, Typed(z.n, c), Typed(z.n, d), Onward(z, c, d),
         Out(z, c, c.out), NEW X, d.out = c.out \cup X, Out(z, d, X)
  PROVE  Out(z, d, d.out)
<1>1. c.out \subseteq Segments(z.n)
  BY MembersAre DEF Scene
<1>2. Out(z, d, c.out)
  BY <1>1, OnwardOut
<1> QED
  BY <1>2, OutBoth

LEMMA NothingSent ==
  ASSUME NEW z, Scene(z), NEW c, NEW d, Typed(z.n, c), Typed(z.n, d), Onward(z, c, d),
         Out(z, c, c.out), d.out = c.out
  PROVE  Out(z, d, d.out)
<1>1. c.out \subseteq Segments(z.n)
  BY MembersAre DEF Scene
<1> QED
  BY <1>1, OnwardOut

\* A segment without data.
LEMMA AckOut ==
  ASSUME NEW z, Scene(z), NEW c, NEW g, Almost(z, c, g), c.State \in Synchronized,
         NEW x, NEW s, s = Segment({"ACK"}, x, c.RCV_NXT, <<>>)
  PROVE  Out(z, c, {s})
<1>1. s.flags = {"ACK"} /\ s.ack = c.RCV_NXT /\ s.data = <<>>
  BY SegmentHas
<1>2. AckKept(z, c, s)
  BY <1>1, AckSent
<1> QED
  BY <1>1, <1>2 DEF Out, DataKept, FinKept, SynKept

LEMMA ResetOut ==
  ASSUME NEW z, NEW c, NEW flags \in {{"RST"}, {"RST", "ACK"}}, NEW x, NEW y,
         NEW s, s = Segment(flags, x, y, <<>>)
  PROVE  Out(z, c, {s})
<1>1. s.flags \in {{"RST"}, {"RST", "ACK"}} /\ s.data = <<>>
  BY SegmentHas
<1> QED
  BY <1>1 DEF Out, DataKept, FinKept, SynKept, AckKept, Acks

\* What the lemmas on handlers say of the members c and what a handler makes of them.
Sound(z, c, g) == Almost(z, c, g) /\ Out(z, c, c.out)

LEMMA SendAckKept ==
  ASSUME NEW z, Scene(z), NEW c, NEW g, Sound(z, c, g), c.State \in Synchronized
  PROVE  /\ Sound(z, SendAck(c), g) /\ Onward(z, c, SendAck(c)) /\ Inert(c, SendAck(c))
<1> DEFINE d == SendAck(c)
           s == Segment({"ACK"}, c.SND_NXT, c.RCV_NXT, <<>>)
<1>1. Almost(z, c, g) /\ Out(z, c, c.out) /\ Typed(z.n, c) /\ z.n \in Ends
  BY DEF Sound, Almost, Scene
<1>2. Typed(z.n, d)
  BY <1>1, SendAckTyped
<1>3. Inert(c, d) /\ d.out = c.out \cup {s}
  BY <1>1 DEF SendAck, SendSegment, Inert, Off, Typed, Connection
<1> HIDE DEF d
<1>4. Almost(z, d, g) /\ Onward(z, c, d)
  BY <1>1, <1>2, <1>3, InertKept
<1>5. d.State \in Synchronized /\ d.RCV_NXT = c.RCV_NXT
  BY <1>3 DEF Inert
<1>6. Out(z, d, {s})
  BY <1>4, <1>5, AckOut
<1>7. Out(z, d, d.out)
  BY <1>1, <1>2, <1>3, <1>4, <1>6, SentKept
<1> QED
  BY <1>3, <1>4, <1>7 DEF d, Sound

-----------------------------------------------------------------------------
(* Process                                                                 *)

\* The FIN that may go has a number after the bytes, and there is one left for
\* each retransmission.
LEMMA FINPosition ==
  ASSUME NEW z, Scene(z), NEW c, NEW g, Almost(z, c, g), c.State \in Flowing \cup Sending,
         FINMayGo(c), ~c.bTimedOut
  PROVE  /\ c.ISS = z.i /\ c.rtq.data = <<>> /\ c.TxQueue = <<>>
         /\ 1 + z.w <= Diff(c.SND_UNA, z.i) /\ Diff(c.SND_UNA, z.i) <= Diff(c.SND_NXT, z.i)
         /\ Diff(c.SND_NXT, z.i) + c.nRetransmissionCount + 1 <= Furthest(z.w)
         /\ Diff(c.SND_NXT, z.i) < Furthest(z.w)
<1> DEFINE U == Diff(c.SND_UNA, z.i)
           N == Diff(c.SND_NXT, z.i)
           k == c.nRetransmissionCount
           p == c.rtq.pre
           w == z.w
           F == Furthest(w)
           Goal == 1 + w <= U /\ U <= N /\ N + k + 1 <= F /\ N < F
<1>1. z.n \in Ends /\ Typed(z.n, c) /\ z.i \in Numbers /\ w \in Nat
  BY DEF Almost, Scene
<1>2. /\ c.SND_UNA \in Numbers /\ c.SND_NXT \in Numbers /\ k \in Int /\ p \in Nat
      /\ k <= MAX_RETRANSMISSIONS /\ p <= Len(c.rtq.data) /\ -1 <= k
  BY <1>1, MembersAre
<1>3. k >= 0
  <2>1. k # -1
    BY <1>1 DEF Typed
  <2> QED
    BY <1>2, <2>1
<1>4. U \in Nat /\ N \in Nat
  BY <1>1, <1>2, DiffNat
<1>5. c.bFINQueued /\ c.rtq.data = <<>> /\ c.TxQueue = <<>>
  BY DEF FINMayGo, IsEmpty
<1>6. F = 2 + w + MAX_RETRANSMISSIONS /\ MAX_RETRANSMISSIONS \in Nat
  BY ConstantsAre DEF Furthest
<1>7. ASSUME c.State \in Flowing PROVE c.ISS = z.i /\ Goal
  <2> DEFINE b == Diff(c.SND_UNA, z.i) - 1
             l == Len(c.rtq.data)
  <2>1. Position(z, c, b, l)
    BY <1>7, FlowingIs
  <2>2. l = 0 /\ p <= l
    BY <1>2, <1>5
  <2>3. FlattenSeq(c.TxQueue) = <<>>
    BY <1>5, FlattenEmpty
  <2> HIDE DEF b, l, U, N, k, p, w, F
  <2>4. /\ Run(b + l, w - b - l) = <<>> /\ b \in Nat /\ b + l <= w
        /\ U = 1 + b /\ N = 1 + b + p /\ c.ISS = z.i
    BY <2>1, <2>3 DEF Position, U, N, w, p
  <2>5. b + l \in Int /\ w - b - l \in Nat
    BY <1>1, <2>2, <2>4
  <2>6. w - b - l = 0
    BY <2>4, <2>5, RunIs
  <2>7. /\ U = 1 + b /\ N = 1 + b + p /\ b \in Nat /\ l = 0 /\ p \in Nat /\ p <= l /\ w \in Nat
        /\ w - b - l = 0 /\ k \in Int /\ k >= 0 /\ k <= MAX_RETRANSMISSIONS
        /\ F = 2 + w + MAX_RETRANSMISSIONS /\ MAX_RETRANSMISSIONS \in Nat
    BY <1>1, <1>2, <1>3, <1>6, <2>2, <2>4, <2>6
  <2>8. Goal
    BY ONLY <2>7
  <2> QED
    BY <2>4, <2>8
<1>8. ASSUME c.State \in Sending PROVE c.ISS = z.i /\ Goal
  <2>1. EndingKept(z, c) /\ SendingKept(z, c)
    BY DEF Almost, SenderKept
  <2>2. c.ISS = z.i /\ 1 + w <= U /\ U <= N
    BY <1>8, <2>1 DEF EndingKept, Sending, Ending
  <2>3. N + k + 1 <= F
    BY <1>5, <1>8, <2>1 DEF SendingKept
  <2> HIDE DEF U, N, k, p, w, F
  <2>4. Goal
    BY ONLY <1>1, <1>2, <1>3, <1>4, <1>6, <2>2, <2>3
  <2> QED
    BY <2>2, <2>4
<1> QED
  BY <1>5, <1>7, <1>8

LEMMA SendFINKept ==
  ASSUME NEW z, Scene(z), NEW c, NEW g, Sound(z, c, g), c.State \in Flowing \cup Sending,
         ~c.bTimedOut, NEW d, d = SendFIN(c)
  PROVE  /\ Sound(z, d, g) /\ Onward(z, c, d) /\ d.State \in Flowing \cup Sending
         /\ ~d.bTimedOut
<1>1. Almost(z, c, g) /\ Out(z, c, c.out) /\ Typed(z.n, c) /\ z.n \in Ends
      /\ g \in Seq(Stream(Peer(z.n)))
  BY DEF Sound, Almost, Scene
<1>2. CASE ~FINMayGo(c)
  <2>1. d = c
    BY <1>2 DEF SendFIN
  <2> QED
    BY <2>1, OnwardStill
<1>3. CASE FINMayGo(c)
  <2> DEFINE s == Segment({"FIN", "ACK"}, c.SND_NXT, c.RCV_NXT, <<>>)
             N == Diff(c.SND_NXT, z.i)
             U == Diff(c.SND_UNA, z.i)
  <2>1. /\ d.State = c.StateAfterFIN /\ d.StateAfterFIN = c.StateAfterFIN
        /\ d.TxQueue = c.TxQueue /\ d.RxQueue = c.RxQueue /\ d.rtq = c.rtq
        /\ d.bSendSYN = c.bSendSYN /\ d.bFINQueued = FALSE
        /\ d.nRetransmissionCount = c.nRetransmissionCount /\ d.ISS = c.ISS
        /\ d.SND_UNA = c.SND_UNA /\ d.SND_NXT = Plus(c.SND_NXT, 1) /\ d.RCV_NXT = c.RCV_NXT
        /\ d.panic = c.panic /\ d.bTimedOut = c.bTimedOut
        /\ d.out = c.out \cup {s} /\ d.hTimer = c.hTimer \cup {"Retransmission"}
    BY <1>1, <1>3 DEF SendFIN, SendSegment, StartTimer, Typed, Connection
  <2>2. Typed(z.n, d)
    BY <1>1, SendFINTyped
  <2>3. /\ c.ISS = z.i /\ c.rtq.data = <<>> /\ c.TxQueue = <<>>
        /\ 1 + z.w <= U /\ U <= N /\ N + c.nRetransmissionCount + 1 <= Furthest(z.w)
        /\ N < Furthest(z.w)
    BY <1>1, <1>3, FINPosition
  <2>4. /\ c.SND_UNA \in Numbers /\ c.SND_NXT \in Numbers /\ z.i \in Numbers
        /\ c.nRetransmissionCount \in Int
        /\ c.StateAfterFIN \in {"Closed", "FinWait1", "LastAck"}
    BY <1>1, MembersAre DEF Scene
  <2>5. N \in Nat /\ U \in Nat /\ Furthest(z.w) \in Nat /\ Furthest(z.w) < Half /\ Half \in Nat
        /\ z.w \in Nat
    BY <2>4, DiffNat, ConstantsAre DEF Scene
  <2>6. Diff(d.SND_NXT, z.i) = N + 1 /\ Diff(d.SND_UNA, z.i) = U
    <3>1. N < Half
      BY <2>3, <2>5
    <3> QED
      BY <2>1, <2>4, <3>1, PlusOne
  <2>7. c.bFINQueued /\ TimersKept(z, c) /\ SenderKept(z, c) /\ HandshakeKept(z, c)
        /\ ReceiverKept(z, c, g)
    BY <1>1, <1>3 DEF FINMayGo, Almost
  <2>8. d.State \in {"FinWait1", "LastAck"} /\ (d.State = "LastAck" => c.State \in AfterFIN)
    BY <2>1, <2>4, <2>7 DEF TimersKept, Flowing, Sending, AfterFIN
  <2>9. c.State \in Flowing \cup Ending /\ c.State \in Synchronized
    BY DEF Flowing, Sending, Ending, Synchronized, States
  <2> HIDE DEF s, N, U
  <2>10. SenderKept(z, d)
    <3>1. OpeningKept(z, d) /\ OpenedKept(z, d) /\ FlowingKept(z, d)
      BY <2>8 DEF OpeningKept, OpenedKept, FlowingKept, Opening, Flowing
    <3>2. EndingKept(z, d)
      BY <2>1, <2>3, <2>5, <2>6 DEF EndingKept
    <3>3. SendingKept(z, d)
      BY <2>1, <2>3, <2>4, <2>5, <2>6 DEF SendingKept
    <3>4. PeerKept(z, d)
      BY <2>1, <2>7, <2>9 DEF PeerKept, SenderKept
    <3>5. FramesKept(z, d)
      BY <2>1, <2>7 DEF FramesKept, SenderKept
    <3> QED
      BY <3>1, <3>2, <3>3, <3>4, <3>5 DEF SenderKept
  <2>11. TimersKept(z, d)
    BY <2>1, <2>7, <2>8, <2>9 DEF TimersKept, Sending, Flowing, Ending
  <2>12. ReceiverKept(z, d, g)
    <3> DEFINE R == g \o FlattenSeq(c.RxQueue)
    <3>1. ArrivedKept(z, c, R)
      BY <2>7 DEF ReceiverKept
    <3> HIDE DEF R
    <3>2. InStep(z, d, R)
      BY <2>1, <2>8, <2>9, <3>1 DEF ArrivedKept, InStep, AfterFIN
    <3>3. ArrivedKept(z, d, R)
      BY <2>8, <3>1, <3>2 DEF ArrivedKept, Opening
    <3> QED
      BY <2>1, <3>3 DEF R, ReceiverKept
  <2>13. HandshakeKept(z, d)
    BY <2>7, <2>8, <2>9 DEF HandshakeKept, Flowing, Ending, Early
  <2>14. Almost(z, d, g)
    BY <1>1, <2>2, <2>10, <2>11, <2>12, <2>13 DEF Almost
  <2>15. Onward(z, c, d)
    BY <2>1, <2>8 DEF Onward, Opening, Finished, Ending
  <2>16. Out(z, d, {s})
    <3>1. s.flags = {"FIN", "ACK"} /\ s.ack = c.RCV_NXT /\ s.data = <<>> /\ s.seq = c.SND_NXT
      BY SegmentHas DEF s
    <3>2. d.State \in Synchronized
      BY <2>8 DEF Synchronized, States
    <3>3. AckKept(z, d, s)
      BY <2>1, <2>14, <3>1, <3>2, AckSent
    <3>4. 1 + z.w <= N /\ N < Furthest(z.w)
      BY <2>3, <2>5
    <3>5. FinKept(z, d, s)
      BY <2>8, <3>1, <3>4 DEF FinKept, Finished, Ending, N
    <3> QED
      BY <3>1, <3>3, <3>5 DEF Out, DataKept, SynKept
  <2>17. Out(z, d, d.out)
    BY <1>1, <2>1, <2>2, <2>15, <2>16, SentKept
  <2> QED
    BY <2>1, <2>8, <2>14, <2>15, <2>17 DEF Sound, Sending
<1> QED
  BY <1>2, <1>3

\* What has not been sent keeps its place.
LEMMA FillQueueKept ==
  ASSUME NEW z, Scene(z), NEW c, NEW g, Sound(z, c, g), c.State \in Flowing \cup Sending,
         ~c.bTimedOut, NEW d, d = FillQueue(c)
  PROVE  /\ Sound(z, d, g) /\ Onward(z, c, d) /\ d.State \in Flowing \cup Sending
         /\ ~d.bTimedOut
<1>1. Almost(z, c, g) /\ Out(z, c, c.out) /\ Typed(z.n, c) /\ z.n \in Ends
      /\ g \in Seq(Stream(Peer(z.n)))
  BY DEF Sound, Almost, Scene
<1>2. Typed(z.n, d) /\ ~d.bTimedOut
  BY <1>1, FillQueueTyped
<1>3. PICK m \in 0 .. Len(c.TxQueue) : \E data \in Seq(Stream(z.n)),
                                          rest \in Seq(Seq(Stream(z.n))) :
        /\ FillQueue(c) = [c EXCEPT !.rtq.data = data, !.TxQueue = rest]
        /\ Len(c.rtq.data) <= Len(data) /\ Len(data) <= Capacity
        /\ Len(rest) = Len(c.TxQueue) - m
        /\ Among(rest, c.TxQueue)
        /\ data \o FlattenSeq(rest) = Queued(c)
  BY <1>1, FillQueueIs
<1>4. PICK data \in Seq(Stream(z.n)), rest \in Seq(Seq(Stream(z.n))) :
        /\ FillQueue(c) = [c EXCEPT !.rtq.data = data, !.TxQueue = rest]
        /\ Len(rest) = Len(c.TxQueue) - m
        /\ Among(rest, c.TxQueue)
        /\ data \o FlattenSeq(rest) = Queued(c)
  BY <1>3
<1>5. /\ d.State = c.State /\ d.StateAfterFIN = c.StateAfterFIN
      /\ d.TxQueue = rest /\ d.RxQueue = c.RxQueue
      /\ d.rtq.data = data /\ d.rtq.pre = c.rtq.pre /\ d.rtq.over = c.rtq.over
      /\ d.bRetransmit = c.bRetransmit
      /\ d.bSendSYN = c.bSendSYN /\ d.bFINQueued = c.bFINQueued
      /\ d.nRetransmissionCount = c.nRetransmissionCount /\ d.ISS = c.ISS
      /\ d.SND_UNA = c.SND_UNA /\ d.SND_NXT = c.SND_NXT /\ d.RCV_NXT = c.RCV_NXT
      /\ d.panic = c.panic /\ d.out = c.out /\ d.hTimer = c.hTimer
  BY <1>1, <1>4 DEF Typed, Connection
<1>6. TimersKept(z, c) /\ SenderKept(z, c) /\ HandshakeKept(z, c) /\ ReceiverKept(z, c, g)
  BY <1>1 DEF Almost
<1>7. c.State \in Flowing \cup Ending /\ c.State \notin Opening
  BY DEF Flowing, Ending, Sending, Opening
<1>8. EvenFrames(rest)
  <2>1. FramesKept(z, c)
    BY <1>6 DEF SenderKept
  <2> QED
    BY <1>4, <2>1 DEF Among, FramesKept, EvenFrames
<1>9. FlowingKept(z, d)
  <2>1. SUFFICES ASSUME c.State \in Flowing PROVE FlowingKept(z, d)
    BY <1>5 DEF FlowingKept
  <2> DEFINE b == Diff(c.SND_UNA, z.i) - 1
             k == z.w - b
             Y == FlattenSeq(rest)
  <2>2. FlowingKept(z, c)
    BY <1>6 DEF SenderKept
  <2>3. Holds(c.rtq, c.TxQueue, b, z.w)
    BY <2>1, <2>2 DEF FlowingKept
  <2>4. Y \in Seq(Stream(z.n)) /\ Even(Len(Y)) /\ Len(Y) \in Nat /\ Len(data) \in Nat
    BY <1>8, FlattenEven, FlattenType
  <2>5. b \in Int /\ k \in Nat /\ data \o Y = Run(b, k)
    <3>1. c.SND_UNA \in Numbers /\ z.i \in Numbers /\ z.w \in Nat
      BY <1>1, MembersAre DEF Scene
    <3>2. Diff(c.SND_UNA, z.i) \in Int
      BY <3>1, DiffNat
    <3> QED
      BY <1>4, <2>3, <3>1, <3>2 DEF Holds, Queued
  <2>6a. Even(b) /\ Even(z.w) /\ z.w \in Int /\ k = z.w - b
    BY <1>6, <2>3 DEF Holds, SenderKept, FramesKept, Scene
  <2> HIDE DEF b, k, Y
  <2>6. Even(k)
    BY <2>5, <2>6a, EvenDifference
  <2>7. Halves(data, Y, b, k)
    <3>1. Joined(Stream(z.n), data, Y, b, k)
      BY <2>4, <2>5 DEF Joined
    <3> QED
      BY <3>1, RunSplit
  <2>8. Len(data) = k - Len(Y)
    BY <2>4, <2>5, <2>7 DEF Halves
  <2>9. Even(Len(data))
    <3>1. k \in Int /\ Len(Y) \in Int
      BY <2>4, <2>5
    <3> QED
      BY <2>4, <2>6, <2>8, <3>1, EvenDifference
  <2>10. Holds(d.rtq, d.TxQueue, b, z.w)
    BY <1>5, <2>3, <2>5, <2>9 DEF Holds, Y, k
  <2> QED
    BY <1>5, <2>1, <2>2, <2>10 DEF FlowingKept, b
<1>10. EndingKept(z, d)
  <2>1. SUFFICES ASSUME c.State \in Ending PROVE EndingKept(z, d)
    BY <1>5 DEF EndingKept
  <2>2. EndingKept(z, c)
    BY <1>6 DEF SenderKept
  <2>3. c.rtq.data = <<>> /\ c.TxQueue = <<>>
    BY <2>1, <2>2 DEF EndingKept
  <2>4. Queued(c) = <<>>
    BY <2>3, FlattenEmpty DEF Queued
  <2>5. rest = <<>>
    BY <1>4, <2>3
  <2>6. FlattenSeq(rest) = <<>>
    BY <2>5, FlattenEmpty
  <2>7. data = <<>>
    BY <1>4, <2>4, <2>6
  <2> QED
    BY <1>5, <2>1, <2>2, <2>5, <2>7 DEF EndingKept
<1>11. SenderKept(z, d)
  <2>1. OpeningKept(z, d) /\ OpenedKept(z, d)
    BY <1>5, <1>7 DEF OpeningKept, OpenedKept, Opening
  <2>2. SendingKept(z, d) /\ PeerKept(z, d)
    BY <1>5, <1>6 DEF SendingKept, PeerKept, SenderKept
  <2>3. FramesKept(z, d)
    BY <1>5, <1>6, <1>8 DEF FramesKept, EvenFrames, SenderKept
  <2> QED
    BY <1>9, <1>10, <2>1, <2>2, <2>3 DEF SenderKept
<1>12. TimersKept(z, d) /\ HandshakeKept(z, d)
  BY <1>5, <1>6 DEF TimersKept, HandshakeKept, Off
<1>13. ReceiverKept(z, d, g)
  BY <1>5, <1>6 DEF ReceiverKept, ArrivedKept, InStep
<1>14. Almost(z, d, g)
  BY <1>1, <1>2, <1>11, <1>12, <1>13 DEF Almost
<1>15. Onward(z, c, d)
  BY <1>5 DEF Onward
<1>16. Out(z, d, d.out)
  BY <1>1, <1>2, <1>5, <1>15, NothingSent
<1> QED
  BY <1>2, <1>5, <1>14, <1>15, <1>16 DEF Sound

LEMMA GoBackKept ==
  ASSUME NEW z, Scene(z), NEW c, NEW g, Sound(z, c, g), c.State \in Flowing \cup Sending,
         ~c.bTimedOut, NEW d, d = GoBack(c)
  PROVE  /\ Sound(z, d, g) /\ Onward(z, c, d) /\ d.State \in Flowing \cup Sending
         /\ ~d.bTimedOut /\ ~d.bRetransmit
<1>1. Almost(z, c, g) /\ Out(z, c, c.out) /\ Typed(z.n, c) /\ z.n \in Ends
      /\ g \in Seq(Stream(Peer(z.n)))
  BY DEF Sound, Almost, Scene
<1>2. CASE ~c.bRetransmit
  <2>1. d = c
    BY <1>2 DEF GoBack
  <2> QED
    BY <1>2, <2>1, OnwardStill
<1>3. CASE c.bRetransmit
  <2>1. /\ d.State = c.State /\ d.StateAfterFIN = c.StateAfterFIN
        /\ d.TxQueue = c.TxQueue /\ d.RxQueue = c.RxQueue
        /\ d.rtq.data = c.rtq.data /\ d.rtq.pre = 0 /\ d.rtq.over = c.rtq.over
        /\ d.bRetransmit = FALSE
        /\ d.bSendSYN = c.bSendSYN /\ d.bFINQueued = c.bFINQueued
        /\ d.nRetransmissionCount = c.nRetransmissionCount /\ d.ISS = c.ISS
        /\ d.SND_UNA = c.SND_UNA /\ d.SND_NXT = c.SND_UNA /\ d.RCV_NXT = c.RCV_NXT
        /\ d.panic = c.panic /\ d.out = c.out /\ d.hTimer = c.hTimer
    BY <1>1, <1>3 DEF GoBack, Typed, Connection
  <2>2. Typed(z.n, d) /\ ~d.bTimedOut
    BY <1>1, GoBackTyped
  <2>3. TimersKept(z, c) /\ SenderKept(z, c) /\ HandshakeKept(z, c) /\ ReceiverKept(z, c, g)
    BY <1>1 DEF Almost
  <2>4. c.State \in Flowing \cup Ending /\ c.State \notin Opening
    BY DEF Flowing, Ending, Sending, Opening
  <2> DEFINE U == Diff(c.SND_UNA, z.i)
             N == Diff(c.SND_NXT, z.i)
  <2>5. c.SND_UNA \in Numbers /\ c.SND_NXT \in Numbers /\ U \in Nat /\ N \in Nat
        /\ c.nRetransmissionCount \in Int /\ Furthest(z.w) \in Nat /\ Window \in Nat
    <3>1. z.i \in Numbers /\ Furthest(z.w) \in Nat
      BY DEF Scene
    <3> QED
      BY <1>1, <3>1, MembersAre, DiffNat, ConstantsAre
  <2>6. Diff(d.SND_NXT, z.i) = U /\ Diff(d.SND_UNA, z.i) = U
        /\ Diff(d.SND_NXT, d.SND_UNA) = 0
    BY <2>1, <2>5, DiffSelf
  <2>7. FlowingKept(z, d)
    <3>1. FlowingKept(z, c)
      BY <2>3 DEF SenderKept
    <3>2. Holds(c.rtq, c.TxQueue, U - 1, z.w) => Holds(d.rtq, d.TxQueue, U - 1, z.w)
      BY <2>1 DEF Holds
    <3>3. Even(0) /\ 0 <= Window
      BY <2>5, EvenZero
    <3> HIDE DEF U
    <3> QED
      BY <2>1, <2>6, <3>1, <3>2, <3>3 DEF FlowingKept, U
  <2>8. EndingKept(z, d) /\ SendingKept(z, d)
    <3>1. EndingKept(z, c) /\ SendingKept(z, c)
      BY <2>3 DEF SenderKept
    <3>2. c.State \in Ending => U <= N /\ U <= Furthest(z.w)
      BY <2>5, <3>1 DEF EndingKept
    <3>3. EndingKept(z, d)
      BY <2>1, <2>5, <2>6, <3>1, <3>2 DEF EndingKept
    <3> DEFINE t == IF c.bFINQueued THEN 1 ELSE 0
    <3>4. c.State \in Sending => N + c.nRetransmissionCount + t <= Furthest(z.w)
      BY <3>1 DEF SendingKept
    <3>5. t \in Int
      OBVIOUS
    <3> HIDE DEF t, U, N
    <3>6. c.State \in Sending => U <= N
      BY <3>2 DEF Sending, Ending
    <3>7. c.State \in Sending => U + c.nRetransmissionCount + t <= Furthest(z.w)
      BY <2>5, <3>4, <3>5, <3>6
    <3>8. SendingKept(z, d)
      BY <2>1, <2>6, <3>7 DEF SendingKept, t
    <3> QED
      BY <3>3, <3>8
  <2>9. SenderKept(z, d)
    <3>1. OpeningKept(z, d) /\ OpenedKept(z, d)
      BY <2>1, <2>4 DEF OpeningKept, OpenedKept, Opening
    <3>2. PeerKept(z, d) /\ FramesKept(z, d)
      BY <2>1, <2>3 DEF PeerKept, FramesKept, SenderKept
    <3> QED
      BY <2>7, <2>8, <3>1, <3>2 DEF SenderKept
  <2>10. TimersKept(z, d) /\ HandshakeKept(z, d)
    BY <2>1, <2>3 DEF TimersKept, HandshakeKept, Off
  <2>11. ReceiverKept(z, d, g)
    BY <2>1, <2>3 DEF ReceiverKept, ArrivedKept, InStep
  <2>12. Almost(z, d, g)
    BY <1>1, <2>2, <2>9, <2>10, <2>11 DEF Almost
  <2>13. Onward(z, c, d)
    BY <2>1 DEF Onward
  <2>14. Out(z, d, d.out)
    BY <1>1, <2>1, <2>2, <2>13, NothingSent
  <2> QED
    BY <2>1, <2>2, <2>12, <2>13, <2>14 DEF Sound
<1> QED
  BY <1>2, <1>3

PartIs(t, s, p, m) == t = SubSeq(s, p + 1, p + m)

LEMMA RunPart ==
  ASSUME NEW b \in Int, NEW l \in Nat, NEW p \in Nat, NEW m \in Nat, p + m <= l,
         NEW s, s = Run(b, l), NEW t, PartIs(t, s, p, m)
  PROVE  t = Run(b + p, m)
<1> DEFINE u == p + 1
           v == p + m
<1>1. u \in 1 .. v + 1 /\ v \in Nat /\ v <= l /\ b + u - 1 = b + p /\ v - u + 1 = m
  OBVIOUS
<1>2. t = SubSeq(Run(b, l), u, v)
  BY DEF PartIs
<1> HIDE DEF u, v
<1>3. SubSeq(Run(b, l), u, v) = Run(b + u - 1, v - u + 1)
  BY <1>1, RunPiece
<1> QED
  BY <1>1, <1>2, <1>3

\* A segment of the queue's data carries the bytes that belong to its number.
LEMMA CarriedBytes ==
  ASSUME NEW z, Scene(z), NEW c, Typed(z.n, c), NEW b, NEW l, Position(z, c, b, l),
         NEW k \in Nat, c.rtq.pre + k <= l, Even(k), Even(MSS),
         NEW s, NEW a, NEW m, Cuts(k, a, m), Carries(c, s, a, m)
  PROVE  /\ s.flags \in {{"ACK"}, {"ACK", "PSH"}} /\ s.ack = c.RCV_NXT
         /\ Bytes(s.data, Diff(s.seq, z.i) - 1, z.w)
<1> DEFINE p == c.rtq.pre + a
<1>1. a \in Nat /\ m \in Nat /\ m >= 1 /\ a + m <= k /\ (m = MSS \/ a + m = k)
      /\ \E h \in Nat : a = h * MSS
  BY ConstantsAre DEF Cuts
<1>2. PICK flags \in {{"ACK"}, {"ACK", "PSH"}} :
        s = Segment(flags, Plus(c.SND_NXT, a), c.RCV_NXT,
                    SubSeq(c.rtq.data, c.rtq.pre + a + 1, c.rtq.pre + a + m))
  BY DEF Carries
<1>3. s.flags = flags /\ s.ack = c.RCV_NXT /\ s.seq = Plus(c.SND_NXT, a)
      /\ PartIs(s.data, c.rtq.data, p, m)
  <2> DEFINE x == Plus(c.SND_NXT, a)
             y == SubSeq(c.rtq.data, c.rtq.pre + a + 1, c.rtq.pre + a + m)
  <2>1. PartIs(y, c.rtq.data, p, m)
    BY DEF PartIs
  <2>2. s = Segment(flags, x, c.RCV_NXT, y) /\ "ACK" \in flags
    BY <1>2
  <2> HIDE DEF x, y
  <2>3. s.flags = flags /\ s.ack = c.RCV_NXT /\ s.seq = x /\ s.data = y
    BY <2>2, SegmentHas
  <2> QED
    BY <2>1, <2>3 DEF x
<1>4. /\ b \in Nat /\ l \in Nat /\ c.rtq.pre \in Nat /\ c.rtq.data = Run(b, l) /\ Even(b)
      /\ Even(c.rtq.pre) /\ b + l <= z.w /\ Diff(c.SND_NXT, z.i) = 1 + b + c.rtq.pre
  BY DEF Position
<1>5. p \in Nat /\ p + m <= l
  BY <1>1, <1>4
<1>6. Even(a)
  <2>1. PICK h \in Nat : a = h * MSS
    BY <1>1
  <2>2. MSS \in Nat
    BY ConstantsAre
  <2> QED
    BY <2>1, <2>2, EvenMultiple
<1>7. Even(m)
  <2>1. a + m = k => m = k - a
    BY <1>1
  <2>2. a + m = k => Even(m)
    BY <1>1, <1>6, <2>1, EvenDifference
  <2> QED
    BY <1>1, <2>2
<1>8. Even(p)
  <2> DEFINE q == c.rtq.pre
  <2>1. q \in Int /\ a \in Int /\ Even(q) /\ p = q + a
    BY <1>1, <1>4
  <2> HIDE DEF p, q
  <2> QED
    BY <1>6, <2>1, EvenSum
<1>9. Diff(s.seq, z.i) = 1 + b + p
  <2>1. z.n \in Ends /\ z.i \in Numbers /\ z.w \in Nat /\ z.w + 2 <= Furthest(z.w)
        /\ Furthest(z.w) < Half /\ Furthest(z.w) \in Nat
    BY DEF Scene
  <2>2. c.SND_NXT \in Numbers /\ Half \in Nat /\ NumMod = 2 * Half
    BY <2>1, MembersAre, ConstantsAre
  <2>3. Diff(c.SND_NXT, z.i) + a < NumMod
    BY <1>1, <1>4, <1>5, <2>1, <2>2
  <2>4. Diff(Plus(c.SND_NXT, a), z.i) = Diff(c.SND_NXT, z.i) + a
    BY <1>1, <2>1, <2>2, <2>3, PlusAt
  <2> QED
    BY <1>1, <1>3, <1>4, <2>4
<1> HIDE DEF p
<1>10. s.data = Run(b + p, m)
  BY <1>1, <1>3, <1>4, <1>5, RunPart
<1>11. b + p \in Int /\ b + p >= 0 /\ Even(b + p) /\ b + p + m <= z.w
  <2>1. Even(b + p)
    BY <1>4, <1>5, <1>8, EvenSum
  <2>2. z.w \in Nat
    BY DEF Scene
  <2> QED
    BY <1>1, <1>4, <1>5, <2>1, <2>2
<1>12. Len(s.data) = m
  BY <1>1, <1>10, <1>11, RunIs
<1>13. Diff(s.seq, z.i) - 1 = b + p
  BY <1>4, <1>5, <1>9
<1>14. Bytes(s.data, b + p, z.w)
  BY <1>7, <1>10, <1>11, <1>12 DEF Bytes
<1> QED
  BY <1>3, <1>13, <1>14

\* How much the window and the queue let go.
LEMMA SentBytes ==
  ASSUME NEW z, Scene(z), NEW c, Typed(z.n, c), NEW b, NEW l, Position(z, c, b, l),
         EvenSizes, NEW k \in Nat, k = Least(Len(c.rtq.data) - c.rtq.pre, Left(c))
  PROVE  /\ c.rtq.pre + k <= l /\ c.rtq.pre + k <= Window /\ Even(k)
         /\ Diff(Plus(c.SND_NXT, k), c.SND_UNA) = c.rtq.pre + k
         /\ Diff(Plus(c.SND_NXT, k), z.i) = 1 + b + (c.rtq.pre + k)
<1> DEFINE p == c.rtq.pre
           U == c.SND_UNA
           N == c.SND_NXT
           W == Window
<1>1. /\ b \in Nat /\ l \in Nat /\ p \in Nat /\ p <= l /\ p <= W /\ Even(p) /\ Even(l)
      /\ l = Len(c.rtq.data) /\ Diff(N, U) = p /\ Diff(N, z.i) = 1 + b + p /\ b + l <= z.w
  BY DEF Position
<1>2. W \in Nat /\ W < Half /\ Half \in Nat /\ NumMod = 2 * Half /\ Even(W)
  BY ConstantsAre DEF EvenSizes, Even
<1>3. U \in Numbers /\ N \in Numbers /\ z.i \in Numbers /\ z.w \in Nat
      /\ z.w + 2 < Half
  BY MembersAre, <1>2 DEF Scene
<1> HIDE DEF p, U, N, W
<1>4. Left(c) = W - p
  <2>1. Diff(U, U) = 0
    BY <1>3, DiffSelf
  <2>2. Diff(U, U) + W < NumMod
    BY <1>2, <2>1
  <2>3. Plus(U, W) \in Numbers /\ Diff(Plus(U, W), U) = Diff(U, U) + W
    BY <1>2, <1>3, <2>2, PlusAt
  <2> DEFINE x == Plus(U, W)
  <2>4. x \in Numbers /\ Diff(x, U) = W
    BY <1>2, <2>1, <2>3
  <2> HIDE DEF x
  <2>5. Diff(N, U) <= Diff(x, U)
    BY <1>1, <2>4
  <2>6. Diff(x, N) = Diff(x, U) - Diff(N, U)
    BY <1>3, <2>4, <2>5, DiffAt
  <2> QED
    BY <1>1, <2>4, <2>6 DEF Left, x, U, N, W
<1>5. k = Least(l - p, W - p)
  BY <1>1, <1>4 DEF p
<1>6. k <= l - p /\ k <= W - p /\ (k = l - p \/ k = W - p)
  BY <1>1, <1>2, <1>5, SMTT(30) DEF Least
<1>7. Even(k)
  <2>1. k = l - p => Even(k)
    <3>1. l \in Int /\ p \in Int /\ Even(l) /\ Even(p)
      BY <1>1
    <3> QED
      BY ONLY <3>1, EvenDifference
  <2>2. k = W - p => Even(k)
    <3>1. W \in Int /\ p \in Int /\ Even(W) /\ Even(p)
      BY <1>1, <1>2
    <3> QED
      BY ONLY <3>1, EvenDifference
  <2> QED
    BY <1>6, <2>1, <2>2
<1>8. p + k <= l /\ p + k <= W
  BY <1>1, <1>2, <1>6
<1>9. Diff(Plus(N, k), U) = p + k
  <2>1. Diff(N, U) + k < NumMod
    BY <1>1, <1>2, <1>8
  <2>2. Diff(Plus(N, k), U) = Diff(N, U) + k
    BY <1>3, <2>1, PlusAt
  <2> QED
    BY <1>1, <2>2
<1>10. Diff(Plus(N, k), z.i) = 1 + b + (p + k)
  <2>1. Diff(N, z.i) + k < NumMod
    BY <1>1, <1>2, <1>3, <1>8, SMTT(30)
  <2>2. Diff(Plus(N, k), z.i) = Diff(N, z.i) + k
    BY <1>3, <2>1, PlusAt
  <2> QED
    BY <1>1, <2>2
<1> QED
  BY <1>7, <1>8, <1>9, <1>10 DEF p, U, N, W

LEMMA SendDataKept ==
  ASSUME NEW z, Scene(z), NEW c, NEW g, Sound(z, c, g), c.State \in Flowing \cup Sending,
         ~c.bTimedOut, ~c.bRetransmit, EvenSizes, NEW d, d = SendData(c)
  PROVE  Sound(z, d, g) /\ Onward(z, c, d) /\ RequestKept(d)
<1>1. Almost(z, c, g) /\ Out(z, c, c.out) /\ Typed(z.n, c) /\ z.n \in Ends
      /\ g \in Seq(Stream(Peer(z.n)))
  BY DEF Sound, Almost, Scene
<1>2. CASE d = c
  BY <1>2, OnwardStill DEF RequestKept
<1>3. CASE \E k \in Nat : \E X : Sent(c, d, k, X)
  <2>0. PICK k \in Nat : \E X : Sent(c, d, k, X)
    BY <1>3
  <2>1. PICK X : Sent(c, d, k, X)
    BY <2>0
  <2>2. k = Least(Len(c.rtq.data) - c.rtq.pre, Left(c)) /\ k > 0
        /\ \A s \in X : \E a, m : Cuts(k, a, m) /\ Carries(c, s, a, m)
    BY <2>1 DEF Sent
  <2>3. /\ d.State = c.State /\ d.StateAfterFIN = c.StateAfterFIN
        /\ d.TxQueue = c.TxQueue /\ d.RxQueue = c.RxQueue
        /\ d.rtq.data = c.rtq.data /\ d.rtq.pre = c.rtq.pre + k /\ d.rtq.over = c.rtq.over
        /\ d.bRetransmit = c.bRetransmit
        /\ d.bSendSYN = c.bSendSYN /\ d.bFINQueued = c.bFINQueued
        /\ d.nRetransmissionCount = c.nRetransmissionCount /\ d.ISS = c.ISS
        /\ d.SND_UNA = c.SND_UNA /\ d.SND_NXT = Plus(c.SND_NXT, k) /\ d.RCV_NXT = c.RCV_NXT
        /\ d.panic = c.panic /\ d.out = c.out \cup X /\ d.hTimer = c.hTimer \cup {"Retransmission"}
    <3> DEFINE e == [c EXCEPT !.out = @ \cup X, !.SND_NXT = Plus(@, k), !.rtq.pre = @ + k]
    <3>1. d = StartTimer(e, "Retransmission")
      BY <2>1 DEF Sent
    <3>2. /\ e.State = c.State /\ e.StateAfterFIN = c.StateAfterFIN
          /\ e.TxQueue = c.TxQueue /\ e.RxQueue = c.RxQueue
          /\ e.rtq.data = c.rtq.data /\ e.rtq.pre = c.rtq.pre + k /\ e.rtq.over = c.rtq.over
          /\ e.bRetransmit = c.bRetransmit
          /\ e.bSendSYN = c.bSendSYN /\ e.bFINQueued = c.bFINQueued
          /\ e.nRetransmissionCount = c.nRetransmissionCount /\ e.ISS = c.ISS
          /\ e.SND_UNA = c.SND_UNA /\ e.SND_NXT = Plus(c.SND_NXT, k) /\ e.RCV_NXT = c.RCV_NXT
          /\ e.panic = c.panic /\ e.out = c.out \cup X /\ e.hTimer = c.hTimer
          /\ e = [e EXCEPT !.State = e.State] /\ DOMAIN e = DOMAIN c
      BY <1>1 DEF Typed, Connection
    <3>3. "hTimer" \in DOMAIN e
      BY <1>1, <3>2 DEF Typed, Connection
    <3> HIDE DEF e
    <3> QED
      BY <3>1, <3>2, <3>3 DEF StartTimer
  <2>4. Typed(z.n, d)
    BY <1>1, SendDataTyped
  <2>5. TimersKept(z, c) /\ SenderKept(z, c) /\ HandshakeKept(z, c) /\ ReceiverKept(z, c, g)
    BY <1>1 DEF Almost
  <2>6. c.State \in Flowing
    <3>1. SUFFICES ASSUME c.State \in Sending PROVE FALSE
      OBVIOUS
    <3>2. EndingKept(z, c)
      BY <2>5 DEF SenderKept
    <3>3. c.rtq.data = <<>>
      BY <3>1, <3>2 DEF EndingKept, Sending, Ending
    <3>4. Len(c.rtq.data) = 0 /\ c.rtq.pre \in Nat
      BY <1>1, <3>3, MembersAre
    <3>5. Left(c) \in Nat
      <4>1. c.SND_UNA \in Numbers /\ c.SND_NXT \in Numbers
        BY <1>1, MembersAre
      <4>2. Plus(c.SND_UNA, Window) \in Numbers
        BY <4>1, PlusType, ConstantsAre, SMTT(30)
      <4> QED
        BY <4>1, <4>2, DiffNat DEF Left
    <3> QED
      BY <2>2, <3>4, <3>5 DEF Least
  <2> DEFINE b == Diff(c.SND_UNA, z.i) - 1
             l == Len(c.rtq.data)
  <2>7. Position(z, c, b, l)
    BY <1>1, <2>6, FlowingIs
  <2>8. /\ c.rtq.pre + k <= l /\ c.rtq.pre + k <= Window /\ Even(k)
        /\ Diff(Plus(c.SND_NXT, k), c.SND_UNA) = c.rtq.pre + k
        /\ Diff(Plus(c.SND_NXT, k), z.i) = 1 + b + (c.rtq.pre + k)
    BY <1>1, <2>2, <2>7, SentBytes
  <2> HIDE DEF b, l
  <2>9. Position(z, d, b, l)
    <3>1. c.rtq.pre \in Nat /\ Even(c.rtq.pre) /\ c.rtq.pre + k \in Nat
      BY <2>7 DEF Position
    <3>2. Even(c.rtq.pre + k)
      BY <2>8, <3>1, EvenSum, SMTT(30)
    <3> QED
      BY <2>3, <2>7, <2>8, <3>1, <3>2 DEF Position
  <2>10. FlowingKept(z, d)
    BY <2>4, <2>9, PositionFlowing
  <2>11. SenderKept(z, d)
    <3>1. OpeningKept(z, d) /\ OpenedKept(z, d) /\ EndingKept(z, d) /\ SendingKept(z, d)
      BY <2>3, <2>6 DEF OpeningKept, OpenedKept, EndingKept, SendingKept, Opening, Ending,
                        Sending, Flowing
    <3>2. PeerKept(z, d) /\ FramesKept(z, d)
      BY <2>3, <2>5 DEF PeerKept, FramesKept, SenderKept
    <3> QED
      BY <2>10, <3>1, <3>2 DEF SenderKept
  <2>12. TimersKept(z, d)
    BY <2>3, <2>5, <2>6 DEF TimersKept, Flowing, Sending
  <2>13. HandshakeKept(z, d) /\ ReceiverKept(z, d, g)
    BY <2>3, <2>5 DEF HandshakeKept, ReceiverKept, ArrivedKept, InStep
  <2>14. Almost(z, d, g)
    BY <1>1, <2>4, <2>11, <2>12, <2>13 DEF Almost
  <2>15. Onward(z, c, d)
    BY <2>3 DEF Onward
  <2>16. ASSUME NEW s \in X
         PROVE  DataKept(z, d, s) /\ FinKept(z, d, s) /\ SynKept(z, s) /\ AckKept(z, d, s)
    <3>1. PICK a, m : Cuts(k, a, m) /\ Carries(c, s, a, m)
      BY <2>2
    <3>2. Even(MSS)
      BY DEF EvenSizes, Even
    <3>3. /\ s.flags \in {{"ACK"}, {"ACK", "PSH"}} /\ s.ack = c.RCV_NXT
          /\ Bytes(s.data, Diff(s.seq, z.i) - 1, z.w)
      BY <1>1, <2>7, <2>8, <3>1, <3>2, CarriedBytes
    <3>4. d.State \in Synchronized /\ s.ack = d.RCV_NXT
      BY <2>3, <2>6, <3>3 DEF Synchronized, States, Flowing
    <3>5. AckKept(z, d, s)
      BY <2>14, <3>4, AckSent
    <3>6. d.ISS = z.i /\ d.State \notin Opening
      BY <2>3, <2>6, <2>9 DEF Position, Flowing, Opening
    <3>7. DataKept(z, d, s)
      BY <3>3, <3>6 DEF DataKept
    <3> QED
      BY <3>3, <3>5, <3>7 DEF FinKept, SynKept
  <2>17. Out(z, d, X)
    BY <2>16 DEF Out
  <2>18. Out(z, d, d.out)
    BY <1>1, <2>3, <2>4, <2>15, <2>17, SentKept
  <2> QED
    BY <2>3, <2>14, <2>15, <2>18 DEF Sound, RequestKept
<1> QED
  BY <1>1, <1>2, <1>3, SendDataIs

\* The connection is closed, whatever becomes of its queues.
Closes(c, d) ==
  /\ d.State = "Closed" /\ d.StateAfterFIN = c.StateAfterFIN /\ d.hTimer \subseteq c.hTimer
  /\ d.bSendSYN => c.bSendSYN
  /\ d.bRetransmit => c.bRetransmit
  /\ d.bFINQueued => c.bFINQueued
  /\ d.TxQueue \in {c.TxQueue, <<>>} /\ d.RxQueue \in {c.RxQueue, <<>>}
  /\ d.ISS = c.ISS /\ d.RCV_NXT = c.RCV_NXT

LEMMA ClosesKept ==
  ASSUME NEW z, Scene(z), NEW c, NEW d, NEW g, Almost(z, c, g), Typed(z.n, d), Closes(c, d)
  PROVE  Almost(z, d, g) /\ Onward(z, c, d) /\ (RequestKept(c) => RequestKept(d))
<1>1. Typed(z.n, c) /\ z.n \in Ends /\ g \in Seq(Stream(Peer(z.n))) /\ z.v \in Nat
      /\ TimersKept(z, c) /\ SenderKept(z, c) /\ ReceiverKept(z, c, g)
  BY DEF Almost, Scene
<1>2. d.State = "Closed"
  BY DEF Closes
<1>3. SenderKept(z, d)
  <2>1. OpeningKept(z, d) /\ OpenedKept(z, d) /\ FlowingKept(z, d) /\ EndingKept(z, d)
        /\ SendingKept(z, d) /\ PeerKept(z, d)
    BY <1>2 DEF OpeningKept, OpenedKept, FlowingKept, EndingKept, SendingKept, PeerKept,
                Opening, Flowing, Ending, Sending
  <2>2. FramesKept(z, d)
    <3>1. FramesKept(z, c)
      BY <1>1 DEF SenderKept
    <3>2. CASE d.TxQueue = c.TxQueue
      BY <3>1, <3>2 DEF FramesKept
    <3>3. CASE d.TxQueue = <<>>
      <4>1. Len(d.TxQueue) = 0
        BY <3>3
      <4> QED
        BY <3>1, <4>1 DEF FramesKept
    <3> QED
      BY <3>2, <3>3 DEF Closes
  <2> QED
    BY <2>1, <2>2 DEF SenderKept
<1>4. TimersKept(z, d)
  BY <1>1, <1>2 DEF TimersKept, Closes, Off, Sending
<1>5. HandshakeKept(z, d)
  BY <1>2 DEF HandshakeKept, Early
<1>6. ReceiverKept(z, d, g)
  <2> DEFINE T == Stream(Peer(z.n))
             F == FlattenSeq(c.RxQueue)
             G == FlattenSeq(d.RxQueue)
  <2>1. ArrivedKept(z, c, g \o F)
    BY <1>1 DEF ReceiverKept
  <2>2. c.RxQueue \in Seq(Seq(T)) /\ F \in Seq(T) /\ g \in Seq(T)
    BY <1>1, MembersAre, FlattenType
  <2>3. g \o F = Run(0, Len(g \o F)) /\ Len(g \o F) <= z.v
    BY <2>1 DEF ArrivedKept
  <2>4. CASE d.RxQueue = c.RxQueue
    BY <1>2, <2>3, <2>4 DEF ReceiverKept, ArrivedKept, Opening, Synchronized, States
  <2>5. CASE d.RxQueue = <<>>
    <3>1. G = <<>>
      BY <2>5, FlattenEmpty
    <3> HIDE DEF T, F, G
    <3>2. g \o G = g
      BY <2>2, <3>1
    <3>3. Joined(T, g, F, 0, Len(g \o F))
      BY <2>2, <2>3 DEF Joined
    <3>4. Halves(g, F, 0, Len(g \o F))
      BY <3>3, RunSplit
    <3>5. g = Run(0, Len(g)) /\ Len(g) <= z.v
      <4>1. Len(g \o F) = Len(g) + Len(F) /\ Len(g) \in Nat /\ Len(F) \in Nat
        BY <2>2
      <4> QED
        BY <1>1, <2>3, <3>4, <4>1 DEF Halves
    <3> QED
      BY <1>2, <3>2, <3>5 DEF ReceiverKept, ArrivedKept, Opening, Synchronized, States, G
  <2> QED
    BY <2>4, <2>5 DEF Closes
<1>7. Onward(z, c, d)
  BY <1>2 DEF Onward, Closes, Opening, Finished
<1>8. RequestKept(c) => RequestKept(d)
  BY DEF RequestKept, Closes, Off
<1> QED
  BY <1>1, <1>3, <1>4, <1>5, <1>6, <1>7, <1>8 DEF Almost

LEMMA FailKept ==
  ASSUME NEW z, Scene(z), NEW c, NEW g, Sound(z, c, g), NEW d, d = Fail(c)
  PROVE  /\ Sound(z, d, g) /\ Onward(z, c, d)
         /\ RequestKept(c) => RequestKept(d)
<1>1. Almost(z, c, g) /\ Out(z, c, c.out) /\ Typed(z.n, c) /\ z.n \in Ends
  BY DEF Sound, Almost, Scene
<1>2. Typed(z.n, d)
  BY <1>1, FailTyped
<1>3. Closes(c, d) /\ d.out = c.out
  BY <1>1 DEF Fail, Closes, Typed, Connection
<1>4. Almost(z, d, g) /\ Onward(z, c, d) /\ (RequestKept(c) => RequestKept(d))
  BY <1>1, <1>2, <1>3, ClosesKept
<1>5. Out(z, d, d.out)
  BY <1>1, <1>2, <1>3, <1>4, NothingSent
<1> QED
  BY <1>4, <1>5 DEF Sound

LEMMA SendSYNKept ==
  ASSUME NEW z, Scene(z), NEW c, NEW g, Sound(z, c, g), c.State \in {"SynSent", "SynReceived"},
         c.bSendSYN, NEW d, d = SendSYN(c), Typed(z.n, d)
  PROVE  Sound(z, d, g) /\ Onward(z, c, d) /\ RequestKept(d)
<1>1. Almost(z, c, g) /\ Out(z, c, c.out) /\ Typed(z.n, c) /\ z.n \in Ends
      /\ g \in Seq(Stream(Peer(z.n)))
  BY DEF Sound, Almost, Scene
<1>2. TimersKept(z, c) /\ SenderKept(z, c) /\ HandshakeKept(z, c) /\ ReceiverKept(z, c, g)
  BY <1>1 DEF Almost
<1>3. c.State = "SynSent" /\ z.n = Active
  BY <1>1, <1>2, EndsAre DEF TimersKept
<1> DEFINE s == Segment({"SYN"}, c.ISS, c.RCV_NXT, <<>>)
<1>4. /\ d.State = c.State /\ d.StateAfterFIN = c.StateAfterFIN
      /\ d.TxQueue = c.TxQueue /\ d.RxQueue = c.RxQueue /\ d.rtq = c.rtq
      /\ d.bRetransmit = c.bRetransmit /\ d.bSendSYN = FALSE /\ d.bFINQueued = c.bFINQueued
      /\ d.nRetransmissionCount = c.nRetransmissionCount /\ d.ISS = c.ISS
      /\ d.SND_UNA = c.SND_UNA /\ d.SND_NXT = c.SND_NXT /\ d.RCV_NXT = c.RCV_NXT
      /\ d.panic = c.panic /\ d.out = c.out \cup {s}
  BY <1>1, <1>3 DEF SendSYN, SendSegment, StartTimer, Typed, Connection
<1>5. s.flags = {"SYN"} /\ s.seq = c.ISS /\ s.data = <<>>
  BY SegmentHas
<1> HIDE DEF s
<1>6. SenderKept(z, d)
  BY <1>2, <1>4 DEF SenderKept, OpeningKept, OpenedKept, FlowingKept, EndingKept, SendingKept,
                    PeerKept, FramesKept
<1>7. TimersKept(z, d) /\ HandshakeKept(z, d)
  BY <1>2, <1>3, <1>4 DEF TimersKept, HandshakeKept, Sending
<1>8. ReceiverKept(z, d, g)
  BY <1>2, <1>4 DEF ReceiverKept, ArrivedKept, InStep
<1>9. Almost(z, d, g)
  BY <1>1, <1>6, <1>7, <1>8 DEF Almost
<1>10. Onward(z, c, d)
  BY <1>4 DEF Onward
<1>11. RequestKept(d)
  BY <1>2, <1>3, <1>4 DEF RequestKept, SenderKept, OpeningKept, Opening
<1>12. c.ISS = z.i
  BY <1>2, <1>3 DEF SenderKept, OpenedKept
<1>13. Out(z, d, {s})
  BY <1>3, <1>5, <1>12 DEF Out, DataKept, FinKept, SynKept, AckKept, Acks
<1>14. Out(z, d, d.out)
  BY <1>1, <1>4, <1>10, <1>13, SentKept
<1> QED
  BY <1>9, <1>10, <1>11, <1>14 DEF Sound

LEMMA ProcessKept ==
  ASSUME NEW z, Scene(z), NEW c, NEW g, Sound(z, c, g), RequestKept(c), EvenSizes,
         NEW d, d = Process(c)
  PROVE  Sound(z, d, g) /\ Onward(z, c, d) /\ RequestKept(d)
<1>1. CASE c.bTimedOut
  <2>1. d = Fail(c)
    BY <1>1 DEF Process
  <2> QED
    BY <2>1, FailKept
<1>2. CASE ~c.bTimedOut /\ c.State \in {"SynSent", "SynReceived"} /\ c.bSendSYN
  <2>1. d = SendSYN(c)
    BY <1>2 DEF Process
  <2>2. Typed(z.n, d)
    BY ProcessTyped DEF Sound, Almost, Scene
  <2> QED
    BY <1>2, <2>1, <2>2, SendSYNKept
<1>3. CASE ~c.bTimedOut /\ c.State \in Flowing \cup Sending
  <2> DEFINE e == SendFIN(c)
             f == FillQueue(e)
             h == GoBack(f)
  <2>1. d = SendData(h)
    BY <1>3 DEF Process, Flowing, Sending
  <2>2. Sound(z, e, g) /\ Onward(z, c, e) /\ e.State \in Flowing \cup Sending /\ ~e.bTimedOut
    BY <1>3, SendFINKept
  <2> HIDE DEF e
  <2>3. Sound(z, f, g) /\ Onward(z, e, f) /\ f.State \in Flowing \cup Sending /\ ~f.bTimedOut
    BY <2>2, FillQueueKept
  <2> HIDE DEF f
  <2>4. Sound(z, h, g) /\ Onward(z, f, h) /\ h.State \in Flowing \cup Sending /\ ~h.bTimedOut
        /\ ~h.bRetransmit
    BY <2>3, GoBackKept
  <2> HIDE DEF h
  <2>5. Sound(z, d, g) /\ Onward(z, h, d) /\ RequestKept(d)
    BY <2>1, <2>4, SendDataKept
  <2>6. Typed(z.n, c) /\ Typed(z.n, e) /\ Typed(z.n, f) /\ Typed(z.n, h) /\ Typed(z.n, d)
    BY <2>2, <2>3, <2>4, <2>5 DEF Sound, Almost
  <2>7. Onward(z, c, f)
    BY <2>2, <2>3, <2>6, OnwardOnward
  <2>8. Onward(z, c, h)
    BY <2>4, <2>6, <2>7, OnwardOnward
  <2>9. Onward(z, c, d)
    BY <2>5, <2>6, <2>8, OnwardOnward
  <2> QED
    BY <2>5, <2>9
<1>4. CASE /\ ~c.bTimedOut /\ c.State \notin Flowing \cup Sending
           /\ ~(c.State \in {"SynSent", "SynReceived"} /\ c.bSendSYN)
  <2>1. d = c
    BY <1>4 DEF Process, Flowing, Sending
  <2> QED
    BY <2>1, OnwardStill
<1> QED
  BY <1>1, <1>2, <1>3, <1>4

-----------------------------------------------------------------------------
(* The acknowledgment field                                                *)

\* What is known of a segment s of the peer that reaches the end with members c.
From(z, c, s) ==
  /\ s \in Segments(Peer(z.n))
  /\ s.data # <<>> => /\ z.st \notin Opening
                      /\ s.flags \cap {"SYN", "FIN", "RST"} = {}
                      /\ Bytes(s.data, Diff(s.seq, z.j) - 1, z.v)
  /\ "FIN" \in s.flags => /\ s.data = <<>> /\ z.st \in Finished
                          /\ 1 + z.v <= Diff(s.seq, z.j) /\ Diff(s.seq, z.j) < Furthest(z.v)
  /\ "SYN" \in s.flags => /\ s.seq = z.j
                          /\ s.flags = IF z.n = Passive THEN {"SYN"} ELSE {"SYN", "ACK"}
  /\ Acks(s) => /\ 1 <= Diff(s.ack, z.i) /\ Diff(s.ack, z.i) <= z.r /\ z.r <= Furthest(z.w)
                /\ c.State \notin Finished => ~Even(Diff(s.ack, z.i))
                /\ z.st # "SynSent"
                /\ c.State \in Opening \/ z.st = "Listen" => Diff(s.ack, z.i) = 1

\* What NewAck changes, k bytes being acknowledged.
Acked(c, s, k, d) ==
  /\ d.State = c.State /\ d.StateAfterFIN = c.StateAfterFIN
  /\ d.TxQueue = c.TxQueue /\ d.RxQueue = c.RxQueue /\ Taken(c.rtq, d.rtq, k)
  /\ d.bRetransmit = c.bRetransmit /\ d.bSendSYN = c.bSendSYN
  /\ d.bFINQueued = (c.bFINQueued /\ c.State \notin {"FinWait1", "Closing"})
  /\ d.nRetransmissionCount = c.nRetransmissionCount \/ s.ack = c.SND_NXT
  /\ d.ISS = c.ISS /\ d.SND_UNA = s.ack /\ d.SND_NXT = c.SND_NXT /\ d.RCV_NXT = c.RCV_NXT
  /\ d.panic = c.panic /\ d.out = c.out /\ d.hTimer \subseteq c.hTimer

LEMMA NewAckIs ==
  ASSUME NEW n \in Ends, NEW c, Typed(n, c), NEW p \in Ends, NEW s \in Segments(p),
         bwh(c.SND_UNA, s.ack, c.SND_NXT), NEW d, d = NewAck(c, s)
  PROVE  Acked(c, s, BytesAcked(c, s), d)
<1> DEFINE k == BytesAcked(c, s)
           q == Advance(c.rtq, k)
<1>1. k \in Nat
  BY BytesAckedIs
<1>2. Taken(c.rtq, q, k)
  <2> DEFINE S == Stream(n)
  <2> HIDE DEF S, k
  <2>1. c.rtq \in [data : Seq(S), pre : Nat, over : Nat] /\ c.rtq.pre <= Len(c.rtq.data)
    BY DEF Typed, Connection, S
  <2> QED
    BY ONLY <1>1, <2>1, AdvanceTyped
<1>3. /\ d.State = c.State /\ d.StateAfterFIN = c.StateAfterFIN
      /\ d.TxQueue = c.TxQueue /\ d.RxQueue = c.RxQueue /\ d.rtq = q
      /\ d.bRetransmit = c.bRetransmit /\ d.bSendSYN = c.bSendSYN
      /\ d.nRetransmissionCount = c.nRetransmissionCount \/ s.ack = c.SND_NXT
      /\ d.ISS = c.ISS /\ d.SND_UNA = s.ack /\ d.SND_NXT = c.SND_NXT /\ d.RCV_NXT = c.RCV_NXT
      /\ d.panic = c.panic /\ d.out = c.out /\ d.hTimer \subseteq c.hTimer
  <2> HIDE DEF k
  <2>1. d = [c EXCEPT !.SND_UNA = s.ack,
               !.hTimer = IF s.ack = c.SND_NXT THEN @ \ {"Retransmission"} ELSE @,
               !.nRetransmissionCount = IF s.ack = c.SND_NXT THEN MAX_RETRANSMISSIONS ELSE @,
               !.Event = @ \/ s.ack = c.SND_NXT,
               !.bFINQueued = @ /\ ~(c.State \in {"FinWait1", "Closing"}),
               !.rtq = q]
    BY DEF NewAck, k, Typed, Connection
  <2> HIDE DEF q
  <2> QED
    BY <2>1 DEF Typed, Connection
<1>4. d.bFINQueued = (c.bFINQueued /\ c.State \notin {"FinWait1", "Closing"})
  <2>1. c \in Connection(n) /\ c.bFINQueued \in BOOLEAN
    BY DEF Typed, Connection
  <2> QED
    BY <2>1 DEF NewAck, Connection
<1> HIDE DEF k, q
<1>5. Acked(c, s, k, d)
  BY <1>2, <1>3, <1>4 DEF Acked
<1> QED
  BY <1>5 DEF k

\* New data are acknowledged on a connection on which data flow.
LEMMA FlowingAcked ==
  ASSUME NEW z, Scene(z), NEW c, NEW g, Almost(z, c, g), RequestKept(c), c.State \in Flowing,
         NEW s, From(z, c, s), Acks(s), bwh(c.SND_UNA, s.ack, c.SND_NXT),
         NEW d, d = NewAck(c, s)
  PROVE  Almost(z, d, g) /\ Onward(z, c, d) /\ RequestKept(d)
<1>1. Typed(z.n, c) /\ z.n \in Ends /\ Peer(z.n) \in Ends /\ s \in Segments(Peer(z.n))
      /\ g \in Seq(Stream(Peer(z.n)))
  BY EndsAre DEF Almost, Scene, From
<1>2. Typed(z.n, d)
  BY <1>1, NewAckTyped
<1> DEFINE b == Diff(c.SND_UNA, z.i) - 1
           l == Len(c.rtq.data)
           k == Diff(s.ack, c.SND_UNA)
           a == Diff(s.ack, z.i)
           p == c.rtq.pre
           w == z.w
<1>3. Position(z, c, b, l)
  BY FlowingIs
<1>4. /\ c.SND_UNA \in Numbers /\ c.SND_NXT \in Numbers /\ s.ack \in Numbers /\ z.i \in Numbers
      /\ w \in Nat /\ z.r \in Nat /\ Furthest(w) \in Nat /\ Furthest(w) < Half /\ Half \in Nat
      /\ w + 2 <= Furthest(w) /\ NumMod = 2 * Half
  BY <1>1, MembersAre, SegmentIs, ConstantsAre DEF Scene, Numbers
<1>5. a \in Nat /\ 1 <= a /\ a <= z.r /\ z.r <= Furthest(w) /\ ~Even(a)
      /\ (z.st = "Listen" => a = 1)
  <2>1. c.State \notin Finished
    BY DEF Flowing, Finished, Ending
  <2> QED
    BY <1>4, <2>1, DiffNat DEF From
<1>6. /\ b \in Nat /\ Even(b) /\ Diff(c.SND_UNA, z.i) = 1 + b /\ l \in Nat /\ Even(l) /\ b + l <= w
      /\ c.rtq.data = Run(b, l) /\ FlattenSeq(c.TxQueue) = Run(b + l, w - b - l)
      /\ p \in Nat /\ p <= l /\ p <= Window /\ Even(p) /\ c.rtq.over = 0
      /\ Diff(c.SND_NXT, z.i) = 1 + b + p /\ c.ISS = z.i
  BY <1>3 DEF Position
<1> HIDE DEF b, l, a, p, w
<1>7. 1 + b < a /\ a <= 1 + b + p
  <2>1. 1 + b < Half /\ 1 + b + p < Half /\ a < Half
    BY <1>4, <1>5, <1>6
  <2>2. bwh(c.SND_UNA, s.ack, c.SND_NXT) <=>
          Diff(c.SND_UNA, z.i) < Diff(s.ack, z.i) /\ Diff(s.ack, z.i) <= Diff(c.SND_NXT, z.i)
    BY <1>4, <1>5, <1>6, <2>1, bwhAt DEF a
  <2> QED
    BY <1>6, <2>2 DEF a
<1>8. k = a - 1 - b
  BY <1>4, <1>5, <1>6, <1>7, DiffAt DEF a
<1> HIDE DEF k
<1>9. k \in Nat /\ k >= 1 /\ k <= p /\ k <= l /\ 1 + (b + k) = a
  BY <1>5, <1>6, <1>7, <1>8
<1>10. Even(k)
  <2>1. a - 1 \in Int /\ a = (a - 1) + 1
    BY <1>5
  <2>2. Even(a - 1)
    BY <1>5, <2>1, EvenNext
  <2>3. b \in Int /\ k = (a - 1) - b
    BY <1>6, <1>8
  <2> QED
    BY <1>6, <2>1, <2>2, <2>3, EvenDifference
<1>11. k # 1
  BY <1>10, EvenZero
<1>12. BytesAcked(c, s) = k
  BY <1>11 DEF BytesAcked, k, Flowing
<1>13. Acked(c, s, k, d)
  BY <1>1, <1>12, NewAckIs
<1>14. Least(k, Len(c.rtq.data)) = k
  BY <1>9 DEF Least, l
<1>15. d.rtq.data = SubSeq(c.rtq.data, k + 1, l) /\ d.rtq.pre = p - k /\ d.rtq.over = 0
  BY <1>6, <1>9, <1>13, <1>14 DEF Acked, Taken, l, p
<1>16. d.rtq.data = Run(b + k, l - k)
  <2>1. l = k + (l - k) /\ l - k \in Nat /\ b \in Int /\ k + (l - k) <= l
    BY <1>6, <1>9
  <2>2. PartIs(d.rtq.data, c.rtq.data, k, l - k)
    BY <1>15, <2>1 DEF PartIs
  <2> QED
    BY <1>6, <1>9, <2>1, <2>2, RunPart
<1>17. Position(z, d, b + k, l - k)
  <2>1. Even(b + k) /\ Even(l - k) /\ Even(p - k)
    <3>1. b \in Int /\ k \in Int /\ l \in Int /\ p \in Int
      BY <1>6, <1>9
    <3> QED
      BY <1>6, <1>10, <3>1, EvenSum, EvenDifference
  <2>2. b + k \in Nat /\ l - k \in Nat /\ p - k \in Nat /\ b + k \in Int
        /\ (b + k) + (l - k) = b + l /\ w - (b + k) - (l - k) = w - b - l
        /\ p - k <= l - k /\ p - k <= Window /\ 1 + (b + k) + (p - k) = 1 + b + p
    BY <1>4, <1>6, <1>9, ConstantsAre
  <2>3. l - k = Len(d.rtq.data)
    BY <1>16, <2>2, RunIs
  <2>4. Diff(d.SND_UNA, z.i) = 1 + (b + k)
    BY <1>9, <1>13 DEF Acked, a
  <2>5. Diff(d.SND_NXT, d.SND_UNA) = p - k
    <3>1. Diff(c.SND_NXT, s.ack) = Diff(c.SND_NXT, z.i) - Diff(s.ack, z.i)
      BY <1>4, <1>6, <1>7, DiffAt DEF a
    <3>2. Diff(s.ack, z.i) = 1 + (b + k)
      BY <1>9 DEF a
    <3>3. (1 + b + p) - (1 + (b + k)) = p - k
      BY <1>6, <1>9
    <3> QED
      BY <1>6, <1>13, <3>1, <3>2, <3>3 DEF Acked
  <2>6. FlattenSeq(d.TxQueue) = Run((b + k) + (l - k), w - (b + k) - (l - k))
    BY <1>6, <1>13, <2>2 DEF Acked
  <2>7. d.ISS = z.i /\ Diff(d.SND_NXT, z.i) = 1 + (b + k) + (p - k)
    BY <1>6, <1>13, <2>2 DEF Acked
  <2>8. 1 + (b + k) <= z.r /\ (b + k) + (l - k) <= w
    BY <1>5, <1>6, <1>9, <2>2
  <2> QED
    BY <1>5, <1>15, <1>16, <2>1, <2>2, <2>3, <2>4, <2>5, <2>6, <2>7, <2>8 DEF Position, w
<1>18. FlowingKept(z, d)
  BY <1>2, <1>17, PositionFlowing
<1>19. /\ d.State = c.State /\ d.StateAfterFIN = c.StateAfterFIN
       /\ d.TxQueue = c.TxQueue /\ d.RxQueue = c.RxQueue
       /\ d.bRetransmit = c.bRetransmit /\ d.bSendSYN = c.bSendSYN
       /\ (d.bFINQueued => c.bFINQueued)
       /\ d.ISS = c.ISS /\ d.SND_UNA = s.ack /\ d.RCV_NXT = c.RCV_NXT
       /\ d.panic = c.panic /\ d.out = c.out /\ (Off(c) => Off(d))
  BY <1>13 DEF Acked, Off
<1>20. TimersKept(z, c) /\ SenderKept(z, c) /\ HandshakeKept(z, c) /\ ReceiverKept(z, c, g)
  BY DEF Almost
<1>21. SenderKept(z, d)
  <2>1. OpeningKept(z, d) /\ OpenedKept(z, d) /\ EndingKept(z, d) /\ SendingKept(z, d)
    BY <1>19 DEF OpeningKept, OpenedKept, EndingKept, SendingKept, Opening, Ending, Sending,
                 Flowing
  <2>2. PeerKept(z, d)
    BY <1>5, <1>6, <1>7, <1>19 DEF PeerKept, a, w
  <2>3. FramesKept(z, d)
    BY <1>19, <1>20 DEF SenderKept, FramesKept
  <2> QED
    BY <1>18, <2>1, <2>2, <2>3 DEF SenderKept
<1>22. TimersKept(z, d)
  BY <1>19, <1>20 DEF TimersKept, Sending, Flowing
<1>23. HandshakeKept(z, d) /\ ReceiverKept(z, d, g)
  BY <1>19, <1>20 DEF HandshakeKept, ReceiverKept, ArrivedKept, InStep
<1>24. Almost(z, d, g)
  BY <1>1, <1>2, <1>21, <1>22, <1>23 DEF Almost
<1> QED
  BY <1>19, <1>24 DEF Onward, RequestKept

\* A connection that ends: of its own FINs more may be acknowledged.
Moves(z, c, d) ==
  /\ d.StateAfterFIN = c.StateAfterFIN /\ d.ISS = c.ISS
  /\ d.rtq.data = <<>> /\ d.TxQueue = c.TxQueue /\ d.RxQueue = c.RxQueue
  /\ d.bRetransmit = c.bRetransmit /\ d.bSendSYN = c.bSendSYN /\ d.panic = c.panic
  /\ d.bFINQueued => c.bFINQueued
  /\ d.SND_NXT = c.SND_NXT /\ d.RCV_NXT = c.RCV_NXT
  /\ Diff(c.SND_UNA, z.i) <= Diff(d.SND_UNA, z.i)
  /\ Diff(d.SND_UNA, z.i) <= Diff(c.SND_NXT, z.i) /\ Diff(d.SND_UNA, z.i) <= z.r
  /\ z.st = "Listen" => Diff(d.SND_UNA, z.i) = 1
  /\ Off(c) => Off(d)
  /\ d.State \in Sending => d.nRetransmissionCount = c.nRetransmissionCount
  /\ \/ d.State = c.State
     \/ c.State = "FinWait1" /\ d.State = "FinWait2" /\ Off(d)
     \/ c.State = "Closing" /\ d.State = "TimeWait" /\ Off(d)

LEMMA MovesKept ==
  ASSUME NEW z, Scene(z), NEW c, NEW g, Almost(z, c, g), RequestKept(c), c.State \in Ending,
         NEW d, Typed(z.n, d), Moves(z, c, d)
  PROVE  Almost(z, d, g) /\ Onward(z, c, d) /\ RequestKept(d)
<1>1. Typed(z.n, c) /\ z.n \in Ends /\ g \in Seq(Stream(Peer(z.n)))
      /\ TimersKept(z, c) /\ SenderKept(z, c) /\ HandshakeKept(z, c) /\ ReceiverKept(z, c, g)
  BY DEF Almost, Scene
<1>2. d.State \in Ending
  BY DEF Moves, Ending
<1> DEFINE U == Diff(c.SND_UNA, z.i)
           V == Diff(d.SND_UNA, z.i)
           N == Diff(c.SND_NXT, z.i)
           F == Furthest(z.w)
<1>3. U \in Nat /\ V \in Nat /\ N \in Nat /\ F \in Nat /\ z.w \in Nat
      /\ c.nRetransmissionCount \in Int
  <2>1. /\ c.SND_UNA \in Numbers /\ c.SND_NXT \in Numbers /\ d.SND_UNA \in Numbers
        /\ z.i \in Numbers /\ F \in Nat /\ z.w \in Nat /\ c.nRetransmissionCount \in Int
    BY <1>1, MembersAre DEF Scene
  <2> QED
    BY <2>1, DiffNat
<1>4. /\ c.ISS = z.i /\ c.TxQueue = <<>> /\ 1 + z.w <= U /\ N <= F
  BY <1>1 DEF SenderKept, EndingKept
<1>5. U <= V /\ V <= N
  BY DEF Moves
<1>6. EndingKept(z, d)
  BY <1>3, <1>4, <1>5 DEF EndingKept, Moves
<1>7. SendingKept(z, d)
  <2>1. SUFFICES ASSUME d.State \in Sending PROVE SendingKept(z, d)
    BY DEF SendingKept
  <2>2. c.State \in Sending
    BY <2>1 DEF Moves, Sending
  <2> DEFINE t == IF c.bFINQueued THEN 1 ELSE 0
             u == IF d.bFINQueued THEN 1 ELSE 0
             r == c.nRetransmissionCount
  <2>3. N + r + t <= F
    BY <1>1, <2>2 DEF SenderKept, SendingKept
  <2>4. t \in Int /\ u \in Int /\ u <= t /\ r \in Int
    BY <1>3 DEF Moves
  <2>5. d.SND_NXT = c.SND_NXT /\ d.nRetransmissionCount = r
    BY <2>1 DEF Moves
  <2> HIDE DEF t, r
  <2>6. N + r + u <= F
    <3> HIDE DEF u, N, F
    <3> QED
      BY <1>3, <2>3, <2>4
  <2> QED
    BY <2>5, <2>6 DEF SendingKept
<1> HIDE DEF U, V, N, F
<1>8. SenderKept(z, d)
  <2>1. OpeningKept(z, d) /\ OpenedKept(z, d) /\ FlowingKept(z, d)
    BY <1>2 DEF OpeningKept, OpenedKept, FlowingKept, Opening, Ending, Flowing
  <2>2. z.r <= F
    BY <1>1 DEF SenderKept, PeerKept, F
  <2>3. PeerKept(z, d)
    BY <2>2 DEF PeerKept, Moves, F
  <2>4. FramesKept(z, d)
    BY <1>1 DEF SenderKept, FramesKept, Moves
  <2> QED
    BY <1>6, <1>7, <2>1, <2>3, <2>4 DEF SenderKept
<1>9. TimersKept(z, d)
  BY <1>1, <1>2 DEF TimersKept, Moves, Ending, Sending
<1>10. HandshakeKept(z, d)
  BY <1>1, <1>2 DEF HandshakeKept, Ending, Early
<1>11. ReceiverKept(z, d, g)
  <2> DEFINE R == g \o FlattenSeq(c.RxQueue)
  <2>1. ArrivedKept(z, c, R)
    BY <1>1 DEF ReceiverKept
  <2> HIDE DEF R
  <2>2. InStep(z, d, R)
    BY <2>1 DEF ArrivedKept, InStep, Moves, Ending, AfterFIN, Synchronized, States
  <2>3. ArrivedKept(z, d, R)
    BY <1>2, <2>1, <2>2 DEF ArrivedKept, Opening, Ending
  <2> QED
    BY <2>3 DEF ReceiverKept, R, Moves
<1>12. Almost(z, d, g)
  BY <1>1, <1>8, <1>9, <1>10, <1>11 DEF Almost
<1>13. Onward(z, c, d)
  BY <1>2 DEF Onward, Moves, Ending, Opening, Finished
<1> QED
  BY <1>12, <1>13 DEF RequestKept, Moves

\* The acknowledgment of a FIN.
LEMMA EndingAcked ==
  ASSUME NEW z, Scene(z), NEW c, NEW g, Almost(z, c, g), c.State \in Ending,
         NEW s, From(z, c, s), Acks(s), bwh(c.SND_UNA, s.ack, c.SND_NXT),
         NEW d, d = NewAck(c, s)
  PROVE  /\ Acked(c, s, BytesAcked(c, s), d) /\ d.rtq.data = <<>> /\ Typed(z.n, d)
         /\ Diff(c.SND_UNA, z.i) <= Diff(d.SND_UNA, z.i)
         /\ Diff(d.SND_UNA, z.i) <= Diff(c.SND_NXT, z.i) /\ Diff(d.SND_UNA, z.i) <= z.r
         /\ z.st = "Listen" => Diff(d.SND_UNA, z.i) = 1
<1>1. Typed(z.n, c) /\ z.n \in Ends /\ Peer(z.n) \in Ends /\ s \in Segments(Peer(z.n))
  BY EndsAre DEF Almost, Scene, From
<1>2. Typed(z.n, d)
  BY <1>1, NewAckTyped
<1>3. Acked(c, s, BytesAcked(c, s), d) /\ d.SND_UNA = s.ack
  BY <1>1, NewAckIs DEF Acked
<1>4. EndingKept(z, c) /\ z.r <= Furthest(z.w)
  BY DEF Almost, SenderKept, PeerKept
<1>5. /\ c.rtq.data = <<>> /\ 1 + z.w <= Diff(c.SND_UNA, z.i)
      /\ Diff(c.SND_UNA, z.i) <= Diff(c.SND_NXT, z.i) /\ Diff(c.SND_NXT, z.i) <= Furthest(z.w)
  BY <1>4 DEF EndingKept
<1>6. /\ c.SND_UNA \in Numbers /\ c.SND_NXT \in Numbers /\ s.ack \in Numbers /\ z.i \in Numbers
      /\ z.w \in Nat /\ z.r \in Nat /\ Furthest(z.w) \in Nat /\ Furthest(z.w) < Half
      /\ Half \in Nat
  BY <1>1, MembersAre, SegmentIs, ConstantsAre DEF Scene, Numbers
<1>7. /\ Diff(c.SND_UNA, z.i) \in Nat /\ Diff(c.SND_NXT, z.i) \in Nat /\ Diff(s.ack, z.i) \in Nat
  BY <1>6, DiffNat
<1>8. Diff(s.ack, z.i) <= z.r /\ (z.st = "Listen" => Diff(s.ack, z.i) = 1)
  BY DEF From
<1>9. Diff(c.SND_UNA, z.i) < Diff(s.ack, z.i) /\ Diff(s.ack, z.i) <= Diff(c.SND_NXT, z.i)
  <2>1. /\ Diff(c.SND_UNA, z.i) < Half /\ Diff(c.SND_NXT, z.i) < Half
        /\ Diff(s.ack, z.i) < Half
    BY <1>4, <1>5, <1>6, <1>7, <1>8
  <2> QED
    BY <1>6, <2>1, bwhAt
<1>10. d.rtq.data = <<>>
  <2> DEFINE k == BytesAcked(c, s)
             q == Least(k, Len(c.rtq.data)) + 1
  <2>1. k \in Nat /\ d.rtq.data = SubSeq(c.rtq.data, q, Len(c.rtq.data))
    BY <1>3 DEF Acked, Taken
  <2> HIDE DEF k
  <2>2. Len(c.rtq.data) = 0
    BY <1>5
  <2>3. q = 1
    BY <2>1, <2>2 DEF Least
  <2>4. d.rtq.data = SubSeq(<<>>, 1, 0)
    BY <1>5, <2>1, <2>2, <2>3
  <2>5. SubSeq(<<>>, 1, 0) = <<>>
    OBVIOUS
  <2> QED
    BY <2>4, <2>5
<1> QED
  BY <1>2, <1>3, <1>7, <1>8, <1>9, <1>10

\* What the acknowledgment field makes of a connection.
AckTaken(z, c, a, g) ==
  /\ Sound(z, a, g) /\ Onward(z, c, a) /\ RequestKept(a) /\ a.RCV_NXT = c.RCV_NXT
  /\ a.State \in Synchronized \ {"SynReceived"} \/ (c.State = "LastAck" /\ a.State = "Closed")

\* A connection that has been opened, and on which nothing has been sent yet.
LEMMA OpenedFlows ==
  ASSUME NEW z, Scene(z), NEW c, NEW g, Almost(z, c, g), c.State \in {"SynSent", "SynReceived"},
         NEW s, From(z, c, s), Acks(s), NEW d, Typed(z.n, d), d.State = "Established",
         d.ISS = c.ISS, d.SND_UNA = s.ack, d.SND_NXT = c.SND_NXT, d.rtq = c.rtq,
         d.TxQueue = c.TxQueue
  PROVE  SenderKept(z, d) /\ s.ack = c.SND_NXT /\ c.SND_UNA = z.i /\ c.SND_NXT = Plus(z.i, 1)
         /\ Diff(s.ack, z.i) = 1
<1>1. Typed(z.n, c) /\ z.n \in Ends /\ Peer(z.n) \in Ends /\ s \in Segments(Peer(z.n))
      /\ SenderKept(z, c)
  BY EndsAre DEF Almost, Scene, From
<1>2. /\ c.SND_UNA \in Numbers /\ c.SND_NXT \in Numbers /\ s.ack \in Numbers /\ z.i \in Numbers
      /\ z.w \in Nat /\ z.r \in Nat /\ Half \in Nat /\ Half >= 2 /\ Window \in Nat
  BY <1>1, MembersAre, SegmentIs, ConstantsAre DEF Scene, Numbers
<1>3. Diff(s.ack, z.i) = 1 /\ 1 <= z.r /\ z.r <= Furthest(z.w)
  BY <1>2 DEF From, Opening
<1>4. c.ISS = z.i /\ c.SND_UNA = z.i /\ c.SND_NXT = Plus(z.i, 1)
  BY <1>1 DEF SenderKept, OpenedKept
<1>5. c.rtq = EmptyQueue /\ FlattenSeq(c.TxQueue) = Run(0, z.w)
  BY <1>1 DEF SenderKept, OpeningKept, Opening
<1>6. Diff(c.SND_NXT, z.i) = 1
  BY <1>2, <1>4, PlusOne, DiffSelf
<1>7. s.ack = c.SND_NXT
  BY <1>2, <1>3, <1>6, DiffAt
<1>8. Diff(d.SND_NXT, d.SND_UNA) = 0
  BY <1>2, <1>7, DiffSelf
<1>9. FlowingKept(z, d)
  <2>1. d.rtq.data = <<>> /\ d.rtq.pre = 0 /\ d.rtq.over = 0 /\ Len(d.rtq.data) = 0
    BY <1>5 DEF EmptyQueue
  <2> DEFINE F == FlattenSeq(d.TxQueue)
  <2>2. <<>> \o F = F
    <3>1. F \in Seq(Stream(z.n))
      <4>1. c.TxQueue \in Seq(Seq(Stream(z.n)))
        BY <1>1, MembersAre
      <4> QED
        BY <4>1, FlattenType
    <3> QED
      BY <3>1
  <2>3. Holds(d.rtq, d.TxQueue, 0, z.w)
    <3>1. z.w - 0 = z.w /\ 0 <= z.w
      BY <1>2
    <3>2. F = Run(0, z.w - 0)
      BY <1>5, <3>1
    <3>3. d.rtq.data \o F = F
      BY <2>1, <2>2
    <3> HIDE DEF F
    <3>4. d.rtq.data \o F = Run(0, z.w - 0) /\ Even(0) /\ Even(Len(d.rtq.data)) /\ 0 >= 0
      BY <2>1, <3>2, <3>3, EvenZero
    <3> QED
      BY <3>1, <3>4 DEF Holds, F
  <2>4. Diff(d.SND_UNA, z.i) - 1 = 0
    BY <1>3
  <2> QED
    BY <1>2, <1>4, <1>8, <2>1, <2>3, <2>4, EvenZero DEF FlowingKept
<1>10. PeerKept(z, d)
  BY <1>3 DEF PeerKept
<1>11. OpeningKept(z, d) /\ OpenedKept(z, d) /\ EndingKept(z, d) /\ SendingKept(z, d)
  BY DEF OpeningKept, OpenedKept, EndingKept, SendingKept, Opening, Ending, Sending
<1>12. FramesKept(z, d)
  BY <1>1 DEF SenderKept, FramesKept
<1> QED
  BY <1>3, <1>4, <1>7, <1>9, <1>10, <1>11, <1>12 DEF SenderKept

LEMMA SynReceivedAcked ==
  ASSUME NEW z, Scene(z), NEW c, NEW g, Sound(z, c, g), c.State = "SynReceived",
         NEW s, From(z, c, s), Acks(s), NEW d, d = AckField(c, s)
  PROVE  AckTaken(z, c, d, g)
<1>1. Almost(z, c, g) /\ Out(z, c, c.out) /\ Typed(z.n, c) /\ z.n \in Ends /\ Peer(z.n) \in Ends
      /\ g \in Seq(Stream(Peer(z.n))) /\ s \in Segments(Peer(z.n))
  BY EndsAre DEF Sound, Almost, Scene, From
<1>2. Typed(z.n, d)
  BY <1>1, AckFieldTyped DEF Synchronized, States
<1> DEFINE e == [c EXCEPT !.SND_UNA = s.ack, !.State = "Established",
                          !.nRetransmissionCount = MAX_RETRANSMISSIONS]
<1>3. /\ e.State = "Established" /\ e.StateAfterFIN = c.StateAfterFIN
      /\ e.TxQueue = c.TxQueue /\ e.RxQueue = c.RxQueue /\ e.rtq = c.rtq
      /\ e.bRetransmit = c.bRetransmit /\ e.bSendSYN = c.bSendSYN
      /\ e.bFINQueued = c.bFINQueued
      /\ e.ISS = c.ISS /\ e.SND_UNA = s.ack /\ e.SND_NXT = c.SND_NXT /\ e.RCV_NXT = c.RCV_NXT
      /\ e.panic = c.panic /\ e.out = c.out /\ e.hTimer = c.hTimer
  BY <1>1 DEF Typed, Connection
<1>4. Typed(z.n, e)
  <2>1. MAX_RETRANSMISSIONS \in -1 .. MAX_RETRANSMISSIONS /\ MAX_RETRANSMISSIONS # -1
        /\ "Established" \in States
    BY ConstantsAre DEF States
  <2>2. s.ack \in Numbers
    BY <1>1, SegmentIs
  <2>3. /\ e \in Connection(z.n) /\ e.rtq = c.rtq /\ e.TxQueue = c.TxQueue
        /\ e.nRetransmissionCount = MAX_RETRANSMISSIONS
    BY <1>1, <2>1, <2>2 DEF Typed, Connection
  <2> HIDE DEF e
  <2> QED
    BY <1>1, <2>1, <2>3 DEF Typed
<1>5. AckField(c, s) = IF le(c.SND_UNA, s.ack) /\ le(s.ack, c.SND_NXT) THEN e
                       ELSE SendSegment(c, {"RST"}, s.ack, 0, <<>>)
  BY DEF AckField
<1> HIDE DEF e
<1>6. SenderKept(z, e) /\ s.ack = c.SND_NXT /\ c.SND_UNA = z.i /\ c.SND_NXT = Plus(z.i, 1)
      /\ Diff(s.ack, z.i) = 1
  BY <1>1, <1>3, <1>4, OpenedFlows
<1>7. d = e
  <2>1. z.i \in Numbers /\ s.ack \in Numbers /\ Half \in Nat /\ Half >= 2
    BY <1>1, SegmentIs, ConstantsAre DEF Scene
  <2>2. Diff(z.i, z.i) = 0
    BY <2>1, DiffSelf
  <2>3. le(z.i, s.ack)
    BY <1>6, <2>1, <2>2, ltAt
  <2>4. le(s.ack, c.SND_NXT)
    BY <1>6 DEF le
  <2> QED
    BY <1>5, <1>6, <2>3, <2>4
<1>8. TimersKept(z, c) /\ HandshakeKept(z, c) /\ ReceiverKept(z, c, g) /\ SenderKept(z, c)
  BY <1>1 DEF Almost
<1>9. TimersKept(z, e)
  BY <1>3, <1>8 DEF TimersKept, Sending
<1>10. HandshakeKept(z, e)
  BY <1>3 DEF HandshakeKept, From
<1>11. ReceiverKept(z, e, g)
  <2> DEFINE R == g \o FlattenSeq(c.RxQueue)
  <2>1. ArrivedKept(z, c, R)
    BY <1>8 DEF ReceiverKept
  <2> HIDE DEF R
  <2>2. InStep(z, e, R)
    BY <1>3, <2>1 DEF ArrivedKept, InStep, AfterFIN, Synchronized, States
  <2> QED
    BY <1>3, <2>1, <2>2 DEF ArrivedKept, ReceiverKept, Opening, R
<1>12. Almost(z, e, g)
  BY <1>1, <1>4, <1>6, <1>9, <1>10, <1>11 DEF Almost
<1>13. Onward(z, c, e)
  BY <1>3 DEF Onward, Opening, Finished, Ending
<1>14. Out(z, e, e.out)
  BY <1>1, <1>3, <1>4, <1>13, NothingSent
<1>15. RequestKept(e)
  BY <1>3, <1>8 DEF RequestKept, SenderKept, OpeningKept, Opening
<1> QED
  BY <1>3, <1>7, <1>12, <1>13, <1>14, <1>15 DEF AckTaken, Sound, Synchronized, States

\* An acknowledgment of what has not been sent yet is answered.
LEMMA FutureAcked ==
  ASSUME NEW z, Scene(z), NEW c, NEW g, Sound(z, c, g), RequestKept(c),
         c.State \in Synchronized \ {"SynReceived"}
  PROVE  AckTaken(z, c, SendAck(c), g)
<1> DEFINE d == SendAck(c)
<1>1. Almost(z, c, g)
  BY DEF Sound
<1>2. Sound(z, d, g) /\ Onward(z, c, d) /\ Inert(c, d)
  BY SendAckKept
<1> HIDE DEF d
<1>3. RequestKept(d) /\ d.State = c.State /\ d.RCV_NXT = c.RCV_NXT
  BY <1>2 DEF RequestKept, Inert
<1> QED
  BY <1>2, <1>3 DEF AckTaken, d

LEMMA FlowingAckTaken ==
  ASSUME NEW z, Scene(z), NEW c, NEW g, Sound(z, c, g), RequestKept(c), c.State \in Flowing,
         NEW s, From(z, c, s), Acks(s), NEW a, a = AckField(c, s)
  PROVE  AckTaken(z, c, a, g)
<1>1. Almost(z, c, g) /\ Out(z, c, c.out) /\ Typed(z.n, c) /\ z.n \in Ends /\ Peer(z.n) \in Ends
      /\ s \in Segments(Peer(z.n)) /\ c.State \in Synchronized \ {"SynReceived"}
  BY EndsAre DEF Sound, Almost, Scene, From, Synchronized, States, Flowing
<1> DEFINE e == NewAck(c, s)
           new == bwh(c.SND_UNA, s.ack, c.SND_NXT)
           future == lt(c.SND_NXT, s.ack) /\ ~le(s.ack, c.SND_UNA)
<1>2. a = IF future THEN SendAck(c) ELSE IF new THEN e ELSE c
  BY DEF AckField, Flowing
<1> HIDE DEF e, new, future
<1>3. CASE a = SendAck(c)
  BY <1>1, <1>3, FutureAcked
<1>4. CASE a = c
  BY <1>1, <1>4, OnwardStill DEF AckTaken
<1>5. CASE new /\ a = e
  <2>1. Almost(z, e, g) /\ Onward(z, c, e) /\ RequestKept(e)
    BY <1>1, <1>5, FlowingAcked DEF e, new
  <2>2. Acked(c, s, BytesAcked(c, s), e)
    BY <1>1, <1>5, NewAckIs DEF e, new
  <2>3. e.out = c.out /\ e.RCV_NXT = c.RCV_NXT /\ e.State = c.State
    BY <2>2 DEF Acked
  <2>4. Typed(z.n, e)
    BY <2>1 DEF Almost
  <2>5. Out(z, e, e.out)
    BY <1>1, <2>1, <2>3, <2>4, NothingSent
  <2> QED
    BY <1>1, <1>5, <2>1, <2>3, <2>5 DEF AckTaken, Sound
<1> QED
  BY <1>2, <1>3, <1>4, <1>5

\* Before the state changes: what NewAck makes of a connection that ends.
Nears(z, c, s, e) ==
  /\ e.StateAfterFIN = c.StateAfterFIN /\ e.ISS = c.ISS
  /\ e.rtq.data = <<>> /\ e.TxQueue = c.TxQueue /\ e.RxQueue = c.RxQueue
  /\ e.bRetransmit = c.bRetransmit /\ e.bSendSYN = c.bSendSYN /\ e.panic = c.panic
  /\ e.bFINQueued => c.bFINQueued
  /\ e.SND_NXT = c.SND_NXT /\ e.RCV_NXT = c.RCV_NXT /\ e.out = c.out
  /\ Diff(c.SND_UNA, z.i) <= Diff(e.SND_UNA, z.i)
  /\ Diff(e.SND_UNA, z.i) <= Diff(c.SND_NXT, z.i) /\ Diff(e.SND_UNA, z.i) <= z.r
  /\ z.st = "Listen" => Diff(e.SND_UNA, z.i) = 1
  /\ Off(c) => Off(e)
  /\ e.State = c.State
  /\ e.nRetransmissionCount = c.nRetransmissionCount \/ s.ack = c.SND_NXT

LEMMA NearsIs ==
  ASSUME NEW z, Scene(z), NEW c, NEW g, Almost(z, c, g), c.State \in Ending,
         NEW s, From(z, c, s), Acks(s),
         NEW e, e = IF bwh(c.SND_UNA, s.ack, c.SND_NXT) THEN NewAck(c, s) ELSE c
  PROVE  Nears(z, c, s, e) /\ Typed(z.n, e)
<1>1. Typed(z.n, c) /\ z.n \in Ends /\ SenderKept(z, c)
  BY DEF Almost, Scene
<1>2. CASE bwh(c.SND_UNA, s.ack, c.SND_NXT)
  <2>1. e = NewAck(c, s)
    BY <1>2
  <2>2. /\ Acked(c, s, BytesAcked(c, s), e) /\ e.rtq.data = <<>> /\ Typed(z.n, e)
        /\ Diff(c.SND_UNA, z.i) <= Diff(e.SND_UNA, z.i)
        /\ Diff(e.SND_UNA, z.i) <= Diff(c.SND_NXT, z.i) /\ Diff(e.SND_UNA, z.i) <= z.r
        /\ z.st = "Listen" => Diff(e.SND_UNA, z.i) = 1
    BY <1>2, <2>1, EndingAcked
  <2> QED
    BY <2>2 DEF Nears, Acked, Off
<1>3. CASE ~bwh(c.SND_UNA, s.ack, c.SND_NXT)
  <2>1. e = c
    BY <1>3
  <2>2. EndingKept(z, c) /\ PeerKept(z, c)
    BY <1>1 DEF SenderKept
  <2>3. c.rtq.data = <<>> /\ Diff(c.SND_UNA, z.i) <= Diff(c.SND_NXT, z.i)
        /\ Diff(c.SND_UNA, z.i) <= z.r /\ (z.st = "Listen" => Diff(c.SND_UNA, z.i) = 1)
    BY <2>2 DEF EndingKept, PeerKept
  <2>4. Diff(c.SND_UNA, z.i) \in Nat
    BY <1>1, MembersAre, DiffNat DEF Scene
  <2> QED
    BY <1>1, <2>1, <2>3, <2>4 DEF Nears
<1> QED
  BY <1>2, <1>3

LEMMA MovesTaken ==
  ASSUME NEW z, Scene(z), NEW c, NEW g, Sound(z, c, g), RequestKept(c), c.State \in Ending,
         NEW d, Typed(z.n, d), Moves(z, c, d), d.out = c.out
  PROVE  AckTaken(z, c, d, g)
<1>1. Almost(z, c, g) /\ Out(z, c, c.out) /\ Typed(z.n, c)
  BY DEF Sound, Almost
<1>2. Almost(z, d, g) /\ Onward(z, c, d) /\ RequestKept(d)
  BY <1>1, MovesKept
<1>3. Out(z, d, d.out)
  BY <1>1, <1>2, NothingSent
<1>4. d.RCV_NXT = c.RCV_NXT /\ d.State \in Synchronized \ {"SynReceived"}
  BY DEF Moves, Ending, Synchronized, States
<1> QED
  BY <1>2, <1>3, <1>4 DEF AckTaken, Sound

LEMMA EndingAckTaken ==
  ASSUME NEW z, Scene(z), NEW c, NEW g, Sound(z, c, g), RequestKept(c),
         c.State \in {"FinWait1", "FinWait2", "Closing"},
         NEW s, From(z, c, s), Acks(s), NEW a, a = AckField(c, s)
  PROVE  AckTaken(z, c, a, g)
<1>1. Almost(z, c, g) /\ Typed(z.n, c) /\ z.n \in Ends /\ c.State \in Ending
      /\ c.State \in Synchronized \ {"SynReceived"}
  BY DEF Sound, Almost, Scene, Synchronized, States, Ending
<1> DEFINE e == IF bwh(c.SND_UNA, s.ack, c.SND_NXT) THEN NewAck(c, s) ELSE c
           all == s.ack = c.SND_NXT
           future == lt(c.SND_NXT, s.ack) /\ ~le(s.ack, c.SND_UNA)
           ev == e.Event \/ IsEmpty(e.rtq)
           f == [e EXCEPT !.Event = ev]
           h == IF c.State = "FinWait1" THEN FINAcked(e, "FinWait2") ELSE FINAcked(e, "TimeWait")
<1>3. Nears(z, c, s, e) /\ Typed(z.n, e)
  BY <1>1, NearsIs
<1> HIDE DEF future
<1>2a. a = CASE future -> SendAck(c)
             [] all /\ c.State = "FinWait1" -> FINAcked(e, "FinWait2")
             [] all /\ c.State = "Closing" -> FINAcked(e, "TimeWait")
             [] OTHER -> IF c.State = "FinWait2" THEN f ELSE e
  BY <1>1, <1>3 DEF AckField, Typed, Connection, future
<1>2b. future \in BOOLEAN /\ all \in BOOLEAN /\ ~(future /\ all)
  <2>1. c.SND_NXT \in Numbers /\ Half \in Nat /\ Half >= 2
    BY <1>1, MembersAre, ConstantsAre
  <2>2. ~lt(c.SND_NXT, c.SND_NXT)
    BY <2>1, DiffSelf, ltIs
  <2> QED
    BY <2>2 DEF future, all
<1> HIDE DEF e, f, all
<1>2. /\ future => a = SendAck(c)
      /\ ~future /\ all /\ c.State # "FinWait2" => a = h
      /\ ~future /\ ~all /\ c.State # "FinWait2" => a = e
      /\ ~future /\ c.State = "FinWait2" => a = f
  <2>1. ASSUME future PROVE a = SendAck(c)
    BY <1>2a, <1>2b, <2>1
  <2>2. ASSUME ~future, c.State = "FinWait1", all PROVE a = h
    BY <1>2a, <2>2
  <2>3. ASSUME ~future, c.State = "Closing", all PROVE a = h
    BY <1>2a, <2>3
  <2>4. ASSUME ~future, c.State # "FinWait2", ~all PROVE a = e
    BY <1>2a, <2>4
  <2>5. ASSUME ~future, c.State = "FinWait2" PROVE a = f
    BY <1>2a, <2>5
  <2> QED
    BY <1>2b, <2>1, <2>2, <2>3, <2>4, <2>5
<1>4. ASSUME a = SendAck(c) PROVE AckTaken(z, c, a, g)
  BY <1>1, <1>4, FutureAcked
<1>5. ASSUME a = e, ~all, c.State # "FinWait2" PROVE AckTaken(z, c, a, g)
  <2>1. Moves(z, c, e) /\ e.out = c.out
    BY <1>3, <1>5 DEF Nears, Moves, all
  <2> QED
    BY <1>1, <1>3, <1>5, <2>1, MovesTaken
<1>6. ASSUME a = f, c.State = "FinWait2" PROVE AckTaken(z, c, a, g)
  <2>1. ev \in BOOLEAN /\ f = [e EXCEPT !.Event = ev]
    BY <1>3 DEF Typed, Connection, f
  <2> HIDE DEF ev
  <2>2. Typed(z.n, f)
    BY <1>3, <2>1 DEF Typed, Connection
  <2>3. /\ f.StateAfterFIN = e.StateAfterFIN /\ f.ISS = e.ISS
        /\ f.rtq = e.rtq /\ f.TxQueue = e.TxQueue /\ f.RxQueue = e.RxQueue
        /\ f.bRetransmit = e.bRetransmit /\ f.bSendSYN = e.bSendSYN /\ f.panic = e.panic
        /\ f.bFINQueued = e.bFINQueued /\ f.SND_UNA = e.SND_UNA /\ f.hTimer = e.hTimer
        /\ f.SND_NXT = e.SND_NXT /\ f.RCV_NXT = e.RCV_NXT /\ f.out = e.out /\ f.State = e.State
    BY <1>3, <2>1 DEF Typed, Connection
  <2>4. Moves(z, c, f) /\ f.out = c.out
    BY <1>3, <1>6, <2>3 DEF Nears, Moves, Off, Sending
  <2> QED
    BY <1>1, <1>6, <2>2, <2>4, MovesTaken
<1>7. ASSUME a = h, c.State # "FinWait2" PROVE AckTaken(z, c, a, g)
  <2> DEFINE st == IF c.State = "FinWait1" THEN "FinWait2" ELSE "TimeWait"
  <2>1. h = FINAcked(e, st) /\ st \in States
    BY DEF States
  <2> HIDE DEF h, st
  <2>2. Typed(z.n, h)
    BY <1>1, <1>3, <2>1, FINAckedTyped
  <2>3. /\ h.StateAfterFIN = e.StateAfterFIN /\ h.ISS = e.ISS
        /\ h.rtq = e.rtq /\ h.TxQueue = e.TxQueue /\ h.RxQueue = e.RxQueue
        /\ h.bRetransmit = e.bRetransmit /\ h.bSendSYN = e.bSendSYN /\ h.panic = e.panic
        /\ h.bFINQueued = FALSE /\ h.SND_UNA = e.SND_UNA
        /\ h.SND_NXT = e.SND_NXT /\ h.RCV_NXT = e.RCV_NXT /\ h.out = e.out /\ h.State = st
        /\ Off(h)
    BY <1>3, <2>1 DEF Typed, Connection, FINAcked, Off
  <2>4. /\ c.State = "FinWait1" => st = "FinWait2"
        /\ c.State = "Closing" => st = "TimeWait"
    BY DEF st
  <2>5. Moves(z, c, h) /\ h.out = c.out
    BY <1>3, <1>7, <2>3, <2>4 DEF Nears, Moves, Sending
  <2> QED
    BY <1>1, <1>7, <2>2, <2>5, MovesTaken
<1> QED
  BY <1>2, <1>4, <1>5, <1>6, <1>7

LEMMA LastAckTaken ==
  ASSUME NEW z, Scene(z), NEW c, NEW g, Sound(z, c, g), RequestKept(c), c.State = "LastAck",
         NEW s, From(z, c, s), NEW a, a = AckField(c, s)
  PROVE  AckTaken(z, c, a, g)
<1>1. Almost(z, c, g) /\ Out(z, c, c.out) /\ Typed(z.n, c) /\ z.n \in Ends /\ Peer(z.n) \in Ends
      /\ s \in Segments(Peer(z.n)) /\ c.State \in Synchronized \ {"SynReceived"}
  BY EndsAre DEF Sound, Almost, Scene, From, Synchronized, States
<1>2. CASE s.ack = c.SND_NXT
  <2>1. a = [c EXCEPT !.bFINQueued = FALSE, !.State = "Closed", !.Event = TRUE]
    BY <1>2 DEF AckField
  <2>2. Typed(z.n, a)
    BY <1>1, AckFieldTyped
  <2>3. Closes(c, a) /\ a.out = c.out /\ a.RCV_NXT = c.RCV_NXT /\ a.State = "Closed"
    BY <1>1, <2>1 DEF Closes, Typed, Connection
  <2>4. Almost(z, a, g) /\ Onward(z, c, a) /\ RequestKept(a)
    BY <1>1, <2>2, <2>3, ClosesKept
  <2>5. Out(z, a, a.out)
    BY <1>1, <2>2, <2>3, <2>4, NothingSent
  <2> QED
    BY <2>3, <2>4, <2>5 DEF AckTaken, Sound
<1>3. CASE s.ack # c.SND_NXT
  <2>1. a = c
    BY <1>3 DEF AckField
  <2> QED
    BY <1>1, <2>1, OnwardStill DEF AckTaken
<1> QED
  BY <1>2, <1>3

LEMMA TimeWaitTaken ==
  ASSUME NEW z, Scene(z), NEW c, NEW g, Sound(z, c, g), RequestKept(c), c.State = "TimeWait",
         NEW s, From(z, c, s), Acks(s), NEW a, a = AckField(c, s)
  PROVE  AckTaken(z, c, a, g)
<1>1. Almost(z, c, g) /\ Out(z, c, c.out) /\ Typed(z.n, c) /\ z.n \in Ends /\ Peer(z.n) \in Ends
      /\ s \in Segments(Peer(z.n)) /\ c.State \in Synchronized \ {"SynReceived"}
      /\ c.State \in Ending /\ SenderKept(z, c)
  BY EndsAre DEF Sound, Almost, Scene, From, Synchronized, States, Ending
<1>2. CASE s.ack = c.SND_NXT
  <2> DEFINE e == [c EXCEPT !.bFINQueued = FALSE]
             f == SendAck(e)
  <2>1. a = StartTimer(f, "TimeWait")
    BY <1>2 DEF AckField
  <2>2. Typed(z.n, e)
    BY <1>1, ZenonT(60) DEF Typed, Connection
  <2>3. /\ e.StateAfterFIN = c.StateAfterFIN /\ e.ISS = c.ISS
        /\ e.rtq = c.rtq /\ e.TxQueue = c.TxQueue /\ e.RxQueue = c.RxQueue
        /\ e.bRetransmit = c.bRetransmit /\ e.bSendSYN = c.bSendSYN /\ e.panic = c.panic
        /\ e.bFINQueued = FALSE /\ e.SND_UNA = c.SND_UNA /\ e.hTimer = c.hTimer
        /\ e.SND_NXT = c.SND_NXT /\ e.RCV_NXT = c.RCV_NXT /\ e.out = c.out /\ e.State = c.State
    BY <1>1 DEF Typed, Connection
  <2> HIDE DEF e
  <2>4. Moves(z, c, e)
    <3>1. EndingKept(z, c) /\ PeerKept(z, c)
      BY <1>1 DEF SenderKept
    <3>2. c.rtq.data = <<>> /\ Diff(c.SND_UNA, z.i) <= Diff(c.SND_NXT, z.i)
          /\ Diff(c.SND_UNA, z.i) <= z.r /\ (z.st = "Listen" => Diff(c.SND_UNA, z.i) = 1)
      BY <1>1, <3>1 DEF EndingKept, PeerKept
    <3>3. Diff(c.SND_UNA, z.i) \in Nat
      BY <1>1, MembersAre, DiffNat DEF Scene
    <3> QED
      BY <2>3, <3>2, <3>3 DEF Moves, Off, Sending
  <2>5. AckTaken(z, c, e, g)
    BY <1>1, <2>2, <2>3, <2>4, MovesTaken
  <2>6. Sound(z, f, g) /\ Onward(z, e, f) /\ Inert(e, f)
    <3>1. e.State \in Synchronized /\ Sound(z, e, g)
      BY <1>1, <2>3, <2>5 DEF AckTaken
    <3> QED
      BY <3>1, SendAckKept
  <2> HIDE DEF f
  <2>7. Almost(z, f, g) /\ Typed(z.n, f) /\ Out(z, f, f.out)
    BY <2>6 DEF Sound, Almost
  <2>8. Typed(z.n, a)
    BY <1>1, AckFieldTyped
  <2>9. Inert(f, a) /\ a.out = f.out
    BY <2>1, <2>7 DEF StartTimer, Inert, Off, Typed, Connection
  <2>10. Almost(z, a, g) /\ Onward(z, f, a)
    BY <2>7, <2>8, <2>9, InertKept
  <2>11. Out(z, a, a.out)
    BY <2>7, <2>8, <2>9, <2>10, NothingSent
  <2>12. Onward(z, c, a)
    <3>1. Onward(z, c, e)
      BY <2>5 DEF AckTaken
    <3>2. Onward(z, c, f)
      BY <1>1, <2>2, <2>6, <2>7, <3>1, OnwardOnward
    <3> QED
      BY <1>1, <2>7, <2>8, <2>10, <3>2, OnwardOnward
  <2>13. RequestKept(a) /\ a.RCV_NXT = c.RCV_NXT /\ a.State = c.State
    BY <2>3, <2>5, <2>6, <2>9 DEF Inert, AckTaken, RequestKept
  <2> QED
    BY <1>1, <2>10, <2>11, <2>12, <2>13 DEF AckTaken, Sound
<1>3. CASE s.ack # c.SND_NXT
  <2>1. a = c
    BY <1>3 DEF AckField
  <2> QED
    BY <1>1, <2>1, OnwardStill DEF AckTaken
<1> QED
  BY <1>2, <1>3

LEMMA AckFieldKept ==
  ASSUME NEW z, Scene(z), NEW c, NEW g, Sound(z, c, g), RequestKept(c),
         c.State \in Synchronized, NEW s, From(z, c, s), Acks(s), NEW a, a = AckField(c, s)
  PROVE  AckTaken(z, c, a, g)
BY SynReceivedAcked, FlowingAckTaken, EndingAckTaken, LastAckTaken, TimeWaitTaken
   DEF Synchronized, States, Flowing

-----------------------------------------------------------------------------
(* Text and FIN                                                            *)

\* Text that comes next belongs behind what has arrived.
LEMMA TextArrived ==
  ASSUME NEW z, Scene(z), NEW c, NEW g, Almost(z, c, g), c.State \in Receiving,
         NEW o, NEW s, From(z, o, s), s.seq = c.RCV_NXT, s.data # <<>>,
         NEW d, Typed(z.n, d), d.State = c.State, d.RxQueue = Append(c.RxQueue, s.data),
         d.RCV_NXT = Plus(c.RCV_NXT, Len(s.data))
  PROVE  /\ ReceiverKept(z, d, g) /\ Diff(c.RCV_NXT, z.j) <= Diff(d.RCV_NXT, z.j)
         /\ Diff(d.RCV_NXT, z.j) <= Furthest(z.v)
<1> DEFINE T == Stream(Peer(z.n))
           R == g \o FlattenSeq(c.RxQueue)
           r == Diff(c.RCV_NXT, z.j)
           m == Len(s.data)
           v == z.v
           F == Furthest(v)
<1>1. Typed(z.n, c) /\ z.n \in Ends /\ Peer(z.n) \in Ends /\ g \in Seq(T)
      /\ s \in Segments(Peer(z.n)) /\ ReceiverKept(z, c, g)
  BY EndsAre DEF Almost, Scene, From
<1>2. /\ c.RCV_NXT \in Numbers /\ z.j \in Numbers /\ c.RxQueue \in Seq(Seq(T)) /\ s.data \in Seq(T)
      /\ m \in Nat /\ v \in Nat /\ F \in Nat /\ F < Half /\ v + 2 <= F /\ Half \in Nat
      /\ NumMod = 2 * Half
  BY <1>1, MembersAre, SegmentIs, ConstantsAre DEF Scene
<1>3. r \in Nat
  BY <1>2, DiffNat
<1>4. FlattenSeq(c.RxQueue) \in Seq(T) /\ R \in Seq(T) /\ Len(R) \in Nat
  BY <1>1, <1>2, FlattenType
<1>5. g \o FlattenSeq(d.RxQueue) = R \o s.data
  <2> DEFINE G == FlattenSeq(c.RxQueue)
  <2>1. FlattenSeq(Append(c.RxQueue, s.data)) = G \o s.data
    BY <1>2, FlattenAppend
  <2> DEFINE x == s.data
  <2>2. g \o (G \o x) = (g \o G) \o x
    <3>1. G \in Seq(T) /\ g \in Seq(T) /\ x \in Seq(T)
      BY <1>1, <1>2, <1>4
    <3> HIDE DEF G, T, x
    <3> QED
      BY ONLY <3>1, ConcatAssociative, SMTT(30)
  <2> QED
    BY <2>1, <2>2
<1>6. ArrivedKept(z, c, R) /\ c.State \in Synchronized /\ c.State \notin Opening
  BY <1>1 DEF ReceiverKept, Receiving, Synchronized, States, Opening
<1>7. R = Run(0, Len(R)) /\ Len(R) <= v /\ InStep(z, c, R)
  BY <1>6 DEF ArrivedKept
<1>8. Bytes(s.data, r - 1, v) /\ z.st \notin Opening
  BY DEF From
<1> HIDE DEF R, r, m, v, F, T
<1>9. /\ r - 1 >= 0 /\ Even(m) /\ r - 1 + m <= v /\ s.data = Run(r - 1, m)
  BY <1>8 DEF Bytes, m
<1>10. Even(Len(R)) /\ r = 1 + Len(R)
  <2>1. r = 1 + Len(R) \/ 2 + v <= r
    BY <1>7 DEF InStep, r, v
  <2>2. ~(2 + v <= r)
    BY <1>2, <1>3, <1>9
  <2> QED
    BY <1>7, <2>1, <2>2 DEF InStep
<1>11. Diff(d.RCV_NXT, z.j) = r + m
  <2>1. r + m < NumMod
    BY <1>2, <1>3, <1>9
  <2>2. Diff(Plus(c.RCV_NXT, m), z.j) = r + m
    BY <1>2, <2>1, PlusAt DEF r
  <2> QED
    BY <2>2 DEF m
<1> DEFINE Q == R \o s.data
           l == Len(R)
<1>12. Q = Run(0, l + m) /\ l + m <= v /\ l + m \in Nat /\ r - 1 = l /\ 0 + l = l
  <2>1. l \in Nat /\ r - 1 = l /\ 0 + l = l /\ 0 \in Int /\ l + m <= v /\ l + m \in Nat
    BY <1>2, <1>4, <1>9, <1>10
  <2> HIDE DEF l
  <2>2. Run(0, l) \o Run(0 + l, m) = Run(0, l + m)
    BY <1>2, <2>1, RunJoin
  <2>3. R = Run(0, l) /\ s.data = Run(0 + l, m)
    BY <1>7, <1>9, <2>1 DEF l
  <2> QED
    BY <2>1, <2>2, <2>3
<1> HIDE DEF Q, l
<1>13. Len(Q) = l + m
  BY <1>12, RunIs
<1>14. l \in Nat
  BY <1>4 DEF l
<1>15. Even(Len(Q))
  <2>1. Even(l)
    BY <1>10 DEF l
  <2> QED
    BY <1>2, <1>9, <1>13, <1>14, <2>1, EvenSum
<1>16. InStep(z, d, Q)
  <2>1. r + m = 1 + Len(Q)
    BY <1>2, <1>3, <1>12, <1>13, <1>14
  <2>2. d.State \notin AfterFIN
    BY DEF Receiving, AfterFIN
  <2> QED
    BY <1>8, <1>11, <1>15, <2>1, <2>2 DEF InStep
<1>17. ArrivedKept(z, d, Q)
  BY <1>6, <1>12, <1>13, <1>16 DEF ArrivedKept, v
<1>18. ReceiverKept(z, d, g)
  BY <1>5, <1>17 DEF ReceiverKept, Q
<1>19. r <= r + m /\ r + m <= F
  BY <1>2, <1>3, <1>9
<1> QED
  BY <1>11, <1>18, <1>19 DEF r, F, v

LEMMA TextKept ==
  ASSUME NEW z, Scene(z), NEW c, NEW g, Sound(z, c, g), RequestKept(c),
         c.State \in Synchronized \ {"SynReceived"},
         NEW o, NEW s, From(z, o, s), NEW t, t = Text(c, s)
  PROVE  /\ Sound(z, t, g) /\ Onward(z, c, t) /\ RequestKept(t)
         /\ s.data = <<>> /\ (c.State \in Receiving => InOrder(c, s)) => t = c
<1>1. Almost(z, c, g) /\ Out(z, c, c.out) /\ Typed(z.n, c) /\ z.n \in Ends /\ Peer(z.n) \in Ends
      /\ g \in Seq(Stream(Peer(z.n))) /\ s \in Segments(Peer(z.n))
  BY EndsAre DEF Sound, Almost, Scene, From
<1>2. CASE c.State \in Receiving /\ ~InOrder(c, s)
  <2>1. t = SendAck(c)
    BY <1>2 DEF Text
  <2>2. Sound(z, t, g) /\ Onward(z, c, t) /\ Inert(c, t)
    BY <2>1, SendAckKept
  <2> QED
    BY <1>2, <2>2 DEF RequestKept, Inert
<1>3. CASE c.State \in Receiving /\ InOrder(c, s) /\ s.data # <<>>
  <2> DEFINE ev == c.Event \/ "PSH" \in s.flags
             q == Append(c.RxQueue, s.data)
             x == Plus(c.RCV_NXT, Len(s.data))
             d == [c EXCEPT !.RxQueue = q, !.RCV_NXT = x, !.Event = ev]
  <2>1. t = SendAck(d)
    BY <1>1, <1>3 DEF Text, Typed, Connection
  <2>2. ev \in BOOLEAN /\ s.data \in Seq(Stream(Peer(z.n))) /\ Len(s.data) \in Int
        /\ c.RxQueue \in Seq(Seq(Stream(Peer(z.n)))) /\ c.RCV_NXT \in Numbers
    BY <1>1, SegmentIs, MembersAre
  <2>3. q \in Seq(Seq(Stream(Peer(z.n)))) /\ x \in Numbers
    BY <2>2, PlusType
  <2> HIDE DEF ev, q, x
  <2>4. Typed(z.n, d)
    BY <1>1, <2>2, <2>3, ZenonT(60) DEF Typed, Connection
  <2>5. /\ d.State = c.State /\ d.StateAfterFIN = c.StateAfterFIN
        /\ d.TxQueue = c.TxQueue /\ d.RxQueue = q /\ d.rtq = c.rtq
        /\ d.bRetransmit = c.bRetransmit /\ d.bSendSYN = c.bSendSYN /\ d.bFINQueued = c.bFINQueued
        /\ d.nRetransmissionCount = c.nRetransmissionCount /\ d.ISS = c.ISS
        /\ d.SND_UNA = c.SND_UNA /\ d.SND_NXT = c.SND_NXT /\ d.RCV_NXT = x
        /\ d.panic = c.panic /\ d.hTimer = c.hTimer /\ d.out = c.out
    BY <1>1 DEF Typed, Connection
  <2> HIDE DEF d
  <2>6. /\ ReceiverKept(z, d, g) /\ Diff(c.RCV_NXT, z.j) <= Diff(d.RCV_NXT, z.j)
        /\ Diff(d.RCV_NXT, z.j) <= Furthest(z.v)
    <3>1. s.seq = c.RCV_NXT
      BY <1>3 DEF InOrder
    <3> QED
      BY <1>1, <1>3, <2>4, <2>5, <3>1, TextArrived DEF q, x
  <2>7. TimersKept(z, c) /\ SenderKept(z, c) /\ HandshakeKept(z, c)
    BY <1>1 DEF Almost
  <2>8. SenderKept(z, d)
    BY <2>5, <2>7 DEF SenderKept, OpeningKept, OpenedKept, FlowingKept, EndingKept, SendingKept,
                      PeerKept, FramesKept
  <2>9. TimersKept(z, d) /\ HandshakeKept(z, d)
    BY <2>5, <2>7 DEF TimersKept, HandshakeKept, Off
  <2>10. Almost(z, d, g)
    BY <1>1, <2>4, <2>6, <2>8, <2>9 DEF Almost
  <2>11. Onward(z, c, d)
    BY <2>5, <2>6 DEF Onward
  <2>12. Out(z, d, d.out)
    BY <1>1, <2>4, <2>5, <2>11, NothingSent
  <2>13. Sound(z, t, g) /\ Onward(z, d, t) /\ Inert(d, t)
    <3>1. Sound(z, d, g) /\ d.State \in Synchronized
      BY <2>5, <2>10, <2>12 DEF Sound
    <3> QED
      BY <2>1, <3>1, SendAckKept
  <2>14. Onward(z, c, t)
    <3>1. Typed(z.n, t)
      BY <2>13 DEF Sound, Almost
    <3> QED
      BY <1>1, <2>4, <2>11, <2>13, <3>1, OnwardOnward
  <2>15. RequestKept(t)
    BY <2>5, <2>13 DEF RequestKept, Inert, Off
  <2> QED
    BY <1>3, <2>13, <2>14, <2>15
<1>4. CASE ~(c.State \in Receiving /\ (~InOrder(c, s) \/ s.data # <<>>))
  <2>1. t = c
    BY <1>4 DEF Text
  <2> QED
    BY <2>1, OnwardStill
<1> QED
  BY <1>2, <1>3, <1>4

\* A FIN that is taken comes after all the bytes.
LEMMA FINTaken ==
  ASSUME NEW z, Scene(z), NEW c, NEW g, Sound(z, c, g), RequestKept(c),
         c.State \in Synchronized \ {"SynReceived"}, NEW o, NEW s, From(z, o, s),
         "FIN" \in s.flags, c.State \in Receiving => s.seq = c.RCV_NXT,
         c.State \notin Receiving => le(c.RCV_NXT, s.seq),
         NEW e, e = [c EXCEPT !.RCV_NXT = Plus(@, 1)]
  PROVE  /\ Sound(z, e, g) /\ Onward(z, c, e) /\ RequestKept(e) /\ e.State = c.State
         /\ 2 + z.v <= Diff(e.RCV_NXT, z.j) /\ z.st \in Finished
<1> DEFINE T == Stream(Peer(z.n))
           R == g \o FlattenSeq(c.RxQueue)
           r == Diff(c.RCV_NXT, z.j)
           D == Diff(s.seq, z.j)
           v == z.v
           F == Furthest(v)
<1>1. Almost(z, c, g) /\ Out(z, c, c.out) /\ Typed(z.n, c) /\ z.n \in Ends /\ Peer(z.n) \in Ends
      /\ g \in Seq(T) /\ s \in Segments(Peer(z.n)) /\ ReceiverKept(z, c, g)
      /\ c.State \notin Opening
  BY EndsAre DEF Sound, Almost, Scene, From, Opening, Synchronized
<1>2. /\ c.RCV_NXT \in Numbers /\ z.j \in Numbers /\ c.RxQueue \in Seq(Seq(T))
      /\ s.seq \in Numbers /\ v \in Nat /\ F \in Nat /\ F < Half /\ v + 2 <= F /\ Half \in Nat
  BY <1>1, MembersAre, SegmentIs, ConstantsAre DEF Scene
<1>3. r \in Nat /\ D \in Nat
  BY <1>2, DiffNat
<1>4. Len(R) \in Nat
  BY <1>1, <1>2, FlattenType
<1>5. ArrivedKept(z, c, R)
  BY <1>1 DEF ReceiverKept
<1>6. Len(R) <= v /\ InStep(z, c, R)
  BY <1>5 DEF ArrivedKept
<1>7. 1 + v <= D /\ D < F /\ z.st \in Finished
  BY DEF From
<1>8. /\ (r = 1 + Len(R) /\ c.State \notin AfterFIN) \/ (Len(R) = v /\ 2 + v <= r /\ r <= F)
      /\ Even(Len(R))
  BY <1>6 DEF InStep
<1>9. r <= D
  <2>1. CASE c.State \in Receiving
    BY <1>3, <2>1
  <2>2. CASE c.State \notin Receiving
    <3>1. c.State \in AfterFIN
      BY <2>2 DEF Receiving, AfterFIN, Synchronized, States
    <3>2. r <= F
      BY <1>8, <3>1
    <3> HIDE DEF F
    <3>3. r < Half /\ D < Half
      BY <1>2, <1>3, <1>7, <3>2
    <3> QED
      BY <1>2, <2>2, <3>3, ltAt DEF r, D
  <2> QED
    BY <2>1, <2>2
<1>10. Len(R) = v /\ 1 + v <= r
  <2>1. CASE c.State \in Receiving
    <3>1. r = D
      BY <2>1
    <3> HIDE DEF R, r, D, v, F
    <3> QED
      BY <1>2, <1>3, <1>4, <1>6, <1>7, <1>8, <3>1
  <2>2. CASE c.State \notin Receiving
    <3>1. c.State \in AfterFIN
      BY <2>2 DEF Receiving, AfterFIN, Synchronized, States
    <3> HIDE DEF R, r, D, v, F
    <3> QED
      BY <1>2, <1>3, <1>8, <3>1
  <2> QED
    BY <2>1, <2>2
<1>11. Plus(c.RCV_NXT, 1) \in Numbers /\ Diff(Plus(c.RCV_NXT, 1), z.j) = r + 1
  <2>1. r < Half
    <3> HIDE DEF r, D, F
    <3> QED
      BY <1>2, <1>3, <1>7, <1>9
  <2> QED
    BY <1>2, <2>1, PlusOne
<1> HIDE DEF R, r, D, v, F
<1>12. 2 + v <= r + 1 /\ r + 1 <= F /\ r <= r + 1
  BY <1>2, <1>3, <1>7, <1>9, <1>10
<1>13. /\ e.State = c.State /\ e.StateAfterFIN = c.StateAfterFIN
       /\ e.TxQueue = c.TxQueue /\ e.RxQueue = c.RxQueue /\ e.rtq = c.rtq
       /\ e.bRetransmit = c.bRetransmit /\ e.bSendSYN = c.bSendSYN /\ e.bFINQueued = c.bFINQueued
       /\ e.nRetransmissionCount = c.nRetransmissionCount /\ e.ISS = c.ISS
       /\ e.SND_UNA = c.SND_UNA /\ e.SND_NXT = c.SND_NXT /\ e.RCV_NXT = Plus(c.RCV_NXT, 1)
       /\ e.panic = c.panic /\ e.hTimer = c.hTimer /\ e.out = c.out
  BY <1>1 DEF Typed, Connection
<1>14. Typed(z.n, e)
  BY <1>1, <1>11 DEF Typed, Connection
<1>15. TimersKept(z, c) /\ SenderKept(z, c) /\ HandshakeKept(z, c)
  BY <1>1 DEF Almost
<1>16. SenderKept(z, e)
  BY <1>13, <1>15 DEF SenderKept, OpeningKept, OpenedKept, FlowingKept, EndingKept, SendingKept,
                    PeerKept, FramesKept
<1>17. TimersKept(z, e) /\ HandshakeKept(z, e)
  BY <1>13, <1>15 DEF TimersKept, HandshakeKept, Off
<1>18. InStep(z, e, R)
  <2>1. z.st \notin Opening
    BY <1>7 DEF Finished, Ending, Opening
  <2> QED
    BY <1>7, <1>8, <1>10, <1>11, <1>12, <1>13, <2>1 DEF InStep, v, F
<1>19. ReceiverKept(z, e, g)
  <2>1. ArrivedKept(z, e, R)
    BY <1>1, <1>5, <1>13, <1>18 DEF ArrivedKept
  <2> QED
    BY <1>13, <2>1 DEF ReceiverKept, R
<1>20. Almost(z, e, g)
  BY <1>1, <1>14, <1>16, <1>17, <1>19 DEF Almost
<1>21. Onward(z, c, e)
  BY <1>11, <1>12, <1>13 DEF Onward, r, F, v
<1>22. Out(z, e, e.out)
  BY <1>1, <1>13, <1>14, <1>21, NothingSent
<1> QED
  BY <1>7, <1>11, <1>12, <1>13, <1>20, <1>21, <1>22 DEF Sound, RequestKept, Off, v

\* The state that follows a FIN of the peer.
Shuts(c, d) ==
  /\ d.StateAfterFIN = c.StateAfterFIN
  /\ d.TxQueue = c.TxQueue /\ d.RxQueue = c.RxQueue /\ d.rtq = c.rtq
  /\ d.bRetransmit = c.bRetransmit /\ d.bSendSYN = c.bSendSYN
  /\ d.State # "TimeWait" => d.bFINQueued = c.bFINQueued
  /\ d.bFINQueued => c.bFINQueued
  /\ d.nRetransmissionCount = c.nRetransmissionCount /\ d.ISS = c.ISS
  /\ d.SND_UNA = c.SND_UNA /\ d.SND_NXT = c.SND_NXT /\ d.RCV_NXT = c.RCV_NXT
  /\ d.panic = c.panic /\ d.out = c.out /\ (Off(c) => Off(d))
  /\ \/ d.State = c.State
     \/ c.State = "Established" /\ d.State = "CloseWait"
     \/ c.State = "FinWait1" /\ d.State = "Closing"
     \/ c.State \in {"FinWait1", "FinWait2"} /\ d.State = "TimeWait" /\ Off(d)

LEMMA ShutsKept ==
  ASSUME NEW z, Scene(z), NEW c, NEW g, Sound(z, c, g), RequestKept(c),
         c.State \in Synchronized \ {"SynReceived"},
         2 + z.v <= Diff(c.RCV_NXT, z.j), z.st \in Finished,
         NEW d, Typed(z.n, d), Shuts(c, d)
  PROVE  Sound(z, d, g) /\ Onward(z, c, d) /\ RequestKept(d)
<1>1. Almost(z, c, g) /\ Out(z, c, c.out) /\ Typed(z.n, c) /\ z.n \in Ends
      /\ g \in Seq(Stream(Peer(z.n)))
      /\ TimersKept(z, c) /\ SenderKept(z, c) /\ ReceiverKept(z, c, g)
  BY DEF Sound, Almost, Scene
<1>2. c.State \in Flowing \cup Ending /\ d.State \in Flowing \cup Ending
      /\ (d.State \in Flowing => c.State \in Flowing) /\ (d.State \in Ending => c.State \in Ending)
      /\ (d.State \in Sending => c.State \in Sending /\ d.bFINQueued = c.bFINQueued)
  BY DEF Shuts, Flowing, Ending, Sending, Synchronized, States
<1>3. SenderKept(z, d)
  <2>1. OpeningKept(z, d) /\ OpenedKept(z, d)
    BY <1>2 DEF OpeningKept, OpenedKept, Opening, Flowing, Ending
  <2>2. FlowingKept(z, d)
    BY <1>1, <1>2 DEF FlowingKept, SenderKept, Shuts
  <2>3. EndingKept(z, d)
    BY <1>1, <1>2 DEF EndingKept, SenderKept, Shuts
  <2>4. SendingKept(z, d)
    BY <1>1, <1>2 DEF SendingKept, SenderKept, Shuts
  <2>5. PeerKept(z, d) /\ FramesKept(z, d)
    BY <1>1, <1>2 DEF PeerKept, FramesKept, SenderKept, Shuts
  <2> QED
    BY <2>1, <2>2, <2>3, <2>4, <2>5 DEF SenderKept
<1>4. TimersKept(z, d)
  BY <1>1, <1>2 DEF TimersKept, Shuts, Flowing, Ending, Sending
<1>5. HandshakeKept(z, d)
  BY <1>2 DEF HandshakeKept, Finished, Flowing, Ending
<1>6. ReceiverKept(z, d, g)
  <2> DEFINE R == g \o FlattenSeq(c.RxQueue)
             r == Diff(c.RCV_NXT, z.j)
  <2>1. ArrivedKept(z, c, R) /\ c.State \in Synchronized
    BY <1>1 DEF ReceiverKept
  <2>2. Len(R) \in Nat
    <3>1. c.RxQueue \in Seq(Seq(Stream(Peer(z.n))))
      BY <1>1, MembersAre
    <3> QED
      BY <1>1, <3>1, FlattenType
  <2>3. r \in Nat /\ z.v \in Nat
    BY <1>1, MembersAre, DiffNat DEF Scene
  <2> HIDE DEF R, r
  <2>4. /\ Even(Len(R)) /\ Len(R) <= z.v
        /\ r = 1 + Len(R) \/ (Len(R) = z.v /\ r <= Furthest(z.v))
    BY <2>1 DEF ArrivedKept, InStep, r
  <2>5. Len(R) = z.v /\ r <= Furthest(z.v)
    <3>1. 2 + z.v <= r
      BY DEF r
    <3> QED
      BY <2>2, <2>3, <2>4, <3>1
  <2>6. InStep(z, d, R)
    <3>1. z.st \notin Opening /\ d.State # "SynReceived"
      BY <1>2 DEF Finished, Ending, Opening, Flowing
    <3> QED
      BY <2>4, <2>5, <3>1 DEF InStep, Shuts, r
  <2>7. ArrivedKept(z, d, R)
    BY <1>2, <2>1, <2>6 DEF ArrivedKept, Opening, Flowing, Ending
  <2> QED
    BY <2>7 DEF ReceiverKept, R, Shuts
<1>7. Almost(z, d, g)
  BY <1>1, <1>3, <1>4, <1>5, <1>6 DEF Almost
<1>8. Onward(z, c, d)
  BY <1>2 DEF Onward, Shuts, Opening, Finished, Flowing, Ending
<1>9. Out(z, d, d.out)
  BY <1>1, <1>8, NothingSent DEF Shuts
<1> QED
  BY <1>7, <1>8, <1>9 DEF Sound, RequestKept, Shuts

LEMMA FinKeptAll ==
  ASSUME NEW z, Scene(z), NEW c, NEW g, Sound(z, c, g), RequestKept(c),
         c.State \in Synchronized \ {"SynReceived"}, NEW o, NEW s, From(z, o, s),
         "FIN" \in s.flags, c.State \in Receiving => s.seq = c.RCV_NXT,
         c.State \notin Receiving => le(c.RCV_NXT, s.seq),
         NEW f, f = Fin(c, s)
  PROVE  Sound(z, f, g) /\ Onward(z, c, f) /\ RequestKept(f)
<1> DEFINE e == [c EXCEPT !.RCV_NXT = Plus(@, 1)]
           d == SendAck(e)
           h == (d.hTimer \ {"Retransmission"}) \cup {"TimeWait"}
           w == [d EXCEPT !.State = "TimeWait", !.hTimer = h]
           all == s.ack = c.SND_NXT
<1>1. Typed(z.n, c) /\ z.n \in Ends /\ Peer(z.n) \in Ends /\ s \in Segments(Peer(z.n))
  BY EndsAre DEF Sound, Almost, Scene, From
<1>2. /\ Sound(z, e, g) /\ Onward(z, c, e) /\ RequestKept(e) /\ e.State = c.State
      /\ 2 + z.v <= Diff(e.RCV_NXT, z.j) /\ z.st \in Finished
  BY FINTaken
<1>3. f = CASE c.State = "Established" -> [d EXCEPT !.State = "CloseWait", !.Event = TRUE]
            [] c.State = "FinWait1" -> IF all THEN [w EXCEPT !.bFINQueued = FALSE]
                                       ELSE [d EXCEPT !.State = "Closing"]
            [] c.State = "FinWait2" -> w
            [] c.State = "TimeWait" -> StartTimer(d, "TimeWait")
            [] OTHER -> d
  BY <1>1, <1>2 DEF Fin, Typed, Connection, SendAck, SendSegment
<1> HIDE DEF e
<1>4. Sound(z, d, g) /\ Onward(z, e, d) /\ Inert(e, d)
  BY <1>2, SendAckKept
<1>5. Typed(z.n, f)
  BY <1>1, FinTyped
<1> HIDE DEF d, all
<1>6. Typed(z.n, d) /\ Typed(z.n, e) /\ d.State = c.State /\ d.RCV_NXT = e.RCV_NXT /\ RequestKept(d)
  BY <1>2, <1>4 DEF Sound, Almost, Inert, RequestKept
<1>7. Shuts(d, f)
  <2>1. CASE c.State = "Established"
    <3>1. f = [d EXCEPT !.State = "CloseWait", !.Event = TRUE]
      BY <1>3, <2>1
    <3> QED
      BY <1>6, <2>1, <3>1 DEF Shuts, Typed, Connection, Off
  <2>2. CASE c.State = "FinWait1" /\ all
    <3>1. f = [w EXCEPT !.bFINQueued = FALSE]
      BY <1>3, <2>2
    <3>2. f = [d EXCEPT !.State = "TimeWait", !.hTimer = h, !.bFINQueued = FALSE]
      BY <1>6, <3>1 DEF Typed, Connection
    <3>3. "Retransmission" \notin h
      OBVIOUS
    <3> HIDE DEF h, w
    <3> QED
      BY <1>6, <2>2, <3>2, <3>3 DEF Shuts, Typed, Connection, Off
  <2>3. CASE c.State = "FinWait1" /\ ~all
    <3>1. f = [d EXCEPT !.State = "Closing"]
      BY <1>3, <2>3
    <3> QED
      BY <1>6, <2>3, <3>1 DEF Shuts, Typed, Connection, Off
  <2>4. CASE c.State = "FinWait2"
    <3>1. f = w
      BY <1>3, <2>4
    <3>2. "Retransmission" \notin h
      OBVIOUS
    <3> HIDE DEF h
    <3> QED
      BY <1>6, <2>4, <3>1, <3>2 DEF Shuts, Typed, Connection, Off
  <2>5. CASE c.State = "TimeWait"
    <3>1. f = StartTimer(d, "TimeWait")
      BY <1>3, <2>5
    <3> QED
      BY <1>6, <2>5, <3>1 DEF Shuts, StartTimer, Typed, Connection, Off
  <2>6. CASE c.State \notin {"Established", "FinWait1", "FinWait2", "TimeWait"}
    <3>1. f = d
      BY <1>3, <2>6
    <3> QED
      BY <3>1 DEF Shuts
  <2> QED
    BY <2>1, <2>2, <2>3, <2>4, <2>5, <2>6
<1>8. Sound(z, f, g) /\ Onward(z, d, f) /\ RequestKept(f)
  BY <1>2, <1>4, <1>5, <1>6, <1>7, ShutsKept
<1>9. Onward(z, c, f)
  <2>1. Onward(z, c, d)
    BY <1>1, <1>2, <1>4, <1>6, OnwardOnward
  <2> QED
    BY <1>1, <1>5, <1>6, <1>8, <2>1, OnwardOnward
<1> QED
  BY <1>8, <1>9

LEMMA ArrivesKept ==
  ASSUME NEW z, Scene(z), NEW c, NEW g, Sound(z, c, g), RequestKept(c),
         c.State \in Synchronized, NEW s, From(z, c, s), Acks(s), "SYN" \notin s.flags,
         Acceptable(c, s) \/ c.State = "SynReceived", NEW d, d = Arrives(c, s)
  PROVE  Sound(z, d, g) /\ Onward(z, c, d) /\ RequestKept(d)
<1> DEFINE a == AckField(c, s)
           t == Text(a, s)
           takesFIN == "FIN" \in s.flags /\ ~t.panic
                       /\ (a.State \in Receiving => InOrder(a, s))
<1>0. d = IF EndsAtAck(c, s) \/ SegLen(s) = 0 THEN a ELSE IF takesFIN THEN Fin(t, s) ELSE t
  BY DEF Arrives
<1>1. AckTaken(z, c, a, g)
  BY AckFieldKept
<1> HIDE DEF a
<1>2. /\ Sound(z, a, g) /\ Onward(z, c, a) /\ RequestKept(a) /\ a.RCV_NXT = c.RCV_NXT
      /\ a.State \in Synchronized \ {"SynReceived"} \/ (c.State = "LastAck" /\ a.State = "Closed")
  BY <1>1 DEF AckTaken
<1>3. CASE EndsAtAck(c, s) \/ SegLen(s) = 0
  <2>1. d = a
    BY <1>0, <1>3
  <2> QED
    BY <1>2, <2>1
<1>4. CASE ~EndsAtAck(c, s) /\ SegLen(s) # 0
  <2>1. a.State \in Synchronized \ {"SynReceived"}
    <3>1. SUFFICES ASSUME c.State = "LastAck", a.State = "Closed" PROVE FALSE
      BY <1>2
    <3>2. s.ack # c.SND_NXT
      BY <1>4, <3>1 DEF EndsAtAck
    <3>3. a = c
      BY <3>1, <3>2 DEF a, AckField
    <3> QED
      BY <3>1, <3>3
  <2>2. /\ Sound(z, t, g) /\ Onward(z, a, t) /\ RequestKept(t)
        /\ s.data = <<>> /\ (a.State \in Receiving => InOrder(a, s)) => t = a
    BY <1>2, <2>1, TextKept
  <2> HIDE DEF t
  <2>3. Typed(z.n, c) /\ Typed(z.n, a) /\ Typed(z.n, t)
    BY <1>2, <2>2 DEF Sound, Almost
  <2>4. Onward(z, c, t)
    BY <1>2, <2>2, <2>3, OnwardOnward
  <2>5. CASE ~takesFIN
    <3>1. d = t
      BY <1>0, <1>4, <2>5
    <3> QED
      BY <2>2, <2>4, <3>1
  <2>6. CASE takesFIN
    <3>1. d = Fin(t, s)
      BY <1>0, <1>4, <2>6
    <3>2. "FIN" \in s.flags /\ s.data = <<>> /\ (a.State \in Receiving => s.seq = a.RCV_NXT)
      BY <2>6 DEF From, InOrder
    <3>3. t = a
      BY <2>2, <2>6, <3>2
    <3>4. a.State \notin Receiving => le(a.RCV_NXT, s.seq)
      <4>1. SUFFICES ASSUME a.State \notin Receiving PROVE le(c.RCV_NXT, s.seq)
        BY <1>2
      <4>2. c.State # "SynReceived"
        <5>1. SUFFICES ASSUME c.State = "SynReceived" PROVE FALSE
          OBVIOUS
        <5>2. a \in {[c EXCEPT !.SND_UNA = s.ack, !.State = "Established",
                               !.nRetransmissionCount = MAX_RETRANSMISSIONS],
                     SendSegment(c, {"RST"}, s.ack, 0, <<>>)}
          BY <5>1 DEF a, AckField
        <5>3. a.State \in {"Established", "SynReceived"}
          BY <2>3, <5>1, <5>2, ZenonT(60) DEF SendSegment, Typed, Connection
        <5> QED
          BY <2>1, <4>1, <5>3 DEF Receiving
      <4>3. Acceptable(c, s)
        BY <4>2
      <4>4. SegLen(s) = 1
        <5>1. Len(s.data) = 0
          BY <3>2
        <5> QED
          BY <3>2, <5>1 DEF SegLen
      <4>5. Plus(s.seq, 1 - 1) = s.seq
        <5>1. s.seq \in Numbers /\ Peer(z.n) \in Ends
          BY EndsAre, SegmentIs DEF From, Scene
        <5>2. s.seq \in 0 .. NumMod - 1 /\ NumMod \in Nat
          BY <5>1, ConstantsAre DEF Numbers
        <5> QED
          BY <5>2, RemainderIs DEF Plus
      <4> QED
        BY <4>3, <4>4, <4>5 DEF Acceptable, bwl
    <3>5. Sound(z, d, g) /\ Onward(z, a, d) /\ RequestKept(d)
      BY <1>2, <2>1, <3>1, <3>2, <3>3, <3>4, FinKeptAll
    <3>6. Typed(z.n, d)
      BY <3>5 DEF Sound, Almost
    <3> QED
      BY <1>2, <2>3, <3>5, <3>6, OnwardOnward
  <2> QED
    BY <2>5, <2>6
<1> QED
  BY <1>3, <1>4

-----------------------------------------------------------------------------
(* What a step of one end means for the other                              *)

\* A step from c to d, as the peer sees it.
Follows(z, c, d) ==
  /\ d.State \in Opening => c.State \in Opening
  /\ c.State \in Finished => d.State \in Finished
  /\ d.State = "SynSent" => c.State = "SynSent"
  /\ \/ d.RCV_NXT = c.RCV_NXT
     \/ /\ Diff(d.RCV_NXT, z.j) <= Furthest(z.v)
        /\ \/ Diff(c.RCV_NXT, z.j) <= Diff(d.RCV_NXT, z.j)
           \/ c.State = "SynSent"
           \/ c.State = "Listen" /\ Diff(d.RCV_NXT, z.j) = 1
  /\ d.State = "Listen" /\ c.State # "Listen" =>
       d.RCV_NXT = c.RCV_NXT /\ Diff(d.RCV_NXT, z.j) = 1

\* z is what matters to the end with members c, y what matters to its peer,
\* whose members are e.
Mirrors(z, y, c, e) ==
  /\ y.n = Peer(z.n) /\ y.i = z.j /\ y.j = z.i /\ y.w = z.v /\ y.v = z.w
  /\ z.st = e.State /\ y.st = c.State /\ y.r = Diff(c.RCV_NXT, z.j)
Sees(y, x, d) ==
  /\ x.n = y.n /\ x.i = y.i /\ x.j = y.j /\ x.w = y.w /\ x.v = y.v
  /\ x.st = d.State /\ x.r = Diff(d.RCV_NXT, y.i)

LEMMA OnwardFollows ==
  ASSUME NEW z, NEW c, NEW d, Onward(z, c, d)
  PROVE  Follows(z, c, d)
BY DEF Onward, Follows, Opening

\* Both ends together.
Pair(z, y, c, e, h) ==
  /\ Scene(z) /\ Scene(y) /\ Mirrors(z, y, c, e) /\ Typed(z.n, c) /\ HandshakeKept(z, c)
  /\ Mine(y, e, h)

LEMMA PeerPeerKept ==
  ASSUME NEW z, NEW y, NEW c, NEW e, NEW h, Pair(z, y, c, e, h), NEW d, Typed(z.n, d),
         Follows(z, c, d), NEW x, Sees(y, x, d)
  PROVE  PeerKept(x, e)
<1>1. SUFFICES ASSUME e.State \in Flowing \cup Ending
               PROVE  /\ Diff(e.SND_UNA, y.i) <= x.r /\ x.r <= Furthest(y.w)
                      /\ x.st = "Listen" => Diff(e.SND_UNA, y.i) = 1
  BY DEF PeerKept, Sees
<1> DEFINE u == Diff(e.SND_UNA, y.i)
           r == Diff(c.RCV_NXT, z.j)
           q == Diff(d.RCV_NXT, z.j)
           f == Furthest(y.w)
<1>2. Mirrors(z, y, c, e) /\ Typed(y.n, e) /\ SenderKept(y, e) /\ HandshakeKept(z, c)
      /\ Scene(y) /\ Scene(z)
  BY DEF Pair, Mine, Almost
<1>3. u \in Int /\ r \in Int /\ q \in Int /\ f \in Int
  <2>1. z.n \in Ends /\ y.n \in Ends /\ z.j \in Numbers /\ y.i \in Numbers /\ Furthest(y.w) \in Nat
    BY <1>2 DEF Scene
  <2>2. e.SND_UNA \in Numbers /\ c.RCV_NXT \in Numbers /\ d.RCV_NXT \in Numbers
    BY <1>2, <2>1, MembersAre DEF Pair
  <2>3. u \in Int /\ r \in Int /\ q \in Int
    BY <2>1, <2>2, DiffNat
  <2> QED
    BY <2>1, <2>3
<1>4. x.r = q /\ y.r = r /\ x.st = d.State /\ y.st = c.State /\ f = Furthest(z.v)
  BY <1>2 DEF Sees, Mirrors
<1>5. u <= r /\ r <= f /\ (c.State = "Listen" => u = 1)
  BY <1>1, <1>2, <1>4 DEF SenderKept, PeerKept
<1>6. u >= 1
  <2>1. CASE e.State \in Flowing
    <3>1. u - 1 >= 0
      BY <1>2, <2>1 DEF SenderKept, FlowingKept, Holds
    <3> QED
      BY <1>3, <3>1
  <2>2. CASE e.State \in Ending
    <3>1. 1 + y.w <= u /\ y.w \in Nat
      BY <1>2, <2>2 DEF SenderKept, EndingKept, Scene
    <3> QED
      BY <1>3, <3>1
  <2> QED
    BY <1>1, <2>1, <2>2
<1>7. c.State # "SynSent"
  BY <1>1, <1>2 DEF HandshakeKept, Mirrors, Early, Flowing, Ending
<1>8. /\ \/ q = r
         \/ q <= f /\ (r <= q \/ (c.State = "Listen" /\ q = 1))
      /\ d.State = "Listen" /\ c.State # "Listen" => q = r /\ q = 1
  BY <1>4, <1>7 DEF Follows
<1> HIDE DEF u, r, q, f
<1>9. u <= q /\ q <= f /\ (d.State = "Listen" => u = 1)
  BY <1>3, <1>5, <1>6, <1>8
<1> QED
  BY <1>4, <1>9 DEF u, f

LEMMA PeerStep ==
  ASSUME NEW z, NEW y, NEW c, NEW e, NEW h, Pair(z, y, c, e, h), NEW d, Typed(z.n, d),
         Follows(z, c, d), HandshakeKept(z, d), NEW x, Sees(y, x, d), NEW Y, Out(y, e, Y)
  PROVE  Mine(x, e, h) /\ Out(x, e, Y)
<1>1. Mirrors(z, y, c, e) /\ Mine(y, e, h) /\ Almost(y, e, h) /\ HandshakeKept(z, c)
  BY DEF Pair, Mine
<1>2. SenderKept(x, e)
  <2>1. SenderKept(y, e)
    BY <1>1 DEF Almost
  <2>2. PeerKept(x, e)
    BY PeerPeerKept
  <2>3. OpeningKept(x, e) /\ OpenedKept(x, e) /\ FlowingKept(x, e)
    BY <2>1 DEF SenderKept, Sees, OpeningKept, OpenedKept, FlowingKept
  <2>4. EndingKept(x, e) /\ SendingKept(x, e) /\ FramesKept(x, e)
    BY <2>1 DEF SenderKept, Sees, EndingKept, SendingKept, FramesKept
  <2> QED
    BY <2>2, <2>3, <2>4 DEF SenderKept
<1>3. TimersKept(x, e) /\ Typed(x.n, e) /\ h \in Seq(Stream(Peer(x.n)))
  BY <1>1 DEF Almost, TimersKept, Sees
<1>4. y.st = c.State /\ x.st = d.State /\ z.st = e.State
  BY <1>1 DEF Mirrors, Sees
<1>5. ReceiverKept(x, e, h)
  <2> DEFINE R == h \o FlattenSeq(e.RxQueue)
  <2>1. ArrivedKept(y, e, R)
    BY <1>1 DEF Almost, ReceiverKept
  <2> HIDE DEF R
  <2>2. x.v = y.v /\ x.j = y.j
    BY DEF Sees
  <2>3. InStep(y, e, R) => InStep(x, e, R)
    BY <1>4, <2>2 DEF InStep, Follows
  <2>4. ArrivedKept(x, e, R)
    BY <2>1, <2>2, <2>3 DEF ArrivedKept
  <2> QED
    BY <2>4 DEF ReceiverKept, R
<1>6. HandshakeKept(x, e)
  BY <1>1, <1>4 DEF HandshakeKept, Follows
<1>7. Out(x, e, Y)
  <2>1. ASSUME NEW s \in Y
        PROVE  DataKept(x, e, s) /\ FinKept(x, e, s) /\ SynKept(x, s) /\ AckKept(x, e, s)
    <3>1. DataKept(y, e, s) /\ FinKept(y, e, s) /\ SynKept(y, s) /\ AckKept(y, e, s)
      BY DEF Out
    <3>2. DataKept(x, e, s) /\ FinKept(x, e, s) /\ SynKept(x, s)
      BY <3>1 DEF DataKept, FinKept, SynKept, Sees
    <3>3. x.v = y.v /\ x.j = y.j
      BY DEF Sees
    <3>4. AckKept(x, e, s)
      BY <1>4, <3>1, <3>3 DEF AckKept, Follows
    <3> QED
      BY <3>2, <3>4
  <2> QED
    BY <2>1 DEF Out
<1> QED
  BY <1>1, <1>2, <1>3, <1>5, <1>6, <1>7 DEF Mine, Almost

-----------------------------------------------------------------------------
(* The two ends, and what a step leaves of the invariant                   *)

LEMMA PassiveNumber ==
  ASSUME OneISN
  PROVE  Iss(Passive) \in Numbers /\ ISNs[Passive] = {Iss(Passive)}
<1>1. PICK i \in Numbers : ISNs[Passive] = {i}
  BY DEF OneISN
<1>2. Passive # Active
  BY TcpAssumption
<1> QED
  BY <1>1, <1>2 DEF Iss

LEMMA LengthsAre ==
  ASSUME NEW n \in Ends, NEW w, NEW t, Room(n, w, t), ShortStreams
  PROVE  w \in Nat /\ Furthest(w) \in Nat /\ Furthest(w) < Half /\ w + 2 <= Furthest(w)
<1>1. PICK p \in Programs : w \in Nat /\ t \in Seq(CallNames) /\ w + Message[n] * Len(t) <= Message[n] * Len(p[n])
  BY DEF Room
<1> DEFINE a == Message[n] * Len(t)
           b == Message[n] * Len(p[n])
<1>2. a \in Nat /\ b \in Nat
  <2> DEFINE m == Message[n]
             k == Len(t)
             l == Len(p[n])
  <2>1. m \in Nat /\ k \in Nat /\ l \in Nat
    BY <1>1, MessageIs, ProgramIs
  <2> HIDE DEF m, k, l
  <2>2. m * k \in Nat /\ m * l \in Nat
    BY <2>1, Multiples
  <2> QED
    BY <2>2 DEF m, k, l
<1>3. 2 + b + MAX_RETRANSMISSIONS < Half
  BY <1>1, Zenon DEF ShortStreams
<1>4. w + a <= b /\ w \in Nat
  BY <1>1
<1> HIDE DEF a, b
<1>5. w + 2 + MAX_RETRANSMISSIONS < Half /\ 2 + w + MAX_RETRANSMISSIONS \in Nat
  BY <1>2, <1>3, <1>4, ConstantsAre
<1> QED
  BY <1>4, <1>5, ConstantsAre DEF Furthest

LEMMA ViewHas ==
  ASSUME NEW n
  PROVE  /\ View(n).n = n /\ View(n).i = Iss(n) /\ View(n).j = Iss(Peer(n))
         /\ View(n).w = wrote[n] /\ View(n).v = wrote[Peer(n)] /\ View(n).st = tcb[Peer(n)].State
         /\ View(n).r = Diff(tcb[Peer(n)].RCV_NXT, Iss(n))
BY DEF View

LEMMA ViewTyped ==
  ASSUME TypeInv, Sizes, NEW n \in Ends
  PROVE  Scene(View(n))
<1>1. \A m \in Ends : Typed(m, tcb[m]) /\ Room(m, wrote[m], todo[m])
  BY DEF TypeInv, TcbTyped, UserTyped
<1>2. \A m \in Ends : Iss(m) \in Numbers
  <2>1. Active \in Ends /\ \A m \in Ends : m = Active \/ m = Passive
    BY DEF Ends
  <2>2. Iss(Active) \in Numbers
    BY <1>1, <2>1, MembersAre DEF Iss
  <2> QED
    BY <2>1, <2>2, PassiveNumber DEF Sizes
<1>3. Peer(n) \in Ends
  BY EndsAre
<1>4. tcb[Peer(n)].State \in States /\ tcb[Peer(n)].RCV_NXT \in Numbers
  BY <1>1, <1>3, MembersAre
<1>5. View(n).r \in Numbers
  BY <1>2, <1>4, DiffNat, ViewHas
<1>6. \A m \in Ends : wrote[m] \in Nat /\ Furthest(wrote[m]) \in Nat /\ Furthest(wrote[m]) < Half
                      /\ wrote[m] + 2 <= Furthest(wrote[m])
  BY <1>1, LengthsAre DEF Sizes
<1> QED
  BY <1>2, <1>3, <1>4, <1>5, <1>6, ViewHas DEF Scene

LEMMA MirrorsAre ==
  ASSUME TypeInv, Sizes, Kept, NEW n \in Ends
  PROVE  Pair(View(n), View(Peer(n)), tcb[n], tcb[Peer(n)], got[Peer(n)])
<1>1. Peer(n) \in Ends /\ Peer(Peer(n)) = n
  BY EndsAre
<1>2. Scene(View(n)) /\ Scene(View(Peer(n)))
  BY <1>1, ViewTyped
<1>3. Mirrors(View(n), View(Peer(n)), tcb[n], tcb[Peer(n)])
  BY <1>1, ViewHas DEF Mirrors
<1>4. Mine(View(n), tcb[n], got[n]) /\ Mine(View(Peer(n)), tcb[Peer(n)], got[Peer(n)])
  BY <1>1 DEF Kept
<1> QED
  BY <1>2, <1>3, <1>4 DEF Pair, Mine, Almost

\* A segment of the peer that may arrive.
LEMMA FromPeer ==
  ASSUME TypeInv, Sizes, Kept, NEW n \in Ends, NEW s \in net[Peer(n)]
  PROVE  From(View(n), tcb[n], s)
<1> DEFINE z == View(n)
           y == View(Peer(n))
           c == tcb[n]
           e == tcb[Peer(n)]
<1>1. Pair(z, y, c, e, got[Peer(n)]) /\ z.n = n /\ Peer(n) \in Ends /\ n \in Ends
  BY MirrorsAre, ViewHas, EndsAre
<1>2. Out(y, e, net[Peer(n)]) /\ s \in Segments(Peer(n)) /\ Typed(Peer(n), e)
  BY <1>1 DEF Kept, TypeInv, NetTyped, TcbTyped
<1> HIDE DEF z, y, c, e
<1>3. DataKept(y, e, s) /\ FinKept(y, e, s) /\ SynKept(y, s) /\ AckKept(y, e, s)
  BY <1>2 DEF Out
<1>4. /\ y.n = Peer(n) /\ y.i = z.j /\ y.j = z.i /\ y.w = z.v /\ y.v = z.w
      /\ z.st = e.State /\ y.st = c.State /\ y.r = Diff(c.RCV_NXT, z.j)
  BY <1>1 DEF Pair, Mirrors
<1>5. z.r = Diff(e.RCV_NXT, z.i)
  BY ViewHas DEF z, e
<1>6. n = Passive <=> Peer(n) = Active
  BY EndsAre
<1>7. s.data # <<>> => /\ z.st \notin Opening
                       /\ s.flags \cap {"SYN", "FIN", "RST"} = {}
                       /\ Bytes(s.data, Diff(s.seq, z.j) - 1, z.v)
  BY <1>3, <1>4 DEF DataKept
<1>8. "FIN" \in s.flags => /\ s.data = <<>> /\ z.st \in Finished
                           /\ 1 + z.v <= Diff(s.seq, z.j) /\ Diff(s.seq, z.j) < Furthest(z.v)
  BY <1>3, <1>4 DEF FinKept
<1>9. "SYN" \in s.flags => /\ s.seq = z.j
                           /\ s.flags = IF z.n = Passive THEN {"SYN"} ELSE {"SYN", "ACK"}
  BY <1>1, <1>3, <1>4, <1>6 DEF SynKept
<1>10. Acks(s) => /\ 1 <= Diff(s.ack, z.i) /\ Diff(s.ack, z.i) <= z.r /\ z.r <= Furthest(z.w)
                  /\ c.State \notin Finished => ~Even(Diff(s.ack, z.i))
                  /\ z.st # "SynSent"
                  /\ c.State \in Opening \/ z.st = "Listen" => Diff(s.ack, z.i) = 1
  BY <1>3, <1>4, <1>5 DEF AckKept
<1>11. From(z, c, s)
  BY <1>1, <1>2, <1>7, <1>8, <1>9, <1>10 DEF From
<1> QED
  BY <1>11 DEF z, c

\* The invariant after a step of n that writes nothing: its members are now d,
\* and its peer has only lost segments.
Becomes(n, d) ==
  /\ tcb' = [tcb EXCEPT ![n] = d] /\ UNCHANGED wrote
  /\ got'[Peer(n)] = got[Peer(n)] /\ net'[Peer(n)] \subseteq net[Peer(n)]

LEMMA StepKept ==
  ASSUME TypeInv, Sizes, Kept, NEW n \in Ends, NEW d, Typed(n, d), Becomes(n, d),
         Mine(View(n), d, got'[n]), Out(View(n), d, net'[n]), Follows(View(n), tcb[n], d),
         n = Active => d.ISS = tcb[n].ISS
  PROVE  Kept'
<1> DEFINE p == Peer(n)
<1>1. p \in Ends /\ p # n /\ Peer(p) = n /\ \A m \in Ends : m = n \/ m = p
  BY EndsAre
<1> HIDE DEF p
<1>2. DOMAIN tcb = Ends
  BY DEF TypeInv, TcbTyped
<1>3. tcb'[n] = d /\ tcb'[p] = tcb[p] /\ UNCHANGED wrote
  BY <1>1, <1>2 DEF Becomes
<1>4. Active \in Ends /\ Active # Passive /\ (n = Active \/ p = Active)
  BY <1>1 DEF Ends
<1>5. tcb'[Active].ISS = tcb[Active].ISS
  BY <1>3, <1>4
<1>6. \A m \in Ends : Iss(m)' = Iss(m)
  BY <1>5 DEF Iss
<1>7. View(n)' = View(n)
  BY <1>1, <1>3, <1>6 DEF View, p
<1>8. Pair(View(n), View(p), tcb[n], tcb[p], got[p]) /\ Out(View(p), tcb[p], net[p])
  BY <1>1, MirrorsAre DEF p, Kept
<1>9. Sees(View(p), View(p)', d)
  <2>1. /\ View(p)'.n = p /\ View(p)'.i = Iss(p)' /\ View(p)'.j = Iss(n)'
        /\ View(p)'.w = wrote'[p] /\ View(p)'.v = wrote'[n] /\ View(p)'.st = tcb'[n].State
        /\ View(p)'.r = Diff(tcb'[n].RCV_NXT, Iss(p)')
    BY <1>1 DEF View
  <2>2. /\ View(p).n = p /\ View(p).i = Iss(p) /\ View(p).j = Iss(n)
        /\ View(p).w = wrote[p] /\ View(p).v = wrote[n]
    BY <1>1, ViewHas
  <2> QED
    BY <1>1, <1>3, <1>6, <2>1, <2>2 DEF Sees
<1>10. HandshakeKept(View(n), d) /\ View(n).n = n
  BY ViewHas DEF Mine, Almost
<1>11. Mine(View(p)', tcb[p], got[p]) /\ Out(View(p)', tcb[p], net[p])
  BY <1>8, <1>9, <1>10, PeerStep
<1>12. got'[p] = got[p] /\ net'[p] \subseteq net[p]
  BY DEF Becomes, p
<1>13. Out(View(p)', tcb[p], net'[p])
  BY <1>11, <1>12 DEF Out
<1>14. Mine(View(p)', tcb'[p], got'[p]) /\ Out(View(p)', tcb'[p], net'[p])
  BY <1>3, <1>11, <1>12, <1>13
<1>15. Mine(View(n)', tcb'[n], got'[n]) /\ Out(View(n)', tcb'[n], net'[n])
  BY <1>3, <1>7
<1>16. \A m \in Ends : Mine(View(m)', tcb'[m], got'[m]) /\ Out(View(m)', tcb'[m], net'[m])
  BY <1>1, <1>14, <1>15
<1> QED
  BY <1>16 DEF Kept

\* A handler has made e of the members of n; what it has sent is on its way.
Emits(n, e) ==
  /\ Members(n, e) /\ UNCHANGED <<wrote, got>>
  /\ net'[n] \subseteq net[n] \cup e.out /\ net'[Peer(n)] \subseteq net[Peer(n)]

LEMMA Emptied ==
  ASSUME NEW n \in Ends, NEW e, Typed(n, e), NEW d, d = [e EXCEPT !.out = {}]
  PROVE  Typed(n, d) /\ Inert(e, d) /\ d.out = {}
<1>1. /\ d.State = e.State /\ d.StateAfterFIN = e.StateAfterFIN
      /\ d.TxQueue = e.TxQueue /\ d.RxQueue = e.RxQueue /\ d.rtq = e.rtq
      /\ d.bRetransmit = e.bRetransmit /\ d.bSendSYN = e.bSendSYN /\ d.bFINQueued = e.bFINQueued
      /\ d.nRetransmissionCount = e.nRetransmissionCount /\ d.ISS = e.ISS
      /\ d.SND_UNA = e.SND_UNA /\ d.SND_NXT = e.SND_NXT /\ d.RCV_NXT = e.RCV_NXT
      /\ d.panic = e.panic /\ d.hTimer = e.hTimer /\ d.out = {} /\ d.bTimedOut = e.bTimedOut
      /\ d \in Connection(n)
  BY DEF Typed, Connection
<1> QED
  BY <1>1 DEF Typed, Inert, Off

LEMMA EmitsKept ==
  ASSUME TypeInv, Sizes, Kept, NEW n \in Ends, NEW e, Sound(View(n), e, got[n]), RequestKept(e),
         Follows(View(n), tcb[n], e), Out(View(n), e, net[n]), Emits(n, e),
         n = Active => e.ISS = tcb[n].ISS
  PROVE  Kept'
<1> DEFINE d == [e EXCEPT !.out = {}]
           z == View(n)
<1>1. z.n = n /\ Scene(z) /\ net[n] \subseteq Segments(n)
  BY ViewHas, ViewTyped DEF TypeInv, NetTyped
<1>2. Members(n, e) <=> tcb' = [tcb EXCEPT ![n] = d]
  BY DEF Members
<1>3. Sound(z, e, got[n]) /\ Follows(z, tcb[n], e) /\ Out(z, e, net[n])
  OBVIOUS
<1>4. Typed(n, e) /\ Almost(z, e, got[n]) /\ Out(z, e, e.out) /\ e.out \subseteq Segments(n)
  BY <1>1, MembersAre DEF Sound, Almost
<1>5. Typed(n, d) /\ Inert(e, d)
  BY <1>4, Emptied
<1> HIDE DEF d
<1>6. Almost(z, d, got[n]) /\ Onward(z, e, d) /\ RequestKept(d)
  BY <1>1, <1>4, <1>5, InertKept
<1>7. Out(z, d, net[n] \cup e.out)
  <2>1. Out(z, e, net[n] \cup e.out) /\ net[n] \cup e.out \subseteq Segments(n)
    BY <1>1, <1>3, <1>4, OutBoth
  <2> QED
    BY <1>1, <1>4, <1>5, <1>6, <2>1, OnwardOut
<1>8. Becomes(n, d) /\ got'[n] = got[n] /\ net'[n] \subseteq net[n] \cup e.out
  BY <1>2 DEF Emits, Becomes
<1>9. Mine(z, d, got'[n]) /\ Out(z, d, net'[n])
  BY <1>6, <1>7, <1>8 DEF Mine, Out
<1>10. Follows(z, tcb[n], d) /\ (n = Active => d.ISS = tcb[n].ISS)
  BY <1>3, <1>5 DEF Follows, Inert
<1> QED
  BY <1>5, <1>8, <1>9, <1>10, StepKept

\* A handler that goes on.
LEMMA OnwardEmits ==
  ASSUME TypeInv, Sizes, Kept, NEW n \in Ends, NEW e, Sound(View(n), e, got[n]), RequestKept(e),
         Onward(View(n), tcb[n], e), Emits(n, e)
  PROVE  Kept'
<1>1. View(n).n = n /\ Scene(View(n)) /\ net[n] \subseteq Segments(n)
  BY ViewHas, ViewTyped DEF TypeInv, NetTyped
<1>2. Typed(n, tcb[n]) /\ Typed(n, e) /\ Out(View(n), tcb[n], net[n])
  BY <1>1 DEF TypeInv, TcbTyped, Sound, Almost, Kept
<1>3. Out(View(n), e, net[n])
  BY <1>1, <1>2, OnwardOut
<1>4. Follows(View(n), tcb[n], e) /\ e.ISS = tcb[n].ISS
  BY OnwardFollows DEF Onward
<1> QED
  BY <1>3, <1>4, EmitsKept

\* A step that sends nothing.
LEMMA QuietKept ==
  ASSUME TypeInv, Sizes, Kept, NEW n \in Ends, NEW d, tcb' = [tcb EXCEPT ![n] = d],
         Almost(View(n), d, got'[n]), RequestKept(d), Onward(View(n), tcb[n], d),
         UNCHANGED wrote, got'[Peer(n)] = got[Peer(n)],
         \A m \in Ends : net'[m] \subseteq net[m]
  PROVE  Kept'
<1>1. View(n).n = n /\ Scene(View(n)) /\ net[n] \subseteq Segments(n) /\ Peer(n) \in Ends
  BY ViewHas, ViewTyped, EndsAre DEF TypeInv, NetTyped
<1>2. Typed(n, tcb[n]) /\ Typed(n, d) /\ Out(View(n), tcb[n], net[n])
  BY <1>1 DEF TypeInv, TcbTyped, Almost, Kept
<1>3. Out(View(n), d, net[n])
  BY <1>1, <1>2, OnwardOut
<1>4. Follows(View(n), tcb[n], d) /\ d.ISS = tcb[n].ISS
  BY OnwardFollows DEF Onward
<1>5. Mine(View(n), d, got'[n]) /\ Out(View(n), d, net'[n])
  BY <1>3 DEF Mine, Out
<1>6. Becomes(n, d)
  BY <1>1 DEF Becomes
<1> QED
  BY <1>2, <1>4, <1>5, <1>6, StepKept

\* Nothing changes but what has been lost.
LEMMA StillKept ==
  ASSUME TypeInv, Sizes, Kept, UNCHANGED <<tcb, wrote, got>>, \A m \in Ends : net'[m] \subseteq net[m]
  PROVE  Kept'
<1>1. ASSUME NEW m \in Ends
      PROVE  Mine(View(m)', tcb'[m], got'[m]) /\ Out(View(m)', tcb'[m], net'[m])
  <2>1. View(m)' = View(m)
    BY DEF View, Iss
  <2>2. Mine(View(m), tcb[m], got[m]) /\ Out(View(m), tcb[m], net[m])
    BY DEF Kept
  <2>3. Out(View(m), tcb[m], net'[m])
    BY <2>2 DEF Out
  <2> QED
    BY <2>1, <2>2, <2>3
<1> QED
  BY <1>1 DEF Kept

-----------------------------------------------------------------------------
(* The steps                                                               *)

\* What is known of the end n before a step.
Here(n, z, c, g) ==
  /\ n \in Ends /\ z.n = n /\ Scene(z) /\ Typed(n, c) /\ Sound(z, c, g) /\ RequestKept(c)
  /\ c.out = {} /\ n \in DOMAIN tcb

LEMMA HereIs ==
  ASSUME TypeInv, Sizes, Kept, NEW n \in Ends
  PROVE  Here(n, View(n), tcb[n], got[n]) /\ EvenSizes
<1>1. View(n).n = n /\ Scene(View(n))
  BY ViewHas, ViewTyped
<1>2. Typed(n, tcb[n]) /\ tcb[n].out = {} /\ n \in DOMAIN tcb
  BY DEF TypeInv, TcbTyped
<1>3. Mine(View(n), tcb[n], got[n])
  BY DEF Kept
<1>4. Sound(View(n), tcb[n], got[n]) /\ RequestKept(tcb[n])
  BY <1>2, <1>3 DEF Sound, Mine, Out
<1> QED
  BY <1>1, <1>2, <1>4 DEF Here, Sizes

LEMMA LoseKept ==
  ASSUME TypeInv, Sizes, Kept, NEW n \in Ends, Lose(n)
  PROVE  Kept'
<1>1. PICK s \in net[n] : net' = [net EXCEPT ![n] = @ \ {s}]
  BY DEF Lose
<1>2. DOMAIN net = Ends
  BY DEF TypeInv, NetTyped
<1>3. \A m \in Ends : net'[m] \subseteq net[m]
  BY <1>1, <1>2
<1>4. UNCHANGED <<tcb, wrote, got>>
  BY DEF Lose, user
<1> QED
  BY <1>3, <1>4, StillKept

LEMMA CallFailsKept ==
  ASSUME TypeInv, Sizes, Kept, NEW n \in Ends, CallFails(n)
  PROVE  Kept'
<1>1. UNCHANGED <<tcb, wrote, got>> /\ UNCHANGED net
  BY DEF CallFails, Calls
<1>2. \A m \in Ends : net'[m] \subseteq net[m]
  BY <1>1
<1> QED
  BY <1>1, <1>2, StillKept

\* Members change that no part of the invariant is about.
LEMMA InertStep ==
  ASSUME TypeInv, Sizes, Kept, NEW n \in Ends, NEW d, tcb' = [tcb EXCEPT ![n] = d],
         Typed(n, d), Inert(tcb[n], d), UNCHANGED <<net, wrote, got>>
  PROVE  Kept'
<1>1. Here(n, View(n), tcb[n], got[n])
  BY HereIs
<1>2. Almost(View(n), d, got[n]) /\ Onward(View(n), tcb[n], d) /\ RequestKept(d)
  BY <1>1, InertKept DEF Here, Sound
<1>3. got' = got /\ wrote' = wrote /\ \A m \in Ends : net'[m] \subseteq net[m]
  OBVIOUS
<1> QED
  BY <1>2, <1>3, QuietKept

\* The connection is closed.
LEMMA ClosesStep ==
  ASSUME TypeInv, Sizes, Kept, NEW n \in Ends, NEW d, tcb' = [tcb EXCEPT ![n] = d],
         Typed(n, d), Closes(tcb[n], d), UNCHANGED <<net, wrote, got>>
  PROVE  Kept'
<1>1. Here(n, View(n), tcb[n], got[n])
  BY HereIs
<1>2. Almost(View(n), d, got[n]) /\ Onward(View(n), tcb[n], d) /\ RequestKept(d)
  BY <1>1, ClosesKept DEF Here, Sound
<1>3. got' = got /\ wrote' = wrote /\ \A m \in Ends : net'[m] \subseteq net[m]
  OBVIOUS
<1> QED
  BY <1>2, <1>3, QuietKept

LEMMA NotificationKept ==
  ASSUME TypeInv, Sizes, Kept, NEW n \in Ends, NotificationReceived(n)
  PROVE  Kept'
<1> DEFINE c == tcb[n]
           d == [c EXCEPT !.nErrno = -1, !.Event = TRUE]
<1>1. Typed(n, c) /\ n \in DOMAIN tcb
  BY HereIs DEF Here
<1>2. tcb' = [tcb EXCEPT ![n] = d] /\ UNCHANGED <<net, wrote, got>>
  BY <1>1 DEF NotificationReceived, user
<1> HIDE DEF c
<1>3. Typed(n, d) /\ Inert(c, d)
  BY <1>1 DEF Typed, Connection, Inert, Off
<1> HIDE DEF d
<1> QED
  BY <1>2, <1>3, InertStep DEF c

LEMMA AcceptKept ==
  ASSUME TypeInv, Sizes, Kept, NEW n \in Ends, Accept(n)
  PROVE  Kept'
<1> DEFINE c == tcb[n]
           d == [c EXCEPT !.Event = FALSE]
<1>1. Typed(n, c) /\ n \in DOMAIN tcb
  BY HereIs DEF Here
<1>2. UNCHANGED <<net, wrote, got>> /\ (tcb' = [tcb EXCEPT ![n] = d] \/ UNCHANGED tcb)
  BY <1>1 DEF Accept, Calls
<1> HIDE DEF c
<1>3. Typed(n, d) /\ Inert(c, d)
  BY <1>1, ZenonT(60) DEF Typed, Connection, Inert, Off
<1> HIDE DEF d
<1>4. CASE tcb' = [tcb EXCEPT ![n] = d]
  BY <1>2, <1>3, <1>4, InertStep DEF c
<1>5. CASE UNCHANGED tcb
  BY <1>2, <1>5, StillKept
<1> QED
  BY <1>2, <1>4, <1>5

LEMMA TimeWaitKept ==
  ASSUME TypeInv, Sizes, Kept, NEW n \in Ends, TimeWaitTimer(n)
  PROVE  Kept'
<1> DEFINE c == tcb[n]
           h == c.hTimer \ {"TimeWait"}
           d == [c EXCEPT !.hTimer = h, !.State = "Closed"]
<1>1. Typed(n, c) /\ n \in DOMAIN tcb /\ c.hTimer \in SUBSET Timers
  BY HereIs, MembersAre DEF Here
<1>2. tcb' = [tcb EXCEPT ![n] = d] /\ UNCHANGED <<net, wrote, got>>
  BY <1>1 DEF TimeWaitTimer, user
<1>3. h \in SUBSET Timers /\ h \subseteq c.hTimer
  BY <1>1
<1> HIDE DEF c, h
<1>4. Typed(n, d) /\ Closes(c, d)
  <2>1. /\ d \in Connection(n) /\ d.rtq = c.rtq /\ d.TxQueue = c.TxQueue /\ d.RxQueue = c.RxQueue
        /\ d.nRetransmissionCount = c.nRetransmissionCount /\ d.bTimedOut = c.bTimedOut
        /\ d.hTimer = h /\ d.State = "Closed" /\ d.StateAfterFIN = c.StateAfterFIN
        /\ d.bSendSYN = c.bSendSYN /\ d.bRetransmit = c.bRetransmit /\ d.bFINQueued = c.bFINQueued
        /\ d.ISS = c.ISS /\ d.RCV_NXT = c.RCV_NXT
    BY <1>1, <1>3, ZenonT(60) DEF Typed, Connection, States
  <2> HIDE DEF d
  <2>2. Typed(n, d)
    BY <1>1, <1>3, <2>1 DEF Typed
  <2> QED
    BY <1>3, <2>1, <2>2 DEF Closes
<1> HIDE DEF d
<1> QED
  BY <1>2, <1>4, ClosesStep DEF c

LEMMA EndPassKept ==
  ASSUME TypeInv, Sizes, Kept, NEW n \in Ends, EndPass(n)
  PROVE  Kept'
<1> DEFINE c == tcb[n]
           z == View(n)
<1>1. Here(n, z, c, got[n]) /\ EvenSizes
  BY HereIs
<1>2. UNCHANGED <<wrote, got>>
  BY DEF EndPass, user
<1>3. CASE UNCHANGED <<tcb, net>>
  BY <1>2, <1>3, StillKept
<1>4. CASE c.State = "Closed" /\ tcb' = [tcb EXCEPT ![n].hTimer = {}] /\ UNCHANGED net
  <2> DEFINE d == [c EXCEPT !.hTimer = {}]
  <2>1. tcb' = [tcb EXCEPT ![n] = d] /\ Typed(n, c)
    BY <1>1, <1>4 DEF Here
  <2>2. c.State = "Closed"
    BY <1>4
  <2> HIDE DEF c
  <2>3. Typed(n, d) /\ Closes(c, d)
    BY <2>1, <2>2 DEF Typed, Connection, Closes
  <2> HIDE DEF d
  <2> QED
    BY <1>2, <1>4, <2>1, <2>3, ClosesStep DEF c
<1>5. CASE Members(n, Process(c)) /\ net' = [net EXCEPT ![n] = @ \cup Process(c).out]
  <2> DEFINE e == Process(c)
  <2>1. Members(n, e) /\ net' = [net EXCEPT ![n] = @ \cup e.out] /\ DOMAIN net = Ends
        /\ Peer(n) \in Ends /\ Peer(n) # n
    BY <1>5, EndsAre DEF TypeInv, NetTyped
  <2>2. Sound(z, e, got[n]) /\ Onward(z, c, e) /\ RequestKept(e)
    BY <1>1, ProcessKept DEF Here
  <2> HIDE DEF e
  <2>3. net'[n] = net[n] \cup e.out /\ net'[Peer(n)] = net[Peer(n)]
    BY <2>1
  <2>4. Emits(n, e)
    BY <1>2, <2>1, <2>3 DEF Emits
  <2> QED
    BY <2>2, <2>4, OnwardEmits
<1> QED
  BY <1>3, <1>4, <1>5 DEF EndPass

\* The retransmission timer elapses, and asks for what the state calls for.
Ticks(c, d) ==
  /\ d.State = c.State /\ d.StateAfterFIN = c.StateAfterFIN
  /\ d.TxQueue = c.TxQueue /\ d.RxQueue = c.RxQueue /\ d.rtq = c.rtq
  /\ d.ISS = c.ISS /\ d.SND_UNA = c.SND_UNA /\ d.SND_NXT = c.SND_NXT /\ d.RCV_NXT = c.RCV_NXT
  /\ d.panic = c.panic /\ Off(d) /\ d.nRetransmissionCount = c.nRetransmissionCount - 1
  /\ d.bSendSYN => c.bSendSYN \/ c.State = "SynSent"
  /\ d.bRetransmit => c.bRetransmit \/ c.State \in Flowing
  /\ d.bFINQueued => c.bFINQueued \/ c.State \in Sending

LEMMA TicksKept ==
  ASSUME NEW z, Scene(z), NEW c, NEW d, NEW g, Almost(z, c, g), Typed(z.n, d), Ticks(c, d)
  PROVE  Almost(z, d, g) /\ Onward(z, c, d) /\ RequestKept(d)
<1>1. SenderKept(z, c) /\ TimersKept(z, c) /\ ReceiverKept(z, c, g) /\ HandshakeKept(z, c)
      /\ Typed(z.n, c) /\ z.n \in Ends /\ z.i \in Numbers
  BY DEF Almost, Scene
<1>2. OpeningKept(z, d) /\ OpenedKept(z, d) /\ FlowingKept(z, d)
  <2>1. c.State \in Opening => ~d.bRetransmit
    BY <1>1 DEF Ticks, SenderKept, OpeningKept, Opening, Flowing
  <2> QED
    BY <1>1, <2>1 DEF Ticks, SenderKept, OpeningKept, OpenedKept, FlowingKept
<1>3. EndingKept(z, d) /\ PeerKept(z, d) /\ FramesKept(z, d)
  BY <1>1 DEF Ticks, SenderKept, EndingKept, PeerKept, FramesKept
<1>4. SendingKept(z, d)
  <2>1. SUFFICES ASSUME d.State \in Sending
                 PROVE  Diff(d.SND_NXT, z.i) + d.nRetransmissionCount + (IF d.bFINQueued THEN 1 ELSE 0)
                          <= Furthest(z.w)
    BY DEF SendingKept
  <2> DEFINE x == Diff(c.SND_NXT, z.i)
             k == c.nRetransmissionCount
             f == Furthest(z.w)
  <2>2. x + k + (IF c.bFINQueued THEN 1 ELSE 0) <= f
    BY <1>1, <2>1 DEF Ticks, SenderKept, SendingKept
  <2>3. x \in Int /\ k \in Int /\ f \in Int
    BY <1>1, MembersAre, DiffNat DEF Scene
  <2>4. Diff(d.SND_NXT, z.i) = x /\ d.nRetransmissionCount = k - 1
    BY DEF Ticks
  <2> HIDE DEF x, k, f
  <2>5. x + (k - 1) + (IF d.bFINQueued THEN 1 ELSE 0) <= f
    BY <2>2, <2>3
  <2> QED
    BY <2>4, <2>5 DEF f
<1>5. TimersKept(z, d)
  BY <1>1 DEF Ticks, TimersKept, Sending
<1>6. ReceiverKept(z, d, g) /\ HandshakeKept(z, d)
  BY <1>1 DEF Ticks, ReceiverKept, ArrivedKept, InStep, HandshakeKept
<1>7. Onward(z, c, d) /\ RequestKept(d)
  BY DEF Ticks, Onward, RequestKept
<1> QED
  BY <1>1, <1>2, <1>3, <1>4, <1>5, <1>6, <1>7 DEF Almost, SenderKept

LEMMA TicksStep ==
  ASSUME TypeInv, Sizes, Kept, NEW n \in Ends, NEW d, tcb' = [tcb EXCEPT ![n] = d],
         Typed(n, d), Ticks(tcb[n], d), UNCHANGED <<net, wrote, got>>
  PROVE  Kept'
<1>1. Here(n, View(n), tcb[n], got[n])
  BY HereIs
<1>2. Almost(View(n), d, got[n]) /\ Onward(View(n), tcb[n], d) /\ RequestKept(d)
  BY <1>1, TicksKept DEF Here, Sound
<1>3. got' = got /\ wrote' = wrote /\ \A m \in Ends : net'[m] \subseteq net[m]
  OBVIOUS
<1> QED
  BY <1>2, <1>3, QuietKept

LEMMA RetransmissionKept ==
  ASSUME TypeInv, Sizes, Kept, NEW n \in Ends, RetransmissionTimer(n)
  PROVE  Kept'
<1> DEFINE b == tcb[n]
           h == b.hTimer \ {"Retransmission"}
           m == b.nRetransmissionCount - 1
           c == [b EXCEPT !.hTimer = h, !.nRetransmissionCount = m]
           z == View(n)
<1>1. Here(n, z, b, got[n])
  BY HereIs
<1>2. Typed(n, b) /\ TimersKept(z, b) /\ RequestKept(b) /\ n \in DOMAIN tcb /\ z.n = n
  BY <1>1 DEF Here, Sound, Almost
<1>3. "Retransmission" \in b.hTimer /\ ~Off(b)
  BY DEF RetransmissionTimer, Elapses, Off
<1>4. UNCHANGED <<net, wrote, got>> /\ TypeInv'
  BY RetransmissionTyped DEF RetransmissionTimer, user
<1>5. PICK d : /\ tcb' = [tcb EXCEPT ![n] = d]
               /\ \/ b.nRetransmissionCount = 0 /\ d = [c EXCEPT !.bTimedOut = TRUE]
                  \/ c.State \in {"Closed", "Listen", "FinWait2", "TimeWait"} /\ d = Panic(c)
                  \/ /\ c.State \in {"SynSent", "SynReceived"}
                     /\ d = IF c.bSendSYN THEN Panic(c) ELSE [c EXCEPT !.bSendSYN = TRUE]
                  \/ /\ c.State \in {"Established", "CloseWait"}
                     /\ d = IF c.bRetransmit THEN Panic(c) ELSE [c EXCEPT !.bRetransmit = TRUE]
                  \/ /\ c.State \notin {"Closed", "Listen", "FinWait2", "TimeWait", "SynSent",
                                        "SynReceived", "Established", "CloseWait"}
                     /\ d = IF c.bFINQueued THEN Panic(c) ELSE [c EXCEPT !.bFINQueued = TRUE]
  <2>1. [b EXCEPT !.hTimer = @ \ {"Retransmission"}, !.nRetransmissionCount = @ - 1] = c
    BY <1>2 DEF Typed, Connection
  <2> HIDE DEF c
  <2>2. tcb' = [tcb EXCEPT ![n] =
       CASE b.nRetransmissionCount = 0 -> [c EXCEPT !.bTimedOut = TRUE]
         [] b.nRetransmissionCount # 0
            /\ c.State \in {"Closed", "Listen", "FinWait2", "TimeWait"} -> Panic(c)
         [] b.nRetransmissionCount # 0 /\ c.State \in {"SynSent", "SynReceived"} ->
              IF c.bSendSYN THEN Panic(c) ELSE [c EXCEPT !.bSendSYN = TRUE]
         [] b.nRetransmissionCount # 0 /\ c.State \in {"Established", "CloseWait"} ->
              IF c.bRetransmit THEN Panic(c) ELSE [c EXCEPT !.bRetransmit = TRUE]
         [] OTHER -> IF c.bFINQueued THEN Panic(c) ELSE [c EXCEPT !.bFINQueued = TRUE]]
    BY <2>1 DEF RetransmissionTimer
  <2> QED
    BY <2>2
<1>6. Typed(n, d)
  <2>1. Typed(n, tcb'[n])
    BY <1>4 DEF TypeInv, TcbTyped
  <2> QED
    BY <1>2, <1>5, <2>1
<1>7. /\ c.State = b.State /\ c.StateAfterFIN = b.StateAfterFIN
      /\ c.TxQueue = b.TxQueue /\ c.RxQueue = b.RxQueue /\ c.rtq = b.rtq
      /\ c.ISS = b.ISS /\ c.SND_UNA = b.SND_UNA /\ c.SND_NXT = b.SND_NXT /\ c.RCV_NXT = b.RCV_NXT
      /\ c.panic = b.panic /\ c.hTimer = h /\ c.nRetransmissionCount = m
      /\ c.bSendSYN = b.bSendSYN /\ c.bRetransmit = b.bRetransmit /\ c.bFINQueued = b.bFINQueued
      /\ DOMAIN c = DOMAIN b
  BY <1>2 DEF Typed, Connection
<1>8. /\ "panic" \in DOMAIN b /\ "bSendSYN" \in DOMAIN b /\ "bRetransmit" \in DOMAIN b
      /\ "bFINQueued" \in DOMAIN b /\ "bTimedOut" \in DOMAIN b
  BY <1>2 DEF Typed, Connection
<1>9. b.bSendSYN \in BOOLEAN /\ b.bRetransmit \in BOOLEAN /\ b.bFINQueued \in BOOLEAN
      /\ b.State \in States
  BY <1>2, MembersAre
<1>10. h \subseteq b.hTimer /\ "Retransmission" \notin h
  OBVIOUS
<1> HIDE DEF b, c, h, m
<1> DEFINE Kin(x) ==
      /\ x.State = c.State /\ x.StateAfterFIN = c.StateAfterFIN
      /\ x.TxQueue = c.TxQueue /\ x.RxQueue = c.RxQueue /\ x.rtq = c.rtq
      /\ x.ISS = c.ISS /\ x.SND_UNA = c.SND_UNA /\ x.SND_NXT = c.SND_NXT /\ x.RCV_NXT = c.RCV_NXT
      /\ x.hTimer = c.hTimer /\ x.nRetransmissionCount = c.nRetransmissionCount
<1>11. CASE b.nRetransmissionCount = 0 /\ d = [c EXCEPT !.bTimedOut = TRUE]
  <2>1. Kin(d) /\ d.panic = c.panic /\ d.bSendSYN = c.bSendSYN /\ d.bRetransmit = c.bRetransmit
        /\ d.bFINQueued = c.bFINQueued
    BY <1>7, <1>8, <1>11
  <2>2. Ticks(b, d)
    BY <1>7, <1>10, <2>1 DEF Ticks, Off, m
  <2> QED
    BY <1>4, <1>5, <1>6, <2>2, TicksStep DEF b
<1>12. CASE c.State \in {"Closed", "Listen", "FinWait2", "TimeWait"} /\ d = Panic(c)
  <2>1. Kin(d) /\ d.bSendSYN = c.bSendSYN /\ d.bRetransmit = c.bRetransmit
        /\ d.bFINQueued = c.bFINQueued
    BY <1>7, <1>8, <1>12 DEF Panic
  <2>2. d.State = "Closed"
    BY <1>2, <1>3, <1>7, <1>12, <2>1 DEF TimersKept
  <2>3. Closes(b, d)
    BY <1>7, <1>10, <2>1, <2>2 DEF Closes
  <2> QED
    BY <1>4, <1>5, <1>6, <2>3, ClosesStep DEF b
<1>13. CASE c.State \in {"SynSent", "SynReceived"}
            /\ d = IF c.bSendSYN THEN Panic(c) ELSE [c EXCEPT !.bSendSYN = TRUE]
  <2>1. ~c.bSendSYN /\ c.State = "SynSent"
    BY <1>2, <1>3, <1>7, <1>13 DEF TimersKept
  <2>2. d = [c EXCEPT !.bSendSYN = TRUE]
    BY <1>13, <2>1
  <2>3. Kin(d) /\ d.panic = c.panic /\ d.bRetransmit = c.bRetransmit
        /\ d.bFINQueued = c.bFINQueued
    BY <1>7, <1>8, <2>2
  <2>4. Ticks(b, d)
    BY <1>7, <1>10, <2>1, <2>3 DEF Ticks, Off, m
  <2> QED
    BY <1>4, <1>5, <1>6, <2>4, TicksStep DEF b
<1>14. CASE c.State \in {"Established", "CloseWait"}
            /\ d = IF c.bRetransmit THEN Panic(c) ELSE [c EXCEPT !.bRetransmit = TRUE]
  <2>1. ~c.bRetransmit /\ c.State \in Flowing
    BY <1>2, <1>3, <1>7, <1>14 DEF RequestKept, Flowing
  <2>2. d = [c EXCEPT !.bRetransmit = TRUE]
    BY <1>14, <2>1
  <2>3. Kin(d) /\ d.panic = c.panic /\ d.bSendSYN = c.bSendSYN
        /\ d.bFINQueued = c.bFINQueued
    BY <1>7, <1>8, <2>2
  <2>4. Ticks(b, d)
    BY <1>7, <1>10, <2>1, <2>3 DEF Ticks, Off, m
  <2> QED
    BY <1>4, <1>5, <1>6, <2>4, TicksStep DEF b
<1>15. CASE c.State \notin {"Closed", "Listen", "FinWait2", "TimeWait", "SynSent",
                            "SynReceived", "Established", "CloseWait"}
            /\ d = IF c.bFINQueued THEN Panic(c) ELSE [c EXCEPT !.bFINQueued = TRUE]
  <2>1. c.State \in Sending
    BY <1>7, <1>9, <1>15 DEF States, Sending
  <2>2. ~c.bFINQueued
    BY <1>2, <1>3, <1>7, <2>1 DEF TimersKept
  <2>3. d = [c EXCEPT !.bFINQueued = TRUE]
    BY <1>15, <2>2
  <2>4. Kin(d) /\ d.panic = c.panic /\ d.bSendSYN = c.bSendSYN /\ d.bRetransmit = c.bRetransmit
    BY <1>7, <1>8, <2>3
  <2>5. Ticks(b, d)
    BY <1>7, <1>10, <2>1, <2>4 DEF Ticks, Off, m
  <2> QED
    BY <1>4, <1>5, <1>6, <2>5, TicksStep DEF b
<1> QED
  BY <1>5, <1>11, <1>12, <1>13, <1>14, <1>15

LEMMA ReceivesEmits ==
  ASSUME TypeInv, NEW n \in Ends, NEW s, NEW e, Receives(n, s, e)
  PROVE  Emits(n, e)
<1>1. DOMAIN net = Ends /\ Peer(n) \in Ends /\ Peer(n) # n
  BY EndsAre DEF TypeInv, NetTyped
<1>2. \/ net' = [net EXCEPT ![n] = @ \cup e.out, ![Peer(n)] = @ \ {s}]
      \/ net' = [net EXCEPT ![n] = @ \cup e.out]
  BY DEF Receives
<1>3. net'[n] = net[n] \cup e.out /\ net'[Peer(n)] \subseteq net[Peer(n)]
  BY <1>1, <1>2
<1> QED
  BY <1>3 DEF Emits, Receives, user

\* An RST goes out.
LEMMA RejectKept ==
  ASSUME NEW z, Scene(z), NEW c, NEW g, Sound(z, c, g), NEW flags \in {{"RST"}, {"RST", "ACK"}},
         NEW x \in Numbers, NEW y \in Numbers, NEW d, d = SendSegment(c, flags, x, y, <<>>)
  PROVE  Sound(z, d, g) /\ Onward(z, c, d) /\ Inert(c, d)
         /\ d.out = c.out \cup {Segment(flags, x, y, <<>>)}
<1> DEFINE s == Segment(flags, x, y, <<>>)
<1>1. Typed(z.n, c) /\ z.n \in Ends /\ Almost(z, c, g) /\ Out(z, c, c.out)
  BY DEF Sound, Almost, Scene
<1>2. flags \in SUBSET Flags
  BY DEF Flags
<1>3. Typed(z.n, d)
  BY <1>1, <1>2, SendSegmentTyped
<1>4. Inert(c, d) /\ d.out = c.out \cup {s}
  BY <1>1 DEF SendSegment, Typed, Connection, Inert, Off
<1>5. Almost(z, d, g) /\ Onward(z, c, d)
  BY <1>1, <1>3, <1>4, InertKept
<1> HIDE DEF s
<1>6. Out(z, d, {s})
  BY ResetOut DEF s
<1>7. Out(z, d, d.out)
  BY <1>1, <1>3, <1>4, <1>5, <1>6, SentKept
<1> QED
  BY <1>4, <1>5, <1>7 DEF Sound, s

LEMMA RefuseKept ==
  ASSUME TypeInv, Sizes, Kept, NEW n \in Ends, NEW s \in net[Peer(n)], Refuse(n, s)
  PROVE  Kept'
<1> DEFINE c == tcb[n]
           z == View(n)
<1>1. Here(n, z, c, got[n])
  BY HereIs
<1>2. s.ack \in Numbers /\ Plus(s.seq, SegLen(s)) \in Numbers /\ 0 \in Numbers
  <2>1. s \in Segments(Peer(n)) /\ Peer(n) \in Ends
    BY EndsAre DEF TypeInv, NetTyped
  <2>2. s.ack \in Numbers /\ s.seq \in Numbers /\ SegLen(s) \in Int /\ 0 \in Numbers
    BY <2>1, SegmentIs, ConstantsAre DEF Numbers
  <2> QED
    BY <2>2, PlusType
<1>3. PICK flags \in {{"RST"}, {"RST", "ACK"}} : \E x \in Numbers, y \in Numbers :
        Receives(n, s, SendSegment(c, flags, x, y, <<>>))
  BY <1>2 DEF Refuse
<1>4. PICK x \in Numbers, y \in Numbers : Receives(n, s, SendSegment(c, flags, x, y, <<>>))
  BY <1>3
<1> DEFINE d == SendSegment(c, flags, x, y, <<>>)
<1>5. Emits(n, d)
  BY <1>4, ReceivesEmits
<1>6. Sound(z, d, got[n]) /\ Onward(z, c, d) /\ Inert(c, d)
  <2>1. Scene(z) /\ Sound(z, c, got[n])
    BY <1>1 DEF Here
  <2>2. d = SendSegment(c, flags, x, y, <<>>)
    OBVIOUS
  <2> HIDE DEF z, c, d
  <2> QED
    BY <2>1, <2>2, RejectKept
<1>7. RequestKept(d)
  BY <1>1, <1>6 DEF Here, RequestKept, Inert
<1> HIDE DEF d
<1> QED
  BY <1>5, <1>6, <1>7, OnwardEmits

\* Close asks for a FIN.
Asks(c, d) ==
  /\ d.State = c.State /\ d.TxQueue = c.TxQueue /\ d.RxQueue = c.RxQueue /\ d.rtq = c.rtq
  /\ d.ISS = c.ISS /\ d.SND_UNA = c.SND_UNA /\ d.SND_NXT = c.SND_NXT /\ d.RCV_NXT = c.RCV_NXT
  /\ d.panic = c.panic /\ d.hTimer = c.hTimer /\ d.bSendSYN = c.bSendSYN
  /\ d.bRetransmit = c.bRetransmit
  /\ c.State \in {"SynReceived", "Established", "CloseWait"}
  /\ d.StateAfterFIN = IF c.State = "CloseWait" THEN "LastAck" ELSE "FinWait1"

LEMMA AsksKept ==
  ASSUME NEW z, NEW c, NEW d, NEW g, Almost(z, c, g), RequestKept(c), Typed(z.n, d), Asks(c, d)
  PROVE  Almost(z, d, g) /\ Onward(z, c, d) /\ RequestKept(d)
<1>1. SenderKept(z, c) /\ TimersKept(z, c) /\ ReceiverKept(z, c, g) /\ HandshakeKept(z, c)
  BY DEF Almost
<1>2. OpeningKept(z, d) /\ OpenedKept(z, d) /\ FlowingKept(z, d)
  BY <1>1 DEF Asks, SenderKept, OpeningKept, OpenedKept, FlowingKept
<1>3. EndingKept(z, d) /\ PeerKept(z, d) /\ FramesKept(z, d)
  BY <1>1 DEF Asks, SenderKept, EndingKept, PeerKept, FramesKept
<1>4. SendingKept(z, d)
  BY DEF Asks, SendingKept, Sending
<1>5. TimersKept(z, d)
  BY <1>1 DEF Asks, TimersKept, Sending, Off
<1>6. ReceiverKept(z, d, g) /\ HandshakeKept(z, d)
  BY <1>1 DEF Asks, ReceiverKept, ArrivedKept, InStep, HandshakeKept
<1>7. Onward(z, c, d) /\ RequestKept(d)
  BY DEF Asks, Onward, RequestKept, Off
<1> QED
  BY <1>1, <1>2, <1>3, <1>4, <1>5, <1>6, <1>7 DEF Almost, SenderKept

LEMMA CloseKept ==
  ASSUME TypeInv, Sizes, Kept, NEW n \in Ends, Close(n)
  PROVE  Kept'
<1> DEFINE c == tcb[n]
           h == c.hTimer \ {"Retransmission"}
           d == [[c EXCEPT !.hTimer = h] EXCEPT !.State = "Closed"]
           a == IF c.State = "CloseWait" THEN "LastAck" ELSE "FinWait1"
           e == [c EXCEPT !.StateAfterFIN = a, !.nRetransmissionCount = MAX_RETRANSMISSIONS,
                          !.bFINQueued = TRUE]
<1>1. Here(n, View(n), c, got[n]) /\ Typed(n, c) /\ n \in DOMAIN tcb
  BY HereIs DEF Here
<1>2. UNCHANGED <<net, wrote, got>> /\ TypeInv'
  BY CloseTyped DEF Close, Calls
<1>3. \/ tcb' = [tcb EXCEPT ![n] = d]
      \/ c.State \in {"SynReceived", "Established", "CloseWait"} /\ tcb' = [tcb EXCEPT ![n] = e]
  BY <1>1 DEF Close, StopTimer
<1>4. Typed(n, tcb'[n])
  BY <1>2 DEF TypeInv, TcbTyped
<1>5. CASE tcb' = [tcb EXCEPT ![n] = d]
  <2>1. tcb'[n] = d
    BY <1>1, <1>5
  <2> HIDE DEF c
  <2>2. Closes(c, d)
    BY <1>1 DEF Typed, Connection, Closes
  <2> HIDE DEF d
  <2> QED
    BY <1>2, <1>4, <1>5, <2>1, <2>2, ClosesStep DEF c
<1>6. CASE /\ c.State \in {"SynReceived", "Established", "CloseWait"}
           /\ tcb' = [tcb EXCEPT ![n] = e]
  <2>1. tcb'[n] = e /\ c.State \in {"SynReceived", "Established", "CloseWait"}
    BY <1>1, <1>6
  <2>2. Almost(View(n), c, got[n]) /\ RequestKept(c) /\ View(n).n = n
    BY <1>1 DEF Here, Sound
  <2> HIDE DEF c
  <2>3. Asks(c, e)
    BY <1>1, <2>1 DEF Typed, Connection, Asks
  <2> HIDE DEF e
  <2>4. Almost(View(n), e, got[n]) /\ Onward(View(n), c, e) /\ RequestKept(e)
    BY <1>4, <2>1, <2>2, <2>3, AsksKept
  <2>5. got' = got /\ wrote' = wrote /\ \A m \in Ends : net'[m] \subseteq net[m]
    BY <1>2
  <2> QED
    BY <1>6, <2>4, <2>5, QuietKept DEF c
<1> QED
  BY <1>3, <1>5, <1>6

\* The user takes the first piece of what has arrived.
Takes(c) == [c EXCEPT !.RxQueue = Tail(@)]

LEMMA TakenKept ==
  ASSUME NEW z, NEW c, NEW g, Almost(z, c, g), RequestKept(c), z.n \in Ends, c.RxQueue # <<>>,
         NEW d, d = Takes(c), NEW h, h = g \o Head(c.RxQueue)
  PROVE  Almost(z, d, h) /\ Onward(z, c, d) /\ RequestKept(d)
<1> DEFINE T == Stream(Peer(z.n))
           q == c.RxQueue
           F == FlattenSeq(Tail(q))
<1>1. SenderKept(z, c) /\ TimersKept(z, c) /\ ReceiverKept(z, c, g) /\ HandshakeKept(z, c)
      /\ Typed(z.n, c) /\ g \in Seq(T)
  BY DEF Almost
<1>2. q \in Seq(Seq(T)) /\ q # <<>>
  BY <1>1, MembersAre
<1>3. FlattenSeq(q) = Head(q) \o F
  BY <1>2, FlattenHead
<1>4. Head(q) \in Seq(T) /\ Tail(q) \in Seq(Seq(T))
  <2> DEFINE S == Seq(T)
  <2> HIDE DEF S, q
  <2>1. q \in Seq(S)
    BY <1>2 DEF S
  <2>2. Head(q) \in S /\ Tail(q) \in Seq(S)
    BY <1>2, <2>1
  <2> QED
    BY <2>2 DEF S
<1>5. F \in Seq(T)
  BY <1>4, FlattenType
<1>6. h \o F = g \o FlattenSeq(q) /\ h \in Seq(T)
  <2> DEFINE k == Head(q)
  <2>1. h = g \o k /\ FlattenSeq(q) = k \o F /\ k \in Seq(T) /\ F \in Seq(T) /\ g \in Seq(T)
    BY <1>1, <1>3, <1>4, <1>5
  <2> HIDE DEF k, F, q, T
  <2>2. (g \o k) \o F = g \o (k \o F) /\ g \o k \in Seq(T)
    BY ONLY <2>1
  <2> QED
    BY <2>1, <2>2
<1>7. /\ d.State = c.State /\ d.StateAfterFIN = c.StateAfterFIN
      /\ d.TxQueue = c.TxQueue /\ d.RxQueue = Tail(q) /\ d.rtq = c.rtq
      /\ d.bRetransmit = c.bRetransmit /\ d.bSendSYN = c.bSendSYN /\ d.bFINQueued = c.bFINQueued
      /\ d.nRetransmissionCount = c.nRetransmissionCount /\ d.ISS = c.ISS
      /\ d.SND_UNA = c.SND_UNA /\ d.SND_NXT = c.SND_NXT /\ d.RCV_NXT = c.RCV_NXT
      /\ d.panic = c.panic /\ d.hTimer = c.hTimer /\ d.bTimedOut = c.bTimedOut
      /\ d \in Connection(z.n)
  BY <1>1, <1>4 DEF Typed, Connection, Takes
<1> HIDE DEF q, F, T
<1>8. Typed(z.n, d)
  BY <1>1, <1>7 DEF Typed
<1>9. OpeningKept(z, d) /\ OpenedKept(z, d) /\ FlowingKept(z, d) /\ EndingKept(z, d)
  BY <1>1, <1>7 DEF SenderKept, OpeningKept, OpenedKept, FlowingKept, EndingKept
<1>10. SendingKept(z, d) /\ PeerKept(z, d) /\ FramesKept(z, d)
  BY <1>1, <1>7 DEF SenderKept, SendingKept, PeerKept, FramesKept
<1>11. TimersKept(z, d) /\ HandshakeKept(z, d) /\ RequestKept(d) /\ Onward(z, c, d)
  BY <1>1, <1>7 DEF TimersKept, HandshakeKept, RequestKept, Onward, Off
<1>12. ReceiverKept(z, d, h)
  <2> DEFINE R == g \o FlattenSeq(q)
  <2>1. ArrivedKept(z, c, R) /\ h \o FlattenSeq(d.RxQueue) = R
    BY <1>1, <1>6, <1>7 DEF ReceiverKept, q, F
  <2> HIDE DEF R
  <2>2. ArrivedKept(z, d, R)
    BY <1>7, <2>1 DEF ArrivedKept, InStep
  <2> QED
    BY <2>1, <2>2 DEF ReceiverKept
<1> QED
  BY <1>6, <1>8, <1>9, <1>10, <1>11, <1>12 DEF Almost, SenderKept, T

LEMMA TakeOrWaitKept ==
  ASSUME TypeInv, Sizes, Kept, NEW n \in Ends, TakeOrWait(n), UNCHANGED <<net, wrote>>
  PROVE  Kept'
<1> DEFINE c == tcb[n]
<1>1. Here(n, View(n), c, got[n]) /\ Typed(n, c) /\ n \in DOMAIN tcb
  BY HereIs DEF Here
<1>2. CASE /\ c.RxQueue # <<>>
           /\ got' = [got EXCEPT ![n] = @ \o Head(c.RxQueue)]
           /\ tcb' = [tcb EXCEPT ![n].RxQueue = Tail(@)]
  <2> DEFINE d == Takes(c)
             h == got[n] \o Head(c.RxQueue)
  <2>1. tcb' = [tcb EXCEPT ![n] = d] /\ c.RxQueue # <<>>
    BY <1>1, <1>2 DEF Takes
  <2>2. got'[n] = h /\ got'[Peer(n)] = got[Peer(n)]
    <3>1. DOMAIN got = Ends /\ Peer(n) \in Ends /\ Peer(n) # n
      BY EndsAre DEF TypeInv, UserTyped
    <3> QED
      BY <1>2, <3>1
  <2>3. Almost(View(n), d, h) /\ Onward(View(n), c, d) /\ RequestKept(d)
    <3>1. Almost(View(n), c, got[n]) /\ RequestKept(c) /\ View(n).n \in Ends
      BY <1>1 DEF Here, Sound
    <3>2. d = Takes(c) /\ h = got[n] \o Head(c.RxQueue)
      OBVIOUS
    <3> HIDE DEF c, d, h
    <3> QED
      BY <2>1, <3>1, <3>2, TakenKept
  <2>4. wrote' = wrote /\ \A m \in Ends : net'[m] \subseteq net[m]
    OBVIOUS
  <2> HIDE DEF d, h
  <2> QED
    BY <2>1, <2>2, <2>3, <2>4, QuietKept
<1>3. CASE tcb' = [tcb EXCEPT ![n].Event = FALSE] /\ UNCHANGED got
  <2> DEFINE d == [c EXCEPT !.Event = FALSE]
  <2>1. tcb' = [tcb EXCEPT ![n] = d] /\ UNCHANGED got
    BY <1>1, <1>3
  <2> HIDE DEF c
  <2>2. Typed(n, d) /\ Inert(c, d)
    BY <1>1, ZenonT(60) DEF Typed, Connection, Inert, Off
  <2> HIDE DEF d
  <2> QED
    BY <2>1, <2>2, InertStep DEF c
<1>4. CASE UNCHANGED <<tcb, got>>
  BY <1>4, StillKept
<1> QED
  BY <1>2, <1>3, <1>4 DEF TakeOrWait

LEMMA ReceiveKept ==
  ASSUME TypeInv, Sizes, Kept, NEW n \in Ends, Receive(n)
  PROVE  Kept'
BY TakeOrWaitKept DEF Receive, Calls

LEMMA WakesKept ==
  ASSUME TypeInv, Sizes, Kept, NEW n \in Ends, Wakes(n)
  PROVE  Kept'
<1>1. UNCHANGED <<net, wrote>> /\ (UNCHANGED <<tcb, got>> \/ TakeOrWait(n))
  BY DEF Wakes
<1>2. \A m \in Ends : net'[m] \subseteq net[m]
  BY <1>1
<1> QED
  BY <1>1, <1>2, StillKept, TakeOrWaitKept

-----------------------------------------------------------------------------
(* Send: the streams grow                                                  *)

\* The user of the end writes m more bytes, and d are the members then.
Writes(z, x, c, d, P, m) ==
  /\ m \in Nat /\ Even(m) /\ P \in Seq(Seq(Stream(z.n))) /\ EvenFrames(P)
  /\ FlattenSeq(P) = Run(z.w, m)
  /\ x.n = z.n /\ x.i = z.i /\ x.j = z.j /\ x.v = z.v /\ x.st = z.st /\ x.r = z.r
  /\ x.w = z.w + m
  /\ d.State = c.State /\ d.StateAfterFIN = c.StateAfterFIN
  /\ d.TxQueue = c.TxQueue \o P /\ d.RxQueue = c.RxQueue /\ d.rtq = c.rtq
  /\ d.bRetransmit = c.bRetransmit /\ d.bSendSYN = c.bSendSYN /\ d.bFINQueued = c.bFINQueued
  /\ d.nRetransmissionCount = c.nRetransmissionCount /\ d.ISS = c.ISS
  /\ d.SND_UNA = c.SND_UNA /\ d.SND_NXT = c.SND_NXT /\ d.RCV_NXT = c.RCV_NXT
  /\ d.panic = c.panic /\ d.hTimer = c.hTimer
  /\ c.State \in {"SynSent", "SynReceived", "Established", "CloseWait"}

\* Queued bytes with others written behind them.
RunGrows(T, s, b, w, m) ==
  /\ b \in Nat /\ w \in Nat /\ m \in Nat /\ b <= w /\ s \in Seq(T) /\ s = Run(b, w - b)

LEMMA RunWritten ==
  ASSUME NEW T, NEW s, NEW b, NEW w, NEW m, RunGrows(T, s, b, w, m), NEW t, t = Run(w, m)
  PROVE  s \o t = Run(b, (w + m) - b)
<1>1. b \in Int /\ w - b \in Nat /\ m \in Nat /\ b + (w - b) = w /\ (w - b) + m = (w + m) - b
      /\ s = Run(b, w - b)
  BY DEF RunGrows
<1>2. Run(b, w - b) \o Run(b + (w - b), m) = Run(b, (w - b) + m)
  BY <1>1, RunJoin
<1> QED
  BY <1>1, <1>2

LEMMA FramesGrow ==
  ASSUME NEW T, NEW p \in Seq(Seq(T)), NEW q \in Seq(Seq(T)), EvenFrames(p), EvenFrames(q)
  PROVE  EvenFrames(p \o q)
<1> DEFINE S == Seq(T)
<1>1. p \in Seq(S) /\ q \in Seq(S)
  OBVIOUS
<1> HIDE DEF S
<1>2. /\ Len(p \o q) = Len(p) + Len(q) /\ Len(p) \in Nat /\ Len(q) \in Nat
      /\ \A k \in 1 .. Len(p) + Len(q) : (p \o q)[k] = IF k <= Len(p) THEN p[k] ELSE q[k - Len(p)]
  BY <1>1, ConcatProperties
<1>3. ASSUME NEW k \in 1 .. Len(p \o q) PROVE Even(Len((p \o q)[k]))
  <2>1. CASE k <= Len(p)
    BY <1>2, <2>1 DEF EvenFrames
  <2>2. CASE k > Len(p)
    <3>1. k - Len(p) \in 1 .. Len(q) /\ (p \o q)[k] = q[k - Len(p)]
      BY <1>2, <2>2
    <3> QED
      BY <3>1 DEF EvenFrames
  <2> QED
    BY <1>2, <2>1, <2>2
<1> QED
  BY <1>3 DEF EvenFrames

LEMMA WrittenQueue ==
  ASSUME NEW z, Scene(z), NEW x, NEW c, NEW g, Almost(z, c, g), NEW d, NEW P, NEW m,
         Writes(z, x, c, d, P, m)
  PROVE  OpeningKept(x, d) /\ FlowingKept(x, d) /\ FramesKept(x, d)
<1> DEFINE T == Stream(z.n)
           F == FlattenSeq(c.TxQueue)
           t == FlattenSeq(P)
           G == FlattenSeq(d.TxQueue)
<1>1. SenderKept(z, c) /\ Typed(z.n, c) /\ z.n \in Ends /\ z.w \in Nat /\ z.i \in Numbers
  BY DEF Almost, Scene
<1>2. /\ m \in Nat /\ Even(m) /\ P \in Seq(Seq(T)) /\ EvenFrames(P) /\ t = Run(z.w, m)
      /\ x.w = z.w + m /\ x.i = z.i /\ x.w \in Nat
  BY <1>1 DEF Writes
<1>3. c.TxQueue \in Seq(Seq(T)) /\ c.rtq.data \in Seq(T) /\ c.SND_UNA \in Numbers
      /\ Len(c.rtq.data) \in Nat
  BY <1>1, MembersAre
<1>4. F \in Seq(T) /\ t \in Seq(T) /\ G = F \o t
  <2>1. d.TxQueue = c.TxQueue \o P
    BY DEF Writes
  <2> QED
    BY <1>2, <1>3, <2>1, FlattenType, FlattenConcat
<1>5. FramesKept(x, d)
  <2>1. Even(z.w) /\ EvenFrames(c.TxQueue)
    BY <1>1 DEF SenderKept, FramesKept, EvenFrames
  <2>2. EvenFrames(d.TxQueue)
    <3> HIDE DEF T
    <3> QED
      BY <1>2, <1>3, <2>1, FramesGrow DEF Writes
  <2>3. Even(x.w)
    <3>1. z.w \in Int /\ m \in Int /\ x.w = z.w + m
      BY <1>1, <1>2
    <3> QED
      BY <1>2, <2>1, <3>1, EvenSum
  <2> QED
    BY <2>2, <2>3 DEF FramesKept, EvenFrames
<1> HIDE DEF T, F, t, G
<1>6. OpeningKept(x, d)
  <2>1. SUFFICES ASSUME d.State \in Opening
                 PROVE  d.rtq = EmptyQueue /\ G = Run(0, x.w) /\ ~d.bRetransmit
    BY DEF OpeningKept, G
  <2>2. c.rtq = EmptyQueue /\ F = Run(0, z.w) /\ ~c.bRetransmit
    BY <1>1, <2>1 DEF SenderKept, OpeningKept, Writes, F
  <2>3. RunGrows(T, F, 0, z.w, m)
    BY <1>1, <1>2, <1>4, <2>2 DEF RunGrows
  <2>4. F \o t = Run(0, (z.w + m) - 0)
    BY <1>2, <2>3, RunWritten, SMTT(30)
  <2>5. (z.w + m) - 0 = x.w
    BY <1>1, <1>2
  <2> QED
    BY <1>4, <2>2, <2>4, <2>5 DEF Writes
<1>7. FlowingKept(x, d)
  <2>1. SUFFICES ASSUME d.State \in Flowing
                 PROVE  FlowingKept(x, d)
    BY DEF FlowingKept
  <2> DEFINE b == Diff(c.SND_UNA, z.i) - 1
             q == c.rtq.data
  <2>2. /\ c.ISS = z.i /\ Holds(c.rtq, c.TxQueue, b, z.w)
        /\ c.rtq.over = 0 /\ c.rtq.pre = Diff(c.SND_NXT, c.SND_UNA)
        /\ Even(c.rtq.pre) /\ c.rtq.pre <= Window
    BY <1>1, <2>1 DEF SenderKept, FlowingKept, Writes
  <2>3. b >= 0 /\ b <= z.w /\ Even(b) /\ q \o F = Run(b, z.w - b) /\ Even(Len(q))
    BY <2>2 DEF Holds, F
  <2>4. b \in Int
    <3>1. Diff(c.SND_UNA, z.i) \in Int
      BY <1>1, <1>3, DiffNat
    <3> QED
      BY <3>1
  <2>5. q \in Seq(T)
    BY <1>3
  <2> HIDE DEF b, q
  <2> DEFINE a == q \o F
  <2>6. RunGrows(T, a, b, z.w, m)
    <3>3. a = Run(b, z.w - b)
      BY <2>3
    <3>4. q \in Seq(T) /\ F \in Seq(T)
      BY <1>4, <2>5
    <3>1. a \in Seq(T)
      BY ONLY <3>4
    <3>2. b \in Nat /\ z.w \in Nat /\ m \in Nat /\ b <= z.w
      BY <1>1, <1>2, <2>3, <2>4
    <3> HIDE DEF a
    <3> QED
      BY <3>1, <3>2, <3>3 DEF RunGrows
  <2>7. (q \o F) \o t = Run(b, (z.w + m) - b)
    <3> HIDE DEF a
    <3> DEFINE w == z.w
    <3>0. RunGrows(T, a, b, w, m) /\ t = Run(w, m)
      BY <1>2, <2>6
    <3> HIDE DEF w
    <3>1. a \o t = Run(b, (w + m) - b)
      BY ONLY <3>0, RunWritten
    <3> QED
      BY <3>1 DEF a, w
  <2>8. q \in Seq(T) /\ F \in Seq(T) /\ t \in Seq(T)
    BY <1>4, <2>5
  <2>9. (q \o F) \o t = q \o (F \o t)
    BY ONLY <2>8
  <2>10. q \o G = Run(b, x.w - b)
    BY <1>2, <1>4, <2>7, <2>9
  <2>11. b <= x.w
    BY <1>1, <1>2, <2>3, <2>4
  <2>12. Holds(d.rtq, d.TxQueue, b, x.w)
    BY <2>3, <2>10, <2>11 DEF Holds, Writes, q, G
  <2> QED
    BY <1>2, <2>2, <2>12 DEF FlowingKept, Writes, b
<1> QED
  BY <1>5, <1>6, <1>7

LEMMA WrittenKept ==
  ASSUME NEW z, Scene(z), NEW x, NEW c, NEW g, Almost(z, c, g), RequestKept(c), NEW d,
         Typed(z.n, d), NEW P, NEW m, Writes(z, x, c, d, P, m),
         NEW N, N \subseteq Segments(z.n), Out(z, c, N)
  PROVE  Mine(x, d, g) /\ Out(x, d, N)
<1>1. SenderKept(z, c) /\ TimersKept(z, c) /\ ReceiverKept(z, c, g) /\ HandshakeKept(z, c)
      /\ g \in Seq(Stream(Peer(z.n))) /\ z.w \in Nat /\ x.w = z.w + m /\ m \in Nat /\ x.i = z.i
  BY DEF Almost, Scene, Writes
<1>2. OpeningKept(x, d) /\ FlowingKept(x, d) /\ FramesKept(x, d)
  BY WrittenQueue
<1>3. OpenedKept(x, d)
  BY <1>1 DEF SenderKept, OpenedKept, Writes
<1>4. EndingKept(x, d) /\ SendingKept(x, d)
  BY DEF EndingKept, SendingKept, Ending, Sending, Writes
<1>5. PeerKept(x, d)
  <2>1. SUFFICES ASSUME d.State \in Flowing \cup Ending
                 PROVE  /\ Diff(d.SND_UNA, x.i) <= x.r /\ x.r <= Furthest(x.w)
                        /\ x.st = "Listen" => Diff(d.SND_UNA, x.i) = 1
    BY DEF PeerKept
  <2>2. /\ Diff(c.SND_UNA, z.i) <= z.r /\ z.r <= Furthest(z.w)
        /\ z.st = "Listen" => Diff(c.SND_UNA, z.i) = 1
    BY <1>1, <2>1 DEF SenderKept, PeerKept, Writes
  <2>3. z.r \in Nat /\ Furthest(z.w) \in Nat /\ Furthest(z.w) <= Furthest(x.w)
        /\ Furthest(x.w) \in Nat
    <3>1. z.r \in Nat
      BY ConstantsAre DEF Scene, Numbers
    <3> DEFINE a == z.w
               k == MAX_RETRANSMISSIONS
    <3>2. a \in Nat /\ k \in Nat /\ m \in Nat
      BY <1>1, ConstantsAre
    <3>3. Furthest(z.w) = 2 + a + k /\ Furthest(x.w) = 2 + (a + m) + k
      BY <1>1 DEF Furthest
    <3> HIDE DEF a, k
    <3> QED
      BY <3>1, <3>2, <3>3
  <2>4. z.r <= Furthest(x.w)
    BY <2>2, <2>3
  <2> QED
    BY <2>2, <2>4 DEF Writes
<1>6. TimersKept(x, d) /\ HandshakeKept(x, d) /\ RequestKept(d)
  BY <1>1 DEF TimersKept, HandshakeKept, RequestKept, Off, Writes
<1>7. ReceiverKept(x, d, g)
  BY <1>1 DEF ReceiverKept, ArrivedKept, InStep, Writes
<1>8. Typed(x.n, d) /\ g \in Seq(Stream(Peer(x.n)))
  BY <1>1 DEF Writes
<1>9. Out(x, d, N)
  <2>1. ASSUME NEW s \in N
        PROVE  DataKept(x, d, s) /\ FinKept(x, d, s) /\ SynKept(x, s) /\ AckKept(x, d, s)
    <3>1. DataKept(z, c, s) /\ FinKept(z, c, s) /\ SynKept(z, s) /\ AckKept(z, c, s)
      BY DEF Out
    <3>2. "FIN" \notin s.flags
      BY <3>1 DEF FinKept, Writes, Finished, Ending
    <3>3. DataKept(x, d, s)
      <4>1. SUFFICES ASSUME s.data # <<>>
                     PROVE  Bytes(s.data, Diff(s.seq, z.i) - 1, z.w)
                            => Bytes(s.data, Diff(s.seq, z.i) - 1, x.w)
        BY <3>1 DEF DataKept, Writes
      <4> DEFINE b == Diff(s.seq, z.i) - 1
      <4> HIDE DEF b
      <4>2. SUFFICES ASSUME b + Len(s.data) <= z.w
                     PROVE  b + Len(s.data) <= z.w + m
        BY <1>1 DEF Bytes, b
      <4>3. b \in Int /\ Len(s.data) \in Nat
        <5>1. s.seq \in Numbers /\ z.i \in Numbers /\ Len(s.data) \in Nat
          BY SegmentIs DEF Scene
        <5>2. Diff(s.seq, z.i) \in Int
          BY <5>1, DiffNat
        <5> QED
          BY <5>1, <5>2 DEF b
      <4> DEFINE w == z.w
                 l == Len(s.data)
      <4>4. b + l <= w /\ w \in Nat /\ m \in Nat /\ b \in Int /\ l \in Nat
        BY <1>1, <4>2, <4>3
      <4> HIDE DEF w, l
      <4>5. b + l <= w + m
        BY <4>4
      <4> QED
        BY <4>5 DEF w, l
    <3>4. FinKept(x, d, s) /\ SynKept(x, s) /\ AckKept(x, d, s)
      BY <3>1, <3>2 DEF FinKept, SynKept, AckKept, Writes
    <3> QED
      BY <3>3, <3>4
  <2> QED
    BY <2>1 DEF Out
<1> QED
  BY <1>1, <1>2, <1>3, <1>4, <1>5, <1>6, <1>7, <1>8, <1>9 DEF Mine, Almost, SenderKept

\* The peer of an end that writes.
Reads(y, x, m) ==
  /\ x.n = y.n /\ x.i = y.i /\ x.j = y.j /\ x.w = y.w /\ x.st = y.st /\ x.r = y.r
  /\ x.v = y.v + m /\ y.v \in Nat /\ m \in Nat
  /\ y.st \notin Finished

LEMMA ReaderKept ==
  ASSUME NEW y, NEW e, NEW h, Mine(y, e, h), y.n \in Ends, y.j \in Numbers,
         NEW x, NEW m, Reads(y, x, m), NEW N, Out(y, e, N)
  PROVE  Mine(x, e, h) /\ Out(x, e, N)
<1>1. SenderKept(y, e) /\ TimersKept(y, e) /\ ReceiverKept(y, e, h) /\ HandshakeKept(y, e)
      /\ h \in Seq(Stream(Peer(y.n))) /\ Typed(y.n, e) /\ RequestKept(e)
  BY DEF Mine, Almost
<1>2. OpeningKept(x, e) /\ OpenedKept(x, e) /\ FlowingKept(x, e) /\ EndingKept(x, e)
  BY <1>1 DEF SenderKept, OpeningKept, OpenedKept, FlowingKept, EndingKept, Reads
<1>3. SendingKept(x, e) /\ PeerKept(x, e) /\ FramesKept(x, e)
  BY <1>1 DEF SenderKept, SendingKept, PeerKept, FramesKept, Reads
<1>4. TimersKept(x, e) /\ HandshakeKept(x, e) /\ Typed(x.n, e) /\ h \in Seq(Stream(Peer(x.n)))
  BY <1>1 DEF TimersKept, HandshakeKept, Reads
<1>5. y.v <= x.v /\ Furthest(y.v) <= Furthest(x.v) /\ Furthest(y.v) \in Nat
      /\ Furthest(x.v) \in Nat /\ y.v \in Nat /\ x.v \in Nat
  BY ConstantsAre DEF Reads, Furthest
<1>6. ReceiverKept(x, e, h)
  <2> DEFINE F == FlattenSeq(e.RxQueue)
             R == h \o F
  <2>1. ArrivedKept(y, e, R)
    BY <1>1 DEF ReceiverKept
  <2>2. Len(R) \in Nat
    <3> DEFINE T == Stream(Peer(y.n))
    <3>1. F \in Seq(T) /\ h \in Seq(T)
      BY <1>1, MembersAre, FlattenType
    <3> HIDE DEF F, T
    <3>2. h \o F \in Seq(T)
      BY <3>1
    <3> QED
      BY <3>2
  <2> HIDE DEF R
  <2>3. Len(R) <= x.v
    BY <1>5, <2>1, <2>2 DEF ArrivedKept
  <2>4. InStep(y, e, R) => InStep(x, e, R)
    BY DEF InStep, Reads
  <2>5. ArrivedKept(x, e, R)
    BY <2>1, <2>3, <2>4 DEF ArrivedKept
  <2> QED
    BY <2>5 DEF ReceiverKept, R
<1>7. Out(x, e, N)
  <2>1. ASSUME NEW s \in N
        PROVE  DataKept(x, e, s) /\ FinKept(x, e, s) /\ SynKept(x, s) /\ AckKept(x, e, s)
    <3>1. DataKept(y, e, s) /\ FinKept(y, e, s) /\ SynKept(y, s) /\ AckKept(y, e, s)
      BY DEF Out
    <3>2. DataKept(x, e, s) /\ FinKept(x, e, s) /\ SynKept(x, s)
      BY <3>1 DEF DataKept, FinKept, SynKept, Reads
    <3>3. AckKept(x, e, s)
      <4>1. e.RCV_NXT \in Numbers
        BY <1>1, MembersAre
      <4>2. Diff(e.RCV_NXT, y.j) \in Nat
        BY <4>1, DiffNat
      <4> DEFINE u == Diff(e.RCV_NXT, y.j)
      <4>3. u <= Furthest(y.v) => u <= Furthest(x.v)
        <5> HIDE DEF u
        <5> QED
          BY <1>5, <4>2 DEF u
      <4> QED
        BY <3>1, <4>3 DEF AckKept, Reads
    <3> QED
      BY <3>2, <3>3
  <2> QED
    BY <2>1 DEF Out
<1> QED
  BY <1>1, <1>2, <1>3, <1>4, <1>6, <1>7 DEF Mine, Almost, SenderKept

\* The frames of a message have an even length.
LEMMA FramesEven ==
  ASSUME EvenSizes, NEW T, NEW s, NEW P, Cut(T, s, Frame, P), Even(Len(s)), Len(s) \in Nat
  PROVE  EvenFrames(P)
<1>1. Frame \in Nat /\ Even(Frame)
  BY ConstantsAre DEF EvenSizes, Even
<1>2. ASSUME NEW i \in 1 .. Len(P) PROVE Even(Len(P[i]))
  <2> DEFINE a == (i - 1) * Frame
             b == i * Frame
             l == Len(s)
  <2>1. Len(P[i]) = Least(b, l) - a
    BY DEF Cut
  <2>2. i \in Nat /\ i - 1 \in Nat
    <3>1. Len(P) \in Nat
      BY DEF Cut
    <3> QED
      BY <3>1
  <2>3. Even(a) /\ Even(b)
    BY <1>1, <2>2, EvenMultiple
  <2>4. a \in Int /\ b \in Int /\ l \in Int /\ Even(l)
    BY <1>1, <2>2, Multiples
  <2> HIDE DEF a, b, l
  <2>5. Least(b, l) \in Int /\ Even(Least(b, l))
    BY <2>3, <2>4 DEF Least
  <2> QED
    BY <2>1, <2>3, <2>4, <2>5, EvenDifference
<1> QED
  BY <1>2 DEF EvenFrames

LEMMA SendKept ==
  ASSUME TypeInv, Sizes, Kept, NEW n \in Ends, Send(n)
  PROVE  Kept'
<1> DEFINE c == tcb[n]
           p == Peer(n)
           w == wrote[n]
           m == Message[n]
           message == [i \in 1 .. m |-> w + i]
           P == Pieces(message, Frame)
           q == c.TxQueue \o P
<1>1. PICK wait \in Waits :
        tcb' = [tcb EXCEPT ![n].TxQueue = @ \o P, ![n].Event = @ /\ ~wait]
  BY DEF Send
<1>2. /\ Calls(n, "Send") /\ wrote' = [wrote EXCEPT ![n] = @ + m] /\ UNCHANGED got
      /\ UNCHANGED net /\ TypeInv'
      /\ c.State \notin States \ {"SynSent", "SynReceived", "Established", "CloseWait"}
  BY SendTyped DEF Send, Calls, Fails
<1>3. Here(n, View(n), c, got[n]) /\ Typed(n, c) /\ n \in DOMAIN tcb /\ EvenSizes
  BY HereIs DEF Here
<1>4. c.State \in {"SynSent", "SynReceived", "Established", "CloseWait"}
  BY <1>2, <1>3, MembersAre
<1>5. p \in Ends /\ p # n /\ Peer(p) = n /\ \A k \in Ends : k = n \/ k = p
  BY EndsAre
<1>6. m \in Nat /\ Even(m) /\ w \in Nat
  BY <1>3, MessageIs DEF EvenSizes, Even, TypeInv, UserTyped, Room
<1>7. /\ P \in Seq(Seq(Stream(n))) /\ EvenFrames(P) /\ FlattenSeq(P) = Run(w, m)
  <2>1. todo[n] # <<>> /\ Room(n, w, todo[n])
    BY <1>2 DEF Calls, TypeInv, UserTyped
  <2>2. \A i \in 1 .. w + m : i \in Stream(n)
    BY <2>1, RoomIs
  <2>3. /\ message \in Seq(Stream(n)) /\ message = Run(w, m) /\ Len(message) = m
        /\ Cut(Stream(n), message, Frame, P) /\ FlattenSeq(P) = message
    BY <1>6, <2>2, MessageTyped
  <2> HIDE DEF message, P, m
  <2>4. EvenFrames(P)
    BY <1>3, <1>6, <2>3, FramesEven
  <2> QED
    BY <2>3, <2>4 DEF Cut
<1> HIDE DEF P, message, m, p
<1> DEFINE ev == c.Event /\ ~wait
           d == [c EXCEPT !.TxQueue = q, !.Event = ev]
<1>8. tcb' = [tcb EXCEPT ![n] = d] /\ ev \in BOOLEAN
  BY <1>1, <1>3 DEF Typed, Connection
<1>9. tcb'[n] = d /\ tcb'[p] = tcb[p] /\ Typed(n, d)
  <2> HIDE DEF d, c
  <2>1. tcb'[n] = d /\ tcb'[p] = tcb[p]
    BY <1>3, <1>5, <1>8
  <2> QED
    BY <1>2, <2>1 DEF TypeInv, TcbTyped
<1>10. /\ d.State = c.State /\ d.StateAfterFIN = c.StateAfterFIN
       /\ d.TxQueue = q /\ d.RxQueue = c.RxQueue /\ d.rtq = c.rtq
       /\ d.bRetransmit = c.bRetransmit /\ d.bSendSYN = c.bSendSYN /\ d.bFINQueued = c.bFINQueued
       /\ d.nRetransmissionCount = c.nRetransmissionCount /\ d.ISS = c.ISS
       /\ d.SND_UNA = c.SND_UNA /\ d.SND_NXT = c.SND_NXT /\ d.RCV_NXT = c.RCV_NXT
       /\ d.panic = c.panic /\ d.hTimer = c.hTimer
  <2> HIDE DEF c, q, ev
  <2> QED
    BY <1>3 DEF Typed, Connection
<1> HIDE DEF d, ev
<1>11. Active \in Ends /\ d.ISS = c.ISS
  BY <1>10 DEF Ends
<1>12. \A k \in Ends : Iss(k)' = Iss(k)
  <2>1. tcb'[Active].ISS = tcb[Active].ISS
    BY <1>5, <1>9, <1>11
  <2> QED
    BY <2>1 DEF Iss
<1>13. wrote'[n] = w + m /\ wrote'[p] = wrote[p]
  <2>1. DOMAIN wrote = Ends
    BY DEF TypeInv, UserTyped
  <2> QED
    BY <1>2, <1>5, <2>1
<1>14. /\ View(n)'.n = n /\ View(n)'.i = Iss(n)' /\ View(n)'.j = Iss(p)'
       /\ View(n)'.w = wrote'[n] /\ View(n)'.v = wrote'[p] /\ View(n)'.st = tcb'[p].State
       /\ View(n)'.r = Diff(tcb'[p].RCV_NXT, Iss(n)')
       /\ View(p)'.n = p /\ View(p)'.i = Iss(p)' /\ View(p)'.j = Iss(n)'
       /\ View(p)'.w = wrote'[p] /\ View(p)'.v = wrote'[n] /\ View(p)'.st = tcb'[n].State
       /\ View(p)'.r = Diff(tcb'[n].RCV_NXT, Iss(p)')
  BY <1>5 DEF View, p
<1>15. /\ View(n).n = n /\ View(n).i = Iss(n) /\ View(n).j = Iss(p)
       /\ View(n).w = w /\ View(n).v = wrote[p] /\ View(n).st = tcb[p].State
       /\ View(n).r = Diff(tcb[p].RCV_NXT, Iss(n))
       /\ View(p).n = p /\ View(p).i = Iss(p) /\ View(p).j = Iss(n)
       /\ View(p).w = wrote[p] /\ View(p).v = w /\ View(p).st = c.State
       /\ View(p).r = Diff(c.RCV_NXT, Iss(p))
  BY <1>5, ViewHas DEF p
<1>16. Writes(View(n), View(n)', c, d, P, m)
  <2> HIDE DEF c, w
  <2> QED
    BY <1>4, <1>5, <1>6, <1>7, <1>9, <1>10, <1>12, <1>13, <1>14, <1>15 DEF Writes, q
<1>17. Reads(View(p), View(p)', m)
  <2> HIDE DEF w
  <2>1. c.State \notin Finished
    BY <1>4 DEF Finished, Ending
  <2> QED
    BY <1>5, <1>6, <1>9, <1>10, <1>12, <1>13, <1>14, <1>15, <2>1 DEF Reads
<1>18. Mine(View(n)', d, got[n]) /\ Out(View(n)', d, net[n])
  <2>1. Scene(View(n)) /\ Almost(View(n), c, got[n]) /\ RequestKept(c) /\ Out(View(n), c, net[n])
        /\ net[n] \subseteq Segments(n) /\ View(n).n = n
    BY <1>3, <1>15 DEF Here, Sound, Kept, TypeInv, NetTyped
  <2> HIDE DEF c
  <2> QED
    BY <1>9, <1>16, <2>1, WrittenKept
<1>19. Mine(View(p)', tcb[p], got[p]) /\ Out(View(p)', tcb[p], net[p])
  <2>1. Mine(View(p), tcb[p], got[p]) /\ Out(View(p), tcb[p], net[p]) /\ Scene(View(p))
        /\ View(p).n \in Ends /\ View(p).j \in Numbers
    BY <1>5, ViewTyped DEF Kept, Scene
  <2> QED
    BY <1>17, <2>1, ReaderKept
<1>20. got'[n] = got[n] /\ got'[p] = got[p] /\ net'[n] = net[n] /\ net'[p] = net[p]
  BY <1>2
<1>21. \A k \in Ends : Mine(View(k)', tcb'[k], got'[k]) /\ Out(View(k)', tcb'[k], net'[k])
  BY <1>5, <1>9, <1>18, <1>19, <1>20
<1> QED
  BY <1>21 DEF Kept

-----------------------------------------------------------------------------
(* Segments that arrive                                                    *)

\* What a handler makes d of the members c, X being what the end has sent before.
Goes(z, c, d, g, X) ==
  /\ Sound(z, d, g) /\ RequestKept(d) /\ Follows(z, c, d) /\ Out(z, d, X)
  /\ z.n = Active => d.ISS = c.ISS

LEMMA GoesStep ==
  ASSUME TypeInv, Sizes, Kept, NEW n \in Ends, NEW s, NEW e, Receives(n, s, e),
         Goes(View(n), tcb[n], e, got[n], net[n])
  PROVE  Kept'
<1>1. Emits(n, e) /\ View(n).n = n
  BY ReceivesEmits, ViewHas
<1> QED
  BY <1>1, EmitsKept DEF Goes

LEMMA OnwardGoes ==
  ASSUME NEW z, Scene(z), NEW c, Typed(z.n, c), NEW d, NEW g, Sound(z, d, g), RequestKept(d),
         Onward(z, c, d), NEW X, X \subseteq Segments(z.n), Out(z, c, X)
  PROVE  Goes(z, c, d, g, X)
<1>1. Typed(z.n, d)
  BY DEF Sound, Almost
<1>2. Out(z, d, X)
  BY <1>1, OnwardOut
<1> QED
  BY <1>2, OnwardFollows DEF Goes, Onward

\* The passive end listens again.
Reopens(c, d) ==
  /\ c.State = "SynReceived" /\ d.State = "Listen" /\ d.StateAfterFIN = c.StateAfterFIN
  /\ d.TxQueue = c.TxQueue /\ d.RxQueue = c.RxQueue /\ d.rtq \in {c.rtq, EmptyQueue}
  /\ d.bRetransmit = c.bRetransmit /\ d.bSendSYN = c.bSendSYN /\ d.bFINQueued = c.bFINQueued
  /\ d.ISS = c.ISS /\ d.RCV_NXT = c.RCV_NXT
  /\ d.panic = c.panic /\ d.hTimer = c.hTimer /\ d.out = c.out

LEMMA ReopensKept ==
  ASSUME NEW z, Scene(z), NEW c, NEW g, Sound(z, c, g), RequestKept(c), NEW d, Typed(z.n, d),
         Reopens(c, d), NEW X, X \subseteq Segments(z.n), Out(z, c, X)
  PROVE  Goes(z, c, d, g, X)
<1>1. SenderKept(z, c) /\ TimersKept(z, c) /\ ReceiverKept(z, c, g) /\ HandshakeKept(z, c)
      /\ Typed(z.n, c) /\ g \in Seq(Stream(Peer(z.n))) /\ z.n \in Ends /\ z.j \in Numbers
      /\ Out(z, c, c.out)
  BY DEF Sound, Almost, Scene
<1>2. OpeningKept(z, d)
  BY <1>1 DEF Reopens, SenderKept, OpeningKept, Opening
<1>3. OpenedKept(z, d) /\ FlowingKept(z, d) /\ EndingKept(z, d) /\ SendingKept(z, d) /\ PeerKept(z, d)
  BY DEF Reopens, OpenedKept, FlowingKept, EndingKept, SendingKept, PeerKept, Flowing, Ending, Sending
<1>4. FramesKept(z, d)
  BY <1>1 DEF Reopens, SenderKept, FramesKept
<1>5. TimersKept(z, d)
  BY <1>1 DEF Reopens, TimersKept, Off, Sending
<1>6. HandshakeKept(z, d) /\ RequestKept(d)
  BY DEF Reopens, HandshakeKept, Early, RequestKept, Off
<1>7. ReceiverKept(z, d, g) /\ Diff(c.RCV_NXT, z.j) = 1
  <2> DEFINE F == FlattenSeq(c.RxQueue)
             R == g \o F
  <2>1. ArrivedKept(z, c, R) /\ FlattenSeq(d.RxQueue) = F
    BY <1>1 DEF ReceiverKept, Reopens
  <2> HIDE DEF R
  <2>2. R = <<>> /\ InStep(z, c, R) /\ R = Run(0, Len(R)) /\ Len(R) <= z.v
    BY <2>1 DEF ArrivedKept, Reopens, Opening, Synchronized, States
  <2>3. Diff(c.RCV_NXT, z.j) = 1 + Len(R) /\ Len(R) = 0
    BY <2>2 DEF InStep, Reopens
  <2>4. ArrivedKept(z, d, R)
    BY <2>2 DEF ArrivedKept, Reopens, Synchronized
  <2> QED
    BY <2>1, <2>3, <2>4 DEF ReceiverKept, R
<1>8. Almost(z, d, g)
  BY <1>1, <1>2, <1>3, <1>4, <1>5, <1>6, <1>7 DEF Almost, SenderKept
<1>9. ASSUME NEW Y, Y \subseteq Segments(z.n), Out(z, c, Y)
      PROVE  Out(z, d, Y)
  <2>1. ASSUME NEW s \in Y
        PROVE  DataKept(z, d, s) /\ FinKept(z, d, s) /\ SynKept(z, s) /\ AckKept(z, d, s)
    <3>1. DataKept(z, c, s) /\ FinKept(z, c, s) /\ SynKept(z, s) /\ AckKept(z, c, s)
      BY <1>9 DEF Out
    <3>2. DataKept(z, d, s) /\ FinKept(z, d, s)
      BY <3>1 DEF DataKept, FinKept, Reopens, Opening, Finished, Ending
    <3>3. AckKept(z, d, s)
      <4>1. s.ack \in Numbers
        BY <1>1, <1>9, SegmentIs
      <4>2. Diff(s.ack, z.j) \in Int
        BY <1>1, <4>1, DiffNat
      <4> DEFINE u == Diff(s.ack, z.j)
      <4>3. 1 <= u /\ u <= 1 => u = 1
        <5> HIDE DEF u
        <5> QED
          BY <4>2 DEF u
      <4> QED
        BY <1>7, <3>1, <4>3 DEF AckKept, Reopens
    <3> QED
      BY <3>1, <3>2, <3>3
  <2> QED
    BY <2>1 DEF Out
<1>10. c.out \subseteq Segments(z.n) /\ d.out = c.out
  BY <1>1, MembersAre DEF Reopens
<1>11. Follows(z, c, d)
  BY <1>7 DEF Follows, Reopens, Opening, Finished, Ending
<1> QED
  BY <1>1, <1>6, <1>8, <1>9, <1>10, <1>11 DEF Goes, Sound, Reopens

\* The connection is closed, and X has been sent.
LEMMA ClosesGoes ==
  ASSUME NEW z, Scene(z), NEW c, NEW g, Sound(z, c, g), RequestKept(c), NEW d, Typed(z.n, d),
         Closes(c, d), NEW Y, d.out = c.out \cup Y, Out(z, d, Y),
         NEW X, X \subseteq Segments(z.n), Out(z, c, X)
  PROVE  Goes(z, c, d, g, X)
<1>1. Typed(z.n, c) /\ Almost(z, c, g) /\ Out(z, c, c.out)
  BY DEF Sound, Almost
<1>2. Almost(z, d, g) /\ Onward(z, c, d) /\ RequestKept(d)
  BY <1>1, ClosesKept
<1>3. Out(z, d, d.out)
  BY <1>1, <1>2, SentKept
<1>4. Sound(z, d, g)
  BY <1>2, <1>3 DEF Sound
<1> QED
  BY <1>1, <1>2, <1>4, OnwardGoes

LEMMA ResetIs ==
  ASSUME NEW n \in Ends, NEW c, Typed(n, c), c.State \in Synchronized, NEW d, d = Reset(c)
  PROVE  d.out = c.out /\ (Reopens(c, d) \/ Closes(c, d))
<1>1. c.State \in States /\ c.bActiveOpen \in BOOLEAN
  BY MembersAre
<1>2. CASE c.State = "SynReceived" /\ ~c.bActiveOpen
  <2>1. d = [c EXCEPT !.rtq = EmptyQueue, !.State = "Listen"]
    BY <1>2 DEF Reset
  <2> QED
    BY <1>2, <2>1 DEF Typed, Connection, Reopens
<1>3. CASE c.State = "SynReceived" /\ c.bActiveOpen
  <2>1. d = Fail([c EXCEPT !.rtq = EmptyQueue])
    BY <1>3 DEF Reset
  <2> QED
    BY <2>1 DEF Typed, Connection, Closes, Fail
<1>4. CASE c.State \in {"Established", "FinWait1", "FinWait2", "CloseWait"}
  <2>1. d = Fail(Flush(c))
    BY <1>4 DEF Reset
  <2> QED
    BY <2>1 DEF Typed, Connection, Closes, Fail, Flush
<1>5. CASE c.State \in {"Closing", "LastAck", "TimeWait"}
  <2>1. d = [c EXCEPT !.State = "Closed", !.Event = TRUE]
    BY <1>5 DEF Reset
  <2> QED
    BY <2>1 DEF Typed, Connection, Closes
<1> QED
  BY <1>1, <1>2, <1>3, <1>4, <1>5 DEF Synchronized, States

LEMMA ResetGoes ==
  ASSUME NEW z, Scene(z), NEW c, NEW g, Sound(z, c, g), RequestKept(c), c.State \in Synchronized,
         NEW X, X \subseteq Segments(z.n), Out(z, c, X), NEW d, d = Reset(c)
  PROVE  Goes(z, c, d, g, X)
<1>1. Typed(z.n, c) /\ z.n \in Ends
  BY DEF Sound, Almost, Scene
<1>2. Typed(z.n, d) /\ d.out = c.out /\ (Reopens(c, d) \/ Closes(c, d))
  BY <1>1, ResetTyped, ResetIs
<1>3. d.out = c.out \cup {} /\ Out(z, d, {})
  BY <1>2 DEF Out
<1> QED
  BY <1>2, <1>3, ReopensKept, ClosesGoes

LEMMA SynAgainGoes ==
  ASSUME NEW z, Scene(z), NEW c, NEW g, Sound(z, c, g), RequestKept(c), c.State \in Synchronized,
         NEW X, X \subseteq Segments(z.n), Out(z, c, X), NEW d, d = SynAgain(c)
  PROVE  Goes(z, c, d, g, X)
<1>1. Typed(z.n, c) /\ z.n \in Ends
  BY DEF Sound, Almost, Scene
<1>2. Typed(z.n, d)
  BY <1>1, SynAgainTyped
<1>3. CASE c.State = "SynReceived" /\ ~c.bActiveOpen
  <2>1. d = [c EXCEPT !.State = "Listen"]
    BY <1>3 DEF SynAgain
  <2>2. Reopens(c, d)
    BY <1>1, <1>3, <2>1 DEF Typed, Connection, Reopens
  <2> QED
    BY <1>2, <2>2, ReopensKept
<1>4. CASE ~(c.State = "SynReceived" /\ ~c.bActiveOpen)
  <2> DEFINE s == Segment({"RST"}, c.SND_NXT, 0, <<>>)
             e == [c EXCEPT !.out = @ \cup {s}]
             f == Flush(e)
  <2>1. d = Fail(f)
    BY <1>4 DEF SynAgain, SendSegment
  <2>2. Out(z, d, {s})
    BY ResetOut
  <2> HIDE DEF s
  <2> DEFINE o == c.out \cup {s}
  <2>3. e = [c EXCEPT !.out = o]
    BY <1>1 DEF Typed, Connection
  <2> HIDE DEF o
  <2>4. Closes(c, d) /\ d.out = o
    BY <1>1, <2>1, <2>3 DEF Typed, Connection, Closes, Fail, Flush
  <2> QED
    BY <1>2, <2>2, <2>4, ClosesGoes DEF o
<1> QED
  BY <1>3, <1>4

LEMMA SynchronizedKept ==
  ASSUME TypeInv, Sizes, Kept, NEW n \in Ends, NEW s \in net[Peer(n)], SynchronizedSegment(n, s)
  PROVE  Kept'
<1> DEFINE c == tcb[n]
           z == View(n)
           g == got[n]
           X == net[n]
<1>1. Here(n, z, c, g) /\ From(z, c, s) /\ c.State \in Synchronized /\ X \subseteq Segments(n)
      /\ Out(z, c, X)
  BY HereIs, FromPeer DEF SynchronizedSegment, TypeInv, NetTyped, Kept
<1>2. PICK d : /\ Receives(n, s, d)
               /\ \/ d = SendAck(c) \/ d = Reset(c) \/ d = SynAgain(c) \/ d = c
                  \/ /\ d = Arrives(c, s) /\ "ACK" \in s.flags /\ "RST" \notin s.flags
                     /\ "SYN" \notin s.flags
                     /\ Acceptable(c, s) \/ c.State = "SynReceived"
  BY DEF SynchronizedSegment
<1>3. /\ Scene(z) /\ Sound(z, c, g) /\ RequestKept(c) /\ Typed(z.n, c) /\ X \subseteq Segments(z.n)
      /\ Out(z, c, X) /\ c.State \in Synchronized
  BY <1>1 DEF Here
<1>4. Goes(z, c, d, g, X)
  <2> HIDE DEF z, c, g, X
  <2>1. CASE d = SendAck(c)
    <3>1. Sound(z, d, g) /\ Onward(z, c, d) /\ Inert(c, d)
      BY <1>3, <2>1, SendAckKept
    <3>2. RequestKept(d)
      BY <1>3, <3>1 DEF RequestKept, Inert
    <3> QED
      BY <1>3, <3>1, <3>2, OnwardGoes
  <2>2. CASE d = Reset(c)
    BY <1>3, <2>2, ResetGoes
  <2>3. CASE d = SynAgain(c)
    BY <1>3, <2>3, SynAgainGoes
  <2>4. CASE d = c
    BY <1>3, <2>4, OnwardStill, OnwardGoes
  <2>5. CASE /\ d = Arrives(c, s) /\ "ACK" \in s.flags /\ "RST" \notin s.flags
             /\ "SYN" \notin s.flags
             /\ Acceptable(c, s) \/ c.State = "SynReceived"
    <3>1. Acks(s)
      BY <2>5 DEF Acks
    <3>2. Sound(z, d, g) /\ Onward(z, c, d) /\ RequestKept(d)
      BY <1>1, <1>3, <2>5, <3>1, ArrivesKept
    <3> QED
      BY <1>3, <3>2, OnwardGoes
  <2> QED
    BY <1>2, <2>1, <2>2, <2>3, <2>4, <2>5
<1> QED
  BY <1>2, <1>4, GoesStep

\* What the handshake changes: the other end's first number is now known.
Opens(z, c, d) ==
  /\ c.State \in {"Listen", "SynSent"} /\ d.State \in {"SynReceived", "Established"}
  /\ d.RCV_NXT = Plus(z.j, 1)
  /\ d.StateAfterFIN = c.StateAfterFIN
  /\ d.TxQueue = c.TxQueue /\ d.RxQueue = c.RxQueue /\ d.rtq = c.rtq
  /\ d.bRetransmit = c.bRetransmit /\ d.bFINQueued = c.bFINQueued /\ d.panic = c.panic
  /\ d.bSendSYN => c.bSendSYN /\ c.State # "SynSent"

LEMMA FirstNumber ==
  ASSUME NEW z, Scene(z)
  PROVE  Plus(z.j, 1) \in Numbers /\ Diff(Plus(z.j, 1), z.j) = 1 /\ 1 <= Furthest(z.v)
<1>1. z.j \in Numbers /\ z.v \in Nat /\ z.v + 2 <= Furthest(z.v) /\ Furthest(z.v) \in Nat
  BY DEF Scene
<1>2. Diff(z.j, z.j) = 0 /\ 0 < Half
  BY <1>1, DiffSelf, ConstantsAre
<1>3. Plus(z.j, 1) \in Numbers /\ Diff(Plus(z.j, 1), z.j) = 0 + 1
  BY <1>1, <1>2, PlusOne
<1> QED
  BY <1>1, <1>3

\* Nothing that was sent before is contradicted.
LEMMA OpensOut ==
  ASSUME NEW z, Scene(z), NEW c, NEW d, Opens(z, c, d),
         NEW X, X \subseteq Segments(z.n), Out(z, c, X)
  PROVE  Out(z, d, X)
<1>1. Diff(d.RCV_NXT, z.j) = 1 /\ 1 <= Furthest(z.v)
  BY FirstNumber DEF Opens
<1>2. ASSUME NEW s \in X
      PROVE  DataKept(z, d, s) /\ FinKept(z, d, s) /\ SynKept(z, s) /\ AckKept(z, d, s)
  <2>1. DataKept(z, c, s) /\ FinKept(z, c, s) /\ SynKept(z, s) /\ AckKept(z, c, s)
    BY DEF Out
  <2>2. DataKept(z, d, s) /\ FinKept(z, d, s)
    BY <2>1 DEF DataKept, FinKept, Opens, Opening, Finished, Ending
  <2>3. AckKept(z, d, s)
    BY <1>1, <2>1 DEF AckKept, Opens
  <2> QED
    BY <2>1, <2>2, <2>3
<1> QED
  BY <1>2 DEF Out

LEMMA OpensKept ==
  ASSUME NEW z, Scene(z), NEW c, NEW g, Almost(z, c, g), RequestKept(c), NEW d, Typed(z.n, d),
         Opens(z, c, d), SenderKept(z, d),
         Off(c) => Off(d), d.State = "SynReceived" => c.State = "Listen",
         z.st = "SynSent" => d.State = "SynReceived"
  PROVE  Almost(z, d, g) /\ Follows(z, c, d) /\ RequestKept(d)
<1>1. TimersKept(z, c) /\ ReceiverKept(z, c, g) /\ g \in Seq(Stream(Peer(z.n))) /\ z.n \in Ends
      /\ Typed(z.n, c)
  BY DEF Almost, Scene
<1>2. Diff(d.RCV_NXT, z.j) = 1 /\ 1 <= Furthest(z.v)
  BY FirstNumber DEF Opens
<1>3. TimersKept(z, d)
  BY <1>1 DEF TimersKept, Opens, Sending
<1>4. HandshakeKept(z, d)
  BY DEF HandshakeKept, Opens, Early
<1>5. ReceiverKept(z, d, g)
  <2> DEFINE F == FlattenSeq(c.RxQueue)
             R == g \o F
  <2>1. ArrivedKept(z, c, R) /\ FlattenSeq(d.RxQueue) = F
    BY <1>1 DEF ReceiverKept, Opens
  <2> HIDE DEF R
  <2>2. R = <<>> /\ R = Run(0, Len(R)) /\ Len(R) <= z.v
    BY <2>1 DEF ArrivedKept, Opens, Opening
  <2>3. Len(R) = 0 /\ Even(0)
    BY <2>2, EvenZero
  <2>4. InStep(z, d, R)
    BY <1>2, <2>3 DEF InStep, Opens, AfterFIN
  <2>5. ArrivedKept(z, d, R)
    BY <2>2, <2>4 DEF ArrivedKept
  <2> QED
    BY <2>1, <2>5 DEF ReceiverKept, R
<1>6. Follows(z, c, d)
  <2>1. d.RCV_NXT = d.RCV_NXT /\ Diff(d.RCV_NXT, z.j) <= Furthest(z.v)
    BY <1>2
  <2> QED
    BY <1>2, <2>1 DEF Follows, Opens, Opening, Finished, Ending
<1>7. RequestKept(d)
  BY DEF RequestKept, Opens
<1> QED
  BY <1>1, <1>3, <1>4, <1>5, <1>6, <1>7 DEF Almost

\* The passive end answers the SYN.
Answered(c, i, x) ==
  SendSegment([c EXCEPT !.RCV_NXT = x, !.ISS = i, !.SND_UNA = i, !.SND_NXT = Plus(i, 1),
                        !.State = "SynReceived", !.Event = TRUE],
              {"SYN", "ACK"}, i, x, <<>>)

LEMMA ListenGoes ==
  ASSUME NEW z, Scene(z), NEW c, NEW g, Sound(z, c, g), RequestKept(c), c.State = "Listen",
         NEW X, X \subseteq Segments(z.n), Out(z, c, X),
         NEW d, d = Answered(c, z.i, Plus(z.j, 1))
  PROVE  Goes(z, c, d, g, X)
<1> DEFINE x == Plus(z.j, 1)
           s == Segment({"SYN", "ACK"}, z.i, x, <<>>)
           a == [c EXCEPT !.RCV_NXT = x, !.ISS = z.i, !.SND_UNA = z.i, !.SND_NXT = Plus(z.i, 1),
                          !.State = "SynReceived", !.Event = TRUE]
<1>1. /\ Almost(z, c, g) /\ Out(z, c, c.out) /\ Typed(z.n, c) /\ SenderKept(z, c)
      /\ TimersKept(z, c) /\ z.n \in Ends /\ z.i \in Numbers
  BY DEF Sound, Almost, Scene
<1>2. x \in Numbers /\ Plus(z.i, 1) \in Numbers /\ Diff(x, z.j) = 1 /\ 1 <= Furthest(z.v)
  BY <1>1, FirstNumber, PlusType
<1>3. z.n # Active
  BY <1>1 DEF TimersKept
<1>4. d = SendSegment(a, {"SYN", "ACK"}, z.i, x, <<>>)
  BY DEF Answered
<1> HIDE DEF x
<1>5. Typed(z.n, a)
  <2> DEFINE y == Plus(z.i, 1)
             i == z.i
  <2>1. y \in Numbers /\ i \in Numbers /\ x \in Numbers
    BY <1>1, <1>2
  <2> HIDE DEF y, i
  <2>2. Typed(z.n, [c EXCEPT !.RCV_NXT = x, !.ISS = i, !.SND_UNA = i, !.SND_NXT = y,
                          !.State = "SynReceived", !.Event = TRUE])
    BY <1>1, <2>1, ZenonT(60) DEF Typed, Connection, States
  <2> QED
    BY <2>2 DEF y, i
<1>6. Typed(z.n, d)
  <2> HIDE DEF a
  <2>1. {"SYN", "ACK"} \in SUBSET Flags
    BY DEF Flags
  <2> QED
    BY <1>1, <1>2, <1>4, <1>5, <2>1, SendSegmentTyped
<1>7. /\ d.State = "SynReceived" /\ d.StateAfterFIN = c.StateAfterFIN
      /\ d.TxQueue = c.TxQueue /\ d.RxQueue = c.RxQueue /\ d.rtq = c.rtq
      /\ d.bRetransmit = c.bRetransmit /\ d.bSendSYN = c.bSendSYN /\ d.bFINQueued = c.bFINQueued
      /\ d.ISS = z.i /\ d.SND_UNA = z.i /\ d.SND_NXT = Plus(z.i, 1)
      /\ d.RCV_NXT = x /\ d.panic = c.panic /\ d.hTimer = c.hTimer /\ d.out = c.out \cup {s}
  <2> DEFINE y == Plus(z.i, 1)
             i == z.i
  <2> HIDE DEF y, i, s
  <2>1. d = SendSegment([c EXCEPT !.RCV_NXT = x, !.ISS = i, !.SND_UNA = i, !.SND_NXT = y,
                          !.State = "SynReceived", !.Event = TRUE], {"SYN", "ACK"}, i, x, <<>>)
        /\ s = Segment({"SYN", "ACK"}, i, x, <<>>)
    BY <1>4 DEF y, i, s
  <2>2. /\ d.State = "SynReceived" /\ d.StateAfterFIN = c.StateAfterFIN
        /\ d.TxQueue = c.TxQueue /\ d.RxQueue = c.RxQueue /\ d.rtq = c.rtq
        /\ d.bRetransmit = c.bRetransmit /\ d.bSendSYN = c.bSendSYN /\ d.bFINQueued = c.bFINQueued
        /\ d.ISS = i /\ d.SND_UNA = i /\ d.SND_NXT = y
        /\ d.RCV_NXT = x /\ d.panic = c.panic /\ d.hTimer = c.hTimer /\ d.out = c.out \cup {s}
    BY <1>1, <2>1 DEF Typed, Connection, SendSegment
  <2> QED
    BY <2>2 DEF y, i
<1> HIDE DEF a, s
<1>8. ~c.bSendSYN
  BY <1>1 DEF TimersKept
<1>9. Opens(z, c, d)
  BY <1>7, <1>8 DEF Opens, x
<1>10. SenderKept(z, d)
  <2>1. OpeningKept(z, d) /\ OpenedKept(z, d) /\ FramesKept(z, d)
    BY <1>1, <1>7 DEF SenderKept, OpeningKept, OpenedKept, FramesKept, Opening
  <2>2. FlowingKept(z, d) /\ EndingKept(z, d) /\ SendingKept(z, d) /\ PeerKept(z, d)
    BY <1>7 DEF FlowingKept, EndingKept, SendingKept, PeerKept, Flowing, Ending, Sending
  <2> QED
    BY <2>1, <2>2 DEF SenderKept
<1>11. Almost(z, d, g) /\ Follows(z, c, d) /\ RequestKept(d)
  BY <1>1, <1>6, <1>7, <1>9, <1>10, OpensKept DEF Off
<1>12. Out(z, d, c.out) /\ Out(z, d, X)
  BY <1>1, <1>9, MembersAre, OpensOut
<1>13. Out(z, d, {s})
  <2>1. s.flags = {"SYN", "ACK"} /\ s.seq = z.i /\ s.data = <<>> /\ s.ack = x
    BY SegmentHas DEF s
  <2>2. ~Even(1)
    BY EvenZero
  <2>3. DataKept(z, d, s) /\ FinKept(z, d, s) /\ SynKept(z, s)
    BY <1>3, <2>1 DEF DataKept, FinKept, SynKept
  <2>4. AckKept(z, d, s)
    BY <1>2, <1>7, <2>1, <2>2 DEF AckKept
  <2> QED
    BY <2>3, <2>4 DEF Out
<1>14. Out(z, d, d.out)
  BY <1>7, <1>12, <1>13, OutBoth
<1> QED
  BY <1>3, <1>11, <1>12, <1>14 DEF Goes, Sound

LEMMA ListenSYNKept ==
  ASSUME TypeInv, Sizes, Kept, NEW n \in Ends, NEW s \in net[Peer(n)], ListenSYN(n, s)
  PROVE  Kept'
<1> DEFINE c == tcb[n]
           z == View(n)
           g == got[n]
           X == net[n]
<1>1. Here(n, z, c, g) /\ From(z, c, s) /\ c.State = "Listen" /\ X \subseteq Segments(n)
      /\ Out(z, c, X) /\ s.flags = {"SYN"}
  BY HereIs, FromPeer DEF ListenSYN, TypeInv, NetTyped, Kept
<1>2. PICK isn \in ISNs[n] :
        Receives(n, s, SendSegment([c EXCEPT !.RCV_NXT = Plus(s.seq, 1), !.ISS = isn,
                                        !.SND_UNA = isn, !.SND_NXT = Plus(isn, 1),
                                        !.State = "SynReceived", !.Event = TRUE],
                              {"SYN", "ACK"}, isn, Plus(s.seq, 1), <<>>))
  BY DEF ListenSYN
<1>3. n = Passive
  <2>1. n # Active
    BY <1>1 DEF Here, Sound, Almost, TimersKept
  <2> QED
    BY <2>1, EndsAre
<1>4. isn = z.i
  BY <1>2, <1>3, PassiveNumber, ViewHas DEF Sizes
<1>5. s.seq = z.j
  BY <1>1 DEF From
<1>6. Receives(n, s, Answered(c, z.i, Plus(z.j, 1)))
  BY <1>2, <1>4, <1>5 DEF Answered
<1>7. Goes(z, c, Answered(c, z.i, Plus(z.j, 1)), g, X)
  BY <1>1, ListenGoes DEF Here
<1> QED
  BY <1>6, <1>7, GoesStep

\* The active end takes the answer s to its SYN.
Established(c, s) ==
  [c EXCEPT !.RCV_NXT = Plus(s.seq, 1), !.SND_UNA = s.ack,
            !.State = "Established", !.bSendSYN = FALSE,
            !.hTimer = @ \ {"Retransmission"}, !.Event = TRUE,
            !.nRetransmissionCount = MAX_RETRANSMISSIONS]

LEMMA EstablishedIs ==
  ASSUME NEW n \in Ends, NEW c, Typed(n, c), NEW s, s.seq \in Numbers, s.ack \in Numbers,
         NEW d, d = Established(c, s)
  PROVE  /\ Typed(n, d) /\ Off(d) /\ d.State = "Established" /\ d.out = c.out
         /\ d.StateAfterFIN = c.StateAfterFIN
         /\ d.TxQueue = c.TxQueue /\ d.RxQueue = c.RxQueue /\ d.rtq = c.rtq
         /\ d.bRetransmit = c.bRetransmit /\ ~d.bSendSYN /\ d.bFINQueued = c.bFINQueued
         /\ d.ISS = c.ISS /\ d.SND_UNA = s.ack /\ d.SND_NXT = c.SND_NXT
         /\ d.RCV_NXT = Plus(s.seq, 1) /\ d.panic = c.panic
<1> DEFINE x == Plus(s.seq, 1)
           y == s.ack
           h == c.hTimer \ {"Retransmission"}
<1>1. x \in Numbers /\ y \in Numbers /\ h \in SUBSET Timers /\ "Retransmission" \notin h
  BY PlusType, MembersAre
<1> DEFINE m == MAX_RETRANSMISSIONS
<1>2. m \in -1 .. MAX_RETRANSMISSIONS /\ m # -1 /\ "Established" \in States /\ c \in Connection(n)
  BY ConstantsAre DEF Typed, States
<1>3. d = [c EXCEPT !.RCV_NXT = x, !.SND_UNA = y, !.State = "Established", !.bSendSYN = FALSE,
                    !.hTimer = h, !.Event = TRUE, !.nRetransmissionCount = m]
  BY <1>2 DEF Established, Connection
<1> HIDE DEF x, y, h, m
<1>4. /\ d.hTimer = h /\ d.State = "Established" /\ d.out = c.out
      /\ d.StateAfterFIN = c.StateAfterFIN /\ d.bTimedOut = c.bTimedOut
      /\ d.TxQueue = c.TxQueue /\ d.RxQueue = c.RxQueue /\ d.rtq = c.rtq
      /\ d.bRetransmit = c.bRetransmit /\ d.bSendSYN = FALSE /\ d.bFINQueued = c.bFINQueued
      /\ d.ISS = c.ISS /\ d.SND_UNA = y /\ d.SND_NXT = c.SND_NXT /\ d.RCV_NXT = x
      /\ d.panic = c.panic /\ d.nRetransmissionCount = m
  BY ONLY <1>2, <1>3 DEF Connection
<1>5. d \in Connection(n)
  BY ONLY <1>1, <1>2, <1>3 DEF Connection
<1>6. Typed(n, d) /\ Off(d)
  BY <1>1, <1>2, <1>4, <1>5 DEF Typed, Off
<1> QED
  BY <1>4, <1>6 DEF x, y

LEMMA EstablishedGoes ==
  ASSUME NEW z, Scene(z), NEW c, NEW g, Sound(z, c, g), RequestKept(c), c.State = "SynSent",
         NEW X, X \subseteq Segments(z.n), Out(z, c, X),
         NEW s, From(z, c, s), Acks(s), "SYN" \in s.flags,
         NEW d, d = SendAck(Established(c, s))
  PROVE  Goes(z, c, d, g, X)
<1> DEFINE a == Established(c, s)
<1>1. /\ Almost(z, c, g) /\ Out(z, c, c.out) /\ Typed(z.n, c) /\ z.n \in Ends /\ z.j \in Numbers
      /\ TimersKept(z, c) /\ c.out \subseteq Segments(z.n)
  <2>1. Typed(z.n, c) /\ z.n \in Ends
    BY DEF Sound, Almost, Scene
  <2> QED
    BY <2>1, MembersAre DEF Sound, Almost, Scene
<1>2. s \in Segments(Peer(z.n)) /\ s.seq = z.j /\ z.st # "SynSent"
  BY DEF From
<1>3. s.seq \in Numbers /\ s.ack \in Numbers
  BY <1>1, <1>2, EndsAre, SegmentIs
<1>4. /\ Typed(z.n, a) /\ Off(a) /\ a.State = "Established" /\ a.out = c.out
      /\ a.StateAfterFIN = c.StateAfterFIN
      /\ a.TxQueue = c.TxQueue /\ a.RxQueue = c.RxQueue /\ a.rtq = c.rtq
      /\ a.bRetransmit = c.bRetransmit /\ ~a.bSendSYN /\ a.bFINQueued = c.bFINQueued
      /\ a.ISS = c.ISS /\ a.SND_UNA = s.ack /\ a.SND_NXT = c.SND_NXT
      /\ a.RCV_NXT = Plus(z.j, 1) /\ a.panic = c.panic
  BY <1>1, <1>2, <1>3, EstablishedIs
<1>5. d = SendAck(a)
  OBVIOUS
<1> HIDE DEF a
<1>6. SenderKept(z, a)
  BY <1>1, <1>4, OpenedFlows
<1>7. Opens(z, c, a)
  BY <1>4 DEF Opens
<1>8. Almost(z, a, g) /\ Follows(z, c, a) /\ RequestKept(a)
  BY <1>1, <1>2, <1>4, <1>6, <1>7, OpensKept
<1>9. Out(z, a, a.out) /\ Out(z, a, X)
  BY <1>1, <1>4, <1>7, OpensOut
<1>10. Sound(z, a, g) /\ a.State \in Synchronized
  BY <1>4, <1>8, <1>9 DEF Sound, Synchronized, States
<1>11. Sound(z, d, g) /\ Onward(z, a, d) /\ Inert(a, d)
  BY <1>5, <1>10, SendAckKept
<1>12. Out(z, d, X)
  BY <1>1, <1>4, <1>9, <1>11, OnwardOut DEF Sound, Almost
<1>13. RequestKept(d) /\ Follows(z, c, d) /\ d.ISS = c.ISS
  BY <1>4, <1>8, <1>11 DEF RequestKept, Follows, Inert
<1> QED
  BY <1>11, <1>12, <1>13 DEF Goes

LEMMA SynSentKept ==
  ASSUME TypeInv, Sizes, Kept, NEW n \in Ends, NEW s \in net[Peer(n)], SynSentSegment(n, s)
  PROVE  Kept'
<1> DEFINE c == tcb[n]
           z == View(n)
           g == got[n]
           X == net[n]
           b == [c EXCEPT !.bSendSYN = FALSE]
<1>1. Here(n, z, c, g) /\ From(z, c, s) /\ c.State = "SynSent" /\ X \subseteq Segments(n)
      /\ Out(z, c, X)
  BY HereIs, FromPeer DEF SynSentSegment, TypeInv, NetTyped, Kept
<1>2. PICK d : /\ Receives(n, s, d)
               /\ \/ d = SendSegment(c, {"RST"}, s.ack, 0, <<>>) \/ d = c \/ d = Fail(b)
                  \/ /\ "ACK" \in s.flags /\ s.flags = {"SYN", "ACK"}
                     /\ d = SendAck(Established(c, s))
                  \/ s.flags = {"SYN"}
  BY DEF SynSentSegment, Established
<1>3. /\ Scene(z) /\ Sound(z, c, g) /\ RequestKept(c) /\ Typed(z.n, c) /\ X \subseteq Segments(z.n)
      /\ Out(z, c, X) /\ z.n = n
  BY <1>1 DEF Here
<1>4. s.ack \in Numbers /\ 0 \in Numbers
  <2>1. s \in Segments(Peer(n)) /\ Peer(n) \in Ends
    BY EndsAre DEF TypeInv, NetTyped
  <2> QED
    BY <2>1, SegmentIs, ConstantsAre DEF Numbers
<1>5. Goes(z, c, d, g, X)
  <2>1. CASE d = SendSegment(c, {"RST"}, s.ack, 0, <<>>)
    <3> HIDE DEF z, c, g, X
    <3>1. Sound(z, d, g) /\ Onward(z, c, d) /\ Inert(c, d)
      BY <1>3, <1>4, <2>1, RejectKept
    <3>2. RequestKept(d)
      BY <1>3, <3>1 DEF RequestKept, Inert
    <3> QED
      BY <1>3, <3>1, <3>2, OnwardGoes
  <2>2. CASE d = c
    <3> HIDE DEF z, c, g, X
    <3> QED
      BY <1>3, <2>2, OnwardStill, OnwardGoes
  <2>3. CASE d = Fail(b)
    <3> HIDE DEF z, c, g, X
    <3>1. /\ d \in Connection(n) /\ d.out = c.out /\ d.rtq = c.rtq /\ d.TxQueue = c.TxQueue
          /\ d.nRetransmissionCount = c.nRetransmissionCount /\ d.bTimedOut = c.bTimedOut
          /\ d.hTimer = c.hTimer /\ d.State = "Closed" /\ d.StateAfterFIN = c.StateAfterFIN
          /\ d.bSendSYN = FALSE /\ d.bRetransmit = c.bRetransmit /\ d.bFINQueued = c.bFINQueued
          /\ d.RxQueue = c.RxQueue /\ d.ISS = c.ISS /\ d.RCV_NXT = c.RCV_NXT
      BY <1>3, <2>3, ZenonT(60) DEF Typed, Connection, Fail, States
    <3>2. Typed(z.n, d)
      BY <1>3, <3>1 DEF Typed
    <3>3. Closes(c, d)
      BY <3>1 DEF Closes
    <3>4. d.out = c.out \cup {} /\ Out(z, d, {})
      BY <3>1 DEF Out
    <3> QED
      BY <1>3, <3>2, <3>3, <3>4, ClosesGoes
  <2>4. CASE s.flags = {"SYN", "ACK"} /\ d = SendAck(Established(c, s))
    <3>1. Acks(s) /\ "SYN" \in s.flags
      BY <2>4 DEF Acks
    <3> HIDE DEF z, c, g, X
    <3> QED
      BY <1>1, <1>3, <2>4, <3>1, EstablishedGoes
  <2>5. CASE s.flags = {"SYN"}
    <3>1. z.n = Passive
      BY <1>1, <2>5 DEF From
    <3> QED
      BY <1>1, <3>1 DEF Here, Sound, Almost, TimersKept
  <2> QED
    BY <1>2, <2>1, <2>2, <2>3, <2>4, <2>5
<1> QED
  BY <1>2, <1>5, GoesStep

-----------------------------------------------------------------------------
(* What is kept holds                                                      *)

\* An end before anything has been written or has arrived.
First(z, c) ==
  /\ c.rtq = EmptyQueue /\ c.TxQueue = <<>> /\ c.RxQueue = <<>> /\ z.w = 0
  /\ ~c.bRetransmit /\ ~c.bSendSYN /\ ~c.bFINQueued /\ ~c.panic /\ c.StateAfterFIN = "Closed"
  /\ \/ z.n = Active /\ c.State = "SynSent" /\ z.st = "Listen"
        /\ c.ISS = z.i /\ c.SND_UNA = z.i /\ c.SND_NXT = Plus(z.i, 1)
     \/ z.n = Passive /\ c.State = "Listen" /\ z.st = "SynSent" /\ Off(c)

LEMMA FirstKept ==
  ASSUME NEW z, Scene(z), NEW c, Typed(z.n, c), First(z, c)
  PROVE  Mine(z, c, <<>>)
<1>1. c.State \in {"SynSent", "Listen"} /\ Active # Passive
  BY TcpAssumption DEF First
<1>2. SenderKept(z, c)
  <2>1. OpeningKept(z, c)
    BY FlattenEmpty, EmptyRun DEF OpeningKept, First
  <2>2. OpenedKept(z, c)
    BY DEF OpenedKept, First
  <2>3. FlowingKept(z, c) /\ EndingKept(z, c) /\ SendingKept(z, c) /\ PeerKept(z, c)
    BY <1>1 DEF FlowingKept, EndingKept, SendingKept, PeerKept, Flowing, Ending, Sending
  <2>4. FramesKept(z, c)
    BY EvenZero DEF FramesKept, First
  <2> QED
    BY <2>1, <2>2, <2>3, <2>4 DEF SenderKept
<1>3. TimersKept(z, c)
  BY <1>1 DEF TimersKept, First, Sending
<1>4. ReceiverKept(z, c, <<>>)
  <2>1. <<>> \o FlattenSeq(c.RxQueue) = <<>>
    BY FlattenEmpty DEF First
  <2>2. <<>> = Run(0, Len(<<>>)) /\ Len(<<>>) <= z.v
    BY EmptyRun DEF Scene
  <2>3. c.State \notin Synchronized
    BY <1>1 DEF Synchronized
  <2> QED
    BY <2>1, <2>2, <2>3 DEF ReceiverKept, ArrivedKept
<1>5. HandshakeKept(z, c)
  BY DEF HandshakeKept, First, Early
<1>6. <<>> \in Seq(Stream(Peer(z.n))) /\ RequestKept(c)
  BY DEF RequestKept, First
<1> QED
  BY <1>2, <1>3, <1>4, <1>5, <1>6 DEF Mine, Almost

LEMMA InitKept ==
  ASSUME Init, Sizes
  PROVE  Kept
<1> DEFINE a(i) == ActiveOpen(NewConnection(Active), i)
<1>1. PICK isn \in ISNs[Active] :
       /\ tcb = [n \in Ends |-> IF n = Active THEN [a(isn) EXCEPT !.out = {}] ELSE NewConnection(n)]
       /\ net = [n \in Ends |-> IF n = Active THEN a(isn).out ELSE {}]
  BY DEF Init
<1>2. /\ Active \in Ends /\ Passive \in Ends /\ Active # Passive
      /\ Peer(Active) = Passive /\ Peer(Passive) = Active
      /\ \A n \in Ends : n = Active \/ n = Passive
  BY TcpAssumption DEF Ends, Peer
<1> DEFINE c == tcb[Active]
           d == tcb[Passive]
           s == Segment({"SYN"}, isn, 0, <<>>)
<1>3. /\ c.rtq = EmptyQueue /\ c.TxQueue = <<>> /\ c.RxQueue = <<>>
      /\ ~c.bRetransmit /\ ~c.bSendSYN /\ ~c.bFINQueued /\ ~c.panic /\ c.StateAfterFIN = "Closed"
      /\ c.State = "SynSent" /\ c.ISS = isn /\ c.SND_UNA = isn /\ c.SND_NXT = Plus(isn, 1)
      /\ net[Active] = {s}
  BY <1>1, <1>2 DEF ActiveOpen, NewConnection, StartTimer, SendSegment
<1>4. /\ d.rtq = EmptyQueue /\ d.TxQueue = <<>> /\ d.RxQueue = <<>>
      /\ ~d.bRetransmit /\ ~d.bSendSYN /\ ~d.bFINQueued /\ ~d.panic /\ d.StateAfterFIN = "Closed"
      /\ d.State = "Listen" /\ Off(d) /\ net[Passive] = {}
  BY <1>1, <1>2 DEF NewConnection, Off
<1>5. TypeInv
  BY InitTyped
<1>6. /\ View(Active).n = Active /\ View(Active).i = isn /\ View(Active).st = "Listen"
      /\ View(Active).w = 0 /\ Scene(View(Active)) /\ Typed(Active, c)
      /\ View(Passive).n = Passive /\ View(Passive).st = "SynSent"
      /\ View(Passive).w = 0 /\ Scene(View(Passive)) /\ Typed(Passive, d)
      /\ got[Active] = <<>> /\ got[Passive] = <<>>
  <2>1. Scene(View(Active)) /\ Scene(View(Passive)) /\ Typed(Active, c) /\ Typed(Passive, d)
    BY <1>2, <1>5, ViewTyped DEF TypeInv, TcbTyped
  <2>2. wrote[Active] = 0 /\ wrote[Passive] = 0 /\ got[Active] = <<>> /\ got[Passive] = <<>>
    BY <1>2 DEF Init
  <2>3. Iss(Active) = isn
    BY <1>3 DEF Iss
  <2> QED
    BY <1>2, <1>3, <1>4, <2>1, <2>2, <2>3, ViewHas
<1> DEFINE y == View(Active)
           z == View(Passive)
<1>7. First(y, c) /\ First(z, d)
  BY <1>3, <1>4, <1>6 DEF First
<1>8. Out(y, c, {s}) /\ Out(z, d, {})
  <2>1. s.flags = {"SYN"} /\ s.seq = isn /\ s.data = <<>>
    BY SegmentHas
  <2> HIDE DEF s
  <2>2. DataKept(y, c, s) /\ FinKept(y, c, s) /\ SynKept(y, s) /\ AckKept(y, c, s)
    BY <1>6, <2>1 DEF DataKept, FinKept, SynKept, AckKept, Acks
  <2> QED
    BY <2>2 DEF Out
<1>9. Mine(y, c, got[Active]) /\ Mine(z, d, got[Passive])
  BY <1>6, <1>7, FirstKept
<1> QED
  BY <1>2, <1>3, <1>4, <1>8, <1>9 DEF Kept

LEMMA NextKept ==
  ASSUME TypeInv, Sizes, Kept, [Next]_vars
  PROVE  Kept'
<1>1. CASE UNCHANGED vars
  <2>1. UNCHANGED <<tcb, wrote, got>> /\ \A m \in Ends : net'[m] \subseteq net[m]
    BY <1>1 DEF vars, user
  <2> QED
    BY <2>1, StillKept
<1>2. ASSUME NEW n \in Ends, Lose(n) PROVE Kept'
  BY <1>2, LoseKept
<1>3. ASSUME NEW n \in Ends, NetTask(n) PROVE Kept'
  <2>1. CASE Deliver(n)
    BY <2>1, RefuseKept, ListenSYNKept, SynSentKept, SynchronizedKept DEF Deliver
  <2>2. CASE NotificationReceived(n)
    BY <2>2, NotificationKept
  <2>3. CASE EndPass(n)
    BY <2>3, EndPassKept
  <2> QED
    BY <1>3, <2>1, <2>2, <2>3 DEF NetTask
<1>4. ASSUME NEW n \in Ends, Interrupt(n) PROVE Kept'
  BY <1>4, RetransmissionKept, TimeWaitKept DEF Interrupt
<1>5. ASSUME NEW n \in Ends, UserTask(n) PROVE Kept'
  BY <1>5, CallFailsKept, AcceptKept, SendKept, ReceiveKept, CloseKept, WakesKept DEF UserTask
<1> QED
  BY <1>1, <1>2, <1>3, <1>4, <1>5 DEF Next

\* The bytes before a number of n, counted from its initial number.
LEMMA BytesBefore ==
  ASSUME NEW i \in Numbers, NEW x \in Numbers, 1 <= Diff(x, i)
  PROVE  Diff(x, Plus(i, 1)) = Diff(x, i) - 1
<1>1. Half \in Nat /\ Half >= 2 /\ NumMod = 2 * Half
  BY ConstantsAre
<1>2. 1 \in Numbers
  BY <1>1 DEF Numbers
<1> DEFINE y == Plus(i, 1)
           d == Diff(x, i)
           e == Diff(x, y)
<1>3. /\ y = (IF i + 1 < NumMod THEN i + 1 ELSE i + 1 - NumMod) /\ y \in Numbers
      /\ d = (IF i <= x THEN x - i ELSE x - i + NumMod) /\ 1 <= d
  BY <1>2, PlusIs, DiffIs
<1>4. e = IF y <= x THEN x - y ELSE x - y + NumMod
  BY <1>3, DiffIs
<1>5. i \in Int /\ x \in Int /\ 0 <= i /\ i < NumMod /\ 0 <= x /\ x < NumMod /\ NumMod \in Int
  BY <1>1 DEF Numbers
<1> HIDE DEF y, d, e
<1>6. e = d - 1
  BY ONLY <1>3, <1>4, <1>5
<1> QED
  BY <1>6 DEF y, d, e

-----------------------------------------------------------------------------
(* What an end has and what its peer has                                   *)

LEMMA HereAlmost ==
  ASSUME TypeInv, Sizes, Kept, NEW n \in Ends
  PROVE  /\ Scene(View(n)) /\ Almost(View(n), tcb[n], got[n]) /\ Typed(n, tcb[n])
         /\ Out(View(n), tcb[n], net[n])
BY HereIs DEF Here, Sound, Kept

LEMMA ReceivedType ==
  ASSUME NEW n \in Ends, Typed(n, tcb[n]), got[n] \in Seq(Stream(Peer(n)))
  PROVE  Len(Received(n)) \in Nat
<1> DEFINE T == Stream(Peer(n))
           F == FlattenSeq(tcb[n].RxQueue)
           R == got[n] \o F
<1>1. F \in Seq(T) /\ got[n] \in Seq(T)
  BY MembersAre, FlattenType
<1> HIDE DEF F, T
<1>2. R \in Seq(T)
  BY ONLY <1>1
<1> HIDE DEF R
<1>3. Len(R) \in Nat
  BY ONLY <1>2
<1> QED
  BY <1>3 DEF Received, R, F

LEMMA KeptStream ==
  ASSUME TypeInv, Sizes, Kept
  PROVE  StreamPrefix
<1> SUFFICES ASSUME NEW n \in Ends
             PROVE  /\ Len(Received(n)) <= wrote[Peer(n)]
                    /\ Received(n) = [i \in 1 .. Len(Received(n)) |-> i]
  BY DEF StreamPrefix
<1> DEFINE R == Received(n)
<1>1. ArrivedKept(View(n), tcb[n], R) /\ View(n).v = wrote[Peer(n)]
  BY HereAlmost, ViewHas DEF Almost, ReceiverKept, Received
<1>2. R = Run(0, Len(R)) /\ Len(R) <= wrote[Peer(n)]
  BY <1>1 DEF ArrivedKept
<1>3. Len(R) \in Nat
  <2>1. got[n] \in Seq(Stream(Peer(n))) /\ Typed(n, tcb[n])
    BY DEF TypeInv, UserTyped, TcbTyped
  <2> QED
    BY <2>1, ReceivedType
<1> HIDE DEF R
<1>4. R = [i \in 1 .. Len(R) |-> i]
  BY <1>2, <1>3 DEF Run
<1> QED
  BY <1>2, <1>4 DEF R

LEMMA KeptSegments ==
  ASSUME TypeInv, Sizes, Kept
  PROVE  SegmentsTrue
<1> SUFFICES ASSUME NEW n \in Ends, NEW s \in net[n]
             PROVE  s.data = [i \in 1 .. Len(s.data) |-> Before(n, s.seq) + i]
  BY DEF SegmentsTrue
<1> DEFINE c == tcb[n]
           z == View(n)
           b == Diff(s.seq, z.i) - 1
<1>1. Scene(z) /\ DataKept(z, c, s) /\ s.seq \in Numbers
  <2>1. s \in Segments(n)
    BY DEF TypeInv, NetTyped
  <2> QED
    BY <2>1, HereAlmost, SegmentIs DEF Out
<1>2. CASE s.data = <<>>
  BY <1>2
<1>3. CASE s.data # <<>>
  <2>1. c.ISS = z.i /\ b \in Int /\ 0 <= b /\ s.data = Run(b, Len(s.data))
    <3>1. c.ISS = z.i /\ Bytes(s.data, b, z.w)
      BY <1>1, <1>3 DEF DataKept
    <3>2. Diff(s.seq, z.i) \in Int
      BY <1>1, DiffNat DEF Scene
    <3> QED
      BY <3>1, <3>2 DEF Bytes
  <2>2. Before(n, s.seq) = b
    <3>1. z.i \in Numbers /\ 1 <= Diff(s.seq, z.i)
      <4>1. Diff(s.seq, z.i) \in Int /\ z.i \in Numbers
        BY <1>1, DiffNat DEF Scene
      <4> QED
        BY <2>1, <4>1
    <3> HIDE DEF z
    <3>2. Diff(s.seq, Plus(z.i, 1)) = b
      BY <1>1, <3>1, BytesBefore
    <3> QED
      BY <2>1, <3>2 DEF Before
  <2> QED
    BY <2>1, <2>2 DEF Run
<1> QED
  BY <1>2, <1>3

LEMMA KeptQueue ==
  ASSUME TypeInv, Sizes, Kept
  PROVE  QueueAligned
<1> SUFFICES ASSUME NEW n \in Ends, tcb[n].State \in Flowing
             PROVE  /\ tcb[n].rtq.data = [i \in 1 .. Len(tcb[n].rtq.data)
                                            |-> Before(n, tcb[n].SND_UNA) + i]
                    /\ tcb[n].rtq.pre = Diff(tcb[n].SND_NXT, tcb[n].SND_UNA)
                    /\ tcb[n].rtq.over = 0
  BY DEF QueueAligned, Flowing
<1> DEFINE c == tcb[n]
           z == View(n)
           b == Diff(c.SND_UNA, z.i) - 1
           l == Len(c.rtq.data)
<1>1. Scene(z) /\ Almost(z, c, got[n]) /\ c.SND_UNA \in Numbers
  BY HereAlmost, MembersAre
<1>2. /\ b \in Nat /\ c.rtq.data = Run(b, l) /\ c.rtq.over = 0 /\ c.ISS = z.i
      /\ Diff(c.SND_NXT, c.SND_UNA) = c.rtq.pre
  BY <1>1, FlowingIs DEF Position
<1>3. Before(n, c.SND_UNA) = b
  <2>1. z.i \in Numbers /\ Diff(c.SND_UNA, z.i) \in Int
    BY <1>1, DiffNat DEF Scene
  <2>2. 1 <= Diff(c.SND_UNA, z.i)
    BY <1>2, <2>1
  <2> HIDE DEF z
  <2>3. Diff(c.SND_UNA, Plus(z.i, 1)) = b
    BY <1>1, <2>1, <2>2, BytesBefore
  <2> QED
    BY <1>2, <2>3 DEF Before
<1> QED
  BY <1>2, <1>3 DEF Run

LEMMA KeptAcked ==
  ASSUME TypeInv, Sizes, Kept
  PROVE  AckedArrived
<1> SUFFICES ASSUME NEW n \in Ends, tcb[n].State \in Synchronized \ {"SynReceived"}
             PROVE  Diff(tcb[n].SND_UNA, tcb[n].ISS) <= Diff(tcb[Peer(n)].RCV_NXT, tcb[n].ISS)
  BY DEF AckedArrived
<1> DEFINE c == tcb[n]
           z == View(n)
<1>1. SenderKept(z, c) /\ z.i = Iss(n) /\ z.r = Diff(tcb[Peer(n)].RCV_NXT, Iss(n))
  BY HereAlmost, ViewHas DEF Almost
<1>2. c.State \in Flowing \cup Ending
  BY DEF Synchronized, States, Flowing, Ending
<1>3. c.ISS = z.i /\ Diff(c.SND_UNA, z.i) <= z.r
  BY <1>1, <1>2 DEF SenderKept, FlowingKept, EndingKept, PeerKept
<1> QED
  BY <1>1, <1>3

LEMMA KeptFIN ==
  ASSUME TypeInv, Sizes, Kept
  PROVE  FINLast
<1> SUFFICES ASSUME NEW n \in Ends, tcb[n].State \in AfterFIN
             PROVE  Len(Received(n)) = wrote[Peer(n)]
  BY DEF FINLast, AfterFIN
<1>1. ArrivedKept(View(n), tcb[n], Received(n)) /\ View(n).v = wrote[Peer(n)]
  BY HereAlmost, ViewHas DEF Almost, ReceiverKept, Received
<1>2. tcb[n].State \in Synchronized
  BY DEF AfterFIN, Synchronized, States
<1> QED
  BY <1>1, <1>2 DEF ArrivedKept, InStep

LEMMA KeptExpected ==
  ASSUME TypeInv, Sizes, Kept
  PROVE  UnexpectedOnlyClosed
BY HereAlmost DEF UnexpectedOnlyClosed, Almost, TimersKept

\* The invariant of the theorems below.
LEMMA KeptAlways ==
  ASSUME Sizes
  PROVE  Spec => [](TypeInv /\ Kept)
<1>1. Init => TypeInv /\ Kept
  BY InitTyped, InitKept
<1>2. TypeInv /\ Kept /\ [Next]_vars => TypeInv' /\ Kept'
  BY NextTyped, NextKept
<1> QED
  BY <1>1, <1>2, PTL DEF Spec

-----------------------------------------------------------------------------
(* What users, segments and queues can rely on                             *)

\* The user of one end reads a prefix of what the user of the other has written,
\* in order, nothing missing, repeated or changed, however segments are lost,
\* repeated and delayed and whatever the timers and the users do in between.
THEOREM StreamArrives ==
  ASSUME Sizes
  PROVE  Spec => []StreamPrefix
<1>1. Spec => [](TypeInv /\ Kept)
  BY KeptAlways
<1>2. TypeInv /\ Kept => StreamPrefix
  BY KeptStream
<1> QED
  BY <1>1, <1>2, PTL

\* Every segment on its way carries the bytes that belong to its number, however
\* often it has been sent.
THEOREM SegmentsCarry ==
  ASSUME Sizes
  PROVE  Spec => []SegmentsTrue
<1>1. Spec => [](TypeInv /\ Kept)
  BY KeptAlways
<1>2. TypeInv /\ Kept => SegmentsTrue
  BY KeptSegments
<1> QED
  BY <1>1, <1>2, PTL

\* While data flow the retransmission queue holds the bytes from SND_UNA on, has
\* been sent up to SND_NXT, and is never advanced beyond what it holds.
THEOREM QueueAgrees ==
  ASSUME Sizes
  PROVE  Spec => []QueueAligned
<1>1. Spec => [](TypeInv /\ Kept)
  BY KeptAlways
<1>2. TypeInv /\ Kept => QueueAligned
  BY KeptQueue
<1> QED
  BY <1>1, <1>2, PTL

\* What an end takes as acknowledged its peer has received: a byte is dropped from
\* the queue only when it is not needed any more.
THEOREM AckedHasArrived ==
  ASSUME Sizes
  PROVE  Spec => []AckedArrived
<1>1. Spec => [](TypeInv /\ Kept)
  BY KeptAlways
<1>2. TypeInv /\ Kept => AckedArrived
  BY KeptAcked
<1> QED
  BY <1>1, <1>2, PTL

\* An end that has taken the FIN has all that was written: no FIN overtakes data,
\* and none is taken as long as data are missing.
THEOREM FINComesLast ==
  ASSUME Sizes
  PROVE  Spec => []FINLast
<1>1. Spec => [](TypeInv /\ Kept)
  BY KeptAlways
<1>2. TypeInv /\ Kept => FINLast
  BY KeptFIN
<1> QED
  BY <1>1, <1>2, PTL

\* No assertion of a handler fails, and the retransmission timer finds no state it
\* does not expect but that of a closed connection.
THEOREM StatesExpected ==
  ASSUME Sizes
  PROVE  Spec => []UnexpectedOnlyClosed
<1>1. Spec => [](TypeInv /\ Kept)
  BY KeptAlways
<1>2. TypeInv /\ Kept => UnexpectedOnlyClosed
  BY KeptExpected
<1> QED
  BY <1>1, <1>2, PTL
=============================================================================
