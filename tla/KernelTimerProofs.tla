------------------------- MODULE KernelTimerProofs -------------------------
(***************************************************************************)
(* Proofs about KernelTimer, for any users, delays, addresses and width of *)
(* the tick counter.  That memory is accounted for is proved for any       *)
(* number of cores; the rest, and that the timers implement TimerService,  *)
(* for users of core 0, since it is false with a user on another core.     *)
(***************************************************************************)
EXTENDS KernelTimer, SequenceTheorems, WellFoundedInduction, TLAPS

-----------------------------------------------------------------------------
(* The inductive invariant.                                                 *)

Basic ==
  /\ list \in Seq(Addrs)
  /\ owner \in [Addrs -> Users \cup {Null}]
  /\ hTimer \in [Users -> Addrs \cup {Null}]
  /\ pc \in [Users -> {"idle", "insert", "store"}]
  /\ made \in [Users -> Addrs \cup {Null}]
  /\ poll \in {"idle", "first", "next", "taken", "handler"}
  /\ pElement \in Addrs \cup {Null}
  /\ pTimer \in Addrs \cup {Null}

\* A timer which is to be inserted is live and nobody else's, ...
Inserting(u) ==
  /\ made[u] \in Addrs /\ owner[made[u]] = u
  /\ ~Contains(list, made[u]) /\ made[u] # pTimer

\* ... and the interrupt has hold of a live one from Take to the return of the handler.
Keeping ==
  IF poll \in {"taken", "handler"}
  THEN pTimer \in Addrs /\ owner[pTimer] # Null
  ELSE pTimer = Null

Memory ==
  /\ Basic
  /\ \A u \in Users : pc[u] = "insert" => Inserting(u)
  /\ Keeping
  /\ Accounted

-----------------------------------------------------------------------------
(* What holds in addition without a user on another core.                   *)

OneCore == Remote = {}

Counters ==
  /\ m_nTicks \in 0 .. TickMod - 1
  /\ elapsesAt \in [Addrs -> 0 .. TickMod - 1]
  /\ due \in [Addrs -> -1 .. Half - 2]
  /\ fresh \subseteq Addrs
  /\ halt = FALSE

\* What the counter of a timer says about the time that is left to it.
Congruent(a) == elapsesAt[a] - m_nTicks - due[a] \in {0, TickMod, -TickMod}

Sorted == \A i, j \in DOMAIN list : i < j => due[list[i]] <= due[list[j]]

\* The interrupt has done with a timer that has time left or was inserted in the meantime.
Done(a) == due[a] > 0 \/ a \in fresh
DoneNext(a) == due'[a] > 0 \/ a \in fresh'

\* What pElement is to the timers that the interrupt has passed.
Passed ==
  /\ poll = "idle" => \A i \in DOMAIN list : Done(list[i])
  /\ poll \in {"next", "taken", "handler"} =>
       \/ pElement = Null /\ \A i \in DOMAIN list : Done(list[i])
       \/ \E i \in DOMAIN list :
            pElement = list[i] /\ \A k \in 1 .. i - 1 : Done(list[k])

\* The timer that u is about to start: a call which the interrupt has hit waits
\* until it ends, and the timer has not elapsed by then.
InCall(u) ==
  /\ hTimer[u] = Null
  /\ made[u] \in Addrs /\ owner[made[u]] = u /\ due[made[u]] >= 0
  /\ pc[u] = "store" => Contains(list, made[u])
  /\ poll # "idle" => due[made[u]] >= 1 \/ (poll = "handler" /\ owner[pTimer] = u)

\* A listed timer is known to its owner, and the taken one still is.
Known ==
  /\ \A i \in DOMAIN list : LET u == owner[list[i]]
       IN hTimer[u] = list[i] \/ (pc[u] = "store" /\ made[u] = list[i])
  /\ poll = "taken" => hTimer[owner[pTimer]] = pTimer /\ due[pTimer] <= 0

Times == \A a \in Addrs : IF owner[a] = Null THEN due[a] = 0 ELSE Congruent(a)

TimerInv ==
  /\ Memory
  /\ Counters
  /\ Times
  /\ Sorted
  /\ \A a \in fresh : due[a] >= 0
  /\ Passed
  /\ \A u \in Users : pc[u] # "idle" => InCall(u)
  /\ Known
  /\ HandleExact

-----------------------------------------------------------------------------
(* Sequences without an element, and with one more.                         *)

LEMMA Inserted ==
  ASSUME NEW s \in Seq(Addrs), NEW p \in 1 .. Len(s) + 1, NEW a \in Addrs
  PROVE  /\ InsertAt(s, p, a) \in Seq(Addrs)
         /\ Len(InsertAt(s, p, a)) = Len(s) + 1
         /\ \A i \in 1 .. Len(s) + 1 : InsertAt(s, p, a)[i] =
              IF i < p THEN s[i] ELSE IF i = p THEN a ELSE s[i - 1]
<1> DEFINE l == SubSeq(s, 1, p - 1)
           r == SubSeq(s, p, Len(s))
<1>1. /\ l \in Seq(Addrs) /\ Len(l) = p - 1
      /\ \A i \in 1 .. p - 1 : l[i] = s[i]
  OBVIOUS
<1>2. /\ r \in Seq(Addrs) /\ Len(r) = Len(s) - p + 1
      /\ \A i \in 1 .. Len(s) - p + 1 : r[i] = s[p + i - 1]
  OBVIOUS
<1> HIDE DEF l, r
<1>3. /\ (l \o <<a>>) \in Seq(Addrs) /\ Len(l \o <<a>>) = p
      /\ \A i \in 1 .. p : (l \o <<a>>)[i] = IF i < p THEN s[i] ELSE a
  BY <1>1
<1>4. InsertAt(s, p, a) = (l \o <<a>>) \o r
  BY DEF InsertAt, l, r
<1> DEFINE m == l \o <<a>>
<1> HIDE DEF m
<1>5. m \in Seq(Addrs) /\ Len(m) = p /\ \A i \in 1 .. p : m[i] = IF i < p THEN s[i] ELSE a
  BY <1>3 DEF m
<1>6. /\ (m \o r) \in Seq(Addrs) /\ Len(m \o r) = Len(s) + 1
      /\ \A i \in 1 .. Len(s) + 1 : (m \o r)[i] = IF i <= p THEN m[i] ELSE r[i - p]
  <2>1. /\ (m \o r) \in Seq(Addrs) /\ Len(m \o r) = Len(m) + Len(r)
        /\ \A i \in 1 .. Len(m) + Len(r) :
             (m \o r)[i] = IF i <= Len(m) THEN m[i] ELSE r[i - Len(m)]
    BY <1>2, <1>5, ConcatProperties
  <2>2. Len(m) = p /\ Len(m) + Len(r) = Len(s) + 1
    BY <1>2, <1>5
  <2> QED
    BY <2>1, <2>2
<1> DEFINE t == m \o r
<1>7. t = m \o r
  OBVIOUS
<1> HIDE DEF t
<1>8. ASSUME NEW i \in 1 .. Len(s) + 1
      PROVE  t[i] = IF i < p THEN s[i] ELSE IF i = p THEN a ELSE s[i - 1]
  <2>0. i \in Int /\ p \in Int
    OBVIOUS
  <2>1. CASE i <= p
    BY <1>5, <1>6, <1>7, <2>1
  <2>2. CASE i > p
    <3>1. i - p \in 1 .. Len(s) - p + 1 /\ p + (i - p) - 1 = i - 1
      BY <2>2
    <3> QED
      BY <1>2, <1>6, <1>7, <2>2, <3>1
  <2> QED
    BY <2>0, <2>1, <2>2
<1> QED
  BY <1>4, <1>6, <1>7, <1>8 DEF m

LEMMA Removed ==
  ASSUME NEW s \in Seq(Addrs), NEW p \in 1 .. Len(s)
  PROVE  /\ RemoveAt(s, p) \in Seq(Addrs)
         /\ Len(RemoveAt(s, p)) = Len(s) - 1
         /\ \A i \in 1 .. Len(s) - 1 : RemoveAt(s, p)[i] = IF i < p THEN s[i] ELSE s[i + 1]
<1> DEFINE l == SubSeq(s, 1, p - 1)
           r == SubSeq(s, p + 1, Len(s))
<1>1. /\ l \in Seq(Addrs) /\ Len(l) = p - 1
      /\ \A i \in 1 .. p - 1 : l[i] = s[i]
  OBVIOUS
<1>2. /\ r \in Seq(Addrs) /\ Len(r) = Len(s) - p
      /\ \A i \in 1 .. Len(s) - p : r[i] = s[p + i]
  OBVIOUS
<1>3. RemoveAt(s, p) = l \o r
  BY DEF RemoveAt
<1> HIDE DEF l, r
<1>4. /\ (l \o r) \in Seq(Addrs) /\ Len(l \o r) = Len(s) - 1
      /\ \A i \in 1 .. Len(s) - 1 : (l \o r)[i] = IF i <= p - 1 THEN l[i] ELSE r[i - (p - 1)]
  <2>1. /\ (l \o r) \in Seq(Addrs) /\ Len(l \o r) = Len(l) + Len(r)
        /\ \A i \in 1 .. Len(l) + Len(r) :
             (l \o r)[i] = IF i <= Len(l) THEN l[i] ELSE r[i - Len(l)]
    BY <1>1, <1>2, ConcatProperties
  <2>2. Len(l) = p - 1 /\ Len(l) + Len(r) = Len(s) - 1
    BY <1>1, <1>2
  <2> QED
    BY <2>1, <2>2
<1> DEFINE t == l \o r
<1>5. t = l \o r
  OBVIOUS
<1> HIDE DEF t
<1>6. ASSUME NEW i \in 1 .. Len(s) - 1
      PROVE  t[i] = IF i < p THEN s[i] ELSE s[i + 1]
  <2>0. i \in Int /\ p \in Int
    OBVIOUS
  <2>1. CASE i < p
    BY <1>1, <1>4, <1>5, <2>1
  <2>2. CASE i >= p
    <3>1. i - (p - 1) \in 1 .. Len(s) - p /\ p + (i - (p - 1)) = i + 1
      BY <2>2
    <3> QED
      BY <1>2, <1>4, <1>5, <2>2, <3>1
  <2> QED
    BY <2>0, <2>1, <2>2
<1> QED
  BY <1>3, <1>4, <1>5, <1>6

\* There is a place for a new timer: before the first one that elapses after it, or at the end.
LEMMA PositionFound ==
  ASSUME Basic, NEW a \in Addrs
  PROVE  /\ Position(a) \in 1 .. Len(list) + 1
         /\ \A i \in 1 .. Position(a) - 1 : ~ElapsesAfter(list[i], a)
         /\ Position(a) <= Len(list) => ElapsesAfter(list[Position(a)], a)
<1> DEFINE T == {i \in Nat : i \in 1 .. Len(list) /\ ElapsesAfter(list[i], a)}
           Good(p) == /\ \A i \in 1 .. p - 1 : ~ElapsesAfter(list[i], a)
                      /\ p <= Len(list) => ElapsesAfter(list[p], a)
<1>1. Len(list) \in Nat
  BY DEF Basic
<1>2. \E p \in 1 .. Len(list) + 1 : Good(p)
  <2>1. CASE T = {}
    <3>1. \A i \in 1 .. Len(list) : i \in Nat
      BY <1>1
    <3>2. Good(Len(list) + 1)
      BY <1>1, <2>1, <3>1
    <3> QED
      BY <1>1, <3>2
  <2>2. CASE T # {}
    <3>1. PICK p \in T : \A i \in T : ~(<<i, p>> \in OpToRel(<, Nat))
      BY <2>2, WFMin, NatLessThanWellFounded
    <3>2. \A i \in T : ~(i < p)
      BY <3>1 DEF OpToRel
    <3>3. p \in 1 .. Len(list) + 1 /\ ElapsesAfter(list[p], a)
      BY <1>1
    <3>4. ASSUME NEW i \in 1 .. p - 1 PROVE ~ElapsesAfter(list[i], a)
      BY <1>1, <3>2, <3>3, <3>4
    <3> QED
      BY <3>3, <3>4
  <2> QED
    BY <2>1, <2>2
<1>3. Position(a) = CHOOSE p \in 1 .. Len(list) + 1 : Good(p)
  BY DEF Position
<1> HIDE DEF Good
<1>4. Position(a) \in 1 .. Len(list) + 1 /\ Good(Position(a))
  BY <1>2, <1>3
<1> QED
  BY <1>4 DEF Good

\* A timer that is listed is at its place.
LEMMA PlaceFound ==
  ASSUME Basic, NEW a, Contains(list, a)
  PROVE  Place(a) \in 1 .. Len(list) /\ list[Place(a)] = a /\ a \in Addrs
<1>1. DOMAIN list = 1 .. Len(list) /\ \E i \in DOMAIN list : list[i] = a
  BY DEF Basic, Contains
<1>2. Place(a) \in DOMAIN list /\ list[Place(a)] = a
  BY <1>1 DEF Place
<1> QED
  BY <1>1, <1>2 DEF Basic

-----------------------------------------------------------------------------
(* The list, by the timers that are in it.                                  *)

Unique == \A i, j \in DOMAIN list : list[i] = list[j] => i = j

Live == \A b : Contains(list, b) => b \in Addrs /\ owner[b] # Null /\ b # pTimer

Held == \A a \in Addrs : owner[a] # Null /\ a # pTimer =>
          Contains(list, a) \/ \E u \in Users : pc[u] = "insert" /\ made[u] = a

LEMMA ByMembers ==
  ASSUME list \in Seq(Addrs)
  PROVE  Accounted <=> Live /\ Unique /\ Held
<1>1. DOMAIN list = 1 .. Len(list) /\ \A i \in 1 .. Len(list) : list[i] \in Addrs
  OBVIOUS
<1> QED
  BY <1>1 DEF Accounted, Live, Unique, Held, Contains

LEMMA ByNextMembers ==
  ASSUME list' \in Seq(Addrs), Live', Unique', Held'
  PROVE  Accounted'
<1>1. DOMAIN list' = 1 .. Len(list') /\ \A i \in 1 .. Len(list') : list'[i] \in Addrs
  OBVIOUS
<1> QED
  BY <1>1 DEF Accounted, Live, Unique, Held, Contains

LEMMA ListInserted ==
  ASSUME Basic, NEW a \in Addrs, ~Contains(list, a), Unique,
         list' = InsertAt(list, Position(a), a)
  PROVE  /\ list' \in Seq(Addrs)
         /\ Unique'
         /\ \A b : Contains(list, b)' <=> Contains(list, b) \/ b = a
         /\ Len(list') = Len(list) + 1
         /\ \A i \in 1 .. Len(list) + 1 : list'[i] =
              IF i < Position(a) THEN list[i] ELSE IF i = Position(a) THEN a ELSE list[i - 1]
<1> DEFINE p == Position(a)
           n == Len(list)
<1>1. list \in Seq(Addrs) /\ n \in Nat /\ DOMAIN list = 1 .. n
  BY DEF Basic
<1>2. p \in 1 .. n + 1
  BY PositionFound
<1>3. /\ list' \in Seq(Addrs) /\ Len(list') = n + 1 /\ DOMAIN list' = 1 .. n + 1
      /\ \A i \in 1 .. n + 1 :
           list'[i] = IF i < p THEN list[i] ELSE IF i = p THEN a ELSE list[i - 1]
  <2> HIDE DEF p
  <2>1. /\ InsertAt(list, p, a) \in Seq(Addrs) /\ Len(InsertAt(list, p, a)) = n + 1
        /\ \A i \in 1 .. n + 1 : InsertAt(list, p, a)[i] =
             IF i < p THEN list[i] ELSE IF i = p THEN a ELSE list[i - 1]
    BY <1>1, <1>2, Inserted, Zenon
  <2>2. list' = InsertAt(list, p, a)
    BY DEF p
  <2>3. /\ list' \in Seq(Addrs) /\ Len(list') = n + 1
        /\ \A i \in 1 .. n + 1 :
             list'[i] = IF i < p THEN list[i] ELSE IF i = p THEN a ELSE list[i - 1]
    BY <2>1, <2>2, Zenon
  <2> QED
    BY <1>1, <2>3
<1> HIDE DEF p, n
<1>4. ASSUME NEW i \in 1 .. n + 1, NEW j \in 1 .. n + 1, list'[i] = list'[j] PROVE i = j
  <2>1. \A k \in 1 .. n : list[k] # a
    BY <1>1 DEF Contains, n
  <2>2. \A k, m \in 1 .. n : list[k] = list[m] => k = m
    BY <1>1 DEF Unique
  <2> QED
    BY <1>1, <1>2, <1>3, <1>4, <2>1, <2>2
<1>5. ASSUME NEW b PROVE Contains(list, b)' <=> Contains(list, b) \/ b = a
  <2>1. ASSUME NEW i \in 1 .. n + 1, list'[i] = b PROVE Contains(list, b) \/ b = a
    BY <1>1, <1>2, <1>3, <2>1 DEF Contains, n
  <2>2. ASSUME NEW i \in 1 .. n, list[i] = b PROVE \E k \in 1 .. n + 1 : list'[k] = b
    <3>1. CASE i < p
      BY <1>1, <1>2, <1>3, <2>2, <3>1
    <3>2. CASE ~(i < p)
      <4>1. i + 1 \in 1 .. n + 1 /\ list'[i + 1] = b
        BY <1>1, <1>2, <1>3, <2>2, <3>2
      <4> QED
        BY <4>1
    <3> QED
      BY <3>1, <3>2
  <2>3. list'[p] = a
    BY <1>1, <1>2, <1>3
  <2> QED
    BY <1>2, <1>3, <2>1, <2>2, <2>3 DEF Contains, n
<1> QED
  BY <1>3, <1>4, <1>5 DEF Unique, p, n

LEMMA ListRemoved ==
  ASSUME Basic, NEW a, Contains(list, a), Unique,
         list' = RemoveAt(list, Place(a))
  PROVE  /\ list' \in Seq(Addrs)
         /\ Unique'
         /\ \A b : Contains(list, b)' <=> Contains(list, b) /\ b # a
         /\ Len(list') = Len(list) - 1
         /\ \A i \in 1 .. Len(list) - 1 :
              list'[i] = IF i < Place(a) THEN list[i] ELSE list[i + 1]
<1> DEFINE p == Place(a)
           n == Len(list)
<1>1. list \in Seq(Addrs) /\ n \in Nat /\ DOMAIN list = 1 .. n
  BY DEF Basic
<1>2. p \in 1 .. n /\ list[p] = a
  BY PlaceFound
<1>3. /\ list' \in Seq(Addrs) /\ Len(list') = n - 1 /\ DOMAIN list' = 1 .. n - 1
      /\ \A i \in 1 .. n - 1 : list'[i] = IF i < p THEN list[i] ELSE list[i + 1]
  <2> HIDE DEF p
  <2>1. /\ RemoveAt(list, p) \in Seq(Addrs) /\ Len(RemoveAt(list, p)) = n - 1
        /\ \A i \in 1 .. n - 1 : RemoveAt(list, p)[i] = IF i < p THEN list[i] ELSE list[i + 1]
    BY <1>1, <1>2, Removed, Zenon
  <2>2. list' = RemoveAt(list, p)
    BY DEF p
  <2>3. /\ list' \in Seq(Addrs) /\ Len(list') = n - 1
        /\ \A i \in 1 .. n - 1 : list'[i] = IF i < p THEN list[i] ELSE list[i + 1]
    BY <2>1, <2>2, Zenon
  <2> QED
    BY <1>1, <1>2, <2>3
<1> HIDE DEF p, n
<1>4. \A k, m \in 1 .. n : list[k] = list[m] => k = m
  BY <1>1 DEF Unique
<1>5. ASSUME NEW i \in 1 .. n - 1, NEW j \in 1 .. n - 1, list'[i] = list'[j] PROVE i = j
  BY <1>1, <1>2, <1>3, <1>4, <1>5
<1>6. ASSUME NEW b PROVE Contains(list, b)' <=> Contains(list, b) /\ b # a
  <2>1. ASSUME NEW i \in 1 .. n - 1, list'[i] = b PROVE Contains(list, b) /\ b # a
    <3>1. CASE i < p
      BY <1>1, <1>2, <1>3, <1>4, <2>1, <3>1 DEF Contains, n
    <3>2. CASE ~(i < p)
      <4>1. i + 1 \in 1 .. n /\ list[i + 1] = b /\ i + 1 # p
        BY <1>1, <1>2, <1>3, <2>1, <3>2
      <4> QED
        BY <1>2, <1>4, <4>1 DEF Contains, n
    <3> QED
      BY <3>1, <3>2
  <2>2. ASSUME NEW i \in 1 .. n, list[i] = b, b # a PROVE \E k \in 1 .. n - 1 : list'[k] = b
    <3>1. CASE i < p
      BY <1>1, <1>2, <1>3, <2>2, <3>1
    <3>2. CASE ~(i < p)
      <4>1. i - 1 \in 1 .. n - 1 /\ list'[i - 1] = b
        BY <1>1, <1>2, <1>3, <2>2, <3>2
      <4> QED
        BY <4>1
    <3> QED
      BY <3>1, <3>2
  <2> QED
    BY <1>3, <2>1, <2>2 DEF Contains, n
<1> QED
  BY <1>3, <1>5, <1>6 DEF Unique, p, n

-----------------------------------------------------------------------------
(* Memory is accounted for, on any number of cores.                         *)

LEMMA MemoryParts == Memory <=>
  Basic /\ (\A u \in Users : pc[u] = "insert" => Inserting(u)) /\ Keeping /\ Live /\ Unique /\ Held
BY ByMembers DEF Memory, Basic

LEMMA MemoryInit == Init => Memory
<1> SUFFICES ASSUME Init PROVE Memory
  OBVIOUS
<1>1. Basic /\ list = <<>>
  BY DEF Init, Basic
<1>2. Len(list) = 0
  BY <1>1
<1> QED
  BY <1>1, <1>2 DEF Init, Memory, Keeping, Accounted

LEMMA StartMemory ==
  ASSUME Memory, NEW u \in Users, StartKernelTimer(u)
  PROVE  Memory'
<1> USE DEF StartKernelTimer, polled
<1>1. Basic /\ Keeping /\ Live /\ Unique /\ Held
  BY MemoryParts
<1>2. PICK a \in Addrs : /\ owner[a] = Null /\ owner' = [owner EXCEPT ![a] = u]
                        /\ made' = [made EXCEPT ![u] = a]
  OBVIOUS
<1>3. ~Contains(list, a) /\ a # pTimer /\ u # Null
  BY <1>1, <1>2, TimerAssumption DEF Live, Keeping
<1>4. Basic'
  BY <1>1, <1>2 DEF Basic
<1>5. ASSUME NEW w \in Users, pc'[w] = "insert" PROVE Inserting(w)'
  <2>1. CASE w = u
    BY <1>1, <1>2, <1>3, <2>1 DEF Inserting, Contains, Basic
  <2>2. CASE w # u
    <3>1. pc[w] = "insert" /\ made'[w] = made[w]
      BY <1>1, <1>2, <1>5, <2>2 DEF Basic
    <3>2. Inserting(w) /\ w # Null
      BY <3>1, TimerAssumption DEF Memory
    <3> QED
      BY <1>1, <1>2, <3>1, <3>2 DEF Inserting, Contains, Basic
  <2> QED
    BY <2>1, <2>2
<1>6. Keeping' /\ Live' /\ Unique'
  BY <1>1, <1>2, <1>3 DEF Keeping, Live, Unique, Contains, Basic
<1>7. ASSUME NEW b \in Addrs, owner'[b] # Null, b # pTimer'
      PROVE  Contains(list, b)' \/ \E w \in Users : pc'[w] = "insert" /\ made'[w] = b
  <2>1. CASE b = a
    BY <1>1, <1>2, <2>1 DEF Basic
  <2>2. CASE b # a
    <3>1. Contains(list, b) \/ \E w \in Users : pc[w] = "insert" /\ made[w] = b
      BY <1>1, <1>2, <1>7, <2>2 DEF Held, Basic
    <3> QED
      BY <1>1, <1>2, <3>1 DEF Contains, Basic
  <2> QED
    BY <2>1, <2>2
<1> QED
  BY <1>4, <1>5, <1>6, <1>7, ByNextMembers DEF Held, Memory, Basic

LEMMA InsertMemory ==
  ASSUME Memory, NEW u \in Users, InsertTimer(u)
  PROVE  Memory'
<1> USE DEF InsertTimer, polled, timer
<1>1. Basic /\ Keeping /\ Live /\ Unique /\ Held /\ Inserting(u)
  BY MemoryParts
<1>2. /\ list' \in Seq(Addrs) /\ Unique'
      /\ \A b : Contains(list, b)' <=> Contains(list, b) \/ b = made[u]
  BY <1>1, ListInserted DEF Inserting
<1>3. Basic'
  BY <1>1, <1>2 DEF Basic
<1>4. ASSUME NEW w \in Users, pc'[w] = "insert" PROVE Inserting(w)'
  <2>1. pc[w] = "insert" /\ w # u
    BY <1>1, <1>4 DEF Basic
  <2>2. Inserting(w)
    BY <2>1 DEF Memory
  <2>3. made[w] # made[u]
    BY <1>1, <2>1, <2>2 DEF Inserting
  <2> QED
    BY <1>2, <2>2, <2>3 DEF Inserting
<1>5. Keeping' /\ Live'
  BY <1>1, <1>2, TimerAssumption DEF Keeping, Live, Inserting
<1>6. Held'
  BY <1>1, <1>2 DEF Held, Basic
<1> QED
  BY <1>2, <1>3, <1>4, <1>5, <1>6, ByNextMembers DEF Memory, Basic

LEMMA UnlinkMemory ==
  ASSUME Memory, NEW a, Contains(list, a), Unlink(a),
         UNCHANGED <<pc, made, poll, pElement, pTimer>>, hTimer' \in [Users -> Addrs \cup {Null}]
  PROVE  Memory'
<1> USE DEF Unlink, Freed
<1>1. Basic /\ Keeping /\ Live /\ Unique /\ Held
  BY MemoryParts
<1>2. /\ list' \in Seq(Addrs) /\ Unique'
      /\ \A b : Contains(list, b)' <=> Contains(list, b) /\ b # a
  BY <1>1, ListRemoved
<1>3. Basic'
  BY <1>1, <1>2 DEF Basic
<1>4. a # pTimer
  BY <1>1 DEF Live
<1>5. ASSUME NEW w \in Users, pc'[w] = "insert" PROVE Inserting(w)'
  <2>1. Inserting(w)
    BY <1>5 DEF Memory
  <2> QED
    BY <1>1, <1>2, <2>1 DEF Inserting, Basic
<1>6. Keeping' /\ Live'
  BY <1>1, <1>2, <1>4 DEF Keeping, Live, Basic
<1>7. Held'
  BY <1>1, <1>2 DEF Held, Basic
<1> QED
  BY <1>2, <1>3, <1>5, <1>6, <1>7, ByNextMembers DEF Memory, Basic

LEMMA TakeMemory ==
  ASSUME Memory, poll \in {"first", "next"}, Contains(list, Element), Take,
         UNCHANGED <<timer, hTimer, start>>
  PROVE  Memory'
<1> USE DEF Take, timer, start
<1>1. Basic /\ Keeping /\ Live /\ Unique /\ Held
  BY MemoryParts
<1>2. /\ list' \in Seq(Addrs) /\ Unique'
      /\ \A b : Contains(list, b)' <=> Contains(list, b) /\ b # Element
  BY <1>1, ListRemoved
<1>3. Element \in Addrs /\ owner[Element] # Null
  BY <1>1 DEF Live
<1>4. Successor(Element) \in Addrs \cup {Null}
  <2>1. list \in Seq(Addrs) /\ Len(list) \in Nat /\ Place(Element) \in 1 .. Len(list)
    BY <1>1, PlaceFound DEF Basic
  <2> QED
    BY <2>1 DEF Successor
<1>5. Basic'
  BY <1>1, <1>2, <1>3, <1>4 DEF Basic
<1>6. pTimer = Null
  BY <1>1 DEF Keeping
<1>7. ASSUME NEW w \in Users, pc'[w] = "insert" PROVE Inserting(w)'
  <2>1. Inserting(w)
    BY <1>7 DEF Memory
  <2> QED
    BY <1>2, <2>1 DEF Inserting
<1>8. Keeping' /\ Live' /\ Held'
  BY <1>1, <1>2, <1>3, <1>6, TimerAssumption DEF Keeping, Live, Held
<1> QED
  BY <1>2, <1>5, <1>7, <1>8, ByNextMembers DEF Memory, Basic

LEMMA ReturnMemory ==
  ASSUME Memory, HandlerReturn
  PROVE  Memory'
<1> USE DEF HandlerReturn, Freed, start
<1>1. Basic /\ Keeping /\ Live /\ Unique /\ Held /\ pTimer \in Addrs
  BY MemoryParts DEF Keeping
<1>2. Basic'
  BY <1>1 DEF Basic
<1>3. ASSUME NEW w \in Users, pc'[w] = "insert" PROVE Inserting(w)'
  <2>1. Inserting(w)
    BY <1>3 DEF Memory
  <2> QED
    BY <1>1, <2>1, TimerAssumption DEF Inserting, Basic, Contains
<1>4. Keeping' /\ Live' /\ Unique' /\ Held'
  BY <1>1, TimerAssumption DEF Keeping, Live, Unique, Held, Basic, Contains
<1> QED
  BY <1>2, <1>3, <1>4, ByNextMembers DEF Memory, Basic

\* The steps that leave the list and the timers alone.
LEMMA OtherMemory ==
  ASSUME Memory, UNCHANGED <<list, owner, pTimer>>, Basic', Keeping',
         \A u \in Users : pc'[u] = "insert" <=> pc[u] = "insert",
         \A u \in Users : pc[u] = "insert" => made'[u] = made[u]
  PROVE  Memory'
<1>1. Basic /\ Live /\ Unique /\ Held
  BY MemoryParts
<1>2. ASSUME NEW w \in Users, pc'[w] = "insert" PROVE Inserting(w)'
  <2>1. Inserting(w)
    BY <1>2 DEF Memory
  <2> QED
    BY <1>2, <2>1 DEF Inserting, Contains
<1>3. Live' /\ Unique' /\ Held'
  BY <1>1 DEF Live, Unique, Held, Contains
<1> QED
  BY <1>2, <1>3, ByNextMembers DEF Memory, Basic

LEMMA MemoryStep == Memory /\ [Next]_vars => Memory'
<1> SUFFICES ASSUME Memory, [Next]_vars PROVE Memory'
  OBVIOUS
<1>1. Basic /\ Keeping
  BY DEF Memory
<1>2. ASSUME NEW u \in Users, StoreHandle(u) PROVE Memory'
  BY <1>1, <1>2, OtherMemory DEF StoreHandle, Basic, Keeping, polled, timer
<1>3. ASSUME NEW u \in Users, CancelKernelTimer(u) PROVE Memory'
  <2>1. hTimer' \in [Users -> Addrs \cup {Null}]
    BY <1>1, <1>3 DEF CancelKernelTimer, Basic
  <2>2. CASE Contains(list, hTimer[u])
    BY <1>3, <2>1, <2>2, UnlinkMemory DEF CancelKernelTimer, start, polled
  <2>3. CASE ~Contains(list, hTimer[u])
    BY <1>1, <1>3, <2>1, <2>3, OtherMemory
       DEF CancelKernelTimer, Basic, Keeping, start, polled, timer
  <2> QED
    BY <2>2, <2>3
<1>4. CASE InterruptHandler
  BY <1>1, <1>4, OtherMemory DEF InterruptHandler, Basic, Keeping
<1>5. CASE PollTake
  <2>1. CASE Contains(list, Element)
    BY <1>5, <2>1, TakeMemory DEF PollTake
  <2>2. CASE ~Contains(list, Element)
    BY <1>1, <1>5, <2>2, OtherMemory DEF PollTake, Basic, Keeping, start, polled, timer
  <2> QED
    BY <2>1, <2>2
<1>6. CASE PollEnd
  BY <1>1, <1>6, OtherMemory DEF PollEnd, Basic, Keeping, start, timer
<1>7. CASE HandlerCall
  <2>1. Basic' /\ Keeping'
    BY <1>1, <1>7 DEF HandlerCall, Basic, Keeping, start, timer
  <2> QED
    BY <1>1, <1>7, <2>1, OtherMemory DEF HandlerCall, start, timer
<1>8. CASE UNCHANGED vars
  BY <1>1, <1>8, OtherMemory DEF vars, Basic, Keeping, start, polled, timer
<1> QED
  BY <1>2, <1>3, <1>4, <1>5, <1>6, <1>7, <1>8, StartMemory, InsertMemory, ReturnMemory
     DEF Next, Starting, Polling

\* On any number of cores every live timer is in exactly one place: listed (once),
\* about to be listed, or in the hands of the interrupt; and what is listed is live.
\* So nothing is leaked, freed twice or linked twice, not even when
\* CancelKernelTimer on another core runs between Take and the end of the handler.
THEOREM MemoryAccounted == Spec => []Accounted
<1>1. Memory => Accounted
  BY DEF Memory
<1> QED
  BY <1>1, MemoryInit, MemoryStep, PTL DEF Spec

-----------------------------------------------------------------------------
(* The comparisons of ticks, which wrap, say what is left to a timer.       *)

LEMMA Ticks == TickMod \in Nat \ {0} /\ Half \in Nat \ {0, 1} /\ TickMod = 2 * Half
BY TimerAssumption DEF Half

LEMMA Wrap ==
  ASSUME NEW x \in Int
  PROVE  /\ 0 <= x /\ x < TickMod => x % TickMod = x
         /\ -TickMod <= x /\ x < 0 => x % TickMod = x + TickMod
         /\ TickMod <= x /\ x < 2 * TickMod => x % TickMod = x - TickMod
BY Ticks

\* What (int) (m_nElapsesAt - m_nTicks) <= 0 decides.
LEMMA ElapsedIff ==
  ASSUME Counters, NEW a \in Addrs, Congruent(a)
  PROVE  Elapsed(a) <=> due[a] <= 0
<1>1. /\ m_nTicks \in Int /\ 0 <= m_nTicks /\ m_nTicks < TickMod
      /\ elapsesAt[a] \in Int /\ 0 <= elapsesAt[a] /\ elapsesAt[a] < TickMod
      /\ due[a] \in Int /\ -1 <= due[a] /\ due[a] <= Half - 2
  BY Ticks DEF Counters
<1> DEFINE x == elapsesAt[a] - m_nTicks
<1>2. x \in Int /\ -TickMod <= x /\ x < TickMod
  BY <1>1, Ticks
<1>3. x % TickMod = IF x < 0 THEN x + TickMod ELSE x
  BY <1>2, Wrap, Ticks
<1>4. x - due[a] \in {0, TickMod, -TickMod}
  BY DEF Congruent
<1> HIDE DEF x
<1>5. x % TickMod \notin 1 .. Half - 1 <=> due[a] <= 0
  BY <1>1, <1>2, <1>3, <1>4, Ticks
<1> QED
  BY <1>5 DEF Elapsed, x

\* What (int) (pTimer2->m_nElapsesAt - nElapsesAt) > 0 decides.
LEMMA AfterIff ==
  ASSUME Counters, NEW a \in Addrs, NEW b \in Addrs, Congruent(a), Congruent(b)
  PROVE  ElapsesAfter(b, a) <=> due[b] > due[a]
<1>1. /\ m_nTicks \in Int
      /\ elapsesAt[a] \in Int /\ 0 <= elapsesAt[a] /\ elapsesAt[a] < TickMod
      /\ elapsesAt[b] \in Int /\ 0 <= elapsesAt[b] /\ elapsesAt[b] < TickMod
      /\ due[a] \in Int /\ -1 <= due[a] /\ due[a] <= Half - 2
      /\ due[b] \in Int /\ -1 <= due[b] /\ due[b] <= Half - 2
  BY Ticks DEF Counters
<1> DEFINE x == elapsesAt[b] - elapsesAt[a]
           d == due[b] - due[a]
<1>2. x \in Int /\ -TickMod < x /\ x < TickMod /\ d \in Int /\ -Half < d /\ d < Half
  BY <1>1, Ticks
<1>3. x % TickMod = IF x < 0 THEN x + TickMod ELSE x
  BY <1>2, Wrap, Ticks
<1>4. x - d \in {0, TickMod, -TickMod, 2 * TickMod, -(2 * TickMod)}
  BY <1>1, Ticks DEF Congruent
<1>5. d > 0 <=> due[b] > due[a]
  BY <1>1
<1> HIDE DEF x, d
<1>6. x % TickMod \in 1 .. Half - 1 <=> d > 0
  BY <1>2, <1>3, <1>4, Ticks
<1> QED
  BY <1>5, <1>6 DEF ElapsesAfter, x

LEMMA StartedCongruent ==
  ASSUME NEW t \in 0 .. TickMod - 1, NEW n \in Nat, n <= Half - 2
  PROVE  /\ (t + n) % TickMod \in 0 .. TickMod - 1
         /\ ((t + n) % TickMod) - t - n \in {0, TickMod, -TickMod}
<1>1. t + n \in Int /\ 0 <= t + n /\ t + n < 2 * TickMod
  BY Ticks
<1>2. (t + n) % TickMod = IF t + n < TickMod THEN t + n ELSE t + n - TickMod
  BY <1>1, Wrap, Ticks
<1> QED
  BY <1>1, <1>2, Ticks

LEMMA TickedCongruent ==
  ASSUME NEW t \in 0 .. TickMod - 1, NEW e \in 0 .. TickMod - 1, NEW d \in 0 .. Half - 2,
         e - t - d \in {0, TickMod, -TickMod}
  PROVE  /\ (t + 1) % TickMod \in 0 .. TickMod - 1
         /\ e - ((t + 1) % TickMod) - (d - 1) \in {0, TickMod, -TickMod}
<1>1. t + 1 \in Int /\ 0 <= t + 1 /\ t + 1 < 2 * TickMod
  BY Ticks
<1>2. (t + 1) % TickMod = IF t + 1 < TickMod THEN t + 1 ELSE t + 1 - TickMod
  BY <1>1, Wrap, Ticks
<1> QED
  BY <1>1, <1>2, Ticks

-----------------------------------------------------------------------------
(* The invariant without a user on another core, action by action.          *)

LEMMA TimerInit == Init => TimerInv
<1> SUFFICES ASSUME Init PROVE TimerInv
  OBVIOUS
<1>1. Memory /\ list = <<>> /\ Len(list) = 0 /\ DOMAIN list = {}
  BY MemoryInit DEF Init
<1>2. Counters
  BY Ticks DEF Init, Counters
<1> QED
  BY <1>1, <1>2 DEF Init, TimerInv, Times, Sorted, Passed, Known, HandleExact, Contains

\* What the invariant says of a timer that is listed.
LEMMA ListedFacts ==
  ASSUME TimerInv
  PROVE  /\ list \in Seq(Addrs) /\ Len(list) \in Nat /\ DOMAIN list = 1 .. Len(list)
         /\ Basic /\ Keeping /\ Live /\ Unique /\ Held /\ Null \notin Addrs /\ Null \notin Users
         /\ \A a \in Addrs : due[a] \in Int /\ -1 <= due[a] /\ due[a] <= Half - 2
         /\ \A i \in 1 .. Len(list) :
              /\ list[i] \in Addrs /\ Contains(list, list[i])
              /\ owner[list[i]] \in Users /\ list[i] # pTimer
              /\ Congruent(list[i])
<1>1. Basic /\ Keeping /\ Live /\ Unique /\ Held
  BY MemoryParts DEF TimerInv
<1>2. list \in Seq(Addrs) /\ Len(list) \in Nat /\ DOMAIN list = 1 .. Len(list)
  BY <1>1 DEF Basic
<1>3. ASSUME NEW a \in Addrs PROVE due[a] \in Int /\ -1 <= due[a] /\ due[a] <= Half - 2
  BY Ticks DEF TimerInv, Counters
<1>4. ASSUME NEW i \in 1 .. Len(list)
      PROVE  /\ list[i] \in Addrs /\ Contains(list, list[i])
             /\ owner[list[i]] \in Users /\ list[i] # pTimer
             /\ Congruent(list[i])
  <2>1. list[i] \in Addrs /\ Contains(list, list[i])
    BY <1>2 DEF Contains
  <2>2. owner[list[i]] # Null /\ list[i] # pTimer
    BY <1>1, <2>1 DEF Live
  <2> QED
    BY <1>1, <2>1, <2>2 DEF Basic, TimerInv, Times
<1> QED
  BY <1>1, <1>2, <1>3, <1>4, TimerAssumption

\* A step that leaves alone what the interrupt and the list go by.
LEMMA SameList ==
  ASSUME TimerInv, UNCHANGED <<list, poll, pElement, fresh>>,
         \A i \in DOMAIN list : due'[list[i]] = due[list[i]]
  PROVE  Sorted' /\ Passed'
<1>1. DOMAIN list = 1 .. Len(list) /\ Len(list) \in Nat
  BY ListedFacts
<1>2. \A i \in DOMAIN list : Done(list[i])' <=> Done(list[i])
  BY DEF Done
<1>3. Sorted'
  BY DEF TimerInv, Sorted
<1>4. Passed'
  BY <1>1, <1>2 DEF TimerInv, Passed
<1> QED
  BY <1>3, <1>4

LEMMA StartStep ==
  ASSUME OneCore, TimerInv, NEW u \in Users, StartKernelTimer(u)
  PROVE  TimerInv'
<1>1. PICK a \in Addrs, n \in Delays[u], e \in {(m_nTicks + k) % TickMod : k \in Delays[u]} :
        /\ e = (m_nTicks + n) % TickMod
        /\ owner[a] = Null
        /\ owner' = [owner EXCEPT ![a] = u]
        /\ elapsesAt' = [elapsesAt EXCEPT ![a] = e]
        /\ due' = [due EXCEPT ![a] = n]
        /\ made' = [made EXCEPT ![u] = a]
  BY DEF StartKernelTimer
<1>2. Memory'
  BY StartMemory DEF TimerInv
<1>3. n \in Nat /\ n <= Half - 2
  <2>1. Delays[u] \subseteq Nat /\ n + 1 < Half
    BY TimerAssumption
  <2> QED
    BY <2>1, Ticks
<1>4. e \in 0 .. TickMod - 1 /\ e - m_nTicks - n \in {0, TickMod, -TickMod}
  BY <1>1, <1>3, StartedCongruent DEF TimerInv, Counters
<1>5. /\ owner[a] = Null
      /\ owner' = [owner EXCEPT ![a] = u]
      /\ elapsesAt' = [elapsesAt EXCEPT ![a] = e]
      /\ due' = [due EXCEPT ![a] = n]
      /\ made' = [made EXCEPT ![u] = a]
      /\ pc' = [pc EXCEPT ![u] = "insert"]
      /\ pc[u] = "idle" /\ hTimer[u] = Null /\ MayRun(u)
      /\ UNCHANGED <<m_nTicks, list, hTimer, poll, pElement, pTimer, fresh, halt>>
  BY <1>1 DEF StartKernelTimer, polled
<1>6. /\ \A b \in Addrs \ {a} : owner'[b] = owner[b] /\ due'[b] = due[b] /\ elapsesAt'[b] = elapsesAt[b]
      /\ owner'[a] = u /\ due'[a] = n /\ elapsesAt'[a] = e
  BY <1>5, ListedFacts DEF Basic, TimerInv, Counters
<1>7. /\ pTimer # a /\ (poll \in {"taken", "handler"} => owner'[pTimer] = owner[pTimer])
      /\ \A i \in DOMAIN list : list[i] \in Addrs \ {a}
      /\ ~Contains(list, a)
  BY <1>5, <1>6, ListedFacts, TimerAssumption DEF Keeping, Live
<1>8. Counters'
  BY <1>3, <1>4, <1>5, Ticks DEF TimerInv, Counters
<1>9. Times'
  <2> SUFFICES ASSUME NEW b \in Addrs
               PROVE  IF owner'[b] = Null THEN due'[b] = 0 ELSE Congruent(b)'
    BY DEF Times
  <2>1. CASE b = a
    BY <1>4, <1>5, <1>6, <2>1, ListedFacts DEF Congruent
  <2>2. CASE b # a
    BY <1>5, <1>6, <2>2 DEF TimerInv, Times, Congruent
  <2> QED
    BY <2>1, <2>2
<1>10. Sorted' /\ Passed'
  BY <1>5, <1>6, <1>7, SameList
<1>11. \A b \in fresh' : due'[b] >= 0
  BY <1>3, <1>5, <1>6 DEF TimerInv, Counters
<1>12. ASSUME NEW w \in Users, pc'[w] # "idle" PROVE InCall(w)'
  <2>1. CASE w = u
    <3>1. poll # "idle" => poll = "handler" /\ owner[pTimer] = u
      BY <1>5 DEF MayRun, Outside, OneCore
    <3>2. made'[u] = a /\ pc'[u] = "insert"
      BY <1>5, ListedFacts DEF Basic
    <3> QED
      BY <1>3, <1>5, <1>6, <1>7, <2>1, <3>1, <3>2 DEF InCall
  <2>2. CASE w # u
    <3>1. pc'[w] = pc[w] /\ made'[w] = made[w] /\ InCall(w)
      BY <1>5, <1>12, <2>2, ListedFacts DEF Basic, TimerInv
    <3>2. made[w] \in Addrs \ {a}
      BY <1>5, <3>1, ListedFacts DEF InCall
    <3> QED
      BY <1>5, <1>6, <1>7, <3>1, <3>2 DEF InCall, Contains
  <2> QED
    BY <2>1, <2>2
<1>13. Known'
  <2>1. \A i \in DOMAIN list : owner[list[i]] # u
    BY <1>5, ListedFacts DEF TimerInv, Known, Basic
  <2>2. \A w \in Users \ {u} : pc'[w] = pc[w] /\ made'[w] = made[w]
    BY <1>5, ListedFacts DEF Basic
  <2>3. ASSUME NEW i \in DOMAIN list'
        PROVE  \/ hTimer'[owner'[list'[i]]] = list'[i]
               \/ pc'[owner'[list'[i]]] = "store" /\ made'[owner'[list'[i]]] = list'[i]
    <3>1. i \in DOMAIN list /\ owner'[list[i]] = owner[list[i]] /\ owner[list[i]] \in Users \ {u}
      BY <1>5, <1>6, <1>7, <2>1, ListedFacts
    <3> QED
      BY <1>5, <2>2, <3>1 DEF TimerInv, Known
  <2>4. poll' = "taken" => hTimer'[owner'[pTimer']] = pTimer' /\ due'[pTimer'] <= 0
    BY <1>5, <1>6, <1>7, ListedFacts DEF TimerInv, Known, Keeping
  <2> QED
    BY <2>3, <2>4 DEF Known
<1>14. HandleExact'
  BY <1>5, <1>6, <1>7, ListedFacts DEF TimerInv, HandleExact, Contains, Basic
<1> QED
  BY <1>2, <1>8, <1>9, <1>10, <1>11, <1>12, <1>13, <1>14 DEF TimerInv

\* A new timer goes behind those that elapse no later than it, and before the others.
LEMMA InsertedSorted ==
  ASSUME TimerInv, NEW a \in Addrs, Congruent(a), ~Contains(list, a),
         list' = InsertAt(list, Position(a), a), due' = due
  PROVE  Sorted'
<1> DEFINE p == Position(a)
           n == Len(list)
<1>1. /\ list \in Seq(Addrs) /\ n \in Nat /\ DOMAIN list = 1 .. n /\ Unique
      /\ \A b \in Addrs : due[b] \in Int
      /\ \A i \in 1 .. n : list[i] \in Addrs /\ Congruent(list[i])
  BY ListedFacts
<1>2. /\ p \in 1 .. n + 1
      /\ \A i \in 1 .. p - 1 : ~ElapsesAfter(list[i], a)
      /\ p <= n => ElapsesAfter(list[p], a)
  BY ListedFacts, PositionFound
<1>3. /\ DOMAIN list' = 1 .. n + 1
      /\ \A i \in 1 .. n + 1 :
           list'[i] = IF i < p THEN list[i] ELSE IF i = p THEN a ELSE list[i - 1]
  <2>1. /\ list' \in Seq(Addrs) /\ Len(list') = n + 1
        /\ \A i \in 1 .. n + 1 :
             list'[i] = IF i < p THEN list[i] ELSE IF i = p THEN a ELSE list[i - 1]
    BY ListedFacts, ListInserted
  <2> QED
    BY <2>1
<1>4. \A b \in Addrs : Congruent(b) => (ElapsesAfter(b, a) <=> due[b] > due[a])
  BY AfterIff DEF TimerInv
<1> HIDE DEF p, n
<1>5. /\ \A i \in 1 .. n : i < p => due[list[i]] <= due[a]
      /\ p <= n => due[list[p]] > due[a]
  BY <1>1, <1>2, <1>4
<1>6. \A i, j \in 1 .. n : i < j => due[list[i]] <= due[list[j]]
  BY <1>1 DEF TimerInv, Sorted
<1>7. \A i \in 1 .. n : i >= p => due[list[i]] > due[a]
  BY <1>1, <1>2, <1>5, <1>6
<1>8. ASSUME NEW i \in 1 .. n + 1, NEW j \in 1 .. n + 1, i < j
      PROVE  due[list'[i]] <= due[list'[j]]
  <2>1. CASE j < p
    BY <1>1, <1>2, <1>3, <1>6, <1>8, <2>1
  <2>2. CASE j = p
    <3>1. i \in 1 .. n /\ i < p /\ list'[i] = list[i] /\ list'[j] = a
      BY <1>1, <1>2, <1>3, <1>8, <2>2
    <3> QED
      BY <1>5, <3>1
  <2>3. CASE j > p
    <3>1. j - 1 \in 1 .. n /\ j - 1 >= p /\ list'[j] = list[j - 1]
      BY <1>1, <1>2, <1>3, <2>3
    <3>2. CASE i < p
      <4>1. i \in 1 .. n /\ i < j - 1 /\ list'[i] = list[i]
        BY <1>1, <1>2, <1>3, <2>3, <3>2
      <4> QED
        BY <1>6, <3>1, <4>1
    <3>3. CASE i = p
      <4>1. list'[i] = a
        BY <1>2, <1>3, <3>3
      <4> QED
        BY <1>1, <1>7, <3>1, <4>1
    <3>4. CASE i > p
      <4>1. i - 1 \in 1 .. n /\ i - 1 < j - 1 /\ list'[i] = list[i - 1]
        BY <1>1, <1>2, <1>3, <1>8, <3>4
      <4> QED
        BY <1>6, <3>1, <4>1
    <3> QED
      BY <1>2, <3>2, <3>3, <3>4
  <2> QED
    BY <1>2, <2>1, <2>2, <2>3
<1> QED
  BY <1>3, <1>8 DEF Sorted

\* Whatever a handler starts is not passed by the interrupt, wherever it goes.
LEMMA InsertedPassed ==
  ASSUME TimerInv, NEW a \in Addrs, ~Contains(list, a),
         list' = InsertAt(list, Position(a), a), fresh' = fresh \cup {a},
         UNCHANGED <<due, poll, pElement>>
  PROVE  Passed'
<1> DEFINE p == Position(a)
           n == Len(list)
<1>1. /\ list \in Seq(Addrs) /\ n \in Nat /\ DOMAIN list = 1 .. n
      /\ \A i \in 1 .. n : list[i] \in Addrs
  BY ListedFacts
<1>2. p \in 1 .. n + 1
  BY ListedFacts, PositionFound
<1>3. /\ DOMAIN list' = 1 .. n + 1
      /\ \A i \in 1 .. n + 1 :
           list'[i] = IF i < p THEN list[i] ELSE IF i = p THEN a ELSE list[i - 1]
  <2>1. /\ list' \in Seq(Addrs) /\ Len(list') = n + 1
        /\ \A i \in 1 .. n + 1 :
             list'[i] = IF i < p THEN list[i] ELSE IF i = p THEN a ELSE list[i - 1]
    BY ListedFacts, ListInserted
  <2> QED
    BY <2>1
<1> HIDE DEF p, n
<1>4. DoneNext(a) /\ \A b : Done(b) => DoneNext(b)
  BY DEF Done, DoneNext
<1>5. ASSUME \A i \in 1 .. n : Done(list[i]), NEW i \in 1 .. n + 1 PROVE DoneNext(list'[i])
  <2>1. CASE i < p
    BY <1>1, <1>2, <1>3, <1>4, <1>5, <2>1
  <2>2. CASE i = p
    BY <1>3, <1>4, <2>2
  <2>3. CASE i > p
    <3>1. i - 1 \in 1 .. n /\ list'[i] = list[i - 1]
      BY <1>1, <1>2, <1>3, <2>3
    <3> QED
      BY <1>4, <1>5, <3>1
  <2> QED
    BY <1>2, <2>1, <2>2, <2>3
<1>6. ASSUME NEW i \in 1 .. n, pElement = list[i], \A k \in 1 .. i - 1 : Done(list[k])
      PROVE  \E j \in 1 .. n + 1 :
               pElement' = list'[j] /\ \A k \in 1 .. j - 1 : DoneNext(list'[k])
  <2>1. CASE i < p
    <3>1. i \in 1 .. n + 1 /\ pElement' = list'[i]
      BY <1>1, <1>2, <1>3, <1>6, <2>1
    <3>2. \A k \in 1 .. i - 1 : list'[k] = list[k]
      BY <1>1, <1>2, <1>3, <2>1
    <3> QED
      BY <1>4, <1>6, <3>1, <3>2
  <2>2. CASE ~(i < p)
    <3>1. i + 1 \in 1 .. n + 1 /\ pElement' = list'[i + 1]
      BY <1>1, <1>2, <1>3, <1>6, <2>2
    <3>2. ASSUME NEW k \in 1 .. i PROVE DoneNext(list'[k])
      <4>1. CASE k < p
        <5>1. k \in 1 .. i - 1 /\ list'[k] = list[k]
          BY <1>1, <1>2, <1>3, <2>2, <4>1
        <5> QED
          BY <1>4, <1>6, <5>1
      <4>2. CASE k = p
        <5>1. list'[k] = a
          BY <1>2, <1>3, <4>2
        <5> QED
          BY <1>4, <5>1
      <4>3. CASE k > p
        <5>1. k - 1 \in 1 .. i - 1 /\ list'[k] = list[k - 1]
          BY <1>1, <1>2, <1>3, <4>3
        <5> QED
          BY <1>4, <1>6, <5>1
      <4> QED
        BY <1>2, <4>1, <4>2, <4>3
    <3>3. i + 1 - 1 = i
      OBVIOUS
    <3> QED
      BY <3>1, <3>2, <3>3
  <2> QED
    BY <2>1, <2>2
<1>7. poll' = "idle" => \A i \in DOMAIN list' : DoneNext(list'[i])
  BY <1>1, <1>3, <1>5 DEF TimerInv, Passed
<1>8. poll' \in {"next", "taken", "handler"} =>
       \/ pElement' = Null /\ \A i \in DOMAIN list' : DoneNext(list'[i])
       \/ \E i \in DOMAIN list' :
            pElement' = list'[i] /\ \A k \in 1 .. i - 1 : DoneNext(list'[k])
  <2> SUFFICES ASSUME poll \in {"next", "taken", "handler"}
               PROVE  \/ pElement' = Null /\ \A i \in DOMAIN list' : DoneNext(list'[i])
                      \/ \E i \in DOMAIN list' :
                           pElement' = list'[i] /\ \A k \in 1 .. i - 1 : DoneNext(list'[k])
    OBVIOUS
  <2>1. CASE pElement = Null /\ \A i \in DOMAIN list : Done(list[i])
    BY <1>1, <1>3, <1>5, <2>1
  <2>2. CASE \E i \in DOMAIN list : pElement = list[i] /\ \A k \in 1 .. i - 1 : Done(list[k])
    BY <1>1, <1>3, <1>6, <2>2
  <2> QED
    BY <2>1, <2>2 DEF TimerInv, Passed
<1> QED
  BY <1>7, <1>8 DEF Passed, Done, DoneNext

LEMMA InsertStep ==
  ASSUME OneCore, TimerInv, NEW u \in Users, InsertTimer(u)
  PROVE  TimerInv'
<1> DEFINE a == made[u]
<1>1. Memory'
  BY InsertMemory DEF TimerInv
<1>2. /\ pc[u] = "insert" /\ pc' = [pc EXCEPT ![u] = "store"]
      /\ list' = InsertAt(list, Position(a), a) /\ fresh' = fresh \cup {a}
      /\ UNCHANGED <<m_nTicks, elapsesAt, owner, due, hTimer, made, poll, pElement, pTimer, halt>>
  BY DEF InsertTimer, timer, polled
<1>3. Inserting(u) /\ InCall(u) /\ a \in Addrs /\ ~Contains(list, a) /\ owner[a] = u
  BY <1>2 DEF TimerInv, Memory, Inserting
<1>4. Congruent(a)
  BY <1>3, ListedFacts DEF TimerInv, Times
<1>5. /\ \A b : Contains(list, b)' <=> Contains(list, b) \/ b = a
      /\ list' \in Seq(Addrs) /\ DOMAIN list' = 1 .. Len(list')
  BY <1>2, <1>3, ListedFacts, ListInserted
<1> HIDE DEF a
<1>6. Sorted' /\ Passed'
  BY <1>2, <1>3, <1>4, InsertedSorted, InsertedPassed
<1>7. Counters' /\ Times' /\ \A b \in fresh' : due'[b] >= 0
  <2>1. due[a] >= 0
    BY <1>3 DEF InCall, a
  <2> QED
    BY <1>2, <1>3, <2>1 DEF TimerInv, Counters, Times, Congruent
<1>8. ASSUME NEW w \in Users, pc'[w] # "idle" PROVE InCall(w)'
  <2>1. InCall(w)
    BY <1>2, <1>3, <1>8, ListedFacts DEF Basic, TimerInv
  <2>2. pc'[w] = "store" => Contains(list, made[w])'
    BY <1>2, <1>5, <2>1, ListedFacts DEF InCall, Basic, a
  <2> QED
    BY <1>2, <2>1, <2>2 DEF InCall
<1>9. Known'
  <2>1. ASSUME NEW i \in DOMAIN list'
        PROVE  \/ hTimer'[owner'[list'[i]]] = list'[i]
               \/ pc'[owner'[list'[i]]] = "store" /\ made'[owner'[list'[i]]] = list'[i]
    <3>1. PICK b \in Addrs : b = list'[i] /\ Contains(list, b)'
      BY <1>5, <2>1 DEF Contains
    <3>2. CASE b = a
      BY <1>2, <1>3, <3>1, <3>2, ListedFacts DEF Basic, a
    <3>3. CASE Contains(list, b)
      <4>1. PICK k \in 1 .. Len(list) : list[k] = list'[i]
        BY <3>1, <3>3 DEF Contains
      <4>2. owner[list[k]] \in Users /\ list[k] # Null
        BY ListedFacts
      <4>3. \/ hTimer[owner[list[k]]] = list[k]
            \/ pc[owner[list[k]]] = "store" /\ made[owner[list[k]]] = list[k]
        BY ListedFacts DEF TimerInv, Known
      <4>4. owner[list[k]] # u
        BY <1>2, <1>3, <4>2, <4>3 DEF InCall
      <4> QED
        BY <1>2, <4>1, <4>2, <4>3, <4>4, ListedFacts DEF Basic
    <3> QED
      BY <1>5, <3>1, <3>2, <3>3
  <2> QED
    BY <1>2, <2>1 DEF Known, TimerInv
<1>10. HandleExact'
  BY <1>2, <1>5 DEF TimerInv, HandleExact
<1> QED
  BY <1>1, <1>6, <1>7, <1>8, <1>9, <1>10 DEF TimerInv

LEMMA StoreStep ==
  ASSUME OneCore, TimerInv, NEW u \in Users, StoreHandle(u)
  PROVE  TimerInv'
<1>1. Memory'
  BY MemoryStep DEF TimerInv, Next, Starting
<1>2. /\ pc[u] = "store" /\ hTimer' = [hTimer EXCEPT ![u] = made[u]]
      /\ pc' = [pc EXCEPT ![u] = "idle"] /\ made' = [made EXCEPT ![u] = Null]
      /\ UNCHANGED <<m_nTicks, list, elapsesAt, owner, due, poll, pElement, pTimer, fresh, halt>>
  BY DEF StoreHandle, timer, polled
<1>3. InCall(u) /\ Contains(list, made[u]) /\ hTimer[u] = Null /\ owner[made[u]] = u
  BY <1>2 DEF TimerInv, InCall
<1>4. Counters' /\ Times' /\ \A b \in fresh' : due'[b] >= 0
  BY <1>2 DEF TimerInv, Counters, Times, Congruent
<1>5. Sorted' /\ Passed'
  BY <1>2, SameList
<1>6. ASSUME NEW w \in Users, pc'[w] # "idle" PROVE InCall(w)'
  <2>1. w # u /\ pc'[w] = pc[w] /\ made'[w] = made[w] /\ hTimer'[w] = hTimer[w]
    BY <1>2, <1>6, ListedFacts DEF Basic
  <2> QED
    BY <1>2, <1>6, <2>1 DEF InCall, TimerInv, Contains
<1>7. Known'
  <2>1. ASSUME NEW i \in DOMAIN list
        PROVE  \/ hTimer'[owner[list[i]]] = list[i]
               \/ pc'[owner[list[i]]] = "store" /\ made'[owner[list[i]]] = list[i]
    <3>1. owner[list[i]] \in Users /\ list[i] # Null
      BY ListedFacts
    <3>2. \/ hTimer[owner[list[i]]] = list[i]
          \/ pc[owner[list[i]]] = "store" /\ made[owner[list[i]]] = list[i]
      BY DEF TimerInv, Known
    <3> QED
      BY <1>2, <1>3, <3>1, <3>2, ListedFacts DEF Basic
  <2>2. poll = "taken" => hTimer'[owner[pTimer]] = pTimer /\ due[pTimer] <= 0
    BY <1>2, <1>3, ListedFacts DEF TimerInv, Known, Keeping, Basic
  <2> QED
    BY <1>2, <2>1, <2>2 DEF Known
<1>8. HandleExact'
  BY <1>2, <1>3, ListedFacts DEF TimerInv, HandleExact, Contains, Basic
<1> QED
  BY <1>1, <1>4, <1>5, <1>6, <1>7, <1>8 DEF TimerInv

\* Without a timer the list is still sorted; none of the others is the removed one.
LEMMA RemovedSorted ==
  ASSUME TimerInv, NEW a, Contains(list, a), list' = RemoveAt(list, Place(a)),
         \A b \in Addrs \ {a} : due'[b] = due[b]
  PROVE  /\ Sorted'
         /\ list' \in Seq(Addrs) /\ DOMAIN list' = 1 .. Len(list) - 1
         /\ \A i \in 1 .. Len(list) - 1 :
              /\ list'[i] \in Addrs \ {a}
              /\ \E k \in 1 .. Len(list) : list'[i] = list[k]
              /\ list'[i] = IF i < Place(a) THEN list[i] ELSE list[i + 1]
<1> DEFINE p == Place(a)
           n == Len(list)
<1>1. /\ list \in Seq(Addrs) /\ n \in Nat /\ DOMAIN list = 1 .. n /\ Unique
      /\ \A i \in 1 .. n : list[i] \in Addrs
  BY ListedFacts
<1>2. p \in 1 .. n /\ list[p] = a
  BY ListedFacts, PlaceFound
<1>3. /\ list' \in Seq(Addrs) /\ DOMAIN list' = 1 .. n - 1
      /\ \A i \in 1 .. n - 1 : list'[i] = IF i < p THEN list[i] ELSE list[i + 1]
  <2>1. /\ list' \in Seq(Addrs) /\ Len(list') = n - 1
        /\ \A i \in 1 .. n - 1 : list'[i] = IF i < p THEN list[i] ELSE list[i + 1]
    BY ListedFacts, ListRemoved
  <2> QED
    BY <1>1, <2>1
<1> HIDE DEF p, n
<1>4. ASSUME NEW i \in 1 .. n - 1
      PROVE  \E k \in 1 .. n \ {p} : list'[i] = list[k]
  <2>1. CASE i < p
    BY <1>1, <1>2, <1>3, <2>1
  <2>2. CASE ~(i < p)
    <3>1. i + 1 \in 1 .. n \ {p} /\ list'[i] = list[i + 1]
      BY <1>1, <1>2, <1>3, <2>2
    <3> QED
      BY <3>1
  <2> QED
    BY <2>1, <2>2
<1>5. \A i \in 1 .. n - 1 : list'[i] \in Addrs \ {a} /\ \E k \in 1 .. n : list'[i] = list[k]
  <2>1. \A k \in 1 .. n \ {p} : list[k] # a
    BY <1>1, <1>2 DEF Unique
  <2> QED
    BY <1>1, <1>4, <2>1
<1>6. \A i, j \in 1 .. n : i < j => due[list[i]] <= due[list[j]]
  BY <1>1 DEF TimerInv, Sorted
<1>7. ASSUME NEW i \in 1 .. n - 1, NEW j \in 1 .. n - 1, i < j
      PROVE  due'[list'[i]] <= due'[list'[j]]
  <2>1. due'[list'[i]] = due[list'[i]] /\ due'[list'[j]] = due[list'[j]]
    BY <1>5
  <2>2. CASE j < p
    BY <1>1, <1>2, <1>3, <1>6, <1>7, <2>1, <2>2
  <2>3. CASE i >= p
    <3>1. /\ i + 1 \in 1 .. n /\ j + 1 \in 1 .. n /\ i + 1 < j + 1
          /\ list'[i] = list[i + 1] /\ list'[j] = list[j + 1]
      BY <1>1, <1>2, <1>3, <1>7, <2>3
    <3> QED
      BY <1>6, <2>1, <3>1
  <2>4. CASE i < p /\ j >= p
    <3>1. /\ i \in 1 .. n /\ j + 1 \in 1 .. n /\ i < j + 1
          /\ list'[i] = list[i] /\ list'[j] = list[j + 1]
      BY <1>1, <1>2, <1>3, <2>4
    <3> QED
      BY <1>6, <2>1, <3>1
  <2> QED
    BY <1>2, <2>2, <2>3, <2>4
<1> QED
  BY <1>3, <1>5, <1>7 DEF Sorted, p, n

LEMMA CancelStep ==
  ASSUME OneCore, TimerInv, NEW u \in Users, CancelKernelTimer(u)
  PROVE  TimerInv'
<1> DEFINE a == hTimer[u]
<1>1. Memory'
  BY MemoryStep DEF TimerInv, Next
<1>2. /\ hTimer[u] # Null /\ pc[u] = "idle"
      /\ hTimer' = [hTimer EXCEPT ![u] = Null]
      /\ UNCHANGED <<m_nTicks, pc, made, poll, pElement, pTimer, halt>>
  BY DEF CancelKernelTimer, start, polled
<1>3. poll = "idle" /\ \A w \in Users : pc[w] = "idle"
  BY <1>2 DEF CancelKernelTimer, Outside, OneCore
<1>4. a \in Addrs /\ owner[a] = u /\ Contains(list, a)
  BY <1>2, <1>3, ListedFacts DEF TimerInv, HandleExact, Basic
<1>5. /\ list' = RemoveAt(list, Place(a)) /\ fresh' = fresh \ {a}
      /\ owner' = [owner EXCEPT ![a] = Null] /\ due' = [due EXCEPT ![a] = 0]
      /\ elapsesAt' = [elapsesAt EXCEPT ![a] = 0]
  BY <1>4 DEF CancelKernelTimer, Unlink, Freed
<1>6. \A b : Contains(list, b)' <=> Contains(list, b) /\ b # a
  BY <1>4, <1>5, ListedFacts, ListRemoved
<1> HIDE DEF a
<1>7. /\ \A b \in Addrs \ {a} : due'[b] = due[b] /\ owner'[b] = owner[b] /\ elapsesAt'[b] = elapsesAt[b]
      /\ owner'[a] = Null /\ due'[a] = 0
  BY <1>4, <1>5, ListedFacts DEF Basic, TimerInv, Counters
<1>8. /\ Sorted' /\ DOMAIN list' = 1 .. Len(list) - 1
      /\ \A i \in DOMAIN list' : list'[i] \in Addrs \ {a} /\ \E k \in 1 .. Len(list) : list'[i] = list[k]
  BY <1>4, <1>5, <1>7, RemovedSorted
<1>9. Counters' /\ Times' /\ \A b \in fresh' : due'[b] >= 0
  <2>1. Counters'
    BY <1>2, <1>4, <1>5, Ticks DEF TimerInv, Counters
  <2>2. Times'
    BY <1>2, <1>4, <1>7 DEF TimerInv, Times, Congruent
  <2>3. \A b \in fresh' : due'[b] >= 0
    BY <1>5, <1>7 DEF TimerInv, Counters
  <2> QED
    BY <2>1, <2>2, <2>3
<1>10. Passed'
  <2>1. ASSUME NEW i \in DOMAIN list' PROVE DoneNext(list'[i])
    <3>1. PICK k \in 1 .. Len(list) : list'[i] = list[k]
      BY <1>8
    <3>2. Done(list[k])
      BY <1>3, ListedFacts DEF TimerInv, Passed
    <3> QED
      BY <1>5, <1>7, <1>8, <3>1, <3>2 DEF Done, DoneNext
  <2> QED
    BY <1>2, <1>3, <2>1 DEF Passed, Done, DoneNext
<1>11. Known'
  <2>1. ASSUME NEW i \in DOMAIN list' PROVE hTimer'[owner'[list'[i]]] = list'[i]
    <3>1. PICK k \in 1 .. Len(list) : list'[i] = list[k]
      BY <1>8
    <3>2. hTimer[owner[list[k]]] = list[k] /\ owner[list[k]] \in Users
      BY <1>3, ListedFacts DEF TimerInv, Known
    <3>3. list[k] # a /\ owner'[list[k]] = owner[list[k]] /\ owner[list[k]] # u
      BY <1>7, <1>8, <3>1, <3>2 DEF a
    <3> QED
      BY <1>2, <3>1, <3>2, <3>3, ListedFacts DEF Basic
  <2> QED
    BY <1>2, <1>3, <2>1 DEF Known
<1>12. HandleExact'
  <2> SUFFICES ASSUME NEW w \in Users, hTimer'[w] # Null
               PROVE  owner'[hTimer'[w]] = w /\ Contains(list, hTimer[w])' /\ hTimer'[w] = hTimer[w]
    BY DEF HandleExact
  <2>1. w # u /\ hTimer'[w] = hTimer[w]
    BY <1>2, ListedFacts DEF Basic
  <2>2. owner[hTimer[w]] = w /\ Contains(list, hTimer[w]) /\ hTimer[w] \in Addrs
    BY <1>3, <2>1, ListedFacts DEF TimerInv, HandleExact, Basic
  <2> QED
    BY <1>2, <1>4, <1>6, <1>7, <2>1, <2>2
<1> QED
  BY <1>1, <1>2, <1>3, <1>8, <1>9, <1>10, <1>11, <1>12 DEF TimerInv

LEMMA InterruptStep ==
  ASSUME OneCore, TimerInv, InterruptHandler
  PROVE  TimerInv'
<1>1. Memory'
  BY MemoryStep DEF TimerInv, Next
<1>2. /\ poll = "idle" /\ poll' = "first" /\ pTimer = Null
      /\ \A w \in Users : pc[w] # "idle" => due[made[w]] > 1
      /\ m_nTicks' = (m_nTicks + 1) % TickMod
      /\ fresh' = {}
      /\ UNCHANGED <<list, elapsesAt, owner, hTimer, pc, made, pElement, pTimer, halt>>
  BY DEF InterruptHandler, TimerInv, Memory, Keeping
<1>3. \A a \in Addrs : due'[a] = IF owner[a] # Null THEN due[a] - 1 ELSE 0
  BY DEF InterruptHandler
<1>4. ASSUME NEW a \in Addrs, owner[a] # Null PROVE due[a] >= 0
  <2>1. CASE Contains(list, a)
    <3>1. PICK k \in 1 .. Len(list) : list[k] = a
      BY <2>1 DEF Contains
    <3>2. Done(a)
      BY <1>2, <3>1, ListedFacts DEF TimerInv, Passed
    <3> QED
      BY <3>2, ListedFacts DEF Done, TimerInv
  <2>2. CASE ~Contains(list, a)
    BY <1>2, <1>4, <2>2, ListedFacts DEF Held
  <2> QED
    BY <2>1, <2>2
<1>5. ASSUME NEW a \in Addrs, owner[a] # Null
      PROVE  m_nTicks' \in 0 .. TickMod - 1 /\ elapsesAt[a] - m_nTicks' - due'[a] \in {0, TickMod, -TickMod}
  <2>1. due[a] \in 0 .. Half - 2 /\ elapsesAt[a] \in 0 .. TickMod - 1 /\ m_nTicks \in 0 .. TickMod - 1
    BY <1>4, <1>5, ListedFacts, Ticks DEF TimerInv, Counters
  <2>2. elapsesAt[a] - m_nTicks - due[a] \in {0, TickMod, -TickMod}
    BY <1>5 DEF TimerInv, Times, Congruent
  <2>3. due'[a] = due[a] - 1
    BY <1>3, <1>5
  <2> QED
    BY <1>2, <2>1, <2>2, <2>3, TickedCongruent
<1>6. Times'
  BY <1>2, <1>3, <1>5 DEF Times, Congruent
<1>7. Counters'
  <2>1. m_nTicks' \in 0 .. TickMod - 1
    BY <1>2, Ticks DEF TimerInv, Counters
  <2>2. \A a \in Addrs : due'[a] \in -1 .. Half - 2
    BY <1>3, <1>4, ListedFacts, Ticks
  <2>3. due' \in [Addrs -> -1 .. Half - 2]
    BY <2>2 DEF InterruptHandler
  <2> QED
    BY <1>2, <2>1, <2>3 DEF TimerInv, Counters
<1>8. Sorted'
  <2>1. \A i \in 1 .. Len(list) : due'[list[i]] = due[list[i]] - 1
    BY <1>3, ListedFacts
  <2>2. \A i, j \in 1 .. Len(list) : i < j => due[list[i]] <= due[list[j]]
    BY ListedFacts DEF TimerInv, Sorted
  <2>3. \A i \in 1 .. Len(list) : due[list[i]] \in Int
    BY ListedFacts
  <2>4. \A i, j \in 1 .. Len(list) : i < j => due'[list[i]] <= due'[list[j]]
    BY <2>1, <2>2, <2>3
  <2> QED
    BY <1>2, <2>4, ListedFacts DEF Sorted
<1>9. ASSUME NEW w \in Users, pc'[w] # "idle" PROVE InCall(w)'
  <2>1. InCall(w) /\ due[made[w]] > 1
    BY <1>2, <1>9 DEF TimerInv
  <2>2. due'[made[w]] >= 1 /\ due'[made[w]] \in Int
    BY <1>3, <2>1, ListedFacts DEF InCall
  <2> QED
    BY <1>2, <2>1, <2>2 DEF InCall, Contains
<1>10. Passed' /\ Known' /\ HandleExact' /\ \A b \in fresh' : due'[b] >= 0
  BY <1>2 DEF TimerInv, Passed, Known, HandleExact, Contains
<1> QED
  BY <1>1, <1>6, <1>7, <1>8, <1>9, <1>10 DEF TimerInv

\* What the interrupt looks at next is listed, and everything before it is done.
LEMMA ElementListed ==
  ASSUME TimerInv, poll \in {"first", "next"}, Element # Null
  PROVE  \E i \in 1 .. Len(list) :
           Element = list[i] /\ \A k \in 1 .. i - 1 : Done(list[k])
<1>1. CASE poll = "first"
  <2>1. list # <<>> /\ Element = Head(list)
    BY <1>1 DEF Element
  <2>2. 1 \in 1 .. Len(list) /\ Element = list[1]
    BY <2>1, ListedFacts
  <2> QED
    BY <2>2
<1>2. CASE poll = "next"
  BY <1>2, ListedFacts DEF Element, TimerInv, Passed
<1> QED
  BY <1>1, <1>2

LEMMA PollTakeStep ==
  ASSUME OneCore, TimerInv, PollTake
  PROVE  TimerInv'
<1> DEFINE e == Element
           n == Len(list)
<1>1. Memory'
  BY MemoryStep DEF TimerInv, Next, Polling
<1>2. poll \in {"first", "next"} /\ e # Null
  BY DEF PollTake
<1>3. PICK i \in 1 .. n : e = list[i] /\ \A k \in 1 .. i - 1 : Done(list[k])
  BY <1>2, ElementListed
<1>4. Contains(list, e) /\ e \in Addrs /\ Congruent(e)
  BY <1>3, ListedFacts
<1>5. /\ Elapsed(e) /\ pTimer' = e /\ pElement' = Successor(e)
      /\ list' = RemoveAt(list, Place(e)) /\ fresh' = fresh \ {e} /\ poll' = "taken"
      /\ UNCHANGED <<m_nTicks, elapsesAt, owner, due, hTimer, pc, made, halt>>
  BY <1>4 DEF PollTake, Take, timer, start
<1>6. due[e] <= 0
  BY <1>4, <1>5, ElapsedIff DEF TimerInv
<1>7. \A b : Contains(list, b)' <=> Contains(list, b) /\ b # e
  BY <1>4, <1>5, ListedFacts, ListRemoved
<1>8. Place(e) = i
  <2>1. Place(e) \in 1 .. n /\ list[Place(e)] = e
    BY <1>4, ListedFacts, PlaceFound
  <2> QED
    BY <1>3, <2>1, ListedFacts DEF Unique
<1>9. /\ Sorted' /\ DOMAIN list' = 1 .. n - 1
      /\ \A j \in 1 .. n - 1 :
           /\ list'[j] \in Addrs \ {e}
           /\ \E k \in 1 .. n : list'[j] = list[k]
           /\ list'[j] = IF j < i THEN list[j] ELSE list[j + 1]
  BY <1>4, <1>5, <1>8, RemovedSorted
<1>10. pElement' = IF i < n THEN list[i + 1] ELSE Null
  BY <1>5, <1>8 DEF Successor
<1>11. n \in Nat /\ \A k \in 1 .. n : due[list[k]] \in Int /\ list[k] \in Addrs
  BY ListedFacts
<1> HIDE DEF e, n
<1>12. Counters' /\ Times' /\ \A b \in fresh' : due'[b] >= 0
  BY <1>5 DEF TimerInv, Counters, Times, Congruent
<1>13. ASSUME NEW k \in 1 .. n - 1, k < i PROVE DoneNext(list'[k])
  <2>1. k \in 1 .. i - 1 /\ list'[k] = list[k] /\ list[k] # e
    BY <1>9, <1>13
  <2> QED
    BY <1>3, <1>5, <2>1 DEF Done, DoneNext
<1>14. Passed'
  <2>1. CASE i < n
    <3>1. i \in 1 .. n - 1 /\ pElement' = list'[i]
      BY <1>9, <1>10, <1>11, <2>1
    <3>2. \A k \in 1 .. i - 1 : DoneNext(list'[k])
      BY <1>11, <1>13, <2>1
    <3> QED
      BY <1>5, <1>9, <3>1, <3>2 DEF Passed, Done, DoneNext
  <2>2. CASE ~(i < n)
    <3>1. i = n /\ pElement' = Null
      BY <1>10, <1>11, <2>2
    <3>2. \A k \in 1 .. n - 1 : DoneNext(list'[k])
      BY <1>11, <1>13, <3>1
    <3> QED
      BY <1>5, <1>9, <3>1, <3>2 DEF Passed, Done, DoneNext
  <2> QED
    BY <2>1, <2>2
<1>15. ASSUME NEW w \in Users, pc'[w] # "idle" PROVE InCall(w)'
  <2>1. InCall(w) /\ due[made[w]] >= 1 /\ made[w] # e
    BY <1>2, <1>4, <1>5, <1>6, <1>15, ListedFacts DEF TimerInv, InCall
  <2> QED
    BY <1>5, <1>7, <2>1 DEF InCall
<1>16. Known'
  <2>1. ASSUME NEW k \in 1 .. n
        PROVE  \/ hTimer[owner[list[k]]] = list[k]
               \/ pc[owner[list[k]]] = "store" /\ made[owner[list[k]]] = list[k]
    BY ListedFacts DEF TimerInv, Known, n
  <2>2. hTimer[owner[e]] = e
    <3>1. owner[e] \in Users
      BY <1>3, ListedFacts DEF n
    <3>2. pc[owner[e]] = "store" /\ made[owner[e]] = e => FALSE
      BY <1>2, <1>6, <3>1, <1>4, ListedFacts DEF TimerInv, InCall
    <3> QED
      BY <1>3, <2>1, <3>2
  <2>3. ASSUME NEW j \in DOMAIN list'
        PROVE  \/ hTimer'[owner'[list'[j]]] = list'[j]
               \/ pc'[owner'[list'[j]]] = "store" /\ made'[owner'[list'[j]]] = list'[j]
    <3>1. PICK k \in 1 .. n : list'[j] = list[k]
      BY <1>9
    <3> QED
      BY <1>5, <2>1, <3>1
  <2> QED
    BY <1>5, <1>6, <2>2, <2>3 DEF Known
<1>17. HandleExact'
  BY <1>2, <1>5, <1>7 DEF TimerInv, HandleExact
<1> QED
  BY <1>1, <1>9, <1>12, <1>14, <1>15, <1>16, <1>17 DEF TimerInv

LEMMA PollEndStep ==
  ASSUME OneCore, TimerInv, PollEnd
  PROVE  TimerInv'
<1>1. Memory'
  BY MemoryStep DEF TimerInv, Next, Polling
<1>2. /\ poll \in {"first", "next"} /\ poll' = "idle" /\ pElement' = Null
      /\ Element = Null \/ (Contains(list, Element) /\ ~Elapsed(Element))
      /\ UNCHANGED <<m_nTicks, list, elapsesAt, owner, due, hTimer, pc, made, pTimer, fresh, halt>>
  BY DEF PollEnd, timer, start
<1>3. \A k \in 1 .. Len(list) : Done(list[k])
  <2>1. CASE Element = Null
    <3>1. CASE poll = "first"
      <4>1. list = <<>>
        <5>1. list # <<>> => Element = list[1] /\ 1 \in 1 .. Len(list)
          BY <3>1, ListedFacts DEF Element
        <5> QED
          BY <2>1, <5>1, ListedFacts
      <4> QED
        BY <4>1
    <3>2. CASE poll = "next"
      <4>1. pElement = Null /\ \A i \in 1 .. Len(list) : list[i] # Null
        BY <2>1, <3>2, ListedFacts DEF Element
      <4> QED
        BY <3>2, <4>1, ListedFacts DEF TimerInv, Passed
    <3> QED
      BY <1>2, <3>1, <3>2
  <2>2. CASE Element # Null
    <3>1. PICK i \in 1 .. Len(list) : Element = list[i] /\ \A k \in 1 .. i - 1 : Done(list[k])
      BY <1>2, <2>2, ElementListed
    <3>2. due[list[i]] > 0
      <4>1. list[i] \in Addrs /\ Congruent(list[i]) /\ ~Elapsed(list[i]) /\ due[list[i]] \in Int
        BY <1>2, <2>2, <3>1, ListedFacts
      <4> QED
        BY <4>1, ElapsedIff DEF TimerInv
    <3>3. ASSUME NEW k \in 1 .. Len(list), k >= i PROVE due[list[k]] > 0
      <4>1. due[list[i]] <= due[list[k]] /\ due[list[i]] \in Int /\ due[list[k]] \in Int
        BY <3>3, ListedFacts DEF TimerInv, Sorted
      <4> QED
        BY <3>2, <4>1
    <3> QED
      BY <3>1, <3>3 DEF Done
  <2> QED
    BY <2>1, <2>2
<1>4. Passed'
  BY <1>2, <1>3, ListedFacts DEF Passed, Done
<1>5. Counters' /\ Times' /\ \A b \in fresh' : due'[b] >= 0
  BY <1>2 DEF TimerInv, Counters, Times, Congruent
<1>6. Sorted' /\ Known' /\ HandleExact'
  BY <1>2 DEF TimerInv, Sorted, Known, HandleExact, Contains
<1>7. ASSUME NEW w \in Users, pc'[w] # "idle" PROVE InCall(w)'
  BY <1>2, <1>7 DEF TimerInv, InCall, Contains
<1> QED
  BY <1>1, <1>4, <1>5, <1>6, <1>7 DEF TimerInv

LEMMA HandlerCallStep ==
  ASSUME OneCore, TimerInv, HandlerCall
  PROVE  TimerInv'
<1> DEFINE u == owner[pTimer]
<1>1. Memory'
  BY MemoryStep DEF TimerInv, Next, Polling
<1>2. /\ poll = "taken" /\ poll' = "handler" /\ hTimer' = [hTimer EXCEPT ![u] = Null]
      /\ UNCHANGED <<m_nTicks, list, elapsesAt, owner, due, pc, made, pElement, pTimer, fresh, halt>>
  BY DEF HandlerCall, timer, start
<1>3. pTimer \in Addrs /\ u \in Users /\ hTimer[u] = pTimer
  BY <1>2, ListedFacts DEF Keeping, Basic, TimerInv, Known
<1>4. pc[u] = "idle"
  BY <1>3, TimerAssumption DEF TimerInv, InCall
<1> HIDE DEF u
<1>5. /\ hTimer'[u] = Null
      /\ \A w \in Users \ {u} : hTimer'[w] = hTimer[w]
  BY <1>2, <1>3, ListedFacts DEF Basic
<1>6. Counters' /\ Times' /\ \A b \in fresh' : due'[b] >= 0
  BY <1>2 DEF TimerInv, Counters, Times, Congruent
<1>7. Sorted' /\ Passed'
  BY <1>2 DEF TimerInv, Sorted, Passed, Done
<1>8. ASSUME NEW w \in Users, pc'[w] # "idle" PROVE InCall(w)'
  BY <1>2, <1>4, <1>5, <1>8 DEF TimerInv, InCall, Contains
<1>9. Known'
  <2>1. ASSUME NEW i \in DOMAIN list
        PROVE  \/ hTimer'[owner[list[i]]] = list[i]
               \/ pc[owner[list[i]]] = "store" /\ made[owner[list[i]]] = list[i]
    <3>1. owner[list[i]] \in Users /\ list[i] # pTimer
      BY ListedFacts
    <3>2. \/ hTimer[owner[list[i]]] = list[i]
          \/ pc[owner[list[i]]] = "store" /\ made[owner[list[i]]] = list[i]
      BY DEF TimerInv, Known
    <3> QED
      BY <1>3, <1>4, <1>5, <3>1, <3>2
  <2> QED
    BY <1>2, <2>1 DEF Known
<1>10. HandleExact'
  <2> SUFFICES ASSUME NEW w \in Users, hTimer'[w] # Null
               PROVE  owner[hTimer'[w]] = w /\ Contains(list, hTimer'[w])
    BY <1>2 DEF HandleExact, Contains
  <2>1. w # u /\ hTimer'[w] = hTimer[w]
    BY <1>5
  <2> QED
    BY <2>1 DEF TimerInv, HandleExact, u
<1> QED
  BY <1>1, <1>6, <1>7, <1>8, <1>9, <1>10 DEF TimerInv

LEMMA HandlerReturnStep ==
  ASSUME OneCore, TimerInv, HandlerReturn
  PROVE  TimerInv'
<1>1. Memory'
  BY ReturnMemory DEF TimerInv
<1>2. /\ poll = "handler" /\ poll' = "next" /\ pTimer' = Null
      /\ pc[owner[pTimer]] = "idle"
      /\ owner' = [owner EXCEPT ![pTimer] = Null] /\ due' = [due EXCEPT ![pTimer] = 0]
      /\ elapsesAt' = [elapsesAt EXCEPT ![pTimer] = 0]
      /\ UNCHANGED <<m_nTicks, list, hTimer, pc, made, pElement, fresh, halt>>
  BY DEF HandlerReturn, Freed, OneCore, start
<1>3. pTimer \in Addrs /\ owner[pTimer] \in Users
  BY <1>2, ListedFacts DEF Keeping, Basic
<1>4. /\ \A b \in Addrs \ {pTimer} : owner'[b] = owner[b] /\ due'[b] = due[b] /\ elapsesAt'[b] = elapsesAt[b]
      /\ owner'[pTimer] = Null /\ due'[pTimer] = 0
  BY <1>2, <1>3, ListedFacts DEF Basic, TimerInv, Counters
<1>5. \A i \in DOMAIN list :
        list[i] \in Addrs \ {pTimer} /\ due'[list[i]] = due[list[i]] /\ owner'[list[i]] = owner[list[i]]
  BY <1>4, ListedFacts
<1>6. Counters' /\ Times' /\ \A b \in fresh' : due'[b] >= 0
  <2>1. Counters'
    BY <1>2, <1>3, Ticks DEF TimerInv, Counters
  <2>2. Times'
    BY <1>2, <1>3, <1>4 DEF TimerInv, Times, Congruent
  <2>3. \A b \in fresh' : due'[b] >= 0
    BY <1>2, <1>4 DEF TimerInv, Counters
  <2> QED
    BY <2>1, <2>2, <2>3
<1>7. Sorted'
  BY <1>2, <1>5 DEF TimerInv, Sorted
<1>8. Passed'
  <2>1. \A i \in DOMAIN list : Done(list[i]) => DoneNext(list[i])
    BY <1>2, <1>5 DEF Done, DoneNext
  <2>2. DOMAIN list = 1 .. Len(list) /\ Len(list) \in Nat
    BY ListedFacts
  <2>3. CASE pElement = Null /\ \A i \in DOMAIN list : Done(list[i])
    BY <1>2, <2>1, <2>3 DEF Passed, Done, DoneNext
  <2>4. ASSUME NEW i \in DOMAIN list, pElement = list[i], \A k \in 1 .. i - 1 : Done(list[k])
        PROVE  Passed'
    <3>1. \A k \in 1 .. i - 1 : DoneNext(list[k])
      BY <2>1, <2>2, <2>4
    <3> QED
      BY <1>2, <2>4, <3>1 DEF Passed, Done, DoneNext
  <2> QED
    BY <1>2, <2>3, <2>4 DEF TimerInv, Passed
<1>9. ASSUME NEW w \in Users, pc'[w] # "idle" PROVE InCall(w)'
  <2>1. InCall(w) /\ w # owner[pTimer] /\ made[w] \in Addrs \ {pTimer}
    BY <1>2, <1>9 DEF TimerInv, InCall
  <2> QED
    BY <1>2, <1>4, <2>1 DEF InCall, Contains
<1>10. Known'
  BY <1>2, <1>5 DEF TimerInv, Known
<1>11. HandleExact'
  <2> SUFFICES ASSUME NEW w \in Users, hTimer[w] # Null
               PROVE  owner'[hTimer[w]] = w /\ Contains(list, hTimer[w])
    BY <1>2 DEF HandleExact, Contains
  <2>1. owner[hTimer[w]] = w /\ Contains(list, hTimer[w])
    BY <1>2 DEF TimerInv, HandleExact
  <2>2. hTimer[w] \in Addrs \ {pTimer}
    BY <2>1, ListedFacts DEF Live
  <2> QED
    BY <1>4, <2>1, <2>2
<1> QED
  BY <1>1, <1>6, <1>7, <1>8, <1>9, <1>10, <1>11 DEF TimerInv

LEMMA TimerStep == OneCore /\ TimerInv /\ [Next]_vars => TimerInv'
<1> SUFFICES ASSUME OneCore, TimerInv, [Next]_vars PROVE TimerInv'
  OBVIOUS
<1>1. CASE UNCHANGED vars
  <2>1. Memory'
    BY MemoryStep DEF TimerInv
  <2>2. UNCHANGED <<m_nTicks, list, elapsesAt, owner, due, hTimer, pc, made, poll, pElement, pTimer,
                    fresh, halt>>
    BY <1>1 DEF vars, timer, start, polled
  <2>3. Counters' /\ Times' /\ Sorted' /\ Passed' /\ \A b \in fresh' : due'[b] >= 0
    BY <2>2 DEF TimerInv, Counters, Times, Congruent, Sorted, Passed, Done
  <2>4. Known' /\ HandleExact' /\ \A w \in Users : pc'[w] # "idle" => InCall(w)'
    BY <2>2 DEF TimerInv, Known, HandleExact, InCall, Contains
  <2> QED
    BY <2>1, <2>3, <2>4 DEF TimerInv
<1> QED
  BY <1>1, StartStep, InsertStep, StoreStep, CancelStep, InterruptStep, PollTakeStep, PollEndStep,
     HandlerCallStep, HandlerReturnStep DEF Next, Starting, Polling

LEMMA TimerImplies ==
  ASSUME TimerInv
  PROVE  TypeOK /\ NoneOverdue /\ HandleExact /\ NoAssertion
<1>1. TypeOK
  BY ListedFacts DEF TypeOK, Basic, TimerInv, Counters
<1>2. NoneOverdue
  BY DEF TimerInv, Sorted, Passed, Done, NoneOverdue
<1> QED
  BY <1>1, <1>2 DEF TimerInv, Counters, NoAssertion

-----------------------------------------------------------------------------
(* The theorems.                                                            *)

\* Without a user on another core every variable keeps its type; in particular no
\* timer, whatever was started late, gets more than one tick over its time.
THEOREM TimerTypes ==
  ASSUME OneCore
  PROVE  Spec => []TypeOK
<1>1. TimerInv /\ [Next]_vars => TimerInv'
  BY TimerStep
<1>2. TimerInv => TypeOK
  BY TimerImplies
<1> QED
  BY <1>1, <1>2, TimerInit, PTL DEF Spec

\* The list stays sorted by the time its timers have still to run although the
\* ticks wrap, and when the interrupt returns it has passed over no elapsed timer.
THEOREM TimersInOrder ==
  ASSUME OneCore
  PROVE  Spec => []NoneOverdue
<1>1. TimerInv /\ [Next]_vars => TimerInv'
  BY TimerStep
<1>2. TimerInv => NoneOverdue
  BY TimerImplies
<1> QED
  BY <1>1, <1>2, TimerInit, PTL DEF Spec

\* The handle a user keeps is that of its own timer which has not elapsed,
\* although the address of a freed timer is used again.
THEOREM HandlesExact ==
  ASSUME OneCore
  PROVE  Spec => []HandleExact
<1>1. TimerInv /\ [Next]_vars => TimerInv'
  BY TimerStep
<1>2. TimerInv => HandleExact
  BY TimerImplies
<1> QED
  BY <1>1, <1>2, TimerInit, PTL DEF Spec

\* Without a user on another core PollKernelTimers never goes on with an element
\* that was deleted while a handler ran.
THEOREM NoDeletedElement ==
  ASSUME OneCore
  PROVE  Spec => []NoAssertion
<1>1. TimerInv /\ [Next]_vars => TimerInv'
  BY TimerStep
<1>2. TimerInv => NoAssertion
  BY TimerImplies
<1> QED
  BY <1>1, <1>2, TimerInit, PTL DEF Spec

-----------------------------------------------------------------------------
(* The timers implement TimerService, step by step.                         *)

ArmedOf   == [u \in Users |-> Armed(u)]
LeftOf    == [u \in Users |-> IF pc[u] # "idle" THEN due[made[u]]
                             ELSE IF hTimer[u] # Null THEN due[hTimer[u]] ELSE 0]
RingingOf == IF poll = "handler" THEN owner[pTimer] ELSE Null

LEMMA PromiseInit == Init => Promise!Init
BY DEF Init, Promise!Init, Armed

LEMMA Mapped ==
  /\ Promise!svars = <<ArmedOf, LeftOf, RingingOf>>
  /\ Promise!svars' = <<ArmedOf', LeftOf', RingingOf'>>
BY DEF Promise!svars, ArmedOf, LeftOf, RingingOf, Armed

\* The timer a user waits for is its own, and not the one whose handler is called.
LEMMA Waiting ==
  ASSUME TimerInv, NEW u \in Users
  PROVE  /\ pc[u] # "idle" => hTimer[u] = Null /\ made[u] \in Addrs /\ owner[made[u]] = u
         /\ hTimer[u] # Null => hTimer[u] \in Addrs /\ owner[hTimer[u]] = u
         /\ hTimer[u] # Null /\ poll = "handler" => hTimer[u] # pTimer
BY ListedFacts DEF TimerInv, InCall, HandleExact, Basic, Live

LEMMA StartImplements ==
  ASSUME OneCore, TimerInv, NEW u \in Users, StartKernelTimer(u)
  PROVE  Promise!Next
<1>1. PICK a \in Addrs, n \in Delays[u] :
        /\ owner[a] = Null /\ owner' = [owner EXCEPT ![a] = u]
        /\ due' = [due EXCEPT ![a] = n] /\ made' = [made EXCEPT ![u] = a]
        /\ pc' = [pc EXCEPT ![u] = "insert"] /\ pc[u] = "idle" /\ hTimer[u] = Null
        /\ UNCHANGED <<hTimer, poll, pTimer>>
  BY DEF StartKernelTimer, polled
<1>2. /\ pc'[u] = "insert" /\ made'[u] = a /\ due'[a] = n /\ \A b \in Addrs \ {a} : due'[b] = due[b]
      /\ \A w \in Users \ {u} : pc'[w] = pc[w] /\ made'[w] = made[w]
  BY <1>1, ListedFacts DEF Basic, TimerInv, Counters
<1>3. ASSUME NEW w \in Users \ {u} PROVE LeftOf'[w] = LeftOf[w] /\ ArmedOf'[w] = ArmedOf[w]
  BY <1>1, <1>2, Waiting, TimerAssumption DEF LeftOf, ArmedOf, Armed
<1>4. LeftOf'[u] = n /\ ArmedOf'[u] = TRUE /\ ArmedOf[u] = FALSE
  BY <1>1, <1>2 DEF LeftOf, ArmedOf, Armed
<1>5. LeftOf' = [LeftOf EXCEPT ![u] = n] /\ ArmedOf' = [ArmedOf EXCEPT ![u] = TRUE]
  BY <1>3, <1>4 DEF LeftOf, ArmedOf
<1>6. RingingOf' = RingingOf
  <2>1. poll = "handler" => pTimer \in Addrs /\ owner[pTimer] # Null
    BY ListedFacts DEF Keeping
  <2> QED
    BY <1>1, <2>1, ListedFacts DEF RingingOf, Basic
<1>7. Promise!Start(u)
  BY <1>4, <1>5, <1>6 DEF Promise!Start, LeftOf, ArmedOf, RingingOf
<1> QED
  BY <1>7 DEF Promise!Next

LEMMA InsertStutters ==
  ASSUME TimerInv, NEW u \in Users, InsertTimer(u)
  PROVE  UNCHANGED Promise!svars
<1>1. /\ pc[u] = "insert" /\ pc' = [pc EXCEPT ![u] = "store"]
      /\ UNCHANGED <<owner, due, hTimer, made, poll, pTimer>>
  BY DEF InsertTimer, timer, polled
<1>2. \A w \in Users : pc'[w] = "idle" <=> pc[w] = "idle"
  BY <1>1, ListedFacts DEF Basic
<1>3. ArmedOf' = ArmedOf /\ LeftOf' = LeftOf /\ RingingOf' = RingingOf
  BY <1>1, <1>2 DEF ArmedOf, LeftOf, RingingOf, Armed
<1> QED
  BY <1>3, Mapped

LEMMA StoreStutters ==
  ASSUME TimerInv, NEW u \in Users, StoreHandle(u)
  PROVE  UNCHANGED Promise!svars
<1>1. /\ pc[u] = "store" /\ hTimer' = [hTimer EXCEPT ![u] = made[u]]
      /\ pc' = [pc EXCEPT ![u] = "idle"] /\ made' = [made EXCEPT ![u] = Null]
      /\ UNCHANGED <<owner, due, poll, pTimer>>
  BY DEF StoreHandle, timer, polled
<1>2. /\ pc'[u] = "idle" /\ hTimer'[u] = made[u] /\ made[u] # Null
      /\ \A w \in Users \ {u} : pc'[w] = pc[w] /\ hTimer'[w] = hTimer[w] /\ made'[w] = made[w]
  BY <1>1, ListedFacts, Waiting DEF Basic
<1>3. \A w \in Users : ArmedOf'[w] = ArmedOf[w] /\ LeftOf'[w] = LeftOf[w]
  BY <1>1, <1>2 DEF ArmedOf, LeftOf, Armed
<1>4. ArmedOf' = ArmedOf /\ LeftOf' = LeftOf /\ RingingOf' = RingingOf
  BY <1>1, <1>3 DEF ArmedOf, LeftOf, RingingOf
<1> QED
  BY <1>4, Mapped

LEMMA CancelImplements ==
  ASSUME OneCore, TimerInv, NEW u \in Users, CancelKernelTimer(u)
  PROVE  Promise!Next
<1> DEFINE a == hTimer[u]
<1>1. /\ a # Null /\ pc[u] = "idle" /\ hTimer' = [hTimer EXCEPT ![u] = Null]
      /\ \A w \in Users : pc[w] = "idle"
      /\ poll = "idle" /\ UNCHANGED <<pc, made, poll>>
  BY DEF CancelKernelTimer, start, polled, Outside, OneCore
<1>2. a \in Addrs /\ owner[a] = u
  BY <1>1, Waiting
<1>3. due' = [due EXCEPT ![a] = 0] \/ due' = due
  BY DEF CancelKernelTimer, Unlink, Freed, timer
<1>4. ASSUME NEW w \in Users \ {u} PROVE LeftOf'[w] = LeftOf[w] /\ ArmedOf'[w] = ArmedOf[w]
  <2>1. hTimer'[w] = hTimer[w] /\ (hTimer[w] # Null => hTimer[w] \in Addrs \ {a})
    BY <1>1, <1>2, Waiting, ListedFacts DEF Basic
  <2>2. \A b \in Addrs \ {a} : due'[b] = due[b]
    BY <1>2, <1>3 DEF TimerInv, Counters
  <2> QED
    BY <1>1, <2>1, <2>2 DEF LeftOf, ArmedOf, Armed
<1>5. LeftOf'[u] = 0 /\ ArmedOf'[u] = FALSE /\ ArmedOf[u] = TRUE
  BY <1>1, ListedFacts DEF LeftOf, ArmedOf, Armed, Basic
<1>6. LeftOf' = [LeftOf EXCEPT ![u] = 0] /\ ArmedOf' = [ArmedOf EXCEPT ![u] = FALSE]
  BY <1>4, <1>5 DEF LeftOf, ArmedOf
<1>7. RingingOf' = RingingOf
  BY <1>1 DEF RingingOf
<1>8. Promise!Cancel(u)
  BY <1>5, <1>6, <1>7 DEF Promise!Cancel, LeftOf, ArmedOf, RingingOf
<1> QED
  BY <1>8 DEF Promise!Next

LEMMA InterruptImplements ==
  ASSUME TimerInv, InterruptHandler
  PROVE  Promise!Next
<1>1. /\ poll = "idle" /\ poll' = "first" /\ UNCHANGED <<hTimer, pc, made>>
      /\ \A a \in Addrs : due'[a] = IF owner[a] # Null THEN due[a] - 1 ELSE 0
  BY DEF InterruptHandler
<1>2. ASSUME NEW u \in Users
      PROVE  LeftOf'[u] = (IF ArmedOf[u] THEN LeftOf[u] - 1 ELSE 0) /\ ArmedOf'[u] = ArmedOf[u]
  <2>1. CASE pc[u] # "idle"
    <3>1. due'[made[u]] = due[made[u]] - 1
      BY <1>1, <2>1, Waiting, TimerAssumption
    <3> QED
      BY <1>1, <2>1, <3>1 DEF LeftOf, ArmedOf, Armed
  <2>2. CASE pc[u] = "idle" /\ hTimer[u] # Null
    <3>1. due'[hTimer[u]] = due[hTimer[u]] - 1
      BY <1>1, <2>2, Waiting, TimerAssumption
    <3> QED
      BY <1>1, <2>2, <3>1 DEF LeftOf, ArmedOf, Armed
  <2>3. CASE pc[u] = "idle" /\ hTimer[u] = Null
    BY <1>1, <2>3 DEF LeftOf, ArmedOf, Armed
  <2> QED
    BY <2>1, <2>2, <2>3
<1>3. /\ LeftOf' = [u \in Users |-> IF ArmedOf[u] THEN LeftOf[u] - 1 ELSE 0]
      /\ ArmedOf' = ArmedOf
  BY <1>2 DEF LeftOf, ArmedOf
<1>4. RingingOf' = RingingOf
  BY <1>1 DEF RingingOf
<1>5. Promise!Tick
  BY <1>3, <1>4 DEF Promise!Tick, LeftOf, ArmedOf, RingingOf
<1> QED
  BY <1>5 DEF Promise!Next

LEMMA PollStutters ==
  ASSUME PollTake \/ PollEnd
  PROVE  UNCHANGED Promise!svars
<1>1. /\ poll \in {"first", "next"} /\ poll' # "handler"
      /\ UNCHANGED <<due, hTimer, pc, made>>
  BY DEF PollTake, PollEnd, Take, timer, start, polled
<1>2. ArmedOf' = ArmedOf /\ LeftOf' = LeftOf /\ RingingOf' = RingingOf
  BY <1>1 DEF ArmedOf, LeftOf, RingingOf, Armed
<1> QED
  BY <1>2, Mapped

LEMMA HandlerCallImplements ==
  ASSUME TimerInv, HandlerCall
  PROVE  Promise!Next
<1> DEFINE u == owner[pTimer]
<1>1. /\ poll = "taken" /\ poll' = "handler" /\ hTimer' = [hTimer EXCEPT ![u] = Null]
      /\ UNCHANGED <<owner, due, pc, made, pTimer>>
  BY DEF HandlerCall, timer, start
<1>2. pTimer \in Addrs /\ u \in Users /\ hTimer[u] = pTimer /\ due[pTimer] <= 0
  BY <1>1, ListedFacts DEF Keeping, Basic, TimerInv, Known
<1>3. pc[u] = "idle" /\ pTimer # Null /\ RingingOf' = u /\ RingingOf = Null
  BY <1>1, <1>2, Waiting, TimerAssumption DEF RingingOf
<1> HIDE DEF u
<1>4. ASSUME NEW w \in Users \ {u} PROVE LeftOf'[w] = LeftOf[w] /\ ArmedOf'[w] = ArmedOf[w]
  BY <1>1, <1>2, ListedFacts DEF LeftOf, ArmedOf, Armed, Basic
<1>5. LeftOf'[u] = 0 /\ ArmedOf'[u] = FALSE /\ ArmedOf[u] = TRUE /\ LeftOf[u] <= 0
  BY <1>1, <1>2, <1>3, ListedFacts DEF LeftOf, ArmedOf, Armed, Basic
<1>6. LeftOf' = [LeftOf EXCEPT ![u] = 0] /\ ArmedOf' = [ArmedOf EXCEPT ![u] = FALSE]
  BY <1>4, <1>5 DEF LeftOf, ArmedOf
<1>7. PICK w \in Users : w = u
  BY <1>2
<1>8. Promise!Ring(w)
  BY <1>3, <1>5, <1>6, <1>7 DEF Promise!Ring, LeftOf, ArmedOf, RingingOf
<1> QED
  BY <1>8 DEF Promise!Next

LEMMA HandlerReturnImplements ==
  ASSUME OneCore, TimerInv, HandlerReturn
  PROVE  Promise!Next
<1>1. /\ poll = "handler" /\ poll' = "next" /\ pc[owner[pTimer]] = "idle"
      /\ due' = [due EXCEPT ![pTimer] = 0] /\ UNCHANGED <<hTimer, pc, made>>
  BY DEF HandlerReturn, Freed, OneCore, start
<1>2. pTimer \in Addrs /\ owner[pTimer] \in Users
  BY <1>1, ListedFacts DEF Keeping, Basic
<1>3. \A b \in Addrs \ {pTimer} : due'[b] = due[b]
  BY <1>1, <1>2 DEF TimerInv, Counters
<1>4. ASSUME NEW w \in Users PROVE LeftOf'[w] = LeftOf[w] /\ ArmedOf'[w] = ArmedOf[w]
  <2>1. /\ pc[w] # "idle" => made[w] \in Addrs \ {pTimer}
        /\ hTimer[w] # Null => hTimer[w] \in Addrs \ {pTimer}
    BY <1>1, Waiting
  <2> QED
    BY <1>1, <1>3, <2>1 DEF LeftOf, ArmedOf, Armed
<1>5. LeftOf' = LeftOf /\ ArmedOf' = ArmedOf
  BY <1>4 DEF LeftOf, ArmedOf
<1>6. RingingOf # Null /\ RingingOf' = Null
  BY <1>1, <1>2, TimerAssumption DEF RingingOf
<1>7. Promise!Return
  BY <1>5, <1>6 DEF Promise!Return, LeftOf, ArmedOf, RingingOf
<1> QED
  BY <1>7 DEF Promise!Next

LEMMA PromiseStep ==
  ASSUME OneCore, TimerInv, [Next]_vars
  PROVE  [Promise!Next]_(Promise!svars)
<1>1. CASE UNCHANGED vars
  BY <1>1, Mapped DEF vars, timer, start, polled, ArmedOf, LeftOf, RingingOf, Armed
<1> QED
  BY <1>1, StartImplements, InsertStutters, StoreStutters, CancelImplements, InterruptImplements,
     PollStutters, HandlerCallImplements, HandlerReturnImplements DEF Next, Starting, Polling

\* The kernel timers of core 0 keep the promise of TimerService: a handler is
\* called for a timer that is started and not cancelled, once, and not before
\* its delay has passed on the ticks of real time.
THEOREM TimersKeepPromise ==
  ASSUME OneCore
  PROVE  Spec => Implements
<1>1. TimerInv /\ [Next]_vars => TimerInv'
  BY TimerStep
<1>2. TimerInv /\ [Next]_vars => [Promise!Next]_(Promise!svars)
  BY PromiseStep
<1> QED
  BY <1>1, <1>2, TimerInit, PromiseInit, PTL DEF Spec, Implements, Promise!Spec

=============================================================================
