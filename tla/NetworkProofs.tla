----------------------------- MODULE NetworkProofs -----------------------------
(***************************************************************************)
(* Proofs about Transport, for any sockets, connections, ports and any     *)
(* backlog, with the lock and without it, and about ArpHandler, for every  *)
(* number of entries, hosts, link addresses and timers.                    *)
(*                                                                         *)
(* Transport: the invariant ties the table to the connections that live, a *)
(* handle to the connection its socket has been given, and what a blocked  *)
(* task has read before it waits to what it will find when it goes on: the *)
(* slot of the connection in which Connect waits is that connection's as   *)
(* long as it lives, and the slot of the handle that Accept has picked     *)
(* does not come to hold another connection of the listening socket.       *)
(*                                                                         *)
(* ArpHandler: the two invariants are inductive together with the types:   *)
(* an entry that waits for a reply is tied to its timer both ways, and no  *)
(* host is entered that has an entry already.                              *)
(***************************************************************************)
EXTENDS Transport, ArpHandler, FiniteSetTheorems, WellFoundedInduction, TLAPS

ObjectType ==
  [state : TcpStates \cup {"None", "Open", "Closed"}, protocol : Protocols \cup {"TCP", "UDP"},
   ownPort : OwnPorts \cup {0, ServerPort}, peer : Peers \cup {NoConnection},
   failed : BOOLEAN, event : BOOLEAN]
SocketType ==
  [call : {"None", "Ready", "Connect", "Accept"}, protocol : Protocols \cup {"TCP"},
   ownPort : {0, ServerPort}, h : Nat, listen : Seq(Nat \ {0}),
   waitsIn : Connections \cup {NoConnection}, waitsAt : Nat]

Types ==
  /\ m_nOwnPort \in OwnPorts
  /\ conn \in [Connections -> ObjectType]
  /\ sock \in [Sockets -> SocketType]
  /\ owner \in [Connections -> Sockets \cup {NoConnection}]
  /\ m_SpinLock \in Sockets \cup {"off", "free"}
  /\ stuck \in {"no", "spin", "assert"}

\* The table t holds the connections of L, each one once.
TableOf(t, L) ==
  /\ t \in Seq(Connections \cup {NoConnection})
  /\ \A i \in 1 .. Len(t) : t[i] # NoConnection => t[i] \in L
  /\ \A i, j \in 1 .. Len(t) : t[i] = t[j] /\ t[i] # NoConnection => i = j
  /\ \A c \in L : \E i \in 1 .. Len(t) : t[i] = c

\* The socket of record r keeps the handle i.
Keeps(r, i) == i = r.h \/ \E k \in 1 .. Len(r.listen) : r.listen[k] = i

\* The connections that socket s has been given are under its handles.
Found(s) ==
  \A c \in Connections :
    owner[c] = s => \E i \in 1 .. Len(m_pConnection) : m_pConnection[i] = c /\ Keeps(sock[s], i)

\* What a task has read before it blocks is still true.
Waits(s) ==
  /\ sock[s].call = "Connect" /\ sock[s].waitsIn \in Live =>
       /\ sock[s].waitsAt \in 1 .. Len(m_pConnection)
       /\ m_pConnection[sock[s].waitsAt] = sock[s].waitsIn
  /\ sock[s].call = "Accept" =>
       /\ sock[s].waitsAt \in 1 .. Len(sock[s].listen)
       /\ \A i \in 1 .. Len(m_pConnection) :
            /\ i = sock[s].listen[sock[s].waitsAt]
            /\ m_pConnection[i] # NoConnection /\ owner[m_pConnection[i]] = s
            => m_pConnection[i] = sock[s].waitsIn

SocketTrue(s) ==
  /\ sock[s].call = "None" => sock[s] = NoSocket
  /\ sock[s].call = "Connect" => sock[s].h = 0
  /\ sock[s].call \in {"Connect", "Accept"} => sock[s].waitsIn # NoConnection
  /\ sock[s].listen # <<>> => sock[s].ownPort = ServerPort

TransportInv ==
  /\ Types
  /\ TableOf(m_pConnection, Live)
  /\ \A c \in Connections : c \notin Live => owner[c] = NoConnection
  /\ \A s \in Sockets : Found(s) /\ Waits(s) /\ SocketTrue(s)
  /\ AutoPortsDistinct

-----------------------------------------------------------------------------
(* Least and greatest members                                              *)

LEMMA LeastMember ==
  ASSUME NEW S \in SUBSET Nat, S # {}
  PROVE  \E n \in S : \A k \in S : n <= k
<1>1. PICK n \in S : \A k \in S : ~(<<k, n>> \in OpToRel(<, Nat))
  BY WFMin, NatLessThanWellFounded
<1>2. \A k \in S : ~(k < n)
  BY <1>1 DEF OpToRel
<1> QED
  BY <1>2

LEMMA GreatestMember ==
  ASSUME NEW m \in Nat, NEW S \in SUBSET (1 .. m), S # {}
  PROVE  \E n \in S : \A k \in S : k <= n
<1> DEFINE T == {m - n : n \in S}
<1>1. T \in SUBSET Nat /\ T # {}
  <2>1. \A n \in S : m - n \in Nat
    OBVIOUS
  <2> QED
    BY <2>1
<1>2. PICK t \in T : \A k \in T : t <= k
  BY <1>1, LeastMember
<1>3. PICK n \in S : t = m - n
  BY <1>2
<1>4. ASSUME NEW k \in S PROVE k <= n
  <2>1. m - k \in T
    OBVIOUS
  <2>2. m - n <= m - k
    BY <1>2, <1>3, <2>1
  <2> QED
    BY <2>2
<1> QED
  BY <1>3, <1>4

-----------------------------------------------------------------------------
(* The table                                                               *)

\* Every connection of K that the table t holds is in the same slot of the table u.
Stay(t, u, K) ==
  \A i \in 1 .. Len(t) : t[i] \in K => i \in 1 .. Len(u) /\ u[i] = t[i]

\* The slot for a new connection is free, or is appended to the table.
LEMMA SlotForIs ==
  ASSUME NEW t \in Seq(Connections \cup {NoConnection})
  PROVE  \/ SlotFor(t) \in 1 .. Len(t) /\ t[SlotFor(t)] = NoConnection
         \/ SlotFor(t) = Len(t) + 1
<1> DEFINE free == {i \in DOMAIN t : t[i] = NoConnection}
<1>1. SlotFor(t) = IF free = {} THEN Len(t) + 1 ELSE CHOOSE i \in free : \A j \in free : i <= j
  BY DEF SlotFor
<1>2. free \in SUBSET (1 .. Len(t)) /\ free \in SUBSET Nat
  OBVIOUS
<1>3. \A i \in free : t[i] = NoConnection
  OBVIOUS
<1> HIDE DEF free
<1>4. CASE free # {}
  <2>1. \E n \in free : \A k \in free : n <= k
    BY <1>2, <1>4, LeastMember
  <2>2. SlotFor(t) \in free
    BY <1>1, <1>4, <2>1
  <2> QED
    BY <1>2, <1>3, <2>2
<1> QED
  BY <1>1, <1>4

\* A new connection is entered in the slot for it, and nothing else is changed.
LEMMA EnterIs ==
  ASSUME NEW L \in SUBSET Connections, NEW t, TableOf(t, L), NEW c \in Connections \ L
  PROVE  /\ TableOf(Enter(t, c), L \cup {c})
         /\ SlotFor(t) \in 1 .. Len(Enter(t, c)) /\ Enter(t, c)[SlotFor(t)] = c
         /\ SlotFor(t) \in Nat \ {0}
         /\ Stay(t, Enter(t, c), L)
<1> DEFINE n == SlotFor(t)
           u == Enter(t, c)
<1>1. t \in Seq(Connections \cup {NoConnection}) /\ c # NoConnection /\ NoConnection \notin L
  BY TransportAssumption DEF TableOf
<1>2. \/ n \in 1 .. Len(t) /\ t[n] = NoConnection
      \/ n = Len(t) + 1
  BY <1>1, SlotForIs
<1>3. u = IF n > Len(t) THEN Append(t, c) ELSE [t EXCEPT ![n] = c]
  BY DEF Enter
<1>4. /\ u \in Seq(Connections \cup {NoConnection})
      /\ n \in 1 .. Len(u) /\ Len(t) <= Len(u)
      /\ \A i \in 1 .. Len(u) : u[i] = IF i = n THEN c ELSE t[i]
      /\ \A i \in 1 .. Len(u) : i # n => i \in 1 .. Len(t)
  <2> HIDE DEF n, u
  <2>1. CASE n = Len(t) + 1
    <3>1. u = Append(t, c)
      BY <1>1, <1>3, <2>1
    <3> QED
      BY <1>1, <2>1, <3>1
  <2>2. CASE n \in 1 .. Len(t)
    <3>1. u = [t EXCEPT ![n] = c]
      BY <1>1, <1>3, <2>2
    <3>2. Len(u) = Len(t)
      BY <1>1, <3>1
    <3>3. u \in Seq(Connections \cup {NoConnection})
      BY <1>1, <2>2, <3>1
    <3> QED
      BY <1>1, <2>2, <3>1, <3>2, <3>3
  <2> QED
    BY <1>2, <2>1, <2>2
<1> HIDE DEF n, u
<1>5. \A i \in 1 .. Len(t) : t[i] # NoConnection => i \in 1 .. Len(u) /\ i # n /\ u[i] = t[i]
  BY <1>1, <1>2, <1>4
<1>6. TableOf(u, L \cup {c})
  <2>1. \A i \in 1 .. Len(u) : u[i] # NoConnection => u[i] \in L \cup {c}
    BY <1>4 DEF TableOf
  <2>2. \A i, j \in 1 .. Len(u) : u[i] = u[j] /\ u[i] # NoConnection => i = j
    BY <1>4 DEF TableOf
  <2>3. \A d \in L \cup {c} : \E i \in 1 .. Len(u) : u[i] = d
    BY <1>1, <1>4, <1>5 DEF TableOf
  <2> QED
    BY <1>4, <2>1, <2>2, <2>3 DEF TableOf
<1>7. Stay(t, u, L)
  BY <1>1, <1>5 DEF Stay
<1> QED
  BY <1>1, <1>2, <1>4, <1>6, <1>7 DEF n, u

\* Shrink takes off free slots only.
LEMMA ShrinkIs ==
  ASSUME NEW t \in Seq(Connections \cup {NoConnection})
  PROVE  /\ Shrink(t) \in Seq(Connections \cup {NoConnection})
         /\ Len(Shrink(t)) <= Len(t)
         /\ \A i \in 1 .. Len(Shrink(t)) : Shrink(t)[i] = t[i]
         /\ \A i \in 1 .. Len(t) : t[i] # NoConnection => i <= Len(Shrink(t))
<1> DEFINE used == {i \in DOMAIN t : t[i] # NoConnection}
           Good(n) == (\A i \in used : i <= n) /\ (n = 0 \/ n \in used)
           n == CHOOSE n \in 0 .. Len(t) : Good(n)
<1>1. used \in SUBSET (1 .. Len(t)) /\ Len(t) \in Nat
  OBVIOUS
<1>2. \E k \in 0 .. Len(t) : Good(k)
  <2> HIDE DEF used
  <2>1. CASE used = {}
    BY <1>1, <2>1
  <2>2. CASE used # {}
    <3>1. PICK k \in used : \A i \in used : i <= k
      BY <1>1, <2>2, GreatestMember
    <3> QED
      BY <1>1, <3>1
  <2> QED
    BY <2>1, <2>2
<1>3. n \in 0 .. Len(t) /\ Good(n)
  BY <1>2
<1>4. Shrink(t) = SubSeq(t, 1, n)
  BY DEF Shrink
<1>5. \A i \in 1 .. Len(t) : t[i] # NoConnection => i <= n
  BY <1>3
<1> HIDE DEF n, Good, used
<1>6. /\ SubSeq(t, 1, n) \in Seq(Connections \cup {NoConnection}) /\ Len(SubSeq(t, 1, n)) = n
      /\ \A i \in 1 .. n : SubSeq(t, 1, n)[i] = t[i]
  BY <1>3
<1> QED
  BY <1>3, <1>4, <1>5, <1>6

\* The definition of TablesWith is one: there are such tables.
LEMMA EnteredIs ==
  ASSUME NEW t, NEW cs
  PROVE  /\ TablesWith(t, cs)[0] = t
         /\ \A k \in 1 .. BackLog : TablesWith(t, cs)[k] = Enter(TablesWith(t, cs)[k - 1], cs[k])
<1> DEFINE Counts(f) == f = [k \in 0 .. BackLog |-> IF k = 0 THEN t ELSE Enter(f[k - 1], cs[k])]
           Upto(f, n) == /\ f = [k \in 0 .. n |-> f[k]] /\ f[0] = t
                         /\ \A k \in 1 .. n : f[k] = Enter(f[k - 1], cs[k])
           Breaks(n) == ~\E f : Upto(f, n)
           S == {n \in Nat : Breaks(n)}
<1>1. S = {}
  <2>1. SUFFICES ASSUME S # {} PROVE FALSE
    OBVIOUS
  <2>2. S \in SUBSET Nat
    OBVIOUS
  <2> HIDE DEF S
  <2>3. PICK n \in S : \A k \in S : n <= k
    BY <2>1, <2>2, LeastMember
  <2>4. n \in Nat /\ Breaks(n)
    BY <2>3 DEF S
  <2>5. CASE n = 0
    <3> DEFINE f == [k \in 0 .. 0 |-> t]
    <3>1. Upto(f, 0)
      OBVIOUS
    <3> QED
      BY <2>4, <2>5, <3>1
  <2>6. CASE n # 0
    <3>1. n - 1 \in Nat /\ n - 1 \notin S
      BY <2>3, <2>4, <2>6
    <3>2. PICK f : Upto(f, n - 1)
      BY <3>1 DEF S
    <3> DEFINE g == [k \in 0 .. n |-> IF k = n THEN Enter(f[n - 1], cs[n]) ELSE f[k]]
    <3>3. \A k \in 0 .. n : g[k] = IF k = n THEN Enter(f[n - 1], cs[n]) ELSE f[k]
      OBVIOUS
    <3>4. g = [k \in 0 .. n |-> g[k]]
      OBVIOUS
    <3> HIDE DEF g
    <3>5. g[0] = t
      BY <2>4, <2>6, <3>2, <3>3
    <3>6. ASSUME NEW k \in 1 .. n PROVE g[k] = Enter(g[k - 1], cs[k])
      <4>1. g[k - 1] = f[k - 1]
        BY <2>4, <3>3
      <4>2. CASE k # n
        <5>1. k \in 1 .. n - 1 /\ g[k] = f[k]
          BY <2>4, <3>3, <4>2
        <5>2. f[k] = Enter(f[k - 1], cs[k])
          BY <3>2, <5>1
        <5> QED
          BY <4>1, <5>1, <5>2
      <4> QED
        BY <2>4, <3>3, <4>1, <4>2
    <3> QED
      BY <2>4, <3>4, <3>5, <3>6
  <2> QED
    BY <2>5, <2>6
<1>2. PICK o : Upto(o, BackLog)
  BY <1>1, TransportAssumption
<1>3. Counts(o)
  <2>1. ASSUME NEW k \in 0 .. BackLog
        PROVE  o[k] = IF k = 0 THEN t ELSE Enter(o[k - 1], cs[k])
    <3>1. CASE k = 0
      BY <1>2, <3>1
    <3>2. CASE k # 0
      <4>1. k \in 1 .. BackLog
        BY <3>2, TransportAssumption
      <4> QED
        BY <1>2, <3>2, <4>1
    <3> QED
      BY <3>1, <3>2
  <2> QED
    BY <1>2, <2>1
<1>4. TablesWith(t, cs) = CHOOSE f : Counts(f)
  BY DEF TablesWith
<1> HIDE DEF Counts
<1>5. Counts(TablesWith(t, cs))
  BY <1>3, <1>4
<1> DEFINE e == TablesWith(t, cs)
<1>6. e = [k \in 0 .. BackLog |-> IF k = 0 THEN t ELSE Enter(e[k - 1], cs[k])]
  BY <1>5 DEF Counts
<1> HIDE DEF e
<1>7. e[0] = t /\ \A k \in 1 .. BackLog : e[k] = Enter(e[k - 1], cs[k])
  BY <1>6, TransportAssumption
<1> QED
  BY <1>7 DEF e

\* In the last one of the tables e, cs[k] is in the slot that was for it in the table before.
Placed(e, cs) ==
  \A k \in 1 .. BackLog :
    /\ SlotFor(e[k - 1]) \in 1 .. Len(e[BackLog]) /\ SlotFor(e[k - 1]) \in Nat \ {0}
    /\ e[BackLog][SlotFor(e[k - 1])] = cs[k]

\* All the connections of cs are entered, and are under the slots there were for them.
LEMMA EnteredAll ==
  ASSUME NEW L \in SUBSET Connections, NEW t, TableOf(t, L),
         NEW cs, cs \in [1 .. BackLog -> Connections \ L],
         \A i, j \in 1 .. BackLog : cs[i] = cs[j] => i = j,
         NEW N, \A c : c \in N <=> \E k \in 1 .. BackLog : c = cs[k],
         NEW e, e = TablesWith(t, cs)
  PROVE  /\ TableOf(e[BackLog], L \cup N)
         /\ Stay(t, e[BackLog], L)
         /\ Placed(e, cs)
<1>0. e = TablesWith(t, cs)
  OBVIOUS
<1>1. e[0] = t /\ \A k \in 1 .. BackLog : e[k] = Enter(e[k - 1], cs[k])
  <2>1. TablesWith(t, cs)[0] = t
    BY ONLY EnteredIs
  <2>2. ASSUME NEW k \in 1 .. BackLog
        PROVE  TablesWith(t, cs)[k] = Enter(TablesWith(t, cs)[k - 1], cs[k])
    BY ONLY EnteredIs
  <2> QED
    BY ONLY <1>0, <2>1, <2>2
<1> DEFINE M(n) == L \cup {cs[i] : i \in 1 .. n}
           Good(n) ==
             /\ TableOf(e[n], M(n))
             /\ Stay(t, e[n], L)
             /\ \A k \in 1 .. n :
                  /\ SlotFor(e[k - 1]) \in 1 .. Len(e[n]) /\ SlotFor(e[k - 1]) \in Nat \ {0}
                  /\ e[n][SlotFor(e[k - 1])] = cs[k]
           S == {n \in 0 .. BackLog : ~Good(n)}
<1>2. Good(0)
  <2>1. M(0) = L
    OBVIOUS
  <2>2. Stay(t, t, L)
    BY DEF Stay
  <2>3. \A k \in 1 .. 0 : FALSE
    OBVIOUS
  <2> HIDE DEF M
  <2> QED
    BY <1>1, <2>1, <2>2, <2>3
<1>3. ASSUME NEW n \in 1 .. BackLog, Good(n - 1) PROVE Good(n)
  <2>1. /\ M(n - 1) \in SUBSET Connections /\ L \subseteq M(n - 1)
        /\ cs[n] \in Connections \ M(n - 1)
        /\ M(n) = M(n - 1) \cup {cs[n]}
        /\ \A k \in 1 .. n - 1 : cs[k] \in M(n - 1)
    BY TransportAssumption
  <2> DEFINE m == M(n - 1)
             u == e[n - 1]
             d == cs[n]
  <2>2. TableOf(u, m)
    BY <1>3
  <2>3. e[n] = Enter(u, d)
    BY <1>1
  <2>4. /\ TableOf(Enter(u, d), m \cup {d})
        /\ SlotFor(u) \in 1 .. Len(Enter(u, d)) /\ Enter(u, d)[SlotFor(u)] = d
        /\ SlotFor(u) \in Nat \ {0}
        /\ Stay(u, Enter(u, d), m)
    <3>1. m \in SUBSET Connections /\ d \in Connections \ m
      BY <2>1
    <3> HIDE DEF m, u, d
    <3> QED
      BY <2>2, <3>1, EnterIs
  <2>5. Stay(t, e[n], L)
    <3>1. Stay(t, u, L)
      BY <1>3
    <3>2. L \subseteq m
      BY <2>1
    <3> HIDE DEF m, u, d
    <3> QED
      BY <2>3, <2>4, <3>1, <3>2 DEF Stay
  <2>6. ASSUME NEW k \in 1 .. n
        PROVE  /\ SlotFor(e[k - 1]) \in 1 .. Len(e[n]) /\ SlotFor(e[k - 1]) \in Nat \ {0}
               /\ e[n][SlotFor(e[k - 1])] = cs[k]
    <3>1. CASE k = n
      BY <2>3, <2>4, <3>1
    <3>2. CASE k # n
      <4>1. k \in 1 .. n - 1
        BY <3>2, TransportAssumption
      <4>2. /\ SlotFor(e[k - 1]) \in 1 .. Len(u) /\ SlotFor(e[k - 1]) \in Nat \ {0}
            /\ u[SlotFor(e[k - 1])] = cs[k] /\ cs[k] \in m
        BY <1>3, <2>1, <4>1
      <4> HIDE DEF m, u, d
      <4> QED
        BY <2>3, <2>4, <4>2 DEF Stay
    <3> QED
      BY <3>1, <3>2
  <2>7. TableOf(e[n], M(n))
    BY <2>1, <2>3, <2>4
  <2> QED
    BY <2>5, <2>6, <2>7
<1>4. S = {}
  <2>1. SUFFICES ASSUME S # {} PROVE FALSE
    OBVIOUS
  <2>2. S \in SUBSET Nat
    OBVIOUS
  <2>3. \A n \in S : n \in 0 .. BackLog /\ ~Good(n)
    OBVIOUS
  <2>4. \A n \in 0 .. BackLog : n \notin S => Good(n)
    OBVIOUS
  <2> HIDE DEF S, Good
  <2>5. PICK n \in S : \A k \in S : n <= k
    BY <2>1, <2>2, LeastMember
  <2>6. n \in 1 .. BackLog /\ n - 1 \notin S /\ n - 1 \in 0 .. BackLog
    BY <1>2, <2>3, <2>5, TransportAssumption
  <2>7. Good(n - 1)
    BY <2>4, <2>6
  <2> QED
    BY <1>3, <2>3, <2>5, <2>6, <2>7
<1>5. Good(BackLog)
  <2>1. \A n \in 0 .. BackLog : Good(n)
    BY <1>4
  <2> HIDE DEF Good
  <2> QED
    BY <2>1, TransportAssumption
<1>6. M(BackLog) = L \cup N
  OBVIOUS
<1> QED
  BY <1>5, <1>6 DEF Placed

-----------------------------------------------------------------------------
(* Own ports                                                               *)

LEMMA Remainders ==
  ASSUME NEW n \in Nat \ {0}
  PROVE  /\ \A a \in Nat : a % n \in 0 .. n - 1
         /\ \A a \in 0 .. n - 1 : a % n = a /\ (a + n) % n = a
<1>1. ASSUME NEW a \in Nat PROVE a % n \in 0 .. n - 1
  OBVIOUS
<1>2. ASSUME NEW a \in 0 .. n - 1 PROVE a % n = a
  OBVIOUS
<1>3. ASSUME NEW a \in 0 .. n - 1 PROVE (a + n) % n = a
  OBVIOUS
<1> QED
  BY <1>1, <1>2, <1>3

\* The circle of ports passes every port, and the port that is taken from it is not used.
LEMMA FirstUnusedIs ==
  ASSUME m_nOwnPort \in OwnPorts, NEW protocol, \E p \in OwnPorts : ~PortUsed(p, protocol)
  PROVE  FirstUnused(protocol) \in OwnPorts /\ ~PortUsed(FirstUnused(protocol), protocol)
<1> DEFINE n == OWN_PORT_MAX - OWN_PORT_MIN + 1
           after(i) == OWN_PORT_MIN + ((m_nOwnPort - OWN_PORT_MIN + i) % n)
           Good(i) == /\ ~PortUsed(after(i), protocol)
                      /\ \A j \in 0 .. i - 1 : PortUsed(after(j), protocol)
           k == CHOOSE i \in 0 .. n - 1 : Good(i)
           S == {i \in 0 .. n - 1 : ~PortUsed(after(i), protocol)}
<1>1. n \in Nat \ {0} /\ m_nOwnPort - OWN_PORT_MIN \in 0 .. n - 1
      /\ OWN_PORT_MIN \in Nat /\ OWN_PORT_MAX = OWN_PORT_MIN + n - 1
  BY TransportAssumption DEF OwnPorts
<1>2. FirstUnused(protocol) = after(k)
  BY DEF FirstUnused
<1>3. \A i \in 0 .. n - 1 : after(i) \in OwnPorts
  <2> DEFINE d == m_nOwnPort - OWN_PORT_MIN
  <2>1. \A i \in 0 .. n - 1 : (d + i) % n \in 0 .. n - 1
    <3>1. n \in Nat \ {0} /\ d \in 0 .. n - 1
      BY <1>1
    <3> HIDE DEF n, d
    <3>2. \A i \in 0 .. n - 1 : d + i \in Nat
      BY <3>1
    <3> QED
      BY <3>1, <3>2, Remainders
  <2>2. \A i \in 0 .. n - 1 : after(i) = OWN_PORT_MIN + ((d + i) % n)
    OBVIOUS
  <2>3. \A r \in 0 .. n - 1 : OWN_PORT_MIN + r \in OwnPorts
    BY <1>1 DEF OwnPorts
  <2> HIDE DEF d, n, after
  <2> QED
    BY <2>1, <2>2, <2>3
<1>4. S # {}
  <2>1. PICK p \in OwnPorts : ~PortUsed(p, protocol)
    OBVIOUS
  <2> DEFINE d == m_nOwnPort - OWN_PORT_MIN
             r == p - OWN_PORT_MIN
             i == IF r >= d THEN r - d ELSE r - d + n
  <2>2. r \in 0 .. n - 1 /\ d \in 0 .. n - 1 /\ i \in 0 .. n - 1 /\ OWN_PORT_MIN + r = p
    BY <1>1 DEF OwnPorts
  <2>3. (d + i) % n = r
    <3>1. d + i = r \/ d + i = r + n
      BY <1>1, <2>2
    <3>2. n \in Nat \ {0} /\ r \in 0 .. n - 1
      BY <1>1, <2>2
    <3> HIDE DEF n, d, r, i
    <3> QED
      BY <3>1, <3>2, Remainders
  <2>4. after(i) = p
    <3>1. after(i) = OWN_PORT_MIN + ((d + i) % n)
      OBVIOUS
    <3> HIDE DEF after, d, i, n, r
    <3> QED
      BY <2>2, <2>3, <3>1
  <2> HIDE DEF after, i
  <2> QED
    BY <2>1, <2>2, <2>4
<1>5. S \in SUBSET Nat
  BY <1>1
<1>6. PICK i \in S : \A j \in S : i <= j
  BY <1>4, <1>5, LeastMember
<1>7. i \in 0 .. n - 1 /\ ~PortUsed(after(i), protocol)
  OBVIOUS
<1>8. \A j \in 0 .. i - 1 : PortUsed(after(j), protocol)
  <2>1. \A j \in 0 .. n - 1 : j \notin S => PortUsed(after(j), protocol)
    OBVIOUS
  <2>2. \A j \in 0 .. i - 1 : j \in 0 .. n - 1 /\ ~(i <= j)
    BY <1>1, <1>7
  <2> HIDE DEF S, after, n
  <2> QED
    BY <1>6, <2>1, <2>2
<1>9. k \in 0 .. n - 1 /\ Good(k)
  <2> HIDE DEF after, n
  <2> QED
    BY <1>7, <1>8
<1> HIDE DEF k, n, after
<1> QED
  BY <1>2, <1>3, <1>9

\* A connection with a port that is not chosen by the transport layer, or is not used, may be
\* entered, if the others keep their ports.
LEMMA PortsStay ==
  ASSUME AutoPortsDistinct, NEW c, Live' \subseteq Live \cup {c},
         \A o \in Live' : o # c => /\ conn'[o].ownPort = conn[o].ownPort
                                   /\ conn'[o].protocol = conn[o].protocol,
         c \in Live' => \/ conn'[c].ownPort \notin OwnPorts
                        \/ ~PortUsed(conn'[c].ownPort, conn'[c].protocol)
  PROVE  AutoPortsDistinct'
<1> SUFFICES ASSUME NEW a \in Live', NEW b \in Live', a # b,
                    conn'[a].protocol = conn'[b].protocol, conn'[a].ownPort = conn'[b].ownPort,
                    conn'[a].ownPort \in OwnPorts
             PROVE  FALSE
  BY DEF AutoPortsDistinct, OwnPorts
<1>1. CASE a # c /\ b # c
  BY <1>1 DEF AutoPortsDistinct
<1>2. CASE a = c \/ b = c
  BY <1>2 DEF PortUsed
<1> QED
  BY <1>1, <1>2

-----------------------------------------------------------------------------
(* What every step leaves true                                             *)

\* A socket of which the step changes nothing finds its connections, and what its task has read
\* is still true, if those that live stay in their slots, and none is given to it.
LEMMA OthersKeep ==
  ASSUME TransportInv, NEW s \in Sockets,
         TableOf(m_pConnection', Live'), Stay(m_pConnection, m_pConnection', Live'),
         \A t \in Sockets : sock[t].waitsIn \in Live' => sock[t].waitsIn \in Live,
         \A c \in Connections : owner'[c] = s => owner[c] = s,
         \A c \in Connections : c \notin Live' => owner'[c] = NoConnection,
         sock'[s] = sock[s]
  PROVE  Found(s)' /\ Waits(s)'
<1>1. s # NoConnection
  BY SocketsAssumption
<1>2. Found(s) /\ Waits(s)
  BY DEF TransportInv
<1>3. ASSUME NEW c \in Connections, owner'[c] = s
      PROVE  \E i \in 1 .. Len(m_pConnection) :
               /\ m_pConnection[i] = c /\ Keeps(sock[s], i)
               /\ i \in 1 .. Len(m_pConnection') /\ m_pConnection'[i] = c
  <2>1. c \in Live' /\ owner[c] = s
    BY <1>1, <1>3
  <2>2. PICK i \in 1 .. Len(m_pConnection) : m_pConnection[i] = c /\ Keeps(sock[s], i)
    BY <1>2, <2>1 DEF Found
  <2> QED
    BY <2>1, <2>2 DEF Stay
<1>4. Found(s)'
  BY <1>3 DEF Found
<1>5. sock'[s].call = "Connect" /\ sock'[s].waitsIn \in Live' =>
        /\ sock'[s].waitsAt \in 1 .. Len(m_pConnection')
        /\ m_pConnection'[sock'[s].waitsAt] = sock'[s].waitsIn
  BY <1>2 DEF Waits, Stay
<1>6. ASSUME sock'[s].call = "Accept",
             NEW i \in 1 .. Len(m_pConnection'),
             i = sock'[s].listen[sock'[s].waitsAt],
             m_pConnection'[i] # NoConnection, owner'[m_pConnection'[i]] = s
      PROVE  m_pConnection'[i] = sock'[s].waitsIn
  <2> DEFINE c == m_pConnection'[i]
  <2>1. c \in Connections /\ owner[c] = s
    <3>1. m_pConnection' \in Seq(Connections \cup {NoConnection})
      BY DEF TableOf
    <3> QED
      BY <1>6, <3>1
  <2>2. PICK j \in 1 .. Len(m_pConnection) :
               /\ m_pConnection[j] = c
               /\ j \in 1 .. Len(m_pConnection') /\ m_pConnection'[j] = c
    BY <1>3, <1>6, <2>1
  <2>3. i = j
    BY <1>6, <2>2 DEF TableOf
  <2> QED
    BY <1>2, <1>6, <2>1, <2>2, <2>3 DEF Waits
<1>7. sock'[s].call = "Accept" => sock'[s].waitsAt \in 1 .. Len(sock'[s].listen)
  BY <1>2 DEF Waits
<1> QED
  BY <1>4, <1>5, <1>6, <1>7 DEF Waits

\* A new connection is entered: the table is right, and it stays in its slot as the others do.
LEMMA EnterStep ==
  ASSUME TransportInv, Unallocated # {},
         m_pConnection' = Enter(m_pConnection, New), Live' = Live \cup {New}
  PROVE  /\ New \in Connections /\ New \notin Live /\ owner[New] = NoConnection
         /\ \A t \in Sockets : sock[t].waitsIn # New
         /\ TableOf(m_pConnection', Live') /\ Stay(m_pConnection, m_pConnection', Live')
         /\ SlotFor(m_pConnection) \in 1 .. Len(m_pConnection')
         /\ m_pConnection'[SlotFor(m_pConnection)] = New
         /\ SlotFor(m_pConnection) \in Nat \ {0}
         /\ \A t \in Sockets : sock[t].waitsIn \in Live' => sock[t].waitsIn \in Live
<1> DEFINE c == New
           u == Enter(m_pConnection, c)
<1>1. c \in Unallocated
  BY DEF New
<1>2. c \in Connections \ Live /\ \A t \in Sockets : sock[t].waitsIn # c
  BY <1>1 DEF Unallocated
<1>3. Live \in SUBSET Connections /\ TableOf(m_pConnection, Live)
  BY DEF TransportInv, Live
<1> HIDE DEF c
<1>4. /\ TableOf(u, Live \cup {c}) /\ Stay(m_pConnection, u, Live)
      /\ SlotFor(m_pConnection) \in 1 .. Len(u) /\ u[SlotFor(m_pConnection)] = c
      /\ SlotFor(m_pConnection) \in Nat \ {0}
  BY <1>2, <1>3, EnterIs
<1>5. \A i \in 1 .. Len(m_pConnection) : m_pConnection[i] # c
  BY <1>2, <1>3, TransportAssumption DEF TableOf
<1>6. m_pConnection' = u /\ Live' = Live \cup {c}
  BY DEF c
<1> HIDE DEF u
<1>7. Stay(m_pConnection, u, Live \cup {c})
  BY <1>4, <1>5 DEF Stay
<1>8. owner[c] = NoConnection
  BY <1>2 DEF TransportInv
<1> QED
  BY <1>2, <1>4, <1>6, <1>7, <1>8 DEF c

-----------------------------------------------------------------------------
(* Connection objects                                                      *)

ObjectStates == TcpStates \cup {"None", "Open", "Closed"}

\* o has the type of an object, lives if p does, and has its protocol and its port.
Same(o, p) ==
  /\ o \in ObjectType
  /\ o.state = "None" <=> p.state = "None"
  /\ o.protocol = p.protocol /\ o.ownPort = p.ownPort

LEMMA NoObjectIs == NoObject \in ObjectType /\ NoObject.state = "None"
BY DEF NoObject, ObjectType

LEMMA ObjectIs ==
  ASSUME NEW protocol \in {"TCP", "UDP"}, NEW state \in {"Open", "Listen", "SynSent", "Closed"},
         NEW port \in OwnPorts \cup {0, ServerPort}
  PROVE  /\ Object(protocol, state, port) \in ObjectType
         /\ Object(protocol, state, port).state # "None"
         /\ Object(protocol, state, port).protocol = protocol
         /\ Object(protocol, state, port).ownPort = port
BY NoObjectIs DEF Object, ObjectType, TcpStates

LEMMA SameIs == \A o \in ObjectType : Same(o, o)
BY DEF Same

LEMMA SameTwice == \A o, p, q : Same(o, p) /\ Same(p, q) => Same(o, q)
BY DEF Same

LEMMA StateIs ==
  ASSUME NEW o \in ObjectType, o.state # "None", NEW state \in ObjectStates \ {"None"}
  PROVE  Same([o EXCEPT !.state = state], o)
BY DEF ObjectType, Same, ObjectStates, TcpStates

LEMMA PeerIs ==
  ASSUME NEW o \in ObjectType, NEW peer \in Peers \cup {NoConnection}
  PROVE  Same([o EXCEPT !.peer = peer], o)
BY DEF ObjectType, Same

LEMMA EventIs ==
  ASSUME NEW o \in ObjectType, NEW event \in BOOLEAN
  PROVE  Same([o EXCEPT !.event = event], o)
BY DEF ObjectType, Same

LEMMA FailedIs ==
  ASSUME NEW o \in ObjectType, NEW failed \in BOOLEAN
  PROVE  Same([o EXCEPT !.failed = failed], o)
BY DEF ObjectType, Same

LEMMA ClosesIs ==
  ASSUME conn \in [Connections -> ObjectType], NEW c \in Connections
  PROVE  Same(Closes(c), conn[c])
<1> DEFINE o == conn[c]
<1>1. o \in ObjectType /\ o.failed \in BOOLEAN
  BY DEF ObjectType
<1>2. \/ Closes(c) = o
      \/ o.state # "None" /\ Closes(c) = [o EXCEPT !.state = "FINQueued"]
      \/ o.state # "None" /\ Closes(c) = [o EXCEPT !.state = "Closed"]
  BY <1>1 DEF Closes
<1>3. {"FINQueued", "Closed"} \subseteq ObjectStates \ {"None"}
  BY DEF ObjectStates, TcpStates
<1> HIDE DEF o
<1> QED
  BY <1>1, <1>2, <1>3, SameIs, StateIs DEF o

LEMMA LeftBehindIs ==
  ASSUME conn \in [Connections -> ObjectType], NEW c \in Connections
  PROVE  /\ LeftBehind(c) \in ObjectType
         /\ LeftBehind(c).state = "None" <=> conn[c].state = "None"
         /\ conn[c].state # "None" => Same(LeftBehind(c), conn[c])
<1>1. conn[c] \in ObjectType
  OBVIOUS
<1>2. Same([conn[c] EXCEPT !.event = FALSE], conn[c])
  BY <1>1, EventIs
<1> QED
  BY <1>2, NoObjectIs DEF LeftBehind, Same

-----------------------------------------------------------------------------
(* Steps                                                                   *)

\* What has to be shown of a step that changes the sockets of M only.
LEMMA StepKeeps ==
  ASSUME TransportInv, Types', NEW M \in SUBSET Sockets,
         TableOf(m_pConnection', Live'), Stay(m_pConnection, m_pConnection', Live'),
         \A t \in Sockets : sock[t].waitsIn \in Live' => sock[t].waitsIn \in Live,
         \A c \in Connections : c \notin Live' => owner'[c] = NoConnection,
         \A t \in Sockets \ M : sock'[t] = sock[t],
         \A t \in Sockets \ M : \A c \in Connections : owner'[c] = t => owner[c] = t,
         \A t \in M : Found(t)' /\ Waits(t)' /\ SocketTrue(t)',
         AutoPortsDistinct'
  PROVE  TransportInv'
<1>1. ASSUME NEW t \in Sockets PROVE Found(t)' /\ Waits(t)' /\ SocketTrue(t)'
  <2>1. CASE t \in M
    BY <2>1
  <2>2. CASE t \notin M
    <3>1. Found(t)' /\ Waits(t)'
      BY <2>2, OthersKeep
    <3>2. SocketTrue(t) /\ sock'[t] = sock[t]
      BY <2>2 DEF TransportInv
    <3>3. SocketTrue(t)'
      BY <3>2 DEF SocketTrue
    <3> QED
      BY <3>1, <3>3
  <2> QED
    BY <2>1, <2>2
<1>2. TableOf(m_pConnection, Live)'
  OBVIOUS
<1> QED
  BY <1>1, <1>2 DEF TransportInv

LEMMA NoSocketStep ==
  ASSUME TransportInv, Types', UNCHANGED sock,
         TableOf(m_pConnection', Live'), Stay(m_pConnection, m_pConnection', Live'),
         \A t \in Sockets : sock[t].waitsIn \in Live' => sock[t].waitsIn \in Live,
         \A c \in Connections : c \notin Live' => owner'[c] = NoConnection,
         \A c \in Connections : owner'[c] # NoConnection => owner'[c] = owner[c],
         AutoPortsDistinct'
  PROVE  TransportInv'
<1> DEFINE M == {}
<1>1. M \in SUBSET Sockets /\ \A t \in M : FALSE
  OBVIOUS
<1> HIDE DEF M
<1>2. \A t \in Sockets \ M : \A c \in Connections : owner'[c] = t => owner[c] = t
  BY SocketsAssumption
<1>3. \A t \in Sockets \ M : sock'[t] = sock[t]
  OBVIOUS
<1>4. \A t \in M : Found(t)' /\ Waits(t)' /\ SocketTrue(t)'
  BY <1>1
<1> QED
  BY <1>1, <1>2, <1>3, <1>4, StepKeeps

LEMMA OneSocketStep ==
  ASSUME TransportInv, Types', NEW s \in Sockets,
         TableOf(m_pConnection', Live'), Stay(m_pConnection, m_pConnection', Live'),
         \A t \in Sockets : sock[t].waitsIn \in Live' => sock[t].waitsIn \in Live,
         \A c \in Connections : c \notin Live' => owner'[c] = NoConnection,
         \A t \in Sockets \ {s} : sock'[t] = sock[t],
         \A c \in Connections : \/ owner'[c] = owner[c]
                                \/ owner'[c] \in {s, NoConnection},
         Found(s)', Waits(s)', SocketTrue(s)',
         AutoPortsDistinct'
  PROVE  TransportInv'
<1> DEFINE M == {s}
<1>1. M \in SUBSET Sockets /\ \A t \in M : t = s
  OBVIOUS
<1>2. \A t \in Sockets \ M : \A c \in Connections : owner'[c] = t => owner[c] = t
  BY SocketsAssumption
<1>3. \A t \in Sockets \ M : sock'[t] = sock[t]
  OBVIOUS
<1>4. \A t \in M : Found(t)' /\ Waits(t)' /\ SocketTrue(t)'
  BY <1>1
<1> HIDE DEF M
<1> QED
  BY <1>1, <1>2, <1>3, <1>4, StepKeeps

\* A step that enters and deletes no connection.
LEMMA QuietStep ==
  ASSUME TransportInv, m_pConnection' = m_pConnection,
         \A c \in Connections : conn'[c].state = "None" <=> conn[c].state = "None",
         \A c \in Live : conn'[c].ownPort = conn[c].ownPort /\ conn'[c].protocol = conn[c].protocol
  PROVE  /\ Live' = Live
         /\ TableOf(m_pConnection', Live') /\ Stay(m_pConnection, m_pConnection', Live')
         /\ AutoPortsDistinct'
<1>1. Live' = Live
  BY DEF Live
<1>2. NoConnection \notin Live
  BY TransportAssumption DEF Live
<1>3. AutoPortsDistinct'
  BY <1>1, <1>2, PortsStay DEF TransportInv
<1>4. TableOf(m_pConnection, Live)
  BY DEF TransportInv
<1> QED
  BY <1>1, <1>3, <1>4 DEF Stay

\* A socket without handles has been given no connection.
LEMMA NothingGiven ==
  ASSUME TransportInv, NEW s \in Sockets, sock[s].h = 0, sock[s].listen = <<>>
  PROVE  \A c \in Connections : owner[c] # s
<1> SUFFICES ASSUME NEW c \in Connections, owner[c] = s PROVE FALSE
  OBVIOUS
<1>1. PICK i \in 1 .. Len(m_pConnection) : Keeps(sock[s], i)
  BY DEF TransportInv, Found
<1>2. Len(m_pConnection) \in Nat
  BY DEF TransportInv, TableOf
<1> QED
  BY <1>1, <1>2 DEF Keeps

\* A step that only ends the system.
LEMMA StuckStep ==
  ASSUME TransportInv, stuck' \in {"no", "spin", "assert"},
         UNCHANGED <<m_pConnection, m_nOwnPort, conn, sock, owner, m_SpinLock>>
  PROVE  TransportInv'
<1>1. Types'
  BY DEF TransportInv, Types
<1>2. Live' = Live /\ TableOf(m_pConnection', Live') /\ Stay(m_pConnection, m_pConnection', Live')
      /\ AutoPortsDistinct'
  BY QuietStep
<1>3. \A c \in Connections : c \notin Live => owner[c] = NoConnection
  BY DEF TransportInv
<1> QED
  BY <1>1, <1>2, <1>3, NoSocketStep

LEMMA NewSocketStep ==
  ASSUME TransportInv, NEW s \in Sockets, NewSocket(s)
  PROVE  TransportInv'
<1>1. PICK p \in Protocols \cup {"TCP"} :
        sock' = [sock EXCEPT ![s] = [NoSocket EXCEPT !.call = "Ready", !.protocol = p]]
  BY DEF NewSocket
<1> DEFINE r == [NoSocket EXCEPT !.call = "Ready", !.protocol = p]
<1>2. /\ sock[s] = NoSocket /\ sock[s].h = 0 /\ sock[s].listen = <<>>
      /\ UNCHANGED <<m_pConnection, m_nOwnPort, conn, owner, m_SpinLock, stuck>>
  BY DEF NewSocket, TransportInv, SocketTrue, NoSocket
<1>3. r \in SocketType /\ r.h = 0 /\ r.listen = <<>> /\ r.call = "Ready"
  <2>1. <<>> \in Seq(Nat \ {0})
    OBVIOUS
  <2> QED
    BY <2>1 DEF NoSocket, SocketType
<1> HIDE DEF r
<1>4. sock' \in [Sockets -> SocketType] /\ sock'[s] = r /\ \A t \in Sockets \ {s} : sock'[t] = sock[t]
  BY <1>1, <1>3 DEF r, TransportInv, Types
<1>5. Types'
  BY <1>2, <1>4 DEF TransportInv, Types
<1>6. Live' = Live /\ TableOf(m_pConnection', Live') /\ Stay(m_pConnection, m_pConnection', Live')
      /\ AutoPortsDistinct'
  BY <1>2, QuietStep
<1>7. \A c \in Connections : owner'[c] # s
  BY <1>2, NothingGiven
<1>8. Found(s)' /\ Waits(s)' /\ SocketTrue(s)'
  BY <1>3, <1>4, <1>7 DEF Found, Waits, SocketTrue
<1>9. \A c \in Connections : c \notin Live => owner[c] = NoConnection
  BY DEF TransportInv
<1> QED
  BY <1>2, <1>4, <1>5, <1>6, <1>8, <1>9, OneSocketStep

LEMMA BindTCPStep ==
  ASSUME TransportInv, NEW s \in Sockets, BindTCP(s)
  PROVE  TransportInv'
<1>1. /\ sock' = [sock EXCEPT ![s].ownPort = ServerPort] /\ sock[s].call = "Ready"
      /\ UNCHANGED <<m_pConnection, m_nOwnPort, conn, owner, m_SpinLock, stuck>>
  BY DEF BindTCP, Runs
<1>2. /\ sock' \in [Sockets -> SocketType] /\ \A t \in Sockets \ {s} : sock'[t] = sock[t]
      /\ sock'[s].call = "Ready" /\ sock'[s].h = sock[s].h /\ sock'[s].listen = sock[s].listen
      /\ sock'[s].waitsIn = sock[s].waitsIn /\ sock'[s].ownPort = ServerPort
  BY <1>1 DEF TransportInv, Types, SocketType
<1>3. Types'
  BY <1>1, <1>2 DEF TransportInv, Types
<1>4. Live' = Live /\ TableOf(m_pConnection', Live') /\ Stay(m_pConnection, m_pConnection', Live')
      /\ AutoPortsDistinct'
  BY <1>1, QuietStep
<1>5. Found(s)
  BY DEF TransportInv
<1>6. Found(s)'
  BY <1>1, <1>2, <1>5 DEF Found, Keeps
<1>7. Waits(s)' /\ SocketTrue(s)'
  BY <1>2 DEF Waits, SocketTrue
<1>8. \A c \in Connections : c \notin Live => owner[c] = NoConnection
  BY DEF TransportInv
<1> QED
  BY <1>1, <1>2, <1>3, <1>4, <1>6, <1>7, <1>8, OneSocketStep

\* Connect finds its connection in the slot, if it has not been deleted.
LEMMA ConnectReturnsStep ==
  ASSUME TransportInv, NEW s \in Sockets, ConnectReturns(s)
  PROVE  TransportInv'
<1> DEFINE c == sock[s].waitsIn
           at == sock[s].waitsAt
           n == IF conn[c].failed THEN 0 ELSE at
<1>1. /\ sock[s].call = "Connect" /\ conn' = [conn EXCEPT ![c] = LeftBehind(c)]
      /\ sock' = [sock EXCEPT ![s].call = "Ready", ![s].waitsIn = NoConnection, ![s].waitsAt = 0,
                              ![s].h = n]
      /\ owner' = IF conn[c].failed \/ conn[c].state = "None" THEN owner
                  ELSE [owner EXCEPT ![c] = s]
      /\ m_SpinLock' = Released
      /\ UNCHANGED <<m_pConnection, m_nOwnPort, stuck>>
  BY DEF ConnectReturns
<1>2. /\ c \in Connections /\ at \in Nat /\ n \in Nat
      /\ sock[s].h = 0 /\ sock[s] \in SocketType /\ Waits(s) /\ Found(s) /\ SocketTrue(s)
  <2>1. sock[s] \in SocketType /\ Waits(s) /\ SocketTrue(s) /\ Found(s)
    BY DEF TransportInv, Types
  <2> QED
    BY <1>1, <2>1 DEF SocketTrue, SocketType
<1>3. /\ sock' \in [Sockets -> SocketType] /\ \A t \in Sockets \ {s} : sock'[t] = sock[t]
      /\ sock'[s].call = "Ready" /\ sock'[s].h = n /\ sock'[s].listen = sock[s].listen
      /\ sock'[s].waitsIn = NoConnection /\ sock'[s].ownPort = sock[s].ownPort
  <2> HIDE DEF c, n, at
  <2> QED
    BY <1>1, <1>2 DEF TransportInv, Types, SocketType
<1>4. conn \in [Connections -> ObjectType]
  BY DEF TransportInv, Types
<1> HIDE DEF n, c
<1>5. /\ LeftBehind(c) \in ObjectType
      /\ LeftBehind(c).state = "None" <=> conn[c].state = "None"
      /\ conn[c].state # "None" => Same(LeftBehind(c), conn[c])
  BY <1>2, <1>4, LeftBehindIs
<1>6. conn' \in [Connections -> ObjectType]
  BY <1>1, <1>4, <1>5
<1>7. Types'
  BY <1>1, <1>2, <1>3, <1>6 DEF TransportInv, Types, Released
<1>8. Live' = Live /\ TableOf(m_pConnection', Live') /\ Stay(m_pConnection, m_pConnection', Live')
      /\ AutoPortsDistinct'
  <2>1. \A o \in Connections : conn'[o].state = "None" <=> conn[o].state = "None"
    BY <1>1, <1>4, <1>5
  <2>2. \A o \in Live : conn'[o].ownPort = conn[o].ownPort /\ conn'[o].protocol = conn[o].protocol
    BY <1>1, <1>4, <1>5 DEF Live, Same
  <2> QED
    BY <1>1, <2>1, <2>2, QuietStep
<1>9. \A o \in Connections : o \notin Live => owner'[o] = NoConnection
  BY <1>1, <1>2 DEF TransportInv, Types, Live
<1>10. \A o \in Connections : owner'[o] = owner[o] \/ owner'[o] \in {s, NoConnection}
  BY <1>1, <1>2 DEF TransportInv, Types
<1>11. Found(s)'
  <2> SUFFICES ASSUME NEW o \in Connections, owner'[o] = s
               PROVE  \E i \in 1 .. Len(m_pConnection) : m_pConnection[i] = o /\ Keeps(sock'[s], i)
    BY <1>1 DEF Found
  <2>1. CASE owner[o] = s
    <3>1. PICK i \in 1 .. Len(m_pConnection) : m_pConnection[i] = o /\ Keeps(sock[s], i)
      BY <1>2, <2>1 DEF Found
    <3>2. Len(m_pConnection) \in Nat
      BY DEF TransportInv, TableOf
    <3>3. Keeps(sock'[s], i)
      BY <1>2, <1>3, <3>1, <3>2 DEF Keeps
    <3> QED
      BY <3>1, <3>3
  <2>2. CASE owner[o] # s
    <3>1. o = c /\ ~conn[c].failed /\ conn[c].state # "None"
      BY <1>1, <1>2, <2>2 DEF TransportInv, Types
    <3>2. at \in 1 .. Len(m_pConnection) /\ m_pConnection[at] = c
      BY <1>1, <1>2, <3>1 DEF Waits, Live, c
    <3>3. Keeps(sock'[s], at)
      BY <1>3, <3>1 DEF Keeps, n
    <3> QED
      BY <3>1, <3>2, <3>3
  <2> QED
    BY <2>1, <2>2
<1>12. Waits(s)' /\ SocketTrue(s)'
  BY <1>2, <1>3 DEF Waits, SocketTrue
<1> QED
  BY <1>3, <1>7, <1>8, <1>9, <1>10, <1>11, <1>12, OneSocketStep

LEMMA DeleteSocketStep ==
  ASSUME TransportInv, NEW s \in Sockets, DeleteSocket(s)
  PROVE  TransportInv'
<1> DEFINE hs == IF sock[s].h # 0 THEN {sock[s].h} ELSE ToSet(sock[s].listen)
<1>1. /\ conn' = [c \in Connections |-> IF c \in Named(hs) THEN Closes(c) ELSE conn[c]]
      /\ stuck' \in {"assert", stuck}
      /\ sock' = [sock EXCEPT ![s] = NoSocket]
      /\ owner' = [c \in Connections |-> IF owner[c] = s THEN NoConnection ELSE owner[c]]
      /\ UNCHANGED <<m_pConnection, m_nOwnPort, m_SpinLock>>
  BY DEF DeleteSocket, Disconnect
<1> HIDE DEF hs
<1>2. conn \in [Connections -> ObjectType]
  BY DEF TransportInv, Types
<1>3. \A c \in Connections : Same(conn'[c], conn[c])
  BY <1>1, <1>2, ClosesIs, SameIs
<1>4. NoSocket \in SocketType
  <2>1. <<>> \in Seq(Nat \ {0})
    OBVIOUS
  <2> QED
    BY <2>1 DEF NoSocket, SocketType
<1>5. Types'
  <2>1. conn' \in [Connections -> ObjectType]
    BY <1>1, <1>2, <1>3 DEF Same
  <2>2. sock' \in [Sockets -> SocketType]
    BY <1>1, <1>4 DEF TransportInv, Types
  <2>3. owner' \in [Connections -> Sockets \cup {NoConnection}]
    BY <1>1 DEF TransportInv, Types
  <2> QED
    BY <1>1, <2>1, <2>2, <2>3 DEF TransportInv, Types
<1>6. Live' = Live /\ TableOf(m_pConnection', Live') /\ Stay(m_pConnection, m_pConnection', Live')
      /\ AutoPortsDistinct'
  <2>1. \A c \in Live : c \in Connections
    BY DEF Live
  <2> QED
    BY <1>1, <1>3, <2>1, QuietStep DEF Same
<1>7. \A t \in Sockets \ {s} : sock'[t] = sock[t]
  BY <1>1 DEF TransportInv, Types
<1>8. sock'[s] = NoSocket
  BY <1>1 DEF TransportInv, Types
<1>9. /\ \A c \in Connections : c \notin Live => owner'[c] = NoConnection
      /\ \A c \in Connections : owner'[c] # s
  BY <1>1, SocketsAssumption DEF TransportInv
<1>10. \A c \in Connections : owner'[c] = owner[c] \/ owner'[c] \in {s, NoConnection}
  BY <1>1
<1>11. Found(s)' /\ Waits(s)' /\ SocketTrue(s)'
  BY <1>8, <1>9 DEF Found, Waits, SocketTrue, NoSocket
<1> QED
  BY <1>5, <1>6, <1>7, <1>9, <1>10, <1>11, OneSocketStep

\* New is a connection that does not live.
LEMMA NewIs ==
  ASSUME Unallocated # {}
  PROVE  New \in Connections /\ conn[New].state = "None"
<1>1. New \in Unallocated
  BY DEF New
<1> QED
  BY <1>1 DEF Unallocated, Live

\* The handle of an entered connection, and those that were kept before and still are.
LEMMA FoundAfterEnter ==
  ASSUME TransportInv, NEW s \in Sockets,
         Stay(m_pConnection, m_pConnection', Live'),
         \A c \in Connections : c \notin Live' => owner'[c] = NoConnection,
         \A c \in Connections :
           owner'[c] = s => \/ /\ owner[c] = s
                               /\ \A i \in 1 .. Len(m_pConnection) :
                                    /\ m_pConnection[i] = c /\ Keeps(sock[s], i)
                                    => Keeps(sock'[s], i)
                            \/ \E i \in 1 .. Len(m_pConnection') :
                                 m_pConnection'[i] = c /\ Keeps(sock'[s], i)
  PROVE  Found(s)'
<1> SUFFICES ASSUME NEW c \in Connections, owner'[c] = s
             PROVE  \E i \in 1 .. Len(m_pConnection') : m_pConnection'[i] = c /\ Keeps(sock'[s], i)
  BY DEF Found
<1>1. CASE /\ owner[c] = s
           /\ \A i \in 1 .. Len(m_pConnection) :
                m_pConnection[i] = c /\ Keeps(sock[s], i) => Keeps(sock'[s], i)
  <2>1. PICK i \in 1 .. Len(m_pConnection) : m_pConnection[i] = c /\ Keeps(sock[s], i)
    BY <1>1 DEF TransportInv, Found
  <2>2. c \in Live'
    BY SocketsAssumption
  <2>3. i \in 1 .. Len(m_pConnection') /\ m_pConnection'[i] = c
    BY <2>1, <2>2 DEF Stay
  <2> QED
    BY <1>1, <2>1, <2>3
<1> QED
  BY <1>1

LEMMA BindUDPStep ==
  ASSUME TransportInv, NEW s \in Sockets, BindUDP(s)
  PROVE  TransportInv'
<1> DEFINE c == New
           n == SlotFor(m_pConnection)
           object == Object("UDP", "Open", ServerPort)
<1>1. /\ sock[s].call = "Ready" /\ sock[s].h = 0 /\ Unallocated # {}
      /\ m_pConnection' = Enter(m_pConnection, c)
      /\ conn' = [conn EXCEPT ![c] = object]
      /\ sock' = [sock EXCEPT ![s].ownPort = ServerPort, ![s].h = n]
      /\ owner' = [owner EXCEPT ![c] = s]
      /\ UNCHANGED <<m_nOwnPort, m_SpinLock, stuck>>
  BY DEF BindUDP, Runs
<1>2. /\ conn \in [Connections -> ObjectType] /\ sock \in [Sockets -> SocketType]
      /\ owner \in [Connections -> Sockets \cup {NoConnection}]
  BY DEF TransportInv, Types
<1>3. object \in ObjectType /\ object.state # "None" /\ object.ownPort = ServerPort
  BY ObjectIs
<1>4. c \in Connections /\ conn[c].state = "None"
  BY <1>1, NewIs
<1>5. Live' = Live \cup {c}
  <2> HIDE DEF c, object
  <2> QED
    BY <1>1, <1>2, <1>3, <1>4 DEF Live
<1>6. /\ c \notin Live
      /\ TableOf(m_pConnection', Live') /\ Stay(m_pConnection, m_pConnection', Live')
      /\ n \in 1 .. Len(m_pConnection') /\ m_pConnection'[n] = c /\ n \in Nat \ {0}
      /\ \A t \in Sockets : sock[t].waitsIn \in Live' => sock[t].waitsIn \in Live
  BY <1>1, <1>5, EnterStep
<1> HIDE DEF c, n, object
<1>7. /\ sock' \in [Sockets -> SocketType] /\ \A t \in Sockets \ {s} : sock'[t] = sock[t]
      /\ sock'[s].call = "Ready" /\ sock'[s].h = n /\ sock'[s].listen = sock[s].listen
      /\ sock'[s].ownPort = ServerPort
  BY <1>1, <1>2, <1>6 DEF SocketType
<1>8. Types'
  <2>1. conn' \in [Connections -> ObjectType]
    BY <1>1, <1>2, <1>3
  <2>2. owner' \in [Connections -> Sockets \cup {NoConnection}]
    BY <1>1, <1>2
  <2> QED
    BY <1>1, <1>7, <2>1, <2>2 DEF TransportInv, Types
<1>9. AutoPortsDistinct'
  <2>1. \A o \in Live' : o # c => conn'[o] = conn[o]
    BY <1>1, <1>2, <1>5 DEF Live
  <2>2. conn'[c].ownPort \notin OwnPorts
    BY <1>1, <1>2, <1>3, <1>4, TransportAssumption DEF OwnPorts
  <2> QED
    BY <1>5, <2>1, <2>2, PortsStay DEF TransportInv
<1>10. \A o \in Connections : o \notin Live' => owner'[o] = NoConnection
  BY <1>1, <1>2, <1>5 DEF TransportInv
<1>11. \A o \in Connections : owner'[o] = owner[o] \/ owner'[o] \in {s, NoConnection}
  BY <1>1, <1>2
<1>12. Found(s)'
  <2>1. ASSUME NEW o \in Connections, owner'[o] = s
        PROVE  \/ /\ owner[o] = s
                  /\ \A i \in 1 .. Len(m_pConnection) : Keeps(sock[s], i) => Keeps(sock'[s], i)
               \/ m_pConnection'[n] = o /\ Keeps(sock'[s], n)
    <3>1. CASE o = c
      BY <1>6, <1>7, <3>1 DEF Keeps
    <3>2. CASE o # c
      <4>1. \A i \in 1 .. Len(m_pConnection) : Keeps(sock[s], i) => Keeps(sock'[s], i)
        <5>1. Len(m_pConnection) \in Nat
          BY DEF TransportInv, TableOf
        <5> QED
          BY <1>1, <1>7, <5>1 DEF Keeps
      <4> QED
        BY <1>1, <1>2, <2>1, <3>2, <4>1
    <3> QED
      BY <3>1, <3>2
  <2> QED
    BY <1>6, <1>10, <2>1, FoundAfterEnter
<1>13. Waits(s)' /\ SocketTrue(s)'
  BY <1>7 DEF Waits, SocketTrue
<1> QED
  BY <1>6, <1>7, <1>8, <1>9, <1>10, <1>11, <1>12, <1>13, OneSocketStep

\* The port of a socket that connects is its own one, which no automatic port is, or is not used.
LEMMA ConnectPort ==
  ASSUME TransportInv, NEW s \in Sockets, NEW protocol \in {"TCP", "UDP"},
         sock[s].ownPort = 0 => \E p \in OwnPorts : ~PortUsed(p, protocol),
         NEW port, port = IF sock[s].ownPort = 0 THEN FirstUnused(protocol) ELSE sock[s].ownPort
  PROVE  /\ port \in OwnPorts \cup {0, ServerPort}
         /\ port \notin OwnPorts \/ ~PortUsed(port, protocol)
         /\ sock[s].ownPort = 0 => NextPort(port) \in OwnPorts
<1>1. m_nOwnPort \in OwnPorts /\ sock[s].ownPort \in {0, ServerPort}
  BY DEF TransportInv, Types, SocketType
<1>2. CASE sock[s].ownPort = 0
  <2>1. port \in OwnPorts /\ ~PortUsed(port, protocol)
    BY <1>1, <1>2, FirstUnusedIs
  <2>2. NextPort(port) \in OwnPorts
    BY <2>1, TransportAssumption DEF NextPort, OwnPorts
  <2> QED
    BY <2>1, <2>2
<1>3. CASE sock[s].ownPort # 0
  BY <1>1, <1>3, TransportAssumption DEF OwnPorts
<1> QED
  BY <1>2, <1>3

LEMMA ConnectUDPStep ==
  ASSUME TransportInv, NEW s \in Sockets, ConnectUDP(s)
  PROVE  TransportInv'
<1> DEFINE c == New
           n == SlotFor(m_pConnection)
           auto == sock[s].ownPort = 0
           port == IF auto THEN FirstUnused("UDP") ELSE sock[s].ownPort
           old == Named({sock[s].h})
           object == Object("UDP", "Open", port)
<1>1. CASE CloseAsserted({sock[s].h})
  BY <1>1, StuckStep DEF CloseAsserted
<1>2. CASE ~CloseAsserted({sock[s].h})
  <2>1. /\ sock[s].call = "Ready" /\ Unallocated # {}
        /\ auto => \E p \in OwnPorts : ~PortUsed(p, "UDP")
        /\ m_pConnection' = Enter(m_pConnection, c)
        /\ conn' = [o \in Connections |->
                     IF o = c THEN object ELSE IF o \in old THEN Closes(o) ELSE conn[o]]
        /\ sock' = [sock EXCEPT ![s].h = n]
        /\ owner' = [o \in Connections |->
                      IF o = c THEN s ELSE IF o \in old THEN NoConnection ELSE owner[o]]
        /\ m_nOwnPort' = IF auto THEN NextPort(port) ELSE m_nOwnPort
        /\ UNCHANGED <<m_SpinLock, stuck>>
    BY <1>2 DEF ConnectUDP, Runs
  <2>2. /\ conn \in [Connections -> ObjectType] /\ sock \in [Sockets -> SocketType]
        /\ owner \in [Connections -> Sockets \cup {NoConnection}] /\ m_nOwnPort \in OwnPorts
    BY DEF TransportInv, Types
  <2>3. /\ port \in OwnPorts \cup {0, ServerPort}
        /\ port \notin OwnPorts \/ ~PortUsed(port, "UDP")
        /\ auto => NextPort(port) \in OwnPorts
    BY <2>1, ConnectPort
  <2>4. /\ object \in ObjectType /\ object.state # "None" /\ object.ownPort = port
        /\ object.protocol = "UDP"
    <3> HIDE DEF port
    <3> QED
      BY <2>3, ObjectIs
  <2>5. c \in Connections /\ conn[c].state = "None"
    BY <2>1, NewIs
  <2>6. ASSUME NEW o \in Connections, o # c PROVE Same(conn'[o], conn[o])
    <3> HIDE DEF c, n, auto, port, old, object
    <3> QED
      BY <2>1, <2>2, <2>6, ClosesIs, SameIs
  <2>7. Live' = Live \cup {c}
    <3> HIDE DEF c, n, auto, port, old, object
    <3> QED
      BY <2>1, <2>4, <2>5, <2>6 DEF Live, Same
  <2>8. /\ c \notin Live
        /\ TableOf(m_pConnection', Live') /\ Stay(m_pConnection, m_pConnection', Live')
        /\ n \in 1 .. Len(m_pConnection') /\ m_pConnection'[n] = c /\ n \in Nat \ {0}
        /\ \A t \in Sockets : sock[t].waitsIn \in Live' => sock[t].waitsIn \in Live
    BY <2>1, <2>7, EnterStep
  <2>9. ASSUME NEW i \in 1 .. Len(m_pConnection), i = sock[s].h, m_pConnection[i] \in Connections
        PROVE  m_pConnection[i] \in old
    <3>1. Valid(i)
      <4>1. m_pConnection \in Seq(Connections \cup {NoConnection})
        BY DEF TransportInv, TableOf
      <4> QED
        BY <2>9, <4>1, TransportAssumption DEF Valid
    <3> QED
      BY <2>9, <3>1 DEF Named
  <2> HIDE DEF c, n, auto, port, old, object
  <2>10. /\ sock' \in [Sockets -> SocketType] /\ \A t \in Sockets \ {s} : sock'[t] = sock[t]
         /\ sock'[s].call = "Ready" /\ sock'[s].h = n /\ sock'[s].listen = sock[s].listen
         /\ sock'[s].ownPort = sock[s].ownPort
    BY <2>1, <2>2, <2>8 DEF SocketType
  <2>11. Types'
    <3>1. conn' \in [Connections -> ObjectType]
      <4>1. \A o \in Connections : conn'[o] \in ObjectType
        BY <2>1, <2>4, <2>6 DEF Same
      <4> QED
        BY <2>1, <4>1
    <3>2. owner' \in [Connections -> Sockets \cup {NoConnection}]
      BY <2>1, <2>2
    <3>3. m_nOwnPort' \in OwnPorts
      BY <2>1, <2>2, <2>3
    <3> QED
      BY <2>1, <2>10, <3>1, <3>2, <3>3 DEF TransportInv, Types
  <2>12. AutoPortsDistinct'
    <3>1. \A o \in Live' : o # c => /\ conn'[o].ownPort = conn[o].ownPort
                                    /\ conn'[o].protocol = conn[o].protocol
      BY <2>6 DEF Live, Same
    <3>2. \/ conn'[c].ownPort \notin OwnPorts
          \/ ~PortUsed(conn'[c].ownPort, conn'[c].protocol)
      BY <2>1, <2>3, <2>4, <2>5
    <3> QED
      BY <2>7, <3>1, <3>2, PortsStay DEF TransportInv
  <2>13. \A o \in Connections : o \notin Live' => owner'[o] = NoConnection
    BY <2>1, <2>7 DEF TransportInv
  <2>14. \A o \in Connections : owner'[o] = owner[o] \/ owner'[o] \in {s, NoConnection}
    BY <2>1
  <2>15. Found(s)'
    <3>1. ASSUME NEW o \in Connections, owner'[o] = s
          PROVE  \/ /\ owner[o] = s
                    /\ \A i \in 1 .. Len(m_pConnection) :
                         m_pConnection[i] = o /\ Keeps(sock[s], i) => Keeps(sock'[s], i)
                 \/ m_pConnection'[n] = o /\ Keeps(sock'[s], n)
      <4>1. CASE o = c
        BY <2>8, <2>10, <4>1 DEF Keeps
      <4>2. CASE o # c
        <5>1. owner[o] = s /\ o \notin old
          BY <2>1, <3>1, <4>2, SocketsAssumption
        <5>2. \A i \in 1 .. Len(m_pConnection) :
                m_pConnection[i] = o /\ Keeps(sock[s], i) => Keeps(sock'[s], i)
          BY <2>9, <2>10, <5>1 DEF Keeps
        <5> QED
          BY <5>1, <5>2
      <4> QED
        BY <4>1, <4>2
    <3> QED
      BY <2>8, <2>13, <3>1, FoundAfterEnter
  <2>16. SocketTrue(s)
    BY DEF TransportInv
  <2>17. Waits(s)' /\ SocketTrue(s)'
    BY <2>10, <2>16 DEF Waits, SocketTrue
  <2> QED
    BY <2>8, <2>10, <2>11, <2>12, <2>13, <2>14, <2>15, <2>17, OneSocketStep
<1> QED
  BY <1>1, <1>2

LEMMA ConnectTCPStep ==
  ASSUME TransportInv, NEW s \in Sockets, ConnectTCP(s)
  PROVE  TransportInv'
<1> DEFINE c == New
           n == SlotFor(m_pConnection)
           auto == sock[s].ownPort = 0
           port == IF auto THEN FirstUnused("TCP") ELSE sock[s].ownPort
           object(sent) == Object("TCP", IF sent THEN "SynSent" ELSE "Closed", port)
<1>1. PICK sent \in BOOLEAN :
        /\ auto => \E p \in OwnPorts : ~PortUsed(p, "TCP")
        /\ m_pConnection' = Enter(m_pConnection, c)
        /\ conn' = [conn EXCEPT ![c] = object(sent)]
        /\ m_nOwnPort' = IF auto THEN NextPort(port) ELSE m_nOwnPort
        /\ IF sent
           THEN /\ sock' = [sock EXCEPT ![s].call = "Connect", ![s].waitsIn = c, ![s].waitsAt = n]
                /\ m_SpinLock' = IF m_SpinLock = "off" THEN "off" ELSE s
           ELSE UNCHANGED <<sock, m_SpinLock>>
  BY DEF ConnectTCP
<1>2. /\ sock[s].call = "Ready" /\ sock[s].h = 0 /\ Unallocated # {} /\ UNCHANGED <<owner, stuck>>
  BY DEF ConnectTCP, Runs
<1>3. /\ conn \in [Connections -> ObjectType] /\ sock \in [Sockets -> SocketType]
      /\ m_nOwnPort \in OwnPorts
  BY DEF TransportInv, Types
<1>4. /\ port \in OwnPorts \cup {0, ServerPort}
      /\ port \notin OwnPorts \/ ~PortUsed(port, "TCP")
      /\ auto => NextPort(port) \in OwnPorts
  BY <1>1, ConnectPort
<1>5. /\ object(sent) \in ObjectType /\ object(sent).state # "None"
      /\ object(sent).ownPort = port /\ object(sent).protocol = "TCP"
  <2> DEFINE state == IF sent THEN "SynSent" ELSE "Closed"
  <2>1. state \in {"Open", "Listen", "SynSent", "Closed"}
    OBVIOUS
  <2> HIDE DEF port, state
  <2> QED
    BY <1>4, <2>1, ObjectIs
<1>6. c \in Connections /\ conn[c].state = "None"
  BY <1>2, NewIs
<1>7. Live' = Live \cup {c}
  <2> HIDE DEF c, n, auto, port, object
  <2> QED
    BY <1>1, <1>3, <1>5, <1>6 DEF Live
<1>8. /\ c \notin Live /\ owner[c] = NoConnection
      /\ TableOf(m_pConnection', Live') /\ Stay(m_pConnection, m_pConnection', Live')
      /\ n \in 1 .. Len(m_pConnection') /\ m_pConnection'[n] = c /\ n \in Nat \ {0}
      /\ \A t \in Sockets : sock[t].waitsIn \in Live' => sock[t].waitsIn \in Live
  BY <1>1, <1>2, <1>7, EnterStep
<1> HIDE DEF c, n, auto, port, object
<1>9. /\ sock' \in [Sockets -> SocketType] /\ \A t \in Sockets \ {s} : sock'[t] = sock[t]
      /\ sock'[s].h = 0 /\ sock'[s].listen = sock[s].listen /\ sock'[s].ownPort = sock[s].ownPort
      /\ \/ sock'[s].call = "Ready"
         \/ sock'[s].call = "Connect" /\ sock'[s].waitsIn = c /\ sock'[s].waitsAt = n
  <2>1. CASE sent
    <3>1. sock' = [sock EXCEPT ![s].call = "Connect", ![s].waitsIn = c, ![s].waitsAt = n]
      BY <1>1, <2>1
    <3> DEFINE r == [sock[s] EXCEPT !.call = "Connect", !.waitsIn = c, !.waitsAt = n]
    <3>2. sock' = [sock EXCEPT ![s] = r]
      BY <1>3, <3>1
    <3>3. /\ r \in SocketType /\ r.h = 0 /\ r.listen = sock[s].listen
          /\ r.ownPort = sock[s].ownPort /\ r.call = "Connect" /\ r.waitsIn = c /\ r.waitsAt = n
      BY <1>2, <1>3, <1>6, <1>8 DEF SocketType
    <3> HIDE DEF r
    <3> QED
      BY <1>3, <3>2, <3>3
  <2>2. CASE ~sent
    BY <1>1, <1>2, <1>3, <2>2
  <2> QED
    BY <2>1, <2>2
<1>10. Types'
  <2>1. conn' \in [Connections -> ObjectType]
    BY <1>1, <1>3, <1>5
  <2>2. m_nOwnPort' \in OwnPorts
    BY <1>1, <1>3, <1>4
  <2>3. m_SpinLock' \in Sockets \cup {"off", "free"}
    BY <1>1 DEF TransportInv, Types
  <2> QED
    BY <1>2, <1>9, <2>1, <2>2, <2>3 DEF TransportInv, Types
<1>11. AutoPortsDistinct'
  <2>1. \A o \in Live' : o # c => conn'[o] = conn[o]
    BY <1>1, <1>3, <1>7 DEF Live
  <2>2. \/ conn'[c].ownPort \notin OwnPorts
        \/ ~PortUsed(conn'[c].ownPort, conn'[c].protocol)
    BY <1>1, <1>3, <1>4, <1>5, <1>6
  <2> QED
    BY <1>7, <2>1, <2>2, PortsStay DEF TransportInv
<1>12. \A o \in Connections : o \notin Live' => owner'[o] = NoConnection
  BY <1>2, <1>7 DEF TransportInv
<1>13. Found(s)'
  <2>1. \A i \in 1 .. Len(m_pConnection) : Keeps(sock[s], i) => Keeps(sock'[s], i)
    BY <1>2, <1>9 DEF Keeps
  <2> QED
    BY <1>2, <1>8, <1>12, <2>1, FoundAfterEnter
<1>14. SocketTrue(s)
  BY DEF TransportInv
<1>15. Waits(s)' /\ SocketTrue(s)'
  BY <1>6, <1>8, <1>9, <1>14, TransportAssumption DEF Waits, SocketTrue
<1> QED
  BY <1>2, <1>8, <1>9, <1>10, <1>11, <1>12, <1>13, <1>15, OneSocketStep

-----------------------------------------------------------------------------
(* Listening                                                               *)

\* There are BackLog different addresses to be had.
LEMMA DifferentOnes ==
  ASSUME NEW S, IsFiniteSet(S), Cardinality(S) >= BackLog
  PROVE  \E f \in [1 .. BackLog -> S] : IsInjective(f)
<1>1. Cardinality(S) \in Nat /\ ExistsBijection(1 .. Cardinality(S), S)
  BY FS_CardinalityType
<1> DEFINE m == Cardinality(S)
<1>2. PICK g \in [1 .. m -> S] : \A i, j \in 1 .. m : g[i] = g[j] => i = j
  BY <1>1 DEF ExistsBijection, Bijection, Injection, IsInjective
<1> DEFINE f == [i \in 1 .. BackLog |-> g[i]]
<1>3. \A i \in 1 .. BackLog : i \in 1 .. m
  BY <1>1, TransportAssumption
<1> HIDE DEF m
<1>4. f \in [1 .. BackLog -> S] /\ \A i, j \in 1 .. BackLog : f[i] = f[j] => i = j
  BY <1>2, <1>3
<1> HIDE DEF f
<1>5. IsInjective(f)
  BY <1>4 DEF IsInjective
<1> QED
  BY <1>4, <1>5

LEMMA ListenStep ==
  ASSUME TransportInv, NEW s \in Sockets, Listen(s)
  PROVE  TransportInv'
<1> DEFINE cs == CHOOSE f \in [1 .. BackLog -> Unallocated] : IsInjective(f)
           e == TablesWith(m_pConnection, cs)
           N == ToSet(cs)
           object == Object("TCP", "Listen", sock[s].ownPort)
           hs == [k \in 1 .. BackLog |-> SlotFor(e[k - 1])]
<1>1. /\ sock[s].call = "Ready" /\ sock[s].ownPort # 0 /\ sock[s].listen = <<>>
      /\ Cardinality(Unallocated) >= BackLog
      /\ m_pConnection' = e[BackLog]
      /\ conn' = [c \in Connections |-> IF c \in N THEN object ELSE conn[c]]
      /\ owner' = [c \in Connections |-> IF c \in N THEN s ELSE owner[c]]
      /\ sock' = [sock EXCEPT ![s].listen = hs]
      /\ UNCHANGED <<m_nOwnPort, m_SpinLock, stuck>>
  BY DEF Listen, Runs
<1>2. /\ conn \in [Connections -> ObjectType] /\ sock \in [Sockets -> SocketType]
      /\ owner \in [Connections -> Sockets \cup {NoConnection}]
  BY DEF TransportInv, Types
<1>3. cs \in [1 .. BackLog -> Unallocated] /\ IsInjective(cs)
  <2>1. IsFiniteSet(Unallocated)
    <3>1. Unallocated \in SUBSET Connections
      BY DEF Unallocated
    <3> QED
      BY <3>1, FS_Subset, TransportAssumption
  <2> QED
    BY <1>1, <2>1, DifferentOnes
<1> HIDE DEF cs
<1>4. /\ cs \in [1 .. BackLog -> Connections \ Live] /\ N = {cs[k] : k \in 1 .. BackLog}
      /\ \A i, j \in 1 .. BackLog : cs[i] = cs[j] => i = j
      /\ N \in SUBSET Connections
      /\ \A c \in N : c \notin Live /\ \A t \in Sockets : sock[t].waitsIn # c
  <2>1. N = {cs[k] : k \in 1 .. BackLog}
    BY <1>3 DEF ToSet
  <2> QED
    BY <1>3, <2>1 DEF Unallocated, IsInjective
<1>5. sock[s].ownPort = ServerPort
  BY <1>1, <1>2 DEF SocketType
<1>6. object \in ObjectType /\ object.state # "None" /\ object.ownPort = ServerPort
  BY <1>5, ObjectIs
<1> HIDE DEF object
<1>7. Live' = Live \cup N
  <2> HIDE DEF N
  <2> QED
    BY <1>1, <1>4, <1>6 DEF Live
<1>8. /\ TableOf(m_pConnection', Live') /\ Stay(m_pConnection, m_pConnection', Live)
      /\ \A k \in 1 .. BackLog :
           /\ hs[k] \in 1 .. Len(m_pConnection') /\ hs[k] \in Nat \ {0}
           /\ m_pConnection'[hs[k]] = cs[k]
  <2>1. Live \in SUBSET Connections /\ TableOf(m_pConnection, Live)
    BY DEF Live, TransportInv
  <2>2. \A c : c \in N <=> \E k \in 1 .. BackLog : c = cs[k]
    BY <1>4
  <2>3. e = TablesWith(m_pConnection, cs)
    OBVIOUS
  <2> HIDE DEF e, N
  <2>5. /\ TableOf(e[BackLog], Live \cup N)
        /\ Stay(m_pConnection, e[BackLog], Live)
        /\ \A k \in 1 .. BackLog :
             /\ SlotFor(e[k - 1]) \in 1 .. Len(e[BackLog]) /\ SlotFor(e[k - 1]) \in Nat \ {0}
             /\ e[BackLog][SlotFor(e[k - 1])] = cs[k]
    <3>1. Live \in SUBSET Connections
      BY <2>1
    <3>2. TableOf(m_pConnection, Live)
      BY <2>1
    <3>3. cs \in [1 .. BackLog -> Connections \ Live]
      BY <1>4
    <3>4. \A i, j \in 1 .. BackLog : cs[i] = cs[j] => i = j
      BY <1>4
    <3>5. Placed(e, cs)
      BY ONLY <2>2, <2>3, <3>1, <3>2, <3>3, <3>4, EnteredAll
    <3>6. TableOf(e[BackLog], Live \cup N) /\ Stay(m_pConnection, e[BackLog], Live)
      BY ONLY <2>2, <2>3, <3>1, <3>2, <3>3, <3>4, EnteredAll
    <3> QED
      BY ONLY <3>5, <3>6 DEF Placed
  <2>4. \A k \in 1 .. BackLog : hs[k] = SlotFor(e[k - 1])
    OBVIOUS
  <2> HIDE DEF hs
  <2> QED
    BY <1>1, <1>7, <2>4, <2>5
<1>9. Stay(m_pConnection, m_pConnection', Live')
  <2>1. \A i \in 1 .. Len(m_pConnection) : m_pConnection[i] \notin N
    BY <1>4, TransportAssumption DEF TransportInv, TableOf
  <2> HIDE DEF N
  <2> QED
    BY <1>7, <1>8, <2>1 DEF Stay
<1>10. \A t \in Sockets : sock[t].waitsIn \in Live' => sock[t].waitsIn \in Live
  <2> HIDE DEF N
  <2> QED
    BY <1>4, <1>7
<1>11. /\ hs \in Seq(Nat \ {0}) /\ Len(hs) = BackLog
  BY <1>8, TransportAssumption
<1> HIDE DEF hs, N, e
<1>12. /\ sock' \in [Sockets -> SocketType] /\ \A t \in Sockets \ {s} : sock'[t] = sock[t]
       /\ sock'[s].call = "Ready" /\ sock'[s].h = sock[s].h /\ sock'[s].listen = hs
       /\ sock'[s].ownPort = ServerPort
  BY <1>1, <1>2, <1>5, <1>11 DEF SocketType
<1>13. Types'
  <2>1. conn' \in [Connections -> ObjectType]
    BY <1>1, <1>2, <1>6
  <2>2. owner' \in [Connections -> Sockets \cup {NoConnection}]
    BY <1>1, <1>2
  <2> QED
    BY <1>1, <1>12, <2>1, <2>2 DEF TransportInv, Types
<1>14. AutoPortsDistinct'
  <2> SUFFICES ASSUME NEW a \in Live', NEW b \in Live', a # b,
                      conn'[a].protocol = conn'[b].protocol, conn'[a].ownPort = conn'[b].ownPort,
                      conn'[a].ownPort \in OwnPorts
               PROVE  FALSE
    BY DEF AutoPortsDistinct, OwnPorts
  <2>1. ServerPort \notin OwnPorts
    BY TransportAssumption DEF OwnPorts
  <2>2. a \in Connections /\ b \in Connections
    BY DEF Live
  <2>3. a \notin N /\ b \notin N
    BY <1>1, <1>6, <2>1, <2>2
  <2> QED
    BY <1>1, <1>7, <2>2, <2>3 DEF TransportInv, AutoPortsDistinct
<1>15. \A c \in Connections : c \notin Live' => owner'[c] = NoConnection
  BY <1>1, <1>7 DEF TransportInv
<1>16. \A c \in Connections : owner'[c] = owner[c] \/ owner'[c] \in {s, NoConnection}
  BY <1>1
<1>17. Found(s)'
  <2>1. ASSUME NEW c \in Connections, owner'[c] = s
        PROVE  \/ /\ owner[c] = s
                  /\ \A i \in 1 .. Len(m_pConnection) : Keeps(sock[s], i) => Keeps(sock'[s], i)
               \/ \E i \in 1 .. Len(m_pConnection') : m_pConnection'[i] = c /\ Keeps(sock'[s], i)
    <3>1. CASE c \in N
      <4>1. PICK k \in 1 .. BackLog : c = cs[k]
        BY <1>4, <3>1
      <4>2. hs[k] \in 1 .. Len(m_pConnection') /\ m_pConnection'[hs[k]] = c
        BY <1>8, <4>1
      <4>3. Keeps(sock'[s], hs[k])
        BY <1>11, <1>12 DEF Keeps
      <4> QED
        BY <4>2, <4>3
    <3>2. CASE c \notin N
      BY <1>1, <1>12, <2>1, <3>2 DEF Keeps
    <3> QED
      BY <3>1, <3>2
  <2> QED
    BY <1>9, <1>15, <2>1, FoundAfterEnter
<1>18. Waits(s)' /\ SocketTrue(s)'
  BY <1>12 DEF Waits, SocketTrue
<1> QED
  BY <1>9, <1>8, <1>10, <1>12, <1>13, <1>14, <1>15, <1>16, <1>17, <1>18, OneSocketStep

-----------------------------------------------------------------------------
(* Accepting                                                               *)

\* Accept picks a handle that the socket has.
LEMMA PickIs ==
  ASSUME TransportInv, NEW s \in Sockets, sock[s].listen # <<>>
  PROVE  Pick(s) \in 1 .. Len(sock[s].listen)
<1> DEFINE hs == sock[s].listen
           connected == {k \in DOMAIN hs : Connected(hs[k])}
           First(k) == k \in connected /\ \A j \in connected : k <= j
           Lowest(k) == \A j \in DOMAIN hs : hs[k] < hs[j] \/ (hs[k] = hs[j] /\ k <= j)
           S == {hs[k] : k \in DOMAIN hs}
<1>1. hs \in Seq(Nat \ {0}) /\ hs # <<>>
  BY DEF TransportInv, Types, SocketType
<1>2. Pick(s) = CHOOSE k \in DOMAIN hs : IF connected # {} THEN First(k) ELSE Lowest(k)
  BY DEF Pick
<1> HIDE DEF hs
<1>3. connected # {} => \E k \in DOMAIN hs : First(k)
  <2>1. connected \in SUBSET Nat
    BY <1>1
  <2>2. connected \subseteq DOMAIN hs
    OBVIOUS
  <2> HIDE DEF connected
  <2> QED
    BY <2>1, <2>2, LeastMember
<1>4. \E k \in DOMAIN hs : Lowest(k)
  <2>1. S \in SUBSET Nat /\ S # {}
    <3>1. Len(hs) >= 1 /\ DOMAIN hs = 1 .. Len(hs)
      BY <1>1
    <3> QED
      BY <1>1, <3>1
  <2>2. \A k \in DOMAIN hs : hs[k] \in S
    OBVIOUS
  <2>3. \A x \in S : \E k \in DOMAIN hs : hs[k] = x
    OBVIOUS
  <2> HIDE DEF S
  <2>4. PICK x \in S : \A y \in S : x <= y
    BY <2>1, LeastMember
  <2> DEFINE T == {k \in DOMAIN hs : hs[k] = x}
  <2>5. T \in SUBSET Nat /\ T # {} /\ T \subseteq DOMAIN hs /\ \A k \in T : hs[k] = x
    BY <1>1, <2>3
  <2>6. \A k \in DOMAIN hs : k \notin T => hs[k] # x
    OBVIOUS
  <2> HIDE DEF T
  <2>7. PICK k \in T : \A j \in T : k <= j
    BY <2>5, LeastMember
  <2>8. ASSUME NEW j \in DOMAIN hs PROVE hs[k] < hs[j] \/ (hs[k] = hs[j] /\ k <= j)
    <3>1. x \in Nat /\ hs[j] \in Nat /\ x <= hs[j] /\ hs[k] = x
      BY <2>1, <2>2, <2>4, <2>5, <2>7
    <3>2. hs[j] = x => k <= j
      BY <2>6, <2>7
    <3> QED
      BY <3>1, <3>2
  <2> QED
    BY <2>5, <2>8
<1> HIDE DEF connected, First, Lowest
<1>5. Pick(s) \in DOMAIN hs
  BY <1>2, <1>3, <1>4
<1>6. DOMAIN hs = 1 .. Len(hs)
  BY <1>1
<1> QED
  BY <1>5, <1>6 DEF hs

\* The end of Accept: what it has picked goes to a new socket or is closed, and nothing else of
\* the listening socket does.
LEMMA AcceptEndsStep ==
  ASSUME TransportInv, NEW s \in Sockets, sock[s].call # "None",
         NEW k \in 1 .. Len(sock[s].listen), NEW a, NEW success \in BOOLEAN,
         \A i \in 1 .. Len(m_pConnection) :
           /\ i = sock[s].listen[k]
           /\ m_pConnection[i] # NoConnection /\ owner[m_pConnection[i]] = s
           => m_pConnection[i] = a,
         AcceptEnds(s, k, a, success)
  PROVE  TransportInv'
<1> DEFINE c == New
           m == SlotFor(m_pConnection)
           h == sock[s].listen[k]
           object == Object("TCP", "Listen", sock[s].ownPort)
           r == [sock[s] EXCEPT !.call = "Ready", !.waitsIn = NoConnection, !.waitsAt = 0,
                                !.listen[k] = m]
           q == Accepted(s, h)
<1>1. /\ Unallocated # {}
      /\ m_pConnection' = Enter(m_pConnection, c)
      /\ conn' = [o \in Connections |-> IF o = c THEN object
                                        ELSE IF o = a THEN LeftBehind(o) ELSE conn[o]]
      /\ UNCHANGED <<m_nOwnPort, m_SpinLock, stuck>>
  BY DEF AcceptEnds
<1>2. /\ conn \in [Connections -> ObjectType] /\ sock \in [Sockets -> SocketType]
      /\ owner \in [Connections -> Sockets \cup {NoConnection}]
      /\ m_pConnection \in Seq(Connections \cup {NoConnection})
  BY DEF TransportInv, Types, TableOf
<1>3. /\ sock[s] \in SocketType /\ sock[s].listen \in Seq(Nat \ {0}) /\ h \in Nat \ {0}
      /\ sock[s].ownPort = ServerPort
  <2>1. sock[s] \in SocketType /\ sock[s].listen \in Seq(Nat \ {0})
    BY <1>2 DEF SocketType
  <2>2. sock[s].listen # <<>>
    BY <2>1
  <2>3. sock[s].ownPort = ServerPort
    BY <2>2 DEF TransportInv, SocketTrue
  <2> QED
    BY <2>1, <2>3
<1>4. object \in ObjectType /\ object.state # "None" /\ object.ownPort = ServerPort
  BY <1>3, ObjectIs
<1>5. c \in Connections /\ conn[c].state = "None"
  BY <1>1, NewIs
<1>6. ASSUME NEW o \in Connections, o # c
      PROVE  /\ conn'[o] \in ObjectType
             /\ conn'[o].state = "None" <=> conn[o].state = "None"
             /\ conn[o].state # "None" => Same(conn'[o], conn[o])
  <2> HIDE DEF c, object
  <2> QED
    BY <1>1, <1>2, <1>6, LeftBehindIs, SameIs
<1>7. Live' = Live \cup {c}
  <2> HIDE DEF c, object
  <2> QED
    BY <1>1, <1>4, <1>5, <1>6 DEF Live
<1>8. /\ c \notin Live
      /\ TableOf(m_pConnection', Live') /\ Stay(m_pConnection, m_pConnection', Live')
      /\ m \in 1 .. Len(m_pConnection') /\ m_pConnection'[m] = c /\ m \in Nat \ {0}
      /\ \A t \in Sockets : sock[t].waitsIn \in Live' => sock[t].waitsIn \in Live
  BY <1>1, <1>7, EnterStep
<1> HIDE DEF c, m, object
<1>9. /\ r \in SocketType /\ r.call = "Ready" /\ r.h = sock[s].h /\ r.ownPort = ServerPort
      /\ Len(r.listen) = Len(sock[s].listen)
      /\ \A j \in 1 .. Len(r.listen) : r.listen[j] = IF j = k THEN m ELSE sock[s].listen[j]
  <2> DEFINE l == [sock[s].listen EXCEPT ![k] = m]
  <2>1. l \in Seq(Nat \ {0}) /\ Len(l) = Len(sock[s].listen)
    BY <1>3, <1>8
  <2>2. \A j \in 1 .. Len(l) : l[j] = IF j = k THEN m ELSE sock[s].listen[j]
    BY <1>3, <2>1
  <2>3. r = [sock[s] EXCEPT !.call = "Ready", !.waitsIn = NoConnection, !.waitsAt = 0, !.listen = l]
    BY <1>3 DEF SocketType
  <2> HIDE DEF l, r
  <2>4. /\ r \in SocketType /\ r.call = "Ready" /\ r.h = sock[s].h /\ r.listen = l
        /\ r.ownPort = ServerPort
    BY <1>3, <2>1, <2>3 DEF SocketType
  <2> QED
    BY <2>1, <2>2, <2>4
<1>10. conn' \in [Connections -> ObjectType]
  <2>1. \A o \in Connections : conn'[o] \in ObjectType
    BY <1>1, <1>4, <1>6
  <2> QED
    BY <1>1, <2>1
<1>11. AutoPortsDistinct'
  <2>1. \A o \in Live' : o # c => /\ conn'[o].ownPort = conn[o].ownPort
                                  /\ conn'[o].protocol = conn[o].protocol
    BY <1>6, <1>7 DEF Live, Same
  <2>2. conn'[c].ownPort \notin OwnPorts
    BY <1>1, <1>4, <1>5, TransportAssumption DEF OwnPorts
  <2> QED
    BY <1>7, <2>1, <2>2, PortsStay DEF TransportInv
<1>12. \A o \in Connections : Valid(h) /\ o = m_pConnection[h] =>
         /\ o \in Live /\ h \in 1 .. Len(m_pConnection) /\ o # c
         /\ h \in 1 .. Len(m_pConnection') /\ m_pConnection'[h] = o
  BY <1>2, <1>7, <1>8 DEF TransportInv, TableOf, Valid, Stay
<1>13. \A i \in 1 .. Len(m_pConnection) : m_pConnection[i] \in Connections /\ i = h => Valid(h)
  BY <1>2, TransportAssumption DEF Valid
<1>14. \A o \in Connections :
         (\E i \in 1 .. Len(m_pConnection) :
            m_pConnection[i] = o /\ Keeps(sock[s], i) /\ ~(i = h /\ Valid(h) /\ o = m_pConnection[h]))
         => \E i \in 1 .. Len(m_pConnection) : m_pConnection[i] = o /\ Keeps(r, i)
  <2> SUFFICES ASSUME NEW o \in Connections, NEW i \in 1 .. Len(m_pConnection),
                      m_pConnection[i] = o, Keeps(sock[s], i),
                      ~(i = h /\ Valid(h) /\ o = m_pConnection[h])
               PROVE  Keeps(r, i)
    OBVIOUS
  <2>1. i # h
    BY <1>13
  <2>2. CASE i = sock[s].h
    BY <1>9, <2>2 DEF Keeps
  <2>3. CASE \E j \in 1 .. Len(sock[s].listen) : sock[s].listen[j] = i
    <3>1. PICK j \in 1 .. Len(sock[s].listen) : sock[s].listen[j] = i
      BY <2>3
    <3>2. j # k
      BY <2>1, <3>1
    <3>3. j \in 1 .. Len(r.listen) /\ r.listen[j] = i
      BY <1>9, <3>1, <3>2
    <3> QED
      BY <3>3 DEF Keeps
  <2> QED
    BY <2>2, <2>3 DEF Keeps
<1>15. Keeps(r, m)
  BY <1>9 DEF Keeps
<1> HIDE DEF r, h
<1>16. \A o \in Connections : o \notin Live' => owner[o] = NoConnection
  BY <1>7 DEF TransportInv
\* The connections of the listening socket, the one that is entered and those it keeps.
<1>17. ASSUME sock'[s] = r, \A o \in Connections : o \notin Live' => owner'[o] = NoConnection,
              \A o \in Connections :
                owner'[o] = s => \/ o = c
                                 \/ owner[o] = s /\ ~(Valid(h) /\ o = m_pConnection[h])
       PROVE  Found(s)' /\ Waits(s)' /\ SocketTrue(s)'
  <2>1. Found(s)'
    <3> SUFFICES ASSUME NEW o \in Connections, owner'[o] = s
                 PROVE  \E i \in 1 .. Len(m_pConnection') :
                          m_pConnection'[i] = o /\ Keeps(sock'[s], i)
      BY DEF Found
    <3>1. CASE o = c
      BY <1>8, <1>15, <1>17, <3>1
    <3>2. CASE o # c
      <4>1. owner[o] = s /\ ~(Valid(h) /\ o = m_pConnection[h]) /\ o \in Live'
        BY <1>17, <3>2, SocketsAssumption
      <4>2. \E i \in 1 .. Len(m_pConnection) : m_pConnection[i] = o /\ Keeps(sock[s], i)
        BY <4>1 DEF TransportInv, Found
      <4>3. PICK i \in 1 .. Len(m_pConnection) : m_pConnection[i] = o /\ Keeps(r, i)
        BY <1>14, <4>1, <4>2
      <4> QED
        BY <1>8, <1>17, <4>1, <4>3 DEF Stay
    <3> QED
      BY <3>1, <3>2
  <2>2. Waits(s)' /\ SocketTrue(s)'
    BY <1>9, <1>17 DEF Waits, SocketTrue
  <2> QED
    BY <2>1, <2>2
<1>18. CASE success
  <2>1. PICK n :
        /\ n = CHOOSE t \in Workers : sock[t].call = "None"
        /\ \E t \in Workers : sock[t].call = "None"
        /\ sock' = [sock EXCEPT ![s] = r, ![n] = q]
        /\ owner' = [o \in Connections |->
                      IF o = c THEN s
                      ELSE IF Valid(h) /\ o = m_pConnection[h] THEN n ELSE owner[o]]
    BY <1>18 DEF AcceptEnds, c, h, r, m
  <2>2. n \in Workers /\ sock[n].call = "None" /\ n \in Sockets /\ n # s
    <3>1. n \in Workers /\ sock[n].call = "None"
      BY <2>1
    <3> QED
      BY <3>1 DEF Sockets
  <2>3. sock[n].h = 0 /\ sock[n].listen = <<>>
    BY <2>2 DEF TransportInv, SocketTrue, NoSocket
  <2>4. q \in SocketType /\ q.call = "Ready" /\ q.h = h /\ q.listen = <<>>
    <3>1. <<>> \in Seq(Nat \ {0})
      OBVIOUS
    <3> QED
      BY <1>3, <3>1 DEF Accepted, NoSocket, SocketType, h
  <2>5. \A o \in Connections : owner[o] # n
    BY <2>2, <2>3, NothingGiven
  <2> HIDE DEF q
  <2>6. /\ sock' \in [Sockets -> SocketType] /\ sock'[s] = r /\ sock'[n] = q
        /\ \A t \in Sockets : t # s /\ t # n => sock'[t] = sock[t]
    BY <1>2, <1>9, <2>1, <2>2, <2>4
  <2>7. Types'
    <3>1. owner' \in [Connections -> Sockets \cup {NoConnection}]
      BY <1>2, <2>1, <2>2
    <3> QED
      BY <1>1, <1>10, <2>6, <3>1 DEF TransportInv, Types
  <2>8. \A o \in Connections : o \notin Live' => owner'[o] = NoConnection
    BY <1>7, <1>12, <1>16, <2>1
  <2>9. Found(s)' /\ Waits(s)' /\ SocketTrue(s)'
    <3>1. \A o \in Connections :
            owner'[o] = s => \/ o = c
                             \/ owner[o] = s /\ ~(Valid(h) /\ o = m_pConnection[h])
      BY <2>1, <2>2
    <3> QED
      BY <1>17, <2>6, <2>8, <3>1
  <2>10. Found(n)' /\ Waits(n)' /\ SocketTrue(n)'
    <3>1. \A o \in Connections : owner'[o] = n => Valid(h) /\ o = m_pConnection[h]
      BY <2>1, <2>2, <2>5
    <3>2. Found(n)'
      BY <1>12, <2>4, <2>6, <3>1 DEF Found, Keeps
    <3> QED
      BY <2>4, <2>6, <3>2 DEF Waits, SocketTrue
  <2> DEFINE M == {s, n}
  <2>11. M \in SUBSET Sockets /\ \A t \in M : t = s \/ t = n
    BY <2>2
  <2>12. \A t \in Sockets \ M : sock'[t] = sock[t]
    BY <2>6
  <2>13. \A t \in Sockets \ M : \A o \in Connections : owner'[o] = t => owner[o] = t
    BY <2>1
  <2> HIDE DEF M
  <2>14. \A t \in M : Found(t)' /\ Waits(t)' /\ SocketTrue(t)'
    BY <2>9, <2>10, <2>11
  <2> QED
    BY <1>8, <1>11, <2>7, <2>8, <2>11, <2>12, <2>13, <2>14, StepKeeps
<1>19. CASE ~success
  <2>1. /\ sock' = [sock EXCEPT ![s] = r]
        /\ owner' = [o \in Connections |->
                      IF o = c THEN s ELSE IF o = a THEN NoConnection ELSE owner[o]]
    BY <1>19 DEF AcceptEnds, c, h, r, m
  <2>2. /\ sock' \in [Sockets -> SocketType] /\ sock'[s] = r
        /\ \A t \in Sockets \ {s} : sock'[t] = sock[t]
    BY <1>2, <1>9, <2>1
  <2>3. Types'
    <3>1. owner' \in [Connections -> Sockets \cup {NoConnection}]
      BY <1>2, <2>1
    <3> QED
      BY <1>1, <1>10, <2>2, <3>1 DEF TransportInv, Types
  <2>4. \A o \in Connections : o \notin Live' => owner'[o] = NoConnection
    BY <1>7, <1>16, <2>1
  <2>5. \A o \in Connections :
          owner'[o] = s => \/ o = c
                           \/ owner[o] = s /\ ~(Valid(h) /\ o = m_pConnection[h])
    <3> SUFFICES ASSUME NEW o \in Connections, o # c, owner'[o] = s,
                        Valid(h), o = m_pConnection[h]
                 PROVE  FALSE
      BY <2>1, SocketsAssumption
    <3>1. owner[o] = s /\ o # a
      BY <2>1, SocketsAssumption
    <3>2. h \in 1 .. Len(m_pConnection) /\ m_pConnection[h] # NoConnection
      BY <1>12, TransportAssumption
    <3>3. m_pConnection[h] = a
      BY <3>1, <3>2 DEF h
    <3> QED
      BY <3>1, <3>3
  <2>6. Found(s)' /\ Waits(s)' /\ SocketTrue(s)'
    BY <1>17, <2>2, <2>4, <2>5
  <2>7. \A o \in Connections : owner'[o] = owner[o] \/ owner'[o] \in {s, NoConnection}
    BY <2>1
  <2> QED
    BY <1>8, <1>11, <2>2, <2>3, <2>4, <2>6, <2>7, OneSocketStep
<1> QED
  BY <1>18, <1>19

LEMMA AcceptStep ==
  ASSUME TransportInv, NEW s \in Sockets, Accept(s)
  PROVE  TransportInv'
<1>1. PICK k : k = Pick(s)
  OBVIOUS
<1>2. PICK h : h = sock[s].listen[k]
  OBVIOUS
<1>3. PICK a : a = IF Valid(h) THEN m_pConnection[h] ELSE NoConnection
  OBVIOUS
<1>4. /\ sock[s].call = "Ready" /\ sock[s].listen # <<>>
      /\ IF AcceptBlocks(h)
         THEN /\ sock' = [sock EXCEPT ![s].call = "Accept", ![s].waitsIn = a, ![s].waitsAt = k]
              /\ conn' = [conn EXCEPT ![a].event = FALSE]
              /\ UNCHANGED <<m_pConnection, m_nOwnPort, owner, m_SpinLock, stuck>>
         ELSE AcceptEnds(s, k, a, ~AcceptFails(h))
  BY <1>1, <1>2, <1>3 DEF Accept, Runs
<1>5. k \in 1 .. Len(sock[s].listen) /\ k \in Nat
  <2>1. k \in 1 .. Len(sock[s].listen)
    BY <1>1, <1>4, PickIs
  <2> QED
    BY <2>1
<1>6. /\ conn \in [Connections -> ObjectType] /\ sock \in [Sockets -> SocketType]
      /\ m_pConnection \in Seq(Connections \cup {NoConnection})
  BY DEF TransportInv, Types, TableOf
<1>7. ASSUME NEW i \in 1 .. Len(m_pConnection), i = h, m_pConnection[i] # NoConnection
      PROVE  m_pConnection[i] = a
  BY <1>3, <1>6, <1>7 DEF Valid
<1>8. CASE AcceptBlocks(h)
  <2>1. a \in Connections /\ a # NoConnection
    <3>1. Valid(h)
      BY <1>8 DEF AcceptBlocks, AcceptFails
    <3> QED
      BY <1>3, <1>6, <3>1 DEF Valid
  <2> DEFINE r == [sock[s] EXCEPT !.call = "Accept", !.waitsIn = a, !.waitsAt = k]
  <2>2. /\ sock' = [sock EXCEPT ![s] = r]
        /\ conn' = [conn EXCEPT ![a] = [conn[a] EXCEPT !.event = FALSE]]
        /\ UNCHANGED <<m_pConnection, m_nOwnPort, owner, m_SpinLock, stuck>>
    <3>1. /\ sock' = [sock EXCEPT ![s].call = "Accept", ![s].waitsIn = a, ![s].waitsAt = k]
          /\ conn' = [conn EXCEPT ![a].event = FALSE]
          /\ UNCHANGED <<m_pConnection, m_nOwnPort, owner, m_SpinLock, stuck>>
      BY <1>4, <1>8
    <3> QED
      BY <1>6, <2>1, <3>1
  <2>3. /\ r \in SocketType /\ r.call = "Accept" /\ r.waitsIn = a /\ r.waitsAt = k
        /\ r.h = sock[s].h /\ r.listen = sock[s].listen /\ r.ownPort = sock[s].ownPort
    BY <1>5, <1>6, <2>1 DEF SocketType
  <2>4. Same([conn[a] EXCEPT !.event = FALSE], conn[a])
    BY <1>6, <2>1, EventIs
  <2> HIDE DEF r
  <2>5. /\ sock' \in [Sockets -> SocketType] /\ sock'[s] = r
        /\ \A t \in Sockets \ {s} : sock'[t] = sock[t]
    BY <1>6, <2>2, <2>3
  <2>6. conn' \in [Connections -> ObjectType] /\ \A c \in Connections : Same(conn'[c], conn[c])
    <3>1. \A c \in Connections : Same(conn'[c], conn[c])
      BY <1>6, <2>2, <2>4, SameIs
    <3>2. \A c \in Connections : conn'[c] \in ObjectType
      BY <3>1 DEF Same
    <3> QED
      BY <1>6, <2>2, <3>1, <3>2
  <2>7. Types'
    BY <2>2, <2>5, <2>6 DEF TransportInv, Types
  <2>8. Live' = Live /\ TableOf(m_pConnection', Live') /\ Stay(m_pConnection, m_pConnection', Live')
        /\ AutoPortsDistinct'
    <3>1. \A c \in Live : c \in Connections
      BY DEF Live
    <3> QED
      BY <2>2, <2>6, <3>1, QuietStep DEF Same
  <2>9. \A c \in Connections : c \notin Live => owner[c] = NoConnection
    BY DEF TransportInv
  <2>10. Found(s) /\ SocketTrue(s)
    BY DEF TransportInv
  <2>11. Found(s)'
    BY <2>2, <2>3, <2>5, <2>10 DEF Found, Keeps
  <2>12. SocketTrue(s)'
    BY <2>1, <2>3, <2>5, <2>10 DEF SocketTrue
  <2>13. Waits(s)'
    BY <1>2, <1>5, <1>7, <2>2, <2>3, <2>5 DEF Waits
  <2> QED
    BY <2>2, <2>5, <2>7, <2>8, <2>9, <2>11, <2>12, <2>13, OneSocketStep
<1>9. CASE ~AcceptBlocks(h)
  <2> DEFINE success == ~AcceptFails(h)
  <2>1. AcceptEnds(s, k, a, success) /\ success \in BOOLEAN
    BY <1>4, <1>9
  <2>2. sock[s].call # "None"
    BY <1>4
  <2>3. \A i \in 1 .. Len(m_pConnection) :
          /\ i = sock[s].listen[k]
          /\ m_pConnection[i] # NoConnection /\ owner[m_pConnection[i]] = s
          => m_pConnection[i] = a
    BY <1>2, <1>7
  <2> HIDE DEF success
  <2> QED
    BY <1>5, <2>1, <2>2, <2>3, AcceptEndsStep
<1> QED
  BY <1>8, <1>9

\* What Accept has read before it has waited is still true.
LEMMA AcceptReturnsStep ==
  ASSUME TransportInv, NEW s \in Sockets, AcceptReturns(s)
  PROVE  TransportInv'
<1>1. PICK k : k = sock[s].waitsAt
  OBVIOUS
<1>2. PICK a : a = sock[s].waitsIn
  OBVIOUS
<1> DEFINE success == ~conn[a].failed
<1>3. sock[s].call = "Accept" /\ AcceptEnds(s, k, a, success) /\ success \in BOOLEAN
  BY <1>1, <1>2 DEF AcceptReturns, GoesOn
<1>4. Waits(s)
  BY DEF TransportInv
<1>5. k \in 1 .. Len(sock[s].listen)
  BY <1>1, <1>3, <1>4 DEF Waits
<1>6. \A i \in 1 .. Len(m_pConnection) :
        /\ i = sock[s].listen[k]
        /\ m_pConnection[i] # NoConnection /\ owner[m_pConnection[i]] = s
        => m_pConnection[i] = a
  BY <1>1, <1>2, <1>3, <1>4 DEF Waits
<1>7. sock[s].call # "None"
  BY <1>3
<1> HIDE DEF success
<1> QED
  BY <1>3, <1>5, <1>6, <1>7, AcceptEndsStep

-----------------------------------------------------------------------------
(* The net task                                                            *)

\* The objects f have the types of those there are, live as they do, and have their ports.
AsBefore(f) == f \in [Connections -> ObjectType] /\ \A c \in Connections : Same(f[c], conn[c])

LEMMA NotChanged == TransportInv => AsBefore(conn)
BY SameIs DEF TransportInv, Types, AsBefore

LEMMA OneChanged ==
  ASSUME TransportInv, NEW c \in Connections, NEW o, Same(o, conn[c])
  PROVE  AsBefore([conn EXCEPT ![c] = o])
<1>1. conn \in [Connections -> ObjectType] /\ o \in ObjectType
  BY DEF TransportInv, Types, Same
<1> QED
  BY <1>1, SameIs DEF AsBefore

LEMMA BecomesIs ==
  ASSUME TransportInv, NEW c \in Live, NEW state \in ObjectStates \ {"None"},
         NEW peer \in Peers \cup {NoConnection}, NEW event \in BOOLEAN
  PROVE  Same([conn[c] EXCEPT !.state = state, !.event = event, !.peer = peer], conn[c])
<1>1. conn[c] \in ObjectType /\ conn[c].state # "None"
  BY DEF TransportInv, Types, Live
<1> DEFINE o == conn[c]
           p == [o EXCEPT !.state = state]
           q == [p EXCEPT !.event = event]
<1> HIDE DEF o
<1>2. Same(p, o) /\ p \in ObjectType
  BY <1>1, StateIs DEF o, Same
<1> HIDE DEF p
<1>3. Same(q, p) /\ q \in ObjectType
  BY <1>2, EventIs DEF Same
<1>4. Same([q EXCEPT !.peer = peer], q)
  BY <1>3, PeerIs
<1>5. Same([q EXCEPT !.peer = peer], o)
  BY <1>2, <1>3, <1>4, SameTwice
<1>6. [q EXCEPT !.peer = peer] = [o EXCEPT !.state = state, !.event = event, !.peer = peer]
  BY <1>1 DEF o, p, ObjectType
<1> QED
  BY <1>5, <1>6 DEF o

LEMMA BecomesAsBefore ==
  ASSUME TransportInv, NEW c \in Live, NEW state \in ObjectStates \ {"None"}
  PROVE  /\ AsBefore(Becomes(c, state))
         /\ \A p \in Peers : AsBefore([Becomes(c, state) EXCEPT ![c].peer = p])
<1>1. c \in Connections /\ conn \in [Connections -> ObjectType] /\ conn[c] \in ObjectType
  BY DEF Live, TransportInv, Types
<1> DEFINE event == Signalled(c)
           o(peer) == [conn[c] EXCEPT !.state = state, !.event = event, !.peer = peer]
<1>2. event \in BOOLEAN
  BY DEF Signalled
<1>3. Becomes(c, state) = [conn EXCEPT ![c] = o(NoConnection)]
  <2>1. Becomes(c, state) = [conn EXCEPT ![c].state = state, ![c].event = event,
                                         ![c].peer = NoConnection]
    BY DEF Becomes
  <2> HIDE DEF event
  <2> QED
    BY <1>1, <2>1
<1> HIDE DEF event
<1>4. \A peer \in Peers \cup {NoConnection} : Same(o(peer), conn[c])
  BY <1>2, BecomesIs
<1>5. \A p \in Peers : [Becomes(c, state) EXCEPT ![c].peer = p] = [conn EXCEPT ![c] = o(p)]
  BY <1>1, <1>3 DEF ObjectType
<1> HIDE DEF o
<1>6. ASSUME NEW p \in Peers \cup {NoConnection} PROVE AsBefore([conn EXCEPT ![c] = o(p)])
  <2>1. Same(o(p), conn[c])
    BY <1>4
  <2> QED
    BY <1>1, <2>1, OneChanged
<1>7. AsBefore(Becomes(c, state))
  BY <1>3, <1>6
<1>8. ASSUME NEW p \in Peers PROVE AsBefore([Becomes(c, state) EXCEPT ![c].peer = p])
  BY <1>5, <1>6
<1> QED
  BY <1>7, <1>8

LEMMA SYNAsBefore ==
  ASSUME TransportInv, NEW p \in Peers
  PROVE  AsBefore(SYNArrives(p))
<1> DEFINE c == SYNTaker(p)
           takers == {i \in DOMAIN m_pConnection : Valid(i) /\ Takes(m_pConnection[i], p)}
<1>1. c # NoConnection => c \in Live
  <2>1. SUFFICES ASSUME c # NoConnection PROVE c \in Live
    OBVIOUS
  <2>2. c = IF takers = {} THEN NoConnection
            ELSE m_pConnection[CHOOSE i \in takers : \A j \in takers : i <= j]
    BY DEF SYNTaker
  <2>3. takers \in SUBSET Nat
    BY DEF TransportInv, TableOf
  <2>4. \A i \in takers : m_pConnection[i] \in Live
    BY DEF TransportInv, TableOf, Valid
  <2> HIDE DEF takers, c
  <2>5. takers # {}
    BY <2>1, <2>2
  <2>6. \E i \in takers : \A j \in takers : i <= j
    BY <2>3, <2>5, LeastMember
  <2> QED
    BY <2>2, <2>4, <2>5, <2>6
<1>2. SYNArrives(p) = IF c # NoConnection /\ conn[c].state = "Listen"
                      THEN [Becomes(c, "SynReceived") EXCEPT ![c].peer = p] ELSE conn
  BY DEF SYNArrives
<1>3. "SynReceived" \in ObjectStates \ {"None"}
  BY DEF ObjectStates, TcpStates
<1> HIDE DEF c
<1> QED
  BY <1>1, <1>2, <1>3, BecomesAsBefore, NotChanged

LEMMA OutcomesAsBefore ==
  ASSUME TransportInv, NEW c \in Live, NEW after \in Outcomes(c)
  PROVE  AsBefore(after)
<1>1. conn[c].state \in DOMAIN Moves /\ after \in {Becomes(c, t) : t \in Moves[conn[c].state]}
  BY DEF Outcomes
<1>2. PICK t \in Moves[conn[c].state] : after = Becomes(c, t)
  BY <1>1
<1>3. t \in ObjectStates \ {"None"}
  BY <1>1, <1>2 DEF Moves, ObjectStates, TcpStates
<1> QED
  BY <1>2, <1>3, BecomesAsBefore

LEMMA FailsAsBefore ==
  ASSUME TransportInv, NEW c \in Live
  PROVE  AsBefore(Fails(c))
<1> DEFINE event == Signalled(c)
           o == conn[c]
           p == [o EXCEPT !.state = "Closed"]
           q == [p EXCEPT !.failed = TRUE]
           r == [q EXCEPT !.event = event]
<1>1. c \in Connections /\ conn \in [Connections -> ObjectType]
  BY DEF Live, TransportInv, Types
<1>2. event \in BOOLEAN /\ o \in ObjectType /\ o.state # "None"
  BY <1>1 DEF Signalled, Live
<1>3. "Closed" \in ObjectStates \ {"None"}
  BY DEF ObjectStates
<1> HIDE DEF event
<1>4. Fails(c) = [conn EXCEPT ![c] = r]
  <2>1. Fails(c) = [conn EXCEPT ![c].state = "Closed", ![c].failed = TRUE, ![c].event = event]
    BY DEF Fails, event
  <2> QED
    BY <1>1, <1>2, <2>1
<1>5. Same(r, o)
  <2> HIDE DEF o
  <2>1. Same(p, o) /\ p \in ObjectType
    BY <1>2, <1>3, StateIs DEF Same
  <2> HIDE DEF p
  <2>2. Same(q, p) /\ q \in ObjectType
    BY <2>1, FailedIs DEF Same
  <2> HIDE DEF q
  <2>3. Same(r, q)
    BY <1>2, <2>2, EventIs
  <2> QED
    BY <2>1, <2>2, <2>3, SameTwice
<1> HIDE DEF r
<1> QED
  BY <1>1, <1>4, <1>5, OneChanged

LEMMA FaultsAsBefore ==
  ASSUME TransportInv, NEW c \in Live, NEW after \in Faults(c)
  PROVE  AsBefore(after)
<1> DEFINE event == Signalled(c)
           o == conn[c]
<1>1. c \in Connections /\ conn \in [Connections -> ObjectType]
  BY DEF Live, TransportInv, Types
<1>2. event \in BOOLEAN /\ o \in ObjectType /\ o.state # "None"
  BY <1>1 DEF Signalled, Live
<1>3. CASE after = Fails(c)
  BY <1>3, FailsAsBefore
<1>4. CASE after = [conn EXCEPT ![c].state = "Listen", ![c].peer = NoConnection]
  <2> DEFINE p == [o EXCEPT !.state = "Listen"]
             q == [p EXCEPT !.peer = NoConnection]
  <2>1. after = [conn EXCEPT ![c] = q]
    BY <1>1, <1>2, <1>4
  <2>2. Same(q, o)
    <3>1. "Listen" \in ObjectStates \ {"None"}
      BY DEF ObjectStates, TcpStates
    <3> HIDE DEF o
    <3>2. Same(p, o) /\ p \in ObjectType
      BY <1>2, <3>1, StateIs DEF Same
    <3> HIDE DEF p
    <3>3. Same(q, p)
      BY <3>2, PeerIs
    <3> QED
      BY <3>2, <3>3, SameTwice
  <2> HIDE DEF q
  <2> QED
    BY <1>1, <2>1, <2>2, OneChanged
<1>5. CASE after = [conn EXCEPT ![c].failed = TRUE, ![c].event = event]
  <2> DEFINE p == [o EXCEPT !.failed = TRUE]
             q == [p EXCEPT !.event = event]
  <2> HIDE DEF event
  <2>1. after = [conn EXCEPT ![c] = q]
    BY <1>1, <1>2, <1>5
  <2>2. Same(q, o)
    <3> HIDE DEF o
    <3>1. Same(p, o) /\ p \in ObjectType
      BY <1>2, FailedIs DEF Same
    <3> HIDE DEF p
    <3>2. Same(q, p)
      BY <1>2, <3>1, EventIs
    <3> QED
      BY <3>1, <3>2, SameTwice
  <2> HIDE DEF q
  <2> QED
    BY <1>1, <2>1, <2>2, OneChanged
<1> QED
  BY <1>3, <1>4, <1>5 DEF Faults

\* The connections that have terminated are deleted, and the others stay in their slots.
LEMMA EndsPassStep ==
  ASSUME TransportInv, NEW before, AsBefore(before), NEW after, AsBefore(after),
         EndsPass(before, after)
  PROVE  TransportInv'
<1> DEFINE deleted == {c \in Connections : before[c].state = "Closed"}
           t == m_pConnection
           cleared == [i \in DOMAIN t |-> IF t[i] \in deleted THEN NoConnection ELSE t[i]]
           gone(c) == IF Signalled(c)
                      THEN [NoObject EXCEPT !.failed = before[c].failed, !.event = before[c].event]
                      ELSE NoObject
<1>1. /\ conn' = [c \in Connections |-> IF c \notin deleted THEN after[c] ELSE gone(c)]
      /\ owner' = [c \in Connections |-> IF c \in deleted THEN NoConnection ELSE owner[c]]
      /\ m_pConnection' = Shrink(cleared) \/ m_pConnection' = cleared
      /\ stuck' \in {"spin", stuck}
      /\ UNCHANGED <<m_nOwnPort, sock, m_SpinLock>>
  BY DEF EndsPass
<1>2. /\ t \in Seq(Connections \cup {NoConnection})
      /\ conn \in [Connections -> ObjectType]
      /\ owner \in [Connections -> Sockets \cup {NoConnection}]
  BY DEF TransportInv, Types, TableOf
<1>3. /\ \A c \in Connections : Same(before[c], conn[c]) /\ before[c] \in ObjectType
      /\ \A c \in Connections : Same(after[c], conn[c]) /\ after[c] \in ObjectType
      /\ deleted \subseteq Live
  BY DEF AsBefore, Same, Live
<1>4. ASSUME NEW c \in Connections PROVE gone(c) \in ObjectType /\ gone(c).state = "None"
  <2>1. before[c].failed \in BOOLEAN /\ before[c].event \in BOOLEAN
    BY <1>3 DEF ObjectType
  <2> QED
    BY <2>1, NoObjectIs DEF ObjectType
<1> HIDE DEF gone
<1>5. \A c \in Connections : c \in deleted => conn'[c].state = "None"
  BY <1>1, <1>4
<1>6. \A c \in Connections : c \notin deleted => Same(conn'[c], conn[c])
  BY <1>1, <1>3
<1>7. Live' = Live \ deleted
  <2> HIDE DEF deleted
  <2> QED
    BY <1>5, <1>6 DEF Live, Same
<1>8. /\ cleared \in Seq(Connections \cup {NoConnection}) /\ Len(cleared) = Len(t)
      /\ \A i \in 1 .. Len(t) : cleared[i] = IF t[i] \in deleted THEN NoConnection ELSE t[i]
  BY <1>2
<1> HIDE DEF cleared
<1>9. /\ m_pConnection' \in Seq(Connections \cup {NoConnection}) /\ Len(m_pConnection') <= Len(t)
      /\ \A i \in 1 .. Len(m_pConnection') : m_pConnection'[i] = cleared[i]
      /\ \A i \in 1 .. Len(t) : cleared[i] # NoConnection => i \in 1 .. Len(m_pConnection')
  <2>1. CASE m_pConnection' = cleared
    BY <1>8, <2>1
  <2>2. CASE m_pConnection' = Shrink(cleared)
    <3>1. /\ Shrink(cleared) \in Seq(Connections \cup {NoConnection})
          /\ Len(Shrink(cleared)) <= Len(cleared)
          /\ \A i \in 1 .. Len(Shrink(cleared)) : Shrink(cleared)[i] = cleared[i]
          /\ \A i \in 1 .. Len(cleared) : cleared[i] # NoConnection => i <= Len(Shrink(cleared))
      BY <1>8, ShrinkIs
    <3> QED
      BY <1>8, <2>2, <3>1
  <2> QED
    BY <1>1, <2>1, <2>2
<1> HIDE DEF deleted
<1>10. NoConnection \notin Live
  BY TransportAssumption DEF Live
<1>11. Stay(m_pConnection, m_pConnection', Live')
  BY <1>7, <1>8, <1>9, <1>10 DEF Stay
<1>12. TableOf(m_pConnection, Live)
  BY DEF TransportInv
<1>13. TableOf(m_pConnection', Live')
  <2>1. ASSUME NEW i \in 1 .. Len(m_pConnection'), m_pConnection'[i] # NoConnection
        PROVE  i \in 1 .. Len(t) /\ m_pConnection'[i] = t[i] /\ t[i] \in Live'
    <3>1. i \in 1 .. Len(t)
      BY <1>2, <1>9
    <3> QED
      BY <1>7, <1>8, <1>9, <1>12, <2>1, <3>1 DEF TableOf
  <2>2. \A i, j \in 1 .. Len(m_pConnection') :
          m_pConnection'[i] = m_pConnection'[j] /\ m_pConnection'[i] # NoConnection => i = j
    BY <1>12, <2>1 DEF TableOf
  <2>3. \A c \in Live' : \E i \in 1 .. Len(m_pConnection') : m_pConnection'[i] = c
    BY <1>7, <1>11, <1>12 DEF TableOf, Stay
  <2> QED
    BY <1>9, <2>1, <2>2, <2>3 DEF TableOf
<1>14. AutoPortsDistinct'
  <2>1. \A c \in Live' : /\ conn'[c].ownPort = conn[c].ownPort
                         /\ conn'[c].protocol = conn[c].protocol
    BY <1>6, <1>7 DEF Live, Same
  <2> QED
    BY <1>7, <1>10, <2>1, PortsStay DEF TransportInv
<1>15. Types'
  <2>1. conn' \in [Connections -> ObjectType]
    <3>1. \A c \in Connections : conn'[c] \in ObjectType
      BY <1>1, <1>3, <1>4
    <3> QED
      BY <1>1, <3>1
  <2>2. owner' \in [Connections -> Sockets \cup {NoConnection}]
    BY <1>1, <1>2
  <2> QED
    BY <1>1, <2>1, <2>2 DEF TransportInv, Types
<1>16. \A c \in Connections : c \notin Live' => owner'[c] = NoConnection
  BY <1>1, <1>7 DEF TransportInv
<1>17. \A c \in Connections : owner'[c] # NoConnection => owner'[c] = owner[c]
  BY <1>1
<1>18. \A s \in Sockets : sock[s].waitsIn \in Live' => sock[s].waitsIn \in Live
  BY <1>7
<1> QED
  BY <1>1, <1>11, <1>13, <1>14, <1>15, <1>16, <1>17, <1>18, NoSocketStep

LEMMA ProcessStep == ASSUME TransportInv, Process PROVE TransportInv'
<1>1. CASE EndsPass(conn, conn)
  BY <1>1, NotChanged, EndsPassStep
<1>2. ASSUME NEW p \in Peers, EndsPass(SYNArrives(p), SYNArrives(p)) PROVE TransportInv'
  BY <1>2, SYNAsBefore, EndsPassStep
<1>3. ASSUME NEW c \in Live, NEW after \in Outcomes(c) \cup Faults(c),
             EndsPass(after, after) \/ EndsPass(conn, after)
      PROVE  TransportInv'
  BY <1>3, NotChanged, OutcomesAsBefore, FaultsAsBefore, EndsPassStep
<1> QED
  BY <1>1, <1>2, <1>3 DEF Process

LEMMA TimesOutStep ==
  ASSUME TransportInv, NEW c \in Connections, TimesOut(c)
  PROVE  TransportInv'
<1>1. c \in Live
  BY DEF TimesOut, Live
<1> QED
  BY <1>1, NotChanged, FailsAsBefore, EndsPassStep DEF TimesOut

-----------------------------------------------------------------------------
(* The theorems                                                            *)

LEMMA InitInv == TransportInit => TransportInv
<1> SUFFICES ASSUME TransportInit PROVE TransportInv
  OBVIOUS
<1>1. /\ m_pConnection = <<>> /\ m_nOwnPort = OWN_PORT_MIN
      /\ conn = [c \in Connections |-> NoObject] /\ sock = [s \in Sockets |-> NoSocket]
      /\ owner = [c \in Connections |-> NoConnection]
      /\ m_SpinLock \in SpinLocks /\ stuck = "no"
  BY DEF TransportInit
<1>2. NoSocket \in SocketType
  <2>1. <<>> \in Seq(Nat \ {0})
    OBVIOUS
  <2> QED
    BY <2>1 DEF NoSocket, SocketType
<1>3. OWN_PORT_MIN \in OwnPorts
  BY TransportAssumption DEF OwnPorts
<1>4. Types
  BY <1>1, <1>2, <1>3, NoObjectIs, TransportAssumption DEF Types
<1>5. Live = {}
  BY <1>1, NoObjectIs DEF Live
<1>6. TableOf(m_pConnection, {})
  BY <1>1 DEF TableOf
<1>7. ASSUME NEW s \in Sockets PROVE Found(s) /\ Waits(s) /\ SocketTrue(s)
  BY <1>1, SocketsAssumption DEF Found, Waits, SocketTrue, NoSocket
<1>8. AutoPortsDistinct
  BY <1>5 DEF AutoPortsDistinct
<1> QED
  BY <1>1, <1>4, <1>5, <1>6, <1>7, <1>8 DEF TransportInv

LEMMA NextInv == TransportInv /\ [TransportNext]_transportVars => TransportInv'
<1> SUFFICES ASSUME TransportInv, [TransportNext]_transportVars PROVE TransportInv'
  OBVIOUS
<1>1. CASE UNCHANGED transportVars
  <2>1. stuck' \in {"no", "spin", "assert"}
    BY <1>1 DEF transportVars, TransportInv, Types
  <2> QED
    BY <1>1, <2>1, StuckStep DEF transportVars
<1>2. CASE Process
  BY <1>2, ProcessStep
<1>3. ASSUME NEW c \in Connections, TimesOut(c) PROVE TransportInv'
  BY <1>3, TimesOutStep
<1>4. ASSUME NEW s \in Sockets, UserCall(s) PROVE TransportInv'
  <2>1. CASE Spins(s)
    BY <2>1, StuckStep DEF Spins
  <2> QED
    BY <1>4, <2>1, NewSocketStep, BindTCPStep, BindUDPStep, ConnectUDPStep, ConnectTCPStep,
       ConnectReturnsStep, ListenStep, AcceptStep, AcceptReturnsStep, DeleteSocketStep
       DEF UserCall
<1> QED
  BY <1>1, <1>2, <1>3, <1>4 DEF TransportNext

\* What the other theorems rest on: the table holds the connections that live, and what sockets and
\* blocked tasks remember of it is true.
THEOREM TransportInvariant == TransportSpec => []TransportInv
<1> QED
  BY InitInv, NextInv, PTL DEF TransportSpec

\* The table, the objects, the sockets and the lock keep their types, whatever the tasks call
\* and whatever the net task finds.
THEOREM TransportTypes == TransportSpec => []TransportTypeOK
<1>1. TransportInv => TransportTypeOK
  BY DEF TransportInv, Types, TableOf, TransportTypeOK, ObjectType, SocketType
<1> QED
  BY <1>1, TransportInvariant, PTL

\* The table of CTransportLayer holds each connection once, and a socket that has been given a
\* connection finds it under a handle as long as it lives: no handle of another task, of a
\* connection that has been deleted while its task was blocked, or of the backlog, is in the way.
THEOREM HandlesFindTheirOwn == TransportSpec => []FindsItsOwn
<1>1. TransportInv => FindsItsOwn
  <2> SUFFICES ASSUME TransportInv PROVE FindsItsOwn
    OBVIOUS
  <2>1. /\ TableOf(m_pConnection, Live) /\ DOMAIN m_pConnection = 1 .. Len(m_pConnection)
        /\ owner \in [Connections -> Sockets \cup {NoConnection}]
        /\ NoConnection \notin Live /\ Len(m_pConnection) \in Nat
    BY TransportAssumption DEF TransportInv, Types, TableOf, Live
  <2>2. ASSUME NEW c \in Live
        PROVE  Cardinality({i \in DOMAIN m_pConnection : m_pConnection[i] = c}) = 1
    <3>1. PICK i \in DOMAIN m_pConnection : m_pConnection[i] = c
      BY <2>1 DEF TableOf
    <3>2. {j \in DOMAIN m_pConnection : m_pConnection[j] = c} = {i}
      BY <2>1, <3>1 DEF TableOf
    <3> QED
      BY <3>2, FS_Singleton
  <2>3. ASSUME NEW c \in Live, owner[c] # NoConnection
        PROVE  c \in Named(Handles(owner[c]))
    <3>1. PICK s \in Sockets : s = owner[c]
      BY <2>1, <2>3 DEF Live
    <3>2. PICK i \in 1 .. Len(m_pConnection) : m_pConnection[i] = c /\ Keeps(sock[s], i)
      BY <3>1 DEF TransportInv, Found, Live
    <3>3. i \in Handles(s)
      <4>1. sock[s].listen \in Seq(Nat \ {0}) /\ i # 0
        BY <2>1 DEF TransportInv, Types, SocketType
      <4>2. CASE i = sock[s].h
        BY <4>1, <4>2 DEF Handles
      <4>3. CASE \E k \in 1 .. Len(sock[s].listen) : sock[s].listen[k] = i
        <5>1. DOMAIN sock[s].listen = 1 .. Len(sock[s].listen)
          BY <4>1
        <5>2. i \in ToSet(sock[s].listen)
          BY <4>3, <5>1 DEF ToSet
        <5> QED
          BY <5>2 DEF Handles
      <4> QED
        BY <3>2, <4>2, <4>3 DEF Keeps
    <3>4. Valid(i)
      BY <2>1, <3>2 DEF Valid
    <3> QED
      BY <3>1, <3>2, <3>3, <3>4 DEF Named
  <2> QED
    BY <2>2, <2>3 DEF FindsItsOwn
<1> QED
  BY <1>1, TransportInvariant, PTL

\* No two connections of a protocol have the same own port, if the transport layer has chosen it:
\* the ports of connections that are being closed are not given again.
THEOREM PortsAreDistinct == TransportSpec => []AutoPortsDistinct
<1>1. TransportInv => AutoPortsDistinct
  BY DEF TransportInv
<1> QED
  BY <1>1, TransportInvariant, PTL

-----------------------------------------------------------------------------
(* The ARP handler                                                         *)

\* 0 stands for a timer that does not run, and is no slot.
LEMMA ZeroIsNoSlot == 0 \notin ArpSlots
  BY ArpAssumption DEF ArpSlots

\* The slot that Resolve takes is a slot, and no entry in it waits for a reply.
LEMMA SlotIsIdle ==
  ASSUME ArpTypeOK, NEW i \in ArpSlots, SlotToUse(i)
  PROVE  m_Entry[i].State # "RequestSent"
  BY DEF SlotToUse, In

-----------------------------------------------------------------------------
(* Types *)

LEMMA ArpTypeInit == ArpInit => ArpTypeOK
<1> SUFFICES ASSUME ArpInit PROVE ArpTypeOK
  OBVIOUS
<1>1. m_Entry \in [ArpSlots -> Entry]
  BY DEF ArpInit, Entry
<1>2. had \in [Hosts -> SUBSET Macs]
  BY DEF ArpInit
<1> QED
  BY <1>1, <1>2 DEF ArpInit, ArpTypeOK

LEMMA ArpTypeStep == ArpTypeOK /\ [ArpNext]_arpVars => ArpTypeOK'
<1> SUFFICES ASSUME ArpTypeOK, [ArpNext]_arpVars PROVE ArpTypeOK'
  OBVIOUS
<1>1. ASSUME NEW h \in Hosts, Resolve(h) PROVE ArpTypeOK'
  <2>1. CASE noEntry'
    BY <1>1, <2>1 DEF ArpTypeOK, Resolve
  <2>2. CASE ~noEntry'
    <3>1. PICK i \in ArpSlots, t \in Timers :
            /\ m_Entry' = [m_Entry EXCEPT ![i].State = "RequestSent", ![i].IPAddress = h,
                                          ![i].hTimer = t]
            /\ kernelTimer' = [kernelTimer EXCEPT ![t] = i]
            /\ UNCHANGED <<had, noEntry>>
      BY <1>1, <2>2 DEF Resolve
    <3>2. ASSUME NEW j \in ArpSlots PROVE m_Entry'[j] \in Entry
      <4>1. CASE j = i
        <5>1. m_Entry'[j] = [State |-> "RequestSent", IPAddress |-> h,
                             MACAddress |-> m_Entry[j].MACAddress, hTimer |-> t]
          BY <3>1, <4>1 DEF ArpTypeOK, Entry
        <5> QED
          BY <5>1 DEF ArpTypeOK, Entry
      <4>2. CASE j # i
        BY <3>1, <4>2 DEF ArpTypeOK
      <4> QED
        BY <4>1, <4>2
    <3>3. m_Entry' \in [ArpSlots -> Entry]
      BY <3>1, <3>2 DEF ArpTypeOK
    <3> QED
      BY <3>1, <3>3 DEF ArpTypeOK
  <2> QED
    BY <2>1, <2>2
<1>2. ASSUME NEW h \in Hosts, NEW mac \in had[h], ReplyReceived(h, mac) PROVE ArpTypeOK'
  <2>1. PICK i \in ArpSlots :
          /\ kernelTimer' = [kernelTimer EXCEPT ![m_Entry[i].hTimer] = 0]
          /\ m_Entry' = [m_Entry EXCEPT ![i].State = "Valid", ![i].MACAddress = mac]
          /\ UNCHANGED <<had, noEntry>>
    BY <1>2 DEF ReplyReceived, In
  <2>2. mac \in Macs
    BY DEF ArpTypeOK
  <2>3. m_Entry' \in [ArpSlots -> Entry]
    BY <2>1, <2>2 DEF ArpTypeOK, Entry
  <2> QED
    BY <2>1, <2>3 DEF ArpTypeOK
<1>3. ASSUME NEW h \in Hosts, NEW mac \in had[h], RequestReceived(h, mac) PROVE ArpTypeOK'
  <2>1. PICK i \in ArpSlots :
          m_Entry' = [m_Entry EXCEPT ![i].State = "Valid", ![i].IPAddress = h,
                                     ![i].MACAddress = mac]
    BY <1>3 DEF RequestReceived, In
  <2>2. mac \in Macs
    BY DEF ArpTypeOK
  <2>3. m_Entry' \in [ArpSlots -> Entry]
    BY <2>1, <2>2 DEF ArpTypeOK, Entry
  <2> QED
    BY <1>3, <2>3 DEF ArpTypeOK, RequestReceived
<1>4. ASSUME NEW h \in Hosts, NEW mac \in Macs, Appears(h, mac) PROVE ArpTypeOK'
  BY <1>4 DEF ArpTypeOK, Appears
<1>5. ASSUME NEW i \in ArpSlots, Age(i) PROVE ArpTypeOK'
  BY <1>5 DEF ArpTypeOK, Entry, Age
<1>6. ASSUME NEW t \in Timers, TimerHandler(t) PROVE ArpTypeOK'
  <2>1. kernelTimer[t] \in ArpSlots
    BY <1>6 DEF ArpTypeOK, TimerHandler
  <2> QED
    BY <1>6, <2>1 DEF ArpTypeOK, Entry, TimerHandler
<1>7. ASSUME UNCHANGED arpVars PROVE ArpTypeOK'
  BY <1>7 DEF ArpTypeOK, arpVars
<1> QED
  BY <1>1, <1>2, <1>3, <1>4, <1>5, <1>6, <1>7 DEF ArpNext, Receive

\* The variables keep their types: in particular a timer's parameter is always an index of the
\* table, as TimerHandler asserts.
THEOREM ArpTypeCorrect == ArpSpec => []ArpTypeOK
  BY ArpTypeInit, ArpTypeStep, PTL DEF ArpSpec

-----------------------------------------------------------------------------
(* The timers *)

LEMMA TimersInit == ArpInit => ArpTimersExact
  BY DEF ArpInit, ArpTimersExact, In

LEMMA TimersStep == ArpTypeOK /\ ArpTimersExact /\ [ArpNext]_arpVars => ArpTimersExact'
<1> SUFFICES ASSUME ArpTypeOK, ArpTimersExact, [ArpNext]_arpVars PROVE ArpTimersExact'
  OBVIOUS
<1> USE ZeroIsNoSlot
<1>1. ASSUME NEW h \in Hosts, Resolve(h) PROVE ArpTimersExact'
  <2>1. CASE noEntry'
    BY <1>1, <2>1 DEF ArpTypeOK, ArpTimersExact, Resolve, In
  <2>2. CASE ~noEntry'
    <3>1. PICK i \in ArpSlots, t \in Timers :
            /\ SlotToUse(i) /\ kernelTimer[t] = 0
            /\ m_Entry' = [m_Entry EXCEPT ![i].State = "RequestSent", ![i].IPAddress = h,
                                          ![i].hTimer = t]
            /\ kernelTimer' = [kernelTimer EXCEPT ![t] = i]
      BY <1>1, <2>2 DEF Resolve
    <3>2. m_Entry[i].State # "RequestSent"
      BY <3>1, SlotIsIdle
    <3>3. \A u \in Timers : kernelTimer[u] # i
      BY <3>2 DEF ArpTimersExact
    <3>4. ASSUME NEW j \in ArpSlots, m_Entry'[j].State = "RequestSent"
          PROVE  m_Entry'[j].hTimer \in Timers /\ kernelTimer'[m_Entry'[j].hTimer] = j
      BY <3>1, <3>4 DEF ArpTypeOK, Entry, ArpTimersExact, In
    <3>5. ASSUME NEW u \in Timers, kernelTimer'[u] # 0
          PROVE  /\ m_Entry'[kernelTimer'[u]].State = "RequestSent"
                 /\ m_Entry'[kernelTimer'[u]].hTimer = u
      BY <3>1, <3>3, <3>5 DEF ArpTypeOK, Entry, ArpTimersExact
    <3> QED
      BY <3>4, <3>5 DEF ArpTimersExact, In
  <2> QED
    BY <2>1, <2>2
<1>2. ASSUME NEW h \in Hosts, NEW mac \in had[h], ReplyReceived(h, mac) PROVE ArpTimersExact'
  <2>1. PICK i \in In("RequestSent") :
          /\ kernelTimer' = [kernelTimer EXCEPT ![m_Entry[i].hTimer] = 0]
          /\ m_Entry' = [m_Entry EXCEPT ![i].State = "Valid", ![i].MACAddress = mac]
    BY <1>2 DEF ReplyReceived
  <2>2. i \in ArpSlots /\ m_Entry[i].hTimer \in Timers /\ kernelTimer[m_Entry[i].hTimer] = i
    BY DEF ArpTimersExact, In
  <2>3. ASSUME NEW j \in ArpSlots, m_Entry'[j].State = "RequestSent"
        PROVE  m_Entry'[j].hTimer \in Timers /\ kernelTimer'[m_Entry'[j].hTimer] = j
    BY <2>1, <2>2, <2>3 DEF ArpTypeOK, Entry, ArpTimersExact, In
  <2>4. ASSUME NEW u \in Timers, kernelTimer'[u] # 0
        PROVE  /\ m_Entry'[kernelTimer'[u]].State = "RequestSent"
               /\ m_Entry'[kernelTimer'[u]].hTimer = u
    BY <2>1, <2>2, <2>4 DEF ArpTypeOK, Entry, ArpTimersExact
  <2> QED
    BY <2>3, <2>4 DEF ArpTimersExact, In
<1>3. ASSUME NEW h \in Hosts, NEW mac \in had[h], RequestReceived(h, mac) PROVE ArpTimersExact'
  <2>1. PICK i \in In("FreeSlot") :
          m_Entry' = [m_Entry EXCEPT ![i].State = "Valid", ![i].IPAddress = h,
                                     ![i].MACAddress = mac]
    BY <1>3 DEF RequestReceived
  <2>2. kernelTimer' = kernelTimer
    BY <1>3 DEF RequestReceived
  <2> QED
    BY <2>1, <2>2 DEF ArpTypeOK, Entry, ArpTimersExact, In
<1>4. ASSUME NEW h \in Hosts, NEW mac \in Macs, Appears(h, mac) PROVE ArpTimersExact'
  BY <1>4 DEF ArpTimersExact, Appears, In
<1>5. ASSUME NEW i \in ArpSlots, Age(i) PROVE ArpTimersExact'
  BY <1>5 DEF ArpTypeOK, Entry, ArpTimersExact, Age, In
<1>6. ASSUME NEW t \in Timers, TimerHandler(t) PROVE ArpTimersExact'
  <2>1. /\ kernelTimer[t] \in ArpSlots
        /\ m_Entry[kernelTimer[t]].State = "RequestSent" /\ m_Entry[kernelTimer[t]].hTimer = t
    BY <1>6 DEF ArpTypeOK, ArpTimersExact, TimerHandler
  <2>2. /\ m_Entry' = [m_Entry EXCEPT ![kernelTimer[t]].State = "FreeSlot"]
        /\ kernelTimer' = [kernelTimer EXCEPT ![t] = 0]
    BY <1>6, <2>1 DEF TimerHandler
  <2> QED
    BY <2>1, <2>2 DEF ArpTypeOK, Entry, ArpTimersExact, In
<1>7. ASSUME UNCHANGED arpVars PROVE ArpTimersExact'
  BY <1>7 DEF ArpTimersExact, arpVars, In
<1> QED
  BY <1>1, <1>2, <1>3, <1>4, <1>5, <1>6, <1>7 DEF ArpNext, Receive

\* Exactly the entries that wait for a reply have a running timer, and hold its handle
\* (Resolve, ReplyReceived, TimerHandler), for every size of the table.
THEOREM ArpTimersAreExact == ArpSpec => []ArpTimersExact
<1>1. ArpInit => ArpTypeOK /\ ArpTimersExact
  BY ArpTypeInit, TimersInit
<1>2. ArpTypeOK /\ ArpTimersExact /\ [ArpNext]_arpVars => (ArpTypeOK /\ ArpTimersExact)'
  BY ArpTypeStep, TimersStep
<1> QED
  BY <1>1, <1>2, PTL DEF ArpSpec

-----------------------------------------------------------------------------
(* The table *)

LEMMA TableInit == ArpInit => ArpTableTrue
  BY DEF ArpInit, ArpTableTrue, In

LEMMA TableStep == ArpTypeOK /\ ArpTableTrue /\ [ArpNext]_arpVars => ArpTableTrue'
<1> SUFFICES ASSUME ArpTypeOK, ArpTableTrue, [ArpNext]_arpVars PROVE ArpTableTrue'
  OBVIOUS
<1>1. ASSUME NEW h \in Hosts, Resolve(h) PROVE ArpTableTrue'
  <2>1. CASE noEntry'
    BY <1>1, <2>1 DEF ArpTypeOK, ArpTableTrue, Resolve, In
  <2>2. CASE ~noEntry'
    <3>1. PICK i \in ArpSlots, t \in Timers :
            m_Entry' = [m_Entry EXCEPT ![i].State = "RequestSent", ![i].IPAddress = h,
                                       ![i].hTimer = t]
      BY <1>1, <2>2 DEF Resolve
    <3>2. had' = had /\ \A j \in ArpSlots : m_Entry[j].State # "FreeSlot" => m_Entry[j].IPAddress # h
      BY <1>1 DEF Resolve, Known
    <3> QED
      BY <3>1, <3>2 DEF ArpTypeOK, Entry, ArpTableTrue, In
  <2> QED
    BY <2>1, <2>2
<1>2. ASSUME NEW h \in Hosts, NEW mac \in had[h], ReplyReceived(h, mac) PROVE ArpTableTrue'
  <2>1. PICK i \in ArpSlots :
          /\ m_Entry[i].State = "RequestSent" /\ m_Entry[i].IPAddress = h
          /\ m_Entry' = [m_Entry EXCEPT ![i].State = "Valid", ![i].MACAddress = mac]
    BY <1>2 DEF ReplyReceived, In
  <2>2. had' = had
    BY <1>2 DEF ReplyReceived
  <2> QED
    BY <2>1, <2>2 DEF ArpTypeOK, Entry, ArpTableTrue, In
<1>3. ASSUME NEW h \in Hosts, NEW mac \in had[h], RequestReceived(h, mac) PROVE ArpTableTrue'
  <2>1. PICK i \in ArpSlots :
          m_Entry' = [m_Entry EXCEPT ![i].State = "Valid", ![i].IPAddress = h,
                                     ![i].MACAddress = mac]
    BY <1>3 DEF RequestReceived, In
  <2>2. had' = had /\ \A j \in ArpSlots : m_Entry[j].State # "FreeSlot" => m_Entry[j].IPAddress # h
    BY <1>3 DEF RequestReceived, Known
  <2> QED
    BY <2>1, <2>2 DEF ArpTypeOK, Entry, ArpTableTrue, In
<1>4. ASSUME NEW h \in Hosts, NEW mac \in Macs, Appears(h, mac) PROVE ArpTableTrue'
  BY <1>4 DEF ArpTypeOK, Entry, ArpTableTrue, Appears, In
<1>5. ASSUME NEW i \in ArpSlots, Age(i) PROVE ArpTableTrue'
  BY <1>5 DEF ArpTypeOK, Entry, ArpTableTrue, Age, In
<1>6. ASSUME NEW t \in Timers, TimerHandler(t) PROVE ArpTableTrue'
  BY <1>6 DEF ArpTypeOK, Entry, ArpTableTrue, TimerHandler, In
<1>7. ASSUME UNCHANGED arpVars PROVE ArpTableTrue'
  BY <1>7 DEF ArpTableTrue, arpVars, In
<1> QED
  BY <1>1, <1>2, <1>3, <1>4, <1>5, <1>6, <1>7 DEF ArpNext, Receive

\* A host has one entry at most, with an address it has had (Resolve, ReplyReceived,
\* RequestReceived), although entries are replaced and frames come late.
THEOREM ArpTableIsTrue == ArpSpec => []ArpTableTrue
<1>1. ArpInit => ArpTypeOK /\ ArpTableTrue
  BY ArpTypeInit, TableInit
<1>2. ArpTypeOK /\ ArpTableTrue /\ [ArpNext]_arpVars => (ArpTypeOK /\ ArpTableTrue)'
  BY ArpTypeStep, TableStep
<1> QED
  BY <1>1, <1>2, PTL DEF ArpSpec
=============================================================================
