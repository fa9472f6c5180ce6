------------------------------- MODULE Transport -------------------------------
(***************************************************************************)
(* CTransportLayer and CSocket (lib/net/transportlayer.cpp, socket.cpp):   *)
(* the table of connections, whose indices are the handles that sockets    *)
(* keep, the own ports, the backlog of a listening socket, and the lock.   *)
(* Each socket is used by one task.  Tasks are cooperative: a call is one  *)
(* step up to where it blocks, and a pass of the net task is one step.     *)
(* What happens inside a connection is in TcpConnection; here its state    *)
(* changes as its peers, its timers and ICMP messages please.              *)
(***************************************************************************)
EXTENDS Integers, FiniteSets, SequencesExt

CONSTANTS
  Clients,        \* sockets that connect
  Listeners,      \* sockets that listen
  Workers,        \* sockets that Accept returns
  Connections,    \* addresses at which a CNetConnection can live
  Peers,          \* foreign hosts with a port, which connect to ServerPort
  ServerPort,     \* the port that listening sockets are bound to
  Protocols,      \* of the clients' sockets: "TCP", "UDP"
  OWN_PORT_MIN, OWN_PORT_MAX,
  BackLog,        \* the argument of Listen
  SpinLocks,      \* "free" if CSpinLock::s_bEnabled (the build allows several cores), else "off"
  NoConnection    \* the null pointer

ASSUME TransportAssumption ==
  /\ OWN_PORT_MIN \in Nat /\ OWN_PORT_MAX \in Nat /\ OWN_PORT_MIN <= OWN_PORT_MAX
  /\ ServerPort \in Nat \ {0} /\ ServerPort \notin OWN_PORT_MIN .. OWN_PORT_MAX
  /\ BackLog \in Nat \ {0}
  /\ SpinLocks # {} /\ SpinLocks \subseteq {"off", "free"}
  /\ IsFiniteSet(Connections) /\ NoConnection \notin Connections

Sockets == Clients \cup Listeners \cup Workers

ASSUME SocketsAssumption ==
  /\ Clients \cap Listeners = {} /\ Workers \cap (Clients \cup Listeners) = {}
  /\ NoConnection \notin Sockets

VARIABLES
  m_pConnection,  \* the table: a handle is an index of it
  m_nOwnPort,     \* the own port to try next
  conn,           \* the connection objects
  sock,           \* the sockets
  owner,          \* history: the socket that has been given the connection's handle
  m_SpinLock,     \* "off", "free" or the socket whose task holds it
  stuck           \* "spin": a task spins on m_SpinLock; "assert": one has failed

transportVars == <<m_pConnection, m_nOwnPort, conn, sock, owner, m_SpinLock, stuck>>

\* FINQueued: the user has called Close.  Finishing: FinWait1 to TimeWait.
TcpStates == {"Listen", "SynSent", "SynReceived", "Established", "CloseWait", "FINQueued", "Finishing"}
OwnPorts == OWN_PORT_MIN .. OWN_PORT_MAX
NoObject == [state |-> "None", protocol |-> "TCP", ownPort |-> 0,
             peer |-> NoConnection, failed |-> FALSE, event |-> FALSE]
NoSocket == [call |-> "None", protocol |-> "TCP", ownPort |-> 0, h |-> 0,
             listen |-> <<>>, waitsIn |-> NoConnection, waitsAt |-> 0]

TransportTypeOK ==
  /\ m_pConnection \in Seq(Connections \cup {NoConnection})
  /\ m_nOwnPort \in OwnPorts
  /\ \A c \in Connections :
       /\ conn[c].state \in TcpStates \cup {"None", "Open", "Closed"}
       /\ conn[c].ownPort \in OwnPorts \cup {0, ServerPort}
       /\ conn[c].peer \in Peers \cup {NoConnection}
  /\ \A s \in Sockets :
       /\ sock[s].call \in {"None", "Ready", "Connect", "Accept"}
       /\ sock[s].h \in Nat /\ sock[s].listen \in Seq(Nat \ {0})
       /\ sock[s].waitsIn \in Connections \cup {NoConnection}
  /\ owner \in [Connections -> Sockets \cup {NoConnection}]
  /\ m_SpinLock \in Sockets \cup {"off", "free"}
  /\ stuck \in {"no", "spin", "assert"}

TransportInit ==
  /\ m_pConnection = <<>>
  /\ m_nOwnPort = OWN_PORT_MIN
  /\ conn = [c \in Connections |-> NoObject]
  /\ sock = [s \in Sockets |-> NoSocket]
  /\ owner = [c \in Connections |-> NoConnection]
  /\ m_SpinLock \in SpinLocks
  /\ stuck = "no"

Live == {c \in Connections : conn[c].state # "None"}
Terminated(c) == conn[c].state = "Closed"
\* `new` finds memory; not where a blocked task still looks at a deleted connection.
Unallocated == {c \in Connections \ Live : \A s \in Sockets : sock[s].waitsIn # c}

\* Which address `new` returns makes no difference, since nothing refers to those it may return.
New == CHOOSE c \in Unallocated : TRUE

-----------------------------------------------------------------------------
(* The table *)

\* The test that every call with a handle makes.
Valid(h) == h \in DOMAIN m_pConnection /\ m_pConnection[h] # NoConnection

\* Mutant: the index of an appended slot is one too low.
SlotFor_Last(table) ==
  LET free == {i \in DOMAIN table : table[i] = NoConnection}
  IN  IF free = {} THEN IF table = <<>> THEN 1 ELSE Len(table)
      ELSE CHOOSE i \in free : \A j \in free : i <= j

\* The first free slot, or one appended to the table.
SlotFor(table) ==
  LET free == {i \in DOMAIN table : table[i] = NoConnection}
  IN  IF free = {} THEN Len(table) + 1 ELSE CHOOSE i \in free : \A j \in free : i <= j

Enter(table, c) ==
  LET i == SlotFor(table)
  IN  IF i > Len(table) THEN Append(table, c) ELSE [table EXCEPT ![i] = c]

\* Free slots are removed from the end of the table.
Shrink(table) ==
  LET used == {i \in DOMAIN table : table[i] # NoConnection}
  IN  SubSeq(table, 1, CHOOSE n \in 0 .. Len(table) :
                         (\A i \in used : i <= n) /\ (n = 0 \/ n \in used))

\* Mutant: ports of terminated connections, which are still in the table, count as free.
PortUsed_Listening(port, protocol) ==
  \E c \in Live : conn[c].ownPort = port /\ conn[c].protocol = protocol
                  /\ conn[c].state \in {"Open", "Listen"}

PortUsed(port, protocol) ==
  \E c \in Live : conn[c].ownPort = port /\ conn[c].protocol = protocol

NextPort(port) == IF port + 1 > OWN_PORT_MAX THEN OWN_PORT_MIN ELSE port + 1

\* From m_nOwnPort on in a circle: the first port that is not used.
FirstUnused(protocol) ==
  LET n == OWN_PORT_MAX - OWN_PORT_MIN + 1
      after(i) == OWN_PORT_MIN + ((m_nOwnPort - OWN_PORT_MIN + i) % n)
      k == CHOOSE i \in 0 .. n - 1 :
             /\ ~PortUsed(after(i), protocol)
             /\ \A j \in 0 .. i - 1 : PortUsed(after(j), protocol)
  IN  after(k)

\* The lock: without it, tasks that do not block exclude each other anyway.
Free == m_SpinLock \in {"off", "free"}
Released == IF m_SpinLock = "off" THEN "off" ELSE "free"

Runs(s) == stuck = "no" /\ sock[s].call = "Ready"

-----------------------------------------------------------------------------
(* Closing: CTransportLayer::Disconnect, and Close of the connection *)

Closes(c) ==
  CASE conn[c].failed -> conn[c]
    [] ~conn[c].failed /\ conn[c].state \in {"SynReceived", "Established", "CloseWait"} ->
         [conn[c] EXCEPT !.state = "FINQueued"]
    [] conn[c].state \in {"Listen", "SynSent", "Open"} -> [conn[c] EXCEPT !.state = "Closed"]
    [] OTHER -> conn[c]

\* Close asserts that it has not queued a FIN before.
CloseAsserts(c) == ~conn[c].failed /\ conn[c].state = "FINQueued"

Named(hs) == {m_pConnection[h] : h \in {i \in hs : Valid(i)}}

Disconnect(hs) ==
  /\ conn' = [c \in Connections |-> IF c \in Named(hs) THEN Closes(c) ELSE conn[c]]
  /\ stuck' = IF \E c \in Named(hs) : CloseAsserts(c) THEN "assert" ELSE stuck

CloseAsserted(hs) ==
  /\ \E c \in Named(hs) : CloseAsserts(c)
  /\ stuck' = "assert"
  /\ UNCHANGED <<m_pConnection, m_nOwnPort, conn, sock, owner, m_SpinLock>>

Handles(s) == ({sock[s].h} \ {0}) \cup ToSet(sock[s].listen)

-----------------------------------------------------------------------------
(* The calls *)

NewSocket(s) ==
  /\ stuck = "no" /\ sock[s].call = "None" /\ s \notin Workers
  /\ \E p \in IF s \in Clients THEN Protocols ELSE {"TCP"} :
       sock' = [sock EXCEPT ![s] = [NoSocket EXCEPT !.call = "Ready", !.protocol = p]]
  /\ UNCHANGED <<m_pConnection, m_nOwnPort, conn, owner, m_SpinLock, stuck>>

Object(protocol, state, port) ==
  [NoObject EXCEPT !.state = state, !.protocol = protocol, !.ownPort = port]

BindTCP(s) ==
  /\ Runs(s) /\ s \in Listeners /\ sock[s].ownPort = 0
  /\ sock' = [sock EXCEPT ![s].ownPort = ServerPort]
  /\ UNCHANGED <<m_pConnection, m_nOwnPort, conn, owner, m_SpinLock, stuck>>

BindUDP(s) ==
  /\ Runs(s) /\ sock[s].protocol = "UDP" /\ sock[s].ownPort = 0 /\ sock[s].h = 0
  /\ Free /\ Unallocated # {}
  /\ m_pConnection' = Enter(m_pConnection, New)
  /\ conn' = [conn EXCEPT ![New] = Object("UDP", "Open", ServerPort)]
  /\ sock' = [sock EXCEPT ![s].ownPort = ServerPort, ![s].h = SlotFor(m_pConnection)]
  /\ owner' = [owner EXCEPT ![New] = s]
  /\ UNCHANGED <<m_nOwnPort, m_SpinLock, stuck>>

\* A UDP socket that has a connection is closed and connected again.
ConnectUDP(s) ==
  /\ Runs(s) /\ sock[s].protocol = "UDP"
  /\ \/ CloseAsserted({sock[s].h})
     \/ LET c == New
            auto == sock[s].ownPort = 0
            port == IF auto THEN FirstUnused("UDP") ELSE sock[s].ownPort
            old == Named({sock[s].h})
        IN  /\ Free /\ Unallocated # {}
            /\ auto => \E p \in OwnPorts : ~PortUsed(p, "UDP")
            /\ \A o \in old : ~CloseAsserts(o)
            /\ m_pConnection' = Enter(m_pConnection, c)
            /\ conn' = [o \in Connections |->
                         IF o = c THEN Object("UDP", "Open", port)
                         ELSE IF o \in old THEN Closes(o) ELSE conn[o]]
            /\ sock' = [sock EXCEPT ![s].h = SlotFor(m_pConnection)]
            /\ owner' = [o \in Connections |-> IF o = c THEN s
                                           ELSE IF o \in old THEN NoConnection ELSE owner[o]]
            /\ m_nOwnPort' = IF auto THEN NextPort(port) ELSE m_nOwnPort
            /\ UNCHANGED <<m_SpinLock, stuck>>

\* The SYN is sent and the task blocks with the lock, or sending fails.
ConnectTCP(s) ==
  /\ Runs(s) /\ s \in Clients /\ sock[s].protocol = "TCP" /\ sock[s].h = 0
  /\ Free /\ Unallocated # {}
  /\ \E sent \in BOOLEAN :
       LET c == New
           auto == sock[s].ownPort = 0
           port == IF auto THEN FirstUnused("TCP") ELSE sock[s].ownPort
       IN  /\ auto => \E p \in OwnPorts : ~PortUsed(p, "TCP")
           /\ m_pConnection' = Enter(m_pConnection, c)
           /\ conn' = [conn EXCEPT ![c] =
                        Object("TCP", IF sent THEN "SynSent" ELSE "Closed", port)]
           /\ m_nOwnPort' = IF auto THEN NextPort(port) ELSE m_nOwnPort
           /\ IF sent
              THEN /\ sock' = [sock EXCEPT ![s].call = "Connect", ![s].waitsIn = c,
                                           ![s].waitsAt = SlotFor(m_pConnection)]
                   /\ m_SpinLock' = IF m_SpinLock = "off" THEN "off" ELSE s
              ELSE UNCHANGED <<sock, m_SpinLock>>
  /\ UNCHANGED <<owner, stuck>>

\* What a blocked task leaves behind when it goes on: nothing if the object is deleted.
LeftBehind(c) == IF conn[c].state = "None" THEN NoObject ELSE [conn[c] EXCEPT !.event = FALSE]

\* The task goes on, in a connection that may have been deleted.
ConnectReturns(s) ==
  /\ stuck = "no" /\ sock[s].call = "Connect" /\ conn[sock[s].waitsIn].event
  /\ LET c == sock[s].waitsIn
     IN  /\ sock' = [sock EXCEPT ![s].call = "Ready", ![s].waitsIn = NoConnection, ![s].waitsAt = 0,
                                 ![s].h = IF conn[c].failed THEN 0 ELSE sock[s].waitsAt]
         /\ owner' = IF conn[c].failed \/ conn[c].state = "None" THEN owner ELSE [owner EXCEPT ![c] = s]
         /\ conn' = [conn EXCEPT ![c] = LeftBehind(c)]
  /\ m_SpinLock' = Released
  /\ UNCHANGED <<m_pConnection, m_nOwnPort, stuck>>

\* The tables with the first connections of cs entered, one after the other.
TablesWith(table, cs) ==
  LET entered[k \in 0 .. BackLog] == IF k = 0 THEN table ELSE Enter(entered[k - 1], cs[k])
  IN  entered

\* BackLog connections are made.
Listen(s) ==
  /\ Runs(s) /\ sock[s].protocol = "TCP" /\ sock[s].ownPort # 0
  /\ sock[s].h = 0 /\ sock[s].listen = <<>>
  /\ Free /\ Cardinality(Unallocated) >= BackLog
  /\ LET cs == CHOOSE f \in [1 .. BackLog -> Unallocated] : IsInjective(f)
         entered == TablesWith(m_pConnection, cs)
     IN  /\ m_pConnection' = entered[BackLog]
         /\ conn' = [c \in Connections |->
                      IF c \in ToSet(cs) THEN Object("TCP", "Listen", sock[s].ownPort) ELSE conn[c]]
         /\ owner' = [c \in Connections |-> IF c \in ToSet(cs) THEN s ELSE owner[c]]
         /\ sock' = [sock EXCEPT ![s].listen =
                      [k \in 1 .. BackLog |-> SlotFor(entered[k - 1])]]
  /\ UNCHANGED <<m_nOwnPort, m_SpinLock, stuck>>

-----------------------------------------------------------------------------
(* Accept *)

\* A connection that is closed before it is accepted, and could be in TimeWait, has no socket.
Connected(h) ==
  /\ Valid(h)
  /\ conn[m_pConnection[h]].state \notin {"Closed", "Open", "Listen", "SynSent"}

\* The first handle that is connected, otherwise the lowest one.
Pick(s) ==
  LET hs == sock[s].listen
      connected == {k \in DOMAIN hs : Connected(hs[k])}
  IN  CHOOSE k \in DOMAIN hs :
        IF connected # {}
        THEN k \in connected /\ \A j \in connected : k <= j
        ELSE \A j \in DOMAIN hs : hs[k] < hs[j] \/ (hs[k] = hs[j] /\ k <= j)

\* The transport layer's Accept: it fails, blocks or succeeds at once.
AcceptFails(h) ==
  \/ ~Valid(h)
  \/ LET c == conn[m_pConnection[h]]
     IN  c.protocol = "UDP" \/ c.failed \/ c.state \notin {"Listen", "SynReceived", "Established", "FINQueued"}
AcceptBlocks(h) == ~AcceptFails(h) /\ conn[m_pConnection[h]].state = "Listen"

\* The new socket has the port of the listening one.
Accepted(s, h) ==
  [NoSocket EXCEPT !.call = "Ready", !.ownPort = sock[s].ownPort, !.h = h]

\* The end of Accept with handle number k: connection a goes to a new socket if it
\* succeeds, and a new listening connection takes the place of the handle.
AcceptEnds(s, k, a, success) ==
  LET c == New
  IN
    /\ Unallocated # {}
    /\ m_pConnection' = Enter(m_pConnection, c)
    /\ conn' = [o \in Connections |-> IF o = c THEN Object("TCP", "Listen", sock[s].ownPort)
                                      ELSE IF o = a THEN LeftBehind(o) ELSE conn[o]]
    /\ LET h == sock[s].listen[k]
           listening == [sock[s] EXCEPT !.call = "Ready", !.waitsIn = NoConnection, !.waitsAt = 0,
                                        !.listen[k] = SlotFor(m_pConnection)]
       IN  IF success
           THEN LET n == CHOOSE t \in Workers : sock[t].call = "None"
                IN
                  /\ \E t \in Workers : sock[t].call = "None"
                  /\ sock' = [sock EXCEPT ![s] = listening, ![n] = Accepted(s, h)]
                  /\ owner' = [o \in Connections |->
                               IF o = c THEN s
                               ELSE IF Valid(h) /\ o = m_pConnection[h] THEN n ELSE owner[o]]
           ELSE /\ sock' = [sock EXCEPT ![s] = listening]
                /\ owner' = [o \in Connections |->
                              IF o = c THEN s ELSE IF o = a THEN NoConnection ELSE owner[o]]
    /\ UNCHANGED <<m_nOwnPort, m_SpinLock, stuck>>

Accept(s) ==
  /\ Runs(s) /\ sock[s].listen # <<>>
  /\ LET k == Pick(s)
         h == sock[s].listen[k]
         a == IF Valid(h) THEN m_pConnection[h] ELSE NoConnection
     IN  IF AcceptBlocks(h)
         THEN /\ sock' = [sock EXCEPT ![s].call = "Accept", ![s].waitsIn = a, ![s].waitsAt = k]
              /\ conn' = [conn EXCEPT ![a].event = FALSE]
              /\ UNCHANGED <<m_pConnection, m_nOwnPort, owner, m_SpinLock, stuck>>
         ELSE Free /\ AcceptEnds(s, k, a, ~AcceptFails(h))

GoesOn(s) == stuck = "no" /\ sock[s].call = "Accept" /\ conn[sock[s].waitsIn].event

AcceptReturns(s) ==
  /\ GoesOn(s) /\ Free
  /\ AcceptEnds(s, sock[s].waitsAt, sock[s].waitsIn, ~conn[sock[s].waitsIn].failed)

\* A call that takes the lock while the task blocked in Connect holds it spins: no task runs
\* any more, since the core is not given up.
TakesLock(s) ==
  \/ /\ Runs(s)
     /\ \/ sock[s].protocol = "UDP"
        \/ s \in Clients /\ sock[s].h = 0
        \/ s \in Listeners /\ sock[s].ownPort # 0 /\ sock[s].listen = <<>>
        \/ sock[s].listen # <<>> /\ ~AcceptBlocks(sock[s].listen[Pick(s)])
  \/ GoesOn(s)

Spins(s) ==
  /\ ~Free /\ TakesLock(s)
  /\ stuck' = "spin"
  /\ UNCHANGED <<m_pConnection, m_nOwnPort, conn, sock, owner, m_SpinLock>>

\* The destructor closes the connection, or those of the backlog.
DeleteSocket(s) ==
  /\ Runs(s)
  /\ Disconnect(IF sock[s].h # 0 THEN {sock[s].h} ELSE ToSet(sock[s].listen))
  /\ sock' = [sock EXCEPT ![s] = NoSocket]
  /\ owner' = [c \in Connections |-> IF owner[c] = s THEN NoConnection ELSE owner[c]]
  /\ UNCHANGED <<m_pConnection, m_nOwnPort, m_SpinLock>>

-----------------------------------------------------------------------------
(* The net task *)

\* An event is only followed where a task waits for it.
Signalled(c) == \E s \in Sockets : sock[s].waitsIn = c

Becomes(c, state) == [conn EXCEPT ![c].state = state, ![c].event = Signalled(c),
                                  ![c].peer = NoConnection]
Fails(c) == [conn EXCEPT ![c].state = "Closed", ![c].failed = TRUE, ![c].event = Signalled(c)]

\* A SYN goes to the first connection in the table that takes it: one that listens, or that
\* of this peer.
Takes(c, p) ==
  /\ conn[c].protocol = "TCP" /\ conn[c].ownPort = ServerPort
  /\ conn[c].state = "Listen" \/ conn[c].peer = p
SYNTaker(p) ==
  LET takers == {i \in DOMAIN m_pConnection : Valid(i) /\ Takes(m_pConnection[i], p)}
  IN  IF takers = {} THEN NoConnection
      ELSE m_pConnection[CHOOSE i \in takers : \A j \in takers : i <= j]
SYNArrives(p) ==
  LET c == SYNTaker(p)
  IN  IF c # NoConnection /\ conn[c].state = "Listen"
      THEN [Becomes(c, "SynReceived") EXCEPT ![c].peer = p] ELSE conn

\* What other segments and Process lead to.
Moves == [SynSent |-> {"Established"}, SynReceived |-> {"Established", "CloseWait"},
          Established |-> {"CloseWait"}, FINQueued |-> {"Finishing"}, Finishing |-> {"Closed"}]
Outcomes(c) ==
  IF conn[c].state \in DOMAIN Moves THEN {Becomes(c, t) : t \in Moves[conn[c].state]} ELSE {}

\* A reset, a time-out or an ICMP message.  A reset or another SYN of the peer takes a
\* connection in SynReceived back to Listen.
Resettable == {"SynSent", "Established", "CloseWait", "FINQueued"}
Reportable == {"SynSent", "SynReceived", "Established"}
Faults(c) ==
  (IF conn[c].state \in Resettable THEN {Fails(c)} ELSE {})
  \cup (IF conn[c].state = "SynReceived"
        THEN {[conn EXCEPT ![c].state = "Listen", ![c].peer = NoConnection]} ELSE {})
  \cup (IF conn[c].state \in Reportable
        THEN {[conn EXCEPT ![c].failed = TRUE, ![c].event = Signalled(c)]} ELSE {})

\* The end of the pass: the connections that have terminated before it are deleted, the others
\* change as Process of theirs does, and the table is shrunk.
EndsPass(before, after) ==
  LET deleted == {c \in Connections : before[c].state = "Closed"}
      cleared == [i \in DOMAIN m_pConnection |->
                   IF m_pConnection[i] \in deleted THEN NoConnection ELSE m_pConnection[i]]
  IN  /\ conn' = [c \in Connections |->
                   IF c \notin deleted THEN after[c]
                   ELSE IF Signalled(c)
                        THEN [NoObject EXCEPT !.failed = before[c].failed, !.event = before[c].event]
                        ELSE NoObject]
      /\ owner' = [c \in Connections |-> IF c \in deleted THEN NoConnection ELSE owner[c]]
      /\ IF Free THEN m_pConnection' = Shrink(cleared) /\ stuck' = stuck
                 ELSE m_pConnection' = cleared /\ stuck' = "spin"
      /\ UNCHANGED <<m_nOwnPort, sock, m_SpinLock>>

\* CTransportLayer::Process, with at most one change by a segment or a notification, or by
\* Process of a connection, which makes a difference if this closes it (several are several
\* passes between which no task runs).
Process ==
  /\ stuck = "no"
  /\ \/ EndsPass(conn, conn)
     \/ \E p \in Peers : EndsPass(SYNArrives(p), SYNArrives(p))
     \/ \E c \in Live : \E after \in Outcomes(c) \cup Faults(c) :
          \/ EndsPass(after, after)
          \/ after[c].state = "Closed" /\ EndsPass(conn, after)

\* The retransmissions of a SYN are over.
TimesOut(c) == stuck = "no" /\ conn[c].state = "SynSent" /\ EndsPass(conn, Fails(c))

UserCall(s) ==
  \/ NewSocket(s) \/ BindTCP(s) \/ BindUDP(s) \/ ConnectUDP(s) \/ ConnectTCP(s)
  \/ ConnectReturns(s) \/ Listen(s) \/ Accept(s) \/ AcceptReturns(s) \/ DeleteSocket(s)
  \/ Spins(s)

TransportNext == Process \/ (\E c \in Connections : TimesOut(c)) \/ \E s \in Sockets : UserCall(s)

TransportSpec == TransportInit /\ [][TransportNext]_transportVars

\* The net task gets its turns and the timers elapse (Scheduler, KernelTimer).
TransportFairness ==
  /\ \A c \in Connections : WF_transportVars(TimesOut(c))
  /\ \A s \in Sockets : WF_transportVars(ConnectReturns(s))

TransportFairSpec == TransportSpec /\ TransportFairness

-----------------------------------------------------------------------------
(* Properties *)

\* The table holds each connection object once, and as long as a socket's connection lives,
\* the socket finds it under its handle, whatever has been opened, closed and deleted.
FindsItsOwn ==
  /\ \A c \in Live : Cardinality({i \in DOMAIN m_pConnection : m_pConnection[i] = c}) = 1
  /\ \A c \in Live : owner[c] # NoConnection => c \in Named(Handles(owner[c]))

\* Own ports that the transport layer chooses are used by one connection of a protocol.
AutoPortsDistinct ==
  \A c, d \in Live : (/\ c # d /\ conn[c].protocol = conn[d].protocol
                      /\ conn[c].ownPort = conn[d].ownPort)
                     => conn[c].ownPort \notin OwnPorts

\* Connect returns, if no assertion stops the system.
ConnectEnds == \A s \in Sockets : sock[s].call = "Connect"
                                  ~> (sock[s].call # "Connect" \/ stuck = "assert")
=============================================================================
