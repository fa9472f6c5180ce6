---------------------------- MODULE TcpConnection ----------------------------
(***************************************************************************)
(* Two CTCPConnection objects (lib/net/tcpconnection.cpp) over a network   *)
(* that loses, duplicates, delays and reorders segments: one made by       *)
(* Connect, one by Listen and Accept.  Each has a user task, which calls   *)
(* the operations of the socket, the net task, which runs                  *)
(* CTransportLayer::Process, and the timer interrupt.                      *)
(*                                                                         *)
(* A pass of the net task delivers segments and then calls Process; user   *)
(* tasks run between passes, because tasks are cooperative.  The timer     *)
(* interrupt comes at any time.  A byte is its position in what its sender *)
(* has written.  How long a timer runs is not modelled: one that runs may  *)
(* elapse.  Both ends offer TCP_CONFIG_WINDOW for ever, since m_nRCV_WND   *)
(* is never adjusted, so the send window is a constant.                    *)
(***************************************************************************)
EXTENDS Integers, SequencesExt

CONSTANTS
  Active, Passive,      \* the end that connects and the one that accepts
  ISNs,                 \* [end -> what CalculateISN returns]
  Programs,             \* the calls that the users make, as [end -> sequence of calls]
  Message,              \* [end -> the length of the messages it sends]
  Waits,                \* whether Send is called without MSG_DONTWAIT
  Frame,                \* FRAME_BUFFER_SIZE
  MSS,                  \* m_nSND_MSS
  Window,               \* TCP_CONFIG_WINDOW
  Capacity,             \* bytes the retransmission queue holds
  MAX_RETRANSMISSIONS,
  NumMod,               \* sequence numbers are modulo this
  MaxFaults,            \* segments lost or duplicated, timers that elapse early
  Notified              \* ends that an ICMP notification may reach

Ends    == {Active, Passive}
Peer(n) == CHOOSE p \in Ends : p # n
Half    == NumMod \div 2

ASSUME TcpAssumption ==
  /\ Active # Passive
  /\ NumMod \in Nat /\ NumMod = 2 * Half
  /\ ISNs \in [Ends -> SUBSET (0 .. NumMod - 1)]
  /\ Programs \subseteq [Ends -> Seq({"Accept", "Send", "Receive", "Close"})]
  /\ Message \in [Ends -> Nat \ {0}] /\ Waits \subseteq BOOLEAN
  /\ Window \in 1 .. Half - 1
  /\ MSS \in Nat \ {0} /\ Frame \in Nat \ {0} /\ Capacity \in Nat /\ Capacity >= Frame
  /\ MAX_RETRANSMISSIONS \in Nat /\ MaxFaults \in Nat

VARIABLES
  tcb,      \* [end -> the members of its CTCPConnection]
  net,      \* [end -> segments it has sent that may still arrive]
  faults,   \* how many more faults there will be
  deleted,  \* ends whose CTCPConnection CTransportLayer has deleted
  polling,  \* ends whose net task is in the middle of a pass
  pc,       \* [end -> the call its user task is blocked in]
  todo,     \* [end -> the calls its user has still to make]
  wrote,    \* [end -> how many bytes its user has sent]
  got       \* [end -> the bytes its user has received]

user == <<pc, todo, wrote, got>>
vars == <<tcb, net, faults, deleted, polling, user>>

States == {"Closed", "Listen", "SynSent", "SynReceived", "Established", "FinWait1",
           "FinWait2", "CloseWait", "Closing", "LastAck", "TimeWait"}
Flags  == {"SYN", "ACK", "FIN", "RST", "PSH"}
Timers == {"Retransmission", "TimeWait"}
Numbers == 0 .. NumMod - 1
Stream(n) == UNION {1 .. Message[n] * Len(p[n]) : p \in Programs}

Segments(n) == [flags : SUBSET Flags, seq : Numbers, ack : Numbers, data : Seq(Stream(n))]

\* The members of a CTCPConnection; out is what a handler has sent so far.
Connection(n) ==
  [State : States, StateAfterFIN : {"Closed", "FinWait1", "LastAck"},
   bActiveOpen : {n = Active}, nErrno : {0, -1},
   TxQueue : Seq(Seq(Stream(n))), RxQueue : Seq(Seq(Stream(Peer(n)))),
   rtq : [data : Seq(Stream(n)), pre : Nat, over : Nat],
   bRetransmit : BOOLEAN, bSendSYN : BOOLEAN, bFINQueued : BOOLEAN, bTimedOut : BOOLEAN,
   nRetransmissionCount : -1 .. MAX_RETRANSMISSIONS, hTimer : SUBSET Timers, Event : BOOLEAN,
   ISS : Numbers, SND_UNA : Numbers, SND_NXT : Numbers, RCV_NXT : Numbers,
   panic : BOOLEAN, out : SUBSET Segments(n)]

TypeOK ==
  /\ tcb \in [Ends -> Connection(Active) \cup Connection(Passive)]
  /\ \A n \in Ends :
       /\ tcb[n] \in Connection(n) /\ tcb[n].out = {}
       /\ tcb[n].rtq.pre <= Len(tcb[n].rtq.data) /\ Len(tcb[n].rtq.data) <= Capacity
       /\ net[n] \in SUBSET Segments(n)
       /\ todo[n] \in Seq({"Accept", "Send", "Receive", "Close"})
       /\ wrote[n] \in Stream(n) \cup {0} /\ got[n] \in Seq(Stream(Peer(n)))
  /\ net \in [Ends -> SUBSET (Segments(Active) \cup Segments(Passive))]
  /\ pc \in [Ends -> {"idle", "Connect", "Accept", "Send", "Receive"}]
  /\ DOMAIN todo = Ends /\ DOMAIN wrote = Ends /\ DOMAIN got = Ends
  /\ faults \in 0 .. MaxFaults /\ deleted \subseteq Ends /\ polling \subseteq Ends

-----------------------------------------------------------------------------
(* Sequence numbers, pieces of a stream and the retransmission queue.       *)

lt(x, y)     == (x - y) % NumMod >= Half
le(x, y)     == x = y \/ lt(x, y)
bwl(l, x, h) == le(l, x) /\ lt(x, h)
bwh(l, x, h) == lt(l, x) /\ le(x, h)
Plus(x, k)   == (x + k) % NumMod
Diff(x, y)   == (x - y) % NumMod

Least(x, y) == IF x <= y THEN x ELSE y

\* A sequence of bytes cut into pieces of k bytes; the last may be shorter.
Pieces(s, k) ==
  [i \in 1 .. (Len(s) + k - 1) \div k |-> SubSeq(s, (i - 1) * k + 1, Least(i * k, Len(s)))]

\* m_RetransmissionQueue as ByteQueue has it.  What is advanced beyond the bytes
\* it holds makes the ring look filled; over counts it.
EmptyQueue == [data |-> <<>>, pre |-> 0, over |-> 0]
IsEmpty(q) == q.data = <<>> /\ q.over = 0

\* Mutant: the place of the next byte to send is not moved.
Advance_KeepsPlace(q, k) ==
  LET k0 == Least(k, Len(q.data)) IN
  [q EXCEPT !.data = SubSeq(@, k0 + 1, Len(@)), !.over = @ + k - k0]

Advance(q, k) ==
  LET k0 == Least(k, Len(q.data)) IN
  [data |-> SubSeq(q.data, k0 + 1, Len(q.data)),
   pre  |-> IF q.pre >= k0 THEN q.pre - k0 ELSE 0,
   over |-> q.over + k - k0]

-----------------------------------------------------------------------------
(* What the handlers do to the members c of a connection.                   *)

Segment(flags, seq, ack, data) ==
  [flags |-> flags, seq |-> seq, ack |-> IF "ACK" \in flags THEN ack ELSE 0, data |-> data]

\* SendSegment: the segment goes out when the handler is done.
SendSegment(c, flags, seq, ack, data) ==
  [c EXCEPT !.out = @ \cup {Segment(flags, seq, ack, data)}]

SendAck(c) == SendSegment(c, {"ACK"}, c.SND_NXT, c.RCV_NXT, <<>>)

StartTimer(c, t) == [c EXCEPT !.hTimer = @ \cup {t}]
StopTimer(c, t)  == [c EXCEPT !.hTimer = @ \ {t}]
Panic(c)         == [c EXCEPT !.panic = TRUE]           \* UNEXPECTED_STATE, assert

\* Mutant: the user is not woken.
Fail_Silent(c) == [c EXCEPT !.State = "Closed", !.nErrno = -1]

\* NEW_STATE (TCPStateClosed) with the user woken; its timers keep running.
Fail(c) == [c EXCEPT !.State = "Closed", !.nErrno = -1, !.Event = TRUE]
Flush(c) == [c EXCEPT !.rtq = EmptyQueue, !.TxQueue = <<>>, !.RxQueue = <<>>]

SegLen(s) == Len(s.data) + (IF "SYN" \in s.flags THEN 1 ELSE 0)
                         + (IF "FIN" \in s.flags THEN 1 ELSE 0)

NewConnection(n) ==
  [State |-> "Listen", StateAfterFIN |-> "Closed", bActiveOpen |-> n = Active,
   nErrno |-> 0, TxQueue |-> <<>>, RxQueue |-> <<>>, rtq |-> EmptyQueue,
   bRetransmit |-> FALSE, bSendSYN |-> FALSE, bFINQueued |-> FALSE, bTimedOut |-> FALSE,
   nRetransmissionCount |-> 0, hTimer |-> {}, Event |-> FALSE,
   ISS |-> 0, SND_UNA |-> 0, SND_NXT |-> 0, RCV_NXT |-> 0, panic |-> FALSE, out |-> {}]

\* The constructor of the active end sends a SYN.
ActiveOpen(c, isn) ==
  LET d == [c EXCEPT !.ISS = isn, !.SND_UNA = isn, !.SND_NXT = Plus(isn, 1),
                     !.State = "SynSent", !.nRetransmissionCount = MAX_RETRANSMISSIONS]
  IN StartTimer(SendSegment(d, {"SYN"}, isn, 0, <<>>), "Retransmission")

-----------------------------------------------------------------------------
(* Process: what the net task does for a connection at the end of a pass.   *)

SendSYN(c) ==
  LET d == [c EXCEPT !.bSendSYN = FALSE] IN
  StartTimer(SendSegment(d, IF c.State = "SynSent" THEN {"SYN"} ELSE {"SYN", "ACK"},
                         c.ISS, c.RCV_NXT, <<>>), "Retransmission")

\* Mutant: the FIN does not wait for the data.
FINMayGo_Early(c) == c.bFINQueued

FINMayGo(c) == c.bFINQueued /\ IsEmpty(c.rtq) /\ c.TxQueue = <<>>

SendFIN(c) ==
  IF ~FINMayGo(c) THEN c
  ELSE LET d == SendSegment(c, {"FIN", "ACK"}, c.SND_NXT, c.RCV_NXT, <<>>)
           e == [d EXCEPT !.SND_NXT = Plus(@, 1), !.State = c.StateAfterFIN,
                          !.bFINQueued = FALSE]
       IN StartTimer(e, "Retransmission")

\* Frames move to the retransmission queue while the longest one fits.
FillQueue(c) ==
  LET data(k) == c.rtq.data \o FlattenSeq(SubSeq(c.TxQueue, 1, k))
      Fits(k) == Len(data(k)) + c.rtq.over + Frame <= Capacity
      moved   == CHOOSE k \in 0 .. Len(c.TxQueue) :
                   (\A j \in 0 .. k - 1 : Fits(j)) /\ (k < Len(c.TxQueue) => ~Fits(k))
  IN [c EXCEPT !.rtq.data = data(moved), !.TxQueue = SubSeq(@, moved + 1, Len(@))]

\* Mutant: the queue is not reset when the sequence number goes back.
GoBack_KeepsQueue(c) ==
  IF ~c.bRetransmit THEN c
  ELSE [c EXCEPT !.bRetransmit = FALSE, !.SND_NXT = c.SND_UNA]

\* Mutant: the request to retransmit is not taken back.
GoBack_KeepsRequest(c) ==
  IF ~c.bRetransmit THEN c ELSE [c EXCEPT !.rtq.pre = 0, !.SND_NXT = c.SND_UNA]

GoBack(c) ==
  IF ~c.bRetransmit THEN c
  ELSE [c EXCEPT !.bRetransmit = FALSE, !.rtq.pre = 0, !.SND_NXT = c.SND_UNA]

\* Whole segments until the queue or the window is used up.  PUSH asks whether
\* the queue is empty, which it is not before the data have been acknowledged.
SendData(c) ==
  LET ready == SubSeq(c.rtq.data, c.rtq.pre + 1, Len(c.rtq.data))
      left  == Diff(Plus(c.SND_UNA, Window), c.SND_NXT)
      data  == SubSeq(ready, 1, Least(Len(ready), left))
      push  == IF IsEmpty(c.rtq) /\ c.TxQueue = <<>> THEN {"PSH"} ELSE {}
      Piece(i) == Segment({"ACK"} \cup push, Plus(c.SND_NXT, (i - 1) * MSS), c.RCV_NXT,
                          Pieces(data, MSS)[i])
  IN IF data = <<>> THEN c
     ELSE StartTimer([c EXCEPT !.out = @ \cup {Piece(i) : i \in DOMAIN Pieces(data, MSS)},
                               !.SND_NXT = Plus(@, Len(data)), !.rtq.pre = @ + Len(data)],
                     "Retransmission")

Process(c) ==
  CASE c.bTimedOut -> Fail(c)
    [] ~c.bTimedOut /\ c.State \in {"SynSent", "SynReceived"} /\ c.bSendSYN -> SendSYN(c)
    [] ~c.bTimedOut /\ c.State \in {"Established", "FinWait1", "CloseWait", "Closing",
                                    "LastAck"} ->
         SendData(GoBack(FillQueue(SendFIN(c))))
    [] OTHER -> c

-----------------------------------------------------------------------------
(* PacketReceived in the states from SynReceived on: the steps of RFC 793,  *)
(* section 3.9.                                                             *)

Synchronized == States \ {"Closed", "Listen", "SynSent"}

\* Step 1: some of the segment lies in the receive window.
Acceptable(c, s) ==
  \/ bwl(c.RCV_NXT, s.seq, Plus(c.RCV_NXT, Window))
  \/ SegLen(s) > 0
     /\ bwl(c.RCV_NXT, Plus(s.seq, SegLen(s) - 1), Plus(c.RCV_NXT, Window))

\* Step 2
Reset(c) ==
  CASE c.State = "SynReceived" /\ ~c.bActiveOpen ->
         [c EXCEPT !.rtq = EmptyQueue, !.State = "Listen"]
    [] c.State = "SynReceived" /\ c.bActiveOpen -> Fail([c EXCEPT !.rtq = EmptyQueue])
    [] c.State \in {"Established", "FinWait1", "FinWait2", "CloseWait"} -> Fail(Flush(c))
    [] c.State \in {"Closing", "LastAck", "TimeWait"} ->
         [c EXCEPT !.State = "Closed", !.Event = TRUE]

\* Step 4
SynAgain(c) ==
  IF c.State = "SynReceived" /\ ~c.bActiveOpen THEN [c EXCEPT !.State = "Listen"]
  ELSE Fail(Flush(SendSegment(c, {"RST"}, c.SND_NXT, 0, <<>>)))

\* Step 5: new data are acknowledged.
\* Mutant: a byte more is taken out of the queue.
BytesAcked_TooMany(c, s) == Diff(s.ack, c.SND_UNA) + 1

BytesAcked(c, s) ==
  LET k == Diff(s.ack, c.SND_UNA) IN
  CASE c.State \in {"FinWait1", "Closing"} -> k - 1
    [] c.State = "Established" /\ k = 1 -> 0
    [] OTHER -> k

NewAck(c, s) ==
  LET all == s.ack = c.SND_NXT
      fin == c.State \in {"FinWait1", "Closing"}
  IN [c EXCEPT !.SND_UNA = s.ack,
               !.hTimer = IF all THEN @ \ {"Retransmission"} ELSE @,
               !.nRetransmissionCount = IF all THEN MAX_RETRANSMISSIONS ELSE @,
               !.Event = @ \/ all,
               !.bFINQueued = @ /\ ~fin,
               !.rtq = Advance(@, BytesAcked(c, s))]

\* Our FIN is acknowledged: from now on only the other side is waited for.
FINAcked(c, state) ==
  [c EXCEPT !.bFINQueued = FALSE, !.State = state,
            !.hTimer = (@ \ {"Retransmission"}) \cup {"TimeWait"},
            !.Event = @ \/ (state = "FinWait2" /\ IsEmpty(c.rtq))]

AckField(c, s) ==
  LET all == s.ack = c.SND_NXT
      d == IF bwh(c.SND_UNA, s.ack, c.SND_NXT) THEN NewAck(c, s) ELSE c
  IN CASE c.State = "SynReceived" ->
            IF le(c.SND_UNA, s.ack) /\ le(s.ack, c.SND_NXT)
            THEN [c EXCEPT !.SND_UNA = s.ack, !.State = "Established",
                           !.nRetransmissionCount = MAX_RETRANSMISSIONS]
            ELSE SendSegment(c, {"RST"}, s.ack, 0, <<>>)
       [] c.State = "LastAck" ->
            IF all THEN [c EXCEPT !.bFINQueued = FALSE, !.State = "Closed", !.Event = TRUE]
            ELSE c
       [] c.State = "TimeWait" ->
            IF all THEN StartTimer(SendAck([c EXCEPT !.bFINQueued = FALSE]), "TimeWait")
            ELSE c
       [] c.State \in {"Established", "CloseWait", "FinWait1", "FinWait2", "Closing"} ->
            CASE lt(c.SND_NXT, s.ack) /\ ~le(s.ack, c.SND_UNA) -> SendAck(c)
              [] all /\ c.State = "FinWait1" -> FINAcked(d, "FinWait2")
              [] all /\ c.State = "Closing" -> FINAcked(d, "TimeWait")
              [] OTHER -> IF c.State = "FinWait2" THEN [d EXCEPT !.Event = @ \/ IsEmpty(d.rtq)]
                          ELSE d

\* The acknowledgment ends the handling of the segment.
EndsAtAck(c, s) ==
  \/ c.State = "LastAck" /\ s.ack = c.SND_NXT
  \/ c.State \in {"Established", "CloseWait", "FinWait1", "FinWait2", "Closing"}
     /\ lt(c.SND_NXT, s.ack) /\ ~le(s.ack, c.SND_UNA)

\* Mutant: text is taken whatever comes before it.
InOrder_Always(c, s) == TRUE

InOrder(c, s) == s.seq = c.RCV_NXT

Receiving == {"Established", "FinWait1", "FinWait2"}

\* Mutant: text that is not taken is acknowledged.
Text_AcksUntaken(c, s) ==
  CASE c.State \in Receiving /\ ~InOrder(c, s) ->
         SendSegment(c, {"ACK"}, c.SND_NXT, Plus(s.seq, Len(s.data)), <<>>)
    [] c.State \in Receiving /\ InOrder(c, s) /\ s.data # <<>> ->
         SendAck([c EXCEPT !.RxQueue = Append(@, s.data), !.RCV_NXT = Plus(@, Len(s.data)),
                           !.Event = @ \/ "PSH" \in s.flags])
    [] OTHER -> c

\* Step 7: only text that comes next is taken.
Text(c, s) ==
  CASE c.State \in Receiving /\ ~InOrder(c, s) -> SendAck(c)
    [] c.State \in Receiving /\ InOrder(c, s) /\ s.data # <<>> ->
         SendAck([c EXCEPT !.RxQueue = Append(@, s.data), !.RCV_NXT = Plus(@, Len(s.data)),
                           !.Event = @ \/ "PSH" \in s.flags])
    [] c.State = "SynReceived" -> Panic(c)
    [] OTHER -> c

\* Step 8: the peer has no more to send.
Fin(c, s) ==
  LET d == SendAck([c EXCEPT !.RCV_NXT = Plus(@, 1)])
      timewait == [d EXCEPT !.State = "TimeWait",
                            !.hTimer = (@ \ {"Retransmission"}) \cup {"TimeWait"}]
  IN CASE c.State = "Established" -> [d EXCEPT !.State = "CloseWait", !.Event = TRUE]
       [] c.State = "FinWait1" ->
            IF s.ack = c.SND_NXT THEN [timewait EXCEPT !.bFINQueued = FALSE]
            ELSE [d EXCEPT !.State = "Closing"]
       [] c.State = "FinWait2" -> timewait
       [] c.State = "TimeWait" -> StartTimer(d, "TimeWait")
       [] OTHER -> d

\* Steps 5 to 8.
Arrives(c, s) ==
  LET a == AckField(c, s)
      t == Text(a, s)
      takesFIN == "FIN" \in s.flags /\ ~t.panic
                  /\ (a.State \in Receiving => InOrder(a, s))
  IN IF EndsAtAck(c, s) \/ SegLen(s) = 0 THEN a
     ELSE IF takesFIN THEN Fin(t, s) ELSE t
-----------------------------------------------------------------------------
(* Steps.                                                                   *)

Runs(n)  == ~tcb[n].panic
Alive(n) == Runs(n) /\ n \notin deleted

Members(n, c) == tcb' = [tcb EXCEPT ![n] = [c EXCEPT !.out = {}]]

Init ==
  /\ \E isn \in ISNs[Active] :
       LET a == ActiveOpen(NewConnection(Active), isn) IN
       /\ tcb = [n \in Ends |-> IF n = Active THEN [a EXCEPT !.out = {}] ELSE NewConnection(n)]
       /\ net = [n \in Ends |-> IF n = Active THEN a.out ELSE {}]
  /\ faults = MaxFaults /\ deleted = {} /\ polling = {}
  /\ pc = [n \in Ends |-> IF n = Active THEN "Connect" ELSE "idle"]
  /\ todo \in Programs
  /\ wrote = [n \in Ends |-> 0]
  /\ got = [n \in Ends |-> <<>>]

Fault == faults > 0 /\ faults' = faults - 1

Lose(n) ==
  /\ Fault
  /\ \E s \in net[n] : net' = [net EXCEPT ![n] = @ \ {s}]
  /\ UNCHANGED <<tcb, deleted, polling, user>>

\* The timeouts are longer than a segment and its answer need; that one elapses
\* with something still on its way is a fault.
Elapses(n, t) ==
  /\ Alive(n)
  /\ t \in tcb[n].hTimer
  /\ IF \A p \in Ends : net[p] = {} THEN UNCHANGED faults ELSE Fault

\* Segment s of the peer reaches n, in a pass of its net task, and makes c of
\* its members; the segments n sends are on their way.  A duplicate may follow.
Receives(n, s, c) ==
  /\ Runs(n)
  /\ \/ net' = [net EXCEPT ![n] = @ \cup c.out, ![Peer(n)] = @ \ {s}] /\ UNCHANGED faults
     \/ net' = [net EXCEPT ![n] = @ \cup c.out] /\ Fault
  /\ Members(n, c)
  /\ polling' = polling \cup {n}
  /\ UNCHANGED <<deleted, user>>

\* Nobody takes the segment: Listen, Closed and CTCPRejector answer with RST.
Refuse(n, s) ==
  LET c == tcb[n] IN
  /\ \/ n \in deleted \/ c.State = "Closed"
     \/ c.State = "Listen" /\ s.flags # {"SYN"}
  /\ "RST" \notin s.flags
  /\ Receives(n, s, IF "ACK" \in s.flags
                    THEN SendSegment(c, {"RST"}, s.ack, 0, <<>>)
                    ELSE SendSegment(c, {"RST", "ACK"}, 0, Plus(s.seq, SegLen(s)), <<>>))

ListenSYN(n, s) ==
  LET c == tcb[n] IN
  /\ Alive(n) /\ c.State = "Listen"
  /\ s.flags = {"SYN"}
  /\ \E isn \in ISNs[n] :
       Receives(n, s, SendSegment([c EXCEPT !.RCV_NXT = Plus(s.seq, 1), !.ISS = isn,
                                        !.SND_UNA = isn, !.SND_NXT = Plus(isn, 1),
                                        !.State = "SynReceived", !.Event = TRUE],
                              {"SYN", "ACK"}, isn, Plus(s.seq, 1), <<>>))

\* SynSent: the answer to our SYN.  SYN segments of Circle carry no data.
SynSentSegment(n, s) ==
  LET c  == tcb[n]
      ok == "ACK" \in s.flags /\ bwh(c.ISS, s.ack, c.SND_NXT)
  IN
  /\ Alive(n) /\ c.State = "SynSent"
  /\ Receives(n, s,
       CASE "ACK" \in s.flags /\ ~ok /\ "RST" \notin s.flags ->
              SendSegment(c, {"RST"}, s.ack, 0, <<>>)
         [] ok /\ "RST" \in s.flags -> Fail([c EXCEPT !.bSendSYN = FALSE])
         [] ok /\ s.flags = {"SYN", "ACK"} ->
              SendAck([c EXCEPT !.RCV_NXT = Plus(s.seq, 1), !.SND_UNA = s.ack,
                                !.State = "Established", !.bSendSYN = FALSE,
                                !.hTimer = @ \ {"Retransmission"}, !.Event = TRUE,
                                !.nRetransmissionCount = MAX_RETRANSMISSIONS])
         [] s.flags = {"SYN"} ->
              StartTimer(SendSegment([c EXCEPT !.RCV_NXT = Plus(s.seq, 1),
                                               !.State = "SynReceived", !.bSendSYN = FALSE,
                                               !.nRetransmissionCount = MAX_RETRANSMISSIONS],
                                     {"SYN", "ACK"}, c.ISS, Plus(s.seq, 1), <<>>),
                         "Retransmission")
         [] OTHER -> c)

SynchronizedSegment(n, s) ==
  LET c == tcb[n] IN
  /\ Alive(n) /\ c.State \in Synchronized
  /\ Receives(n, s,
       CASE ~Acceptable(c, s) /\ c.State # "SynReceived" -> SendAck(c)
         [] (Acceptable(c, s) \/ c.State = "SynReceived") /\ "RST" \in s.flags -> Reset(c)
         [] (Acceptable(c, s) \/ c.State = "SynReceived") /\ "RST" \notin s.flags
            /\ "SYN" \in s.flags -> SynAgain(c)
         [] OTHER -> IF "ACK" \in s.flags THEN Arrives(c, s) ELSE c)

\* An ICMP message says that the peer cannot be reached.
NotificationReceived(n) ==
  /\ n \in Notified /\ Alive(n)
  /\ tcb[n].State \notin {"Closed", "Listen"}
  /\ tcb[n].nErrno = 0
  /\ tcb' = [tcb EXCEPT ![n].nErrno = -1, ![n].Event = TRUE]
  /\ polling' = polling \cup {n}
  /\ UNCHANGED <<net, faults, deleted, user>>

\* The end of a pass: a closed connection is deleted, any other one processed.
EndPass(n) ==
  /\ Runs(n)
  /\ \/ n \in deleted /\ UNCHANGED <<tcb, net, deleted>>
     \/ /\ n \notin deleted /\ tcb[n].State = "Closed"
        /\ deleted' = deleted \cup {n}
        /\ tcb' = [tcb EXCEPT ![n].hTimer = {}]
        /\ UNCHANGED net
     \/ /\ n \notin deleted /\ tcb[n].State # "Closed"
        /\ Members(n, Process(tcb[n]))
        /\ net' = [net EXCEPT ![n] = @ \cup Process(tcb[n]).out]
        /\ UNCHANGED deleted
  /\ polling' = polling \ {n}
  /\ UNCHANGED <<faults, user>>

\* The timer interrupt.
RetransmissionTimer(n) ==
  LET c == [tcb[n] EXCEPT !.hTimer = @ \ {"Retransmission"}, !.nRetransmissionCount = @ - 1]
  IN
  /\ Elapses(n, "Retransmission")
  /\ tcb' = [tcb EXCEPT ![n] =
       CASE tcb[n].nRetransmissionCount = 0 -> [c EXCEPT !.bTimedOut = TRUE]
         [] tcb[n].nRetransmissionCount # 0
            /\ c.State \in {"Closed", "Listen", "FinWait2", "TimeWait"} -> Panic(c)
         [] tcb[n].nRetransmissionCount # 0 /\ c.State \in {"SynSent", "SynReceived"} ->
              IF c.bSendSYN THEN Panic(c) ELSE [c EXCEPT !.bSendSYN = TRUE]
         [] tcb[n].nRetransmissionCount # 0 /\ c.State \in {"Established", "CloseWait"} ->
              IF c.bRetransmit THEN Panic(c) ELSE [c EXCEPT !.bRetransmit = TRUE]
         [] OTHER -> IF c.bFINQueued THEN Panic(c) ELSE [c EXCEPT !.bFINQueued = TRUE]]
  /\ UNCHANGED <<net, deleted, polling, user>>

TimeWaitTimer(n) ==
  /\ Elapses(n, "TimeWait")
  /\ tcb' = [tcb EXCEPT ![n].hTimer = @ \ {"TimeWait"}, ![n].State = "Closed"]
  /\ UNCHANGED <<net, deleted, polling, user>>

-----------------------------------------------------------------------------
(* The user of the socket makes the calls of todo one after the other.      *)

UserRuns(n) == Runs(n) /\ n \notin polling

\* The user begins its next call, which is op.
Calls(n, op) ==
  /\ UserRuns(n) /\ pc[n] = "idle"
  /\ todo[n] # <<>> /\ Head(todo[n]) = op
  /\ todo' = [todo EXCEPT ![n] = Tail(@)]
  /\ UNCHANGED <<net, faults, deleted, polling>>

\* Nothing is done on a deleted connection, after an error, or in these states.
Fails(n, states) == n \in deleted \/ tcb[n].nErrno < 0 \/ tcb[n].State \in states

CallFails(n) ==
  /\ \/ Calls(n, "Accept") /\ Fails(n, States \ {"Listen", "SynReceived", "Established"})
     \/ Calls(n, "Send") /\ Fails(n, States \ {"SynSent", "SynReceived", "Established", "CloseWait"})
     \/ Calls(n, "Receive") /\ Fails(n, {})
     \/ Calls(n, "Close") /\ Fails(n, {"Closed", "FinWait1", "FinWait2", "Closing", "LastAck", "TimeWait"})
  /\ UNCHANGED <<tcb, pc, wrote, got>>

Accept(n) ==
  /\ Calls(n, "Accept")
  /\ ~Fails(n, States \ {"Listen", "SynReceived", "Established"})
  /\ IF tcb[n].State = "Listen"
     THEN /\ tcb' = [tcb EXCEPT ![n].Event = FALSE]
          /\ pc' = [pc EXCEPT ![n] = "Accept"]
     ELSE UNCHANGED <<tcb, pc>>
  /\ UNCHANGED <<wrote, got>>

\* The message is queued, in frames; without MSG_DONTWAIT the call waits, after
\* m_Event.Clear.
Send(n) ==
  /\ Calls(n, "Send")
  /\ ~Fails(n, States \ {"SynSent", "SynReceived", "Established", "CloseWait"})
  /\ \E wait \in Waits :
       LET message == [i \in 1 .. Message[n] |-> wrote[n] + i] IN
       /\ tcb' = [tcb EXCEPT ![n].TxQueue = @ \o Pieces(message, Frame),
                             ![n].Event = @ /\ ~wait]
       /\ pc' = [pc EXCEPT ![n] = IF wait THEN "Send" ELSE @]
  /\ wrote' = [wrote EXCEPT ![n] = @ + Message[n]]
  /\ UNCHANGED got

\* The loop of Receive, at the call and whenever the event wakes it.
TakeOrWait(n) ==
  LET c == tcb[n]
      mayCome == c.State \in {"SynSent", "SynReceived", "Established"}
  IN
  \/ /\ c.nErrno = 0 /\ c.RxQueue # <<>>
     /\ got' = [got EXCEPT ![n] = @ \o Head(c.RxQueue)]
     /\ tcb' = [tcb EXCEPT ![n].RxQueue = Tail(@)]
     /\ pc' = [pc EXCEPT ![n] = "idle"]
  \/ /\ c.nErrno = 0 /\ c.RxQueue = <<>> /\ mayCome
     /\ tcb' = [tcb EXCEPT ![n].Event = FALSE]
     /\ pc' = [pc EXCEPT ![n] = "Receive"]
     /\ UNCHANGED got
  \/ /\ c.nErrno < 0 \/ (c.RxQueue = <<>> /\ ~mayCome)
     /\ pc' = [pc EXCEPT ![n] = "idle"]
     /\ UNCHANGED <<tcb, got>>

Receive(n) ==
  /\ Calls(n, "Receive")
  /\ ~Fails(n, {})
  /\ TakeOrWait(n)
  /\ UNCHANGED wrote

\* The event wakes the blocked user.  When its connection has just been deleted
\* it finds the freed members as they were.
Wakes(n) ==
  /\ UserRuns(n) /\ tcb[n].Event
  /\ \/ /\ pc[n] \in {"Connect", "Accept", "Send"}
        /\ pc' = [pc EXCEPT ![n] = "idle"]
        /\ UNCHANGED <<tcb, got>>
     \/ pc[n] = "Receive" /\ TakeOrWait(n)
  /\ UNCHANGED <<net, faults, deleted, polling, todo, wrote>>

Close(n) ==
  LET c == tcb[n] IN
  /\ Calls(n, "Close")
  /\ ~Fails(n, {})
  /\ \/ /\ c.State \in {"Listen", "SynSent"}
        /\ tcb' = [tcb EXCEPT ![n] = [StopTimer(c, "Retransmission") EXCEPT !.State = "Closed"]]
     \/ /\ c.State \in {"SynReceived", "Established", "CloseWait"}
        /\ tcb' = [tcb EXCEPT
             ![n].StateAfterFIN = IF c.State = "CloseWait" THEN "LastAck" ELSE "FinWait1",
             ![n].nRetransmissionCount = MAX_RETRANSMISSIONS, ![n].bFINQueued = TRUE]
  /\ UNCHANGED <<pc, wrote, got>>

Deliver(n) ==
  \E s \in net[Peer(n)] :
    Refuse(n, s) \/ ListenSYN(n, s) \/ SynSentSegment(n, s) \/ SynchronizedSegment(n, s)

NetTask(n) == Deliver(n) \/ NotificationReceived(n) \/ EndPass(n)
Interrupt(n) == RetransmissionTimer(n) \/ TimeWaitTimer(n)
UserTask(n) == CallFails(n) \/ Accept(n) \/ Send(n) \/ Receive(n) \/ Close(n) \/ Wakes(n)

Next == \E n \in Ends : Lose(n) \/ NetTask(n) \/ Interrupt(n) \/ UserTask(n)

Spec == Init /\ [][Next]_vars

\* The net task loops for ever, running timers elapse, the network delivers what
\* it does not lose, and the scheduler runs a task that has been woken.
Fairness ==
  \A n \in Ends : WF_vars(Deliver(n)) /\ WF_vars(EndPass(n)) /\ WF_vars(Interrupt(n))
                /\ WF_vars(Wakes(n))

FairSpec == Spec /\ Fairness

-----------------------------------------------------------------------------
(* What the theorems of TcpProofs on the streams assume of the constants.   *)

\* Messages, frames, segments and the window have an even length: no
\* acknowledgment is of a single byte.
EvenSizes ==
  /\ \A n \in Ends : Message[n] % 2 = 0
  /\ Frame % 2 = 0 /\ MSS % 2 = 0 /\ Window % 2 = 0

\* What is written to a connection, its SYN and each FIN take less than half of
\* the numbers.
ShortStreams ==
  \A n \in Ends : \A p \in Programs :
    2 + Message[n] * Len(p[n]) + MAX_RETRANSMISSIONS < Half

\* The passive end, when it is reset and opened again, takes the same number.
OneISN == \E i \in Numbers : ISNs[Passive] = {i}

Sizes == EvenSizes /\ ShortStreams /\ OneISN

-----------------------------------------------------------------------------
(* Properties.                                                              *)

\* What n has received, whether its user has taken it yet or not.
Received(n) == got[n] \o FlattenSeq(tcb[n].RxQueue)

\* Bytes of its stream that come before sequence number x of n.
Before(n, x) == Diff(x, Plus(tcb[n].ISS, 1))

\* The user of one end reads what the user of the other has written: in order,
\* with nothing missing, repeated or changed, whatever the network does.
StreamPrefix ==
  \A n \in Ends :
    /\ Len(Received(n)) <= wrote[Peer(n)]
    /\ Received(n) = [i \in 1 .. Len(Received(n)) |-> i]

\* A segment carries the bytes that belong to its sequence number, the first
\* time and when it is sent again.
SegmentsTrue ==
  \A n \in Ends : \A s \in net[n] :
    s.data = [i \in 1 .. Len(s.data) |-> Before(n, s.seq) + i]

\* The retransmission queue and the sequence numbers agree: it holds the bytes
\* from m_nSND_UNA on, and has been read up to m_nSND_NXT.
QueueAligned ==
  \A n \in Ends :
    LET c == tcb[n] IN
    c.State \in {"Established", "CloseWait"} =>
      /\ c.rtq.data = [i \in 1 .. Len(c.rtq.data) |-> Before(n, c.SND_UNA) + i]
      /\ c.rtq.pre = Diff(c.SND_NXT, c.SND_UNA)
      /\ c.rtq.over = 0

\* Nothing is taken as acknowledged that the other end has not received.
AckedArrived ==
  \A n \in Ends :
    LET c == tcb[n]
        p == tcb[Peer(n)]
    IN c.State \in Synchronized \ {"SynReceived"} /\ p.State \in Synchronized =>
         Diff(c.SND_UNA, c.ISS) <= Diff(p.RCV_NXT, c.ISS)

\* The FIN comes last: an end that knows of it has received all that was written.
FINLast ==
  \A n \in Ends :
    tcb[n].State \in {"CloseWait", "LastAck", "Closing", "TimeWait"} =>
      Len(Received(n)) = wrote[Peer(n)]

\* No assertion of a handler fails, and UNEXPECTED_STATE is reached in no other
\* way than by the retransmission timer of a connection that is closed and has
\* not been deleted yet.
UnexpectedOnlyClosed ==
  \A n \in Ends : tcb[n].panic => tcb[n].State = "Closed"

\* Connect and a waiting Send of the active end return, whatever is lost: with
\* the answer, or when the retransmissions are used up.
CallsReturn ==
  pc[Active] \in {"Connect", "Send"} ~> (pc[Active] = "idle" \/ tcb[Active].panic)
=============================================================================
