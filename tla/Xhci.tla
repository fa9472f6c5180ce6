---------------------------------- MODULE Xhci ----------------------------------
(***************************************************************************)
(* The rings through which the xHCI driver and the controller talk         *)
(* (lib/usb/xhciring.cpp): commands (xhcicommandmanager.cpp), the          *)
(* transfers of one endpoint (xhciendpoint.cpp) and, the other way, events *)
(* (xhcieventmanager.cpp).  Who writes a ring marks each TRB with its      *)
(* cycle bit, which changes from one round to the next, and who reads it   *)
(* stops at the first TRB with the other one.  The driver waits for the    *)
(* answers in a loop that gives up after some time, though the controller  *)
(* may still answer.                                                       *)
(***************************************************************************)
EXTENDS Integers, Sequences

CONSTANTS
  CmdCount, TransferCount, EventCount, \* TRBs of the rings; the last of the first two is the link
  MaxRequests                          \* bound: commands and transfers that are ever asked for

ASSUME XhciAssumption ==
  /\ CmdCount \in Nat /\ CmdCount > 3 /\ TransferCount \in Nat /\ TransferCount > 6
  /\ EventCount \in Nat /\ EventCount > 1
  /\ MaxRequests \in Nat

NoTRB == -1
NoURB == 0

VARIABLES
  m_CmdRing, m_pTransferRing, m_EventRing,
  cmdAt, transferAt, eventAt, \* where the controller reads or writes: an index and its cycle bit
  ERDP,                       \* register: the index up to which the driver has read the events
  executing,                  \* the command that the controller has fetched, if any
  endpoint,                   \* of the controller: "running", or "halted" by an error
  issued, fetched, answered,  \* history: how many commands
  posted, handled,            \* history: how many events
  doing,                      \* in DoCommand: "idle", "written" (the TRB) or "waits"
  m_bCommandCompleted, m_pCurrentCommandTRB,
  answer,                     \* m_uchCompletionCode and m_uchSlotID: of which command
  use,                        \* of the endpoint: by "Transfer" or by "TransferAsync"
  submitted, inRing, taken,   \* history: URBs, and the TRBs for them: written and read
  m_pURB,
  m_bTransferCompleted, transferring, \* and whether Transfer waits
  good,                       \* the URBs with status 1
  done,                       \* history: the URBs that the controller has carried out
  timedOut,                   \* history: Transfer has given up
  xhciStuck                   \* an assertion has failed

cmdVars == <<m_CmdRing, cmdAt, executing, issued, fetched, answered, doing, m_bCommandCompleted,
             m_pCurrentCommandTRB, answer>>
eventVars == <<m_EventRing, eventAt, ERDP, posted, handled>>
transferVars == <<m_pTransferRing, transferAt, endpoint, submitted, inRing, taken, m_pURB,
                  m_bTransferCompleted, transferring, good, done, timedOut, xhciStuck>>
xhciVars == <<cmdVars, eventVars, transferVars, use>>

\* A TRB to the controller has its number, its URB, and whether an event is to follow (IOC).
NoTRBYet == [cycle |-> 0, n |-> 0, urb |-> NoURB, ioc |-> FALSE]
NoEventTRB == [cycle |-> 0, n |-> 0, kind |-> "none", at |-> NoTRB, of |-> 0, ok |-> FALSE]
NewRing(count, trb) == [trb |-> [i \in 0 .. count - 1 |-> trb], index |-> 0, cycle |-> 1]

XhciTypeOK ==
  /\ m_CmdRing.index \in 0 .. CmdCount - 2 /\ m_pTransferRing.index \in 0 .. TransferCount - 2
  /\ m_EventRing.index \in 0 .. EventCount - 1 /\ ERDP \in 0 .. EventCount - 1
  /\ cmdAt.at \in 0 .. CmdCount - 1 /\ transferAt.at \in 0 .. TransferCount - 1
  /\ eventAt.at \in 0 .. EventCount - 1
  /\ \A r \in {m_CmdRing, m_pTransferRing, m_EventRing, cmdAt, transferAt, eventAt} :
       r.cycle \in {0, 1}
  /\ Len(executing) <= 1 /\ endpoint \in {"running", "halted"}
  /\ doing \in {"idle", "written", "waits"}
  /\ m_pCurrentCommandTRB \in 0 .. CmdCount - 2 \cup {NoTRB}
  /\ m_pURB \in 0 .. MaxRequests /\ good \cup done \subseteq 1 .. MaxRequests
  /\ {m_bCommandCompleted, m_bTransferCompleted, transferring, timedOut, xhciStuck}
       \subseteq BOOLEAN

XhciInit ==
  /\ m_CmdRing = NewRing(CmdCount, NoTRBYet) /\ m_pTransferRing = NewRing(TransferCount, NoTRBYet)
  /\ m_EventRing = NewRing(EventCount, NoEventTRB)
  /\ cmdAt = [at |-> 0, cycle |-> 1] /\ transferAt = cmdAt /\ eventAt = cmdAt /\ ERDP = 0
  /\ executing = <<>> /\ endpoint = "running"
  /\ issued = 0 /\ fetched = 0 /\ answered = 0 /\ posted = 0 /\ handled = 0
  /\ doing = "idle" /\ m_bCommandCompleted = TRUE /\ m_pCurrentCommandTRB = NoTRB /\ answer = 0
  /\ use \in {"Transfer", "TransferAsync"}
  /\ submitted = 0 /\ inRing = 0 /\ taken = 0 /\ m_pURB = NoURB
  /\ m_bTransferCompleted = TRUE /\ transferring = FALSE /\ good = {} /\ done = {}
  /\ timedOut = FALSE /\ xhciStuck = FALSE

-----------------------------------------------------------------------------
(* CXHCIRing *)

\* GetEnqueueTRB finds a TRB
HasPlace(ring) == ring.trb[ring.index].cycle # ring.cycle

Put(ring, trb) ==
  [ring EXCEPT !.trb[ring.index] = [trb EXCEPT !.cycle = ring.cycle]]

\* The link is passed on to the controller behind the last TRB.
IncrementEnqueue(ring, link) ==
  IF ring.index + 1 = link
    THEN [ring EXCEPT !.index = 0, !.cycle = 1 - ring.cycle,
                      !.trb[link].cycle = 1 - ring.trb[link].cycle]
    ELSE [ring EXCEPT !.index = ring.index + 1]

\* GetDequeueTRB finds a TRB
HasEvent == m_EventRing.trb[m_EventRing.index].cycle = m_EventRing.cycle
FirstEvent == m_EventRing.trb[m_EventRing.index]

IncrementDequeue(ring) ==
  IF ring.index + 1 = EventCount
    THEN [ring EXCEPT !.index = 0, !.cycle = 1 - ring.cycle]
    ELSE [ring EXCEPT !.index = ring.index + 1]

-----------------------------------------------------------------------------
(* The controller *)

\* Where it goes on reading: behind the link, if that is its own.
Through(ring, link, pos) ==
  IF pos.at = link /\ ring.trb[link].cycle = pos.cycle
    THEN [at |-> 0, cycle |-> 1 - pos.cycle] ELSE pos
Sees(ring, link, pos) ==
  LET p == Through(ring, link, pos) IN p.at # link /\ ring.trb[p.at].cycle = p.cycle

\* An event is written, unless the ring is full.
Post(event) ==
  LET next == (eventAt.at + 1) % EventCount IN
  /\ next # ERDP
  /\ m_EventRing' = [m_EventRing EXCEPT !.trb[eventAt.at] =
                       [event EXCEPT !.cycle = eventAt.cycle, !.n = posted + 1]]
  /\ eventAt' = [at |-> next, cycle |-> IF next = 0 THEN 1 - eventAt.cycle ELSE eventAt.cycle]
  /\ posted' = posted + 1
  /\ UNCHANGED <<ERDP, handled>>

\* It need not wait for the doorbell if it is still busy with the command before.
FetchCommand ==
  LET p == Through(m_CmdRing, CmdCount - 1, cmdAt) IN
  /\ executing = <<>> /\ Sees(m_CmdRing, CmdCount - 1, cmdAt)
  /\ executing' = <<[at |-> p.at, n |-> m_CmdRing.trb[p.at].n]>>
  /\ cmdAt' = [p EXCEPT !.at = p.at + 1]
  /\ fetched' = fetched + 1
  /\ UNCHANGED <<m_CmdRing, issued, answered, doing, m_bCommandCompleted, m_pCurrentCommandTRB,
                 answer, eventVars, transferVars, use>>

ExecuteCommand ==
  /\ executing # <<>> /\ executing' = <<>>
  /\ Post([NoEventTRB EXCEPT !.kind = "command", !.at = executing[1].at, !.of = executing[1].n])
  /\ UNCHANGED <<m_CmdRing, cmdAt, issued, fetched, answered, doing, m_bCommandCompleted,
                 m_pCurrentCommandTRB, answer, transferVars, use>>

\* One TRB of a transfer, which succeeds, or fails and halts the endpoint.
CarryOut ==
  LET p == Through(m_pTransferRing, TransferCount - 1, transferAt)
      trb == m_pTransferRing.trb[p.at] IN
  /\ endpoint = "running" /\ Sees(m_pTransferRing, TransferCount - 1, transferAt)
  /\ transferAt' = [p EXCEPT !.at = p.at + 1]
  /\ taken' = taken + 1
  /\ \/ ~trb.ioc /\ UNCHANGED <<done, endpoint, eventVars>>
     \/ /\ trb.ioc /\ done' = done \cup {trb.urb} /\ UNCHANGED endpoint
        /\ Post([NoEventTRB EXCEPT !.kind = "transfer", !.of = trb.urb, !.ok = TRUE])
     \/ /\ endpoint' = "halted" /\ UNCHANGED done
        /\ Post([NoEventTRB EXCEPT !.kind = "transfer", !.of = trb.urb])
  /\ UNCHANGED <<cmdVars, m_pTransferRing, submitted, inRing, m_pURB, m_bTransferCompleted,
                 transferring, good, timedOut, xhciStuck, use>>

-----------------------------------------------------------------------------
(* CXHCICommandManager.  Interrupts come between the steps.                *)

\* DoCommand, up to the TRB's Control with the cycle bit.
\* Bound: so few commands are without an answer that the ring does not get full.
DoCommand ==
  /\ doing = "idle" /\ ~transferring
  /\ issued + submitted < MaxRequests /\ issued - answered < CmdCount - 2
  /\ HasPlace(m_CmdRing)
  /\ issued' = issued + 1
  /\ m_CmdRing' = Put(m_CmdRing, [NoTRBYet EXCEPT !.n = issued', !.ioc = TRUE])
  /\ doing' = "written"
  /\ UNCHANGED <<cmdAt, executing, fetched, answered, m_bCommandCompleted, m_pCurrentCommandTRB,
                 answer, eventVars, transferVars, use>>

\* Up to the loop.
CommandStarts ==
  /\ doing = "written" /\ doing' = "waits"
  /\ m_pCurrentCommandTRB' = m_CmdRing.index /\ m_bCommandCompleted' = FALSE
  /\ m_CmdRing' = IncrementEnqueue(m_CmdRing, CmdCount - 1)
  /\ UNCHANGED <<cmdAt, executing, issued, fetched, answered, answer, eventVars, transferVars, use>>

CommandReturns ==
  /\ doing = "waits" /\ m_bCommandCompleted /\ doing' = "idle"
  /\ UNCHANGED <<m_CmdRing, cmdAt, executing, issued, fetched, answered, m_bCommandCompleted,
                 m_pCurrentCommandTRB, answer, eventVars, transferVars, use>>

CommandTimesOut ==
  /\ doing = "waits" /\ ~m_bCommandCompleted /\ doing' = "idle"
  /\ m_bCommandCompleted' = TRUE /\ m_pCurrentCommandTRB' = NoTRB
  /\ UNCHANGED <<m_CmdRing, cmdAt, executing, issued, fetched, answered, answer, eventVars,
                 transferVars, use>>

\* Mutant: any completion is taken for that of the command that waits.
CommandCompleted_Any(event) ==
  /\ answered' = event.of
  /\ IF m_bCommandCompleted
       THEN UNCHANGED <<m_pCurrentCommandTRB, answer, m_bCommandCompleted>>
       ELSE m_pCurrentCommandTRB' = NoTRB /\ answer' = event.of /\ m_bCommandCompleted' = TRUE

CommandCompleted(event) ==
  /\ answered' = event.of
  /\ IF m_bCommandCompleted \/ m_pCurrentCommandTRB # event.at
       THEN UNCHANGED <<m_pCurrentCommandTRB, answer, m_bCommandCompleted>>
       ELSE m_pCurrentCommandTRB' = NoTRB /\ answer' = event.of /\ m_bCommandCompleted' = TRUE

-----------------------------------------------------------------------------
(* CXHCIEndpoint *)

\* TransferAsync: n TRBs, of which the last asks for an event, and m_pURB, which must be free
\* (else stop).  That no TRB finds a place does not happen: RingsTrue.
RequestTRB(k, n) == [NoTRBYet EXCEPT !.n = inRing + k, !.urb = submitted + 1, !.ioc = k = n]
EnqueueTRB(ring, trb) ==
  IF HasPlace(ring) THEN IncrementEnqueue(Put(ring, trb), TransferCount - 1) ELSE ring
TransferAsync(n, free, stop) ==
  LET after[k \in 0 .. n] ==
        IF k = 0 THEN m_pTransferRing ELSE EnqueueTRB(after[k - 1], RequestTRB(k, n)) IN
  /\ issued + submitted < MaxRequests
  /\ m_pTransferRing' = after[n]
  /\ inRing' = inRing + n
  /\ IF free THEN submitted' = submitted + 1 /\ m_pURB' = submitted' /\ xhciStuck' = stop
             ELSE xhciStuck' = TRUE /\ UNCHANGED <<submitted, m_pURB>>

\* Transfer, up to the loop: of one TRB (bulk), or of two or three (control).
Transfer(n) ==
  /\ use = "Transfer" /\ ~transferring /\ doing = "idle"
  /\ m_bTransferCompleted' = FALSE /\ transferring' = TRUE
  /\ TransferAsync(n, m_pURB = NoURB, FALSE)
  /\ UNCHANGED <<cmdVars, eventVars, use, transferAt, endpoint, taken, good, done, timedOut>>

TransferReturns ==
  /\ transferring /\ m_bTransferCompleted /\ transferring' = FALSE
  /\ UNCHANGED <<cmdVars, eventVars, use, m_pTransferRing, transferAt, endpoint, submitted, inRing,
                 taken, m_pURB, m_bTransferCompleted, good, done, timedOut, xhciStuck>>

TransferTimesOut ==
  /\ transferring /\ ~m_bTransferCompleted
  /\ m_bTransferCompleted' = TRUE /\ transferring' = FALSE /\ timedOut' = TRUE
  /\ UNCHANGED <<cmdVars, eventVars, use, m_pTransferRing, transferAt, endpoint, submitted, inRing,
                 taken, m_pURB, good, done, xhciStuck>>

\* The first request of a device that is asked again and again.
StartRequest ==
  /\ use = "TransferAsync" /\ submitted = 0
  /\ TransferAsync(1, m_pURB = NoURB, FALSE)
  /\ UNCHANGED <<cmdVars, eventVars, use, transferAt, endpoint, taken, m_bTransferCompleted,
                 transferring, good, done, timedOut>>

\* TransferEvent with the completion routine: that of Transfer, or one which asks again.
TransferEvent(event) ==
  /\ good' = IF event.ok THEN good \cup {m_pURB} ELSE good
  /\ \/ /\ use = "Transfer"
        /\ m_pURB' = NoURB
        /\ m_bTransferCompleted' = TRUE
        /\ xhciStuck' = (m_pURB = NoURB \/ m_bTransferCompleted)
        /\ UNCHANGED <<m_pTransferRing, submitted, inRing>>
     \/ /\ use = "TransferAsync"
        /\ TransferAsync(1, TRUE, m_pURB = NoURB)
        /\ UNCHANGED m_bTransferCompleted

-----------------------------------------------------------------------------
(* CXHCIEventManager.  An interrupt handles one event after the other,     *)
(* while the controller goes on.                                           *)

HandleEvents ==
  /\ HasEvent
  /\ m_EventRing' = IncrementDequeue(m_EventRing) /\ ERDP' = m_EventRing'.index
  /\ handled' = handled + 1
  /\ \/ FirstEvent.kind = "command" /\ CommandCompleted(FirstEvent)
        /\ UNCHANGED <<transferVars>>
     \/ FirstEvent.kind = "transfer" /\ TransferEvent(FirstEvent)
        /\ UNCHANGED <<answered, m_pCurrentCommandTRB, answer, m_bCommandCompleted, transferAt,
                       endpoint, taken, transferring, done, timedOut>>
  /\ UNCHANGED <<m_CmdRing, cmdAt, executing, issued, fetched, doing, eventAt, posted, use>>

XhciNext ==
  /\ ~xhciStuck
  /\ \/ FetchCommand \/ ExecuteCommand \/ CarryOut
     \/ DoCommand \/ CommandStarts \/ CommandReturns \/ CommandTimesOut
     \/ \E n \in 1 .. 3 : Transfer(n)
     \/ TransferReturns \/ TransferTimesOut \/ StartRequest \/ HandleEvents

XhciSpec == XhciInit /\ [][XhciNext]_xhciVars

-----------------------------------------------------------------------------
(* Properties *)

\* Each ring hands on every TRB once and in order, over its link and however often it is gone
\* round, though no more than a bit says what has been written: the next TRB that is seen is the
\* first that has not been read, and nothing is seen when there is none.  (The test for a full
\* ring never holds, since nobody takes a cycle bit back.)
RingHandsOn(ring, link, pos, n, m) ==
  LET p == Through(ring, link, pos) IN
  /\ n < m <=> Sees(ring, link, pos)
  /\ n < m => ring.trb[p.at].n = n + 1
RingsTrue ==
  /\ RingHandsOn(m_CmdRing, CmdCount - 1, cmdAt, fetched, issued)
  /\ RingHandsOn(m_pTransferRing, TransferCount - 1, transferAt, taken, inRing)
  /\ HasPlace(m_pTransferRing) /\ (doing # "written" => HasPlace(m_CmdRing))
  /\ handled < posted <=> HasEvent
  /\ HasEvent => FirstEvent.n = handled + 1

\* A command that returns before its time is up has the answer to itself, not to one that has
\* been given up before and is answered late, and the next one may begin.
AnswerTrue ==
  /\ doing = "waits" /\ m_bCommandCompleted => answer = issued
  /\ doing = "idle" => m_bCommandCompleted

\* Transfer returns TRUE if and only if the controller has carried out its request; what is asked
\* again and again is answered once each time; and no assertion fails unless Transfer has given up.
TransferTrue ==
  /\ transferring /\ m_bTransferCompleted /\ ~xhciStuck =>
       (submitted \in good <=> submitted \in done)
  /\ m_pURB \in {NoURB, submitted}
  /\ good \subseteq done
  /\ use = "TransferAsync" => m_pURB = submitted
  /\ xhciStuck => timedOut

\* Commands and transfers get their own answers, once and in order, though each side sees no more
\* of the other than the rings, answers come late and requests are given up.
XhciRight == (xhciStuck \/ RingsTrue) /\ AnswerTrue /\ TransferTrue
=============================================================================
