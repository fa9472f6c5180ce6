----------------------------- MODULE KernelTimer -----------------------------
(***************************************************************************)
(* The kernel timers of CTimer (lib/timer.cpp): a list of timers sorted by *)
(* the tick at which they elapse, which the timer interrupt polls on core  *)
(* 0, HZ times a second.                                                   *)
(*                                                                         *)
(* Every section under m_KernelTimerSpinLock is one action.  The lock is   *)
(* not held while StartKernelTimer reads m_nTicks, while its caller stores *)
(* the handle, and while PollKernelTimers calls a handler.  On core 0 the  *)
(* timer interrupt runs to completion; users on other cores go on.         *)
(*                                                                         *)
(* A member of Addrs is the address of a TKernelTimer, which is also the   *)
(* handle.  Its TPtrListElement is identified with it: both are allocated  *)
(* and inserted together, and what is in the list is exactly what carries  *)
(* PTR_LIST_MAGIC.  The memory is used again after it has been freed.      *)
(***************************************************************************)
EXTENDS Integers, SequencesExt

CONSTANTS
  Users,    \* the owners of timers, who keep one handle each
  Remote,   \* those that run on another core than core 0
  Delays,   \* [user -> delays it starts its timer with, in ticks of HZ]
  Addrs,    \* addresses a TKernelTimer can be allocated at
  Null,     \* the null handle and the null pointer
  TickMod   \* m_nTicks is an unsigned that counts modulo this

Half == TickMod \div 2   \* 2^31: where (int) becomes negative

ASSUME TimerAssumption ==
  /\ Remote \subseteq Users
  /\ Null \notin Addrs \cup Users
  /\ Delays \in [Users -> SUBSET Nat]
  /\ TickMod \in Nat /\ TickMod = 2 * Half /\ Half > 1
  /\ \A u \in Users : \A k \in Delays[u] : k + 1 < Half

VARIABLES
  m_nTicks,
  list,       \* m_KernelTimerList
  elapsesAt,  \* TKernelTimer::m_nElapsesAt
  owner,      \* m_pHandler and m_pContext; Null: no timer lives at the address
  hTimer,     \* [user -> the handle it keeps]
  pc,         \* [user -> where it is in StartKernelTimer]
  made,       \* [user -> pTimer of StartKernelTimer]
  poll,       \* where PollKernelTimers is
  pElement,   \* its pNextElement
  pTimer,     \* the timer whose handler it calls
  due,        \* history: ticks of real time until the timer should elapse
  fresh,      \* history: timers inserted since the last tick
  halt        \* TRUE: an assertion has failed

timer  == <<elapsesAt, owner, due>>
start  == <<pc, made>>
polled == <<poll, pElement, pTimer>>
vars   == <<m_nTicks, list, timer, hTimer, start, polled, fresh, halt>>

TypeOK ==
  /\ m_nTicks \in 0 .. TickMod - 1
  /\ list \in Seq(Addrs)
  /\ elapsesAt \in [Addrs -> 0 .. TickMod - 1]
  /\ owner \in [Addrs -> Users \cup {Null}]
  /\ hTimer \in [Users -> Addrs \cup {Null}]
  /\ pc \in [Users -> {"idle", "insert", "store"}]
  /\ made \in [Users -> Addrs \cup {Null}]
  /\ poll \in {"idle", "first", "next", "taken", "handler"}
  /\ pElement \in Addrs \cup {Null}
  /\ pTimer \in Addrs \cup {Null}
  /\ due \in [Addrs -> -1 .. Half - 2]
  /\ fresh \subseteq Addrs
  /\ halt \in BOOLEAN

Init ==
  /\ m_nTicks \in 0 .. TickMod - 1
  /\ list = <<>>
  /\ elapsesAt = [a \in Addrs |-> 0]
  /\ owner = [a \in Addrs |-> Null]
  /\ hTimer = [u \in Users |-> Null]
  /\ pc = [u \in Users |-> "idle"]
  /\ made = [u \in Users |-> Null]
  /\ poll = "idle" /\ pElement = Null /\ pTimer = Null
  /\ due = [a \in Addrs |-> 0]
  /\ fresh = {}
  /\ halt = FALSE

\* delete pTimer
Freed(a) ==
  /\ owner' = [owner EXCEPT ![a] = Null]
  /\ due' = [due EXCEPT ![a] = 0]
  /\ elapsesAt' = [elapsesAt EXCEPT ![a] = 0]

-----------------------------------------------------------------------------
(* Who can run.  A user of core 0 runs outside the timer interrupt, without *)
(* another user of core 0 being in the middle of a call.  A handler runs    *)
(* inside it; handlers start their timer again, but cancel none.            *)

Outside(u) ==
  \/ u \in Remote
  \/ poll = "idle" /\ \A v \in Users \ (Remote \cup {u}) : pc[v] = "idle"

MayRun(u) ==
  /\ ~halt
  /\ Outside(u) \/ (poll = "handler" /\ owner[pTimer] = u)

\* new TKernelTimer; nElapsesAt = m_nTicks + nDelay
StartKernelTimer(u) ==
  /\ MayRun(u)
  /\ pc[u] = "idle"
  /\ hTimer[u] = Null
  /\ \E a \in Addrs, n \in Delays[u] :
       /\ owner[a] = Null
       /\ owner' = [owner EXCEPT ![a] = u]
       /\ elapsesAt' = [elapsesAt EXCEPT ![a] = (m_nTicks + n) % TickMod]
       /\ due' = [due EXCEPT ![a] = n]
       /\ made' = [made EXCEPT ![u] = a]
  /\ pc' = [pc EXCEPT ![u] = "insert"]
  /\ UNCHANGED <<m_nTicks, list, hTimer, polled, fresh, halt>>

\* Mutant: the comparison of the two ticks is unsigned.
ElapsesAfter_Unsigned(b, a) == elapsesAt[b] > elapsesAt[a]

\* (int) (pTimer2->m_nElapsesAt-nElapsesAt) > 0
ElapsesAfter(b, a) == (elapsesAt[b] - elapsesAt[a]) % TickMod \in 1 .. Half - 1

\* Where the new timer a goes: before the first one that elapses after it.
Position(a) ==
  CHOOSE p \in 1 .. Len(list) + 1 :
    /\ \A i \in 1 .. p - 1 : ~ElapsesAfter(list[i], a)
    /\ p <= Len(list) => ElapsesAfter(list[p], a)

InsertTimer(u) ==
  /\ MayRun(u)
  /\ pc[u] = "insert"
  /\ list' = InsertAt(list, Position(made[u]), made[u])
  /\ fresh' = fresh \cup {made[u]}
  /\ pc' = [pc EXCEPT ![u] = "store"]
  /\ UNCHANGED <<m_nTicks, timer, hTimer, made, polled, halt>>

\* The caller keeps the handle it is given.
StoreHandle(u) ==
  /\ MayRun(u)
  /\ pc[u] = "store"
  /\ hTimer' = [hTimer EXCEPT ![u] = made[u]]
  /\ pc' = [pc EXCEPT ![u] = "idle"]
  /\ made' = [made EXCEPT ![u] = Null]
  /\ UNCHANGED <<m_nTicks, list, timer, polled, fresh, halt>>

\* Where the element with the timer a is; a timer is listed once.
Place(a) == CHOOSE i \in DOMAIN list : list[i] = a

\* Mutant: the timer is freed, its list element stays.
Unlink_Keeps(a) == Freed(a) /\ UNCHANGED <<list, fresh>>

Unlink(a) ==
  /\ list' = RemoveAt(list, Place(a))
  /\ fresh' = fresh \ {a}
  /\ Freed(a)

\* Find, then Remove and delete; nothing happens if the timer is not listed.
\* The caller clears its handle.
CancelKernelTimer(u) ==
  /\ ~halt
  /\ Outside(u)
  /\ pc[u] = "idle"
  /\ hTimer[u] # Null
  /\ IF Contains(list, hTimer[u])
     THEN Unlink(hTimer[u])
     ELSE UNCHANGED <<list, fresh, timer>>
  /\ hTimer' = [hTimer EXCEPT ![u] = Null]
  /\ UNCHANGED <<m_nTicks, start, polled, halt>>

-----------------------------------------------------------------------------
(* The timer interrupt.                                                     *)

\* ++m_nTicks; time goes on for every timer.  Whoever keeps a handle stores it
\* before its timer can elapse (delays of 0 are started from interrupts).
InterruptHandler ==
  /\ ~halt
  /\ poll = "idle"
  /\ \A u \in Users : pc[u] # "idle" => due[made[u]] > 1
  /\ m_nTicks' = (m_nTicks + 1) % TickMod
  /\ poll' = "first"
  /\ due' = [a \in Addrs |-> IF owner[a] # Null THEN due[a] - 1 ELSE 0]
  /\ fresh' = {}
  /\ UNCHANGED <<list, elapsesAt, owner, hTimer, pc, made, pElement, pTimer, halt>>

\* Mutants: a timer elapses a tick early; only at its very tick; operands swapped.
Elapsed_Early(a) == (elapsesAt[a] - m_nTicks) % TickMod \notin 2 .. Half - 1
Elapsed_Equal(a) == elapsesAt[a] = m_nTicks
Elapsed_Swapped(a) == (m_nTicks - elapsesAt[a]) % TickMod \notin 1 .. Half - 1

\* (int) (pTimer->m_nElapsesAt-m_nTicks) <= 0
Elapsed(a) == (elapsesAt[a] - m_nTicks) % TickMod \notin 1 .. Half - 1

\* The element to look at: GetFirst, later pNextElement.
Element == IF poll = "next" THEN pElement ELSE IF list = <<>> THEN Null ELSE Head(list)

\* Mutant: the element which has just been removed is read again.
Successor_Removed(a) == a

\* GetNext (pElement)
Successor(a) == IF Place(a) < Len(list) THEN list[Place(a) + 1] ELSE Null

\* The next timer has elapsed: it is removed, and the lock is released.
Take ==
  /\ Elapsed(Element)
  /\ pTimer' = Element
  /\ pElement' = Successor(Element)
  /\ list' = RemoveAt(list, Place(Element))
  /\ fresh' = fresh \ {Element}
  /\ poll' = "taken"
  /\ UNCHANGED halt

\* assert (pElement->nMagic == PTR_LIST_MAGIC) fails if the element was deleted.
PollTake ==
  /\ ~halt
  /\ poll \in {"first", "next"}
  /\ Element # Null
  /\ IF Contains(list, Element)
     THEN Take
     ELSE halt' = TRUE /\ UNCHANGED <<list, fresh, polled>>
  /\ UNCHANGED <<m_nTicks, timer, hTimer, start>>

\* The end of the list, or a timer that has not elapsed.
PollEnd ==
  /\ ~halt
  /\ poll \in {"first", "next"}
  /\ Element = Null \/ (Contains(list, Element) /\ ~Elapsed(Element))
  /\ poll' = "idle" /\ pElement' = Null
  /\ UNCHANGED <<m_nTicks, list, timer, hTimer, start, pTimer, fresh, halt>>

\* Mutant: the handler leaves the handle of the elapsed timer as it is.
HandlerCall_KeepsHandle ==
  /\ ~halt
  /\ poll = "taken"
  /\ poll' = "handler"
  /\ UNCHANGED <<m_nTicks, list, timer, start, hTimer, pElement, pTimer, fresh, halt>>

\* The handler is called; what every owner of a handle does first is clear it.
HandlerCall ==
  /\ ~halt
  /\ poll = "taken"
  /\ poll' = "handler"
  /\ hTimer' = [hTimer EXCEPT ![owner[pTimer]] = Null]
  /\ UNCHANGED <<m_nTicks, list, timer, start, pElement, pTimer, fresh, halt>>

\* The handler returns, it may have started a timer; delete pTimer.
HandlerReturn ==
  /\ ~halt
  /\ poll = "handler"
  /\ owner[pTimer] \in Remote \/ pc[owner[pTimer]] = "idle"
  /\ poll' = "next"
  /\ Freed(pTimer)
  /\ pTimer' = Null
  /\ UNCHANGED <<m_nTicks, list, hTimer, start, pElement, fresh, halt>>

Starting == \E u \in Users : InsertTimer(u) \/ StoreHandle(u)
Polling  == PollTake \/ PollEnd \/ HandlerCall \/ HandlerReturn

Next ==
  \/ \E u \in Users : StartKernelTimer(u) \/ CancelKernelTimer(u)
  \/ Starting
  \/ InterruptHandler
  \/ Polling

Spec == Init /\ [][Next]_vars

\* The hardware timer interrupts HZ times a second, whatever calls are made in
\* between (SF: they hold it off for a moment only); handlers return; the call of
\* a user who starts a timer is executed.  Nobody has to start or cancel one.
FairSpec ==
  Spec /\ SF_vars(InterruptHandler) /\ WF_vars(Polling)
       /\ \A u \in Users : WF_vars(InsertTimer(u) \/ StoreHandle(u))

-----------------------------------------------------------------------------
(* Properties. *)

\* The list is sorted by the time its timers have still to run, across the wrap
\* of m_nTicks and whatever was started late, since polling stops at the first
\* timer which has not elapsed; and when the interrupt returns, a listed timer
\* that is due was inserted after the tick: no elapsed timer is passed over.
NoneOverdue ==
  /\ \A i, j \in DOMAIN list : i < j => due[list[i]] <= due[list[j]]
  /\ poll = "idle" => \A i \in DOMAIN list : due[list[i]] > 0 \/ list[i] \in fresh

\* The handle a user keeps is that of a listed timer of its own, or of the one
\* whose handler is about to be called, so cancelling never hits another
\* user's timer, although handles are addresses that are used again.
HandleExact ==
  \A u \in Users : hTimer[u] # Null =>
    /\ owner[hTimer[u]] = u
    /\ Contains(list, hTimer[u]) \/ (poll = "taken" /\ pTimer = hTimer[u])

\* The memory of timers is accounted for, on any number of cores: a live timer is
\* listed, about to be listed, or about to be deleted by the interrupt, in exactly
\* one of these places, and a listed one has not been freed.
Accounted ==
  /\ \A i \in DOMAIN list : owner[list[i]] # Null /\ list[i] # pTimer
  /\ \A i, j \in DOMAIN list : list[i] = list[j] => i = j
  /\ \A a \in Addrs : owner[a] # Null /\ a # pTimer =>
       Contains(list, a) \/ \E u \in Users : pc[u] = "insert" /\ made[u] = a

\* PollKernelTimers never looks at a list element which has been deleted while
\* the lock was released.
NoAssertion == ~halt

Armed(u) == hTimer[u] # Null \/ pc[u] # "idle"

\* The kernel timers implement what a user is promised: the handler is called
\* for a started timer only, once, not early and not after it was cancelled.
Promise ==
  INSTANCE TimerService WITH
    armed   <- [u \in Users |-> Armed(u)],
    left    <- [u \in Users |-> IF pc[u] # "idle" THEN due[made[u]]
                                ELSE IF hTimer[u] # Null THEN due[hTimer[u]] ELSE 0],
    ringing <- IF poll = "handler" THEN owner[pTimer] ELSE Null

Implements == Promise!Spec

\* A started timer elapses unless it is cancelled.
ElapsesAtLast == \A u \in Users : Armed(u) ~> ~Armed(u)

\* The interrupt handler comes to an end although handlers start timers.
PollEnds == poll # "idle" ~> poll = "idle"

=============================================================================
