----------------------------- MODULE Scheduler -----------------------------
(***************************************************************************)
(* The cooperative scheduler of lib/sched: CScheduler (the slot table      *)
(* m_pTask and its round-robin scan), CTask and CSynchronizationEvent.     *)
(*                                                                         *)
(* Exactly one task runs at a time, but an interrupt may hit between any   *)
(* two of its statements.  The calls that an interrupt can observe half    *)
(* done, CSynchronizationEvent::Wait and CScheduler::Yield, are therefore  *)
(* split at those points; everything else is one action.                   *)
(*                                                                         *)
(* A member of Tasks is the ADDRESS of a CTask: after the object has been  *)
(* deleted, a later "new CTask" may get the same address.  A task's own    *)
(* m_Event is the event with the task's name.                              *)
(***************************************************************************)
EXTENDS Integers, FiniteSets

CONSTANTS
  Tasks,        \* addresses a CTask can be allocated at
  Main,         \* the main task, created by the scheduler's constructor
  Shared,       \* CSynchronizationEvents that are not part of a CTask
  Null,         \* the null pointer
  MaxTasks,     \* MAX_TASKS
  WaitPairs,    \* <<t, e>>: the program lets task t wait on event e
  IsrEvents,    \* events which an interrupt handler sets
  ClockMod,     \* the clock is an unsigned that counts modulo this
  SleepMax,     \* nSleepMax of CScheduler::Sleep, in clock ticks
  SleepTicks,   \* arguments of Sleep, in clock ticks
  MsSleepTicks, \* arguments of MsSleep and usSleep, in clock ticks
  MaxLate       \* bound: no sleeper is overdue by more than this many ticks

Events == Shared \cup Tasks
Half   == ClockMod \div 2     \* 2^31: where (int) becomes negative
Slots  == 0 .. MaxTasks - 1

ASSUME TasksAssumption ==
  /\ Main \in Tasks
  /\ Null \notin Tasks
  /\ Shared \cap Tasks = {}
  /\ Null \notin Shared
  /\ WaitPairs \subseteq Tasks \X Events
  /\ IsrEvents \subseteq Shared
  /\ MaxTasks \in Nat \ {0}

ASSUME ClockAssumption ==
  /\ ClockMod \in Nat \ {0, 1} /\ ClockMod = 2 * Half
  /\ MaxLate \in Nat /\ MaxLate < Half
  /\ SleepMax \in Nat \ {0} /\ SleepMax < Half
  /\ SleepTicks \subseteq Nat \ {0}
  /\ MsSleepTicks \subseteq 1 .. ClockMod - 1

VARIABLES
  m_pTask,     \* [Slots -> task or Null]; slots from m_nTasks on are not read
  m_nTasks,
  m_pCurrent,
  m_nCurrent,  \* slot of the running task, MaxTasks after a fruitless scan
  state,       \* CTask::m_State; "Unknown": no object lives at the address
  wakeTicks,   \* CTask::m_nWakeTicks
  bState,      \* CSynchronizationEvent::m_bState
  pWaitTask,   \* CSynchronizationEvent::m_pWaitTask
  pc,          \* where a task is in its code
  waitOn,      \* local of Wait: the event a task is waiting on
  left,        \* local of Sleep: ticks still to sleep after this usSleep
  clock,       \* CTimer::GetClockTicks
  due,         \* history: ticks of real time until the sleep should end
  halt         \* the assertion or panic that stopped the system, or "no"

table == <<m_pTask, m_nTasks>>
sched == <<m_pCurrent, m_nCurrent>>
event == <<bState, pWaitTask>>
sleep == <<wakeTicks, left, due>>
vars  == <<table, sched, state, event, sleep, pc, waitOn, clock, halt>>

States == {"Ready", "Blocked", "Sleeping", "Terminated", "Unknown"}

TypeOK ==
  /\ m_pTask \in [Slots -> Tasks \cup {Null}]
  /\ m_nTasks \in 0 .. MaxTasks
  /\ m_pCurrent \in Tasks
  /\ m_nCurrent \in 0 .. MaxTasks
  /\ state \in [Tasks -> States]
  /\ wakeTicks \in [Tasks -> 0 .. ClockMod - 1]
  /\ bState \in [Events -> BOOLEAN]
  /\ pWaitTask \in [Events -> Tasks \cup {Null}]
  /\ pc \in [Tasks -> {"run", "test", "store", "block", "yield", "woken", "again"}]
  /\ waitOn \in [Tasks -> Events \cup {Null}]
  /\ left \in [Tasks -> Nat]
  /\ clock \in 0 .. ClockMod - 1
  /\ due \in [Tasks -> -MaxLate .. ClockMod - 1]
  /\ halt \in {"no", "limit", "notblocked", "waiter", "woken"}

Init ==
  /\ m_pTask = [i \in Slots |-> IF i = 0 THEN Main ELSE Null]
  /\ m_nTasks = 1
  /\ m_pCurrent = Main
  /\ m_nCurrent = 0
  /\ state = [t \in Tasks |-> IF t = Main THEN "Ready" ELSE "Unknown"]
  /\ wakeTicks = [t \in Tasks |-> 0]
  /\ bState = [e \in Events |-> FALSE]
  /\ pWaitTask = [e \in Events |-> Null]
  /\ pc = [t \in Tasks |-> IF t = Main THEN "run" ELSE "yield"]
  /\ waitOn = [t \in Tasks |-> Null]
  /\ left = [t \in Tasks |-> 0]
  /\ clock \in 0 .. ClockMod - 1
  /\ due = [t \in Tasks |-> 0]
  /\ halt = "no"

Live(t)    == state[t] # "Unknown"

\* The running task t stands at place l of its code, and the system runs.
At(t, l)   == halt = "no" /\ m_pCurrent = t /\ pc[t] = l
Running(t) == At(t, "run")
InYield    == pc[m_pCurrent] = "yield"

-----------------------------------------------------------------------------
(* Creating tasks: the constructor of CTask and AddTask, which takes the    *)
(* first null slot below m_nTasks, else appends, else panics.               *)

NewTask(u) ==
  /\ state' = [state EXCEPT ![u] = "Ready"]
  /\ pc' = [pc EXCEPT ![u] = "yield"]
  /\ waitOn' = [waitOn EXCEPT ![u] = Null]
  /\ left' = [left EXCEPT ![u] = 0]
  /\ due' = [due EXCEPT ![u] = 0]
  /\ bState' = [bState EXCEPT ![u] = FALSE]
  /\ pWaitTask' = [pWaitTask EXCEPT ![u] = Null]

FreeSlots == {i \in 0 .. m_nTasks - 1 : m_pTask[i] = Null}

\* Mutant: the limit of the table is off by one.
AddTask_OverLimit(u) ==
  \/ \E i \in FreeSlots :
       /\ \A j \in FreeSlots : i <= j
       /\ m_pTask' = [m_pTask EXCEPT ![i] = u]
       /\ UNCHANGED <<m_nTasks, halt>>
  \/ /\ FreeSlots = {}
     /\ m_pTask' = [i \in 0 .. m_nTasks |-> IF i = m_nTasks THEN u ELSE m_pTask[i]]
     /\ m_nTasks' = m_nTasks + 1
     /\ UNCHANGED halt

AddTask(u) ==
  \/ \E i \in FreeSlots :
       /\ \A j \in FreeSlots : i <= j
       /\ m_pTask' = [m_pTask EXCEPT ![i] = u]
       /\ UNCHANGED <<m_nTasks, halt>>
  \/ /\ FreeSlots = {}
     /\ m_nTasks < MaxTasks
     /\ m_pTask' = [m_pTask EXCEPT ![m_nTasks] = u]
     /\ m_nTasks' = m_nTasks + 1
     /\ UNCHANGED halt
  \/ /\ FreeSlots = {}
     /\ m_nTasks >= MaxTasks
     /\ halt' = "limit"
     /\ UNCHANGED table

CreateTask(t, u) ==
  /\ Running(t)
  /\ ~Live(u)
  /\ NewTask(u)
  /\ AddTask(u)
  /\ UNCHANGED <<sched, wakeTicks, clock>>

-----------------------------------------------------------------------------
(* CSynchronizationEvent::Set and CScheduler::WakeTask, given the task      *)
(* states st in which the call is made.                                     *)

\* Mutant: *ppTask is not reset.
WakeTask_KeepsWaiter(e, st) ==
  IF st[pWaitTask[e]] = "Blocked"
  THEN state' = [st EXCEPT ![pWaitTask[e]] = "Ready"] /\ UNCHANGED <<pWaitTask, halt>>
  ELSE state' = st /\ halt' = "notblocked" /\ UNCHANGED pWaitTask

WakeTask(e, st) ==
  LET w == pWaitTask[e] IN
  /\ pWaitTask' = [pWaitTask EXCEPT ![e] = Null]
  /\ IF st[w] = "Blocked"
     THEN state' = [st EXCEPT ![w] = "Ready"] /\ UNCHANGED halt
     ELSE state' = st /\ halt' = "notblocked"

\* Mutant: the event becomes set, its waiter is forgotten.
Set_NoWake(e, st) ==
  bState' = [bState EXCEPT ![e] = TRUE] /\ state' = st /\ UNCHANGED <<pWaitTask, halt>>

Set(e, st) ==
  /\ bState' = [bState EXCEPT ![e] = TRUE]
  /\ IF bState[e] \/ pWaitTask[e] = Null
     THEN state' = st /\ UNCHANGED <<pWaitTask, halt>>
     ELSE WakeTask(e, st)

TaskSet(t, e) ==
  /\ Running(t)
  /\ Set(e, state)
  /\ UNCHANGED <<table, sched, sleep, pc, waitOn, clock>>

\* An interrupt handler sets the event; CSysLogDaemon's log event handler is one.
IsrSet(e) ==
  /\ halt = "no"
  /\ Set(e, state)
  /\ UNCHANGED <<table, sched, sleep, pc, waitOn, clock>>

\* Clear is only called by the task which is about to wait on the event.
Clear(t, e) ==
  /\ Running(t)
  /\ e \in Shared
  /\ <<t, e>> \in WaitPairs
  /\ bState' = [bState EXCEPT ![e] = FALSE]
  /\ UNCHANGED <<table, sched, state, pWaitTask, sleep, pc, waitOn, clock, halt>>

-----------------------------------------------------------------------------
(* CSynchronizationEvent::Wait and CScheduler::BlockTask, one action per    *)
(* statement between which an interrupt makes a difference.                 *)

\* The call; with e a task this is CTask::WaitForTermination of that task.
Wait(t, e) ==
  /\ Running(t)
  /\ <<t, e>> \in WaitPairs
  /\ e \in Tasks => Live(e) /\ e # t
  /\ ~bState[e]                                   \* otherwise it returns
  /\ waitOn' = [waitOn EXCEPT ![t] = e]
  /\ pc' = [pc EXCEPT ![t] = "test"]
  /\ UNCHANGED <<table, sched, state, event, sleep, clock, halt>>

\* assert (m_pWaitTask == 0)
WaitAssert(t) ==
  /\ At(t, "test")
  /\ IF pWaitTask[waitOn[t]] = Null
     THEN pc' = [pc EXCEPT ![t] = "store"] /\ UNCHANGED halt
     ELSE halt' = "waiter" /\ UNCHANGED pc
  /\ UNCHANGED <<table, sched, state, event, sleep, waitOn, clock>>

\* *ppTask = m_pCurrent
BlockStore(t) ==
  /\ At(t, "store")
  /\ pWaitTask' = [pWaitTask EXCEPT ![waitOn[t]] = t]
  /\ pc' = [pc EXCEPT ![t] = "block"]
  /\ UNCHANGED <<table, sched, state, bState, sleep, waitOn, clock, halt>>

\* m_pCurrent->SetState (TaskStateBlocked), then Yield is entered
BlockState(t) ==
  /\ At(t, "block")
  /\ state' = [state EXCEPT ![t] = "Blocked"]
  /\ pc' = [pc EXCEPT ![t] = "yield"]
  /\ UNCHANGED <<table, sched, event, sleep, waitOn, clock, halt>>

\* assert (m_bState), after BlockTask has returned
WaitReturn(t) ==
  /\ At(t, "woken")
  /\ IF bState[waitOn[t]]
     THEN /\ pc' = [pc EXCEPT ![t] = "run"]
          /\ waitOn' = [waitOn EXCEPT ![t] = Null]
          /\ UNCHANGED halt
     ELSE halt' = "woken" /\ UNCHANGED <<pc, waitOn>>
  /\ UNCHANGED <<table, sched, state, event, sleep, clock>>

-----------------------------------------------------------------------------
(* Sleeping.  usSleep computes the wake-up time modulo ClockMod.            *)

usSleep(t, n) ==
  /\ wakeTicks' = [wakeTicks EXCEPT ![t] = (clock + n) % ClockMod]
  /\ due' = [due EXCEPT ![t] = n]
  /\ state' = [state EXCEPT ![t] = "Sleeping"]
  /\ pc' = [pc EXCEPT ![t] = "yield"]

\* Mutant: the whole time is slept at once.
SleepChunk_NoSplit(t, n) ==
  /\ usSleep(t, n)
  /\ UNCHANGED <<table, sched, event, left, waitOn, clock, halt>>

\* Sleep splits what is longer than SleepMax.
SleepChunk(t, n) ==
  /\ usSleep(t, IF n > SleepMax THEN SleepMax ELSE n)
  /\ left' = [left EXCEPT ![t] = IF n > SleepMax THEN n - SleepMax ELSE 0]
  /\ UNCHANGED <<table, sched, event, waitOn, clock, halt>>

Sleep(t, n) ==
  /\ Running(t)
  /\ SleepChunk(t, n)

SleepAgain(t) ==
  /\ At(t, "again")
  /\ SleepChunk(t, left[t])

\* MsSleep hands its argument to usSleep as it is.
MsSleep(t, n) ==
  /\ Running(t)
  /\ usSleep(t, n)
  /\ UNCHANGED <<table, sched, event, left, waitOn, clock, halt>>

\* Mutant: a test for the very tick.
Expired_Equal(t) == wakeTicks[t] = clock

\* (int) (pTask->GetWakeTicks () - nTicks) <= 0
Expired(t) == (wakeTicks[t] - clock) % ClockMod \notin 1 .. Half - 1

-----------------------------------------------------------------------------
(* Terminate, or the return from Run: the own event is set and Yield is     *)
(* never left again.  The main task does not terminate.                     *)

Terminate(t) ==
  /\ Running(t)
  /\ t # Main
  /\ Set(t, [state EXCEPT ![t] = "Terminated"])
  /\ pc' = [pc EXCEPT ![t] = "yield"]
  /\ UNCHANGED <<table, sched, sleep, waitOn, clock>>

Yield(t) ==
  /\ Running(t)
  /\ pc' = [pc EXCEPT ![t] = "yield"]
  /\ UNCHANGED <<table, sched, state, event, sleep, waitOn, clock, halt>>

-----------------------------------------------------------------------------
(* GetNextTask: the slots are visited cyclically from the one after         *)
(* m_nCurrent, or from slot 1 after a fruitless scan, up to and including   *)
(* the start.  The first ready or expired task is switched to; the first    *)
(* terminated one is deleted and the scan is fruitless, as it is when no    *)
(* task stops it.                                                           *)

\* Mutant: every scan starts at the beginning of the table.
Start_Zero == 0

Start    == IF m_nCurrent < MaxTasks THEN m_nCurrent ELSE 0
Visit(i) == IF Start < m_nTasks THEN (Start + i) % m_nTasks ELSE i - 1

CanRun(t) == state[t] = "Ready" \/ (state[t] = "Sleeping" /\ Expired(t))

\* Mutant: terminated tasks are skipped.
StopsAt_Ready(i) == m_pTask[Visit(i)] # Null /\ CanRun(m_pTask[Visit(i)])

StopsAt(i) ==
  /\ m_pTask[Visit(i)] # Null
  /\ \/ CanRun(m_pTask[Visit(i)])
     \/ state[m_pTask[Visit(i)]] = "Terminated"

FirstStop(i) == StopsAt(i) /\ \A j \in 1 .. i - 1 : ~StopsAt(j)

Resumption(t) ==
  IF waitOn[t] # Null THEN "woken" ELSE IF left[t] > 0 THEN "again" ELSE "run"

ScanSwitch ==
  /\ halt = "no" /\ InYield
  /\ \E i \in 1 .. m_nTasks :
       LET n == m_pTask[Visit(i)] IN
       /\ FirstStop(i)
       /\ CanRun(n)
       /\ m_nCurrent' = Visit(i)
       /\ m_pCurrent' = n
       /\ state' = [state EXCEPT ![n] = "Ready"]
       /\ due' = [due EXCEPT ![n] = IF @ < 0 THEN 0 ELSE @]
       /\ pc' = [pc EXCEPT ![n] = Resumption(n)]
  /\ UNCHANGED <<table, event, wakeTicks, left, waitOn, clock, halt>>

\* Mutant: the table shrinks whichever slot is removed.
RemoveTask_Shrinks(i) ==
  m_pTask' = [m_pTask EXCEPT ![i] = Null] /\ m_nTasks' = m_nTasks - 1

\* RemoveTask: the slot is nulled, and the table shrinks by at most that slot.
RemoveTask(i) ==
  /\ m_pTask' = [m_pTask EXCEPT ![i] = Null]
  /\ m_nTasks' = IF i = m_nTasks - 1 THEN m_nTasks - 1 ELSE m_nTasks

\* delete pTask: the memory keeps its contents until it is allocated again.
ScanReap ==
  /\ halt = "no" /\ InYield
  /\ \E i \in 1 .. m_nTasks :
       LET n == m_pTask[Visit(i)] IN
       /\ FirstStop(i)
       /\ state[n] = "Terminated"
       /\ RemoveTask(Visit(i))
       /\ state' = [state EXCEPT ![n] = "Unknown"]
  /\ m_nCurrent' = MaxTasks
  /\ UNCHANGED <<m_pCurrent, event, sleep, pc, waitOn, clock, halt>>

ScanIdle ==
  /\ halt = "no" /\ InYield
  /\ \A i \in 1 .. m_nTasks : ~StopsAt(i)
  /\ m_nCurrent' = MaxTasks
  /\ UNCHANGED <<table, m_pCurrent, state, event, sleep, pc, waitOn, clock, halt>>

-----------------------------------------------------------------------------
\* The hardware clock counts on; MaxLate bounds how late a sleeper is scanned.
ClockTick ==
  /\ halt = "no"
  /\ \A t \in Tasks : state[t] = "Sleeping" => due[t] > -MaxLate
  /\ clock' = (clock + 1) % ClockMod
  /\ due' = [t \in Tasks |-> IF state[t] = "Sleeping" THEN due[t] - 1 ELSE due[t]]
  /\ UNCHANGED <<table, sched, state, event, wakeTicks, left, pc, waitOn, halt>>

Scan == ScanSwitch \/ ScanReap \/ ScanIdle

\* What the running task does on its own.
Call(t) ==
  \/ \E u \in Tasks : CreateTask(t, u)
  \/ \E e \in Shared : TaskSet(t, e)
  \/ \E e \in Shared : Clear(t, e)
  \/ \E e \in Events : Wait(t, e)
  \/ \E n \in SleepTicks : Sleep(t, n)
  \/ \E n \in MsSleepTicks : MsSleep(t, n)
  \/ Terminate(t)
  \/ Yield(t)

\* What follows inside the call the running task has made.
Continue(t) ==
  \/ WaitAssert(t)
  \/ BlockStore(t)
  \/ BlockState(t)
  \/ WaitReturn(t)
  \/ SleepAgain(t)

\* assertion_failed and the panic halt the system for good.
Halted == halt # "no" /\ UNCHANGED vars

Next ==
  \/ \E t \in Tasks : Call(t) \/ Continue(t)
  \/ Scan
  \/ \E e \in IsrEvents : IsrSet(e)
  \/ ClockTick
  \/ Halted

Spec == Init /\ [][Next]_vars

(***************************************************************************)
(* Fairness.  The scheduler is cooperative: it promises something only for *)
(* tasks that do not compute forever, so the running task is assumed to    *)
(* enter Yield at last.  The processor executes the scheduler's own code,  *)
(* and the clock runs.                                                     *)
(***************************************************************************)
Fairness ==
  /\ WF_vars(\E t \in Tasks : Yield(t))
  /\ WF_vars(\E t \in Tasks : Continue(t))
  /\ WF_vars(Scan)
  /\ WF_vars(ClockTick)

FairSpec == Spec /\ Fairness

-----------------------------------------------------------------------------
(* Properties. *)

\* The slot table is exact: unless creating a task has just panicked, every
\* live CTask stands in exactly one slot below m_nTasks and no slot there holds
\* a deleted one, through every reuse of slots and shrinking of the table.
SlotsExact ==
  halt # "limit" =>
    /\ \A i \in 0 .. m_nTasks - 1 : m_pTask[i] # Null => Live(m_pTask[i])
    /\ \A t \in Tasks : Live(t) => \E i \in 0 .. m_nTasks - 1 : m_pTask[i] = t
    /\ \A i, j \in 0 .. m_nTasks - 1 :
         m_pTask[i] = m_pTask[j] /\ m_pTask[i] # Null => i = j

\* Outside Yield the running task is alive and Ready, and m_nCurrent is its slot,
\* so that the next scan starts behind it (Yield may run on in a deleted task).
CurrentExact ==
  halt = "no" /\ ~InYield =>
    /\ state[m_pCurrent] = "Ready"
    /\ m_nCurrent < m_nTasks
    /\ m_pTask[m_nCurrent] = m_pCurrent

\* No wakeup is lost: a blocked task is registered with the event it waits on,
\* and that event is not set.
NoLostWakeup ==
  \A t \in Tasks : state[t] = "Blocked" =>
    pWaitTask[waitOn[t]] = t /\ ~bState[waitOn[t]]

\* An event's registered waiter is a task that is blocking on this very event,
\* never one which has gone on, terminated or been deleted.
WaiterExact ==
  \A e \in Events : pWaitTask[e] # Null =>
    /\ waitOn[pWaitTask[e]] = e
    /\ state[pWaitTask[e]] = "Blocked" \/ pc[pWaitTask[e]] = "block"

\* No assertion of the scheduler or of an event ever fails.
NoAssertion == halt \in {"no", "limit"}

\* assert (m_bState) behind BlockTask in Event::Wait.
WokenBySet == halt # "woken"

\* A task does not run on before its sleep is over (Sleep in chunks, MsSleep).
NeverEarly ==
  \A t \in Tasks : state[t] = "Ready" => due[t] <= 0

\* Round robin: a ready task runs at last, whatever the others do and however
\* often a scan restarts at slot 1 because it has deleted a terminated task.
ReadyRuns ==
  \A t \in Tasks : state[t] = "Ready" /\ halt = "no" ~> m_pCurrent = t \/ halt # "no"

\* A sleeping task is scheduled again.
SleeperRuns ==
  \A t \in Tasks : state[t] = "Sleeping" ~> state[t] = "Ready" \/ halt # "no"

\* A terminated task is deleted, and its slot becomes free.
TerminatedReaped ==
  \A t \in Tasks : state[t] = "Terminated" ~> ~Live(t) \/ halt # "no"

=============================================================================
