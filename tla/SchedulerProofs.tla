-------------------------- MODULE SchedulerProofs --------------------------
(***************************************************************************)
(* Proofs about Scheduler, for every set of tasks, table size, clock width *)
(* and choice of the events that tasks wait on and interrupts set.         *)
(***************************************************************************)
EXTENDS Scheduler, TLAPS

\* The visited positions of a scan are slots in use.
LEMMA VisitInTable ==
  ASSUME TypeOK, NEW i \in 1 .. m_nTasks
  PROVE  Visit(i) \in 0 .. m_nTasks - 1 /\ Visit(i) \in Slots
<1>1. m_nTasks \in Nat /\ m_nTasks > 0 /\ m_nTasks <= MaxTasks /\ m_nCurrent \in Nat /\ MaxTasks \in Nat
  BY TasksAssumption DEF TypeOK
<1>2. Start \in Nat
  BY <1>1 DEF Start
<1>3. (Start + i) % m_nTasks \in 0 .. m_nTasks - 1
  BY <1>1, <1>2
<1> QED
  BY <1>1, <1>2, <1>3 DEF Visit, Slots

\* Only a system that no assertion has stopped takes a step of a task.
LEMMA StepsRun ==
  ASSUME Scan \/ \E t \in Tasks : Call(t) \/ Continue(t)
  PROVE  halt = "no"
BY DEF Call, CreateTask, TaskSet, Clear, Wait, Sleep, MsSleep, Terminate, Yield, Running, At,
       Continue, WaitAssert, BlockStore, BlockState, WaitReturn, SleepAgain,
       Scan, ScanSwitch, ScanReap, ScanIdle

-----------------------------------------------------------------------------
(* Type correctness.                                                        *)

LEMMA InitType == Init => TypeOK
BY TasksAssumption, ClockAssumption DEF Init, TypeOK, Slots, Events, States, Half

LEMMA SetType ==
  ASSUME TypeOK, NEW e \in Events, NEW st \in [Tasks -> States], Set(e, st)
  PROVE  /\ state' \in [Tasks -> States]
         /\ bState' \in [Events -> BOOLEAN]
         /\ pWaitTask' \in [Events -> Tasks \cup {Null}]
         /\ halt' \in {"no", "limit", "notblocked", "waiter", "woken"}
<1>1. bState' \in [Events -> BOOLEAN]
  BY DEF TypeOK, Set
<1>2. CASE bState[e] \/ pWaitTask[e] = Null
  BY <1>1, <1>2 DEF TypeOK, Set
<1>3. CASE ~(bState[e] \/ pWaitTask[e] = Null)
  <2>1. pWaitTask[e] \in Tasks
    BY <1>3 DEF TypeOK
  <2> QED
    BY <1>1, <1>3, <2>1 DEF TypeOK, Set, WakeTask, States
<1> QED
  BY <1>2, <1>3

LEMMA CallType ==
  ASSUME TypeOK, NEW t \in Tasks, Call(t)
  PROVE  TypeOK'
<1> USE DEF Running, At
<1>1. ASSUME NEW u \in Tasks, CreateTask(t, u) PROVE TypeOK'
  <2>1. m_pTask' \in [Slots -> Tasks \cup {Null}] /\ m_nTasks' \in 0 .. MaxTasks
    BY <1>1, TasksAssumption DEF TypeOK, CreateTask, AddTask, table
  <2>2. halt' \in {"no", "limit", "notblocked", "waiter", "woken"}
    BY <1>1 DEF TypeOK, CreateTask, AddTask
  <2>3. due' \in [Tasks -> -MaxLate .. ClockMod - 1]
    BY <1>1, ClockAssumption DEF TypeOK, CreateTask, NewTask
  <2> QED
    BY <1>1, <2>1, <2>2, <2>3 DEF TypeOK, CreateTask, NewTask, States, sched
<1>2. ASSUME NEW e \in Shared, TaskSet(t, e) PROVE TypeOK'
  <2>1. e \in Events /\ state \in [Tasks -> States]
    BY DEF Events, TypeOK
  <2> QED
    BY <1>2, <2>1, SetType DEF TypeOK, TaskSet, table, sched, sleep
<1>3. ASSUME NEW e \in Shared, Clear(t, e) PROVE TypeOK'
  BY <1>3 DEF TypeOK, Clear, table, sched, sleep
<1>4. ASSUME NEW e \in Events, Wait(t, e) PROVE TypeOK'
  BY <1>4 DEF TypeOK, Wait, table, sched, sleep, event
<1>5. ASSUME NEW n \in SleepTicks, Sleep(t, n) PROVE TypeOK'
  <2>1. n \in Nat
    BY ClockAssumption
  <2>2. (clock + IF n > SleepMax THEN SleepMax ELSE n) % ClockMod \in 0 .. ClockMod - 1
    BY <2>1, ClockAssumption DEF TypeOK
  <2>3. (IF n > SleepMax THEN SleepMax ELSE n) \in -MaxLate .. ClockMod - 1
    BY <2>1, ClockAssumption DEF Half
  <2> QED
    BY <1>5, <2>1, <2>2, <2>3, ClockAssumption
    DEF TypeOK, Sleep, SleepChunk, usSleep, States, table, sched, event
<1>6. ASSUME NEW n \in MsSleepTicks, MsSleep(t, n) PROVE TypeOK'
  <2>1. (clock + n) % ClockMod \in 0 .. ClockMod - 1
    BY ClockAssumption DEF TypeOK
  <2>2. n \in -MaxLate .. ClockMod - 1
    BY ClockAssumption
  <2> QED
    BY <1>6, <2>1, <2>2 DEF TypeOK, MsSleep, usSleep, States, table, sched, event
<1>7. ASSUME Terminate(t) PROVE TypeOK'
  <2>1. t \in Events /\ [state EXCEPT ![t] = "Terminated"] \in [Tasks -> States]
    BY DEF Events, TypeOK, States
  <2> QED
    BY <1>7, <2>1, SetType DEF TypeOK, Terminate, table, sched, sleep
<1>8. ASSUME Yield(t) PROVE TypeOK'
  BY <1>8 DEF TypeOK, Yield, table, sched, event, sleep
<1> QED
  BY <1>1, <1>2, <1>3, <1>4, <1>5, <1>6, <1>7, <1>8 DEF Call

LEMMA ContinueType ==
  ASSUME TypeOK, NEW t \in Tasks, Continue(t)
  PROVE  TypeOK'
<1>1. CASE WaitAssert(t)
  BY <1>1 DEF At, TypeOK, WaitAssert, table, sched, event, sleep
<1>2. CASE BlockStore(t)
  BY <1>2 DEF At, TypeOK, BlockStore, table, sched, sleep
<1>3. CASE BlockState(t)
  BY <1>3 DEF At, TypeOK, BlockState, States, table, sched, event, sleep
<1>4. CASE WaitReturn(t)
  BY <1>4 DEF At, TypeOK, WaitReturn, table, sched, event, sleep
<1>5. CASE SleepAgain(t)
  <2>1. left[t] \in Nat
    BY DEF TypeOK
  <2>2. (clock + IF left[t] > SleepMax THEN SleepMax ELSE left[t]) % ClockMod \in 0 .. ClockMod - 1
    BY <2>1, ClockAssumption DEF TypeOK
  <2>3. (IF left[t] > SleepMax THEN SleepMax ELSE left[t]) \in -MaxLate .. ClockMod - 1
    BY <2>1, ClockAssumption DEF Half
  <2> QED
    BY <1>5, <2>1, <2>2, <2>3, ClockAssumption
    DEF At, TypeOK, SleepAgain, SleepChunk, usSleep, States, table, sched, event
<1> QED
  BY <1>1, <1>2, <1>3, <1>4, <1>5 DEF Continue

LEMMA ScanType ==
  ASSUME TypeOK, Scan
  PROVE  TypeOK'
<1>1. CASE ScanSwitch
  <2>1. PICK i \in 1 .. m_nTasks :
          LET n == m_pTask[Visit(i)] IN
          /\ FirstStop(i)
          /\ m_nCurrent' = Visit(i)
          /\ m_pCurrent' = n
          /\ state' = [state EXCEPT ![n] = "Ready"]
          /\ due' = [due EXCEPT ![n] = IF @ < 0 THEN 0 ELSE @]
          /\ pc' = [pc EXCEPT ![n] = Resumption(n)]
    BY <1>1 DEF ScanSwitch
  <2> DEFINE n == m_pTask[Visit(i)]
  <2>2. Visit(i) \in Slots /\ Visit(i) \in 0 .. MaxTasks
    BY VisitInTable, TasksAssumption DEF Slots
  <2>3. n \in Tasks
    BY <2>1, <2>2 DEF TypeOK, FirstStop, StopsAt
  <2>4. due' \in [Tasks -> -MaxLate .. ClockMod - 1]
    BY <2>1, <2>3, ClockAssumption DEF TypeOK
  <2>5. Resumption(n) \in {"run", "test", "store", "block", "yield", "woken", "again"}
    BY DEF Resumption
  <2> QED
    BY <1>1, <2>1, <2>2, <2>3, <2>4, <2>5 DEF TypeOK, ScanSwitch, States, table, event
<1>2. CASE ScanReap
  <2>1. PICK i \in 1 .. m_nTasks :
          /\ FirstStop(i)
          /\ RemoveTask(Visit(i))
          /\ state' = [state EXCEPT ![m_pTask[Visit(i)]] = "Unknown"]
    BY <1>2 DEF ScanReap
  <2>2. m_nTasks' \in 0 .. MaxTasks
    BY <2>1, TasksAssumption DEF TypeOK, RemoveTask
  <2>3. m_pTask' \in [Slots -> Tasks \cup {Null}]
    BY <2>1 DEF TypeOK, RemoveTask
  <2>4. state' \in [Tasks -> States]
    BY <2>1 DEF TypeOK, States
  <2>5. m_nCurrent' \in 0 .. MaxTasks
    BY <1>2, TasksAssumption DEF ScanReap
  <2>6. UNCHANGED <<m_pCurrent, event, sleep, pc, waitOn, clock, halt>>
    BY <1>2 DEF ScanReap
  <2> QED
    BY <2>2, <2>3, <2>4, <2>5, <2>6 DEF TypeOK, event, sleep
<1>3. CASE ScanIdle
  BY <1>3, TasksAssumption DEF TypeOK, ScanIdle, table, event, sleep
<1> QED
  BY <1>1, <1>2, <1>3 DEF Scan

LEMMA NextType == TypeOK /\ [Next]_vars => TypeOK'
<1> SUFFICES ASSUME TypeOK, [Next]_vars PROVE TypeOK'
  OBVIOUS
<1>1. ASSUME NEW t \in Tasks, Call(t) PROVE TypeOK'
  BY <1>1, CallType
<1>2. ASSUME NEW t \in Tasks, Continue(t) PROVE TypeOK'
  BY <1>2, ContinueType
<1>3. CASE Scan
  BY <1>3, ScanType
<1>4. ASSUME NEW e \in IsrEvents, IsrSet(e) PROVE TypeOK'
  <2>1. e \in Events /\ state \in [Tasks -> States]
    BY TasksAssumption DEF Events, TypeOK
  <2> QED
    BY <1>4, <2>1, SetType DEF TypeOK, IsrSet, table, sched, sleep
<1>5. CASE ClockTick
  <2>1. clock' \in 0 .. ClockMod - 1
    BY <1>5, ClockAssumption DEF TypeOK, ClockTick
  <2>2. due' \in [Tasks -> -MaxLate .. ClockMod - 1]
    BY <1>5, ClockAssumption DEF TypeOK, ClockTick
  <2> QED
    BY <1>5, <2>1, <2>2 DEF TypeOK, ClockTick, table, sched, event
<1>6. CASE UNCHANGED vars
  BY <1>6 DEF TypeOK, vars, table, sched, event, sleep
<1> QED
  BY <1>1, <1>2, <1>3, <1>4, <1>5, <1>6 DEF Next, Halted

\* Every variable keeps its type, in particular the table never outgrows
\* MAX_TASKS (AddTask panics first) and the scan only reads slots in use.
THEOREM TypeCorrect == Spec => []TypeOK
BY InitType, NextType, PTL DEF Spec

-----------------------------------------------------------------------------
(* The slot table and the running task.  SlotsExact and CurrentExact        *)
(* support one another: a task that stops being Ready must be in the table  *)
(* and must be the running one, and a slot is only reused while it is null. *)

\* Every task but the running one is suspended inside Yield.
OthersSuspended == \A t \in Tasks : pc[t] # "yield" => t = m_pCurrent

TableInv == TypeOK /\ SlotsExact /\ CurrentExact /\ OthersSuspended

LEMMA SetKeepsLive ==
  ASSUME TypeOK, NEW e \in Events, NEW st \in [Tasks -> States], Set(e, st), NEW t \in Tasks
  PROVE  \/ state'[t] = st[t]
         \/ st[t] = "Blocked" /\ state'[t] = "Ready" /\ pWaitTask[e] = t
<1>1. CASE bState[e] \/ pWaitTask[e] = Null
  BY <1>1 DEF Set
<1>2. CASE ~(bState[e] \/ pWaitTask[e] = Null)
  <2>1. pWaitTask[e] \in Tasks
    BY <1>2 DEF TypeOK
  <2> QED
    BY <1>2, <2>1 DEF Set, WakeTask
<1> QED
  BY <1>1, <1>2

\* A step that leaves the table alone and neither creates nor deletes a task.
LEMMA SlotsKept ==
  ASSUME TypeOK, SlotsExact, halt # "limit", UNCHANGED table,
         \A t \in Tasks : Live(t)' <=> Live(t)
  PROVE  SlotsExact'
<1>1. \A i \in 0 .. m_nTasks - 1 : m_pTask[i] \in Tasks \cup {Null}
  BY TasksAssumption DEF TypeOK, Slots
<1> QED
  BY <1>1 DEF SlotsExact, table

LEMMA AddTaskSlots ==
  ASSUME TableInv, halt = "no", NEW t \in Tasks, NEW u \in Tasks, CreateTask(t, u)
  PROVE  TableInv'
<1>1. TypeOK'
  BY CallType DEF TableInv, Call
<1>2. /\ m_pTask \in [Slots -> Tasks \cup {Null}] /\ m_nTasks \in Nat /\ MaxTasks \in Nat
      /\ m_nTasks <= MaxTasks /\ Slots = 0 .. MaxTasks - 1 /\ Null \notin Tasks
      /\ m_nCurrent \in Nat
  BY TasksAssumption DEF TableInv, TypeOK, Slots
<1>3. /\ m_pCurrent = t /\ state[t] = "Ready" /\ state[u] = "Unknown" /\ t # u
      /\ m_nCurrent < m_nTasks /\ m_pTask[m_nCurrent] = t
  BY DEF TableInv, CurrentExact, CreateTask, Running, At, InYield, Live
<1>4. /\ state' = [state EXCEPT ![u] = "Ready"] /\ pc' = [pc EXCEPT ![u] = "yield"]
      /\ UNCHANGED sched
  BY DEF CreateTask, NewTask
<1>5. \A v \in Tasks : Live(v)' <=> Live(v) \/ v = u
  BY <1>3, <1>4 DEF Live, TableInv, TypeOK
<1>6. \A i \in 0 .. m_nTasks - 1 : m_pTask[i] # u
  BY <1>2, <1>3 DEF TableInv, SlotsExact, Live
<1>7. OthersSuspended'
  BY <1>4 DEF TableInv, OthersSuspended, TypeOK, sched
<1>8. ASSUME NEW i \in FreeSlots, m_pTask' = [m_pTask EXCEPT ![i] = u], UNCHANGED <<m_nTasks, halt>>
      PROVE  SlotsExact' /\ CurrentExact'
  <2>1. i \in 0 .. m_nTasks - 1 /\ i \in Slots /\ m_pTask[i] = Null
    BY <1>2 DEF FreeSlots
  <2>2. \A j \in 0 .. m_nTasks - 1 : j \in Slots /\ m_pTask'[j] = IF j = i THEN u ELSE m_pTask[j]
    BY <1>2, <1>8
  <2>3. SlotsExact'
    <3>1. \A j \in 0 .. m_nTasks - 1 : m_pTask'[j] # Null => state'[m_pTask'[j]] # "Unknown"
      BY <1>2, <1>5, <2>1, <2>2 DEF TableInv, SlotsExact, Live
    <3>2. ASSUME NEW v \in Tasks, Live(v)' PROVE \E j \in 0 .. m_nTasks - 1 : m_pTask'[j] = v
      <4>1. CASE v = u
        BY <2>1, <2>2, <4>1
      <4>2. CASE v # u
        <5>1. PICK j \in 0 .. m_nTasks - 1 : m_pTask[j] = v
          BY <1>5, <3>2, <4>2 DEF TableInv, SlotsExact
        <5> QED
          BY <1>2, <2>1, <2>2, <5>1
      <4> QED
        BY <4>1, <4>2
    <3>3. \A j, k \in 0 .. m_nTasks - 1 :
            m_pTask'[j] = m_pTask'[k] /\ m_pTask'[j] # Null => j = k
      BY <1>2, <1>6, <2>1, <2>2 DEF TableInv, SlotsExact
    <3> QED
      BY <1>8, <3>1, <3>2, <3>3 DEF SlotsExact, Live
  <2>4. m_pTask'[m_nCurrent] = t
    BY <1>2, <1>3, <2>1, <2>2
  <2> QED
    BY <1>2, <1>3, <1>4, <1>8, <2>3, <2>4 DEF CurrentExact, TableInv, TypeOK, sched
<1>9. ASSUME m_nTasks < MaxTasks, m_pTask' = [m_pTask EXCEPT ![m_nTasks] = u],
             m_nTasks' = m_nTasks + 1, UNCHANGED halt
      PROVE  SlotsExact' /\ CurrentExact'
  <2>1. \A j \in 0 .. m_nTasks : j \in Slots /\ m_pTask'[j] = IF j = m_nTasks THEN u ELSE m_pTask[j]
    BY <1>2, <1>9
  <2>2. SlotsExact'
    <3>1. \A j \in 0 .. m_nTasks : m_pTask'[j] # Null => state'[m_pTask'[j]] # "Unknown"
      BY <1>2, <1>5, <2>1 DEF TableInv, SlotsExact, Live
    <3>2. ASSUME NEW v \in Tasks, Live(v)' PROVE \E j \in 0 .. m_nTasks : m_pTask'[j] = v
      <4>1. CASE v = u
        BY <1>2, <2>1, <4>1
      <4>2. CASE v # u
        <5>1. PICK j \in 0 .. m_nTasks - 1 : m_pTask[j] = v
          BY <1>5, <3>2, <4>2 DEF TableInv, SlotsExact
        <5> QED
          BY <1>2, <2>1, <5>1
      <4> QED
        BY <4>1, <4>2
    <3>3. \A j, k \in 0 .. m_nTasks :
            m_pTask'[j] = m_pTask'[k] /\ m_pTask'[j] # Null => j = k
      BY <1>2, <1>6, <2>1 DEF TableInv, SlotsExact
    <3>4. m_nTasks' - 1 = m_nTasks
      BY <1>2, <1>9
    <3> QED
      BY <3>1, <3>2, <3>3, <3>4 DEF SlotsExact, Live
  <2>3. m_pTask'[m_nCurrent] = t
    BY <1>2, <1>3, <2>1
  <2>4. m_nCurrent < m_nTasks'
    BY <1>2, <1>3, <1>9
  <2>5. state'[t] = "Ready"
    BY <1>3, <1>4 DEF TableInv, TypeOK
  <2>6. m_pCurrent' = t /\ m_nCurrent' = m_nCurrent
    BY <1>3, <1>4 DEF sched
  <2> QED
    BY <2>2, <2>3, <2>4, <2>5, <2>6 DEF CurrentExact
<1>10. CASE halt' = "limit"
  BY <1>1, <1>7, <1>10 DEF TableInv, SlotsExact, CurrentExact
<1> QED
  BY <1>1, <1>7, <1>8, <1>9, <1>10 DEF TableInv, CreateTask, AddTask

\* A step of the running task in which it keeps running or enters Yield, and in
\* which no task other than it and those that were blocked changes its state.
LEMMA RunningStep ==
  ASSUME TableInv, halt = "no", TypeOK', UNCHANGED <<table, sched>>, ~InYield, OthersSuspended',
         \A t \in Tasks : Live(t)' <=> Live(t),
         pc'[m_pCurrent] = "yield" \/ state'[m_pCurrent] = "Ready"
  PROVE  TableInv'
<1>1. SlotsExact'
  BY SlotsKept DEF TableInv
<1>2. CurrentExact'
  BY DEF CurrentExact, InYield, TableInv, table, sched
<1> QED
  BY <1>1, <1>2 DEF TableInv

LEMMA CallTable ==
  ASSUME TableInv, halt = "no", NEW t \in Tasks, Call(t)
  PROVE  TableInv'
<1> USE DEF Running, At
<1>1. TypeOK'
  BY CallType DEF TableInv
<1>2. ASSUME m_pCurrent = t, pc[t] = "run"
      PROVE  ~InYield /\ state[t] = "Ready" /\ Live(t)
  BY <1>2 DEF TableInv, CurrentExact, InYield, Live
<1>3. ASSUME NEW u \in Tasks, CreateTask(t, u) PROVE TableInv'
  BY <1>3, AddTaskSlots
<1>4. ASSUME NEW e \in Shared, TaskSet(t, e) PROVE TableInv'
  <2>1. e \in Events /\ state \in [Tasks -> States]
    BY DEF Events, TableInv, TypeOK
  <2>2. \A v \in Tasks : state'[v] = state[v] \/ (state[v] = "Blocked" /\ state'[v] = "Ready")
    BY <1>4, <2>1, SetKeepsLive DEF TaskSet, TableInv
  <2> QED
    BY <1>1, <1>2, <1>4, <2>2, RunningStep DEF TaskSet, Live, OthersSuspended, TableInv, table, sched
<1>5. ASSUME NEW e \in Shared, Clear(t, e) PROVE TableInv'
  BY <1>1, <1>2, <1>5, RunningStep DEF Clear, Live, OthersSuspended, TableInv, table, sched
<1>6. ASSUME NEW e \in Events, Wait(t, e) PROVE TableInv'
  <2>1. OthersSuspended'
    BY <1>6 DEF Wait, OthersSuspended, TableInv, TypeOK, sched
  <2> QED
    BY <1>1, <1>2, <1>6, <2>1, RunningStep DEF Wait, Live, table, sched
<1>7. ASSUME Running(t), NEW n, usSleep(t, n), UNCHANGED <<table, sched>> PROVE TableInv'
  <2>1. OthersSuspended'
    BY <1>7 DEF usSleep, OthersSuspended, TableInv, TypeOK, sched
  <2>2. pc'[t] = "yield" /\ \A v \in Tasks : Live(v)' <=> Live(v)
    BY <1>2, <1>7 DEF usSleep, Live, TableInv, TypeOK
  <2> QED
    BY <1>1, <1>2, <1>7, <2>1, <2>2, RunningStep
<1>8. ASSUME Terminate(t) PROVE TableInv'
  <2> DEFINE st == [state EXCEPT ![t] = "Terminated"]
  <2>1. t \in Events /\ st \in [Tasks -> States]
    BY DEF Events, TableInv, TypeOK, States
  <2>2. \A v \in Tasks : state'[v] = st[v] \/ (st[v] = "Blocked" /\ state'[v] = "Ready")
    BY <1>8, <2>1, SetKeepsLive DEF Terminate, TableInv
  <2>3. \A v \in Tasks : Live(v)' <=> Live(v)
    BY <1>2, <1>8, <2>1, <2>2 DEF Live, TableInv, TypeOK, Terminate
  <2>4. OthersSuspended' /\ pc'[t] = "yield"
    BY <1>8 DEF Terminate, OthersSuspended, TableInv, TypeOK, sched
  <2> QED
    BY <1>1, <1>2, <1>8, <2>3, <2>4, RunningStep DEF Terminate, table, sched
<1>9. ASSUME Yield(t) PROVE TableInv'
  <2>1. OthersSuspended' /\ pc'[t] = "yield"
    BY <1>9 DEF Yield, OthersSuspended, TableInv, TypeOK, sched
  <2> QED
    BY <1>1, <1>2, <1>9, <2>1, RunningStep DEF Yield, Live, table, sched
<1>10. ASSUME NEW n \in SleepTicks, Sleep(t, n) PROVE TableInv'
  BY <1>7, <1>10 DEF Sleep, SleepChunk, table, sched
<1>11. ASSUME NEW n \in MsSleepTicks, MsSleep(t, n) PROVE TableInv'
  BY <1>7, <1>11 DEF MsSleep, table, sched
<1> QED
  BY <1>3, <1>4, <1>5, <1>6, <1>8, <1>9, <1>10, <1>11 DEF Call

LEMMA ContinueTable ==
  ASSUME TableInv, halt = "no", NEW t \in Tasks, Continue(t)
  PROVE  TableInv'
<1>1. TypeOK'
  BY ContinueType DEF TableInv
<1>2. m_pCurrent = t /\ pc[t] # "yield"
  BY DEF At, Continue, WaitAssert, BlockStore, BlockState, WaitReturn, SleepAgain
<1>3. ~InYield /\ state[t] = "Ready" /\ Live(t)
  BY <1>2 DEF TableInv, CurrentExact, InYield, Live
<1>4. UNCHANGED <<table, sched>>
  BY DEF At, Continue, WaitAssert, BlockStore, BlockState, WaitReturn, SleepAgain, SleepChunk
<1>5. \A v \in Tasks \ {t} : state'[v] = state[v] /\ pc'[v] = pc[v]
  BY DEF At, Continue, WaitAssert, BlockStore, BlockState, WaitReturn, SleepAgain, SleepChunk, usSleep,
         TableInv, TypeOK
<1>6. state'[t] = "Ready" \/ (state'[t] \in {"Blocked", "Sleeping"} /\ pc'[t] = "yield")
  BY <1>3 DEF At, Continue, WaitAssert, BlockStore, BlockState, WaitReturn, SleepAgain, SleepChunk, usSleep,
         TableInv, TypeOK
<1>7. \A v \in Tasks : Live(v)' <=> Live(v)
  BY <1>3, <1>5, <1>6 DEF Live
<1>8. OthersSuspended'
  BY <1>2, <1>4, <1>5 DEF OthersSuspended, TableInv, sched
<1> QED
  BY <1>1, <1>2, <1>3, <1>4, <1>6, <1>7, <1>8, RunningStep

LEMMA ScanTable ==
  ASSUME TableInv, halt = "no", Scan
  PROVE  TableInv'
<1>1. TypeOK'
  BY ScanType DEF TableInv
<1>2. InYield /\ \A t \in Tasks : pc[t] = "yield"
  BY DEF Scan, ScanSwitch, ScanReap, ScanIdle, InYield, TableInv, OthersSuspended
<1>3. CASE ScanSwitch
  <2>1. PICK i \in 1 .. m_nTasks :
          LET n == m_pTask[Visit(i)] IN
          /\ FirstStop(i)
          /\ CanRun(n)
          /\ m_nCurrent' = Visit(i)
          /\ m_pCurrent' = n
          /\ state' = [state EXCEPT ![n] = "Ready"]
          /\ pc' = [pc EXCEPT ![n] = Resumption(n)]
    BY <1>3 DEF ScanSwitch
  <2> DEFINE n == m_pTask[Visit(i)]
  <2>2. Visit(i) \in Slots /\ Visit(i) \in 0 .. m_nTasks - 1
    BY VisitInTable DEF TableInv
  <2>3. n \in Tasks
    BY <2>1, <2>2 DEF TableInv, TypeOK, FirstStop, StopsAt
  <2>4. \A t \in Tasks : Live(t)' <=> Live(t)
    BY <2>1, <2>3 DEF Live, CanRun, TableInv, TypeOK
  <2>5. SlotsExact'
    BY <1>3, <2>4, SlotsKept DEF TableInv, ScanSwitch
  <2>6. CurrentExact'
    <3>1. state'[n] = "Ready" /\ m_pCurrent' = n
      BY <2>1, <2>3 DEF TableInv, TypeOK
    <3>2. m_nCurrent' < m_nTasks' /\ m_pTask'[m_nCurrent'] = n
      BY <1>3, <2>1, <2>2 DEF ScanSwitch, table, TableInv, TypeOK
    <3> QED
      BY <3>1, <3>2 DEF CurrentExact
  <2>7. OthersSuspended'
    BY <1>2, <2>1, <2>3 DEF OthersSuspended, TableInv, TypeOK
  <2> QED
    BY <1>1, <2>5, <2>6, <2>7 DEF TableInv
<1>4. CASE ScanReap
  <2>1. PICK i \in 1 .. m_nTasks :
          /\ FirstStop(i)
          /\ RemoveTask(Visit(i))
          /\ state' = [state EXCEPT ![m_pTask[Visit(i)]] = "Unknown"]
    BY <1>4 DEF ScanReap
  <2> DEFINE k == Visit(i)
             n == m_pTask[k]
  <2>2. k \in Slots /\ k \in 0 .. m_nTasks - 1 /\ m_nTasks \in Nat
    BY VisitInTable, TasksAssumption DEF TableInv, TypeOK
  <2>3. n \in Tasks
    BY <2>1, <2>2 DEF TableInv, TypeOK, FirstStop, StopsAt
  <2>4. \A t \in Tasks : Live(t)' <=> Live(t) /\ t # n
    BY <2>1, <2>3 DEF Live, TableInv, TypeOK
  <2>5. \A j \in 0 .. (m_nTasks' - 1) : j \in 0 .. m_nTasks - 1
    <3>1. m_nTasks' = m_nTasks \/ m_nTasks' = m_nTasks - 1
      BY <2>1 DEF RemoveTask
    <3>2. CASE m_nTasks' = m_nTasks
      BY <3>2
    <3>3. CASE m_nTasks' = m_nTasks - 1
      BY <2>2, <3>3
    <3> QED
      BY <3>1, <3>2, <3>3
  <2>6. \A j \in 0 .. m_nTasks - 1 : m_pTask'[j] = IF j = k THEN Null ELSE m_pTask[j]
    BY <2>1, <2>2, TasksAssumption DEF RemoveTask, TableInv, TypeOK, Slots
  <2>7. \A j \in 0 .. m_nTasks - 1 : m_pTask[j] = n => j = k
    BY <2>2, <2>3, TasksAssumption DEF TableInv, SlotsExact
  <2>8. SlotsExact'
    <3>1. ASSUME NEW j, j \in 0 .. (m_nTasks' - 1), m_pTask'[j] # Null
          PROVE  state'[m_pTask'[j]] # "Unknown"
      <4>0. j \in 0 .. m_nTasks - 1
        BY <2>5, <3>1
      <4>1. j \in Slots /\ j # k /\ m_pTask'[j] = m_pTask[j]
        BY <2>6, <3>1, <4>0, TasksAssumption DEF Slots, TableInv, TypeOK
      <4>2. m_pTask[j] \in Tasks /\ Live(m_pTask[j]) /\ m_pTask[j] # n
        BY <2>7, <3>1, <4>0, <4>1 DEF TableInv, TypeOK, SlotsExact
      <4> QED
        BY <2>1, <2>3, <4>1, <4>2 DEF Live, TableInv, TypeOK
    <3>2. ASSUME NEW v \in Tasks, Live(v)' PROVE \E j \in 0 .. (m_nTasks' - 1) : m_pTask'[j] = v
      <4>1. PICK j \in 0 .. m_nTasks - 1 : m_pTask[j] = v
        BY <2>4, <3>2 DEF TableInv, SlotsExact
      <4>2. j # k
        BY <2>4, <3>2, <4>1
      <4>3. j \in 0 .. (m_nTasks' - 1)
        BY <2>1, <2>2, <4>1, <4>2 DEF RemoveTask
      <4> QED
        BY <2>6, <4>1, <4>2, <4>3
    <3>3. ASSUME NEW j, NEW l, j \in 0 .. (m_nTasks' - 1), l \in 0 .. (m_nTasks' - 1),
                 m_pTask'[j] = m_pTask'[l], m_pTask'[j] # Null
          PROVE  j = l
      <4>1. j \in 0 .. m_nTasks - 1 /\ l \in 0 .. m_nTasks - 1
        BY <2>5, <3>3
      <4>2. m_pTask'[j] = m_pTask[j] /\ m_pTask'[l] = m_pTask[l]
        BY <2>6, <3>3, <4>1
      <4> QED
        BY <3>3, <4>1, <4>2 DEF TableInv, SlotsExact
    <3> QED
      BY <3>1, <3>2, <3>3 DEF SlotsExact, Live
  <2>9. CurrentExact'
    BY <1>2, <1>4 DEF CurrentExact, InYield, ScanReap
  <2>10. OthersSuspended'
    BY <1>2, <1>4 DEF OthersSuspended, ScanReap
  <2> QED
    BY <1>1, <2>8, <2>9, <2>10 DEF TableInv
<1>5. CASE ScanIdle
  <2>1. SlotsExact'
    BY <1>5, SlotsKept DEF TableInv, ScanIdle, Live
  <2>2. CurrentExact' /\ OthersSuspended'
    BY <1>2, <1>5 DEF CurrentExact, InYield, OthersSuspended, ScanIdle
  <2> QED
    BY <1>1, <2>1, <2>2 DEF TableInv
<1> QED
  BY <1>3, <1>4, <1>5 DEF Scan

LEMMA NextTable == TableInv /\ [Next]_vars => TableInv'
<1> SUFFICES ASSUME TableInv, [Next]_vars PROVE TableInv'
  OBVIOUS
<1>1. TypeOK'
  BY NextType DEF TableInv
<1>2. ASSUME NEW t \in Tasks, Call(t) PROVE TableInv'
  BY <1>2, CallTable, StepsRun
<1>3. ASSUME NEW t \in Tasks, Continue(t) PROVE TableInv'
  BY <1>3, ContinueTable, StepsRun
<1>4. CASE Scan
  BY <1>4, ScanTable, StepsRun
<1>5. ASSUME NEW e \in IsrEvents, IsrSet(e) PROVE TableInv'
  <2>1. e \in Events /\ state \in [Tasks -> States]
    BY TasksAssumption DEF Events, TableInv, TypeOK
  <2>2. \A v \in Tasks : state'[v] = state[v] \/ (state[v] = "Blocked" /\ state'[v] = "Ready")
    BY <1>5, <2>1, SetKeepsLive DEF IsrSet, TableInv
  <2>3. SlotsExact'
    BY <1>5, <2>2, SlotsKept DEF IsrSet, Live, TableInv
  <2>4. CurrentExact' /\ OthersSuspended'
    BY <1>5, <2>2 DEF CurrentExact, InYield, OthersSuspended, IsrSet, TableInv, TypeOK, table, sched
  <2> QED
    BY <1>1, <2>3, <2>4 DEF TableInv
<1>6. CASE ClockTick
  <2>1. SlotsExact'
    BY <1>6, SlotsKept DEF ClockTick, Live, TableInv
  <2>2. CurrentExact' /\ OthersSuspended'
    BY <1>6 DEF CurrentExact, InYield, OthersSuspended, ClockTick, TableInv, table, sched
  <2> QED
    BY <1>1, <2>1, <2>2 DEF TableInv
<1>7. CASE UNCHANGED vars
  BY <1>1, <1>7 DEF TableInv, SlotsExact, CurrentExact, InYield, OthersSuspended, Live, vars, table, sched
<1> QED
  BY <1>2, <1>3, <1>4, <1>5, <1>6, <1>7 DEF Next, Halted

LEMMA InitTable == Init => TableInv
BY InitType, TasksAssumption
DEF Init, TableInv, SlotsExact, CurrentExact, InYield, OthersSuspended, Live, Slots

\* Through every creation, reuse and deletion, and whatever interrupts do, the
\* slot table holds exactly the live tasks, each once.
THEOREM SlotsAreExact == Spec => []SlotsExact
<1>1. TableInv => SlotsExact
  BY DEF TableInv
<1> QED
  BY <1>1, InitTable, NextTable, PTL DEF Spec

\* The running task is alive and m_nCurrent is its slot, so that a task that
\* blocks, sleeps or terminates is one of the table and the scan starts behind it.
THEOREM CurrentIsExact == Spec => []CurrentExact
<1>1. TableInv => CurrentExact
  BY DEF TableInv
<1> QED
  BY <1>1, InitTable, NextTable, PTL DEF Spec

-----------------------------------------------------------------------------
(* Events and their waiters, whatever interrupts do.                        *)

LEMMA NotRegistered ==
  ASSUME TypeOK, WaiterExact, NEW v \in Tasks, state[v] # "Blocked", pc[v] # "block"
  PROVE  \A e \in Events : pWaitTask[e] # v
BY TasksAssumption DEF WaiterExact

\* A step that changes one task, which is no event's waiter, and adds no waiter.
LEMMA WaiterKept ==
  ASSUME TypeOK, WaiterExact, NEW v \in Tasks, \A e \in Events : pWaitTask[e] # v,
         \A w \in Tasks \ {v} : state'[w] = state[w] /\ pc'[w] = pc[w] /\ waitOn'[w] = waitOn[w],
         \A e \in Events : pWaitTask'[e] \in {pWaitTask[e], Null}
  PROVE  WaiterExact'
<1> SUFFICES ASSUME NEW e \in Events, pWaitTask'[e] # Null
             PROVE  /\ waitOn'[pWaitTask'[e]] = e
                    /\ state'[pWaitTask'[e]] = "Blocked" \/ pc'[pWaitTask'[e]] = "block"
  BY DEF WaiterExact
<1>1. pWaitTask'[e] = pWaitTask[e] /\ pWaitTask[e] \in Tasks \ {v}
  BY DEF TypeOK
<1> QED
  BY <1>1 DEF WaiterExact

LEMMA SetWaiter ==
  ASSUME TypeOK, WaiterExact, NEW e \in Events, NEW st \in [Tasks -> States], Set(e, st),
         \A w \in Tasks : state[w] = "Blocked" => st[w] = "Blocked",
         \A w \in Tasks : pc[w] = "block" => pc'[w] = "block",
         UNCHANGED waitOn
  PROVE  WaiterExact'
<1> SUFFICES ASSUME NEW f \in Events, pWaitTask'[f] # Null
             PROVE  /\ waitOn'[pWaitTask'[f]] = f
                    /\ state'[pWaitTask'[f]] = "Blocked" \/ pc'[pWaitTask'[f]] = "block"
  BY DEF WaiterExact
<1>1. pWaitTask'[f] = pWaitTask[f] /\ pWaitTask[f] \in Tasks
  BY DEF Set, WakeTask, TypeOK
<1>2. /\ waitOn[pWaitTask[f]] = f
      /\ state[pWaitTask[f]] = "Blocked" \/ pc[pWaitTask[f]] = "block"
  BY <1>1 DEF WaiterExact
<1>3. CASE bState[e] \/ pWaitTask[e] = Null
  BY <1>1, <1>2, <1>3 DEF Set
<1>4. CASE ~(bState[e] \/ pWaitTask[e] = Null)
  <2>1. f # e
    BY <1>1, <1>4 DEF Set, WakeTask, TypeOK
  <2>2. pWaitTask[e] \in Tasks /\ waitOn[pWaitTask[e]] = e
    BY <1>4 DEF TypeOK, WaiterExact
  <2>3. state'[pWaitTask[f]] = st[pWaitTask[f]]
    BY <1>1, <1>2, <1>4, <2>1, <2>2 DEF Set, WakeTask
  <2> QED
    BY <1>1, <1>2, <2>3
<1> QED
  BY <1>3, <1>4

LEMMA CallWaiter ==
  ASSUME TableInv, WaiterExact, halt = "no", NEW t \in Tasks, Call(t)
  PROVE  WaiterExact'
<1> USE DEF TableInv
<1>1. m_pCurrent = t /\ pc[t] = "run"
  BY DEF Call, CreateTask, TaskSet, Clear, Wait, Sleep, MsSleep, Terminate, Yield, Running, At
<1>2. state[t] = "Ready" /\ \A e \in Events : pWaitTask[e] # t
  BY <1>1, NotRegistered DEF CurrentExact, InYield
<1>3. ASSUME NEW u \in Tasks, CreateTask(t, u) PROVE WaiterExact'
  <2>1. state[u] = "Unknown" /\ pc[u] # "block"
    BY <1>1, <1>2, <1>3 DEF CreateTask, Live, OthersSuspended
  <2>2. \A e \in Events : pWaitTask[e] # u
    BY <2>1, NotRegistered
  <2>3. \A w \in Tasks \ {u} : state'[w] = state[w] /\ pc'[w] = pc[w] /\ waitOn'[w] = waitOn[w]
    BY <1>3 DEF CreateTask, NewTask, TypeOK
  <2>4. \A e \in Events : pWaitTask'[e] \in {pWaitTask[e], Null}
    BY <1>3 DEF CreateTask, NewTask, TypeOK
  <2> QED
    BY <2>2, <2>3, <2>4, WaiterKept
<1>4. ASSUME NEW e \in Shared, TaskSet(t, e) PROVE WaiterExact'
  <2>1. e \in Events /\ state \in [Tasks -> States]
    BY DEF Events, TypeOK
  <2> QED
    BY <1>4, <2>1, SetWaiter DEF TaskSet
<1>5. ASSUME Terminate(t) PROVE WaiterExact'
  <2>1. t \in Events /\ [state EXCEPT ![t] = "Terminated"] \in [Tasks -> States]
    BY DEF Events, TypeOK, States
  <2>2. \A w \in Tasks : state[w] = "Blocked" => [state EXCEPT ![t] = "Terminated"][w] = "Blocked"
    BY <1>2 DEF TypeOK
  <2>3. \A w \in Tasks : pc[w] = "block" => pc'[w] = "block"
    BY <1>1, <1>5 DEF Terminate, TypeOK
  <2> QED
    BY <1>5, <2>1, <2>2, <2>3, SetWaiter DEF Terminate
<1>6. ASSUME ~(\E u \in Tasks : CreateTask(t, u)), ~(\E e \in Shared : TaskSet(t, e)), ~Terminate(t)
      PROVE  WaiterExact'
  <2>1. \A w \in Tasks \ {t} : state'[w] = state[w] /\ pc'[w] = pc[w] /\ waitOn'[w] = waitOn[w]
    BY <1>6 DEF Call, Clear, Wait, Sleep, SleepChunk, MsSleep, usSleep, Yield, TypeOK
  <2>2. UNCHANGED pWaitTask
    BY <1>6 DEF Call, Clear, Wait, Sleep, SleepChunk, MsSleep, usSleep, Yield, event
  <2> QED
    BY <1>2, <2>1, <2>2, WaiterKept
<1> QED
  BY <1>3, <1>4, <1>5, <1>6

LEMMA ContinueWaiter ==
  ASSUME TableInv, WaiterExact, halt = "no", NEW t \in Tasks, Continue(t)
  PROVE  WaiterExact'
<1> USE DEF TableInv
<1>1. m_pCurrent = t /\ pc[t] # "yield"
  BY DEF At, Continue, WaitAssert, BlockStore, BlockState, WaitReturn, SleepAgain
<1>2. state[t] = "Ready"
  BY <1>1 DEF CurrentExact, InYield
<1>3. CASE BlockStore(t)
  <2>1. \A e \in Events : pWaitTask[e] # t
    BY <1>2, <1>3, NotRegistered DEF At, BlockStore
  <2>2. pc' = [pc EXCEPT ![t] = "block"] /\ UNCHANGED <<state, waitOn>>
    BY <1>3 DEF At, BlockStore
  <2>3. \A e \in Events : pWaitTask'[e] = IF e = waitOn[t] THEN t ELSE pWaitTask[e]
    BY <1>3 DEF At, BlockStore, TypeOK
  <2> QED
    BY <2>1, <2>2, <2>3 DEF WaiterExact, TypeOK
<1>4. CASE BlockState(t)
  <2>1. UNCHANGED <<pWaitTask, waitOn>> /\ state' = [state EXCEPT ![t] = "Blocked"]
    BY <1>4 DEF At, BlockState, event
  <2>2. \A w \in Tasks \ {t} : pc'[w] = pc[w]
    BY <1>4 DEF At, BlockState, TypeOK
  <2> QED
    BY <2>1, <2>2 DEF WaiterExact, TypeOK
<1>5. ASSUME ~BlockStore(t), ~BlockState(t) PROVE WaiterExact'
  <2>1. \A e \in Events : pWaitTask[e] # t
    BY <1>2, <1>5, NotRegistered DEF At, Continue, WaitAssert, WaitReturn, SleepAgain
  <2>2. \A w \in Tasks \ {t} : state'[w] = state[w] /\ pc'[w] = pc[w] /\ waitOn'[w] = waitOn[w]
    BY <1>5 DEF At, Continue, WaitAssert, WaitReturn, SleepAgain, SleepChunk, usSleep, TypeOK
  <2>3. UNCHANGED pWaitTask
    BY <1>5 DEF At, Continue, WaitAssert, WaitReturn, SleepAgain, SleepChunk, event
  <2> QED
    BY <2>1, <2>2, <2>3, WaiterKept
<1> QED
  BY <1>3, <1>4, <1>5

LEMMA ScanWaiter ==
  ASSUME TableInv, WaiterExact, halt = "no", Scan
  PROVE  WaiterExact'
<1> USE DEF TableInv
<1>1. \A t \in Tasks : pc[t] = "yield"
  BY DEF Scan, ScanSwitch, ScanReap, ScanIdle, InYield, OthersSuspended
<1>2. CASE ScanSwitch
  <2>1. PICK i \in 1 .. m_nTasks :
          LET n == m_pTask[Visit(i)] IN
          /\ FirstStop(i)
          /\ CanRun(n)
          /\ state' = [state EXCEPT ![n] = "Ready"]
          /\ pc' = [pc EXCEPT ![n] = Resumption(n)]
    BY <1>2 DEF ScanSwitch
  <2> DEFINE n == m_pTask[Visit(i)]
  <2>2. n \in Tasks
    BY <2>1, VisitInTable DEF TypeOK, FirstStop, StopsAt
  <2>3. \A e \in Events : pWaitTask[e] # n
    BY <1>1, <2>1, <2>2, NotRegistered DEF CanRun
  <2>4. UNCHANGED <<pWaitTask, waitOn>>
    BY <1>2 DEF ScanSwitch, event
  <2>5. \A w \in Tasks \ {n} : state'[w] = state[w] /\ pc'[w] = pc[w]
    BY <2>1 DEF TypeOK
  <2> QED
    BY <2>2, <2>3, <2>4, <2>5, WaiterKept
<1>3. CASE ScanReap
  <2>1. PICK i \in 1 .. m_nTasks :
          LET n == m_pTask[Visit(i)] IN
          /\ FirstStop(i)
          /\ state[n] = "Terminated"
          /\ state' = [state EXCEPT ![n] = "Unknown"]
    BY <1>3 DEF ScanReap
  <2> DEFINE n == m_pTask[Visit(i)]
  <2>2. n \in Tasks
    BY <2>1, VisitInTable DEF TypeOK, FirstStop, StopsAt
  <2>3. \A e \in Events : pWaitTask[e] # n
    BY <1>1, <2>1, <2>2, NotRegistered
  <2>4. UNCHANGED <<pWaitTask, waitOn, pc>>
    BY <1>3 DEF ScanReap, event
  <2>5. \A w \in Tasks \ {n} : state'[w] = state[w]
    BY <2>1 DEF TypeOK
  <2> QED
    BY <2>2, <2>3, <2>4, <2>5, WaiterKept
<1>4. CASE ScanIdle
  BY <1>4 DEF ScanIdle, event, WaiterExact
<1> QED
  BY <1>2, <1>3, <1>4 DEF Scan

LEMMA NextWaiter == TableInv /\ WaiterExact /\ [Next]_vars => WaiterExact'
<1> SUFFICES ASSUME TableInv, WaiterExact, [Next]_vars PROVE WaiterExact'
  OBVIOUS
<1>1. ASSUME NEW t \in Tasks, Call(t) PROVE WaiterExact'
  BY <1>1, CallWaiter, StepsRun
<1>2. ASSUME NEW t \in Tasks, Continue(t) PROVE WaiterExact'
  BY <1>2, ContinueWaiter, StepsRun
<1>3. CASE Scan
  BY <1>3, ScanWaiter, StepsRun
<1>4. ASSUME NEW e \in IsrEvents, IsrSet(e) PROVE WaiterExact'
  <2>1. e \in Events /\ state \in [Tasks -> States]
    BY TasksAssumption DEF Events, TableInv, TypeOK
  <2> QED
    BY <1>4, <2>1, SetWaiter DEF IsrSet, TableInv
<1>5. CASE ClockTick
  BY <1>5 DEF ClockTick, event, WaiterExact
<1>6. CASE UNCHANGED vars
  BY <1>6 DEF vars, event, WaiterExact
<1> QED
  BY <1>1, <1>2, <1>3, <1>4, <1>5, <1>6 DEF Next, Halted

LEMMA InitWaiter == Init => WaiterExact
BY DEF Init, WaiterExact

\* m_pWaitTask of an event always points to a task that is blocking on this
\* event, also with interrupts setting events and with task memory reused.
THEOREM WaitersAreExact == Spec => []WaiterExact
BY InitTable, InitWaiter, NextTable, NextWaiter, PTL DEF Spec

-----------------------------------------------------------------------------
(* Waiting under the protocol of events that only tasks set: one task waits *)
(* on an event, and it is the only one to clear it.  Excluded are Set from  *)
(* interrupts and waiting for a termination, since the violations found by  *)
(* MCScheduler_isr_lost and MCScheduler_join refute the properties there.   *)

WaitProtocol ==
  /\ IsrEvents = {}
  /\ WaitPairs \subseteq Tasks \X Shared
  /\ \A t, u \in Tasks, e \in Shared : <<t, e>> \in WaitPairs /\ <<u, e>> \in WaitPairs => t = u

\* The part of the invariant about one task.
WaitOK(t) ==
  /\ waitOn[t] # Null => <<t, waitOn[t]>> \in WaitPairs
  /\ pc[t] \in {"run", "again"} => waitOn[t] = Null
  /\ pc[t] \in {"test", "store", "block", "woken"} => waitOn[t] # Null
  /\ pc[t] \in {"test", "store", "block"} => ~bState[waitOn[t]]
  /\ pc[t] = "block" => pWaitTask[waitOn[t]] = t
  /\ state[t] = "Blocked" => waitOn[t] # Null /\ pWaitTask[waitOn[t]] = t /\ ~bState[waitOn[t]]
  /\ waitOn[t] # Null /\ pc[t] \in {"yield", "woken"} /\ state[t] # "Blocked" => bState[waitOn[t]]

WaitInv ==
  /\ TableInv
  /\ WaiterExact
  /\ \A t \in Tasks : WaitOK(t)
  /\ NoAssertion

\* No task ever waits on a task's own event, and an event has at most one waiter.
LEMMA WaitOnShared ==
  ASSUME WaitProtocol, WaitInv, NEW t \in Tasks, waitOn[t] # Null
  PROVE  /\ waitOn[t] \in Shared /\ waitOn[t] \in Events /\ waitOn[t] \notin Tasks
         /\ \A u \in Tasks : waitOn[u] = waitOn[t] => u = t
<1>1. <<t, waitOn[t]>> \in WaitPairs /\ <<t, waitOn[t]>> \in Tasks \X Shared
  BY DEF WaitProtocol, WaitInv, WaitOK
<1>2. waitOn[t] \in Shared /\ waitOn[t] \in Events /\ waitOn[t] \notin Tasks
  BY <1>1, TasksAssumption DEF Events
<1>3. ASSUME NEW u \in Tasks, waitOn[u] = waitOn[t] PROVE u = t
  <2>1. <<u, waitOn[t]>> \in WaitPairs
    BY <1>3 DEF WaitInv, WaitOK
  <2> QED
    BY <1>1, <1>2, <2>1 DEF WaitProtocol
<1> QED
  BY <1>2, <1>3

\* What Set does when the caller t runs: at most the waiter of e changes, and
\* WakeTask's assertion holds.
LEMMA SetStep ==
  ASSUME WaitProtocol, WaitInv, halt = "no", NEW t \in Tasks, m_pCurrent = t, pc[t] = "run",
         NEW e \in Events, NEW st \in [Tasks -> States], Set(e, st),
         \A w \in Tasks \ {t} : st[w] = state[w]
  PROVE  /\ halt' = "no"
         /\ bState' = [bState EXCEPT ![e] = TRUE]
         /\ state'[t] = st[t]
         /\ \A w \in Tasks : state'[w] = st[w] \/ (state'[w] = "Ready" /\ waitOn[w] = e)
         /\ \A w \in Tasks : state'[w] = "Blocked" /\ w # t => waitOn[w] # e
         /\ \A f \in Events \ {e} : pWaitTask'[f] = pWaitTask[f]
<1> USE DEF WaitInv, TableInv
<1>1. state[t] = "Ready" /\ waitOn[t] = Null /\ \A f \in Events : pWaitTask[f] # t
  <2>1. state[t] = "Ready"
    BY DEF CurrentExact, InYield
  <2>2. waitOn[t] = Null
    BY DEF WaitOK
  <2> QED
    BY <2>1, <2>2, NotRegistered
<1>2. bState' = [bState EXCEPT ![e] = TRUE]
  BY DEF Set
<1>3. \A w \in Tasks : state[w] = "Blocked" /\ waitOn[w] = e => ~bState[e] /\ pWaitTask[e] = w
  BY DEF WaitOK
<1>4. CASE bState[e] \/ pWaitTask[e] = Null
  <2>1. state' = st /\ UNCHANGED <<pWaitTask, halt>>
    BY <1>4 DEF Set
  <2>2. \A w \in Tasks : state'[w] = "Blocked" /\ w # t => waitOn[w] # e
    BY <1>3, <1>4, <2>1, TasksAssumption
  <2> QED
    BY <1>2, <2>1, <2>2
<1>5. CASE ~(bState[e] \/ pWaitTask[e] = Null)
  <2> DEFINE w0 == pWaitTask[e]
  <2>1. w0 \in Tasks /\ w0 # t /\ waitOn[w0] = e /\ (state[w0] = "Blocked" \/ pc[w0] = "block")
    BY <1>1, <1>5 DEF TypeOK, WaiterExact
  <2>2. st[w0] = "Blocked"
    BY <2>1 DEF OthersSuspended
  <2>3. state' = [st EXCEPT ![w0] = "Ready"] /\ UNCHANGED halt /\ pWaitTask' = [pWaitTask EXCEPT ![e] = Null]
    BY <1>5, <2>2 DEF Set, WakeTask
  <2>4. \A w \in Tasks : state'[w] = st[w] \/ (state'[w] = "Ready" /\ waitOn[w] = e)
    BY <2>1, <2>3
  <2>5. \A w \in Tasks : state'[w] = "Blocked" /\ w # t => waitOn[w] # e
    BY <1>3, <2>1, <2>3
  <2>6. \A f \in Events \ {e} : pWaitTask'[f] = pWaitTask[f]
    BY <2>3 DEF TypeOK
  <2> QED
    BY <1>2, <2>1, <2>3, <2>4, <2>5, <2>6
<1> QED
  BY <1>4, <1>5

LEMMA CallWait ==
  ASSUME WaitProtocol, WaitInv, halt = "no", NEW t \in Tasks, Call(t)
  PROVE  (\A w \in Tasks : WaitOK(w)') /\ NoAssertion'
<1> USE DEF WaitInv, TableInv
<1>1. m_pCurrent = t /\ pc[t] = "run"
  BY DEF Call, CreateTask, TaskSet, Clear, Wait, Sleep, MsSleep, Terminate, Yield, Running, At
<1>2. state[t] = "Ready" /\ waitOn[t] = Null /\ t # Null
  BY <1>1, TasksAssumption DEF CurrentExact, InYield, WaitOK
<1>3. \A w \in Tasks \ {t} : pc[w] = "yield"
  BY <1>1 DEF OthersSuspended
<1>4. ASSUME NEW u \in Tasks, CreateTask(t, u) PROVE (\A w \in Tasks : WaitOK(w)') /\ NoAssertion'
  <2>1. waitOn'[u] = Null /\ pc'[u] = "yield" /\ state'[u] = "Ready"
    BY <1>4 DEF CreateTask, NewTask, TypeOK
  <2>2. ASSUME NEW w \in Tasks \ {u} PROVE WaitOK(w)'
    <3>1. state'[w] = state[w] /\ pc'[w] = pc[w] /\ waitOn'[w] = waitOn[w]
      BY <1>4 DEF CreateTask, NewTask, TypeOK
    <3>2. waitOn[w] # Null => bState'[waitOn[w]] = bState[waitOn[w]]
                              /\ pWaitTask'[waitOn[w]] = pWaitTask[waitOn[w]]
      BY <1>4, WaitOnShared DEF CreateTask, NewTask, TypeOK
    <3> QED
      BY <3>1, <3>2 DEF WaitOK
  <2>3. halt' \in {"no", "limit"}
    BY <1>4 DEF CreateTask, AddTask
  <2> QED
    BY <2>1, <2>2, <2>3 DEF WaitOK, NoAssertion
<1>5. ASSUME NEW e \in Shared, TaskSet(t, e) PROVE (\A w \in Tasks : WaitOK(w)') /\ NoAssertion'
  <2>1. e \in Events /\ state \in [Tasks -> States] /\ Set(e, state) /\ UNCHANGED <<pc, waitOn>>
    BY <1>5 DEF Events, TypeOK, TaskSet
  <2>2. /\ halt' = "no"
        /\ bState' = [bState EXCEPT ![e] = TRUE]
        /\ state'[t] = state[t]
        /\ \A w \in Tasks : state'[w] = state[w] \/ (state'[w] = "Ready" /\ waitOn[w] = e)
        /\ \A w \in Tasks : state'[w] = "Blocked" /\ w # t => waitOn[w] # e
        /\ \A f \in Events \ {e} : pWaitTask'[f] = pWaitTask[f]
    BY <1>1, <2>1, SetStep
  <2>3. ASSUME NEW w \in Tasks PROVE WaitOK(w)'
    <3>1. CASE waitOn[w] = Null
      BY <2>1, <2>2, <3>1, TasksAssumption DEF WaitOK
    <3>2. CASE waitOn[w] = e
      <4>1. w # t /\ pc[w] = "yield" /\ bState'[e]
        BY <1>2, <1>3, <2>1, <2>2, <3>2, TasksAssumption DEF TypeOK
      <4> QED
        BY <2>1, <2>2, <3>2, <4>1 DEF WaitOK
    <3>3. CASE waitOn[w] # Null /\ waitOn[w] # e
      <4>1. waitOn[w] \in Events \ {e}
        BY <3>3, WaitOnShared
      <4>2. state'[w] = state[w] /\ bState'[waitOn[w]] = bState[waitOn[w]]
            /\ pWaitTask'[waitOn[w]] = pWaitTask[waitOn[w]]
        BY <2>2, <3>3, <4>1 DEF TypeOK
      <4> QED
        BY <2>1, <4>2 DEF WaitOK
    <3> QED
      BY <3>1, <3>2, <3>3
  <2> QED
    BY <2>2, <2>3 DEF NoAssertion
<1>6. ASSUME Terminate(t) PROVE (\A w \in Tasks : WaitOK(w)') /\ NoAssertion'
  <2> DEFINE st == [state EXCEPT ![t] = "Terminated"]
  <2>1. t \in Events /\ st \in [Tasks -> States] /\ Set(t, st) /\ UNCHANGED waitOn
    BY <1>6 DEF Events, TypeOK, States, Terminate
  <2>2. st[t] = "Terminated" /\ \A w \in Tasks \ {t} : st[w] = state[w] /\ pc'[w] = pc[w]
    BY <1>6 DEF TypeOK, Terminate
  <2> HIDE DEF st
  <2>3. /\ halt' = "no"
        /\ bState' = [bState EXCEPT ![t] = TRUE]
        /\ state'[t] = st[t]
        /\ \A w \in Tasks : state'[w] = st[w] \/ (state'[w] = "Ready" /\ waitOn[w] = t)
        /\ \A f \in Events \ {t} : pWaitTask'[f] = pWaitTask[f]
    BY <1>1, <2>1, <2>2, SetStep
  <2>4. ASSUME NEW w \in Tasks PROVE WaitOK(w)'
    <3>1. CASE w = t
      <4>1. waitOn'[w] = Null /\ pc'[w] = "yield" /\ state'[w] = "Terminated"
        BY <1>2, <1>6, <2>1, <2>2, <2>3, <3>1 DEF Terminate, TypeOK
      <4> QED
        BY <4>1 DEF WaitOK
    <3>2. CASE w # t
      <4>1. waitOn[w] # t
        BY <1>2, WaitOnShared
      <4>2. state'[w] = state[w] /\ pc'[w] = pc[w] /\ waitOn'[w] = waitOn[w]
        BY <2>1, <2>2, <2>3, <3>2, <4>1
      <4>3. waitOn[w] # Null => bState'[waitOn[w]] = bState[waitOn[w]]
                                /\ pWaitTask'[waitOn[w]] = pWaitTask[waitOn[w]]
        BY <2>3, <4>1, WaitOnShared DEF TypeOK
      <4> QED
        BY <4>2, <4>3 DEF WaitOK
    <3> QED
      BY <3>1, <3>2
  <2> QED
    BY <2>3, <2>4 DEF NoAssertion
<1>7. ASSUME NEW e \in Shared, Clear(t, e) PROVE (\A w \in Tasks : WaitOK(w)') /\ NoAssertion'
  <2>1. UNCHANGED <<state, pWaitTask, pc, waitOn, halt>> /\ bState' = [bState EXCEPT ![e] = FALSE]
        /\ <<t, e>> \in WaitPairs
    BY <1>7 DEF Clear
  <2>2. ASSUME NEW w \in Tasks PROVE WaitOK(w)'
    <3>1. waitOn[w] # e
      BY <1>2, <2>1, TasksAssumption DEF WaitOK, WaitProtocol
    <3>2. bState'[waitOn[w]] = bState[waitOn[w]]
      BY <2>1, <3>1 DEF TypeOK
    <3> QED
      BY <2>1, <3>2 DEF WaitOK
  <2> QED
    BY <2>1, <2>2 DEF NoAssertion
<1>8. ASSUME NEW e \in Events, Wait(t, e) PROVE (\A w \in Tasks : WaitOK(w)') /\ NoAssertion'
  <2>1. UNCHANGED <<state, pWaitTask, bState, halt>> /\ ~bState[e] /\ <<t, e>> \in WaitPairs
        /\ e # Null
    BY <1>8, TasksAssumption DEF Wait, event, Events
  <2>2. /\ waitOn' = [waitOn EXCEPT ![t] = e]
        /\ pc' = [pc EXCEPT ![t] = "test"]
    BY <1>8 DEF Wait
  <2>3. WaitOK(t)'
    BY <1>2, <2>1, <2>2 DEF WaitOK, TypeOK
  <2>4. \A w \in Tasks \ {t} : WaitOK(w)'
    BY <2>1, <2>2 DEF WaitOK, TypeOK
  <2> QED
    BY <2>1, <2>3, <2>4 DEF NoAssertion
<1>9. ASSUME UNCHANGED <<event, waitOn, halt>>, pc' = [pc EXCEPT ![t] = "yield"], state'[t] # "Blocked",
             \A w \in Tasks \ {t} : state'[w] = state[w]
      PROVE  (\A w \in Tasks : WaitOK(w)') /\ NoAssertion'
  <2>1. UNCHANGED <<bState, pWaitTask>>
    BY <1>9 DEF event
  <2>2. WaitOK(t)'
    BY <1>2, <1>9, <2>1 DEF WaitOK, TypeOK
  <2>3. \A w \in Tasks \ {t} : WaitOK(w)'
    BY <1>9, <2>1 DEF WaitOK, TypeOK
  <2> QED
    BY <1>9, <2>2, <2>3 DEF NoAssertion
<1>10. ASSUME NEW n, usSleep(t, n), UNCHANGED <<event, waitOn, halt>>
       PROVE  (\A w \in Tasks : WaitOK(w)') /\ NoAssertion'
  BY <1>9, <1>10 DEF usSleep, TypeOK
<1>11. ASSUME NEW n \in SleepTicks, Sleep(t, n) PROVE (\A w \in Tasks : WaitOK(w)') /\ NoAssertion'
  BY <1>10, <1>11 DEF Sleep, SleepChunk
<1>12. ASSUME NEW n \in MsSleepTicks, MsSleep(t, n) PROVE (\A w \in Tasks : WaitOK(w)') /\ NoAssertion'
  BY <1>10, <1>12 DEF MsSleep
<1>13. ASSUME Yield(t) PROVE (\A w \in Tasks : WaitOK(w)') /\ NoAssertion'
  BY <1>2, <1>9, <1>13 DEF Yield
<1> QED
  BY <1>4, <1>5, <1>6, <1>7, <1>8, <1>11, <1>12, <1>13 DEF Call

LEMMA ContinueWait ==
  ASSUME WaitProtocol, WaitInv, halt = "no", NEW t \in Tasks, Continue(t)
  PROVE  (\A w \in Tasks : WaitOK(w)') /\ NoAssertion'
<1> USE DEF WaitInv, TableInv
<1>1. m_pCurrent = t /\ pc[t] # "yield" /\ state[t] = "Ready" /\ WaitOK(t)
  BY DEF At, Continue, WaitAssert, BlockStore, BlockState, WaitReturn, SleepAgain, CurrentExact, InYield
<1>2. CASE WaitAssert(t)
  <2>1. UNCHANGED <<state, bState, pWaitTask, waitOn>> /\ pc[t] = "test"
    BY <1>2 DEF At, WaitAssert, event
  <2>2. waitOn[t] # Null /\ waitOn[t] \in Events
    BY <1>1, <2>1, WaitOnShared DEF WaitOK
  <2>3. pWaitTask[waitOn[t]] = Null
    <3> SUFFICES ASSUME pWaitTask[waitOn[t]] # Null PROVE FALSE
      OBVIOUS
    <3>1. pWaitTask[waitOn[t]] \in Tasks /\ waitOn[pWaitTask[waitOn[t]]] = waitOn[t]
      BY <2>2 DEF WaiterExact, TypeOK
    <3>2. pWaitTask[waitOn[t]] = t
      BY <2>2, <3>1, WaitOnShared
    <3> QED
      BY <1>1, <2>1, <2>2, <3>2, NotRegistered
  <2>4. pc' = [pc EXCEPT ![t] = "store"] /\ UNCHANGED halt
    BY <1>2, <2>3 DEF At, WaitAssert
  <2> QED
    BY <1>1, <2>1, <2>4 DEF WaitOK, NoAssertion, TypeOK
<1>3. CASE BlockStore(t)
  <2>1. /\ UNCHANGED <<state, bState, waitOn, halt>> /\ pc[t] = "store"
        /\ pWaitTask' = [pWaitTask EXCEPT ![waitOn[t]] = t]
        /\ pc' = [pc EXCEPT ![t] = "block"]
    BY <1>3 DEF At, BlockStore
  <2>2. waitOn[t] # Null /\ waitOn[t] \in Events
    BY <1>1, <2>1, WaitOnShared DEF WaitOK
  <2>3. WaitOK(t)'
    BY <1>1, <2>1, <2>2 DEF WaitOK, TypeOK
  <2>4. ASSUME NEW w \in Tasks \ {t} PROVE WaitOK(w)'
    <3>1. waitOn[w] # waitOn[t]
      BY <2>2, WaitOnShared
    <3>2. pWaitTask'[waitOn[w]] = pWaitTask[waitOn[w]]
      BY <2>1, <3>1 DEF TypeOK
    <3> QED
      BY <2>1, <3>2 DEF WaitOK, TypeOK
  <2> QED
    BY <2>1, <2>3, <2>4 DEF NoAssertion
<1>4. CASE BlockState(t)
  <2>1. /\ UNCHANGED <<bState, pWaitTask, waitOn, halt>> /\ pc[t] = "block"
        /\ state' = [state EXCEPT ![t] = "Blocked"]
        /\ pc' = [pc EXCEPT ![t] = "yield"]
    BY <1>4 DEF At, BlockState, event
  <2>2. WaitOK(t)'
    BY <1>1, <2>1 DEF WaitOK, TypeOK
  <2>3. \A w \in Tasks \ {t} : WaitOK(w)'
    BY <2>1 DEF WaitOK, TypeOK
  <2> QED
    BY <2>1, <2>2, <2>3 DEF NoAssertion
<1>5. CASE WaitReturn(t)
  <2>1. bState[waitOn[t]] /\ UNCHANGED <<state, bState, pWaitTask>>
    BY <1>1, <1>5 DEF At, WaitReturn, WaitOK, event
  <2>2. /\ pc' = [pc EXCEPT ![t] = "run"]
        /\ waitOn' = [waitOn EXCEPT ![t] = Null]
        /\ UNCHANGED halt
    BY <1>5, <2>1 DEF At, WaitReturn
  <2>3. WaitOK(t)'
    BY <1>1, <2>1, <2>2 DEF WaitOK, TypeOK
  <2>4. \A w \in Tasks \ {t} : WaitOK(w)'
    BY <2>1, <2>2 DEF WaitOK, TypeOK
  <2> QED
    BY <2>2, <2>3, <2>4 DEF NoAssertion
<1>6. CASE SleepAgain(t)
  <2>1. /\ UNCHANGED <<bState, pWaitTask, waitOn, halt>> /\ pc[t] = "again"
        /\ state' = [state EXCEPT ![t] = "Sleeping"]
        /\ pc' = [pc EXCEPT ![t] = "yield"]
    BY <1>6 DEF At, SleepAgain, SleepChunk, usSleep, event
  <2>2. WaitOK(t)'
    BY <1>1, <2>1 DEF WaitOK, TypeOK
  <2>3. \A w \in Tasks \ {t} : WaitOK(w)'
    BY <2>1 DEF WaitOK, TypeOK
  <2> QED
    BY <2>1, <2>2, <2>3 DEF NoAssertion
<1> QED
  BY <1>2, <1>3, <1>4, <1>5, <1>6 DEF Continue

LEMMA ScanWait ==
  ASSUME WaitInv, halt = "no", Scan
  PROVE  (\A w \in Tasks : WaitOK(w)') /\ NoAssertion'
<1> USE DEF WaitInv, TableInv
<1>1. \A t \in Tasks : pc[t] = "yield"
  BY DEF Scan, ScanSwitch, ScanReap, ScanIdle, InYield, OthersSuspended
<1>2. UNCHANGED <<bState, pWaitTask, waitOn, halt>>
  BY DEF Scan, ScanSwitch, ScanReap, ScanIdle, event
<1>3. CASE ScanSwitch
  <2>1. PICK n \in Tasks :
          /\ CanRun(n)
          /\ state' = [state EXCEPT ![n] = "Ready"]
          /\ pc' = [pc EXCEPT ![n] = Resumption(n)]
    <3>1. PICK i \in 1 .. m_nTasks :
            LET n == m_pTask[Visit(i)] IN
            /\ FirstStop(i)
            /\ CanRun(n)
            /\ state' = [state EXCEPT ![n] = "Ready"]
            /\ pc' = [pc EXCEPT ![n] = Resumption(n)]
      BY <1>3 DEF ScanSwitch
    <3>2. m_pTask[Visit(i)] \in Tasks
      BY <3>1, VisitInTable DEF TypeOK, FirstStop, StopsAt
    <3> QED
      BY <3>1, <3>2
  <2>2. state[n] # "Blocked" /\ pc[n] = "yield"
    BY <1>1, <2>1 DEF CanRun
  <2>3. state'[n] = "Ready" /\ pc'[n] = Resumption(n)
    BY <2>1 DEF TypeOK
  <2>4. \A w \in Tasks : w # n => state'[w] = state[w] /\ pc'[w] = pc[w]
    BY <2>1 DEF TypeOK
  <2>5. ASSUME NEW w \in Tasks, w # n PROVE WaitOK(w)'
    BY <1>2, <2>4, <2>5 DEF WaitOK
  <2>6. CASE waitOn[n] = Null
    <3>1. WaitOK(n)'
      BY <1>2, <2>3, <2>6 DEF WaitOK, Resumption
    <3> QED
      BY <1>2, <2>5, <3>1 DEF NoAssertion
  <2>7. CASE waitOn[n] # Null
    <3>1. WaitOK(n)'
      BY <1>2, <2>2, <2>3, <2>7 DEF WaitOK, Resumption
    <3> QED
      BY <1>2, <2>5, <3>1 DEF NoAssertion
  <2> QED
    BY <2>6, <2>7
<1>4. CASE ScanReap
  <2>1. PICK i \in 1 .. m_nTasks :
          LET n == m_pTask[Visit(i)] IN
          state[n] = "Terminated" /\ state' = [state EXCEPT ![n] = "Unknown"]
    BY <1>4 DEF ScanReap
  <2>2. UNCHANGED pc
    BY <1>4 DEF ScanReap
  <2>3. \A w \in Tasks : state'[w] = "Blocked" <=> state[w] = "Blocked"
    BY <2>1 DEF TypeOK
  <2> QED
    BY <1>2, <2>2, <2>3 DEF WaitOK, NoAssertion
<1>5. CASE ScanIdle
  BY <1>2, <1>5 DEF ScanIdle, WaitOK, NoAssertion
<1> QED
  BY <1>3, <1>4, <1>5 DEF Scan

LEMMA NextWait ==
  ASSUME WaitProtocol, WaitInv, [Next]_vars
  PROVE  WaitInv'
<1>1. TableInv' /\ WaiterExact'
  BY NextTable, NextWaiter DEF WaitInv
<1>2. (\A w \in Tasks : WaitOK(w)') /\ NoAssertion'
  <2>1. ASSUME NEW t \in Tasks, Call(t) PROVE (\A w \in Tasks : WaitOK(w)') /\ NoAssertion'
    BY <2>1, CallWait, StepsRun
  <2>2. ASSUME NEW t \in Tasks, Continue(t) PROVE (\A w \in Tasks : WaitOK(w)') /\ NoAssertion'
    BY <2>2, ContinueWait, StepsRun
  <2>3. CASE Scan
    BY <2>3, ScanWait, StepsRun
  <2>4. ASSUME UNCHANGED <<state, event, pc, waitOn, halt>>
        PROVE  (\A w \in Tasks : WaitOK(w)') /\ NoAssertion'
    <3>1. UNCHANGED <<state, bState, pWaitTask, pc, waitOn, halt>>
      BY <2>4 DEF event
    <3>2. ASSUME NEW w \in Tasks PROVE WaitOK(w)'
      <4>1. WaitOK(w)
        BY DEF WaitInv
      <4> QED
        BY <3>1, <4>1 DEF WaitOK
    <3> QED
      BY <3>1, <3>2 DEF WaitInv, NoAssertion
  <2>5. CASE ClockTick
    BY <2>4, <2>5 DEF ClockTick
  <2>6. CASE UNCHANGED vars
    BY <2>4, <2>6 DEF vars
  <2> QED
    BY <2>1, <2>2, <2>3, <2>5, <2>6 DEF Next, Halted, WaitProtocol
<1> QED
  BY <1>1, <1>2 DEF WaitInv

LEMMA InitWait == Init => WaitInv
BY InitTable, InitWaiter, TasksAssumption DEF Init, WaitInv, WaitOK, NoAssertion

\* Under the protocol of the events' users no assertion of the scheduler and of
\* Event::Wait can fail: WakeTask finds its task blocked, Wait finds no other
\* waiter, and a task returns from Wait only when the event is set.
THEOREM ProtocolIsSafe ==
  ASSUME WaitProtocol
  PROVE  Spec => []NoAssertion
<1>1. WaitInv /\ [Next]_vars => WaitInv'
  BY NextWait
<1>2. WaitInv => NoAssertion
  BY DEF WaitInv
<1> QED
  BY <1>1, <1>2, InitWait, PTL DEF Spec

\* Under the same protocol no wakeup is lost.
THEOREM WakeupsArrive ==
  ASSUME WaitProtocol
  PROVE  Spec => []NoLostWakeup
<1>1. WaitInv /\ [Next]_vars => WaitInv'
  BY NextWait
<1>2. WaitInv => NoLostWakeup
  BY DEF WaitInv, WaitOK, NoLostWakeup
<1> QED
  BY <1>1, <1>2, InitWait, PTL DEF Spec

-----------------------------------------------------------------------------
(* Sleeping.  The wake-up time says what is left of the sleep although the  *)
(* clock wraps, as long as usSleep is not given half its range or more.     *)

ShortMsSleeps == MsSleepTicks \subseteq 1 .. Half - 1

SleepOK(t) ==
  IF state[t] = "Sleeping"
  THEN /\ pc[t] = "yield" /\ due[t] < Half
       /\ wakeTicks[t] - clock - due[t] \in {0, ClockMod, -ClockMod}
  ELSE due[t] <= 0

SleepInv == TypeOK /\ \A t \in Tasks : SleepOK(t)

LEMMA ClockFacts ==
  /\ ClockMod \in Nat \ {0} /\ Half \in Nat \ {0} /\ ClockMod = 2 * Half
  /\ MaxLate \in Nat /\ MaxLate < Half
  /\ SleepMax \in Nat \ {0} /\ SleepMax < Half
  /\ SleepTicks \subseteq Nat \ {0} /\ MsSleepTicks \subseteq Nat
BY ClockAssumption DEF Half

LEMMA ClockWraps ==
  ASSUME NEW x \in Int
  PROVE  /\ 0 <= x /\ x < ClockMod => x % ClockMod = x
         /\ -ClockMod <= x /\ x < 0 => x % ClockMod = x + ClockMod
         /\ ClockMod <= x /\ x < 2 * ClockMod => x % ClockMod = x - ClockMod
BY ClockFacts

\* What (int) (pTask->GetWakeTicks () - nTicks) <= 0 decides.
LEMMA ExpiredIff ==
  ASSUME TypeOK, NEW t \in Tasks, due[t] < Half,
         wakeTicks[t] - clock - due[t] \in {0, ClockMod, -ClockMod}
  PROVE  Expired(t) <=> due[t] <= 0
<1>1. /\ clock \in Int /\ 0 <= clock /\ clock < ClockMod
      /\ wakeTicks[t] \in Int /\ 0 <= wakeTicks[t] /\ wakeTicks[t] < ClockMod
      /\ due[t] \in Int /\ -Half < due[t] /\ due[t] < Half
      /\ ClockMod \in Int /\ Half \in Int /\ ClockMod = 2 * Half /\ Half > 0
  BY ClockFacts DEF TypeOK
<1> DEFINE x == wakeTicks[t] - clock
<1>2. x \in Int /\ -ClockMod < x /\ x < ClockMod /\ x - due[t] \in {0, ClockMod, -ClockMod}
  BY <1>1
<1>3. x % ClockMod = IF x < 0 THEN x + ClockMod ELSE x
  BY <1>1, <1>2, ClockWraps
<1> HIDE DEF x
<1>4. x % ClockMod \notin 1 .. Half - 1 <=> due[t] <= 0
  BY <1>1, <1>2, <1>3
<1> QED
  BY <1>4 DEF Expired, x

\* A sleep of less than half the range that begins at time c ends at e.
LEMMA SleepBegins ==
  ASSUME NEW c \in 0 .. ClockMod - 1, NEW n \in Nat, n < Half
  PROVE  ((c + n) % ClockMod) - c - n \in {0, ClockMod, -ClockMod}
<1>1. c + n \in Int /\ 0 <= c + n /\ c + n < 2 * ClockMod
  BY ClockFacts
<1>2. (c + n) % ClockMod = IF c + n < ClockMod THEN c + n ELSE c + n - ClockMod
  BY <1>1, ClockWraps, ClockFacts
<1> QED
  BY <1>1, <1>2, ClockFacts

LEMMA SleepGoesOn ==
  ASSUME NEW c \in 0 .. ClockMod - 1, NEW w \in 0 .. ClockMod - 1, NEW d \in Int,
         -Half < d - 1, d < Half, w - c - d \in {0, ClockMod, -ClockMod}
  PROVE  w - ((c + 1) % ClockMod) - (d - 1) \in {0, ClockMod, -ClockMod}
<1>1. c + 1 \in Int /\ 0 <= c + 1 /\ c + 1 < 2 * ClockMod
  BY ClockFacts
<1>2. (c + 1) % ClockMod = IF c + 1 < ClockMod THEN c + 1 ELSE c + 1 - ClockMod
  BY <1>1, ClockWraps, ClockFacts
<1> QED
  BY <1>1, <1>2, ClockFacts

\* Setting an event neither wakes a sleeper nor sends anyone to sleep.
LEMMA SetLetsSleep ==
  ASSUME TypeOK, NEW e \in Events, NEW st \in [Tasks -> States], Set(e, st), NEW t \in Tasks
  PROVE  state'[t] = "Sleeping" <=> st[t] = "Sleeping"
<1>1. CASE bState[e] \/ pWaitTask[e] = Null
  BY <1>1 DEF Set
<1>2. CASE ~(bState[e] \/ pWaitTask[e] = Null)
  BY <1>2 DEF Set, WakeTask
<1> QED
  BY <1>1, <1>2

\* A step that leaves the clock and the sleepers alone.
LEMMA SleepersKept ==
  ASSUME SleepInv, UNCHANGED <<clock, wakeTicks>>, NEW t \in Tasks, due'[t] = due[t],
         state'[t] = "Sleeping" <=> state[t] = "Sleeping",
         state[t] = "Sleeping" => pc'[t] = pc[t]
  PROVE  SleepOK(t)'
BY DEF SleepInv, SleepOK

\* usSleep, for an argument the comparison of ticks can tell from the past.
LEMMA SleeperAdded ==
  ASSUME SleepInv, NEW t \in Tasks, NEW n \in Nat, n < Half, usSleep(t, n), clock' = clock,
         NEW w \in Tasks
  PROVE  SleepOK(w)'
<1>1. PICK e : e = (clock + n) % ClockMod
  OBVIOUS
<1>2. wakeTicks' = [wakeTicks EXCEPT ![t] = e]
  BY <1>1 DEF usSleep
<1>3. e - clock - n \in {0, ClockMod, -ClockMod}
  BY <1>1, SleepBegins DEF SleepInv, TypeOK
<1>4. /\ due' = [due EXCEPT ![t] = n] /\ state' = [state EXCEPT ![t] = "Sleeping"]
      /\ pc' = [pc EXCEPT ![t] = "yield"]
  BY DEF usSleep
<1>5. CASE w = t
  BY <1>2, <1>3, <1>4, <1>5 DEF SleepInv, SleepOK, TypeOK
<1>6. CASE w # t
  <2>1. wakeTicks'[w] = wakeTicks[w] /\ due'[w] = due[w] /\ state'[w] = state[w] /\ pc'[w] = pc[w]
    BY <1>2, <1>4, <1>6 DEF SleepInv, TypeOK
  <2> QED
    BY <2>1 DEF SleepInv, SleepOK
<1> QED
  BY <1>5, <1>6

LEMMA CallSleep ==
  ASSUME ShortMsSleeps, SleepInv, NEW t \in Tasks, Call(t), NEW w \in Tasks
  PROVE  SleepOK(w)'
<1> USE DEF Running, At
<1>1. TypeOK /\ (pc[w] # "yield" => state[w] # "Sleeping")
  BY DEF SleepInv, SleepOK
<1>2. ASSUME NEW u \in Tasks, CreateTask(t, u) PROVE SleepOK(w)'
  <2>1. /\ state' = [state EXCEPT ![u] = "Ready"] /\ due' = [due EXCEPT ![u] = 0]
        /\ pc' = [pc EXCEPT ![u] = "yield"] /\ UNCHANGED <<clock, wakeTicks>>
    BY <1>2 DEF CreateTask, NewTask
  <2>2. CASE w = u
    BY <1>1, <2>1, <2>2 DEF SleepOK, TypeOK
  <2>3. CASE w # u
    BY <1>1, <2>1, <2>3, SleepersKept DEF TypeOK
  <2> QED
    BY <2>2, <2>3
<1>3. ASSUME NEW e \in Shared, TaskSet(t, e) PROVE SleepOK(w)'
  <2>1. state'[w] = "Sleeping" <=> state[w] = "Sleeping"
    BY <1>1, <1>3, SetLetsSleep DEF TaskSet, TypeOK, Events
  <2> QED
    BY <1>3, <2>1, SleepersKept DEF TaskSet, sleep
<1>4. ASSUME NEW e \in Shared, Clear(t, e) PROVE SleepOK(w)'
  BY <1>4, SleepersKept DEF Clear, sleep
<1>5. ASSUME NEW e \in Events, Wait(t, e) PROVE SleepOK(w)'
  <2>1. state[w] = "Sleeping" => w # t
    BY <1>1, <1>5 DEF Wait
  <2> QED
    BY <1>1, <1>5, <2>1, SleepersKept DEF Wait, sleep, TypeOK
<1>6. ASSUME NEW n \in SleepTicks, Sleep(t, n) PROVE SleepOK(w)'
  <2> DEFINE m == IF n > SleepMax THEN SleepMax ELSE n
  <2>1. m \in Nat /\ m < Half
    BY ClockFacts
  <2> QED
    BY <1>6, <2>1, SleeperAdded DEF Sleep, SleepChunk
<1>7. ASSUME NEW n \in MsSleepTicks, MsSleep(t, n) PROVE SleepOK(w)'
  <2>1. n \in Nat /\ n < Half
    BY ClockFacts DEF ShortMsSleeps
  <2> QED
    BY <1>7, <2>1, SleeperAdded DEF MsSleep
<1>8. ASSUME Terminate(t) PROVE SleepOK(w)'
  <2> DEFINE st == [state EXCEPT ![t] = "Terminated"]
  <2>1. st \in [Tasks -> States] /\ t \in Events
    BY <1>1 DEF TypeOK, States, Events
  <2>2. state'[w] = "Sleeping" <=> st[w] = "Sleeping"
    BY <1>1, <1>8, <2>1, SetLetsSleep DEF Terminate
  <2>3. state'[w] = "Sleeping" <=> state[w] = "Sleeping"
    BY <1>1, <1>8, <2>2 DEF Terminate, TypeOK
  <2> QED
    BY <1>1, <1>8, <2>3, SleepersKept DEF Terminate, sleep, TypeOK
<1>9. ASSUME Yield(t) PROVE SleepOK(w)'
  <2>1. state[w] = "Sleeping" => w # t
    BY <1>1, <1>9 DEF Yield
  <2> QED
    BY <1>1, <1>9, <2>1, SleepersKept DEF Yield, sleep, TypeOK
<1> QED
  BY <1>2, <1>3, <1>4, <1>5, <1>6, <1>7, <1>8, <1>9 DEF Call

LEMMA ContinueSleep ==
  ASSUME SleepInv, NEW t \in Tasks, Continue(t), NEW w \in Tasks
  PROVE  SleepOK(w)'
<1>1. TypeOK /\ (pc[w] # "yield" => state[w] # "Sleeping")
  BY DEF SleepInv, SleepOK
<1>2. pc[t] # "yield"
  BY DEF Continue, WaitAssert, BlockStore, BlockState, WaitReturn, SleepAgain, At
<1>3. CASE WaitAssert(t)
  BY <1>1, <1>2, <1>3, SleepersKept DEF WaitAssert, sleep, TypeOK
<1>4. CASE BlockStore(t)
  BY <1>1, <1>2, <1>4, SleepersKept DEF BlockStore, sleep, TypeOK
<1>5. CASE BlockState(t)
  <2>1. state'[w] = "Sleeping" <=> state[w] = "Sleeping"
    BY <1>1, <1>2, <1>5 DEF BlockState, TypeOK
  <2> QED
    BY <1>1, <1>2, <1>5, <2>1, SleepersKept DEF BlockState, sleep, TypeOK
<1>6. CASE WaitReturn(t)
  BY <1>1, <1>2, <1>6, SleepersKept DEF WaitReturn, sleep, TypeOK
<1>7. CASE SleepAgain(t)
  <2> DEFINE m == IF left[t] > SleepMax THEN SleepMax ELSE left[t]
  <2>1. m \in Nat /\ m < Half
    BY <1>1, ClockFacts DEF TypeOK
  <2> QED
    BY <1>7, <2>1, SleeperAdded DEF SleepAgain, SleepChunk
<1> QED
  BY <1>3, <1>4, <1>5, <1>6, <1>7 DEF Continue

LEMMA ScanSleep ==
  ASSUME SleepInv, Scan, NEW w \in Tasks
  PROVE  SleepOK(w)'
<1>1. TypeOK
  BY DEF SleepInv
<1>2. CASE ScanSwitch
  <2>1. PICK i \in 1 .. m_nTasks :
          LET n == m_pTask[Visit(i)] IN
          /\ FirstStop(i)
          /\ CanRun(n)
          /\ state' = [state EXCEPT ![n] = "Ready"]
          /\ due' = [due EXCEPT ![n] = IF @ < 0 THEN 0 ELSE @]
          /\ pc' = [pc EXCEPT ![n] = Resumption(n)]
    BY <1>2 DEF ScanSwitch
  <2> DEFINE n == m_pTask[Visit(i)]
  <2>2. n \in Tasks
    BY <1>1, <2>1, VisitInTable DEF TypeOK, FirstStop, StopsAt
  <2>3. UNCHANGED <<clock, wakeTicks>>
    BY <1>2 DEF ScanSwitch
  <2> HIDE DEF n
  <2>4. CASE w = n
    <3>1. due[n] <= 0
      BY <1>1, <2>1, <2>2, ExpiredIff DEF SleepInv, SleepOK, CanRun, n
    <3>2. state'[n] = "Ready" /\ due'[n] <= 0
      BY <1>1, <2>1, <2>2, <3>1, ClockFacts DEF TypeOK, n
    <3> QED
      BY <2>4, <3>2 DEF SleepOK
  <2>5. CASE w # n
    BY <1>1, <2>1, <2>2, <2>3, <2>5, SleepersKept DEF TypeOK, n
  <2> QED
    BY <2>4, <2>5
<1>3. CASE ScanReap
  <2>1. PICK u : state[u] = "Terminated" /\ state' = [state EXCEPT ![u] = "Unknown"]
    BY <1>3 DEF ScanReap
  <2>2. UNCHANGED <<clock, wakeTicks, due, pc>>
    BY <1>3 DEF ScanReap, sleep
  <2> QED
    BY <1>1, <2>1, <2>2, SleepersKept DEF TypeOK
<1>4. CASE ScanIdle
  BY <1>4, SleepersKept DEF ScanIdle, sleep
<1> QED
  BY <1>2, <1>3, <1>4 DEF Scan

LEMMA TickSleep ==
  ASSUME SleepInv, ClockTick, NEW w \in Tasks
  PROVE  SleepOK(w)'
<1>1. CASE state[w] = "Sleeping"
  <2>1. /\ clock \in 0 .. ClockMod - 1 /\ wakeTicks[w] \in 0 .. ClockMod - 1
        /\ due[w] \in Int /\ -Half < due[w] - 1 /\ due[w] < Half
        /\ wakeTicks[w] - clock - due[w] \in {0, ClockMod, -ClockMod}
    BY <1>1, ClockFacts DEF ClockTick, SleepInv, SleepOK, TypeOK
  <2>2. /\ clock' = (clock + 1) % ClockMod /\ due'[w] = due[w] - 1
        /\ UNCHANGED <<state, wakeTicks, pc>>
    BY <1>1 DEF ClockTick
  <2>3. wakeTicks[w] - clock' - (due[w] - 1) \in {0, ClockMod, -ClockMod}
    BY <2>1, <2>2, SleepGoesOn
  <2> QED
    BY <1>1, <2>1, <2>2, <2>3, ClockFacts DEF SleepInv, SleepOK
<1>2. CASE state[w] # "Sleeping"
  BY <1>2 DEF ClockTick, SleepInv, SleepOK
<1> QED
  BY <1>1, <1>2

LEMMA NextSleep ==
  ASSUME ShortMsSleeps, SleepInv, [Next]_vars
  PROVE  SleepInv'
<1>1. TypeOK'
  BY NextType DEF SleepInv
<1> SUFFICES ASSUME NEW w \in Tasks PROVE SleepOK(w)'
  BY <1>1 DEF SleepInv
<1>2. ASSUME NEW t \in Tasks, Call(t) PROVE SleepOK(w)'
  BY <1>2, CallSleep
<1>3. ASSUME NEW t \in Tasks, Continue(t) PROVE SleepOK(w)'
  BY <1>3, ContinueSleep
<1>4. ASSUME NEW e \in IsrEvents, IsrSet(e) PROVE SleepOK(w)'
  <2>1. state'[w] = "Sleeping" <=> state[w] = "Sleeping"
    BY <1>4, SetLetsSleep, TasksAssumption DEF IsrSet, SleepInv, TypeOK, Events
  <2> QED
    BY <1>4, <2>1, SleepersKept DEF IsrSet, sleep
<1>5. CASE UNCHANGED vars
  BY <1>5, SleepersKept DEF vars, sleep
<1> QED
  BY <1>2, <1>3, <1>4, <1>5, ScanSleep, TickSleep DEF Next, Halted

LEMMA InitSleep == Init => SleepInv
BY InitType DEF Init, SleepInv, SleepOK

\* No task runs on before its sleep is over, although the clock wraps and Sleep
\* is cut into chunks, if MsSleep and usSleep are given less than 2^31 ticks.
THEOREM SleepsToTheEnd ==
  ASSUME ShortMsSleeps
  PROVE  Spec => []NeverEarly
<1>1. SleepInv /\ [Next]_vars => SleepInv'
  BY NextSleep
<1>2. SleepInv => NeverEarly
  BY DEF SleepInv, SleepOK, NeverEarly
<1> QED
  BY <1>1, <1>2, InitSleep, PTL DEF Spec

=============================================================================
