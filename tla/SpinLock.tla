------------------------------- MODULE SpinLock -------------------------------
(***************************************************************************)
(* CSpinLock (lib/spinlock.cpp, circle/spinlock.h), EnterCritical and      *)
(* LeaveCritical (lib/synchronize.cpp; the same in synchronize64.cpp), on  *)
(* cores whose tasks are interrupted by IRQ handlers, and these by FIQ     *)
(* handlers, between any two steps.                                        *)
(*                                                                         *)
(* What has been begun on a core and is not yet over is a stack of frames, *)
(* of sections under a lock and of interrupt handlers: sections are        *)
(* released in the reverse order, and a handler returns to what it has     *)
(* interrupted.                                                            *)
(***************************************************************************)
EXTENDS Integers, SequencesExt

CONSTANTS
  Cores,
  Core0,            \* the only one that runs when locks are not enabled
  Locks,
  m_nTargetLevel    \* of each lock

TASK_LEVEL == 0
IRQ_LEVEL == 1
FIQ_LEVEL == 2
Levels == {TASK_LEVEL, IRQ_LEVEL, FIQ_LEVEL}

ASSUME SpinLockAssumption ==
  /\ Core0 \in Cores
  /\ m_nTargetLevel \in [Locks -> Levels]
  /\ "none" \notin Locks

VARIABLES
  s_bEnabled, \* whether the build is for several cores: CSpinLock::s_bEnabled
  CPSR,       \* of each core: which interrupts are disabled, the IRQ (IRQ_LEVEL) or both
  frames,     \* of each core
  m_nLocked   \* the spin locks that are taken

lockVars == <<s_bEnabled, CPSR, frames, m_nLocked>>

\* does: "enters", "spins", "holds", "leaves" a section, or "handles" an interrupt.
\* saved: the CPSR that LeaveCritical or the return from the interrupt restores.
LockFrame == [does : {"enters", "spins", "holds", "leaves", "handles"},
          lock : Locks \cup {"none"}, level : Levels, saved : Levels]

LockTypeOK ==
  /\ s_bEnabled \in BOOLEAN
  /\ CPSR \in [Cores -> Levels]
  /\ frames \in [Cores -> Seq(LockFrame)]
  /\ m_nLocked \in SUBSET Locks

LockInit ==
  /\ s_bEnabled \in BOOLEAN
  /\ CPSR = [c \in Cores |-> TASK_LEVEL]
  /\ frames = [c \in Cores |-> <<>>]
  /\ m_nLocked = {}

Top(c) == frames[c][Len(frames[c])]
Does(c, what) == frames[c] # <<>> /\ Top(c).does = what
TopDoes(c, what) == [frames EXCEPT ![c][Len(frames[c])].does = what]
Popped(c) == [frames EXCEPT ![c] = Front(frames[c])]

\* Whether frame i belongs to what runs on the core and not to something it has interrupted.
InCurrent(c, i) == \A j \in i + 1 .. Len(frames[c]) : frames[c][j].does # "handles"
\* The level of what runs: CurrentExecutionLevel without the sections it is in.
RunsAt(c, level) == \A i \in DOMAIN frames[c] : frames[c][i].does = "handles" => frames[c][i].level <= level

-----------------------------------------------------------------------------
(* CSpinLock.  A lock is used up to its target level (circle/spinlock.h),  *)
(* not again by who has it, and in a section that disables FIQs only if it *)
(* does so too, as EnterCritical asserts.                                  *)

MayUse(c, l) ==
  /\ RunsAt(c, m_nTargetLevel[l])
  /\ \A i \in DOMAIN frames[c] : InCurrent(c, i) => frames[c][i].lock # l
  /\ m_nTargetLevel[l] = IRQ_LEVEL => CPSR[c] # FIQ_LEVEL

\* Acquire, until EnterCritical has read the CPSR.
Acquire(c, l) ==
  /\ frames[c] # <<>> => Top(c).does \in {"holds", "handles"}
  /\ MayUse(c, l)
  /\ frames' = [frames EXCEPT ![c] = Append(frames[c],
       [does |-> IF m_nTargetLevel[l] >= IRQ_LEVEL THEN "enters" ELSE "spins",
        lock |-> l, level |-> m_nTargetLevel[l], saved |-> CPSR[c]])]
  /\ UNCHANGED <<CPSR, m_nLocked>>

\* Mutant: interrupts of the target level remain enabled.
EnterCritical_Below(c) ==
  /\ Does(c, "enters")
  /\ CPSR' = [CPSR EXCEPT ![c] = IF @ = TASK_LEVEL THEN IRQ_LEVEL ELSE @]
  /\ frames' = TopDoes(c, "spins")
  /\ UNCHANGED m_nLocked

\* Both interrupts are disabled, the CPSR is stored, FIQs are enabled again for IRQ_LEVEL.
EnterCritical(c) ==
  /\ Does(c, "enters")
  /\ CPSR' = [CPSR EXCEPT ![c] = Top(c).level]
  /\ frames' = TopDoes(c, "spins")
  /\ UNCHANGED m_nLocked

\* The loop ends when the lock is free.
Spin(c) ==
  /\ Does(c, "spins")
  /\ s_bEnabled => Top(c).lock \notin m_nLocked
  /\ m_nLocked' = IF s_bEnabled THEN m_nLocked \cup {Top(c).lock} ELSE m_nLocked
  /\ frames' = TopDoes(c, "holds")
  /\ UNCHANGED CPSR

\* The section is over, and the lock free.
Release(c) ==
  /\ Does(c, "holds")
  /\ m_nLocked' = m_nLocked \ {Top(c).lock}
  /\ frames' = IF Top(c).level >= IRQ_LEVEL THEN TopDoes(c, "leaves") ELSE Popped(c)
  /\ UNCHANGED CPSR

LeaveCritical(c) ==
  /\ Does(c, "leaves")
  /\ CPSR' = [CPSR EXCEPT ![c] = Top(c).saved]
  /\ frames' = Popped(c)
  /\ UNCHANGED m_nLocked

-----------------------------------------------------------------------------
(* Interrupts *)

\* An IRQ disables IRQs, an FIQ both.
Interrupt(c, level) ==
  /\ CPSR[c] < level
  /\ CPSR' = [CPSR EXCEPT ![c] = level]
  /\ frames' = [frames EXCEPT ![c] = Append(frames[c],
       [does |-> "handles", lock |-> "none", level |-> level, saved |-> CPSR[c]])]
  /\ UNCHANGED m_nLocked

Return(c) ==
  /\ Does(c, "handles")
  /\ CPSR' = [CPSR EXCEPT ![c] = Top(c).saved]
  /\ frames' = Popped(c)
  /\ UNCHANGED m_nLocked

LockNext ==
  /\ \E c \in IF s_bEnabled THEN Cores ELSE {Core0} :
       \/ \E l \in Locks : Acquire(c, l)
       \/ EnterCritical(c) \/ Spin(c) \/ Release(c) \/ LeaveCritical(c)
       \/ \E level \in {IRQ_LEVEL, FIQ_LEVEL} : Interrupt(c, level)
       \/ Return(c)
  /\ UNCHANGED s_bEnabled

LockSpec == LockInit /\ [][LockNext]_lockVars

-----------------------------------------------------------------------------
(* Properties *)

Holds(c, i, l) == frames[c][i].lock = l /\ frames[c][i].does = "holds"

\* A lock is held once at a time: by no other core, and on the same core by no handler that has
\* interrupted the section, also in a build for one core, where only the CPSR protects it.
Exclusive ==
  \A l \in Locks : \A c, d \in Cores : \A i \in DOMAIN frames[c] : \A j \in DOMAIN frames[d] :
    Holds(c, i, l) /\ Holds(d, j, l) => c = d /\ i = j

\* Nobody spins for a lock that is held on its own core: who holds it would never run again.
\* (Acquire enters the critical section first, Release leaves it last.)
NeverForItself ==
  \A c \in Cores : Does(c, "spins") =>
    \A i \in DOMAIN frames[c] : ~Holds(c, i, Top(c).lock)

\* Outside of sections, a task has all interrupts enabled and a handler those above its level,
\* however sections and interrupts have been nested before.
LevelsRestored ==
  \A c \in Cores :
    /\ frames[c] = <<>> => CPSR[c] = TASK_LEVEL
    /\ Does(c, "handles") => CPSR[c] = Top(c).level

SectionsSafe == Exclusive /\ NeverForItself /\ LevelsRestored
=============================================================================
