----------------------------- MODULE SpinLockProofs -----------------------------
(***************************************************************************)
(* Proofs about SpinLock, for any number of cores and locks of any target  *)
(* levels.  Everything follows from how the frames of a core are nested:   *)
(* none disables less than those below it.                                 *)
(***************************************************************************)
EXTENDS SpinLock, TLAPS

\* What is disabled while this frame is the last one.
Disables(f) == IF f.does = "enters" \/ f.level = TASK_LEVEL THEN f.saved ELSE f.level

\* What Acquire and an interrupt make of a frame.
FrameOK(f) ==
  /\ f.does = "handles" => f.lock = "none" /\ f.saved < f.level
  /\ f.does # "handles" => /\ f.lock \in Locks /\ f.level = m_nTargetLevel[f.lock]
                           /\ f.level # TASK_LEVEL => f.saved <= f.level
  /\ f.does \in {"enters", "leaves"} => f.level # TASK_LEVEL

\* The CPSR of a core, and what each frame restores, is what the frame below has disabled.
Nested(c) ==
  /\ \A i \in DOMAIN frames[c] : FrameOK(frames[c][i])
  /\ \A i, k \in DOMAIN frames[c] : i < k => Disables(frames[c][i]) <= frames[c][k].saved
  /\ \A i \in DOMAIN frames[c] :
       frames[c][i].saved = IF i = 1 THEN TASK_LEVEL ELSE Disables(frames[c][i - 1])
  /\ CPSR[c] = IF frames[c] = <<>> THEN TASK_LEVEL ELSE Disables(Top(c))

\* A lock has one frame of a core, but for those that have not yet entered the critical section.
Once(c) ==
  \A i, k \in DOMAIN frames[c] :
    i < k /\ frames[c][i].lock = frames[c][k].lock /\ frames[c][i].lock # "none"
      => frames[c][i].does = "enters"

\* A core that does not run does nothing, and the locks that are enabled are taken by their holders.
LockInv ==
  /\ LockTypeOK
  /\ \A c \in Cores : Nested(c) /\ Once(c)
  /\ ~s_bEnabled => \A c \in Cores \ {Core0} : frames[c] = <<>>
  /\ s_bEnabled => \A c \in Cores : \A i \in DOMAIN frames[c] : \A l \in Locks :
                     Holds(c, i, l) => l \in m_nLocked
  /\ Exclusive

-----------------------------------------------------------------------------
(* The three ways in which a step changes the frames of a core *)

Pushes(c, f) == frames' = [frames EXCEPT ![c] = Append(frames[c], f)]
Replaces(c, f) == frames' = [frames EXCEPT ![c][Len(frames[c])] = f]
Pops(c) == frames' = Popped(c)

\* The frames after such a step, one by one.
LEMMA Pushed ==
  ASSUME LockTypeOK, NEW c \in Cores, NEW f \in LockFrame, Pushes(c, f)
  PROVE  /\ frames'[c] = Append(frames[c], f)
         /\ frames' \in [Cores -> Seq(LockFrame)]
         /\ DOMAIN frames'[c] = 1 .. Len(frames[c]) + 1
         /\ Len(frames'[c]) = Len(frames[c]) + 1
         /\ \A i \in 1 .. Len(frames[c]) : frames'[c][i] = frames[c][i]
         /\ frames'[c][Len(frames[c]) + 1] = f
         /\ \A d \in Cores \ {c} : frames'[d] = frames[d]
  BY DEF LockTypeOK, Pushes

LEMMA Replaced ==
  ASSUME LockTypeOK, NEW c \in Cores, NEW f \in LockFrame, Replaces(c, f), frames[c] # <<>>
  PROVE  /\ frames' \in [Cores -> Seq(LockFrame)]
         /\ Len(frames[c]) \in DOMAIN frames[c]
         /\ DOMAIN frames'[c] = DOMAIN frames[c]
         /\ Len(frames'[c]) = Len(frames[c])
         /\ \A i \in DOMAIN frames[c] \ {Len(frames[c])} : frames'[c][i] = frames[c][i]
         /\ frames'[c][Len(frames[c])] = f
         /\ \A d \in Cores \ {c} : frames'[d] = frames[d]
  BY DEF LockTypeOK, Replaces

LEMMA PoppedOff ==
  ASSUME LockTypeOK, NEW c \in Cores, Pops(c), frames[c] # <<>>
  PROVE  /\ frames' \in [Cores -> Seq(LockFrame)]
         /\ Len(frames[c]) \in Nat \ {0}
         /\ DOMAIN frames'[c] = 1 .. Len(frames[c]) - 1
         /\ Len(frames'[c]) = Len(frames[c]) - 1
         /\ \A i \in 1 .. Len(frames[c]) - 1 : frames'[c][i] = frames[c][i]
         /\ \A d \in Cores \ {c} : frames'[d] = frames[d]
<1> DEFINE s == frames[c]
<1>1. s \in Seq(LockFrame) /\ Len(s) \in Nat \ {0} /\ DOMAIN s = 1 .. Len(s)
  BY DEF LockTypeOK
<1>2. /\ frames'[c] = SubSeq(s, 1, Len(s) - 1)
      /\ \A d \in Cores \ {c} : frames'[d] = frames[d]
      /\ DOMAIN frames' = Cores
  BY DEF LockTypeOK, Pops, Popped, Front
<1>3. /\ SubSeq(s, 1, Len(s) - 1) \in Seq(LockFrame)
      /\ Len(SubSeq(s, 1, Len(s) - 1)) = Len(s) - 1
      /\ DOMAIN SubSeq(s, 1, Len(s) - 1) = 1 .. Len(s) - 1
      /\ \A i \in 1 .. Len(s) - 1 : SubSeq(s, 1, Len(s) - 1)[i] = s[i]
  <2> HIDE DEF s
  <2> QED
    BY <1>1
<1>4. frames' \in [Cores -> Seq(LockFrame)]
  BY <1>2, <1>3 DEF LockTypeOK, Pops, Popped
<1> QED
  BY <1>1, <1>2, <1>3, <1>4

LEMMA PushNested ==
  ASSUME LockTypeOK, NEW c \in Cores, Nested(c), NEW f \in LockFrame, FrameOK(f), f.saved = CPSR[c],
         Pushes(c, f), CPSR'[c] = Disables(f)
  PROVE  Nested(c)'
<1>1. frames[c] \in Seq(LockFrame) /\ DOMAIN frames[c] = 1 .. Len(frames[c]) /\ Len(frames[c]) \in Nat
  BY DEF LockTypeOK
<1>2. \A i \in DOMAIN frames'[c] : FrameOK(frames'[c][i])
  BY Pushed, <1>1 DEF Nested
<1>3. \A i \in DOMAIN frames[c] : frames[c][i] \in LockFrame
  BY <1>1
<1>4. \A i \in DOMAIN frames[c] : Disables(frames[c][i]) <= CPSR[c]
  <2> SUFFICES ASSUME NEW i \in DOMAIN frames[c] PROVE Disables(frames[c][i]) <= CPSR[c]
    OBVIOUS
  <2>1. CASE i = Len(frames[c])
    <3>1. Disables(frames[c][i]) = CPSR[c] /\ Disables(frames[c][i]) \in Levels
      BY <1>1, <1>3, <2>1 DEF Nested, Top, Disables, LockFrame
    <3> QED
      BY <3>1 DEF Levels, TASK_LEVEL, IRQ_LEVEL, FIQ_LEVEL
  <2>2. CASE i # Len(frames[c])
    <3>1. /\ i < Len(frames[c]) /\ Len(frames[c]) \in DOMAIN frames[c]
          /\ Disables(frames[c][i]) <= Top(c).saved
      BY <1>1, <2>2 DEF Nested, Top
    <3>2. Top(c) \in LockFrame /\ FrameOK(Top(c)) /\ CPSR[c] = Disables(Top(c)) /\ frames[c][i] \in LockFrame
      BY <1>1, <1>3, <3>1 DEF Nested, Top
    <3>3. Top(c).saved <= Disables(Top(c))
      BY <3>2 DEF LockFrame, FrameOK, Disables, Levels, TASK_LEVEL, IRQ_LEVEL, FIQ_LEVEL
    <3>4. /\ Disables(frames[c][i]) \in Levels /\ Top(c).saved \in Levels
          /\ Disables(Top(c)) \in Levels
      BY <3>2 DEF LockFrame, Disables
    <3> QED
      BY <3>1, <3>2, <3>3, <3>4 DEF Levels, TASK_LEVEL, IRQ_LEVEL, FIQ_LEVEL
  <2> QED
    BY <2>1, <2>2
<1>5. \A i, k \in DOMAIN frames'[c] : i < k => Disables(frames'[c][i]) <= frames'[c][k].saved
  <2> SUFFICES ASSUME NEW i \in DOMAIN frames'[c], NEW k \in DOMAIN frames'[c], i < k
               PROVE  Disables(frames'[c][i]) <= frames'[c][k].saved
    OBVIOUS
  <2>1. i \in 1 .. Len(frames[c]) /\ frames'[c][i] = frames[c][i]
    BY Pushed, <1>1
  <2>2. CASE k = Len(frames[c]) + 1
    BY Pushed, <1>1, <1>4, <2>1, <2>2
  <2>3. CASE k # Len(frames[c]) + 1
    <3>1. k \in 1 .. Len(frames[c]) /\ frames'[c][k] = frames[c][k]
      BY Pushed, <1>1, <2>3
    <3> QED
      BY <1>1, <2>1, <3>1 DEF Nested
  <2> QED
    BY <2>2, <2>3
<1>6. \A i \in DOMAIN frames'[c] :
        frames'[c][i].saved = IF i = 1 THEN TASK_LEVEL ELSE Disables(frames'[c][i - 1])
  <2> SUFFICES ASSUME NEW i \in DOMAIN frames'[c]
               PROVE  frames'[c][i].saved = IF i = 1 THEN TASK_LEVEL ELSE Disables(frames'[c][i - 1])
    OBVIOUS
  <2>1. i \in 1 .. Len(frames[c]) + 1
    BY Pushed
  <2>2. CASE i = Len(frames[c]) + 1
    <3>1. frames'[c][i].saved = CPSR[c]
      BY Pushed, <2>2
    <3>2. CASE i = 1
      <4>1. frames[c] = <<>>
        BY <1>1, <2>2, <3>2
      <4> QED
        BY <3>1, <3>2, <4>1 DEF Nested
    <3>3. CASE i # 1
      <4>1. frames[c] # <<>> /\ i - 1 = Len(frames[c]) /\ i - 1 \in 1 .. Len(frames[c])
        BY <1>1, <2>1, <2>2, <3>3
      <4> QED
        BY Pushed, <3>1, <3>3, <4>1 DEF Nested, Top
    <3> QED
      BY <3>2, <3>3
  <2>3. CASE i # Len(frames[c]) + 1
    <3>1. i \in 1 .. Len(frames[c]) /\ (i # 1 => i - 1 \in 1 .. Len(frames[c]))
      BY <1>1, <2>1, <2>3
    <3> QED
      BY Pushed, <1>1, <3>1 DEF Nested
  <2> QED
    BY <2>2, <2>3
<1>7. CPSR'[c] = IF frames'[c] = <<>> THEN TASK_LEVEL ELSE Disables(Top(c)')
  <2>1. frames'[c] # <<>> /\ Top(c)' = f
    BY Pushed, <1>1 DEF Top
  <2> QED
    BY <2>1
<1> QED
  BY <1>2, <1>5, <1>6, <1>7 DEF Nested

LEMMA ReplaceNested ==
  ASSUME LockTypeOK, NEW c \in Cores, Nested(c), frames[c] # <<>>, NEW f \in LockFrame, FrameOK(f),
         f.saved = Top(c).saved, Replaces(c, f), CPSR'[c] = Disables(f)
  PROVE  Nested(c)'
<1> DEFINE n == Len(frames[c])
<1>1. /\ frames[c] \in Seq(LockFrame) /\ DOMAIN frames[c] = 1 .. n /\ n \in Nat \ {0}
  BY DEF LockTypeOK
<1>2. \A i \in DOMAIN frames'[c] : FrameOK(frames'[c][i])
  BY Replaced, <1>1 DEF Nested
<1>3. \A i \in 1 .. n : frames'[c][i].saved = frames[c][i].saved
  BY Replaced, <1>1 DEF Top
<1>4. \A i \in 1 .. n - 1 : frames'[c][i] = frames[c][i]
  BY Replaced, <1>1
<1>5. \A i, k \in DOMAIN frames'[c] : i < k => Disables(frames'[c][i]) <= frames'[c][k].saved
  <2> SUFFICES ASSUME NEW i \in 1 .. n, NEW k \in 1 .. n, i < k
               PROVE  Disables(frames'[c][i]) <= frames'[c][k].saved
    BY Replaced, <1>1
  <2>1. frames'[c][i] = frames[c][i]
    BY <1>1, <1>4
  <2> QED
    BY <1>1, <1>3, <2>1 DEF Nested
<1>6. \A i \in DOMAIN frames'[c] :
        frames'[c][i].saved = IF i = 1 THEN TASK_LEVEL ELSE Disables(frames'[c][i - 1])
  <2> SUFFICES ASSUME NEW i \in 1 .. n
               PROVE  frames'[c][i].saved = IF i = 1 THEN TASK_LEVEL ELSE Disables(frames'[c][i - 1])
    BY Replaced, <1>1
  <2>1. i # 1 => frames'[c][i - 1] = frames[c][i - 1]
    BY <1>1, <1>4
  <2> QED
    BY <1>1, <1>3, <2>1 DEF Nested
<1>7. CPSR'[c] = IF frames'[c] = <<>> THEN TASK_LEVEL ELSE Disables(Top(c)')
  <2>1. frames'[c] # <<>> /\ Top(c)' = f
    BY Replaced, <1>1 DEF Top
  <2> QED
    BY <2>1
<1> QED
  BY <1>2, <1>5, <1>6, <1>7 DEF Nested

LEMMA PopNested ==
  ASSUME LockTypeOK, NEW c \in Cores, Nested(c), frames[c] # <<>>, Pops(c), CPSR'[c] = Top(c).saved
  PROVE  Nested(c)'
<1> DEFINE n == Len(frames[c])
<1>1. frames[c] \in Seq(LockFrame) /\ DOMAIN frames[c] = 1 .. n /\ n \in Nat \ {0}
  BY DEF LockTypeOK
<1>2. /\ \A i \in 1 .. n - 1 : i \in 1 .. n /\ frames'[c][i] = frames[c][i]
      /\ DOMAIN frames'[c] = 1 .. n - 1 /\ Len(frames'[c]) = n - 1
  BY PoppedOff, <1>1
<1>3. \A i \in DOMAIN frames'[c] : FrameOK(frames'[c][i])
  BY <1>1, <1>2 DEF Nested
<1>4. \A i, k \in DOMAIN frames'[c] : i < k => Disables(frames'[c][i]) <= frames'[c][k].saved
  BY <1>1, <1>2 DEF Nested
<1>5. \A i \in DOMAIN frames'[c] :
        frames'[c][i].saved = IF i = 1 THEN TASK_LEVEL ELSE Disables(frames'[c][i - 1])
  <2> SUFFICES ASSUME NEW i \in 1 .. n - 1
               PROVE  frames'[c][i].saved = IF i = 1 THEN TASK_LEVEL ELSE Disables(frames'[c][i - 1])
    BY <1>2
  <2>1. i # 1 => i - 1 \in 1 .. n - 1
    BY <1>1
  <2> QED
    BY <1>1, <1>2, <2>1 DEF Nested
<1>6. CPSR'[c] = IF frames'[c] = <<>> THEN TASK_LEVEL ELSE Disables(Top(c)')
  <2>1. Top(c).saved = IF n = 1 THEN TASK_LEVEL ELSE Disables(frames[c][n - 1])
    <3>1. n \in DOMAIN frames[c]
      BY <1>1
    <3> HIDE DEF n
    <3>2. frames[c][n].saved = IF n = 1 THEN TASK_LEVEL ELSE Disables(frames[c][n - 1])
      BY <3>1 DEF Nested
    <3> QED
      BY <3>2 DEF Top, n
  <2>2. frames'[c] = <<>> <=> n = 1
    <3>1. frames'[c] \in Seq(LockFrame)
      BY PoppedOff
    <3>2. Len(frames'[c]) = 0 <=> n = 1
      BY <1>1, <1>2
    <3>3. Len(frames'[c]) = 0 <=> frames'[c] = <<>>
      BY <3>1
    <3> QED
      BY <3>2, <3>3
  <2>3. ASSUME n # 1 PROVE Top(c)' = frames[c][n - 1]
    <3>1. n - 1 \in 1 .. n - 1
      <4>1. n \in Nat \ {0}
        BY <1>1
      <4> HIDE DEF n
      <4> QED
        BY <4>1, <2>3
    <3>2. frames'[c][n - 1] = frames[c][n - 1] /\ Len(frames'[c]) = n - 1
      BY <1>2, <3>1
    <3> HIDE DEF n
    <3> QED
      BY <3>2 DEF Top
  <2> QED
    BY <2>1, <2>2, <2>3
<1> QED
  BY <1>3, <1>4, <1>5, <1>6 DEF Nested

-----------------------------------------------------------------------------
(* A lock is acquired once on a core *)

\* A frame of the same lock belongs to what a handler has interrupted.  If it had entered the
\* critical section, the handler would not have been called, or could not use the lock.
LEMMA AcquireOnce ==
  ASSUME LockTypeOK, NEW c \in Cores, Nested(c), Once(c), NEW l \in Locks, MayUse(c, l),
         NEW f \in LockFrame, f.lock = l, Pushes(c, f)
  PROVE  Once(c)'
<1> DEFINE n == Len(frames[c])
<1>1. /\ frames[c] \in Seq(LockFrame) /\ DOMAIN frames[c] = 1 .. n /\ n \in Nat
      /\ DOMAIN frames'[c] = 1 .. n + 1 /\ frames'[c][n + 1] = f
      /\ \A i \in 1 .. n : frames'[c][i] = frames[c][i]
  BY Pushed DEF LockTypeOK
<1> HIDE DEF n
<1> SUFFICES ASSUME NEW i \in 1 .. n + 1, NEW k \in 1 .. n + 1, i < k,
                    frames'[c][i].lock = frames'[c][k].lock, frames'[c][i].lock # "none"
             PROVE  frames'[c][i].does = "enters"
  BY <1>1 DEF Once
<1>2. i \in 1 .. n /\ frames'[c][i] = frames[c][i] /\ i \in DOMAIN frames[c]
  BY <1>1
<1>3. CASE k # n + 1
  <2>1. k \in DOMAIN frames[c] /\ frames'[c][k] = frames[c][k]
    BY <1>1, <1>3
  <2> QED
    BY <1>2, <2>1 DEF Once
<1>4. CASE k = n + 1
  <2> SUFFICES ASSUME frames[c][i].does # "enters" PROVE FALSE
    BY <1>2
  <2>1. frames[c][i].lock = l
    BY <1>1, <1>2, <1>4
  <2>2. PICK j \in i + 1 .. Len(frames[c]) : frames[c][j].does = "handles"
    BY <1>2, <2>1 DEF MayUse, InCurrent
  <2>3. j \in DOMAIN frames[c] /\ i < j
    BY <1>1, <1>2, <2>2 DEF n
  <2>4. /\ frames[c][j].level <= m_nTargetLevel[l]
        /\ frames[c][j].saved < frames[c][j].level
        /\ Disables(frames[c][i]) <= frames[c][j].saved
    BY <1>2, <2>2, <2>3 DEF MayUse, RunsAt, Nested, FrameOK
  <2>5. frames[c][i].level = m_nTargetLevel[l]
    BY <1>2, <2>1, SpinLockAssumption DEF Nested, FrameOK
  <2>6. frames[c][i] \in LockFrame /\ frames[c][j] \in LockFrame
    BY <1>1, <1>2, <2>3
  <2>7. /\ frames[c][i].level \in Levels /\ frames[c][j].level \in Levels
        /\ frames[c][j].saved \in Levels
    BY <2>6 DEF LockFrame
  <2>8. CASE frames[c][i].level = TASK_LEVEL
    BY <2>4, <2>5, <2>7, <2>8 DEF Levels, TASK_LEVEL, IRQ_LEVEL, FIQ_LEVEL
  <2>9. CASE frames[c][i].level # TASK_LEVEL
    <3>1. Disables(frames[c][i]) = frames[c][i].level
      BY <2>9 DEF Disables
    <3> QED
      BY <2>4, <2>5, <2>7, <3>1 DEF Levels, TASK_LEVEL, IRQ_LEVEL, FIQ_LEVEL
  <2> QED
    BY <2>8, <2>9
<1> QED
  BY <1>3, <1>4

LEMMA InterruptOnce ==
  ASSUME LockTypeOK, NEW c \in Cores, Once(c), NEW f \in LockFrame, f.lock = "none", Pushes(c, f)
  PROVE  Once(c)'
<1>1. \A i, k \in DOMAIN frames'[c] :
        i < k /\ frames'[c][i].lock = frames'[c][k].lock /\ frames'[c][i].lock # "none"
          => /\ i \in DOMAIN frames[c] /\ frames'[c][i] = frames[c][i]
             /\ k \in DOMAIN frames[c] /\ frames'[c][k] = frames[c][k]
  BY Pushed DEF LockTypeOK
<1> QED
  BY <1>1 DEF Once

LEMMA ReplaceOnce ==
  ASSUME LockTypeOK, NEW c \in Cores, Once(c), frames[c] # <<>>, NEW f \in LockFrame,
         f.lock = Top(c).lock, Replaces(c, f)
  PROVE  Once(c)'
<1> DEFINE n == Len(frames[c])
<1>1. /\ n \in Nat /\ DOMAIN frames[c] = 1 .. n /\ DOMAIN frames'[c] = 1 .. n
      /\ \A i \in 1 .. n : i # n => frames'[c][i] = frames[c][i]
      /\ frames'[c][n].lock = frames[c][n].lock
  BY Replaced DEF LockTypeOK, Top
<1> HIDE DEF n
<1>2. \A i \in 1 .. n : frames'[c][i].lock = frames[c][i].lock
  BY <1>1
<1>3. \A i, k \in 1 .. n : i < k => frames'[c][i] = frames[c][i]
  BY <1>1
<1> QED
  BY <1>1, <1>2, <1>3 DEF Once

LEMMA PopOnce ==
  ASSUME LockTypeOK, NEW c \in Cores, Once(c), frames[c] # <<>>, Pops(c)
  PROVE  Once(c)'
<1> DEFINE n == Len(frames[c])
<1>1. /\ n \in Nat \ {0} /\ DOMAIN frames[c] = 1 .. n /\ DOMAIN frames'[c] = 1 .. n - 1
      /\ \A i \in 1 .. n - 1 : frames'[c][i] = frames[c][i]
  BY PoppedOff DEF LockTypeOK
<1> HIDE DEF n
<1>2. \A i \in 1 .. n - 1 : i \in 1 .. n
  BY <1>1
<1> QED
  BY <1>1, <1>2 DEF Once

-----------------------------------------------------------------------------
(* Steps after which no other frame holds a lock than before *)

LEMMA PushHolds ==
  ASSUME LockTypeOK, NEW c \in Cores, NEW f \in LockFrame, f.does # "holds", Pushes(c, f),
         NEW d \in Cores, NEW i \in DOMAIN frames'[d], NEW l \in Locks, Holds(d, i, l)'
  PROVE  i \in DOMAIN frames[d] /\ Holds(d, i, l)
<1>1. CASE d # c
  <2>1. frames'[d] = frames[d]
    BY <1>1, Pushed
  <2> QED
    BY <1>1, <2>1 DEF Holds
<1>2. CASE d = c
  <2>1. /\ Len(frames[c]) \in Nat /\ DOMAIN frames[c] = 1 .. Len(frames[c])
        /\ i \in 1 .. Len(frames[c]) + 1
    BY <1>2, Pushed DEF LockTypeOK
  <2>2. i # Len(frames[c]) + 1
    BY <1>2, Pushed DEF Holds
  <2>3. i \in 1 .. Len(frames[c])
    BY <2>1, <2>2
  <2> QED
    BY <1>2, <2>1, <2>3, Pushed DEF Holds
<1> QED
  BY <1>1, <1>2

LEMMA ReplaceHolds ==
  ASSUME LockTypeOK, NEW c \in Cores, NEW f \in LockFrame, f.does # "holds", Replaces(c, f),
         frames[c] # <<>>,
         NEW d \in Cores, NEW i \in DOMAIN frames'[d], NEW l \in Locks, Holds(d, i, l)'
  PROVE  i \in DOMAIN frames[d] /\ Holds(d, i, l) /\ ~(d = c /\ i = Len(frames[c]))
<1>1. CASE d # c
  <2>1. frames'[d] = frames[d]
    BY <1>1, Replaced
  <2> QED
    BY <1>1, <2>1 DEF Holds
<1>2. CASE d = c
  <2>1. i \in DOMAIN frames[c]
    BY <1>2, Replaced
  <2>2. i # Len(frames[c])
    BY <1>2, Replaced DEF Holds
  <2> QED
    BY <1>2, <2>1, <2>2, Replaced DEF Holds
<1> QED
  BY <1>1, <1>2

LEMMA PopHolds ==
  ASSUME LockTypeOK, NEW c \in Cores, Pops(c), frames[c] # <<>>,
         NEW d \in Cores, NEW i \in DOMAIN frames'[d], NEW l \in Locks, Holds(d, i, l)'
  PROVE  i \in DOMAIN frames[d] /\ Holds(d, i, l) /\ ~(d = c /\ i = Len(frames[c]))
<1>1. CASE d # c
  <2>1. frames'[d] = frames[d]
    BY <1>1, PoppedOff
  <2> QED
    BY <1>1, <2>1 DEF Holds
<1>2. CASE d = c
  <2>1. /\ Len(frames[c]) \in Nat \ {0} /\ DOMAIN frames[c] = 1 .. Len(frames[c])
        /\ i \in 1 .. Len(frames[c]) - 1
    BY <1>2, PoppedOff DEF LockTypeOK
  <2>2. i \in 1 .. Len(frames[c]) /\ i # Len(frames[c])
    BY <2>1
  <2> QED
    BY <1>2, <2>1, <2>2, PoppedOff DEF Holds
<1> QED
  BY <1>1, <1>2

-----------------------------------------------------------------------------
(* The invariant *)

\* A step concerns one core; what remains to be shown for it are its frames and the locks.
LEMMA StepInv ==
  ASSUME LockInv, NEW c \in Cores, s_bEnabled' = s_bEnabled, ~s_bEnabled => c = Core0,
         frames' \in [Cores -> Seq(LockFrame)], CPSR' \in [Cores -> Levels],
         m_nLocked' \in SUBSET Locks,
         \A d \in Cores \ {c} : frames'[d] = frames[d] /\ CPSR'[d] = CPSR[d],
         Nested(c)', Once(c)', Exclusive',
         s_bEnabled => \A d \in Cores : \A i \in DOMAIN frames'[d] : \A l \in Locks :
                         Holds(d, i, l)' => l \in m_nLocked'
  PROVE  LockInv'
<1>1. \A d \in Cores : Nested(d)' /\ Once(d)'
  <2> SUFFICES ASSUME NEW d \in Cores \ {c} PROVE Nested(d)' /\ Once(d)'
    OBVIOUS
  <2>1. Nested(d) /\ Once(d)
    BY DEF LockInv
  <2>2. Top(d)' = Top(d)
    BY DEF Top
  <2> QED
    BY <2>1, <2>2 DEF Nested, Once
<1>2. LockTypeOK'
  BY DEF LockInv, LockTypeOK
<1>3. ~s_bEnabled' => \A d \in Cores \ {Core0} : frames'[d] = <<>>
  BY DEF LockInv
<1> QED
  BY <1>1, <1>2, <1>3 DEF LockInv

\* Nobody holds a lock who has not held it before.
LEMMA NoNewHolder ==
  ASSUME LockInv,
         \A d \in Cores : \A i \in DOMAIN frames'[d] : \A l \in Locks :
           Holds(d, i, l)' => /\ i \in DOMAIN frames[d] /\ Holds(d, i, l)
                              /\ s_bEnabled => l \in m_nLocked'
  PROVE  /\ Exclusive'
         /\ s_bEnabled => \A d \in Cores : \A i \in DOMAIN frames'[d] : \A l \in Locks :
                            Holds(d, i, l)' => l \in m_nLocked'
<1>1. Exclusive'
  <2> SUFFICES ASSUME NEW l \in Locks, NEW c \in Cores, NEW d \in Cores,
                      NEW i \in DOMAIN frames'[c], NEW j \in DOMAIN frames'[d],
                      Holds(c, i, l)', Holds(d, j, l)'
               PROVE  c = d /\ i = j
    BY DEF Exclusive
  <2>1. /\ i \in DOMAIN frames[c] /\ Holds(c, i, l)
        /\ j \in DOMAIN frames[d] /\ Holds(d, j, l)
    OBVIOUS
  <2> QED
    BY <2>1 DEF LockInv, Exclusive
<1> QED
  BY <1>1

\* The frame whose step is next.
LEMMA TopFrame ==
  ASSUME LockInv, NEW c \in Cores, frames[c] # <<>>
  PROVE  /\ Len(frames[c]) \in DOMAIN frames[c]
         /\ Top(c) \in LockFrame /\ FrameOK(Top(c))
         /\ CPSR[c] = Disables(Top(c))
<1>1. frames[c] \in Seq(LockFrame) /\ Len(frames[c]) \in DOMAIN frames[c]
  BY DEF LockInv, LockTypeOK
<1> QED
  BY <1>1 DEF LockInv, Nested, Top

\* A step that only goes on with it.
LEMMA GoesOn ==
  ASSUME LockInv, NEW c \in Cores, frames[c] # <<>>, NEW what \in {"spins", "holds", "leaves"},
         frames' = TopDoes(c, what)
  PROVE  /\ Replaces(c, [Top(c) EXCEPT !.does = what])
         /\ [Top(c) EXCEPT !.does = what] \in LockFrame
BY TopFrame DEF TopDoes, Replaces, Top, LockFrame

LEMMA AcquireKeeps ==
  ASSUME LockInv, NEW c \in Cores, ~s_bEnabled => c = Core0, UNCHANGED s_bEnabled,
         NEW l \in Locks, Acquire(c, l)
  PROVE  LockInv'
<1> DEFINE f == [does |-> IF m_nTargetLevel[l] >= IRQ_LEVEL THEN "enters" ELSE "spins",
                 lock |-> l, level |-> m_nTargetLevel[l], saved |-> CPSR[c]]
<1>1. /\ LockTypeOK /\ Nested(c) /\ Once(c) /\ CPSR[c] \in Levels /\ m_nTargetLevel[l] \in Levels
      /\ MayUse(c, l)
  BY SpinLockAssumption DEF LockInv, LockTypeOK, Acquire
<1>2. f \in LockFrame
  BY <1>1 DEF LockFrame
<1>3. FrameOK(f) /\ f.saved = CPSR[c] /\ Disables(f) = CPSR[c] /\ f.does # "holds" /\ f.lock = l
  BY <1>1 DEF FrameOK, Disables, MayUse, Levels, TASK_LEVEL, IRQ_LEVEL, FIQ_LEVEL
<1>4. Pushes(c, f) /\ CPSR' = CPSR /\ m_nLocked' = m_nLocked
  BY DEF Acquire, Pushes
<1> HIDE DEF f
<1>5. Nested(c)'
  BY <1>1, <1>2, <1>3, <1>4, PushNested
<1>6. Once(c)'
  BY <1>1, <1>2, <1>3, <1>4, AcquireOnce
<1>7. \A d \in Cores : \A i \in DOMAIN frames'[d] : \A k \in Locks :
        Holds(d, i, k)' => /\ i \in DOMAIN frames[d] /\ Holds(d, i, k)
                           /\ s_bEnabled => k \in m_nLocked'
  BY <1>1, <1>2, <1>3, <1>4, PushHolds DEF LockInv
<1> QED
  BY <1>1, <1>2, <1>4, <1>5, <1>6, <1>7, Pushed, NoNewHolder, StepInv DEF LockTypeOK

LEMMA InterruptKeeps ==
  ASSUME LockInv, NEW c \in Cores, ~s_bEnabled => c = Core0, UNCHANGED s_bEnabled,
         NEW level \in {IRQ_LEVEL, FIQ_LEVEL}, Interrupt(c, level)
  PROVE  LockInv'
<1> DEFINE f == [does |-> "handles", lock |-> "none", level |-> level, saved |-> CPSR[c]]
<1>1. LockTypeOK /\ Nested(c) /\ Once(c) /\ CPSR[c] \in Levels /\ level \in Levels /\ CPSR[c] < level
  BY DEF LockInv, LockTypeOK, Interrupt, Levels
<1>2. f \in LockFrame
  BY <1>1 DEF LockFrame
<1>3. /\ FrameOK(f) /\ f.saved = CPSR[c] /\ Disables(f) = level
      /\ f.does # "holds" /\ f.lock = "none"
  BY <1>1 DEF FrameOK, Disables, TASK_LEVEL, IRQ_LEVEL, FIQ_LEVEL
<1>4. Pushes(c, f) /\ CPSR' = [CPSR EXCEPT ![c] = level] /\ m_nLocked' = m_nLocked
  BY DEF Interrupt, Pushes
<1> HIDE DEF f
<1>5. /\ CPSR' \in [Cores -> Levels] /\ CPSR'[c] = level
      /\ \A d \in Cores \ {c} : CPSR'[d] = CPSR[d]
  BY <1>1, <1>4 DEF LockTypeOK
<1>6. Nested(c)'
  BY <1>1, <1>2, <1>3, <1>4, <1>5, PushNested
<1>7. Once(c)'
  BY <1>1, <1>2, <1>3, <1>4, InterruptOnce
<1>8. \A d \in Cores : \A i \in DOMAIN frames'[d] : \A k \in Locks :
        Holds(d, i, k)' => /\ i \in DOMAIN frames[d] /\ Holds(d, i, k)
                           /\ s_bEnabled => k \in m_nLocked'
  BY <1>1, <1>2, <1>3, <1>4, PushHolds DEF LockInv
<1> QED
  BY <1>1, <1>2, <1>4, <1>5, <1>6, <1>7, <1>8, Pushed, NoNewHolder, StepInv DEF LockTypeOK

LEMMA EnterCriticalKeeps ==
  ASSUME LockInv, NEW c \in Cores, ~s_bEnabled => c = Core0, UNCHANGED s_bEnabled,
         EnterCritical(c)
  PROVE  LockInv'
<1> DEFINE f == [Top(c) EXCEPT !.does = "spins"]
<1>1. /\ LockTypeOK /\ Nested(c) /\ Once(c) /\ frames[c] # <<>> /\ Top(c).does = "enters"
      /\ m_nLocked' = m_nLocked /\ CPSR' = [CPSR EXCEPT ![c] = Top(c).level]
  BY DEF LockInv, EnterCritical, Does
<1>2. Top(c) \in LockFrame /\ FrameOK(Top(c))
  BY <1>1, TopFrame
<1>3. /\ FrameOK(f) /\ f.saved = Top(c).saved /\ Disables(f) = Top(c).level
      /\ f.does # "holds" /\ f.lock = Top(c).lock /\ Top(c).level \in Levels
  BY <1>1, <1>2 DEF LockFrame, FrameOK, Disables
<1>4. Replaces(c, f) /\ f \in LockFrame
  BY <1>1, GoesOn DEF EnterCritical
<1> HIDE DEF f
<1>5. /\ CPSR' \in [Cores -> Levels] /\ CPSR'[c] = Top(c).level
      /\ \A d \in Cores \ {c} : CPSR'[d] = CPSR[d]
  BY <1>1, <1>3 DEF LockTypeOK
<1>6. Nested(c)'
  BY <1>1, <1>3, <1>4, <1>5, ReplaceNested
<1>7. Once(c)'
  BY <1>1, <1>3, <1>4, ReplaceOnce
<1>8. \A d \in Cores : \A i \in DOMAIN frames'[d] : \A k \in Locks :
        Holds(d, i, k)' => /\ i \in DOMAIN frames[d] /\ Holds(d, i, k)
                           /\ s_bEnabled => k \in m_nLocked'
  BY <1>1, <1>3, <1>4, ReplaceHolds DEF LockInv
<1> QED
  BY <1>1, <1>4, <1>5, <1>6, <1>7, <1>8, Replaced, NoNewHolder, StepInv DEF LockTypeOK

\* With locks enabled nobody holds one that is free; otherwise the only core that runs would
\* have it in two frames.
LEMMA SpinKeeps ==
  ASSUME LockInv, NEW c \in Cores, ~s_bEnabled => c = Core0, UNCHANGED s_bEnabled, Spin(c)
  PROVE  LockInv'
<1> DEFINE f == [Top(c) EXCEPT !.does = "holds"]
           n == Len(frames[c])
<1>1. /\ LockTypeOK /\ Nested(c) /\ Once(c) /\ frames[c] # <<>> /\ Top(c).does = "spins"
      /\ CPSR' = CPSR
  BY DEF LockInv, Spin, Does
<1>2. Top(c) \in LockFrame /\ FrameOK(Top(c)) /\ CPSR[c] = Disables(Top(c)) /\ n \in DOMAIN frames[c]
  BY <1>1, TopFrame
<1>3. /\ FrameOK(f) /\ f.saved = Top(c).saved /\ Disables(f) = CPSR[c]
      /\ f.lock = Top(c).lock /\ Top(c).lock \in Locks
  BY <1>1, <1>2 DEF LockFrame, FrameOK, Disables
<1>4. Replaces(c, f) /\ f \in LockFrame
  BY <1>1, GoesOn DEF Spin
<1>5. n \in Nat /\ DOMAIN frames[c] = 1 .. n
  BY DEF LockInv, LockTypeOK
<1> HIDE DEF f, n
<1>6. Nested(c)'
  BY <1>1, <1>3, <1>4, ReplaceNested
<1>7. Once(c)'
  BY <1>1, <1>3, <1>4, ReplaceOnce
<1>8. ASSUME NEW d \in Cores, NEW i \in DOMAIN frames'[d], NEW l \in Locks, Holds(d, i, l)'
      PROVE  (d = c /\ i = n /\ l = Top(c).lock) \/ (i \in DOMAIN frames[d] /\ Holds(d, i, l))
  <2>1. CASE d # c
    BY <1>1, <1>4, <1>8, <2>1, Replaced DEF Holds
  <2>2. CASE d = c /\ i # n
    BY <1>1, <1>4, <1>8, <2>2, Replaced DEF Holds, n
  <2>3. CASE d = c /\ i = n
    BY <1>1, <1>3, <1>4, <1>8, <2>3, Replaced DEF Holds, n
  <2> QED
    BY <2>1, <2>2, <2>3
<1>9. ASSUME NEW d \in Cores, NEW i \in DOMAIN frames[d], Holds(d, i, Top(c).lock) PROVE FALSE
  <2>1. CASE s_bEnabled
    BY <1>3, <1>9, <2>1 DEF LockInv, Spin
  <2>2. CASE ~s_bEnabled
    <3>1. d = c
      BY <2>2, <1>9 DEF LockInv
    <3>2. i # n
      BY <1>1, <1>9, <3>1 DEF Holds, Top, n
    <3>3. i < n
      BY <1>5, <3>1, <3>2
    <3>4. /\ frames[c][i].lock = frames[c][n].lock /\ frames[c][i].lock # "none"
          /\ frames[c][i].does = "holds"
      BY <1>3, <1>9, <3>1, SpinLockAssumption DEF Holds, Top, n
    <3> QED
      BY <1>1, <1>2, <3>1, <3>3, <3>4 DEF Once
  <2> QED
    BY <2>1, <2>2
<1>10. Exclusive'
  <2> SUFFICES ASSUME NEW l \in Locks, NEW d \in Cores, NEW e \in Cores,
                      NEW i \in DOMAIN frames'[d], NEW j \in DOMAIN frames'[e],
                      Holds(d, i, l)', Holds(e, j, l)'
               PROVE  d = e /\ i = j
    BY DEF Exclusive
  <2>1. CASE l = Top(c).lock
    BY <1>8, <1>9, <2>1
  <2>2. CASE l # Top(c).lock
    <3>1. i \in DOMAIN frames[d] /\ Holds(d, i, l) /\ j \in DOMAIN frames[e] /\ Holds(e, j, l)
      BY <1>8, <2>2
    <3> QED
      BY <3>1 DEF LockInv, Exclusive
  <2> QED
    BY <2>1, <2>2
<1>11. ASSUME s_bEnabled, NEW d \in Cores, NEW i \in DOMAIN frames'[d], NEW l \in Locks,
              Holds(d, i, l)'
       PROVE  l \in m_nLocked'
  BY <1>8, <1>11 DEF LockInv, Spin
<1>12. m_nLocked' \in SUBSET Locks
  BY <1>1, <1>3 DEF Spin, LockTypeOK
<1> QED
  BY <1>1, <1>4, <1>6, <1>7, <1>10, <1>11, <1>12, Replaced, StepInv DEF LockTypeOK

LEMMA ReleaseKeeps ==
  ASSUME LockInv, NEW c \in Cores, ~s_bEnabled => c = Core0, UNCHANGED s_bEnabled, Release(c)
  PROVE  LockInv'
<1> DEFINE f == [Top(c) EXCEPT !.does = "leaves"]
           n == Len(frames[c])
<1>1. /\ LockTypeOK /\ Nested(c) /\ Once(c) /\ frames[c] # <<>> /\ Top(c).does = "holds"
      /\ m_nLocked' = m_nLocked \ {Top(c).lock} /\ CPSR' = CPSR
  BY DEF LockInv, Release, Does
<1>2. Top(c) \in LockFrame /\ FrameOK(Top(c)) /\ CPSR[c] = Disables(Top(c)) /\ n \in DOMAIN frames[c]
  BY <1>1, TopFrame
<1>3. Top(c).lock \in Locks /\ Holds(c, n, Top(c).lock)
  BY <1>1, <1>2 DEF FrameOK, Holds, Top
\* No other frame holds the lock, so that none loses it.
<1>4. ASSUME NEW d \in Cores, NEW i \in DOMAIN frames[d], NEW l \in Locks, Holds(d, i, l),
             ~(d = c /\ i = n)
      PROVE  s_bEnabled => l \in m_nLocked'
  <2>1. l # Top(c).lock
    BY <1>2, <1>3, <1>4 DEF LockInv, Exclusive
  <2> QED
    BY <1>1, <1>4, <2>1 DEF LockInv
<1>5. CASE Top(c).level >= IRQ_LEVEL
  <2>1. /\ FrameOK(f) /\ f.saved = Top(c).saved /\ Disables(f) = CPSR[c]
        /\ f.does # "holds" /\ f.lock = Top(c).lock
    BY <1>1, <1>2, <1>5
       DEF LockFrame, FrameOK, Disables, Levels, TASK_LEVEL, IRQ_LEVEL, FIQ_LEVEL
  <2>2. Replaces(c, f) /\ f \in LockFrame
    BY <1>1, <1>5, GoesOn DEF Release
  <2> HIDE DEF f
  <2>3. Nested(c)'
    BY <1>1, <2>1, <2>2, ReplaceNested
  <2>4. Once(c)'
    BY <1>1, <2>1, <2>2, ReplaceOnce
  <2>5. \A d \in Cores : \A i \in DOMAIN frames'[d] : \A k \in Locks :
          Holds(d, i, k)' => i \in DOMAIN frames[d] /\ Holds(d, i, k) /\ ~(d = c /\ i = n)
    BY <1>1, <2>1, <2>2, ReplaceHolds
  <2>6. /\ Exclusive'
        /\ s_bEnabled => \A d \in Cores : \A i \in DOMAIN frames'[d] : \A k \in Locks :
                           Holds(d, i, k)' => k \in m_nLocked'
    BY <1>4, <2>5, NoNewHolder
  <2> QED
    BY <1>1, <2>2, <2>3, <2>4, <2>6, Replaced, StepInv DEF LockTypeOK
<1>6. CASE ~(Top(c).level >= IRQ_LEVEL)
  <2>1. CPSR'[c] = Top(c).saved
    BY <1>1, <1>2, <1>6 DEF LockFrame, Disables, Levels, TASK_LEVEL, IRQ_LEVEL, FIQ_LEVEL
  <2>2. Pops(c)
    BY <1>6 DEF Release, Pops
  <2>3. Nested(c)' /\ Once(c)'
    BY <1>1, <2>1, <2>2, PopNested, PopOnce
  <2>4. \A d \in Cores : \A i \in DOMAIN frames'[d] : \A k \in Locks :
          Holds(d, i, k)' => i \in DOMAIN frames[d] /\ Holds(d, i, k) /\ ~(d = c /\ i = n)
    BY <1>1, <2>2, PopHolds
  <2>5. /\ Exclusive'
        /\ s_bEnabled => \A d \in Cores : \A i \in DOMAIN frames'[d] : \A k \in Locks :
                           Holds(d, i, k)' => k \in m_nLocked'
    BY <1>4, <2>4, NoNewHolder
  <2> QED
    BY <1>1, <2>2, <2>3, <2>5, PoppedOff, StepInv DEF LockTypeOK
<1> QED
  BY <1>5, <1>6

\* A section or a handler is over.
LEMMA PopKeeps ==
  ASSUME LockInv, NEW c \in Cores, ~s_bEnabled => c = Core0, UNCHANGED s_bEnabled,
         LeaveCritical(c) \/ Return(c)
  PROVE  LockInv'
<1>1. /\ LockTypeOK /\ Nested(c) /\ Once(c) /\ frames[c] # <<>> /\ Pops(c)
      /\ m_nLocked' = m_nLocked /\ CPSR' = [CPSR EXCEPT ![c] = Top(c).saved]
  BY DEF LockInv, LeaveCritical, Return, Does, Pops
<1>2. Top(c).saved \in Levels
  BY <1>1, TopFrame DEF LockFrame
<1>3. /\ CPSR' \in [Cores -> Levels] /\ CPSR'[c] = Top(c).saved
      /\ \A d \in Cores \ {c} : CPSR'[d] = CPSR[d]
  BY <1>1, <1>2 DEF LockTypeOK
<1>4. Nested(c)' /\ Once(c)'
  BY <1>1, <1>3, PopNested, PopOnce
<1>5. \A d \in Cores : \A i \in DOMAIN frames'[d] : \A k \in Locks :
        Holds(d, i, k)' => /\ i \in DOMAIN frames[d] /\ Holds(d, i, k)
                           /\ s_bEnabled => k \in m_nLocked'
  BY <1>1, PopHolds DEF LockInv
<1> QED
  BY <1>1, <1>3, <1>4, <1>5, PoppedOff, NoNewHolder, StepInv DEF LockTypeOK

LEMMA LockInitInv == LockInit => LockInv
BY SpinLockAssumption
   DEF LockInit, LockInv, LockTypeOK, Nested, Once, Exclusive, Holds, Levels, TASK_LEVEL

LEMMA LockStepInv == LockInv /\ [LockNext]_lockVars => LockInv'
<1> SUFFICES ASSUME LockInv, [LockNext]_lockVars PROVE LockInv'
  OBVIOUS
<1>1. ASSUME UNCHANGED lockVars PROVE LockInv'
  BY <1>1 DEF lockVars, LockInv, LockTypeOK, Nested, Once, Exclusive, Holds, Top
<1>2. ASSUME LockNext PROVE LockInv'
  <2>1. UNCHANGED s_bEnabled
    BY <1>2 DEF LockNext
  <2>2. PICK c \in IF s_bEnabled THEN Cores ELSE {Core0} :
          \/ \E l \in Locks : Acquire(c, l)
          \/ EnterCritical(c) \/ Spin(c) \/ Release(c) \/ LeaveCritical(c)
          \/ \E level \in {IRQ_LEVEL, FIQ_LEVEL} : Interrupt(c, level)
          \/ Return(c)
    BY <1>2 DEF LockNext
  <2>3. c \in Cores /\ (~s_bEnabled => c = Core0)
    BY SpinLockAssumption
  <2>4. ASSUME NEW l \in Locks, Acquire(c, l) PROVE LockInv'
    BY <2>1, <2>3, <2>4, AcquireKeeps
  <2>5. CASE EnterCritical(c)
    BY <2>1, <2>3, <2>5, EnterCriticalKeeps
  <2>6. CASE Spin(c)
    BY <2>1, <2>3, <2>6, SpinKeeps
  <2>7. CASE Release(c)
    BY <2>1, <2>3, <2>7, ReleaseKeeps
  <2>8. CASE LeaveCritical(c) \/ Return(c)
    BY <2>1, <2>3, <2>8, PopKeeps
  <2>9. ASSUME NEW level \in {IRQ_LEVEL, FIQ_LEVEL}, Interrupt(c, level) PROVE LockInv'
    BY <2>1, <2>3, <2>9, InterruptKeeps
  <2> QED
    BY <2>2, <2>4, <2>5, <2>6, <2>7, <2>8, <2>9
<1> QED
  BY <1>1, <1>2

\* A frame that spins has entered its critical section, and a frame below that held the lock
\* would have kept the lock from being acquired again on its core.
LEMMA InvIsSafe == LockInv => SectionsSafe
<1> SUFFICES ASSUME LockInv PROVE SectionsSafe
  OBVIOUS
<1>1. ASSUME NEW c \in Cores, Does(c, "spins"), NEW i \in DOMAIN frames[c],
             Holds(c, i, Top(c).lock)
      PROVE  FALSE
  <2> DEFINE n == Len(frames[c])
  <2>1. /\ Once(c) /\ n \in DOMAIN frames[c] /\ FrameOK(Top(c)) /\ Top(c).does = "spins"
        /\ DOMAIN frames[c] = 1 .. n /\ n \in Nat /\ Top(c) = frames[c][n]
    BY <1>1, TopFrame DEF LockInv, LockTypeOK, Does, Top
  <2> HIDE DEF n
  <2>2. Top(c).lock # "none"
    BY <2>1, SpinLockAssumption DEF FrameOK
  <2>3. i # n
    BY <1>1, <2>1 DEF Holds
  <2>4. i < n
    BY <2>1, <2>3
  <2> QED
    BY <1>1, <2>1, <2>2, <2>4 DEF Once, Holds
<1>2. ASSUME NEW c \in Cores
      PROVE  /\ frames[c] = <<>> => CPSR[c] = TASK_LEVEL
             /\ Does(c, "handles") => CPSR[c] = Top(c).level
  <2>1. frames[c] = <<>> => CPSR[c] = TASK_LEVEL
    BY DEF LockInv, Nested
  <2>2. ASSUME Does(c, "handles") PROVE CPSR[c] = Top(c).level
    <3>1. /\ FrameOK(Top(c)) /\ CPSR[c] = Disables(Top(c)) /\ Top(c).does = "handles"
          /\ Top(c) \in LockFrame
      BY <2>2, TopFrame DEF Does
    <3>2. Top(c).level # TASK_LEVEL
      BY <3>1 DEF LockFrame, FrameOK, Levels, TASK_LEVEL, IRQ_LEVEL, FIQ_LEVEL
    <3> QED
      BY <3>1, <3>2 DEF Disables
  <2> QED
    BY <2>1, <2>2
<1> QED
  BY <1>1, <1>2 DEF SectionsSafe, NeverForItself, LevelsRestored, LockInv

\* CSpinLock's variables, the CPSR and the nesting keep their types.
THEOREM LockTypeCorrect == LockSpec => []LockTypeOK
<1>1. LockInv => LockTypeOK
  BY DEF LockInv
<1> QED
  BY <1>1, LockInitInv, LockStepInv, PTL DEF LockSpec

\* For any cores, locks and target levels: no lock is held twice, whether by two cores or by a
\* task and a handler that interrupts it; nobody spins for a lock its own core holds; and each
\* critical section gives back the interrupt state it has found.
THEOREM SectionsAreSafe == LockSpec => []SectionsSafe
  BY InvIsSafe, LockInitInv, LockStepInv, PTL DEF LockSpec
=============================================================================
