---------------------------- MODULE TimerService ----------------------------
(***************************************************************************)
(* What a user of CTimer's kernel timers is promised (circle/timer.h): a   *)
(* timer calls its handler once, no earlier than its delay after it was    *)
(* started, and "will not elapse any more" once it has been cancelled.     *)
(***************************************************************************)
EXTENDS Integers

CONSTANTS
  Users,   \* whoever owns a timer: a connection, an ARP entry, a keyboard
  Delays,  \* [user -> delays it starts its timer with, in ticks of HZ]
  Null     \* no user

VARIABLES
  armed,   \* [user -> has it a timer that was started and not cancelled]
  left,    \* [user -> ticks its timer has still to run]
  ringing  \* the user whose handler is being called, or Null

svars == <<armed, left, ringing>>

Init ==
  /\ armed = [u \in Users |-> FALSE]
  /\ left = [u \in Users |-> 0]
  /\ ringing = Null

Start(u) ==
  /\ ~armed[u]
  /\ armed' = [armed EXCEPT ![u] = TRUE]
  /\ \E n \in Delays[u] : left' = [left EXCEPT ![u] = n]
  /\ UNCHANGED ringing

Cancel(u) ==
  /\ armed[u]
  /\ armed' = [armed EXCEPT ![u] = FALSE]
  /\ left' = [left EXCEPT ![u] = 0]
  /\ UNCHANGED ringing

Tick ==
  /\ left' = [u \in Users |-> IF armed[u] THEN left[u] - 1 ELSE 0]
  /\ UNCHANGED <<armed, ringing>>

\* Handlers are called one after the other.
Ring(u) ==
  /\ ringing = Null
  /\ armed[u]
  /\ left[u] <= 0
  /\ ringing' = u
  /\ armed' = [armed EXCEPT ![u] = FALSE]
  /\ left' = [left EXCEPT ![u] = 0]

Return == ringing # Null /\ ringing' = Null /\ UNCHANGED <<armed, left>>

Next == Tick \/ Return \/ \E u \in Users : Start(u) \/ Cancel(u) \/ Ring(u)

Spec == Init /\ [][Next]_svars

=============================================================================
