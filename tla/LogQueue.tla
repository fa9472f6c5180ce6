-------------------------------- MODULE LogQueue --------------------------------
(***************************************************************************)
(* What the logger promises: a queue of events that loses the oldest one   *)
(* when another is written to a full queue, and a queue of characters that *)
(* refuses what has no room.  An event that has been taken from the queue  *)
(* is returned as it was written.                                          *)
(***************************************************************************)
EXTENDS Integers, Sequences

CONSTANTS Events, Texts, Callers, NoEvent, EventCapacity, TextCapacity

VARIABLES
  events, \* the queue of events
  taken,  \* the event that a caller has taken and not yet got
  text,   \* the queue of characters
  result  \* what the last call has returned

logVars == <<events, taken, text, result>>

LogInit ==
  /\ events = <<>>
  /\ taken = [c \in Callers |-> NoEvent]
  /\ text = <<>>
  /\ result = <<>>

EnterEvent(e) ==
  /\ events' = IF Len(events) = EventCapacity THEN Append(Tail(events), e) ELSE Append(events, e)
  /\ UNCHANGED <<taken, text, result>>

TakeEvent(c) ==
  /\ taken[c] = NoEvent /\ events # <<>>
  /\ taken' = [taken EXCEPT ![c] = Head(events)]
  /\ events' = Tail(events)
  /\ UNCHANGED <<text, result>>

ReturnEvent(c) ==
  /\ taken[c] # NoEvent
  /\ result' = <<taken[c]>>
  /\ taken' = [taken EXCEPT ![c] = NoEvent]
  /\ UNCHANGED <<events, text>>

WriteText(s) ==
  /\ LET all == text \o s
     IN  text' = SubSeq(all, 1, IF Len(all) < TextCapacity THEN Len(all) ELSE TextCapacity)
  /\ UNCHANGED <<events, taken, result>>

ReadText(n) ==
  /\ n \in 1 .. Len(text)
  /\ result' = SubSeq(text, 1, n)
  /\ text' = SubSeq(text, n + 1, Len(text))
  /\ UNCHANGED <<events, taken>>

LogNext ==
  \/ \E s \in Texts : WriteText(s)
  \/ \E n \in 1 .. TextCapacity : ReadText(n)
  \/ \E e \in Events : EnterEvent(e)
  \/ \E c \in Callers : TakeEvent(c) \/ ReturnEvent(c)

LogSpec == LogInit /\ [][LogNext]_logVars
=============================================================================
