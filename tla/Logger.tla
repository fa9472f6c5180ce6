--------------------------------- MODULE Logger ---------------------------------
(***************************************************************************)
(* CLogger (lib/logger.cpp): a ring of pointers to events and a ring of    *)
(* characters.  It is called by any task, core or interrupt handler; a     *)
(* spin lock keeps the calls apart while they use a ring, but an event is  *)
(* made before, and copied or deleted after that.                          *)
(***************************************************************************)
EXTENDS Integers, Sequences

CONSTANTS
  Events,         \* what an event says
  Addresses,      \* where TLogEvent objects can be
  NoEvent,        \* what is at a free address; the null pointer
  Callers,
  Chars,          \* characters
  Texts,          \* what is written, without '\r', which Write skips
  LOG_QUEUE_SIZE,
  LOGGER_BUFSIZE

ASSUME LoggerAssumption ==
  /\ LOG_QUEUE_SIZE \in Nat \ {0, 1} /\ LOGGER_BUFSIZE \in Nat \ {0, 1}
  /\ Texts \subseteq Seq(Chars)
  /\ NoEvent \notin Events \cup Addresses

VARIABLES
  heap,          \* the event at each address
  m_pEventQueue, \* the ring of pointers, m_nEventInPtr and m_nEventOutPtr
  caller,        \* what a caller does, with which event
  textRing,      \* the ring of characters: m_pBuffer, m_nInPtr and m_nOutPtr
  returned       \* what the last call has returned

loggerVars == <<heap, m_pEventQueue, caller, textRing, returned>>

Idle == [does |-> "nothing", pEvent |-> NoEvent]
EventPlaces == 0 .. LOG_QUEUE_SIZE - 1
TextPlaces == 0 .. LOGGER_BUFSIZE - 1

LoggerTypeOK ==
  /\ heap \in [Addresses -> Events \cup {NoEvent}]
  /\ m_pEventQueue \in [at : [EventPlaces -> Addresses \cup {NoEvent}],
                        inPtr : EventPlaces, outPtr : EventPlaces]
  /\ caller \in [Callers -> [does : {"nothing", "enters", "deletes", "copies"},
                             pEvent : Addresses \cup {NoEvent}]]
  /\ textRing \in [at : [TextPlaces -> Chars \cup {"none"}],
                    inPtr : TextPlaces, outPtr : TextPlaces]
  /\ returned \in Seq(Events \cup Chars)

LoggerInit ==
  /\ heap = [a \in Addresses |-> NoEvent]
  /\ m_pEventQueue = [at |-> [p \in EventPlaces |-> NoEvent], inPtr |-> 0, outPtr |-> 0]
  /\ caller = [c \in Callers |-> Idle]
  /\ textRing = [at |-> [p \in TextPlaces |-> "none"], inPtr |-> 0, outPtr |-> 0]
  /\ returned = <<>>

-----------------------------------------------------------------------------
(* Events *)

\* WriteEvent makes the event, if there is memory for it...
NewEvent(c) ==
  /\ caller[c] = Idle
  /\ \E a \in Addresses, e \in Events :
       /\ heap[a] = NoEvent
       /\ heap' = [heap EXCEPT ![a] = e]
       /\ caller' = [caller EXCEPT ![c] = [does |-> "enters", pEvent |-> a]]
  /\ UNCHANGED <<m_pEventQueue, textRing, returned>>

NextPlace(p) == IF p + 1 = LOG_QUEUE_SIZE THEN 0 ELSE p + 1

\* Mutant: the oldest event is deleted, but stays in a full queue.
Entered_NotDropped(q, a) ==
  [q EXCEPT !.at[q.inPtr] = a, !.inPtr = NextPlace(q.inPtr)]

Full(q) == NextPlace(q.inPtr) = q.outPtr

Entered(q, a) ==
  [q EXCEPT !.at[q.inPtr] = a, !.inPtr = NextPlace(q.inPtr),
            !.outPtr = IF Full(q) THEN NextPlace(q.outPtr) ELSE q.outPtr]

\* ... enters it, in place of the oldest one if the queue is full...
EnterEvent(c) ==
  /\ caller[c].does = "enters"
  /\ m_pEventQueue' = Entered(m_pEventQueue, caller[c].pEvent)
  /\ caller' = [caller EXCEPT ![c] =
                 IF Full(m_pEventQueue)
                 THEN [does |-> "deletes", pEvent |-> m_pEventQueue.at[m_pEventQueue.outPtr]]
                 ELSE Idle]
  /\ UNCHANGED <<heap, textRing, returned>>

\* ... and deletes that one.
DeleteDropped(c) ==
  /\ caller[c].does = "deletes"
  /\ heap' = [heap EXCEPT ![caller[c].pEvent] = NoEvent]
  /\ caller' = [caller EXCEPT ![c] = Idle]
  /\ UNCHANGED <<m_pEventQueue, textRing, returned>>

\* ReadEvent takes the oldest event from the queue...
TakeEvent(c) ==
  /\ caller[c] = Idle
  /\ m_pEventQueue.inPtr # m_pEventQueue.outPtr
  /\ caller' = [caller EXCEPT ![c] =
                 [does |-> "copies", pEvent |-> m_pEventQueue.at[m_pEventQueue.outPtr]]]
  /\ m_pEventQueue' = [m_pEventQueue EXCEPT !.outPtr = NextPlace(@)]
  /\ UNCHANGED <<heap, textRing, returned>>

\* ... copies and deletes it.
CopyEvent(c) ==
  /\ caller[c].does = "copies"
  /\ returned' = <<heap[caller[c].pEvent]>>
  /\ heap' = [heap EXCEPT ![caller[c].pEvent] = NoEvent]
  /\ caller' = [caller EXCEPT ![c] = Idle]
  /\ UNCHANGED <<m_pEventQueue, textRing>>

-----------------------------------------------------------------------------
(* Text *)

TextRoom(b) == (b.outPtr - b.inPtr - 1) % LOGGER_BUFSIZE

\* The loop ends at the first character that has no room: it is stored, but the pointer goes
\* back to it.
Written(b, s) ==
  LET n == IF Len(s) < TextRoom(b) THEN Len(s) ELSE TextRoom(b)
      behind(p) == (p - b.inPtr) % LOGGER_BUFSIZE
  IN  [b EXCEPT !.at = [p \in TextPlaces |-> IF behind(p) < Len(s) /\ behind(p) <= TextRoom(b)
                                             THEN s[behind(p) + 1] ELSE b.at[p]],
                !.inPtr = (b.inPtr + n) % LOGGER_BUFSIZE]

WriteText(s) ==
  /\ textRing' = Written(textRing, s)
  /\ UNCHANGED <<heap, m_pEventQueue, caller, returned>>

\* The queue of characters in the ring.
InText(b) == [k \in 1 .. (b.inPtr - b.outPtr) % LOGGER_BUFSIZE |->
               b.at[(b.outPtr + k - 1) % LOGGER_BUFSIZE]]

\* Read returns nCount characters, or as many as there are.
ReadText(nCount) ==
  /\ textRing.inPtr # textRing.outPtr
  /\ LET n == IF nCount < Len(InText(textRing)) THEN nCount ELSE Len(InText(textRing))
     IN  /\ returned' = SubSeq(InText(textRing), 1, n)
         /\ textRing' = [textRing EXCEPT !.outPtr = (@ + n) % LOGGER_BUFSIZE]
  /\ UNCHANGED <<heap, m_pEventQueue, caller>>

EventStep == \E c \in Callers : NewEvent(c) \/ EnterEvent(c) \/ DeleteDropped(c)
                              \/ TakeEvent(c) \/ CopyEvent(c)
TextStep == (\E s \in Texts : WriteText(s)) \/ \E n \in TextPlaces \ {0} : ReadText(n)

LoggerNext == EventStep \/ TextStep

LoggerSpec == LoggerInit /\ [][LoggerNext]_loggerVars

-----------------------------------------------------------------------------
(* The queues that the rings stand for. *)

EventsIn(q) == [k \in 1 .. (q.inPtr - q.outPtr) % LOG_QUEUE_SIZE |->
                 heap[q.at[(q.outPtr + k - 1) % LOG_QUEUE_SIZE]]]

Log == INSTANCE LogQueue WITH
  EventCapacity <- LOG_QUEUE_SIZE - 1, TextCapacity <- LOGGER_BUFSIZE - 1,
  events <- EventsIn(m_pEventQueue),
  taken <- [c \in Callers |-> IF caller[c].does = "copies" THEN heap[caller[c].pEvent] ELSE NoEvent],
  text <- InText(textRing),
  result <- returned

\* Events and characters are read in the order in which they were written.  Of a full queue
\* only the oldest event is lost, of a text only what has no room, and no event is deleted or
\* its memory used again while a caller still copies it outside the lock (WriteEvent,
\* ReadEvent).
LogKept == Log!LogSpec
=============================================================================
