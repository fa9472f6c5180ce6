------------------------------ MODULE ByteQueue ------------------------------
(***************************************************************************)
(* What CTCPConnection expects of its retransmission queue: a queue of the *)
(* bytes that the peer has not acknowledged.  It is read from the front to *)
(* be sent, bytes stay in it until they are acknowledged, and reading can  *)
(* begin again at the first unacknowledged byte.                           *)
(***************************************************************************)
EXTENDS Integers, Sequences

CONSTANTS
  Bytes,     \* what a byte can be
  Frame,     \* FRAME_BUFFER_SIZE: the longest write and the longest read
  Capacity   \* bytes the queue can hold

VARIABLES
  unacked,   \* the bytes in the queue
  sent,      \* how many of them have been read
  given      \* what the last read has returned

BVars == <<unacked, sent, given>>

Chunks == UNION {[1 .. k -> Bytes] : k \in 1 .. Frame}

BInit == unacked = <<>> /\ sent = 0 /\ given = <<>>

BWrite ==
  /\ Len(unacked) + Frame <= Capacity
  /\ \E chunk \in Chunks : unacked' = unacked \o chunk
  /\ UNCHANGED <<sent, given>>

BRead ==
  /\ \E n \in 1 .. Frame :
       /\ n <= Len(unacked) - sent
       /\ given' = SubSeq(unacked, sent + 1, sent + n)
       /\ sent' = sent + n
  /\ UNCHANGED unacked

BAdvance ==
  /\ \E n \in 1 .. sent :
       /\ unacked' = SubSeq(unacked, n + 1, Len(unacked))
       /\ sent' = sent - n
  /\ UNCHANGED given

BReset == sent' = 0 /\ UNCHANGED <<unacked, given>>

BFlush == unacked' = <<>> /\ sent' = 0 /\ UNCHANGED given

BNext == BReset \/ BFlush \/ BWrite \/ BRead \/ BAdvance

BSpec == BInit /\ [][BNext]_BVars
=============================================================================
