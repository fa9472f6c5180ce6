-------------------------- MODULE RetransmissionQueue --------------------------
(***************************************************************************)
(* CRetransmissionQueue (lib/net/retransmissionqueue.cpp): a ring buffer   *)
(* with one pointer to write at, one to the first unacknowledged byte and  *)
(* one to the next byte to send.  One action per operation, called the way *)
(* CTCPConnection does: it writes a frame when there is room for the       *)
(* longest one, reads no more than there is, and advances over bytes that  *)
(* it has read.                                                            *)
(***************************************************************************)
EXTENDS Integers, Sequences

CONSTANTS
  Bytes,    \* what a byte can be
  Frame,    \* FRAME_BUFFER_SIZE
  m_nSize   \* TCP_CONFIG_RETRANS_BUFFER_SIZE

ASSUME QueueAssumption ==
  /\ Frame \in Nat \ {0}
  /\ m_nSize \in Nat
  /\ m_nSize > Frame
  /\ Bytes # {}

VARIABLES
  m_pBuffer,
  m_nInPtr,       \* where the next byte is written
  m_nOutPtr,      \* the first unacknowledged byte
  m_nPreOutPtr,   \* the next byte to send
  pBuffer         \* what the last Read has returned

qvars == <<m_pBuffer, m_nInPtr, m_nOutPtr, m_nPreOutPtr, pBuffer>>

Places == 0 .. m_nSize - 1
Chunks == UNION {[1 .. k -> Bytes] : k \in 1 .. Frame}

TypeOK ==
  /\ m_pBuffer \in [Places -> Bytes]
  /\ m_nInPtr \in Places
  /\ m_nOutPtr \in Places
  /\ m_nPreOutPtr \in Places
  /\ pBuffer \in Seq(Bytes)

QInit ==
  /\ m_pBuffer \in [Places -> Bytes]
  /\ m_nInPtr = 0 /\ m_nOutPtr = 0 /\ m_nPreOutPtr = 0
  /\ pBuffer = <<>>

\* Mutant: the pointer is not taken modulo the size.
Step_Linear(p, n) == p + n

\* Where a pointer gets to: p++ and p %= m_nSize, n times.
Step(p, n) == (p + n) % m_nSize

\* How many steps lead from p to q: a wrapped pointer is m_nSize behind.
Ahead(p, q) == IF q < p THEN m_nSize + q - p ELSE q - p

\* Mutant: the place that keeps a full ring from looking empty is used.
GetFreeSpace_Full ==
  IF m_nOutPtr <= m_nInPtr THEN m_nSize + m_nOutPtr - m_nInPtr
                           ELSE m_nOutPtr - m_nInPtr

GetFreeSpace ==
  IF m_nOutPtr <= m_nInPtr THEN m_nSize + m_nOutPtr - m_nInPtr - 1
                           ELSE m_nOutPtr - m_nInPtr - 1

GetBytesAvailable == Ahead(m_nPreOutPtr, m_nInPtr)

\* n bytes of the ring from place p on
Span(p, n) == [k \in 1 .. n |-> m_pBuffer[Step(p, k - 1)]]

Write ==
  /\ GetFreeSpace >= Frame
  /\ \E chunk \in Chunks :
       /\ m_pBuffer' = [p \in Places |->
                          IF Ahead(m_nInPtr, p) < Len(chunk)
                          THEN chunk[Ahead(m_nInPtr, p) + 1]
                          ELSE m_pBuffer[p]]
       /\ m_nInPtr' = Step(m_nInPtr, Len(chunk))
  /\ UNCHANGED <<m_nOutPtr, m_nPreOutPtr, pBuffer>>

Read ==
  /\ \E n \in 1 .. Frame :
       /\ n <= GetBytesAvailable
       /\ pBuffer' = Span(m_nPreOutPtr, n)
       /\ m_nPreOutPtr' = Step(m_nPreOutPtr, n)
  /\ UNCHANGED <<m_pBuffer, m_nInPtr, m_nOutPtr>>

\* The peer has acknowledged n bytes, all of which have been sent.
Advance ==
  /\ \E n \in 1 .. Ahead(m_nOutPtr, m_nPreOutPtr) :
       m_nOutPtr' = Step(m_nOutPtr, n)
  /\ UNCHANGED <<m_pBuffer, m_nInPtr, m_nPreOutPtr, pBuffer>>

Reset ==
  /\ m_nPreOutPtr' = m_nOutPtr
  /\ UNCHANGED <<m_pBuffer, m_nInPtr, m_nOutPtr, pBuffer>>

Flush ==
  /\ m_nInPtr' = 0 /\ m_nOutPtr' = 0 /\ m_nPreOutPtr' = 0
  /\ UNCHANGED <<m_pBuffer, pBuffer>>

QNext == Write \/ Read \/ Advance \/ Reset \/ Flush

QSpec == QInit /\ [][QNext]_qvars

-----------------------------------------------------------------------------
(* The queue the ring stands for.                                           *)

unacked == Span(m_nOutPtr, Ahead(m_nOutPtr, m_nInPtr))
sent    == Ahead(m_nOutPtr, m_nPreOutPtr)

Promise == INSTANCE ByteQueue WITH Capacity <- m_nSize - 1, given <- pBuffer

\* The next byte to send is never outside the unacknowledged bytes: the three
\* pointers keep their order around the ring whichever of them has wrapped.
Ordered == Ahead(m_nOutPtr, m_nPreOutPtr) <= Ahead(m_nOutPtr, m_nInPtr)

\* The ring is a queue of unacknowledged bytes: what is read is what has been
\* written, in order, from the first unacknowledged byte after a Reset, and no
\* byte is overwritten before it is acknowledged.
Implements == Promise!BSpec
=============================================================================
