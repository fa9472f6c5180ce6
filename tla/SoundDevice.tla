------------------------------ MODULE SoundDevice ------------------------------
(***************************************************************************)
(* CPWMSoundBaseDevice (lib/pwmsoundbasedevice.cpp) with the two sources   *)
(* of its chunks: the queue of CSoundBaseDevice (lib/soundbasedevice.cpp), *)
(* which never ends, and the sample buffer of CPWMSoundDevice              *)
(* (lib/pwmsounddevice.cpp), which does.                                   *)
(*                                                                         *)
(* Two buffers are played in turn by a DMA channel, whose control blocks   *)
(* name each other as the next one.  When it comes to the end of one it    *)
(* raises an interrupt and goes on with the other, which must have been    *)
(* filled by then.                                                         *)
(***************************************************************************)
EXTENDS Integers, Sequences

CONSTANTS
  m_nHWFrameSize,     \* in bytes
  m_nQueueSize,       \* in bytes, one of which remains free
  ChunkFrames,        \* m_nChunkSize, in frames
  MaxFrames           \* bound: frames that are ever written or in a sample buffer

ASSUME SoundAssumption ==
  /\ m_nHWFrameSize \in Nat \ {0} /\ ChunkFrames \in Nat \ {0} /\ MaxFrames \in Nat
  /\ m_nQueueSize \in Nat /\ m_nQueueSize > m_nHWFrameSize

NoBlock == 2          \* instead of a control block
NullFrame == 0        \* m_NullFrame, silence
Noise == -1
SoundBuffers == {0, 1}
Frames == 1 .. MaxFrames
QueuePlaces == 0 .. m_nQueueSize - 1

\* What is heard of a chunk: all but the silence at its end.
IsHeard(chunk, n) ==
  /\ n # 0 => chunk[n] # NullFrame
  /\ \A i \in n + 1 .. Len(chunk) : chunk[i] = NullFrame
Sounds(chunk) == SubSeq(chunk, 1, CHOOSE n \in 0 .. Len(chunk) : IsHeard(chunk, n))

VARIABLES
  source,             \* "queue" or "samples"
  soundState,         \* m_State
  m_nNextBuffer,
  m_pDMABuffer,       \* the chunk in each buffer, a sequence of frames
  CONBLK, NEXTCONBK,  \* registers of the DMA channel: the control block it is at, and the next one
  interrupt,          \* CS_INT
  starting,           \* where Start is: "no", "filled" (one buffer) or "plays" (the DMA is active)
  m_pQueue, soundIn, soundOut,  \* m_nInPtr, m_nOutPtr
  written,            \* how many frames have been written, or were in the sample buffer
  m_nSamples,         \* how many of those in the sample buffer are left
  played              \* history: the frames that have been played, without silence at the end of a chunk

queueVars == <<m_pQueue, soundIn, soundOut>>
dmaVars == <<CONBLK, NEXTCONBK, interrupt>>
soundVars == <<source, soundState, m_nNextBuffer, m_pDMABuffer, dmaVars, starting, queueVars,
               written, m_nSamples, played>>

SoundTypeOK ==
  /\ source \in {"queue", "samples"}
  /\ soundState \in {"Idle", "Running", "Cancelled", "Terminating"}
  /\ m_nNextBuffer \in SoundBuffers
  /\ m_pDMABuffer \in [SoundBuffers -> Seq(Frames \cup {NullFrame})]
  /\ \A b \in SoundBuffers : Len(m_pDMABuffer[b]) <= ChunkFrames
  /\ {CONBLK, NEXTCONBK} \subseteq SoundBuffers \cup {NoBlock} /\ interrupt \in BOOLEAN
  /\ starting \in {"no", "filled", "plays"}
  /\ m_pQueue \in [QueuePlaces -> (Frames \cup {NullFrame}) \X (1 .. m_nHWFrameSize)]
  /\ soundIn \in QueuePlaces /\ soundOut \in QueuePlaces
  /\ written \in 0 .. MaxFrames /\ m_nSamples \in 0 .. MaxFrames
  /\ played \in Seq(Frames)

SoundInit ==
  /\ source \in {"queue", "samples"}
  /\ soundState = "Idle" /\ m_nNextBuffer = 0 /\ m_pDMABuffer = [b \in SoundBuffers |-> <<>>]
  /\ CONBLK = NoBlock /\ NEXTCONBK = NoBlock /\ interrupt = FALSE /\ starting = "no"
  /\ m_pQueue = [i \in QueuePlaces |-> <<NullFrame, 1>>] /\ soundIn = 0 /\ soundOut = 0
  /\ written = 0 /\ m_nSamples = 0 /\ played = <<>>

-----------------------------------------------------------------------------
(* The queue, a ring of bytes; a frame may be on both sides of its end.    *)

GetQueueBytesFree ==
  IF soundOut <= soundIn THEN m_nQueueSize + soundOut - soundIn - 1
                           ELSE soundOut - soundIn - 1

GetQueueBytesAvail ==
  IF soundIn < soundOut THEN m_nQueueSize + soundIn - soundOut
                          ELSE soundIn - soundOut

Beyond(ptr, bytes) ==
  IF ptr + bytes >= m_nQueueSize THEN ptr + bytes - m_nQueueSize ELSE ptr + bytes

\* Write of one frame: that of several, or without conversion, is as many times this.
WriteFrame ==
  /\ source = "queue" /\ written < MaxFrames
  /\ GetQueueBytesFree >= m_nHWFrameSize
  /\ m_pQueue' = [i \in QueuePlaces |->
       IF \E k \in 1 .. m_nHWFrameSize : i = Beyond(soundIn, k - 1)
         THEN <<written + 1, CHOOSE k \in 1 .. m_nHWFrameSize : i = Beyond(soundIn, k - 1)>>
         ELSE m_pQueue[i]]
  /\ soundIn' = Beyond(soundIn, m_nHWFrameSize)
  /\ written' = written + 1
  /\ UNCHANGED <<source, soundState, m_nNextBuffer, m_pDMABuffer, dmaVars, starting, soundOut,
                 m_nSamples, played>>

\* The bytes from soundOut on, as frames; bytes that do not belong together are noise.
QueuedFrame(n) ==
  LET byte(k) == m_pQueue[Beyond(soundOut, (n - 1) * m_nHWFrameSize + k - 1)] IN
  IF \A k \in 1 .. m_nHWFrameSize : byte(k) = <<byte(1)[1], k>> THEN byte(1)[1] ELSE Noise
QueuedFrames(n) == [i \in 1 .. n |-> QueuedFrame(i)]

\* The samples that are left are the last of those written.
SampleFrames(n) == [i \in 1 .. n |-> written - m_nSamples + i]

Fewer(m, n) == IF m < n THEN m ELSE n
FramesAvail == IF source = "queue" THEN GetQueueBytesAvail \div m_nHWFrameSize ELSE m_nSamples
\* GetChunk of the sample buffer counts both channels and fills only half of the chunk.
Room == IF source = "queue" THEN ChunkFrames ELSE (ChunkFrames + 1) \div 2
FramesTaken == Fewer(FramesAvail, Room)

\* GetChunk.  What the queue has not is silence; without samples the chunk is empty.
NextChunk ==
  IF source = "queue"
    THEN QueuedFrames(FramesTaken) \o [i \in 1 .. ChunkFrames - FramesTaken |-> NullFrame]
    ELSE SampleFrames(FramesTaken)
TakeFrames ==
  IF source = "queue"
    THEN soundOut' = Beyond(soundOut, FramesTaken * m_nHWFrameSize) /\ UNCHANGED m_nSamples
    ELSE m_nSamples' = m_nSamples - FramesTaken /\ UNCHANGED soundOut

-----------------------------------------------------------------------------
(* The device *)

\* Mutant: the same buffer is filled next time.
GetNextChunk_Same ==
  /\ NextChunk # <<>> /\ TakeFrames
  /\ m_pDMABuffer' = [m_pDMABuffer EXCEPT ![m_nNextBuffer] = NextChunk]
  /\ UNCHANGED m_nNextBuffer

GetNextChunk ==
  /\ NextChunk # <<>> /\ TakeFrames
  /\ m_pDMABuffer' = [m_pDMABuffer EXCEPT ![m_nNextBuffer] = NextChunk]
  /\ m_nNextBuffer' = 1 - m_nNextBuffer

NoNextChunk ==
  /\ NextChunk = <<>>
  /\ UNCHANGED <<m_pDMABuffer, m_nNextBuffer, soundOut, m_nSamples>>

\* Playback up to the call of Start.
SetSamples(nSamples) ==
  /\ source = "samples" /\ soundState = "Idle" /\ starting = "no"
  /\ written' = written - m_nSamples + nSamples /\ written' <= MaxFrames
  /\ m_nSamples' = nSamples
  /\ UNCHANGED <<source, soundState, m_nNextBuffer, m_pDMABuffer, dmaVars, starting, queueVars,
                 played>>

\* Start, in the order of what others may observe: the first buffer, which is always buffer 0.
StartFill ==
  /\ starting = "no" /\ soundState = "Idle"
  /\ m_nNextBuffer = 0 /\ GetNextChunk
  /\ soundState' = "Running" /\ starting' = "filled"
  /\ UNCHANGED <<source, dmaVars, m_pQueue, soundIn, written, played>>

StartReset ==
  /\ starting = "no" /\ soundState = "Idle" /\ m_nNextBuffer = 1
  /\ m_nNextBuffer' = 0
  /\ UNCHANGED <<source, soundState, m_pDMABuffer, dmaVars, starting, queueVars, written,
                 m_nSamples, played>>

\* The DMA is activated.
StartDMA ==
  /\ starting = "filled"
  /\ CONBLK' = 0 /\ NEXTCONBK' = 1 /\ starting' = "plays"
  /\ UNCHANGED <<source, soundState, m_nNextBuffer, m_pDMABuffer, interrupt, queueVars, written,
                 m_nSamples, played>>

\* The second buffer, or the end after the first.
StartSecond ==
  /\ starting = "plays" /\ starting' = "no"
  /\ \/ GetNextChunk /\ UNCHANGED <<soundState, NEXTCONBK>>
     \/ /\ NoNextChunk /\ soundState = "Running"
        /\ soundState' = "Terminating" /\ NEXTCONBK' = NoBlock
  /\ UNCHANGED <<source, CONBLK, interrupt, m_pQueue, soundIn, written, played>>

\* Cancel.  Who plays samples does not cancel before Start has returned.
Cancel ==
  /\ source = "samples" => starting = "no"
  /\ soundState = "Running" /\ soundState' = "Cancelled"
  /\ UNCHANGED <<source, m_nNextBuffer, m_pDMABuffer, dmaVars, starting, queueVars, written,
                 m_nSamples, played>>

\* The DMA channel is through with a buffer.  The interrupt before has been handled, and Start has
\* returned: that a buffer is filled in less time than one is played is what the device relies on.
PlaysChunk ==
  /\ CONBLK # NoBlock /\ ~interrupt /\ starting = "no"
  /\ played' = played \o Sounds(m_pDMABuffer[CONBLK])
  /\ CONBLK' = NEXTCONBK /\ NEXTCONBK' = (IF NEXTCONBK = NoBlock THEN NoBlock ELSE 1 - NEXTCONBK)
  /\ interrupt' = TRUE
  /\ UNCHANGED <<source, soundState, m_nNextBuffer, m_pDMABuffer, starting, queueVars, written,
                 m_nSamples>>

\* InterruptHandler
NextIsFilled == soundState = "Running" /\ GetNextChunk /\ UNCHANGED <<soundState, NEXTCONBK>>
ComesToEnd ==
  /\ \/ soundState = "Running" /\ NextChunk = <<>>
     \/ soundState = "Cancelled"
  /\ NEXTCONBK' = NoBlock /\ soundState' = "Terminating"
  /\ UNCHANGED <<m_pDMABuffer, m_nNextBuffer, soundOut, m_nSamples>>
IsOver ==
  /\ soundState = "Terminating" /\ soundState' = "Idle"
  /\ UNCHANGED <<m_pDMABuffer, m_nNextBuffer, soundOut, m_nSamples, NEXTCONBK>>

HandlesInterrupt ==
  /\ interrupt /\ interrupt' = FALSE
  /\ NextIsFilled \/ ComesToEnd \/ IsOver
  /\ UNCHANGED <<source, CONBLK, starting, m_pQueue, soundIn, written, played>>

SoundNext ==
  \/ WriteFrame \/ \E n \in 0 .. MaxFrames : SetSamples(n)
  \/ StartFill \/ StartReset \/ StartDMA \/ StartSecond \/ Cancel
  \/ PlaysChunk \/ HandlesInterrupt

SoundSpec == SoundInit /\ [][SoundNext]_soundVars

-----------------------------------------------------------------------------
(* Properties *)

\* What is still to be played: the chunk at the DMA channel, the one that is filled ahead, and
\* what has not been taken.
Coming ==
  (IF CONBLK = NoBlock THEN <<>> ELSE Sounds(m_pDMABuffer[CONBLK]))
    \o (IF starting = "filled" THEN Sounds(m_pDMABuffer[0])
        ELSE IF CONBLK = m_nNextBuffer THEN Sounds(m_pDMABuffer[1 - CONBLK]) ELSE <<>>)
    \o (IF source = "queue" THEN QueuedFrames(FramesAvail) ELSE SampleFrames(FramesAvail))

\* Every frame is played once, in the order in which they were written, and none is lost by a
\* wrap of the queue, a stop or a new start; a chunk that was played before is not played again.
FramesInOrder == played \o Coming = [i \in 1 .. written |-> i]

\* IsActive says FALSE only when the DMA has stopped, so that Start may use the buffers again.
StoppedWhenIdle ==
  soundState = "Idle" => CONBLK = NoBlock /\ NEXTCONBK = NoBlock /\ ~interrupt

SoundRight == FramesInOrder /\ StoppedWhenIdle
=============================================================================
