-------------------------------- MODULE MCParts --------------------------------
(***************************************************************************)
(* Small instances of the parts that do not share a task or a variable:    *)
(* spin locks and interrupt levels, the retransmission queue, the          *)
(* transport layer, the ARP handler, the sector cache, the FAT file system,*)
(* the two rings of the logger, the blocks and the pages of the memory     *)
(* allocator, the sound device and the rings of the xHCI driver.  From an  *)
(* initial state only one of them goes on, so that the states are the sum  *)
(* of theirs and not the product.                                          *)
(***************************************************************************)
EXTENDS SpinLock, RetransmissionQueue, Transport, ArpHandler, FatCache, FatFiles, Logger, Allocator,
        SoundDevice, Xhci, TLC

CONSTANTS
  lt, li, lf,                             \* SpinLock, by their levels
  c1, c2, client, listener, worker, peer, \* Transport
  h1, h2, h3, m1, m2, t1, t2,             \* ArpHandler
  d1, d2, d3, d4, u, v,                   \* FatCache
  a1, a2, a3, w1, w2                      \* Logger

VARIABLE part \* the one that goes on

TargetLevels == (lt :> TASK_LEVEL) @@ (li :> IRQ_LEVEL) @@ (lf :> FIQ_LEVEL)
Disks == {[FATType |-> "FAT16", SectorsPerCluster |-> 1],
          [FATType |-> "FAT32", SectorsPerCluster |-> 1],
          [FATType |-> "FAT32", SectorsPerCluster |-> 2]}
SomeTexts == {<<>>, <<"x", "y">>, <<"y", "x", "x">>}

\* Bound: no socket listens while another one is for UDP.
ListenersOrUDP ==
  (\E s \in Clients : sock[s].protocol = "UDP") => \A s \in Listeners : sock[s].listen = <<>>

\* Bound: at most two sockets at a time, which have the two connections between them.
TwoSockets == Cardinality({s \in Sockets : sock[s].call # "None"}) <= 2

\* Every part keeps its types.
TypesOK ==
  /\ LockTypeOK /\ TypeOK /\ TransportTypeOK /\ ArpTypeOK /\ CacheTypeOK /\ FilesTypeOK
  /\ LoggerTypeOK /\ MemoryTypeOK /\ SoundTypeOK /\ XhciTypeOK

\* What may differ initially differs for the part that goes on only.
PartsInit ==
  /\ LockInit /\ QInit /\ TransportInit /\ ArpInit /\ CacheInit /\ FilesInit /\ LoggerInit
  /\ MemoryInit /\ SoundInit /\ XhciInit
  /\ part \in {"locks", "queue", "transport", "arp", "cache", "files", "events", "text", "blocks",
              "pages", "sound", "xhci"}
  /\ part = "locks" \/ s_bEnabled
  /\ part = "queue" \/ m_pBuffer = [p \in Places |-> CHOOSE byte \in Bytes : TRUE]
  /\ part = "files" \/ m_FATInfo = CHOOSE format \in Formats : TRUE
  /\ part = "sound" \/ source = "queue"
  /\ part = "xhci" \/ use = "Transfer"

LockStep ==
  /\ part = "locks" /\ LockNext
  /\ UNCHANGED <<qvars, transportVars, arpVars, cacheVars, filesVars, loggerVars, memoryVars,
                 soundVars, xhciVars>>
QueueStep ==
  /\ part = "queue" /\ QNext
  /\ UNCHANGED <<lockVars, transportVars, arpVars, cacheVars, filesVars, loggerVars, memoryVars,
                 soundVars, xhciVars>>
TransportStep ==
  /\ part = "transport" /\ TransportNext
  /\ UNCHANGED <<lockVars, qvars, arpVars, cacheVars, filesVars, loggerVars, memoryVars, soundVars,
                 xhciVars>>
ArpStep ==
  /\ part = "arp" /\ ArpNext
  /\ UNCHANGED <<lockVars, qvars, transportVars, cacheVars, filesVars, loggerVars, memoryVars,
                 soundVars, xhciVars>>
CacheStep ==
  /\ part = "cache" /\ CacheNext
  /\ UNCHANGED <<lockVars, qvars, transportVars, arpVars, filesVars, loggerVars, memoryVars,
                 soundVars, xhciVars>>
FilesStep ==
  /\ part = "files" /\ FilesNext
  /\ UNCHANGED <<lockVars, qvars, transportVars, arpVars, cacheVars, loggerVars, memoryVars,
                 soundVars, xhciVars>>
LoggerStep ==
  /\ (part = "events" /\ EventStep) \/ (part = "text" /\ TextStep)
  /\ UNCHANGED <<lockVars, qvars, transportVars, arpVars, cacheVars, filesVars, memoryVars,
                 soundVars, xhciVars>>
MemoryStep ==
  /\ (part = "blocks" /\ BlockNext) \/ (part = "pages" /\ PageNext)
  /\ UNCHANGED <<lockVars, qvars, transportVars, arpVars, cacheVars, filesVars, loggerVars,
                 soundVars, xhciVars>>
SoundStep ==
  /\ part = "sound" /\ SoundNext
  /\ UNCHANGED <<lockVars, qvars, transportVars, arpVars, cacheVars, filesVars, loggerVars,
                 memoryVars, xhciVars>>

XhciStep ==
  /\ part = "xhci" /\ XhciNext
  /\ UNCHANGED <<lockVars, qvars, transportVars, arpVars, cacheVars, filesVars, loggerVars,
                 memoryVars, soundVars>>

PartsNext ==
  /\ LockStep \/ QueueStep \/ TransportStep \/ ArpStep \/ CacheStep \/ FilesStep \/ LoggerStep
     \/ MemoryStep \/ SoundStep \/ XhciStep
  /\ UNCHANGED part

partsVars == <<lockVars, qvars, transportVars, arpVars, cacheVars, filesVars, loggerVars, memoryVars,
               soundVars, xhciVars, part>>

PartsSpec == PartsInit /\ [][PartsNext]_partsVars
=============================================================================
