CONSTANTS
  lt = lt  li = li  lf = lf
  c1 = c1  c2 = c2  client = client  listener = listener  worker = worker  peer = peer
  h1 = h1  h2 = h2  h3 = h3  m1 = m1  m2 = m2  t1 = t1  t2 = t2
  d1 = d1  d2 = d2  d3 = d3  d4 = d4  u = u  v = v
  a1 = a1  a2 = a2  a3 = a3  w1 = w1  w2 = w2
\* SpinLock
  Cores = {0, 1}
  Core0 = 0
  Locks = {lt, li, lf}
  m_nTargetLevel <- TargetLevels
\* RetransmissionQueue
  Bytes = {0, 1}
  Frame = 2
  m_nSize = 5
\* Transport
  Clients = {client}
  Listeners = {listener}
  Workers = {worker}
  Connections = {c1, c2}
  Peers = {peer}
  ServerPort = 80
  Protocols = {"TCP", "UDP"}
  OWN_PORT_MIN = 60000
  OWN_PORT_MAX = 60001
  BackLog = 1
  SpinLocks = {"off"}
  NoConnection = NoConnection
\* ArpHandler
  Hosts = {h1, h2, h3}
  Macs = {m1, m2}
  NoAddress = NoAddress
  ARP_MAX_ENTRIES = 2
  Timers = {t1, t2}
\* FatCache
  FAT_BUFFERS = 3
  Sectors = {d1, d2, d3, d4}
  NoSector = NoSector
  CacheUsers = {u, v}
  CacheWriters = {u}
  SeveralCores = {FALSE}
\* FatFiles
  Titles = {"a", "b"}
  FAT_FILES = 2
  m_nClusters = 3
  SectorSize = 2
  RootEntries = 1
  Formats <- Disks
  MaxSize = 3
\* Logger
  Events = {"x", "y"}
  Addresses = {a1, a2, a3}
  NoEvent = NoEvent
  Callers = {w1, w2}
  Chars = {"x", "y"}
  Texts <- SomeTexts
  LOG_QUEUE_SIZE = 3
  LOGGER_BUFSIZE = 4
\* Allocator
  AddressSpace = 512
  BucketSizes = {16, 48}
  Sizes = {16, 20, 60, 420}
  HeapBase = 16
  s_pBlockLimit = 208
  BlockReserve = 48
  PageBase = 224
  s_pPageLimit = 280
  PAGE_SIZE = 16
\* SoundDevice
  m_nHWFrameSize = 2
  m_nQueueSize = 11
  ChunkFrames = 3
  MaxFrames = 8
\* Xhci
  CmdCount = 4
  TransferCount = 7
  EventCount = 3
  MaxRequests = 5
SPECIFICATION PartsSpec
CONSTRAINTS ListenersOrUDP TwoSockets
INVARIANTS TypesOK SectionsSafe FindsItsOwn AutoPortsDistinct ArpTimersExact ArpTableTrue CacheKept ChainsDisjoint  ReadsTrue MemorySafe SoundRight 
PROPERTIES Implements LogKept
CHECK_DEADLOCK FALSE
