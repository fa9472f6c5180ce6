\* A file is written while another core calls Synchronize.
CONSTANTS
  d1 = d1  d2 = d2  u = u  v = v
  FAT_BUFFERS = 2
  Sectors = {d1, d2}
  NoSector = NoSector
  CacheUsers = {u, v}
  CacheWriters = {u}
  SeveralCores = {TRUE}
SPECIFICATION CacheSpec
INVARIANT NothingLost
CHECK_DEADLOCK FALSE
