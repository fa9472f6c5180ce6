\* Messages of one byte.
CONSTANTS
  Active = Active  Passive = Passive
  ISNs <- SomeISNs
  Programs <- Stutter
  Message <- OneByte
  Waits = {FALSE}
  Frame = 2  MSS = 2  Window = 4  Capacity = 6
  MAX_RETRANSMISSIONS = 1
  NumMod = 32
  MaxFaults = 1
  Notified = {}
SPECIFICATION Spec
INVARIANTS StreamPrefix
CHECK_DEADLOCK FALSE
