\* Blocking calls of the active end.
CONSTANTS
  Active = Active  Passive = Passive
  ISNs <- SomeISNs
  Programs <- Request
  Message <- TwoBytes
  Waits = {TRUE, FALSE}
  Frame = 2  MSS = 2  Window = 4  Capacity = 6
  MAX_RETRANSMISSIONS = 1
  NumMod = 32
  MaxFaults = 2
  Notified = {Active}
SPECIFICATION FairSpec
PROPERTIES CallsReturn
CHECK_DEADLOCK FALSE
