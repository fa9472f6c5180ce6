\* Data both ways and every order of closing, two faults.
CONSTANTS
  Active = Active  Passive = Passive
  ISNs <- SomeISNs
  Programs <- Exchange
  Message <- TwoBytes
  Waits = {FALSE}
  Frame = 2  MSS = 2  Window = 4  Capacity = 6
  MAX_RETRANSMISSIONS = 1
  NumMod = 32
  MaxFaults = 2
  Notified = {}
SPECIFICATION Spec
INVARIANTS TypeOK StreamPrefix SegmentsTrue QueueAligned AckedArrived FINLast 
CHECK_DEADLOCK FALSE
