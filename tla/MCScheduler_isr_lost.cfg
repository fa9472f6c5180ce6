\* Set from interrupt context while Wait is about to block.
SPECIFICATION Spec
CONSTANTS
  Main = Main  a = a  b = b  c = c  d = d  e = e  Null = Null
  Tasks = {Main, a}
  Shared = {e}
  MaxTasks = 2
  WaitPairs <- OneWaiter
  IsrEvents = {e}
  ClockMod = 8
  SleepMax = 3
  SleepTicks = {}
  MsSleepTicks = {}
  MaxLate = 2
INVARIANT NoLostWakeup
