\* The terminated task's memory is allocated again before its waiter runs.
SPECIFICATION Spec
CONSTANTS
  Main = Main  a = a  b = b  c = c  d = d  e = e  Null = Null
  Tasks = {Main, a, b, c, d}
  Shared = {e}
  MaxTasks = 5
  WaitPairs <- Joining
  IsrEvents = {}
  ClockMod = 4
  SleepMax = 1
  SleepTicks = {}
  MsSleepTicks = {}
  MaxLate = 0
INVARIANT WokenBySet
