\* Four addresses and three slots, one shared event; one task besides the main one sleeps.
SPECIFICATION Spec
CONSTANTS
  Main = Main  a = a  b = b  c = c  d = d  e = e  Null = Null
  Tasks = {Main, a, b, c}
  Shared = {e}
  MaxTasks = 3
  WaitPairs <- OneWaiter
  IsrEvents = {}
  ClockMod = 8
  SleepMax = 3
  SleepTicks = {4}
  MsSleepTicks = {2}
  MaxLate = 1
CONSTRAINT FewSleep
INVARIANTS TypeOK SlotsExact NoLostWakeup WaiterExact NoAssertion 
