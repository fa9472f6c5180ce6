\* Round robin under the cooperation of the tasks; an interrupt sets the event.
SPECIFICATION FairSpec
CONSTANTS
  Main = Main  a = a  b = b  c = c  d = d  e = e  Null = Null
  Tasks = {Main, a, b}
  Shared = {e}
  MaxTasks = 3
  WaitPairs <- Joining
  IsrEvents = {e}
  ClockMod = 4
  SleepMax = 1
  SleepTicks = {1}
  MsSleepTicks = {}
  MaxLate = 1
PROPERTIES ReadyRuns SleeperRuns TerminatedReaped
