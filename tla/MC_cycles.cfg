SPECIFICATION FairSpec
CONSTANTS
  t1 = t1
  t2 = t2
  t3 = t3
  Task = {t1, t2, t3}
  Idle = idle
  Mutex = {m1, m2}
  Sem = {}
  None = None
  IdlePri = 3
  BasePrio <- MCBasePrio
  BootReady <- MCBootReady
  WaitForever = 2
  Timeouts = {1, 2}
  PriChoices = {}
  Targets = {}
  TaskCalls <- CycleCalls
  IsrCalls = {}
  SliceTotal <- MCSliceTotal
  RRTasks = {}
  SemMax = 1
  SemChoices = {}
  NestMax = 1
  SuspendMax = 1
  SchedLockMax = 1
  IntrptMax = 1
PROPERTIES
  TimedWaitEnds
  CriticalSectionEnds
