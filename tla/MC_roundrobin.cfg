SPECIFICATION FairSpec
CONSTANTS
  t1 = t1
  t2 = t2
  t3 = t3
  Task = {t1, t2, t3}
  Idle = idle
  Mutex = {}
  Sem = {}
  None = None
  IdlePri = 1
  BasePrio <- EqualPrio
  BootReady <- EqualReady
  WaitForever = 2
  Timeouts = {1, 2}
  PriChoices = {}
  Targets = {t2}
  TaskCalls <- PeerCalls
  IsrCalls = {}
  SliceTotal <- UnequalSlices
  RRTasks = {t1, t2, t3}
  SemMax = 1
  SemChoices = {}
  NestMax = 1
  SuspendMax = 1
  SchedLockMax = 1
  IntrptMax = 1
INVARIANTS
  SliceInRange
PROPERTIES
  RoundRobin
