SPECIFICATION Spec
CONSTANTS
  t1 = t1
  t2 = t2
  t3 = t3
  Task = {t1, t2, t3}
  Idle = idle
  Mutex = {m1}
  Sem = {s1}
  None = None
  IdlePri = 3
  BasePrio <- MCBasePrio
  BootReady <- MCBootReady
  WaitForever = 3
  Timeouts = {1, 2, 3}
  PriChoices = {}
  Targets = {}
  TaskCalls <- ObjectCalls
  IsrCalls = {"krhino_sem_give_all"}
  SliceTotal <- MCSliceTotal
  RRTasks = {}
  SemMax = 2
  SemChoices = {0, 2}
  NestMax = 2
  SuspendMax = 1
  SchedLockMax = 1
  IntrptMax = 1
INVARIANTS
  ListIntegrity
  Inheritance
  NoLostGive
  TimeoutsServed
