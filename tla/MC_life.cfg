SPECIFICATION Spec
CONSTANTS
  t1 = t1
  t2 = t2
  t3 = t3
  Task = {t1, t2, t3}
  Idle = idle
  Mutex = {m1}
  Sem = {s1}
  None = None
  IdlePri = 3
  BasePrio <- SharedPrio
  BootReady <- SharedReady
  WaitForever = 2
  Timeouts = {1, 2}
  PriChoices = {2}
  Targets = {t2}
  TaskCalls <- LifeCalls
  IsrCalls = {"krhino_sem_give", "krhino_task_resume", "krhino_task_suspend"}
  SliceTotal <- MCSliceTotal
  RRTasks = {t2, t3}
  SemMax = 1
  SemChoices = {}
  NestMax = 1
  SuspendMax = 2
  SchedLockMax = 1
  IntrptMax = 1
INVARIANTS
  ListIntegrity
  Ownership
  HighestPri
  PreferredRuns
PROPERTIES
  ReleasedByOwner
