SPECIFICATION FairSpec
CONSTANTS
  d1 = d1
  w1 = w1
  tm1 = tm1
  tm2 = tm2
  Timer = {tm1, tm2, d1}
  Work = {d1, w1}
  WorkQueue = {g1}
  App = {a1, a2}
  Args = {g1}
  None = None
  Programs <- TimersOrWorks
  InitCount <- MCInitCount
  RoundTicks <- MCRoundTicks
  Changes <- MCChanges
  MsgNum = 1
  TimeWrap = 16
  LateMax = 1
INVARIANTS
  TypeOK
  ActiveListed
  QueueMatch
PROPERTIES
  TimerFires
  WorkRuns
