SPECIFICATION Spec
CONSTANTS
  d1 = d1
  w1 = w1
  tm1 = tm1
  tm2 = tm2
  Timer = {}
  Work = {w1}
  WorkQueue = {g1, g2}
  App = {a1, a2}
  Args = {g1, g2}
  None = None
  Programs <- TwoQueues
  InitCount <- MCInitCount
  RoundTicks <- MCRoundTicks
  Changes <- MCChanges
  MsgNum = 2
  TimeWrap = 16
  LateMax = 1
INVARIANTS
  CancelHolds
