SPECIFICATION FairSpec
CONSTANTS
  c1 = c1
  c2 = c2
  c3 = c3
  c4 = c4
  c5 = c5
  Thread = {c1, c2, c3}
  None = None
  Uses <- TimedPair
PROPERTIES
  SignalReturns
CHECK_DEADLOCK FALSE
