SPECIFICATION FairSpec
CONSTANTS
  c1 = c1
  c2 = c2
  c3 = c3
  c4 = c4
  c5 = c5
  Thread = {c1, c2, c3, c4, c5}
  None = None
  Uses <- GoodUses
INVARIANTS
  TypeOK
  SignalsMatch
  AnswersMatch
PROPERTIES
  SignalReturns
CHECK_DEADLOCK FALSE
