SPECIFICATION Spec
CONSTANTS
  k1 = k1
  k2 = k2
  v1 = v1
  v2 = v2
  t1 = t1
  t2 = t2
  Task = {t1}
  Keys = {k1, k2}
  Values = {v1, v2}
  None = None
  Requests <- AllRequests
  ItemLen <- Lengths
  BLK_NUMS = 2
  BLK_SIZE = 12
  BLK_HDR_SIZE = 1
  ITEM_HDR_SIZE = 2
  ITEM_MAX_LEN = 4
  MaxCalls = 6
  MaxFails = 1
  FailInCopy = TRUE
PROPERTIES
  Refines
CHECK_DEADLOCK FALSE
