SPECIFICATION Spec
CONSTANTS
  t1 = t1
  t2 = t2
  a = a
  b = b
  c = c
  f1 = f1
  f2 = f2
  None = None
  Task = {t1, t2}
  Prios = {0, 1}
  Flag = {f1, f2}
  Requests <- Asked
  Msg = {a, b, c}
  MsgLen <- Lens
  RING_BUF_LEN = 2
  RingSize = 9
  BlkSize = 3
  Kinds = {"event", "queue", "fix_buf_queue", "buf_queue"}
SYMMETRY Alike
INVARIANTS
  TypeOK
  WaitersListed
  NoMissedWakeup
  AnswerSound
  NoIdleMessage
  RingExact
PROPERTY
  Refines
