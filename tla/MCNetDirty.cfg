SPECIFICATION Spec
CONSTANTS
  Chan = {c1, c2}
  Fd = {f1, f2}
  None = None
  SendSize = 2
  Window = 1
  MaxInbox = 2
INVARIANTS LeftToThePoller
CHECK_DEADLOCK FALSE
