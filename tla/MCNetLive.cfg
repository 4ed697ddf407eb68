SPECIFICATION FairSpec
CONSTANTS
  Chan = {c1, c2}
  Fd = {f1, f2}
  None = None
  SendSize = 1
  Window = 1
  MaxInbox = 1
PROPERTIES EndNoticed Flushed
CHECK_DEADLOCK FALSE
