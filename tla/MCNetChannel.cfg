SPECIFICATION Spec
CONSTANTS
  Chan = {c1, c2}
  Fd = {f1, f2}
  None = None
  SendSize = 2
  Window = 1
  MaxInbox = 2
INVARIANTS TypeOK WatchedUnlessDirty EventsReachTheirChannel CalledAfterEndOnlyByOwnDoing
SYMMETRY Symmetry
CHECK_DEADLOCK FALSE
