SPECIFICATION WheelSpec
CONSTANTS
  Timer = {t1, t2}
  NoTimer = NoTimer
  NumGears = 3
  FirstSize = 2
  HighSize = 2
  Delay = {9}
  Interval = {1}
  Count <- MCCount
  MaxNow = 11
INVARIANTS WheelTypeOK HeldOnce
PROPERTIES ImplementsQueue FiresAsAsked
SYMMETRY Symmetry
CHECK_DEADLOCK FALSE
