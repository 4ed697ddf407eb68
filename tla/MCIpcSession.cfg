SPECIFICATION FairSpec
CONSTANTS
  Size = 7
  Space = 2
  Blank = Blank
  HeaderSize = 2
  RecvSize = 4
  Shapes <- MCShapes
  Numbers = 3
INVARIANTS ReceivesWholeMessages NeverOverruns
PROPERTIES UnreadBytesStay MessagesAreReceived
CHECK_DEADLOCK FALSE
