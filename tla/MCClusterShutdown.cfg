SPECIFICATION FairSpec
CONSTANTS
  gate1 = gate1
  logic1 = logic1
  logic2 = logic2
  slave1 = slave1
  gate = gate
  logic = logic
  slave = slave
  Node <- MCNode
  NodeType <- MCNodeType
  TypeOf <- MCTypeOf
  SlaveType = slave
  Home <- MCHome
  Steps <- MCSteps
  MaxRequests = 1
  MaxCrashes = 1
INVARIANTS TypeOK StepBarrier NothingLeftBehind
PROPERTIES ShutdownCompletes
CHECK_DEADLOCK FALSE
