SPECIFICATION FairSpec
CONSTANTS
  gate1 = gate1
  logic1 = logic1
  logic2 = logic2
  slave1 = slave1
  Node <- MCHiddenNode
  TypeOf <- MCTypeOf
  IdOf <- MCIdOf
  Exposed <- MCExposed
  MaxFaults = 1
INVARIANTS OneSessionPerPair ToldOrOnTheWay
CHECK_DEADLOCK FALSE
PROPERTY MeshForms
