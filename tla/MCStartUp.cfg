SPECIFICATION FairSpec
CONSTANTS
  gate = gate
  logic = logic
  s1 = s1
  Type = {gate, logic}
  Min <- MCMin
  Max <- MCMax
  Rate <- MCRate
  Load = {0, 1}
  Slave = {s1, s2}
  Forced <- MCForced
  NoSlave = NoSlave
  Ports = 2
  MaxFaults = 1
INVARIANTS OneProcess
PROPERTIES NothingAfterStop WantedNodesRun
CHECK_DEADLOCK FALSE
