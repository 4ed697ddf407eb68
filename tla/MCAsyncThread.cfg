SPECIFICATION FairSpec
CONSTANTS
  Job = {j1, j2, j3, j4}
  NoJob = NoJob
  QueueSize = 1
INVARIANTS TypeOK LiveExactlyInFlight
PROPERTIES CompletesInOrder OutcomeTellsTheTruth EveryJobCompletes JoinReturns
CHECK_DEADLOCK FALSE
