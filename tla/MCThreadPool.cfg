SPECIFICATION FairSpec
CONSTANTS
  Task = {k1, k2, k3}
  NoTask = NoTask
  NewCount = 1
  DefaultCount = 1
  MaxCount = 2
INVARIANTS OwnedOnce NoLostSignal
PROPERTIES GivenTasksFinish BufferedTasksTaken
CHECK_DEADLOCK FALSE
