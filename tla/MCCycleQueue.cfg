SPECIFICATION FairCycleSpec
CONSTANTS
  Item = {a, b}
  NoItem = NoItem
  Capacity = 3
INVARIANTS NoSlotRace
PROPERTIES ImplementsFifo PushReturns
