CONSTANTS
  Genesis = 1
  MaxHeight = 4
  EventCount <- MCEventCount
  NoCursor = NoCursor
  MaxFaults = 3
SPECIFICATION Spec
INVARIANTS
  NothingSkipped
  NoDuplicates
PROPERTIES
  CursorSpec
  EveryEventIsStored
