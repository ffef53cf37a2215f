CONSTANTS
  e1 = e1
  e2 = e2
  a = a
  b = b
  c1 = c1
  c2 = c2
  c3 = c3
  Genesis = 1
  MaxHeight = 3
  Entity = {e1, e2}
  NodeId = {a, b}
  Consensus = {c1, c2, c3}
  Lists <- MCLists
  None = None
  MaxFaults = 2
SPECIFICATION Spec
INVARIANTS
  RowsAsRegistered
PROPERTIES
  CursorSpec
  EveryNodeIsRecorded
