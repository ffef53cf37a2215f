CONSTANTS
  e1 = e1
  e2 = e2
  Entity = {e1, e2}
  Roster <- MCRoster
  Registered = {e1}
  Standing <- MCStanding
  Initial <- MCInitial
  MaxVersion = 2
  Broken <- MCBroken
  None = None
  MaxChanges = 1
  MaxFaults = 1
SPECIFICATION Spec
INVARIANTS
  RanksAreAPermutation
  TwoPassesSettle
PROPERTIES
  ColumnsFreshAgain
