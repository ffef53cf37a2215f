CONSTANTS
  a1 = a1
  a2 = a2
  v0 = v0
  v1 = v1
  n1 = n1
  n2 = n2
  c1 = c1
  c2 = c2
  None = None
  MaxFaults = 1
  Rows <- MCRows
  Requests <- MCRequests
  MaxRows = 3
  Window = 1
  MaxSizeLimit = 2
  Chains <- MCChains
  Validators <- MCValidators
  NodesOf <- MCNodesOf
  WindowDays = 3
  ViewLimit = 2
  UptimeHeight = 2
  Client = {c1, c2}
  MaxChanges = 1
SPECIFICATION Spec
INVARIANTS
  CountCoversPage
  WalkSeesAll
  CachedDaysAreFinal
  UptimeOfRecentHeights
  TakenNeverGoesBack
PROPERTIES
  EveryValidatorRefreshed
  EveryRequestAnswered
