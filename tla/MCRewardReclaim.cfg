CONSTANTS
  v1 = v1
  v2 = v2
  d1 = d1
  d2 = d2
  MaxEpoch = 2
  Window = 2
  Validator = {v1}
  Delegator = {d1, d2}
  Known = {v1}
  Pools <- MCReclaim
  BatchSize = 1
  None = None
  MaxFaults = 0
SPECIFICATION Spec
INVARIANTS
  KeptSharesEarn
