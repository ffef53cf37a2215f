CONSTANTS
  v1 = v1
  v2 = v2
  d1 = d1
  d2 = d2
  MaxEpoch = 4
  Window = 3
  Validator = {v1, v2}
  Delegator = {d1, d2}
  Known = {v1}
  Pools <- MCPools
  BatchSize = 1
  None = None
  MaxFaults = 1
SPECIFICATION Spec
INVARIANTS
  NoHoles
  RewardFromLastRow
  NeverOverpaid
PROPERTIES
  RewardIsFinal
  EveryDelegationRewarded
