CONSTANTS
  v1 = v1
  v2 = v2
  t1 = t1
  t2 = t2
  t3 = t3
  Genesis = 1
  MaxHeight = 5
  Validator = {v1, v2}
  NoAddress = NoAddress
  Tx = {t1, t2, t3}
  Undecodable = {t3}
  Chain <- MCChain
  MaxFaults = 3
SPECIFICATION Spec
INVARIANTS
  GaplessAndWhole
  OneUndecided
  NothingPastABadBlock
PROPERTIES
  IndexSpec
  EveryBlockIsStored
