CONSTANTS
  v1 = v1
  v2 = v2
  d1 = d1
  None = None
  MaxFaults = 1
  Proposal = {1, 2}
  Voter = {v1, v2}
  Option = {"yes", "no"}
  Created <- MCCreated
  Closes <- MCCloses
  Stake <- MCStake
  LastEpoch = 3
  MayCast <- MCMayCast
  MaxCasts = 3
  Entity = {v1, v2}
  Holder = {d1}
  Enrolled = {v1}
  MaxMoves = 2
  Address = {v1, v2}
  Listed = {v1}
  Back = 2
  MaxDay = 4
  MaxBlocks = 3
SPECIFICATION Spec
INVARIANTS
  RowsOfOnePass
  AnswersCoverTheTable
  TableIsOneSnapshot
  HeightsFollowDates
PROPERTIES
  ClosedVotesSettle
  DelegatorsCatchUp
  EscrowCatchesUp
