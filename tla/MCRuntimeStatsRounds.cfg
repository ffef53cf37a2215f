CONSTANTS
  p = p
  q = q
  m = m
  n = n
  o = o
  e1 = e1
  e2 = e2
  Genesis = 1
  MaxHeight = 4
  Runtime = {p, q}
  Node = {m, n, o}
  Entities = {e1, e2}
  EntityOf <- MCEntityOf
  RowsOf <- MCAllRows
  Registered <- MCRegistered
  Block <- MCBlock
  None = None
  MaxFaults = 0
  MaxLate = 0
SPECIFICATION StatsSpec
INVARIANTS
  CountedOncePerRound
