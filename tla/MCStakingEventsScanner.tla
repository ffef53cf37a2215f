----------------------- MODULE MCStakingEventsScanner -----------------------
(* Four heights: one event at genesis, none after it, then two, then one.  *)
EXTENDS StakingEventsScanner

MCEventCount == <<1, 0, 2, 1>>
=============================================================================
