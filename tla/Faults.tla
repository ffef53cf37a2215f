------------------------------- MODULE Faults -------------------------------
(***************************************************************************)
(* The failures of the environment, shared by RuntimeStats and by the      *)
(* modules that copy or serve snapshots: a call to the node or to the      *)
(* database that returns an error, or a process that dies.  Their number   *)
(* is bounded, so that a behaviour is free of them from some point on.     *)
(***************************************************************************)
EXTENDS Naturals

CONSTANTS
  None,       \* no row, no value
  MaxFaults   \* bound: failures the environment may inject

ASSUME FaultAssumption == MaxFaults \in Nat

VARIABLE faults  \* failures injected so far

Fault == faults < MaxFaults /\ faults' = faults + 1
=============================================================================
