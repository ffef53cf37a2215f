----------------------------- MODULE Checkpoint -----------------------------
(***************************************************************************)
(* What a job that walks the chain and keeps a cursor in system_property   *)
(* promises: whatever the cursor says is behind it was really done, and    *)
(* what was done stays done.  The cursor itself may move either way: a     *)
(* statement of an earlier run may take effect after those of a later one. *)
(***************************************************************************)
EXTENDS Integers

CONSTANTS
  Genesis,    \* height of the first block
  MaxHeight   \* bound: the chain stops growing here

Height == Genesis..MaxHeight

VARIABLES
  latest,     \* height of the last block of the chain
  done,       \* the heights of the chain whose work is complete
  resume      \* the height at which the next run starts

vars == <<latest, done, resume>>

Init ==
  /\ latest = Genesis
  /\ done \in SUBSET {Genesis}   \* there may be nothing to do
  /\ resume = Genesis

Grow ==
  /\ latest < MaxHeight
  /\ latest' = latest + 1
  /\ done' \in {done, done \cup {latest'}}
  /\ UNCHANGED resume

(* The work of some heights the chain has reached becomes complete. *)
Complete ==
  /\ \E H \in SUBSET (Genesis..latest) : done' = done \cup H
  /\ UNCHANGED <<latest, resume>>

(* The cursor moves, never past work that is not done. *)
SetCursor ==
  /\ resume' \in Genesis..(latest + 1)
  /\ \A h \in Height : h < resume' => h \in done
  /\ UNCHANGED <<latest, done>>

Next == Grow \/ Complete \/ SetCursor

Spec == Init /\ [][Next]_vars
=============================================================================
