---------------------------- MODULE MCSnapshotJobs ----------------------------
EXTENDS SnapshotJobs

CONSTANTS v1, v2, d1

(* Proposal 1 is voted on in epoch 1, proposal 2 in epoch 2. *)
MCCreated == 1 :> 1 @@ 2 :> 2
MCCloses  == 1 :> 2 @@ 2 :> 3

(* v2 stakes nothing until epoch 2: alone, its vote weighs nothing at      *)
(* genesis.                                                                *)
MCStake == [e \in 0..LastEpoch |-> v1 :> (IF e = 0 THEN 1 ELSE 2) @@ v2 :> (IF e < 2 THEN 0 ELSE 3)]

(* v1 votes twice on proposal 1. *)
MCMayCast == {<<1, v1, "yes">>, <<1, v1, "no">>, <<1, v2, "yes">>, <<2, v2, "no">>}
=============================================================================
