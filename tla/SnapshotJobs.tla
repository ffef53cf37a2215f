---------------------------- MODULE SnapshotJobs ----------------------------
(***************************************************************************)
(* The jobs that copy a snapshot of the chain into tables of their own,    *)
(* put together.  They share the node and its failures but no table: a     *)
(* behaviour runs the jobs of one subject, the tables of the others rest.  *)
(***************************************************************************)
EXTENDS Governance, Delegations, EscrowStats

VARIABLE subject  \* the jobs this behaviour is about

vars == <<governanceVars, delegationVars, escrowVars, subject>>

Init ==
  /\ GovernanceInit /\ DelegationInit /\ EscrowInit
  /\ faults = 0
  /\ subject \in {"governance", "delegations", "escrow"}

GovernanceRests == UNCHANGED <<epoch, ballot, proposal, vote, ps, vs>>
DelegationRests == UNCHANGED <<ledger, enrolled, delegator, delegators, ds, count, copy>>
EscrowRests     == UNCHANGED <<today, born, indexed, validators, stats, es>>

Governance(A)  == subject = "governance" /\ A /\ DelegationRests /\ EscrowRests /\ UNCHANGED subject
Delegation(A)  == subject = "delegations" /\ A /\ GovernanceRests /\ EscrowRests /\ UNCHANGED subject
Escrow(A)      == subject = "escrow" /\ A /\ GovernanceRests /\ DelegationRests /\ UNCHANGED subject

Next == Governance(GovernanceNext) \/ Delegation(DelegationNext) \/ Escrow(EscrowNext)

(* Cron starts every job again and again, and a job that runs goes on.     *)
(* Nothing makes the chain move.                                           *)
Fairness ==
  /\ WF_vars(Governance(ProposalSync))
  /\ WF_vars(Governance(VoteSync))
  /\ WF_vars(Delegation(DelegatorSync))
  /\ WF_vars(Delegation(CountDelegators))
  /\ WF_vars(Escrow(EscrowStatsSync))

Spec == Init /\ [][Next]_vars /\ Fairness
=============================================================================
