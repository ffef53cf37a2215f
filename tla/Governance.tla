----------------------------- MODULE Governance -----------------------------
(***************************************************************************)
(* The jobs ProposalSync and VoteSync, which copy proposals and weighed    *)
(* votes into the tables proposal and vote every few minutes, one          *)
(* statement at a time, and the page of the API that weighs the votes of   *)
(* one proposal by itself.                                                 *)
(***************************************************************************)
EXTENDS Faults, Integers, Sequences, FiniteSets, FiniteSetsExt, Functions

CONSTANTS
  Proposal,   \* numbers of proposals
  Voter,      \* entities that may vote
  Option,     \* yes, no, abstain
  Created,    \* Created[p]: the epoch p is submitted
  Closes,     \* Closes[p]: the epoch its ballot closes
  Stake,      \* Stake[e][v]: escrow of v at the first block of epoch e
  LastEpoch,  \* bound: the chain stops here
  MayCast,    \* bound: the votes <<p, v, o>> that may be cast, each once
  MaxCasts    \* bound: votes that are cast

ASSUME ProposalAssumption ==
  /\ Proposal \subseteq Nat /\ IsFiniteSet(Proposal) /\ IsFiniteSet(Voter)
  /\ Created \in [Proposal -> 1..LastEpoch] /\ Closes \in [Proposal -> Nat]
  /\ \A p \in Proposal : Closes[p] > Created[p]
  /\ LastEpoch \in Nat /\ Stake \in [0..LastEpoch -> [Voter -> Nat]]
ASSUME OptionAssumption == IsFiniteSet(Option) /\ None \notin Option

VARIABLES
  epoch,      \* chain: the current epoch; epoch 0 is the genesis block
  ballot,     \* chain: ballot[p][v], the options v voted for, oldest first
  proposal,   \* database: proposal[p], the row of p
  vote,       \* database: vote[p][v], the row of the vote of v on p, if there is one
  ps,         \* ProposalSync
  vs          \* VoteSync

governanceVars == <<epoch, ballot, proposal, vote, ps, vs, faults>>

NoVotes == [v \in Voter |-> None]
NoRows  == [v \in {} |-> None]
PsIdle  == [pc |-> "idle", seen |-> 0, todo |-> {}]
VsIdle  == [pc |-> "idle", votes |-> [p \in Proposal |-> NoVotes], listed |-> {},
            todo |-> {}, power |-> [v \in Voter |-> 0], left |-> {}]

GovernanceInit ==
  /\ epoch = 0
  /\ ballot = [p \in Proposal |-> [v \in Voter |-> <<>>]]
  /\ proposal = [p \in Proposal |-> None]
  /\ vote = [p \in Proposal |-> NoRows]
  /\ ps = PsIdle
  /\ vs = VsIdle
-----------------------------------------------------------------------------
(* The chain.                                                              *)

Casts == MapThenSumSet(LAMBDA p : MapThenSumSet(LAMBDA v : Len(ballot[p][v]), Voter), Proposal)

StateAt(p, e) == IF e < Closes[p] THEN "active" ELSE "closed"

NextEpoch ==
  /\ epoch < LastEpoch
  /\ epoch' = epoch + 1
  /\ UNCHANGED <<ballot, proposal, vote, ps, vs, faults>>

(* A ballot that is cast again replaces the one before. *)
Cast(p, v, o) ==
  /\ <<p, v, o>> \in MayCast /\ o \notin Range(ballot[p][v])
  /\ Casts < MaxCasts
  /\ Created[p] <= epoch /\ epoch < Closes[p]
  /\ ballot' = [ballot EXCEPT ![p][v] = Append(@, o)]
  /\ UNCHANGED <<epoch, proposal, vote, ps, vs, faults>>

(* The Votes query at the latest height. *)
Votes(p) == [v \in Voter |-> IF ballot[p][v] = <<>> THEN None ELSE ballot[p][v][Len(ballot[p][v])]]

Voted(votes) == {v \in Voter : votes[v] # None}
-----------------------------------------------------------------------------
(* Weighing votes.                                                         *)

(* The epoch whose first block weighs the votes: the one asked for, or the *)
(* genesis block when GetEpochBlock knows no such epoch yet.               *)
WeighedAt(e) == IF e <= epoch THEN e ELSE 0

Power(votes, e) == [v \in Voter |-> IF votes[v] = None THEN 0 ELSE Stake[e][v]]

Total(power) == SumFunction(power)
-----------------------------------------------------------------------------
(* ProposalSync.                                                           *)

(* GetStatus, then Proposals at its height. *)
ListProposals ==
  /\ ps.pc = "idle"
  /\ ps' = [pc |-> "save", seen |-> epoch, todo |-> {p \in Proposal : Created[p] <= epoch}]
  /\ UNCHANGED <<epoch, ballot, proposal, vote, vs, faults>>

Saved(p) ==
  ps' = IF ps.todo = {p} THEN PsIdle ELSE [ps EXCEPT !.todo = @ \ {p}]

NoProposals ==
  /\ ps.pc = "save" /\ ps.todo = {}
  /\ ps' = PsIdle
  /\ UNCHANGED <<epoch, ballot, proposal, vote, vs, faults>>

(* Mutant of ProposalRow: the state of a known proposal is left alone.     *)
ProposalRowOnce(p, time) ==
  IF proposal[p] = None
  THEN [state |-> StateAt(p, ps.seen), closedTime |-> time]
  ELSE [proposal[p] EXCEPT !.closedTime = time]

(* The row of p is inserted, or its state and times are brought up to date. *)
ProposalRow(p, time) == [state |-> StateAt(p, ps.seen), closedTime |-> time]

(* The closing time is that of a block once the ballot is closed. *)
SaveProposal(p) ==
  /\ ps.pc = "save" /\ p \in ps.todo
  /\ LET time == IF Closes[p] <= ps.seen THEN "block" ELSE "estimate"
     IN  proposal' = [proposal EXCEPT ![p] = ProposalRow(p, time)]
  /\ Saved(p)
  /\ UNCHANGED <<epoch, ballot, vote, vs, faults>>

(* GetEpochBlock fails: the times are estimated and the job goes on. *)
SaveProposalEstimated(p) ==
  /\ Fault
  /\ ps.pc = "save" /\ p \in ps.todo
  /\ proposal' = [proposal EXCEPT ![p] = ProposalRow(p, "estimate")]
  /\ Saved(p)
  /\ UNCHANGED <<epoch, ballot, vote, vs>>

(* Any other error, or a crash. *)
ProposalSyncFails ==
  /\ Fault
  /\ ps.pc # "idle"
  /\ ps' = PsIdle
  /\ UNCHANGED <<epoch, ballot, proposal, vote, vs>>
-----------------------------------------------------------------------------
(* VoteSync.                                                               *)

(* GetStatus: later queries for votes are made at the height it reports. *)
ReadHeight ==
  /\ vs.pc = "idle"
  /\ vs' = [vs EXCEPT !.pc = "find", !.votes = [p \in Proposal |-> Votes(p)]]
  /\ UNCHANGED <<epoch, ballot, proposal, vote, ps, faults>>

Rows == {p \in Proposal : proposal[p] # None}

FindAllProposals ==
  /\ vs.pc = "find"
  /\ vs' = [vs EXCEPT !.pc = "weigh", !.listed = Rows, !.todo = Rows]
  /\ UNCHANGED <<epoch, ballot, proposal, vote, ps, faults>>

NextProposal(p) ==
  [vs EXCEPT !.pc = "weigh", !.todo = @ \ {p}, !.power = VsIdle.power, !.left = {}]

VotesDone ==
  /\ vs.pc = "weigh" /\ vs.todo = {}
  /\ vs' = VsIdle
  /\ UNCHANGED <<epoch, ballot, proposal, vote, ps, faults>>

(* The newest proposal that is left, weighed at epoch e.  When the votes   *)
(* weigh nothing, zero is divided by zero: the job panics and its pass     *)
(* ends here, whatever is left of it.                                      *)
Weigh(e) ==
  /\ vs.pc = "weigh" /\ vs.todo # {}
  /\ LET p     == Max(vs.todo)
         power == Power(vs.votes[p], e)
     IN  vs' = IF Voted(vs.votes[p]) = {} THEN NextProposal(p)
               ELSE IF Total(power) = 0 THEN VsIdle
               ELSE [vs EXCEPT !.pc = "store", !.power = power, !.left = Voted(vs.votes[p])]
  /\ UNCHANGED <<epoch, ballot, proposal, vote, ps>>

WeighVotes ==
  /\ vs.todo # {}
  /\ Weigh(WeighedAt(Closes[Max(vs.todo)]))
  /\ UNCHANGED faults

(* GetEpochBlock fails: the votes weigh what they weighed at genesis. *)
WeighVotesAtGenesis == Fault /\ Weigh(0)

(* Mutant of VoteRow: a row that exists keeps its percentage.              *)
VoteRowOldShare(p, v) ==
  [option |-> IF v \in DOMAIN vote[p] THEN vote[p][v].option ELSE vs.votes[p][v],
   amount |-> vs.power[v],
   of |-> IF v \in DOMAIN vote[p] THEN vote[p][v].of ELSE Total(vs.power)]

(* A row holds the amount and its share of the total.  A row that exists   *)
(* keeps its option.                                                       *)
VoteRow(p, v) ==
  [option |-> IF v \in DOMAIN vote[p] THEN vote[p][v].option ELSE vs.votes[p][v],
   amount |-> vs.power[v],
   of     |-> Total(vs.power)]

(* The rows of p, once that of v is inserted or updated. *)
WithRow(p, v) ==
  [w \in DOMAIN vote[p] \cup {v} |-> IF w = v THEN VoteRow(p, v) ELSE vote[p][w]]

StoreVote(v) ==
  /\ vs.pc = "store" /\ v \in vs.left
  /\ LET p == Max(vs.todo)
     IN  /\ vote' = [vote EXCEPT ![p] = WithRow(p, v)]
         /\ vs' = IF vs.left = {v} THEN NextProposal(p) ELSE [vs EXCEPT !.left = @ \ {v}]
  /\ UNCHANGED <<epoch, ballot, proposal, ps, faults>>

(* An error of any call, or a crash. *)
VoteSyncFails ==
  /\ Fault
  /\ vs.pc # "idle"
  /\ vs' = VsIdle
  /\ UNCHANGED <<epoch, ballot, proposal, vote, ps>>
-----------------------------------------------------------------------------
(* GovernanceProposalWithVotes.                                            *)

(* The weight of the votes for o. *)
Weight(p, power, o) == MapThenSumSet(LAMBDA v : power[v], {v \in Voter : Votes(p)[v] = o})

(* Mutant of Tally: voters without stake are left out.                     *)
TallyOfStakers(p, e) ==
  LET power == Power(Votes(p), e)
  IN  [votes |-> [v \in Voter |-> IF power[v] = 0 THEN None ELSE Votes(p)[v]], power |-> power,
       options |-> [o \in Option |-> Weight(p, power, o)]]

(* The votes at the latest height, weighed at epoch e, and the weight of   *)
(* each option.                                                            *)
Tally(p, e) ==
  LET power == Power(Votes(p), e)
  IN  [votes |-> Votes(p), power |-> power,
       options |-> [o \in Option |-> Weight(p, power, o)]]

(* The answers the page may give of a proposal it knows: weighed at the    *)
(* epoch the proposal was submitted, or at the genesis block when          *)
(* GetEpochBlock fails.  Votes that weigh nothing end in a panic, as does  *)
(* an account that cannot be read: there is no answer then.                *)
ProposalWithVotes(p) ==
  {t \in {Tally(p, WeighedAt(Created[p])), Tally(p, 0)} : proposal[p] # None /\ Total(t.power) # 0}
-----------------------------------------------------------------------------
ProposalSync ==
  \/ ListProposals
  \/ NoProposals
  \/ \E p \in Proposal : SaveProposal(p)

VoteSync ==
  \/ ReadHeight
  \/ FindAllProposals
  \/ WeighVotes
  \/ VotesDone
  \/ \E v \in Voter : StoreVote(v)

GovernanceNext ==
  \/ NextEpoch
  \/ \E p \in Proposal, v \in Voter, o \in Option : Cast(p, v, o)
  \/ ProposalSync
  \/ \E p \in Proposal : SaveProposalEstimated(p)
  \/ ProposalSyncFails
  \/ VoteSync
  \/ WeighVotesAtGenesis
  \/ VoteSyncFails
-----------------------------------------------------------------------------
(* Properties.                                                             *)

(* What the table says each voter has; one without a row has nothing.      *)
Amounts(p) == [v \in Voter |-> IF v \in DOMAIN vote[p] THEN vote[p][v].amount ELSE 0]

(* When a pass is done with a proposal, the table holds a row for each of  *)
(* its voters and no other, every row states its share of one and the same *)
(* total, that total is the sum of the rows, and each option is one that   *)
(* the voter did vote for (governance_task.go:186-224, where rows that     *)
(* exist are updated one at a time and keep their option).                 *)
RowsOfOnePass ==
  vs.pc = "weigh" =>
    \A p \in vs.listed \ vs.todo :
      /\ DOMAIN vote[p] = Voted(vs.votes[p])
      /\ \A v \in DOMAIN vote[p] :
           /\ vote[p][v].of = Total(Amounts(p))
           /\ vote[p][v].option \in Range(ballot[p][v])

(* An answer that is made now names every voter the table already names,   *)
(* and its options share out the whole weight of its votes                 *)
(* (governanceproposalwithvoteslogic.go:98-177).                           *)
AnswersCoverTheTable ==
  \A p \in Proposal : \A t \in ProposalWithVotes(p) :
    /\ DOMAIN vote[p] \subseteq Voted(t.votes)
    /\ SumFunction(t.options) = Total(t.power)

(* The rows of a ballot that is closed are final: its state, the time of   *)
(* its closing block, and each vote at the weight it had at that block.    *)
Settled(p) ==
  LET final == Power(Votes(p), Closes[p])
  IN  /\ proposal[p] = [state |-> "closed", closedTime |-> "block"]
      /\ \A v \in Voted(Votes(p)) :
           v \in DOMAIN vote[p] /\ vote[p][v].amount = final[v] /\ vote[p][v].of = Total(final)

(* A proposal of the same number or a greater one whose votes weigh        *)
(* nothing ends every pass before it comes to p (governance_task.go:195).  *)
Starved(p) ==
  \E q \in Proposal :
    /\ q >= p /\ Created[q] <= epoch
    /\ Voted(Votes(q)) # {}
    /\ Total(Power(Votes(q), WeighedAt(Closes[q]))) = 0

(* While a ballot is open its votes are weighed at the genesis block; once *)
(* it is closed and the failures are over, its rows settle at the stake of *)
(* the closing epoch, unless a weightless proposal starves it              *)
(* (governance_task.go:75-88, 161-164).                                    *)
ClosedVotesSettle ==
  \A p \in Proposal : <>[](Closes[p] <= epoch => Settled(p) \/ Starved(p))
=============================================================================
