---------------------------- MODULE Delegations ----------------------------
(***************************************************************************)
(* The table delegator and the column delegators of table validator.       *)
(* Every minute DelegatorSync replaces the whole table by the delegations  *)
(* to the known validators at one height, inside one transaction that asks *)
(* the node about each validator; ValidatorConsensusSync counts the rows   *)
(* of each validator into its column.  The API pages through the table and *)
(* takes the total from the column.  NodeScanner and ValidatorInfoSync     *)
(* write whole rows of table validator back, and so the column as it was   *)
(* when they read the row.                                                 *)
(***************************************************************************)
EXTENDS Faults, Integers, Sequences, FiniteSets, SequencesExt

CONSTANTS
  Entity,     \* entity addresses that may be validators
  Holder,     \* delegators
  Enrolled,   \* the validators of table validator at the start
  MaxMoves    \* bound: delegations made or withdrawn

ASSUME EntityAssumption == Enrolled \subseteq Entity /\ IsFiniteSet(Holder) /\ MaxMoves \in Nat

VARIABLES
  ledger,     \* chain: ledger[h][v], the delegators of v at height h
  enrolled,   \* database: the entities in table validator
  delegator,  \* database: delegator[v], the committed rows of v
  delegators, \* database: delegators[v], the column of v's row
  ds,         \* DelegatorSync
  count,      \* ValidatorConsensusSync, as far as it counts delegators
  copy        \* copy[w], the row another job has read and will write back

delegationVars == <<ledger, enrolled, delegator, delegators, ds, count, copy, faults>>

Writer == {"NodeScanner", "ValidatorInfoSync"}

Nobody    == [v \in Entity |-> {}]
DsIdle    == [pc |-> "idle", height |-> 1, listed |-> {}, todo |-> {}, rows |-> Nobody]
CountIdle == [pc |-> "idle", todo |-> {}, at |-> None, n |-> 0]
NoRow     == [at |-> None, n |-> 0]

DelegationInit ==
  /\ ledger = <<Nobody>>
  /\ enrolled = Enrolled
  /\ delegator = Nobody
  /\ delegators = [v \in Entity |-> 0]
  /\ ds = DsIdle
  /\ count = CountIdle
  /\ copy = [w \in Writer |-> NoRow]
-----------------------------------------------------------------------------
(* A holder delegates to v or withdraws. *)
Delegate(v, d) ==
  /\ Len(ledger) <= MaxMoves
  /\ LET now == Last(ledger)[v]
     IN  ledger' = Append(ledger,
           [Last(ledger) EXCEPT ![v] = IF d \in now THEN now \ {d} ELSE now \cup {d}])
  /\ UNCHANGED <<enrolled, delegator, delegators, ds, count, copy, faults>>

(* NodeScanner inserts a validator. *)
Enroll(v) ==
  /\ v \notin enrolled
  /\ enrolled' = enrolled \cup {v}
  /\ UNCHANGED <<ledger, delegator, delegators, ds, count, copy, faults>>
-----------------------------------------------------------------------------
(* DelegatorSync.                                                          *)

DelegatorHeight ==
  /\ ds.pc = "idle"
  /\ ds' = [ds EXCEPT !.pc = "list", !.height = Len(ledger)]
  /\ UNCHANGED <<ledger, enrolled, delegator, delegators, count, copy, faults>>

(* Mutant of Emptied: the rows of before are not deleted.                  *)
EmptiedNot == delegator

(* The transaction starts with an empty table. *)
Emptied == Nobody

DelegatorList ==
  /\ ds.pc = "list"
  /\ ds' = [ds EXCEPT !.pc = "copy", !.listed = enrolled, !.todo = enrolled, !.rows = Emptied]
  /\ UNCHANGED <<ledger, enrolled, delegator, delegators, count, copy, faults>>

(* Mutant of CopyDelegations: no transaction, rows are visible at once.    *)
CopyDelegationsBare(v) ==
  /\ ds.pc = "copy" /\ v \in ds.todo
  /\ ds' = [ds EXCEPT !.todo = @ \ {v}, !.rows[v] = @ \cup ledger[ds.height][v]]
  /\ delegator' = [delegator EXCEPT ![v] = ledger[ds.height][v]]
  /\ UNCHANGED <<ledger, enrolled, delegators, count, copy, faults>>

(* DelegationsTo at the height of the pass, and the rows it amounts to.    *)
CopyDelegations(v) ==
  /\ ds.pc = "copy" /\ v \in ds.todo
  /\ ds' = [ds EXCEPT !.todo = @ \ {v}, !.rows[v] = @ \cup ledger[ds.height][v]]
  /\ UNCHANGED <<ledger, enrolled, delegator, delegators, count, copy, faults>>

DelegatorCommit ==
  /\ ds.pc = "copy" /\ ds.todo = {}
  /\ delegator' = ds.rows
  /\ ds' = DsIdle
  /\ UNCHANGED <<ledger, enrolled, delegators, count, copy, faults>>

(* An error or a crash rolls the transaction back. *)
DelegatorFails ==
  /\ Fault
  /\ ds.pc # "idle"
  /\ ds' = DsIdle
  /\ UNCHANGED <<ledger, enrolled, delegator, delegators, count, copy>>

(* COMMIT takes effect but its answer is lost. *)
DelegatorCommitAndDie ==
  /\ Fault
  /\ ds.pc = "copy" /\ ds.todo = {}
  /\ delegator' = ds.rows
  /\ ds' = DsIdle
  /\ UNCHANGED <<ledger, enrolled, delegators, count, copy>>
-----------------------------------------------------------------------------
(* ValidatorConsensusSync: what CountByValidator finds is written to the   *)
(* row by an Update that follows.                                          *)

CountStart ==
  /\ count.pc = "idle" /\ enrolled # {}
  /\ count' = [count EXCEPT !.pc = "count", !.todo = enrolled]
  /\ UNCHANGED <<ledger, enrolled, delegator, delegators, ds, copy, faults>>

CountByValidator(v) ==
  /\ count.pc = "count" /\ v \in count.todo
  /\ count' = [count EXCEPT !.pc = "update", !.at = v, !.n = Cardinality(delegator[v])]
  /\ UNCHANGED <<ledger, enrolled, delegator, delegators, ds, copy, faults>>

(* Mutant of CountUpdate: a count of zero is taken for unknown.            *)
CountUpdateKnown ==
  /\ count.pc = "update"
  /\ delegators' = [delegators EXCEPT ![count.at] = IF count.n = 0 THEN @ ELSE count.n]
  /\ count' = IF count.todo = {count.at} THEN CountIdle
              ELSE [CountIdle EXCEPT !.pc = "count", !.todo = count.todo \ {count.at}]
  /\ UNCHANGED <<ledger, enrolled, delegator, ds, copy, faults>>

CountUpdate ==
  /\ count.pc = "update"
  /\ delegators' = [delegators EXCEPT ![count.at] = count.n]
  /\ count' = IF count.todo = {count.at} THEN CountIdle
              ELSE [CountIdle EXCEPT !.pc = "count", !.todo = count.todo \ {count.at}]
  /\ UNCHANGED <<ledger, enrolled, delegator, ds, copy, faults>>

CountFails ==
  /\ Fault
  /\ count.pc # "idle"
  /\ count' = CountIdle
  /\ UNCHANGED <<ledger, enrolled, delegator, delegators, ds, copy>>
-----------------------------------------------------------------------------
(* The jobs that write whole rows of table validator: NodeScanner when an  *)
(* entity has a node already, ValidatorInfoSync for an entity's file.      *)

ReadRow(w, v) ==
  /\ copy[w] = NoRow /\ v \in enrolled
  /\ copy' = [copy EXCEPT ![w] = [at |-> v, n |-> delegators[v]]]
  /\ UNCHANGED <<ledger, enrolled, delegator, delegators, ds, count, faults>>

(* Update sets all columns: the count goes back to what it was at the read.*)
WriteRow(w) ==
  /\ copy[w] # NoRow
  /\ delegators' = [delegators EXCEPT ![copy[w].at] = copy[w].n]
  /\ copy' = [copy EXCEPT ![w] = NoRow]
  /\ UNCHANGED <<ledger, enrolled, delegator, ds, count, faults>>

(* A file that is empty is passed over. *)
PassOver ==
  /\ copy["ValidatorInfoSync"] # NoRow
  /\ copy' = [copy EXCEPT !["ValidatorInfoSync"] = NoRow]
  /\ UNCHANGED <<ledger, enrolled, delegator, delegators, ds, count, faults>>

WriterFails(w) ==
  /\ Fault
  /\ copy[w] # NoRow
  /\ copy' = [copy EXCEPT ![w] = NoRow]
  /\ UNCHANGED <<ledger, enrolled, delegator, delegators, ds, count>>
-----------------------------------------------------------------------------
(* What the API shows of a validator: its column as the number of rows,    *)
(* and no rows at all while the column is zero.                            *)
Delegators(v) ==
  IF v \in enrolled /\ delegators[v] # 0
  THEN [rows |-> delegator[v], total |-> delegators[v]]
  ELSE [rows |-> {}, total |-> 0]
-----------------------------------------------------------------------------
DelegatorSync ==
  DelegatorHeight \/ DelegatorList \/ (\E v \in Entity : CopyDelegations(v)) \/ DelegatorCommit

CountDelegators == CountStart \/ (\E v \in Entity : CountByValidator(v)) \/ CountUpdate

WriteRows ==
  \/ \E w \in Writer, v \in Entity : ReadRow(w, v)
  \/ \E w \in Writer : WriteRow(w) \/ WriterFails(w)
  \/ PassOver

DelegationNext ==
  \/ \E v \in Entity, d \in Holder : Delegate(v, d)
  \/ \E v \in Entity : Enroll(v)
  \/ DelegatorSync
  \/ DelegatorFails
  \/ DelegatorCommitAndDie
  \/ CountDelegators
  \/ CountFails
  \/ WriteRows
-----------------------------------------------------------------------------
(* Properties.                                                             *)

Snapshot(rows, h, listed) == rows = [v \in Entity |-> IF v \in listed THEN ledger[h][v] ELSE {}]

(* Whatever a reader finds in the table is what the chain said of all      *)
(* validators known at some time, at one height, although the              *)
(* transaction that replaces the table asks the node once per validator    *)
(* while the chain moves on, and may be abandoned at any point             *)
(* (validator_task.go:448-490).                                            *)
TableIsOneSnapshot ==
  \/ delegator = Nobody
  \/ \E h \in 1..Len(ledger), listed \in SUBSET enrolled :
       Enrolled \subseteq listed /\ Snapshot(delegator, h, listed)

(* The API takes the number of pages from the column and the pages from    *)
(* the table (delegatorslogic.go:61-66).  Once the chain rests and the     *)
(* failures are over the table is right for good.  The column is right     *)
(* again and again, and no more than that: a job that read a row before    *)
(* the count puts the old number back, and an old zero empties the list    *)
(* (validator_task.go:157, 268).                                           *)
DelegatorsCatchUp ==
  /\ <>[](\A v \in enrolled : delegator[v] = Last(ledger)[v])
  /\ \A v \in Entity :
       []<>(v \in enrolled =>
              Delegators(v) = [rows |-> Last(ledger)[v], total |-> Cardinality(Last(ledger)[v])])
=============================================================================
