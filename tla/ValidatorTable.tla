--------------------------- MODULE ValidatorTable ---------------------------
(***************************************************************************)
(* Table validator and the three jobs that write it.  NodeScanner follows  *)
(* the registry, ValidatorInfoSync the files the operators publish,        *)
(* ValidatorConsensusSync the stake and the activity, and ranks the rows.  *)
(* Each owns some columns, but every job reads a row, asks remote systems  *)
(* for a while and writes all columns back: the last writer wins.          *)
(*                                                                         *)
(* NodeScanner is reduced to what it does to this table; its own tables    *)
(* and its cursor are the subject of module NodeScanner.                   *)
(***************************************************************************)
EXTENDS Integers, Sequences, FiniteSets, SequencesExt

CONSTANTS
  Entity,      \* entities
  Roster,      \* the order in which the registry and the files list them
  Registered,  \* entities with a node at the start
  Standing,    \* what the chain may say of a validator: stake and activity
  Initial,     \* the standing of each validator at the start
  MaxVersion,  \* bound: versions of an address and of a file
  Broken,      \* file versions that cannot be decoded
  None,        \* no row
  MaxChanges,  \* bound: changes outside of the database
  MaxFaults    \* bound: failures the environment may inject

Version == 0..MaxVersion

ASSUME RosterAssumption ==
  /\ IsFiniteSet(Entity) /\ Entity # {}
  /\ Roster \in Seq(Entity)
  /\ \A e \in Entity : \E i \in DOMAIN Roster : Roster[i] = e
  /\ Cardinality(Entity) = Len(Roster)
  /\ Registered \subseteq Entity
ASSUME StandingAssumption ==
  /\ Standing \subseteq [nodes : {0, 1}, escrow : Nat]
  /\ Initial \in [Entity -> Standing]
ASSUME VersionAssumption ==
  MaxVersion \in Nat \ {0} /\ Broken \subseteq Entity \X Version
ASSUME FaultAssumption == MaxChanges \in Nat /\ MaxFaults \in Nat

(* The columns of each job: the addresses, the file, the consensus ones.   *)
Row == [address : Version, file : Version, nodes : {0, 1}, escrow : Nat,
        rank : 0..Len(Roster)]
Rows == [Entity -> Row \cup {None}]

ASSUME NoneAssumption == None \notin Row

VARIABLES
  registry,   \* registry[e]: which node addresses e has, 0 for none
  file,       \* file[e]: the version of its published file, 0 for none
  standing,   \* standing[e]: what the chain says of e
  validator,  \* database: validator[e], the row of e
  scan,       \* NodeScanner: its locals
  info,       \* ValidatorInfoSync: its locals
  pass,       \* ValidatorConsensusSync: its locals
  quiet,      \* history: nothing has got in the way of the pass
  calm,       \* history: passes in a row that nothing got in the way of
  changes,    \* changes so far
  faults      \* failures injected so far

sources == <<registry, file, standing>>
history == <<quiet, calm>>
vars == <<sources, validator, scan, info, pass, history, changes, faults>>

NoScan == [pc |-> "list", list |-> [e \in Entity |-> 0], at |-> 1, row |-> None]
NoInfo == [pc |-> "list", listed |-> {}, at |-> 1, row |-> None]
NoPass == [pc |-> "find", position |-> 1, order |-> <<>>,
           rows |-> [e \in Entity |-> None], escrow |-> [e \in Entity |-> 0]]

TypeOK ==
  /\ registry \in [Entity -> Version]
  /\ file \in [Entity -> Version]
  /\ standing \in [Entity -> Standing]
  /\ validator \in Rows
  /\ scan \in [pc : {"list", "find", "save"}, list : [Entity -> Version],
               at : DOMAIN Roster, row : Row \cup {None}]
  /\ info \in [pc : {"list", "find", "download"}, listed : SUBSET Entity,
               at : DOMAIN Roster, row : Row \cup {None}]
  /\ pass.pc \in {"find", "status", "update"} /\ pass.position \in 1..Len(Roster)
  /\ pass.order \in Seq(Entity) /\ pass.rows \in Rows /\ pass.escrow \in [Entity -> Nat]
  /\ quiet \in BOOLEAN /\ calm \in 0..2
  /\ changes \in 0..MaxChanges /\ faults \in 0..MaxFaults

Init ==
  /\ registry = [e \in Entity |-> IF e \in Registered THEN 1 ELSE 0]
  /\ file = [e \in Entity |-> 1]
  /\ standing = Initial
  /\ validator = [e \in Entity |-> None]
  /\ scan = NoScan
  /\ info = NoInfo
  /\ pass = NoPass
  /\ quiet = FALSE
  /\ calm = 0
  /\ changes = 0
  /\ faults = 0
-----------------------------------------------------------------------------
(* History: a pass is quiet when no other job holds or inserts a row while *)
(* it runs, and the chain stands still.                                    *)

Stored == {e \in Entity : validator[e] # None}
Running == pass.pc # "find"
Held == scan.row # None \/ info.row # None

(* Another job reads a row. *)
Disturb ==
  /\ quiet' = FALSE
  /\ calm' = IF Running THEN 0 ELSE calm

(* The rows, or what they should say, are others than before. *)
Upset == quiet' = FALSE /\ calm' = 0
-----------------------------------------------------------------------------
(* The world outside.                                                      *)

Change ==
  /\ changes < MaxChanges
  /\ changes' = changes + 1
  /\ UNCHANGED <<validator, scan, info, pass, faults>>

(* A validator registers, or replaces its node. *)
Register(e) ==
  /\ Change
  /\ registry[e] < MaxVersion
  /\ registry' = [registry EXCEPT ![e] = @ + 1]
  /\ UNCHANGED <<file, standing, history>>

Publish(e) ==
  /\ Change
  /\ file[e] < MaxVersion
  /\ file' = [file EXCEPT ![e] = @ + 1]
  /\ UNCHANGED <<registry, standing, history>>

(* Stake moves, or a validator starts or stops to sign. *)
Move(e) ==
  /\ Change
  /\ \E s \in Standing \ {standing[e]} : standing' = [standing EXCEPT ![e] = s]
  /\ Upset
  /\ UNCHANGED <<registry, file>>
-----------------------------------------------------------------------------
(* NodeScanner.                                                            *)

(* The nodes of the next height. *)
ScanList ==
  /\ scan.pc = "list"
  /\ scan' = [scan EXCEPT !.pc = "find", !.list = registry]
  /\ UNCHANGED <<sources, validator, info, pass, history, changes, faults>>

(* The next node, or the end of the list. *)
ScanNext == IF scan.at < Len(Roster)
            THEN [scan EXCEPT !.pc = "find", !.at = @ + 1, !.row = None]
            ELSE NoScan

ScanFind ==
  LET e == Roster[scan.at] IN
  /\ scan.pc = "find"
  /\ IF scan.list[e] = 0
     THEN scan' = ScanNext /\ UNCHANGED history
     ELSE scan' = [scan EXCEPT !.pc = "save", !.row = validator[e]] /\ Disturb
  /\ UNCHANGED <<sources, validator, info, pass, changes, faults>>

NewRow(address) == [address |-> address, file |-> 0, nodes |-> 0, escrow |-> 0, rank |-> 0]

(* Mutant of ScanSave: a row is inserted only.                             *)
ScanSaveInsertOnly ==
  LET e == Roster[scan.at] IN
  /\ scan.pc = "save"
  /\ validator' = IF scan.row = None
                  THEN [validator EXCEPT ![e] = NewRow(scan.list[e])] ELSE validator
  /\ IF scan.row = None THEN Upset ELSE UNCHANGED history
  /\ scan' = ScanNext
  /\ UNCHANGED <<sources, info, pass, changes, faults>>

(* Insert, or update of the row that was read. *)
ScanSave ==
  LET e == Roster[scan.at] IN
  /\ scan.pc = "save"
  /\ validator' = [validator EXCEPT ![e] =
       IF scan.row = None THEN NewRow(scan.list[e])
       ELSE [scan.row EXCEPT !.address = scan.list[e]]]
  /\ IF scan.row = None THEN Upset ELSE UNCHANGED history
  /\ scan' = ScanNext
  /\ UNCHANGED <<sources, info, pass, changes, faults>>

ScanFails == scan.pc # "list" /\ scan' = NoScan /\ UNCHANGED <<info, pass>>
-----------------------------------------------------------------------------
(* ValidatorInfoSync.                                                      *)

(* The directory of published files. *)
InfoList ==
  LET published == {e \in Entity : file[e] > 0} IN
  /\ info.pc = "list"
  /\ published # {}
  /\ info' = [info EXCEPT !.pc = "find", !.listed = published]
  /\ UNCHANGED <<sources, validator, scan, pass, history, changes, faults>>

(* The next file, or the end of the directory. *)
InfoNext == IF info.at < Len(Roster)
            THEN [info EXCEPT !.pc = "find", !.at = @ + 1, !.row = None]
            ELSE NoInfo

(* An entity without a file is not in the directory, one without a row is  *)
(* passed over.                                                            *)
InfoFind ==
  LET e == Roster[info.at] IN
  /\ info.pc = "find"
  /\ IF e \notin info.listed \/ validator[e] = None
     THEN info' = InfoNext /\ UNCHANGED history
     ELSE info' = [info EXCEPT !.pc = "download", !.row = validator[e]] /\ Disturb
  /\ UNCHANGED <<sources, validator, scan, pass, changes, faults>>

(* The file is downloaded and decoded, the row written back.  A file that  *)
(* cannot be decoded ends the run.                                         *)
InfoSave ==
  LET e == Roster[info.at] IN
  /\ info.pc = "download"
  /\ IF <<e, file[e]>> \in Broken
     THEN info' = NoInfo /\ UNCHANGED validator
     ELSE /\ validator' = [validator EXCEPT ![e] = [info.row EXCEPT !.file = file[e]]]
          /\ info' = InfoNext
  /\ UNCHANGED <<sources, scan, pass, history, changes, faults>>

(* The download is empty: the row is left as it is. *)
InfoEmpty ==
  /\ info.pc = "download"
  /\ info' = InfoNext
  /\ UNCHANGED <<scan, pass>>

InfoFails == info.pc # "list" /\ info' = NoInfo /\ UNCHANGED <<scan, pass>>
-----------------------------------------------------------------------------
(* ValidatorConsensusSync.                                                 *)

(* a comes before b: active ones first, then by stake. *)
Before(a, b) == a.nodes > b.nodes \/ (a.nodes = b.nodes /\ a.escrow > b.escrow)

(* Mutant of Sorted: by stake alone.                                       *)
SortedByEscrow(s) ==
  \A i, j \in DOMAIN s : i < j => validator[s[j]].escrow <= validator[s[i]].escrow

(* FindAll orders by the columns as the pass before left them; rows that   *)
(* are equal in both come in any order.                                    *)
Sorted(s) == \A i, j \in DOMAIN s : i < j => ~Before(validator[s[j]], validator[s[i]])

Orders == {s \in SetToSeqs(Stored) : Sorted(s)}

(* Without a row there is nothing to do. *)
PassFind ==
  /\ pass.pc = "find"
  /\ Stored # {}
  /\ \E s \in Orders : pass' = [pass EXCEPT !.pc = "status", !.order = s, !.rows = validator]
  /\ quiet' = ~Held
  /\ calm' = IF Held THEN 0 ELSE calm
  /\ UNCHANGED <<sources, validator, scan, info, changes, faults>>

(* The height of GetStatus fixes the stakes the pass works with. *)
PassStatus ==
  /\ pass.pc = "status"
  /\ pass' = [pass EXCEPT !.pc = "update", !.escrow =
                [e \in Entity |-> IF pass.rows[e] # None THEN standing[e].escrow ELSE 0]]
  /\ UNCHANGED <<sources, validator, scan, info, history, changes, faults>>

(* The row of e after the pass: its position is its rank, and the columns  *)
(* of the other jobs are as FindAll read them.                             *)
Ranked(e) ==
  [pass.rows[e] EXCEPT !.rank = pass.position, !.nodes = standing[e].nodes,
                       !.escrow = pass.escrow[e]]

(* Mutant of PassUpdate: the pass ends at a validator that does not sign.  *)
PassUpdateSigners ==
  LET e == Head(pass.order) IN
  /\ pass.pc = "update"
  /\ validator' = IF standing[e].nodes = 1
                  THEN [validator EXCEPT ![e] = Ranked(e)] ELSE validator
  /\ IF Len(pass.order) > 1 /\ standing[e].nodes = 1
     THEN /\ pass' = [pass EXCEPT !.position = @ + 1, !.order = Tail(@),
                                   !.rows[e] = None, !.escrow[e] = 0]
          /\ UNCHANGED history
     ELSE /\ pass' = NoPass
          /\ calm' = IF ~quiet THEN 0 ELSE IF calm = 2 THEN 2 ELSE calm + 1
          /\ UNCHANGED quiet
  /\ UNCHANGED <<sources, scan, info, changes, faults>>

(* One validator: the signatures are counted, its row is written.  After   *)
(* the last one the pass is over.                                          *)
PassUpdate ==
  LET e == Head(pass.order) IN
  /\ pass.pc = "update"
  /\ validator' = [validator EXCEPT ![e] = Ranked(e)]
  /\ IF Len(pass.order) > 1
     THEN /\ pass' = [pass EXCEPT !.position = @ + 1, !.order = Tail(@),
                                   !.rows[e] = None, !.escrow[e] = 0]
          /\ UNCHANGED history
     ELSE /\ pass' = NoPass
          /\ calm' = IF ~quiet THEN 0 ELSE IF calm = 2 THEN 2 ELSE calm + 1
          /\ UNCHANGED quiet
  /\ UNCHANGED <<sources, scan, info, changes, faults>>

PassFails == Running /\ pass' = NoPass /\ UNCHANGED <<scan, info>>
-----------------------------------------------------------------------------
(* A call of one job fails, or a deployment restarts all of them. *)
Fail ==
  /\ faults < MaxFaults
  /\ faults' = faults + 1
  /\ \/ ScanFails
     \/ InfoFails
     \/ InfoEmpty
     \/ PassFails
     \/ scan' = NoScan /\ info' = NoInfo /\ pass' = NoPass
  /\ IF Running /\ pass' = NoPass THEN Upset ELSE UNCHANGED history
  /\ UNCHANGED <<sources, validator, changes>>

Scan == ScanList \/ ScanFind \/ ScanSave
Info == InfoList \/ InfoFind \/ InfoSave
Pass == PassFind \/ PassStatus \/ PassUpdate

Next ==
  \/ \E e \in Entity : Register(e) \/ Publish(e) \/ Move(e)
  \/ Scan
  \/ Info
  \/ Pass
  \/ Fail

(* cron starts each job again and again, and the chain, which is not       *)
(* modelled here, gives NodeScanner one height after another.              *)
Fairness == WF_vars(Scan) /\ WF_vars(Info) /\ WF_vars(Pass)

Spec == Init /\ [][Next]_vars /\ Fairness
-----------------------------------------------------------------------------
(* Properties.                                                             *)

(* After a pass that ended, and that no other job's copy of a row reached  *)
(* into, the ranks are 1, 2, ... without a gap or a tie.  A pass cut off   *)
(* half-way or a row written back by another job is the only way to a tie  *)
(* (validator_task.go:311 and :425: read at the start, written one by one).*)
RanksAreAPermutation ==
  /\ TypeOK
  /\ (~Running /\ calm > 0) =>
       {validator[e].rank : e \in Stored} = 1..Cardinality(Stored)

(* Ranks lag by one pass: they order the stakes the pass before wrote.     *)
(* Two passes in a row that nothing got in the way of leave the rows as    *)
(* the chain has them and ranked by just these columns                     *)
(* (validatormodel.go:52, order by nodes desc, escrow desc).               *)
TwoPassesSettle ==
  (~Running /\ calm = 2) =>
    /\ \A e \in Stored : validator[e].nodes = standing[e].nodes
                     /\ validator[e].escrow = standing[e].escrow
    /\ \A e, f \in Stored :
         Before(validator[e], validator[f]) => validator[e].rank < validator[f].rank

(* A file that stops ValidatorInfoSync before it comes to e, or at e. *)
Blocked(e) == \E i, j \in DOMAIN Roster :
  i <= j /\ Roster[j] = e /\ <<Roster[i], file[Roster[i]]>> \in Broken

(* Liveness: no column stays stale.  Another job may write an old value    *)
(* back at any time, but its owner sets it right again and again; only a   *)
(* file that cannot be decoded keeps the ones listed after it from their   *)
(* names (validator_task.go:229 returns instead of continuing).            *)
ColumnsFreshAgain ==
  \A e \in Entity :
    /\ []<>(registry[e] > 0 => e \in Stored /\ validator[e].address = registry[e])
    /\ []<>(e \in Stored /\ ~Blocked(e) => validator[e].file = file[e])
    /\ []<>(e \in Stored => /\ validator[e].rank > 0
                            /\ validator[e].nodes = standing[e].nodes
                            /\ validator[e].escrow = standing[e].escrow)
=============================================================================
