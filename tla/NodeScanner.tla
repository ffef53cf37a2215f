---------------------------- MODULE NodeScanner -----------------------------
(***************************************************************************)
(* The NodeScanner job: every 5 seconds it walks the registry from its     *)
(* cursor to the tip of the chain, records every node it has not seen yet  *)
(* and keeps one validator row per entity.  Statements are not grouped in  *)
(* a transaction, so a run may stop between any two of them.               *)
(***************************************************************************)
EXTENDS Integers, Sequences

CONSTANTS
  Genesis,    \* GenesisHeight of the chain
  MaxHeight,  \* bound: the chain stops growing here
  Entity,     \* entities
  NodeId,     \* node identities
  Consensus,  \* consensus addresses
  Lists,      \* the node lists the registry may have at a height
  None,       \* no row
  MaxFaults   \* bound: failures the environment may inject

Height == Genesis..MaxHeight

(* A registered node; the flag is the validator role among its roles. *)
Descriptor ==
  [entity : Entity, node : NodeId, consensus : Consensus, validator : BOOLEAN]

NodeRow == [entity : Entity, node : NodeId, consensus : Consensus, height : Height]
ValidatorRow == [nodeId : NodeId, nodeAddress : NodeId, consensus : Consensus]

ASSUME HeightAssumption ==
  /\ Genesis \in Nat \ {0}
  /\ MaxHeight \in Nat
  /\ Genesis <= MaxHeight
ASSUME ListAssumption == Lists \subseteq Seq(Descriptor)
ASSUME FaultAssumption == MaxFaults \in Nat
ASSUME NoneAssumption == None \notin Int /\ None \notin ValidatorRow

VARIABLES
  latest,         \* consensus: height of the last block
  registry,       \* consensus: registry[h], what GetNodes returns for h
  node,           \* database: the rows of table node, in id order
  validator,      \* database: validator[e], the row of entity e
  cursor,         \* database: value of the property "node_height"
  pc,             \* scanner: the call it makes next
  currentHeight,  \* scanner: LatestHeight as GetStatus reported it
  nodeHeight,     \* scanner: the height it works on
  index,          \* scanner: the position in the list of that height
  row,            \* scanner: the validator row it has read
  faults          \* failures injected so far

tables  == <<node, validator, cursor>>
scanner == <<pc, currentHeight, nodeHeight, index, row>>
vars == <<latest, registry, node, validator, cursor,
          pc, currentHeight, nodeHeight, index, row, faults>>

Writing == {"insertCursor", "insertNode", "insertValidator", "updateValidator", "updateCursor"}
PC == {"idle", "findCursor", "getNodes", "findNode", "findLatestNode", "findValidator"} \cup Writing

TypeOK ==
  /\ latest \in Height
  /\ registry \in [Height -> Lists \cup {<<>>}]
  /\ node \in Seq(NodeRow)
  /\ validator \in [Entity -> ValidatorRow \cup {None}]
  /\ cursor \in Height \cup {None}
  /\ pc \in PC
  /\ currentHeight \in Height
  /\ nodeHeight \in Genesis..(MaxHeight + 1)
  /\ index \in Nat
  /\ row \in ValidatorRow \cup {None}
  /\ faults \in 0..MaxFaults

Init ==
  /\ latest = Genesis
  /\ \E list \in Lists : registry = [h \in Height |-> IF h = Genesis THEN list ELSE <<>>]
  /\ node = <<>>
  /\ validator = [e \in Entity |-> None]
  /\ cursor = None
  /\ pc = "idle"
  /\ currentHeight = Genesis
  /\ nodeHeight = Genesis
  /\ index = 0
  /\ row = None
  /\ faults = 0
-----------------------------------------------------------------------------
(* The rows.                                                               *)

(* The descriptor the scanner works on. *)
Current == registry[nodeHeight][index]

IsRowOf(r, d) == r.entity = d.entity /\ r.node = d.node /\ r.consensus = d.consensus

(* Mutants of Known: the lookup is by height too, or by entity alone.      *)
KnownAtHeight(d) == \E i \in DOMAIN node : IsRowOf(node[i], d) /\ node[i].height = nodeHeight
KnownEntity(d)   == \E i \in DOMAIN node : node[i].entity = d.entity

(* FindOneByEntityIdNodeIdConsensusAddress *)
Known(d) == \E i \in DOMAIN node : IsRowOf(node[i], d)

(* The first row of FindByEntityId, which orders by id, newest first. *)
NewestNode(e) ==
  node[CHOOSE i \in DOMAIN node :
         /\ node[i].entity = e
         /\ \A j \in DOMAIN node : node[j].entity = e => j <= i]

(* What an update makes of a validator row: the node id only follows a     *)
(* node that has the validator role.                                       *)
Updated(r, d) ==
  [nodeId      |-> IF d.validator THEN d.node ELSE r.nodeId,
   nodeAddress |-> d.node,
   consensus   |-> d.consensus]

(* The effect of the statement the scanner sends at p. *)
Effect(p) ==
  CASE p = "insertCursor" ->
         cursor' = Genesis /\ UNCHANGED <<node, validator>>
    [] p = "insertNode" ->
         /\ node' = Append(node, [entity |-> Current.entity, node |-> Current.node,
                                  consensus |-> Current.consensus, height |-> nodeHeight])
         /\ UNCHANGED <<validator, cursor>>
    [] p = "insertValidator" ->
         /\ validator' = [validator EXCEPT ![Current.entity] =
                            [nodeId |-> Current.node, nodeAddress |-> Current.node,
                             consensus |-> Current.consensus]]
         /\ UNCHANGED <<node, cursor>>
    [] p = "updateValidator" ->
         /\ validator' = [validator EXCEPT ![Current.entity] = Updated(row, Current)]
         /\ UNCHANGED <<node, cursor>>
    [] p = "updateCursor" ->
         cursor' = nodeHeight /\ UNCHANGED <<node, validator>>
-----------------------------------------------------------------------------
(* The steps of a run.                                                     *)

Return ==
  /\ pc' = "idle"
  /\ currentHeight' = Genesis
  /\ nodeHeight' = Genesis
  /\ index' = 0
  /\ row' = None

Fault ==
  /\ faults < MaxFaults
  /\ faults' = faults + 1

(* The loop over the heights, at h. *)
Loop(h) ==
  IF h <= currentHeight
  THEN /\ pc' = "getNodes"
       /\ nodeHeight' = h
       /\ index' = 0
       /\ row' = None
       /\ UNCHANGED currentHeight
  ELSE Return

(* The loop over the nodes of a height, at position i. *)
NextNode(i) ==
  /\ pc' = IF i <= Len(registry[nodeHeight]) THEN "findNode" ELSE "updateCursor"
  /\ index' = i
  /\ row' = None
  /\ UNCHANGED <<currentHeight, nodeHeight>>

GoTo(p) ==
  /\ pc' = p
  /\ UNCHANGED <<currentHeight, nodeHeight, index, row>>

(* A block is produced, with the nodes registered by then. *)
Grow ==
  /\ latest < MaxHeight
  /\ latest' = latest + 1
  /\ \E list \in Lists : registry' = [registry EXCEPT ![latest + 1] = list]
  /\ UNCHANGED <<tables, scanner, faults>>

GetStatus ==
  /\ pc = "idle"
  /\ pc' = "findCursor"
  /\ currentHeight' = latest
  /\ UNCHANGED <<latest, registry, tables, nodeHeight, index, row, faults>>

(* The node that answers GetStatus lags behind the chain. *)
GetStaleStatus ==
  /\ pc = "idle"
  /\ Fault
  /\ pc' = "findCursor"
  /\ currentHeight' \in Genesis..(latest - 1)
  /\ UNCHANGED <<latest, registry, tables, nodeHeight, index, row>>

(* The scan resumes after the cursor. *)
FindCursor ==
  /\ pc = "findCursor"
  /\ IF cursor = None THEN GoTo("insertCursor") ELSE Loop(cursor + 1)
  /\ UNCHANGED <<latest, registry, tables, faults>>

GetNodes ==
  /\ pc = "getNodes"
  /\ NextNode(1)
  /\ UNCHANGED <<latest, registry, tables, faults>>

FindNode ==
  /\ pc = "findNode"
  /\ GoTo(IF Known(Current) THEN "findLatestNode" ELSE "insertNode")
  /\ UNCHANGED <<latest, registry, tables, faults>>

(* Mutant of FindLatestNode: break instead of continue.                    *)
FindLatestNodeBreak ==
  /\ pc = "findLatestNode"
  /\ GoTo(IF NewestNode(Current.entity).node = Current.node
          THEN "findValidator" ELSE "updateCursor")
  /\ UNCHANGED <<latest, registry, tables, faults>>

(* Only the newest node of an entity touches its validator row. *)
FindLatestNode ==
  /\ pc = "findLatestNode"
  /\ IF NewestNode(Current.entity).node = Current.node
     THEN GoTo("findValidator")
     ELSE NextNode(index + 1)
  /\ UNCHANGED <<latest, registry, tables, faults>>

FindValidator ==
  /\ pc = "findValidator"
  /\ row' = validator[Current.entity]
  /\ pc' = IF row' = None THEN "insertValidator" ELSE "updateValidator"
  /\ UNCHANGED <<latest, registry, tables, currentHeight, nodeHeight, index, faults>>

(* A statement succeeds and the run goes on. *)
Write ==
  /\ pc \in Writing
  /\ Effect(pc)
  /\ CASE pc = "insertCursor" -> Loop(Genesis)
       [] pc = "insertNode" -> GoTo("findLatestNode")
       [] pc \in {"insertValidator", "updateValidator"} -> NextNode(index + 1)
       [] pc = "updateCursor" -> Loop(nodeHeight + 1)
  /\ UNCHANGED <<latest, registry, faults>>

(* A statement succeeds, but its answer is lost or the process killed. *)
WriteAndDie ==
  /\ pc \in Writing
  /\ Fault
  /\ Effect(pc)
  /\ Return
  /\ UNCHANGED <<latest, registry>>

(* A call fails, or the process is killed before it. *)
Fail ==
  /\ pc # "idle"
  /\ Fault
  /\ Return
  /\ UNCHANGED <<latest, registry, tables>>

Scan ==
  \/ GetStatus
  \/ FindCursor
  \/ GetNodes
  \/ FindNode
  \/ FindLatestNode
  \/ FindValidator
  \/ Write

Next ==
  \/ Grow
  \/ Scan
  \/ GetStaleStatus
  \/ WriteAndDie
  \/ Fail

(* cron starts the job again and again and a running job makes its next call. *)
Fairness == WF_vars(Scan)

Spec == Init /\ [][Next]_vars /\ Fairness
-----------------------------------------------------------------------------
(* Properties.                                                             *)

ListedAt(h) == {registry[h][i] : i \in DOMAIN registry[h]}

(* Every node listed at h is in table node, every entity of one has its    *)
(* validator row.                                                          *)
Recorded(h) ==
  \A d \in ListedAt(h) :
    (\E i \in DOMAIN node : IsRowOf(node[i], d)) /\ validator[d.entity] # None

(* A node has one row, and its height is the first one at which it is      *)
(* listed, however often the scan was interrupted and resumed, genesis     *)
(* being the exception.  The two addresses of a validator row belong       *)
(* together: the registry has listed that node with that consensus address *)
(* for the row's entity.                                                   *)
RowsAsRegistered ==
  /\ TypeOK
  /\ \A i \in DOMAIN node :
       /\ \E d \in ListedAt(node[i].height) : IsRowOf(node[i], d)
       /\ \A h \in (Genesis + 1)..(node[i].height - 1) :
            \A d \in ListedAt(h) : ~IsRowOf(node[i], d)
       /\ \A j \in DOMAIN node : j # i => ~IsRowOf(node[i], node[j])
  /\ \A e \in Entity : validator[e] # None =>
       \E i \in DOMAIN node :
         /\ node[i].entity = e
         /\ node[i].node = validator[e].nodeAddress
         /\ node[i].consensus = validator[e].consensus

(* The cursor never passes a height with a node that is not recorded,      *)
(* which is the promise of a cursor, except at genesis: the property is    *)
(* inserted with the genesis height before that height is worked on, and a *)
(* resumed run starts after the cursor (validator_task.go:43-62), so a     *)
(* failure at genesis skips it.                                            *)
Cursor == INSTANCE Checkpoint WITH
  done   <- {h \in Genesis..latest : h = Genesis \/ Recorded(h)},
  resume <- IF cursor = None THEN Genesis ELSE cursor + 1
CursorSpec == Cursor!Spec

(* Liveness: every node that is ever listed after genesis is recorded.     *)
EveryNodeIsRecorded ==
  \A h \in Height \ {Genesis} : latest >= h ~> Recorded(h)
=============================================================================
