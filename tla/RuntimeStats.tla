---------------------------- MODULE RuntimeStats ----------------------------
(***************************************************************************)
(* The RuntimeStats job: every 5 seconds, for one ParaTime after another,  *)
(* it walks the consensus heights after the ParaTime's cursor and adds the *)
(* committee of each new round to counters per entity.  A height is one    *)
(* database transaction: counters, node list and cursor change together.   *)
(* The round the job compares with is kept in memory and starts at 0 in    *)
(* every run.                                                              *)
(*                                                                         *)
(* The statistics the job only keeps in memory (discrepancies, good and    *)
(* bad commitments) never leave the function and are left out.             *)
(***************************************************************************)
EXTENDS Faults, Integers, Sequences, FiniteSets, Functions

CONSTANTS
  Genesis,     \* GenesisHeight of the chain
  MaxHeight,   \* bound: the chain stops growing here
  Runtime,     \* the ParaTimes in table runtime
  Node,        \* nodes
  Entities,    \* entities
  EntityOf,    \* EntityOf[n]: the entity of node n in the registry
  RowsOf,      \* RowsOf[r]: the entities that have a row in runtime_stats
  Registered,  \* Registered[r][h]: nodes registered for r at height h
  Block,       \* Block[r][h]: the latest block of r and its committee
  MaxLate      \* bound: COMMITs decided only after the job went on

Height  == Genesis..MaxHeight
Role    == {"worker", "backup"}
Column  == {"elected", "primary", "backup", "proposer"}

(* "missing": the ParaTime does not exist yet; "unknown": a header type    *)
(* the job does not know.                                                  *)
HeaderType == {"normal", "epochTransition", "failed", "suspended", "missing", "unknown"}

ASSUME HeightAssumption ==
  /\ Genesis \in Nat \ {0}
  /\ MaxHeight \in Nat
  /\ Genesis <= MaxHeight
ASSUME EntitiesAssumption ==
  /\ IsFiniteSet(Entities)
  /\ EntityOf \in [Node -> Entities]
  /\ RowsOf \in [Runtime -> SUBSET Entities]
(* A ParaTime that is there stays there. *)
ASSUME BlockAssumption ==
  /\ Registered \in [Runtime -> [Height -> SUBSET Node]]
  /\ Block \in [Runtime -> [Height ->
       [round : Nat, type : HeaderType,
        committee : Seq([node : Node, role : Role]), proposer : Node \cup {None}]]]
  /\ \A r \in Runtime, h \in Height :
       Block[r][h].type = "missing" => \A g \in Genesis..h : Block[r][g].type = "missing"
ASSUME LateAssumption == MaxLate \in Nat
ASSUME NoneAssumption == None \notin Int \cup Node \cup Runtime

VARIABLES
  latest,         \* consensus: height of the last block
  cursor,         \* database: property "runtime_stats_" of each ParaTime
  runtimeNode,    \* database: nodes of each ParaTime in table runtime_node
  counters,       \* database: counters[r][e][c], counter c of table runtime_stats
  inflight,       \* database: transactions whose COMMIT is still undecided
  pc,             \* job: the call it makes next
  currentHeight,  \* job: LatestHeight as GetStatus reported it
  current,        \* job: the ParaTime it works on
  todo,           \* job: the ParaTimes it has yet to visit
  scanHeight,     \* job: the height it works on
  currentRound,   \* job: the round of the last block it has seen
  late            \* COMMITs decided late so far

tables    == <<cursor, runtimeNode, counters>>
job       == <<pc, currentHeight, current, todo, scanHeight, currentRound>>
statsVars == <<latest, tables, inflight, job, faults, late>>

(* A transaction: the height it belongs to, whether it adds the committee  *)
(* of that height, whether it moves the cursor.                            *)
Session == [runtime : Runtime, height : Height, counts : BOOLEAN, advances : BOOLEAN]

TypeOK ==
  /\ latest \in Height
  /\ cursor \in [Runtime -> Height \cup {None}]
  /\ runtimeNode \in [Runtime -> SUBSET Node]
  /\ counters \in [Runtime -> [Entities -> [Column -> Nat]]]
  /\ inflight \subseteq Session
  /\ pc \in {"idle", "findCursor", "insertCursor", "save"}
  /\ currentHeight \in Height
  /\ current \in Runtime \cup {None}
  /\ todo \subseteq Runtime
  /\ scanHeight \in Genesis..(MaxHeight + 1)
  /\ currentRound \in Nat
  /\ faults \in 0..MaxFaults
  /\ late \in 0..MaxLate

StatsInit ==
  /\ latest = Genesis
  /\ cursor = [r \in Runtime |-> None]
  /\ runtimeNode = [r \in Runtime |-> {}]
  /\ counters = [r \in Runtime |-> [e \in Entities |-> [c \in Column |-> 0]]]
  /\ inflight = {}
  /\ pc = "idle"
  /\ currentHeight = Genesis
  /\ current = None
  /\ todo = {}
  /\ scanHeight = Genesis
  /\ currentRound = 0
  /\ faults = 0
  /\ late = 0
-----------------------------------------------------------------------------
(* What one height contributes.                                            *)

(* The job returns from the transaction without touching the cursor. *)
Quiet(b) == b.type \in {"missing", "suspended"} \/ (b.type # "unknown" /\ b.committee = <<>>)

(* Setting up the round fails. *)
Bad(b) == b.type = "unknown" \/ (~Quiet(b) /\ b.proposer = None)

(* What entity e gains in column c from the committee of block b: elected  *)
(* counts nodes, the other columns count committee members.                *)
Gain(b, e, c) ==
  LET mine == {i \in DOMAIN b.committee : EntityOf[b.committee[i].node] = e}
  IN  CASE c = "elected"  -> Cardinality({b.committee[i].node : i \in mine})
        [] c = "primary"  -> Cardinality({i \in mine : b.committee[i].role = "worker"})
        [] c = "backup"   -> Cardinality({i \in mine : b.committee[i].role = "backup"})
        [] c = "proposer" -> Cardinality({i \in mine : b.committee[i].node = b.proposer})

(* The transaction for height h of r when the last round seen is round. *)
SessionAt(r, h, round) ==
  LET b == Block[r][h]
      opens == b.type # "missing" /\ b.round # round
  IN  [runtime  |-> r,
       height   |-> h,
       counts   |-> opens /\ ~Quiet(b),
       advances |-> b.type # "missing" /\ (opens => ~Quiet(b))]

(* Table runtime_node with the nodes registered at the height of s. *)
NodesAfter(s) ==
  [runtimeNode EXCEPT ![s.runtime] = @ \cup Registered[s.runtime][s.height]]

(* The counters with the committee of the height of s.  They are updated,  *)
(* never inserted: the error tested to choose between the two is not the   *)
(* one of the lookup, which is commented out (runtime_task.go:681-725).    *)
StatsAfter(s) ==
  IF ~s.counts THEN counters
  ELSE [counters EXCEPT ![s.runtime] = [e \in Entities |-> [c \in Column |->
          @[e][c] + IF e \in RowsOf[s.runtime] THEN Gain(Block[s.runtime][s.height], e, c) ELSE 0]]]

(* The transaction takes effect. *)
Apply(s) ==
  /\ runtimeNode' = NodesAfter(s)
  /\ counters' = StatsAfter(s)
  /\ cursor' = IF s.advances THEN [cursor EXCEPT ![s.runtime] = s.height] ELSE cursor
-----------------------------------------------------------------------------
(* The steps of a run.                                                     *)

Return ==
  /\ pc' = "idle"
  /\ currentHeight' = Genesis
  /\ current' = None
  /\ todo' = {}
  /\ scanHeight' = Genesis
  /\ currentRound' = 0

Visit(r, rest) ==
  /\ pc' = "findCursor"
  /\ current' = r
  /\ todo' = rest \ {r}

(* Mutant of NextRuntime: the run ends after its first ParaTime.           *)
NextRuntimeNever == Return

(* FindAll has no ORDER BY: the ParaTimes come in any order. *)
NextRuntime ==
  IF todo # {}
  THEN /\ \E r \in todo : Visit(r, todo)
       /\ scanHeight' = Genesis
       /\ currentRound' = 0
       /\ UNCHANGED currentHeight
  ELSE Return

(* The loop over the heights, at h. *)
Loop(h, round) ==
  IF h <= currentHeight
  THEN /\ pc' = "save"
       /\ scanHeight' = h
       /\ currentRound' = round
       /\ UNCHANGED <<currentHeight, current, todo>>
  ELSE NextRuntime

Grow ==
  /\ latest < MaxHeight
  /\ latest' = latest + 1
  /\ UNCHANGED <<tables, inflight, job, faults, late>>

GetStatus ==
  /\ pc = "idle"
  /\ \E r \in Runtime : Visit(r, Runtime)
  /\ currentHeight' = latest
  /\ UNCHANGED <<latest, tables, inflight, scanHeight, currentRound, faults, late>>

(* Mutant of Resume: no increment.                                         *)
ResumeAtCursor(c) == c

(* A run starts after the cursor. *)
Resume(c) == c + 1

FindCursor ==
  /\ pc = "findCursor"
  /\ LET c == cursor[current]
     IN  IF c = None
         THEN pc' = "insertCursor" /\ UNCHANGED <<currentHeight, current, todo, scanHeight, currentRound>>
         ELSE Loop(Resume(c), 0)
  /\ UNCHANGED <<latest, tables, inflight, faults, late>>

AddCursor ==
  /\ cursor' = [cursor EXCEPT ![current] = Genesis]
  /\ UNCHANGED <<runtimeNode, counters>>

InsertCursor ==
  /\ pc = "insertCursor"
  /\ AddCursor
  /\ Loop(Genesis, 0)
  /\ UNCHANGED <<latest, inflight, faults, late>>

(* The cursor is inserted, but the answer is lost or the process killed. *)
InsertCursorAndDie ==
  /\ pc = "insertCursor"
  /\ Fault
  /\ AddCursor
  /\ Return
  /\ UNCHANGED <<latest, inflight, late>>

(* The transaction of the height the job works on.  Its statements wait    *)
(* for the locks of an undecided transaction.                              *)
Opened == SessionAt(current, scanHeight, currentRound)
Free   == \A o \in inflight : o.runtime # current

BadHeight == LET b == Block[current][scanHeight] IN Bad(b) /\ b.round # currentRound

SeenRound ==
  LET b == Block[current][scanHeight]
  IN  IF b.type = "missing" THEN currentRound ELSE b.round

Save ==
  /\ pc = "save"
  /\ ~BadHeight
  /\ Free
  /\ Apply(Opened)
  /\ Loop(scanHeight + 1, SeenRound)
  /\ UNCHANGED <<latest, inflight, faults, late>>

(* The height cannot be handled: the transaction rolls back and the whole  *)
(* run ends, whatever ParaTimes are left.                                  *)
SaveFails ==
  /\ pc = "save"
  /\ BadHeight
  /\ Return
  /\ UNCHANGED <<latest, tables, inflight, faults, late>>

(* The COMMIT takes effect, but its answer is lost. *)
SaveAndDie ==
  /\ pc = "save"
  /\ Fault
  /\ ~BadHeight
  /\ Free
  /\ Apply(Opened)
  /\ Return
  /\ UNCHANGED <<latest, inflight, late>>

(* The answer is lost and PostgreSQL has yet to see the COMMIT. *)
SaveUndecided ==
  /\ pc = "save"
  /\ Fault
  /\ late < MaxLate
  /\ late' = late + 1
  /\ ~BadHeight
  /\ Free
  /\ inflight' = inflight \cup {Opened}
  /\ Return
  /\ UNCHANGED <<latest, tables>>

Decide ==
  \E s \in inflight :
    /\ inflight' = inflight \ {s}
    /\ Apply(s) \/ UNCHANGED tables
    /\ UNCHANGED <<latest, job, faults, late>>

(* A call fails, or the process is killed before it. *)
Fail ==
  /\ pc # "idle"
  /\ Fault
  /\ Return
  /\ UNCHANGED <<latest, tables, inflight, late>>

Run ==
  \/ GetStatus
  \/ FindCursor
  \/ InsertCursor
  \/ Save
  \/ SaveFails

StatsNext ==
  \/ Grow
  \/ Run
  \/ InsertCursorAndDie
  \/ SaveAndDie
  \/ SaveUndecided
  \/ Decide
  \/ Fail

(* cron starts the job again and again, a running job makes its next call  *)
(* and PostgreSQL gets to know that a client is gone.                      *)
StatsFairness == WF_statsVars(Run) /\ WF_statsVars(Decide)

StatsSpec == StatsInit /\ [][StatsNext]_statsVars /\ StatsFairness
-----------------------------------------------------------------------------
(* Properties.                                                             *)

(* The chain itself starts a new round at h. *)
NewRound(r, h) ==
  /\ Block[r][h].round # 0
  /\ h > Genesis => Block[r][h].round # Block[r][h - 1].round

Counted(r, h) == ~Quiet(Block[r][h])

TotalGain(r, e, c, heights) == SumFunctionOnSet([h \in Height |-> Gain(Block[r][h], e, c)], heights)

(* No election is missed: up to the cursor, every new round after genesis  *)
(* is in the counters, wherever the scan was interrupted.  No height is    *)
(* added twice, even when the job repeats it because it never heard of its *)
(* COMMIT: counters and cursor are one transaction.  A COMMIT decided      *)
(* while a later run is under way does add its height again.               *)
CountedExactlyOnce ==
  /\ TypeOK
  /\ \A r \in Runtime : cursor[r] # None =>
       \A e \in RowsOf[r], c \in Column :
         counters[r][e][c] >= TotalGain(r, e, c,
           {h \in (Genesis + 1)..cursor[r] : NewRound(r, h) /\ Counted(r, h)})
  /\ late = 0 => \A r \in Runtime, e \in Entities, c \in Column :
       counters[r][e][c] <=
         TotalGain(r, e, c, {h \in Genesis..latest : Counted(r, h) /\ cursor[r] # None /\ h <= cursor[r]})

(* Liveness: the counters reach every height that has a committee, unless  *)
(* a round of some ParaTime cannot be set up.                              *)
EveryHeightScanned ==
  \A r \in Runtime : \A h \in Height :
    Counted(r, h) /\ latest >= h
      ~> \/ cursor[r] # None /\ cursor[r] >= h
         \/ \E s \in Runtime : \E g \in Genesis..latest : Bad(Block[s][g])

(* "Rounds entity node was elected." (common/runtime.go:80): a counter     *)
(* never exceeds the rounds that took place.                               *)
CountedOncePerRound ==
  \A r \in Runtime, e \in Entities :
    counters[r][e]["elected"] <= TotalGain(r, e, "elected", {h \in Height : NewRound(r, h) /\ Counted(r, h)})

(* The same sentence for an entity that is elected for the first time: it  *)
(* has a counter too.                                                      *)
NewEntityCounted ==
  \A r \in Runtime : cursor[r] # None =>
    \A e \in Entities :
      counters[r][e]["elected"] >= TotalGain(r, e, "elected",
        {h \in (Genesis + 1)..cursor[r] : NewRound(r, h) /\ Counted(r, h)})
=============================================================================
