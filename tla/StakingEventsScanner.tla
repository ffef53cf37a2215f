------------------------ MODULE StakingEventsScanner ------------------------
(***************************************************************************)
(* The StakingEventsScanner job: every 5 seconds it copies the staking     *)
(* events of the heights after its cursor into PostgreSQL, one statement   *)
(* at a time, and then moves the cursor.  There is no transaction: a run   *)
(* may stop between any two statements, and a statement whose answer got   *)
(* lost may still take effect while a later run is under way.              *)
(***************************************************************************)
EXTENDS Integers

CONSTANTS
  Genesis,     \* GenesisHeight of the chain
  MaxHeight,   \* bound: the chain stops growing here
  EventCount,  \* EventCount[h]: how many events GetEvents returns for h
  NoCursor,    \* the property row does not exist
  MaxFaults    \* bound: failures the environment may inject

Height == Genesis..MaxHeight

ASSUME HeightAssumption ==
  /\ Genesis \in Nat \ {0}
  /\ MaxHeight \in Nat
  /\ Genesis <= MaxHeight
ASSUME EventAssumption == EventCount \in [Height -> Nat]
ASSUME FaultAssumption == MaxFaults \in Nat
ASSUME CursorAssumption == NoCursor \notin Int

(* The key of a row: (height, position), the position counted from 0. *)
Event == UNION {{h} \X (0..(EventCount[h] - 1)) : h \in Height}

VARIABLES
  latest,         \* consensus: height of the last block
  rows,           \* database: rows[e], how often event e is stored
  cursor,         \* database: value of the property "staking_event_height"
  late,           \* statements sent, their answers lost, still undecided
  pc,             \* scanner: the call it makes next
  currentHeight,  \* scanner: LatestHeight as GetStatus reported it
  scanHeight,     \* scanner: the height it copies
  position,       \* scanner: the index of the event it copies
  faults          \* failures injected so far

scanner == <<pc, currentHeight, scanHeight, position>>
vars == <<latest, rows, cursor, late, pc, currentHeight, scanHeight, position, faults>>

PC == {"idle", "findCursor", "insertCursor", "getEvents", "findEvent", "insertEvent",
       "updateCursor"}

(* The statements the scanner sends. *)
Statement ==
       [kind : {"insertEvent"}, event : Event]
  \cup [kind : {"insertCursor", "updateCursor"}, value : Height]

TypeOK ==
  /\ latest \in Height
  /\ rows \in [Event -> Nat]
  /\ cursor \in Height \cup {NoCursor}
  /\ late \subseteq Statement
  /\ pc \in PC
  /\ currentHeight \in Height
  /\ scanHeight \in Genesis..(MaxHeight + 1)
  /\ position \in Nat
  /\ faults \in 0..MaxFaults

Init ==
  /\ latest = Genesis
  /\ rows = [e \in Event |-> 0]
  /\ cursor = NoCursor
  /\ late = {}
  /\ pc = "idle"
  /\ currentHeight = Genesis
  /\ scanHeight = Genesis
  /\ position = 0
  /\ faults = 0
-----------------------------------------------------------------------------
(* The database.                                                           *)

(* Mutant of Accepts: the tables have no unique keys.                      *)
AcceptsAll(s) == TRUE

(* The unique keys: (height, position), and the property's name. *)
Accepts(s) ==
  CASE s.kind = "insertEvent"  -> rows[s.event] = 0
    [] s.kind = "insertCursor" -> cursor = NoCursor
    [] s.kind = "updateCursor" -> TRUE

(* An UPDATE of a property that does not exist changes nothing. *)
Apply(s) ==
  /\ rows' = IF s.kind = "insertEvent" THEN [rows EXCEPT ![s.event] = @ + 1] ELSE rows
  /\ cursor' = IF \/ s.kind = "insertCursor"
                  \/ s.kind = "updateCursor" /\ cursor # NoCursor
               THEN s.value ELSE cursor

(* Mutant of Pending: the cursor gets LatestHeight.                        *)
PendingCurrent ==
  IF pc = "insertEvent"
  THEN [kind |-> "insertEvent", event |-> <<scanHeight, position>>]
  ELSE [kind |-> pc, value |-> IF pc = "updateCursor" THEN currentHeight ELSE scanHeight]

(* The statement the scanner is about to send. *)
Pending ==
  IF pc = "insertEvent"
  THEN [kind |-> "insertEvent", event |-> <<scanHeight, position>>]
  ELSE [kind |-> pc, value |-> scanHeight]

Writing == pc \in {"insertEvent", "insertCursor", "updateCursor"}
-----------------------------------------------------------------------------
(* The scanner.                                                            *)

Return ==
  /\ pc' = "idle"
  /\ currentHeight' = Genesis
  /\ scanHeight' = Genesis
  /\ position' = 0

Fault ==
  /\ faults < MaxFaults
  /\ faults' = faults + 1

(* The loop condition, evaluated for height h. *)
Loop(h) ==
  IF h <= currentHeight
  THEN /\ pc' = "getEvents"
       /\ scanHeight' = h
       /\ position' = 0
       /\ UNCHANGED currentHeight
  ELSE Return

(* The loop over the events of a height, at index i. *)
NextEvent(i) ==
  /\ position' = i
  /\ pc' = IF i < EventCount[scanHeight] THEN "findEvent" ELSE "updateCursor"
  /\ UNCHANGED <<currentHeight, scanHeight>>

Grow ==
  /\ latest < MaxHeight
  /\ latest' = latest + 1
  /\ UNCHANGED <<rows, cursor, late, scanner, faults>>

GetStatus ==
  /\ pc = "idle"
  /\ pc' = "findCursor"
  /\ currentHeight' = latest
  /\ UNCHANGED <<latest, rows, cursor, late, scanHeight, position, faults>>

(* The node that answers GetStatus lags behind the chain. *)
GetStaleStatus ==
  /\ pc = "idle"
  /\ Fault
  /\ pc' = "findCursor"
  /\ currentHeight' \in Genesis..(latest - 1)
  /\ UNCHANGED <<latest, rows, cursor, late, scanHeight, position>>

(* Mutant of FindCursor: the scan resumes after the cursor.                *)
FindCursorAndIncrement ==
  /\ pc = "findCursor"
  /\ IF cursor = NoCursor
     THEN /\ pc' = "insertCursor"
          /\ UNCHANGED <<currentHeight, scanHeight, position>>
     ELSE Loop(cursor + 1)
  /\ UNCHANGED <<latest, rows, cursor, late, faults>>

(* The scan resumes at the cursor, whose height is copied again. *)
FindCursor ==
  /\ pc = "findCursor"
  /\ IF cursor = NoCursor
     THEN /\ pc' = "insertCursor"
          /\ UNCHANGED <<currentHeight, scanHeight, position>>
     ELSE Loop(cursor)
  /\ UNCHANGED <<latest, rows, cursor, late, faults>>

InsertCursor ==
  /\ pc = "insertCursor"
  /\ IF Accepts(Pending)
     THEN Apply(Pending) /\ Loop(Genesis)
     ELSE Return /\ UNCHANGED <<rows, cursor>>
  /\ UNCHANGED <<latest, late, faults>>

GetEvents ==
  /\ pc = "getEvents"
  /\ NextEvent(0)
  /\ UNCHANGED <<latest, rows, cursor, late, faults>>

(* Mutant of FindEvent: every event is inserted, stored or not.            *)
FindEventNever ==
  /\ pc = "findEvent"
  /\ pc' = "insertEvent"
  /\ UNCHANGED <<latest, rows, cursor, late, currentHeight, scanHeight, position, faults>>

(* An event that is stored already is passed over. *)
FindEvent ==
  /\ pc = "findEvent"
  /\ IF rows[<<scanHeight, position>>] = 0
     THEN pc' = "insertEvent" /\ UNCHANGED <<currentHeight, scanHeight, position>>
     ELSE NextEvent(position + 1)
  /\ UNCHANGED <<latest, rows, cursor, late, faults>>

InsertEvent ==
  /\ pc = "insertEvent"
  /\ IF Accepts(Pending)
     THEN Apply(Pending) /\ NextEvent(position + 1)
     ELSE Return /\ UNCHANGED <<rows, cursor>>
  /\ UNCHANGED <<latest, late, faults>>

UpdateCursor ==
  /\ pc = "updateCursor"
  /\ Apply(Pending)
  /\ Loop(scanHeight + 1)
  /\ UNCHANGED <<latest, late, faults>>

(* A call fails without effect, or the process is killed before making it. *)
Fail ==
  /\ pc # "idle"
  /\ Fault
  /\ Return
  /\ UNCHANGED <<latest, rows, cursor, late>>

(* A statement is sent and its answer never arrives. *)
LoseAnswer ==
  /\ Writing
  /\ Fault
  /\ late' = late \cup {Pending}
  /\ Return
  /\ UNCHANGED <<latest, rows, cursor>>

(* Such a statement is executed after all, or the database drops it. *)
Execute(s) ==
  /\ s \in late
  /\ late' = late \ {s}
  /\ IF Accepts(s) THEN Apply(s) ELSE UNCHANGED <<rows, cursor>>
  /\ UNCHANGED <<latest, scanner, faults>>

Drop(s) ==
  /\ s \in late
  /\ late' = late \ {s}
  /\ UNCHANGED <<latest, rows, cursor, scanner, faults>>

Scan ==
  \/ GetStatus
  \/ FindCursor
  \/ InsertCursor
  \/ GetEvents
  \/ FindEvent
  \/ InsertEvent
  \/ UpdateCursor

Decide == \E s \in late : Execute(s) \/ Drop(s)

Next ==
  \/ Grow
  \/ Scan
  \/ GetStaleStatus
  \/ Fail
  \/ LoseAnswer
  \/ Decide

(* cron starts the job again and again, a running job makes its next call, *)
(* and the database executes or drops every statement it was sent.         *)
Fairness == WF_vars(Scan) /\ WF_vars(Decide)

Spec == Init /\ [][Next]_vars /\ Fairness
-----------------------------------------------------------------------------
(* Properties.                                                             *)

(* The events of h are all in the table. *)
Copied(h) == \A e \in Event : e[1] = h => rows[e] > 0

(* The cursor never gets ahead of the rows, although the two are written   *)
(* by separate statements of separate runs: nothing below it will ever be  *)
(* looked at again (block_task.go:265-283 and 363-372).                    *)
NothingSkipped ==
  cursor # NoCursor => \A h \in Height : h < cursor => Copied(h)

(* An event is stored once, although a run copies the cursor's height      *)
(* again and a lost INSERT may land after the retry that replaced it       *)
(* (block_task.go:292-297, 356; init.sql:245).                             *)
NoDuplicates == \A e \in Event : rows[e] <= 1

(* The job implements the promise of a cursor.                             *)
Cursor == INSTANCE Checkpoint WITH
  done   <- {h \in Height : h <= latest /\ Copied(h)},
  resume <- IF cursor = NoCursor THEN Genesis ELSE cursor
CursorSpec == Cursor!Spec

(* Liveness: every event of the chain is stored in the end, whatever       *)
(* failed on the way.                                                      *)
EveryEventIsStored ==
  \A h \in Height : latest >= h ~> Copied(h)
=============================================================================
