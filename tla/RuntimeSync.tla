---------------------------- MODULE RuntimeSync -----------------------------
(***************************************************************************)
(* The jobs RuntimeRoundSync and RuntimeTransactionSync: every 5 seconds,  *)
(* for one ParaTime after another, they walk its rounds from a cursor to   *)
(* the last normal round and store the items of each round: its header,    *)
(* or its transactions.  The two differ in what an item is and in which    *)
(* ParaTimes they visit; they share no table, so one module stands for     *)
(* either.  An item that is there already is rewritten.                    *)
(***************************************************************************)
EXTENDS Integers, Sequences

CONSTANTS
  MaxRound,    \* bound: no ParaTime goes beyond this round
  Runtime,     \* the ParaTimes
  Orders,      \* the lists of ParaTimes the query may return
  First,       \* First[r]: the round of the genesis block of r
  ItemCount,   \* ItemCount[r][n]: items of round n of r
  Unreadable,  \* items the job cannot decode, <<r, n, position>>
  None,        \* no row, no ParaTime
  MaxFaults    \* bound: failures the environment may inject

Round == 0..MaxRound
(* The items <<r, n, position>> of the ParaTimes, from their first rounds. *)
Item  == UNION {UNION {{r} \X {n} \X (1..ItemCount[r][n]) : n \in First[r]..MaxRound}
                  : r \in Runtime}

ASSUME RoundAssumption ==
  /\ MaxRound \in Nat
  /\ First \in [Runtime -> Round]
  /\ ItemCount \in [Runtime -> [Round -> Nat]]
ASSUME OrderAssumption ==
  /\ Orders # {}
  /\ \A s \in Orders : s \in Seq(Runtime) /\ s # <<>>
ASSUME UnreadableAssumption == Unreadable \subseteq Item
ASSUME FaultAssumption == MaxFaults \in Nat
ASSUME NoneAssumption == None \notin Int

VARIABLES
  latest,    \* ParaTimes: the last normal round of each
  rows,      \* database: rows[i], how often item i is stored
  cursor,    \* database: the cursor of each ParaTime
  lost,      \* database: statements sent by a run that is gone
  pc,        \* job: the call it makes next
  order,     \* job: the ParaTimes it visits
  current,   \* job: its position in that list
  status,    \* job: the last normal rounds at the height GetStatus reported
  scanRound, \* job: the round it works on
  position,  \* job: the item it works on
  faults     \* failures injected so far

tables == <<rows, cursor, lost>>
job    == <<pc, order, current, status, scanRound, position>>
vars   == <<latest, tables, job, faults>>

Statement ==
  [kind : {"insert"}, item : Item]
    \cup [kind : {"insertCursor", "updateCursor"}, runtime : Runtime, value : Round]

TypeOK ==
  /\ latest \in [Runtime -> Round]
  /\ rows \in [Item -> Nat]
  /\ cursor \in [Runtime -> Round \cup {None}]
  /\ lost \subseteq Statement
  /\ pc \in {"idle", "findCursor", "getBlock", "find", "insert", "insertCursor", "updateCursor"}
  /\ order \in Orders \cup {<<>>}
  /\ current \in Nat
  /\ status \in [Runtime -> Round]
  /\ scanRound \in 0..(MaxRound + 1)
  /\ position \in Nat
  /\ faults \in 0..MaxFaults

Init ==
  /\ latest = First
  /\ rows = [i \in Item |-> 0]
  /\ cursor = [r \in Runtime |-> None]
  /\ lost = {}
  /\ pc = "idle"
  /\ order = <<>>
  /\ current = 1
  /\ status = First
  /\ scanRound = 0
  /\ position = 0
  /\ faults = 0
-----------------------------------------------------------------------------
(* The database.                                                           *)

(* Mutant of Accepts: the tables have no unique keys.                      *)
AcceptsAll(s) == TRUE

(* The unique keys of the tables and of system_property. *)
Accepts(s) ==
  CASE s.kind = "insert" -> rows[s.item] = 0
    [] s.kind = "insertCursor" -> cursor[s.runtime] = None
    [] s.kind = "updateCursor" -> TRUE

(* An UPDATE of a property that does not exist changes nothing. *)
Apply(s) ==
  IF s.kind = "insert"
  THEN rows' = [rows EXCEPT ![s.item] = @ + 1] /\ UNCHANGED cursor
  ELSE /\ cursor' = IF s.kind = "insertCursor" \/ cursor[s.runtime] # None
                    THEN [cursor EXCEPT ![s.runtime] = s.value] ELSE cursor
       /\ UNCHANGED rows
-----------------------------------------------------------------------------
(* The steps of a run.                                                     *)

Self == order[current]
Here == <<Self, scanRound, position>>

Return ==
  /\ pc' = "idle"
  /\ order' = <<>>
  /\ current' = 1
  /\ status' = First
  /\ scanRound' = 0
  /\ position' = 0

Fault ==
  /\ faults < MaxFaults
  /\ faults' = faults + 1

GoTo(p) == pc' = p /\ UNCHANGED <<order, current, status, scanRound, position>>

(* Mutant of NextRuntime: the run ends after its first ParaTime.           *)
NextRuntimeNever == Return

NextRuntime ==
  IF current < Len(order)
  THEN /\ pc' = "findCursor"
       /\ current' = current + 1
       /\ scanRound' = 0
       /\ position' = 0
       /\ UNCHANGED <<order, status>>
  ELSE Return

(* The loop over the rounds, at n. *)
Loop(n) ==
  IF n <= status[Self]
  THEN /\ pc' = "getBlock"
       /\ scanRound' = n
       /\ position' = 0
       /\ UNCHANGED <<order, current, status>>
  ELSE NextRuntime

(* Mutant of NextItem: the last item of a round is left out.               *)
NextItemOffByOne(i) ==
  /\ pc' = IF i < ItemCount[Self][scanRound] THEN "find" ELSE "updateCursor"
  /\ position' = i
  /\ UNCHANGED <<order, current, status, scanRound>>

(* The loop over the items of a round, at position i. *)
NextItem(i) ==
  /\ pc' = IF i <= ItemCount[Self][scanRound] THEN "find" ELSE "updateCursor"
  /\ position' = i
  /\ UNCHANGED <<order, current, status, scanRound>>

Grow(r) ==
  /\ latest[r] < MaxRound
  /\ latest' = [latest EXCEPT ![r] = @ + 1]
  /\ UNCHANGED <<tables, job, faults>>

(* The height GetStatus reports fixes the state of every ParaTime. *)
GetStatus ==
  /\ pc = "idle"
  /\ pc' = "findCursor"
  /\ order' \in Orders
  /\ status' = latest
  /\ UNCHANGED <<latest, tables, current, scanRound, position, faults>>

(* A run starts at the cursor, which is the last round that was complete.  *)
FindCursor ==
  /\ pc = "findCursor"
  /\ IF cursor[Self] = None THEN GoTo("insertCursor") ELSE Loop(cursor[Self])
  /\ UNCHANGED <<latest, tables, faults>>

GetBlock ==
  /\ pc = "getBlock"
  /\ NextItem(1)
  /\ UNCHANGED <<latest, tables, faults>>

(* Mutant of Find: an item that cannot be decoded is left out.             *)
FindSkips ==
  /\ pc = "find"
  /\ IF rows[Here] > 0 \/ Here \in Unreadable THEN NextItem(position + 1) ELSE GoTo("insert")
  /\ UNCHANGED <<latest, tables, faults>>

(* An item that is there gets its timestamp again.  One that cannot be     *)
(* decoded ends the whole run, whatever ParaTimes are left.                *)
Find ==
  /\ pc = "find"
  /\ IF Here \in Unreadable THEN Return
     ELSE IF rows[Here] > 0 THEN NextItem(position + 1) ELSE GoTo("insert")
  /\ UNCHANGED <<latest, tables, faults>>

(* The statement the job is about to send. *)
Pending ==
  IF pc = "insert"
  THEN [kind |-> "insert", item |-> Here]
  ELSE [kind |-> pc, runtime |-> Self,
        value |-> IF pc = "insertCursor" THEN First[Self] ELSE scanRound]

Writing == pc \in {"insert", "insertCursor", "updateCursor"}

(* A statement succeeds and the run goes on. *)
Write ==
  /\ Writing
  /\ Accepts(Pending)
  /\ Apply(Pending)
  /\ CASE pc = "insertCursor" -> Loop(First[Self])
       [] pc = "insert" -> NextItem(position + 1)
       [] pc = "updateCursor" -> Loop(scanRound + 1)
  /\ UNCHANGED <<latest, lost, faults>>

(* A unique key refuses it. *)
Refused ==
  /\ Writing
  /\ ~Accepts(Pending)
  /\ Return
  /\ UNCHANGED <<latest, tables, faults>>

(* The answer of a statement is lost; when the statement takes effect, if  *)
(* it does, is up to the database.                                         *)
LoseAnswer ==
  /\ Writing
  /\ Fault
  /\ lost' = lost \cup {Pending}
  /\ Return
  /\ UNCHANGED <<latest, rows, cursor>>

Decide ==
  \E s \in lost :
    /\ lost' = lost \ {s}
    /\ \/ Accepts(s) /\ Apply(s)
       \/ UNCHANGED <<rows, cursor>>
    /\ UNCHANGED <<latest, job, faults>>

(* A call fails, the round is not found, or the process is killed. *)
Fail ==
  /\ pc # "idle"
  /\ Fault
  /\ Return
  /\ UNCHANGED <<latest, tables>>

Run ==
  \/ GetStatus
  \/ FindCursor
  \/ GetBlock
  \/ Find
  \/ Write
  \/ Refused

Next ==
  \/ \E r \in Runtime : Grow(r)
  \/ Run
  \/ LoseAnswer
  \/ Decide
  \/ Fail

(* cron starts the job again and again, a running job makes its next call, *)
(* and the database decides every statement.                               *)
Fairness == WF_vars(Run) /\ WF_vars(Decide)

Spec == Init /\ [][Next]_vars /\ Fairness
-----------------------------------------------------------------------------
(* Properties.                                                             *)

Stored(r, n) == \A i \in Item : i[1] = r /\ i[2] = n => rows[i] > 0

(* No cursor gets ahead of the rows: the rounds before it are complete and *)
(* will not be looked at again.  An item is stored once, although the      *)
(* cursor's round is walked again and a lost INSERT may land after the one *)
(* that replaced it.                                                       *)
ExactlyOnce ==
  /\ TypeOK
  /\ \A r \in Runtime : cursor[r] # None =>
       \A n \in First[r]..(cursor[r] - 1) : Stored(r, n)
  /\ \A i \in Item : rows[i] <= 1

(* An item that cannot be decoded stops its ParaTime for good, and a run   *)
(* that meets it visits no other ParaTime.                                 *)
UnreadableHoldsBack ==
  \A u \in Unreadable :
    /\ cursor[u[1]] # None => cursor[u[1]] < u[2] \/ cursor[u[1]] = First[u[1]]
    /\ \A i \in Item : i[1] = u[1] /\ i[2] > u[2] => rows[i] = 0
    /\ \A j \in 1..(current - 1) : order[j] = u[1] => status[u[1]] < u[2]

(* What the cursor of a ParaTime promises; it stands at the last round     *)
(* that was complete when it was written, and the next run starts there.   *)
Cursor(r) == INSTANCE Checkpoint WITH
  Genesis   <- First[r],
  MaxHeight <- MaxRound,
  latest    <- latest[r],
  done      <- {n \in First[r]..latest[r] : Stored(r, n)},
  resume    <- IF cursor[r] = None THEN First[r] ELSE cursor[r]
CursorSpec ==
  /\ \A r \in Runtime : Cursor(r)!Init
  /\ [][\A r \in Runtime : [Cursor(r)!Next]_(Cursor(r)!vars)]_<<latest, rows, cursor>>

(* Liveness: every item of every ParaTime is stored in the end, unless one *)
(* of them, of any ParaTime, cannot be decoded.                            *)
EveryItemStored ==
  \A r \in Runtime : \A n \in Round :
    First[r] <= n /\ n <= latest[r]
      ~> Stored(r, n) \/ \E u \in Unreadable : u[2] <= latest[u[1]]
=============================================================================
