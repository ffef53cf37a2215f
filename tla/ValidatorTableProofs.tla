------------------------ MODULE ValidatorTableProofs ------------------------
(***************************************************************************)
(* What a pass of ValidatorConsensusSync leaves behind, for any number of  *)
(* validators, any order of the list, any stakes, and any interleaving     *)
(* with the two other jobs that write whole rows back: ranks without a gap *)
(* or a tie after one pass that nothing got in the way of, and the chain's *)
(* own order after two.                                                    *)
(*                                                                         *)
(* The hard part is the middle of a pass.  The ranks written so far are    *)
(* 1 .. position - 1, the rows still to come are exactly those of the list *)
(* that was read at the start, and, when the pass before was quiet too,    *)
(* no row still to come belongs before one that is already written.        *)
(***************************************************************************)
EXTENDS ValidatorTable, TLAPS, FiniteSetTheorems

(* The columns of the pass are what the chain says. *)
Fresh(e) == /\ validator[e].nodes = standing[e].nodes
            /\ validator[e].escrow = standing[e].escrow

(* A copy of the row of e that is not older than the last pass. *)
Current(e, row) ==
  /\ validator[e] # None
  /\ row.rank = validator[e].rank
  /\ row.nodes = validator[e].nodes
  /\ row.escrow = validator[e].escrow

(* The validators a pass has still to write, and those it has written. *)
Left == {pass.order[i] : i \in DOMAIN pass.order}
Done == Stored \ Left

(* The ranks follow the chain, among the validators of S. *)
RanksFollow(S) ==
  \A d, e \in S : Before(standing[d], standing[e]) => validator[d].rank < validator[e].rank

HeldInv ==
  /\ scan.row # None => scan.pc = "save"
  /\ info.row # None <=> info.pc = "download"

PassInv ==
  /\ ~Running => pass = NoPass
  /\ Running =>
       /\ pass.order # <<>>
       /\ pass.position - 1 + Len(pass.order) <= Len(Roster)
       /\ \A i, j \in DOMAIN pass.order : i # j => pass.order[i] # pass.order[j]
       /\ \A e \in Left : pass.rows[e] # None
       /\ pass.pc = "status" => pass.position = 1

CalmInv == Running /\ calm > 0 => quiet

(* A pass that nothing has got in the way of. *)
QuietInv ==
  Running /\ quiet =>
    /\ ~Held
    /\ pass.position - 1 + Len(pass.order) = Cardinality(Stored)
    /\ Left \subseteq Stored
    /\ \A e \in Left : pass.rows[e] = validator[e]
    /\ {validator[e].rank : e \in Done} = 1..(pass.position - 1)
    /\ pass.pc = "update" => \A e \in Left : pass.escrow[e] = standing[e].escrow
    /\ \A e \in Done : Fresh(e)

(* Such a pass after another one. *)
SecondInv ==
  Running /\ quiet /\ calm > 0 =>
    /\ \A e \in Stored : Fresh(e)
    /\ \A i, j \in DOMAIN pass.order :
         i < j => ~Before(standing[pass.order[j]], standing[pass.order[i]])
    /\ \A e \in Left, d \in Done : ~Before(standing[e], standing[d])
    /\ RanksFollow(Done)

(* After one or two such passes. *)
SettledInv ==
  ~Running /\ calm > 0 =>
    /\ {validator[e].rank : e \in Stored} = 1..Cardinality(Stored)
    /\ \A e \in Stored : Fresh(e)
    /\ scan.row # None => Current(Roster[scan.at], scan.row)
    /\ info.row # None => Current(Roster[info.at], info.row)
    /\ calm = 2 => RanksFollow(Stored)

PhaseInv == PassInv /\ CalmInv /\ QuietInv /\ SecondInv /\ SettledInv

IInv == TypeOK /\ HeldInv /\ PhaseInv
-----------------------------------------------------------------------------
(* The roster and the order of a pass.                                     *)

(* The roster lists entities, and is not empty. *)
LEMMA RosterFacts ==
  /\ Len(Roster) \in Nat \ {0}
  /\ DOMAIN Roster = 1..Len(Roster)
  /\ \A i \in DOMAIN Roster : Roster[i] \in Entity
  /\ 1 \in DOMAIN Roster
<1>1. Roster \in Seq(Entity) /\ Entity # {}
  BY RosterAssumption
<1>2. /\ Len(Roster) \in Nat /\ DOMAIN Roster = 1..Len(Roster)
      /\ \A i \in DOMAIN Roster : Roster[i] \in Entity
  BY <1>1
<1>3. PICK e \in Entity : TRUE
  BY <1>1
<1>4. \E i \in DOMAIN Roster : Roster[i] = e
  BY RosterAssumption
<1>5. QED
  BY <1>2, <1>4

LEMMA StoredFacts ==
  /\ IsFiniteSet(Stored)
  /\ Cardinality(Stored) \in Nat
  /\ Cardinality(Stored) <= Len(Roster)
<1>1. IsFiniteSet(Entity) /\ Cardinality(Entity) = Len(Roster)
  BY RosterAssumption
<1>2. Stored \in SUBSET Entity
  BY DEF Stored
<1>3. IsFiniteSet(Stored) /\ Cardinality(Stored) <= Cardinality(Entity)
  BY <1>1, <1>2, FS_Subset
<1>4. QED
  BY <1>1, <1>3, FS_CardinalityType

(* FindAll returns every row once. *)
LEMMA OrderFacts ==
  ASSUME NEW s \in Orders
  PROVE  /\ s \in Seq(Stored)
         /\ Len(s) = Cardinality(Stored)
         /\ DOMAIN s = 1..Cardinality(Stored)
         /\ \A i, j \in DOMAIN s : i # j => s[i] # s[j]
         /\ {s[i] : i \in DOMAIN s} = Stored
         /\ Sorted(s)
<1> DEFINE n == Cardinality(Stored)
<1>1. /\ s \in [1..n -> Stored] /\ Sorted(s)
      /\ \A i, j \in 1..n : i # j => s[i] # s[j]
  BY DEF Orders, SetToSeqs
<1>2. n \in Nat /\ IsFiniteSet(Stored)
  BY StoredFacts
<1>3. s \in Seq(Stored) /\ Len(s) = n /\ DOMAIN s = 1..n
  BY <1>1, <1>2
<1>4. s \in Injection(1..n, Stored)
  BY <1>1 DEF Injection, IsInjective
<1>5. Cardinality(1..n) = n
  BY <1>2, FS_Interval
<1>6. s \in Surjection(1..n, Stored)
  BY <1>2, <1>4, <1>5, FS_Injection
<1>7. {s[i] : i \in 1..n} = Stored
  BY <1>1, <1>6 DEF Surjection
<1>8. QED
  BY <1>1, <1>3, <1>7

(* One comes before another, or not: an order of stakes and activity. *)
LEMMA BeforeFacts ==
  ASSUME NEW a, NEW b, a.nodes \in {0, 1}, b.nodes \in {0, 1},
         a.escrow \in Nat, b.escrow \in Nat
  PROVE  Before(a, b) => ~Before(b, a)
BY DEF Before
-----------------------------------------------------------------------------
(* Types.                                                                  *)

ScanType == scan \in [pc : {"list", "find", "save"}, list : [Entity -> Version],
                      at : DOMAIN Roster, row : Row \cup {None}]
InfoType == info \in [pc : {"list", "find", "download"}, listed : SUBSET Entity,
                      at : DOMAIN Roster, row : Row \cup {None}]
PassType ==
  /\ pass.pc \in {"find", "status", "update"} /\ pass.position \in 1..Len(Roster)
  /\ pass.order \in Seq(Entity) /\ pass.rows \in Rows /\ pass.escrow \in [Entity -> Nat]
SourceType ==
  /\ registry \in [Entity -> Version]
  /\ file \in [Entity -> Version]
  /\ standing \in [Entity -> Standing]
HistoryType == quiet \in BOOLEAN /\ calm \in 0..2
BoundType == changes \in 0..MaxChanges /\ faults \in 0..MaxFaults

LEMMA TypeParts ==
  TypeOK <=> /\ SourceType /\ validator \in Rows /\ ScanType /\ InfoType /\ PassType
             /\ HistoryType /\ BoundType
BY DEF TypeOK, SourceType, ScanType, InfoType, PassType, HistoryType, BoundType

LEMMA NoScanTyped == NoScan \in [pc : {"list", "find", "save"}, list : [Entity -> Version],
                                 at : DOMAIN Roster, row : Row \cup {None}]
<1>1. 1 \in DOMAIN Roster
  BY RosterFacts
<1>2. [e \in Entity |-> 0] \in [Entity -> Version]
  BY VersionAssumption DEF Version
<1>3. QED
  BY <1>1, <1>2 DEF NoScan

LEMMA NoInfoTyped == NoInfo \in [pc : {"list", "find", "download"}, listed : SUBSET Entity,
                                 at : DOMAIN Roster, row : Row \cup {None}]
<1>1. 1 \in DOMAIN Roster
  BY RosterFacts
<1>2. QED
  BY <1>1 DEF NoInfo

LEMMA NoPassTyped ==
  ASSUME pass' = NoPass
  PROVE  PassType'
<1>1. 1 \in 1..Len(Roster)
  BY RosterFacts
<1>2. QED
  BY <1>1 DEF NoPass, PassType, Rows

LEMMA ScanNextTyped ==
  ASSUME ScanType
  PROVE  ScanNext \in [pc : {"list", "find", "save"}, list : [Entity -> Version],
                       at : DOMAIN Roster, row : Row \cup {None}]
<1>1. CASE scan.at < Len(Roster)
  <2>1. scan.at + 1 \in DOMAIN Roster
    BY <1>1, RosterFacts DEF ScanType
  <2>2. QED
    BY <1>1, <2>1 DEF ScanType, ScanNext
<1>2. CASE ~(scan.at < Len(Roster))
  BY <1>2, NoScanTyped DEF ScanNext
<1>3. QED
  BY <1>1, <1>2

LEMMA InfoNextTyped ==
  ASSUME InfoType
  PROVE  InfoNext \in [pc : {"list", "find", "download"}, listed : SUBSET Entity,
                       at : DOMAIN Roster, row : Row \cup {None}]
<1>1. CASE info.at < Len(Roster)
  <2>1. info.at + 1 \in DOMAIN Roster
    BY <1>1, RosterFacts DEF InfoType
  <2>2. QED
    BY <1>1, <2>1 DEF InfoType, InfoNext
<1>2. CASE ~(info.at < Len(Roster))
  BY <1>2, NoInfoTyped DEF InfoNext
<1>3. QED
  BY <1>1, <1>2

LEMMA HistoryTyped ==
  ASSUME HistoryType, Disturb \/ Upset \/ UNCHANGED history
  PROVE  HistoryType'
<1>1. quiet' = FALSE \/ quiet' = quiet
  BY Zenon DEF Disturb, Upset, history
<1>2. quiet' \in BOOLEAN
  BY <1>1, Zenon DEF HistoryType
<1>3. calm' = 0 \/ calm' = calm
  BY DEF Disturb, Upset, history
<1>4. calm' \in 0..2
  BY <1>3 DEF HistoryType
<1>5. QED
  BY <1>2, <1>4 DEF HistoryType

LEMMA ScanTypes ==
  ASSUME TypeOK, Scan
  PROVE  TypeOK'
<1>1. /\ UNCHANGED <<sources, info, pass, changes, faults>>
      /\ SourceType /\ validator \in Rows /\ ScanType /\ InfoType /\ PassType
      /\ HistoryType /\ BoundType
  BY TypeParts DEF Scan, ScanList, ScanFind, ScanSave
<1>2. SourceType' /\ InfoType' /\ PassType' /\ BoundType'
  BY <1>1 DEF sources, SourceType, InfoType, PassType, BoundType
<1> DEFINE e == Roster[scan.at]
<1>3. e \in Entity
  BY <1>1, RosterFacts DEF ScanType
<1>4. ScanType' /\ (validator \in Rows)' /\ HistoryType'
  <2>1. CASE ScanList
    BY <1>1, <2>1 DEF ScanList, ScanType, SourceType, history, HistoryType
  <2>2. CASE ScanFind
    <3>1. ScanType'
      <4>1. validator[e] \in Row \cup {None}
        BY <1>1, <1>3 DEF Rows
      <4>2. CASE scan.list[e] = 0
        BY <1>1, <2>2, <4>2, ScanNextTyped DEF ScanFind, ScanType
      <4>3. CASE scan.list[e] # 0
        BY <1>1, <2>2, <4>1, <4>3 DEF ScanFind, ScanType
      <4>4. QED
        BY <4>2, <4>3
    <3>2. (validator \in Rows)' /\ HistoryType'
      BY <1>1, <2>2, HistoryTyped DEF ScanFind
    <3>3. QED
      BY <3>1, <3>2
  <2>3. CASE ScanSave
    <3>1. ScanType'
      BY <1>1, <2>3, ScanNextTyped DEF ScanSave, ScanType
    <3>2. HistoryType'
      BY <1>1, <2>3, HistoryTyped DEF ScanSave
    <3>3. scan.list[e] \in Version /\ scan.row \in Row \cup {None}
      BY <1>1, <1>3 DEF ScanType
    <3>4. NewRow(scan.list[e]) \in Row
      <4>1. 0 \in Version /\ 0 \in 0..Len(Roster)
        BY VersionAssumption, RosterFacts DEF Version
      <4>2. QED
        BY <3>3, <4>1 DEF NewRow, Row
    <3>5. scan.row # None => [scan.row EXCEPT !.address = scan.list[e]] \in Row
      BY <3>3 DEF Row
    <3>6. (validator \in Rows)'
      BY <1>1, <2>3, <3>4, <3>5 DEF ScanSave, Rows
    <3>7. QED
      BY <3>1, <3>2, <3>6
  <2>4. QED
    BY <2>1, <2>2, <2>3 DEF Scan
<1>5. QED
  BY <1>2, <1>4 DEF TypeOK, SourceType, ScanType, InfoType, PassType, HistoryType, BoundType

LEMMA InfoTypes ==
  ASSUME TypeOK, HeldInv, Info
  PROVE  TypeOK'
<1>1. /\ UNCHANGED <<sources, scan, pass, changes, faults>>
      /\ SourceType /\ validator \in Rows /\ ScanType /\ InfoType /\ PassType
      /\ HistoryType /\ BoundType
  BY TypeParts DEF Info, InfoList, InfoFind, InfoSave
<1>2. SourceType' /\ ScanType' /\ PassType' /\ BoundType'
  BY <1>1 DEF sources, SourceType, ScanType, PassType, BoundType
<1> DEFINE e == Roster[info.at]
<1>3. e \in Entity
  BY <1>1, RosterFacts DEF InfoType
<1>4. InfoType' /\ (validator \in Rows)' /\ HistoryType'
  <2>1. CASE InfoList
    <3>1. InfoType'
      BY <1>1, <2>1 DEF InfoList, InfoType
    <3>2. QED
      BY <1>1, <2>1, <3>1 DEF InfoList, history, HistoryType
  <2>2. CASE InfoFind
    <3>1. InfoType'
      <4>1. validator[e] \in Row \cup {None}
        BY <1>1, <1>3 DEF Rows
      <4>2. CASE e \notin info.listed \/ validator[e] = None
        BY <1>1, <2>2, <4>2, InfoNextTyped DEF InfoFind, InfoType
      <4>3. CASE ~(e \notin info.listed \/ validator[e] = None)
        BY <1>1, <2>2, <4>1, <4>3 DEF InfoFind, InfoType
      <4>4. QED
        BY <4>2, <4>3
    <3>2. (validator \in Rows)' /\ HistoryType'
      BY <1>1, <2>2, HistoryTyped DEF InfoFind
    <3>3. QED
      BY <3>1, <3>2
  <2>3. CASE InfoSave
    <3>1. InfoType'
      BY <1>1, <2>3, InfoNextTyped, NoInfoTyped DEF InfoSave, InfoType
    <3>2. HistoryType'
      BY <1>1, <2>3, HistoryTyped DEF InfoSave
    <3>3. file[e] \in Version /\ info.row \in Row \cup {None}
      BY <1>1, <1>3 DEF InfoType, SourceType
    <3>4. info.row # None => [info.row EXCEPT !.file = file[e]] \in Row
      BY <3>3 DEF Row
    <3>5. info.row # None
      BY <2>3 DEF InfoSave, HeldInv
    <3>6. (validator \in Rows)'
      BY <1>1, <2>3, <3>4, <3>5 DEF InfoSave, Rows
    <3>7. QED
      BY <3>1, <3>2, <3>6
  <2>4. QED
    BY <2>1, <2>2, <2>3 DEF Info
<1>5. QED
  BY <1>2, <1>4 DEF TypeOK, SourceType, ScanType, InfoType, PassType, HistoryType, BoundType

(* The row a pass writes. *)
LEMMA RankedTyped ==
  ASSUME TypeOK, NEW e \in Entity, pass.rows[e] # None
  PROVE  Ranked(e) \in Row
<1>1. pass.rows[e] \in Row
  BY DEF TypeOK, Rows
<1>2. standing[e].nodes \in {0, 1} /\ pass.escrow[e] \in Nat
  BY StandingAssumption DEF TypeOK
<1>3. pass.position \in 0..Len(Roster)
  BY DEF TypeOK
<1>4. QED
  BY <1>1, <1>2, <1>3 DEF Ranked, Row

LEMMA PassTypes ==
  ASSUME TypeOK, PassInv, Pass
  PROVE  TypeOK'
<1>1. /\ UNCHANGED <<sources, scan, info, changes, faults>>
      /\ SourceType /\ validator \in Rows /\ ScanType /\ InfoType /\ PassType
      /\ HistoryType /\ BoundType
  BY TypeParts DEF Pass, PassFind, PassStatus, PassUpdate
<1>2. SourceType' /\ ScanType' /\ InfoType' /\ BoundType'
  BY <1>1 DEF sources, SourceType, ScanType, InfoType, BoundType
<1>3. PassType' /\ (validator \in Rows)' /\ HistoryType'
  <2>1. CASE PassFind
    <3>1. PICK s \in Orders :
            pass' = [pass EXCEPT !.pc = "status", !.order = s, !.rows = validator]
      BY <2>1 DEF PassFind
    <3>2. s \in Seq(Entity)
      <4>1. s \in Seq(Stored) /\ Stored \subseteq Entity
        BY <3>1, OrderFacts DEF Stored
      <4>2. QED
        BY <4>1
    <3>3. PassType'
      BY <1>1, <3>1, <3>2 DEF PassType
    <3>4. quiet' \in BOOLEAN
      BY <2>1, Zenon DEF PassFind, Held
    <3>5. calm' \in 0..2
      BY <1>1, <2>1 DEF PassFind, HistoryType
    <3>6. QED
      BY <1>1, <2>1, <3>3, <3>4, <3>5 DEF PassFind, HistoryType
  <2>2. CASE PassStatus
    <3>1. \A e \in Entity : standing[e].escrow \in Nat
      BY <1>1, StandingAssumption DEF SourceType
    <3>2. [e \in Entity |-> IF pass.rows[e] # None THEN standing[e].escrow ELSE 0]
            \in [Entity -> Nat]
      BY <3>1
    <3>3. PassType'
      BY <1>1, <2>2, <3>2 DEF PassStatus, PassType
    <3>4. QED
      BY <1>1, <2>2, <3>3, HistoryTyped DEF PassStatus
  <2>3. CASE PassUpdate
    <3> DEFINE e == Head(pass.order)
    <3>1. /\ Running /\ pass.order # <<>> /\ pass.order \in Seq(Entity)
          /\ pass.position - 1 + Len(pass.order) <= Len(Roster)
          /\ \A x \in Left : pass.rows[x] # None
      BY <1>1, <2>3 DEF PassUpdate, Running, PassInv, PassType
    <3>2. e \in Entity /\ e \in Left
      <4>1. 1 \in DOMAIN pass.order /\ e = pass.order[1]
        BY <3>1
      <4>2. QED
        BY <3>1, <4>1 DEF Left
    <3>3. Ranked(e) \in Row
      BY <3>1, <3>2, RankedTyped
    <3>4. (validator \in Rows)'
      BY <1>1, <2>3, <3>3 DEF PassUpdate, Rows
    <3>5. CASE Len(pass.order) > 1
      <4>1. /\ pass' = [pass EXCEPT !.position = @ + 1, !.order = Tail(@),
                                     !.rows[e] = None, !.escrow[e] = 0]
            /\ UNCHANGED history
        BY <2>3, <3>5 DEF PassUpdate
      <4>2. Tail(pass.order) \in Seq(Entity) /\ Len(pass.order) \in Nat
        BY <3>1
      <4>3. pass.position + 1 \in 1..Len(Roster)
        BY <1>1, <3>1, <3>5, <4>2, RosterFacts DEF PassType
      <4>4. PassType'
        BY <1>1, <3>2, <4>1, <4>2, <4>3 DEF PassType, Rows
      <4>5. QED
        BY <1>1, <3>4, <4>1, <4>4, HistoryTyped
    <3>6. CASE ~(Len(pass.order) > 1)
      <4>1. /\ pass' = NoPass /\ quiet' = quiet
            /\ calm' = IF ~quiet THEN 0 ELSE IF calm = 2 THEN 2 ELSE calm + 1
        BY <2>3, <3>6 DEF PassUpdate
      <4>2. calm' \in 0..2
        BY <1>1, <4>1 DEF HistoryType
      <4>3. QED
        BY <1>1, <3>4, <4>1, <4>2, NoPassTyped DEF HistoryType
    <3>7. QED
      BY <3>5, <3>6
  <2>4. QED
    BY <1>1, <2>1, <2>2, <2>3 DEF Pass
<1>4. QED
  BY <1>2, <1>3 DEF TypeOK, SourceType, ScanType, InfoType, PassType, HistoryType, BoundType

LEMMA OtherTypes ==
  ASSUME TypeOK, \/ \E e \in Entity : Register(e) \/ Publish(e) \/ Move(e)
                 \/ Fail
  PROVE  TypeOK'
<1>1. /\ SourceType /\ validator \in Rows /\ ScanType /\ InfoType /\ PassType
      /\ HistoryType /\ BoundType /\ validator' = validator
  BY TypeParts DEF Register, Publish, Move, Change, Fail
<1>2. CASE \E e \in Entity : Register(e) \/ Publish(e) \/ Move(e)
  <2>1. PICK e \in Entity : Register(e) \/ Publish(e) \/ Move(e)
    BY <1>2
  <2>2. Change /\ UNCHANGED <<scan, info, pass, faults>>
    BY <2>1 DEF Register, Publish, Move, Change
  <2>3. BoundType'
    BY <1>1, <2>2, FaultAssumption DEF Change, BoundType
  <2>4. HistoryType'
    BY <1>1, <2>1, HistoryTyped DEF Register, Publish, Move
  <2>5. SourceType'
    <3>1. CASE Register(e)
      BY <1>1, <3>1, VersionAssumption DEF Register, SourceType, Version
    <3>2. CASE Publish(e)
      BY <1>1, <3>2, VersionAssumption DEF Publish, SourceType, Version
    <3>3. CASE Move(e)
      BY <1>1, <3>3 DEF Move, SourceType
    <3>4. QED
      BY <2>1, <3>1, <3>2, <3>3
  <2>6. ScanType' /\ InfoType' /\ PassType'
    BY <1>1, <2>2 DEF ScanType, InfoType, PassType
  <2>7. QED
    BY <1>1, <2>3, <2>4, <2>5, <2>6
    DEF TypeOK, SourceType, ScanType, InfoType, PassType, HistoryType, BoundType
<1>3. CASE Fail
  <2>1. SourceType'
    BY <1>1, <1>3 DEF Fail, sources, SourceType
  <2>2. BoundType'
    BY <1>1, <1>3, FaultAssumption DEF Fail, BoundType
  <2>3. HistoryType'
    BY <1>1, <1>3, HistoryTyped DEF Fail
  <2>4. /\ scan' = scan \/ scan' = NoScan
        /\ info' = info \/ info' = NoInfo \/ info' = InfoNext
        /\ pass' = pass \/ pass' = NoPass
    BY <1>3 DEF Fail, ScanFails, InfoFails, InfoEmpty, PassFails
  <2>5. ScanType'
    BY <1>1, <2>4, NoScanTyped DEF ScanType
  <2>6. InfoType'
    BY <1>1, <2>4, NoInfoTyped, InfoNextTyped DEF InfoType
  <2>7. PassType'
    BY <1>1, <2>4, NoPassTyped DEF PassType
  <2>8. QED
    BY <1>1, <2>1, <2>2, <2>3, <2>5, <2>6, <2>7
    DEF TypeOK, SourceType, ScanType, InfoType, PassType, HistoryType, BoundType
<1>4. QED
  BY <1>2, <1>3
-----------------------------------------------------------------------------
(* The phases.                                                             *)

(* A step that upsets the pass only has to leave it in order. *)
LEMMA UpsetKeeps ==
  ASSUME PassInv, Upset, pass' = pass \/ pass' = NoPass
  PROVE  PhaseInv'
<1>1. quiet' = FALSE /\ calm' = 0
  BY DEF Upset
<1>2. PassInv'
  <2>1. CASE pass' = pass
    BY <2>1 DEF PassInv, Running, Left
  <2>2. CASE pass' = NoPass
    BY <2>2 DEF PassInv, Running, NoPass
  <2>3. QED
    BY <2>1, <2>2
<1>3. QED
  BY <1>1, <1>2 DEF PhaseInv, CalmInv, QuietInv, SecondInv, SettledInv

(* What another job's locals hold after a step that writes no row: no copy *)
(* of a row, the copy it had, or one it has just read.                     *)
Dropped(old, new) == new.row = None \/ (new.row = old.row /\ new.at = old.at)
Copied(old, new)  == Dropped(old, new) \/ (Disturb /\ new.row = validator[Roster[new.at]])

LEMMA ReadKeeps ==
  ASSUME PhaseInv, UNCHANGED <<validator, standing, pass>>, Disturb \/ UNCHANGED history,
         Copied(scan, scan'), Copied(info, info')
  PROVE  PhaseInv'
<1>1. CASE Running /\ Disturb
  <2>1. Upset
    BY <1>1 DEF Disturb, Upset
  <2>2. QED
    BY <2>1, UpsetKeeps DEF PhaseInv
<1>2. CASE Running /\ ~Disturb
  <2>1. quiet' = quiet /\ calm' = calm
    BY <1>2 DEF history
  <2>2. Held' => Held
    BY <1>2 DEF Copied, Dropped, Held
  <2>3. Left' = Left /\ Stored' = Stored /\ Done' = Done /\ (Running <=> Running')
    BY DEF Left, Stored, Done, Running
  <2>4. PassInv'
    BY <2>3 DEF PhaseInv, PassInv
  <2>5. CalmInv' /\ SettledInv'
    BY <1>2, <2>1, <2>3 DEF PhaseInv, CalmInv, SettledInv
  <2>6. QuietInv'
    <3>1. \A e \in Done : Fresh(e)' <=> Fresh(e)
      BY DEF Fresh
    <3>2. QED
      BY <1>2, <2>1, <2>2, <2>3, <3>1 DEF PhaseInv, QuietInv, Fresh
  <2>7. SecondInv'
    BY <1>2, <2>1, <2>3 DEF PhaseInv, SecondInv, Fresh, RanksFollow
  <2>8. QED
    BY <2>4, <2>5, <2>6, <2>7 DEF PhaseInv
<1>3. CASE ~Running
  <2>1. calm' = calm /\ ~Running' /\ Stored' = Stored
    BY <1>3 DEF Disturb, history, Running, Stored
  <2>2. PassInv' /\ CalmInv' /\ QuietInv' /\ SecondInv'
    BY <1>3, <2>1 DEF PhaseInv, PassInv, CalmInv, QuietInv, SecondInv
  <2>3. SettledInv'
    <3> SUFFICES ASSUME calm > 0
                 PROVE  /\ {validator'[e].rank : e \in Stored} = 1..Cardinality(Stored)
                        /\ \A e \in Stored : Fresh(e)'
                        /\ (scan.row # None => Current(Roster[scan.at], scan.row))'
                        /\ (info.row # None => Current(Roster[info.at], info.row))'
                        /\ calm = 2 => RanksFollow(Stored)'
      BY <2>1 DEF SettledInv
    <3>1. SettledInv
      BY DEF PhaseInv
    <3>2. /\ {validator'[e].rank : e \in Stored} = 1..Cardinality(Stored)
          /\ \A e \in Stored : Fresh(e)'
      BY <1>3, <3>1 DEF SettledInv, Fresh
    <3>3. (scan.row # None => Current(Roster[scan.at], scan.row))'
      BY <1>3, <3>1 DEF SettledInv, Copied, Dropped, Current
    <3>4. (info.row # None => Current(Roster[info.at], info.row))'
      BY <1>3, <3>1 DEF SettledInv, Copied, Dropped, Current
    <3>5. calm = 2 => RanksFollow(Stored)'
      BY <1>3, <2>1, <3>1 DEF SettledInv, RanksFollow
    <3>6. QED
      BY <3>2, <3>3, <3>4, <3>5
  <2>4. QED
    BY <2>2, <2>3 DEF PhaseInv
<1>4. QED
  BY <1>1, <1>2, <1>3

(* A row is written back from a copy: a pass that runs then is not quiet,  *)
(* and after a pass the copy is no older than the row.                     *)
LEMMA WriteKeeps ==
  ASSUME TypeOK, PhaseInv, Held, UNCHANGED <<standing, pass, history>>,
         NEW e \in Entity, NEW row \in Row,
         validator' = [validator EXCEPT ![e] = row],
         ~Running /\ calm > 0 => Current(e, row),
         Dropped(scan, scan'), Dropped(info, info')
  PROVE  PhaseInv'
<1>1. quiet' = quiet /\ calm' = calm /\ (Running' <=> Running)
  BY DEF history, Running
<1>2. PassInv'
  BY <1>1 DEF PhaseInv, PassInv, Left
<1>3. CASE Running
  <2>1. ~quiet /\ ~(calm > 0)
    BY <1>3 DEF PhaseInv, QuietInv, CalmInv
  <2>2. QED
    BY <1>1, <1>2, <1>3, <2>1 DEF PhaseInv, CalmInv, QuietInv, SecondInv, SettledInv
<1>4. CASE ~Running
  <2>1. CalmInv' /\ QuietInv' /\ SecondInv'
    BY <1>1, <1>4 DEF CalmInv, QuietInv, SecondInv
  <2>2. SettledInv'
    <3>1. SUFFICES ASSUME calm > 0 PROVE SettledInv'
      BY <1>1 DEF SettledInv
    <3>2. SettledInv /\ Current(e, row) /\ validator \in Rows
      BY <1>4, <3>1 DEF PhaseInv, TypeOK
    <3>3. \A x \in Entity : /\ validator'[x] # None <=> validator[x] # None
                            /\ validator'[x].rank = validator[x].rank
                            /\ validator'[x].nodes = validator[x].nodes
                            /\ validator'[x].escrow = validator[x].escrow
      BY <3>2, NoneAssumption DEF Current, Rows
    <3>4. Stored' = Stored /\ Stored \subseteq Entity
      BY <3>3 DEF Stored
    <3>5. {validator'[x].rank : x \in Stored} = {validator[x].rank : x \in Stored}
      BY <3>3, <3>4
    <3>6. \A x \in Stored : Fresh(x)'
      BY <1>4, <3>1, <3>2, <3>3, <3>4 DEF SettledInv, Fresh
    <3>7. Roster[scan.at] \in Entity /\ Roster[info.at] \in Entity
      BY RosterFacts DEF TypeOK
    <3>8. /\ (scan.row # None => Current(Roster[scan.at], scan.row))'
          /\ (info.row # None => Current(Roster[info.at], info.row))'
      BY <1>4, <3>1, <3>2, <3>3, <3>7 DEF SettledInv, Dropped, Current
    <3>9. calm = 2 => RanksFollow(Stored)'
      BY <1>4, <3>1, <3>2, <3>3, <3>4 DEF SettledInv, RanksFollow
    <3>10. QED
      BY <1>1, <1>4, <3>1, <3>2, <3>4, <3>5, <3>6, <3>8, <3>9 DEF SettledInv
  <2>3. QED
    BY <1>2, <2>1, <2>2 DEF PhaseInv
<1>5. QED
  BY <1>3, <1>4
-----------------------------------------------------------------------------
(* The jobs and the world outside.                                         *)

LEMMA ScanKeeps ==
  ASSUME TypeOK, HeldInv, PhaseInv, Scan
  PROVE  HeldInv' /\ PhaseInv'
<1> DEFINE e == Roster[scan.at]
<1>1. /\ UNCHANGED <<standing, info, pass>> /\ e \in Entity /\ ScanType
  BY RosterFacts, TypeParts DEF Scan, ScanList, ScanFind, ScanSave, sources, ScanType
<1>2. ScanNext.row = None /\ NoScan.row = None
  BY <1>1 DEF ScanNext, NoScan, ScanType
<1>3. Dropped(info, info')
  BY <1>1 DEF Dropped
<1>4. CASE ScanList
  <2>1. scan.row = None
    BY <1>4 DEF ScanList, HeldInv
  <2>2. scan'.row = None
    BY <1>1, <1>4, <2>1 DEF ScanList, ScanType
  <2>3. HeldInv'
    BY <1>1, <2>2 DEF HeldInv
  <2>4. PhaseInv'
    BY <1>1, <1>3, <1>4, <2>2, ReadKeeps DEF ScanList, Copied, Dropped
  <2>5. QED
    BY <2>3, <2>4
<1>5. CASE ScanFind
  <2>1. CASE scan.list[e] = 0
    <3>1. scan'.row = None /\ UNCHANGED <<validator, history>>
      BY <1>2, <1>5, <2>1 DEF ScanFind
    <3>2. QED
      BY <1>1, <1>3, <3>1, ReadKeeps DEF HeldInv, Copied, Dropped
  <2>2. CASE scan.list[e] # 0
    <3>1. /\ scan'.row = validator[e] /\ scan'.pc = "save" /\ scan'.at = scan.at
          /\ UNCHANGED validator /\ Disturb
      BY <1>1, <1>5, <2>2 DEF ScanFind, ScanType
    <3>2. QED
      BY <1>1, <1>3, <3>1, ReadKeeps DEF HeldInv, Copied
  <2>3. QED
    BY <2>1, <2>2
<1>6. CASE ScanSave
  <2>1. scan'.row = None
    BY <1>2, <1>6 DEF ScanSave
  <2>2. HeldInv'
    BY <1>1, <2>1 DEF HeldInv
  <2>3. CASE scan.row = None
    <3>1. Upset /\ pass' = pass
      BY <1>1, <1>6, <2>3 DEF ScanSave
    <3>2. QED
      BY <2>2, <3>1, UpsetKeeps DEF PhaseInv
  <2>4. CASE scan.row # None
    <3> DEFINE row == [scan.row EXCEPT !.address = scan.list[e]]
    <3>1. scan.row \in Row /\ scan.list[e] \in Version
      BY <1>1, <2>4 DEF ScanType
    <3>2. row \in Row
      BY <3>1 DEF Row
    <3>3. row.rank = scan.row.rank /\ row.nodes = scan.row.nodes /\ row.escrow = scan.row.escrow
      BY <3>1 DEF Row
    <3>4. validator' = [validator EXCEPT ![e] = row] /\ UNCHANGED history
      BY <1>6, <2>4 DEF ScanSave
    <3>5. ~Running /\ calm > 0 => Current(e, scan.row)
      BY <2>4 DEF PhaseInv, SettledInv
    <3>6. ~Running /\ calm > 0 => Current(e, row)
      BY <3>3, <3>5 DEF Current
    <3> HIDE DEF row
    <3>7. Held /\ Dropped(scan, scan')
      BY <2>1, <2>4 DEF Held, Dropped
    <3>8. PhaseInv'
      BY <1>1, <1>3, <3>2, <3>4, <3>6, <3>7, WriteKeeps
    <3>9. QED
      BY <2>2, <3>8
  <2>5. QED
    BY <2>3, <2>4
<1>7. QED
  BY <1>4, <1>5, <1>6 DEF Scan

LEMMA InfoKeeps ==
  ASSUME TypeOK, HeldInv, PhaseInv, Info
  PROVE  HeldInv' /\ PhaseInv'
<1> DEFINE e == Roster[info.at]
<1>1. /\ UNCHANGED <<standing, scan, pass>> /\ e \in Entity /\ InfoType
  BY RosterFacts, TypeParts DEF Info, InfoList, InfoFind, InfoSave, sources, InfoType
<1>2. /\ InfoNext.row = None /\ NoInfo.row = None
      /\ InfoNext.pc # "download" /\ NoInfo.pc # "download"
  BY <1>1 DEF InfoNext, NoInfo, InfoType
<1>3. Dropped(scan, scan')
  BY <1>1 DEF Dropped
<1>4. CASE InfoList
  <2>1. info.row = None
    BY <1>4 DEF InfoList, HeldInv
  <2>2. info'.row = None /\ info'.pc = "find"
    BY <1>1, <1>4, <2>1 DEF InfoList, InfoType
  <2>3. HeldInv'
    BY <1>1, <2>2 DEF HeldInv
  <2>4. PhaseInv'
    BY <1>1, <1>3, <1>4, <2>2, ReadKeeps DEF InfoList, Copied, Dropped
  <2>5. QED
    BY <2>3, <2>4
<1>5. CASE InfoFind
  <2>1. CASE e \notin info.listed \/ validator[e] = None
    <3>1. /\ info'.row = None /\ info'.pc # "download" /\ UNCHANGED <<validator, history>>
      BY <1>2, <1>5, <2>1 DEF InfoFind
    <3>2. QED
      BY <1>1, <1>3, <3>1, ReadKeeps DEF HeldInv, Copied, Dropped
  <2>2. CASE ~(e \notin info.listed \/ validator[e] = None)
    <3>1. /\ info'.row = validator[e] /\ info'.pc = "download" /\ info'.at = info.at
          /\ UNCHANGED validator /\ Disturb /\ validator[e] # None
      BY <1>1, <1>5, <2>2 DEF InfoFind, InfoType
    <3>2. QED
      BY <1>1, <1>3, <3>1, ReadKeeps DEF HeldInv, Copied
  <2>3. QED
    BY <2>1, <2>2
<1>6. CASE InfoSave
  <2>1. info'.row = None /\ info'.pc # "download" /\ info.row # None /\ UNCHANGED history
    BY <1>2, <1>6 DEF InfoSave, HeldInv
  <2>2. HeldInv'
    BY <1>1, <2>1 DEF HeldInv
  <2>3. CASE <<e, file[e]>> \in Broken
    <3>1. UNCHANGED validator
      BY <1>6, <2>3 DEF InfoSave
    <3>2. QED
      BY <1>1, <1>3, <2>1, <2>2, <3>1, ReadKeeps DEF Copied, Dropped
  <2>4. CASE <<e, file[e]>> \notin Broken
    <3> DEFINE row == [info.row EXCEPT !.file = file[e]]
    <3>1. info.row \in Row /\ file[e] \in Version
      BY <1>1, <2>1 DEF InfoType, TypeOK
    <3>2. row \in Row
      BY <3>1 DEF Row
    <3>3. row.rank = info.row.rank /\ row.nodes = info.row.nodes /\ row.escrow = info.row.escrow
      BY <3>1 DEF Row
    <3>4. validator' = [validator EXCEPT ![e] = row]
      BY <1>6, <2>4 DEF InfoSave
    <3>5. ~Running /\ calm > 0 => Current(e, info.row)
      BY <2>1 DEF PhaseInv, SettledInv
    <3>6. ~Running /\ calm > 0 => Current(e, row)
      BY <3>3, <3>5 DEF Current
    <3> HIDE DEF row
    <3>7. Held /\ Dropped(info, info')
      BY <2>1 DEF Held, Dropped
    <3>8. PhaseInv'
      BY <1>1, <1>3, <2>1, <3>2, <3>4, <3>6, <3>7, WriteKeeps
    <3>9. QED
      BY <2>2, <3>8
  <2>5. QED
    BY <2>3, <2>4
<1>7. QED
  BY <1>4, <1>5, <1>6 DEF Info

LEMMA WorldKeeps ==
  ASSUME HeldInv, PhaseInv, NEW e \in Entity, Register(e) \/ Publish(e) \/ Move(e)
  PROVE  HeldInv' /\ PhaseInv'
<1>1. UNCHANGED <<validator, scan, info, pass>>
  BY DEF Register, Publish, Move, Change
<1>2. HeldInv'
  BY <1>1 DEF HeldInv
<1>3. CASE Move(e)
  BY <1>1, <1>2, <1>3, UpsetKeeps DEF Move, PhaseInv
<1>4. CASE Register(e) \/ Publish(e)
  BY <1>1, <1>2, <1>4, ReadKeeps DEF Register, Publish, Copied, Dropped
<1>5. QED
  BY <1>3, <1>4

LEMMA FailKeeps ==
  ASSUME TypeOK, HeldInv, PhaseInv, Fail
  PROVE  HeldInv' /\ PhaseInv'
<1>1. UNCHANGED <<standing, validator>> /\ InfoType
  BY TypeParts DEF Fail, sources
<1>2. /\ InfoNext.row = None /\ NoInfo.row = None /\ NoScan.row = None
      /\ InfoNext.pc # "download" /\ NoInfo.pc # "download"
  BY <1>1 DEF InfoNext, NoInfo, NoScan, InfoType
<1>3. /\ scan' = scan \/ scan' = NoScan
      /\ info' = info \/ info' = NoInfo \/ info' = InfoNext
      /\ pass' = pass \/ pass' = NoPass
  BY DEF Fail, ScanFails, InfoFails, InfoEmpty, PassFails
<1>4. HeldInv'
  BY <1>2, <1>3 DEF HeldInv
<1>5. Dropped(scan, scan') /\ Dropped(info, info')
  BY <1>2, <1>3 DEF Dropped
<1>6. CASE Upset
  BY <1>3, <1>4, <1>6, UpsetKeeps DEF PhaseInv
<1>7. CASE ~Upset
  <2>1. UNCHANGED history /\ ~(Running /\ pass' = NoPass)
    BY <1>7 DEF Fail
  <2>2. ~Running => pass = NoPass
    BY DEF PhaseInv, PassInv
  <2>3. pass' = pass
    BY <1>3, <2>1, <2>2
  <2>4. QED
    BY <1>1, <1>4, <1>5, <2>1, <2>3, ReadKeeps DEF Copied
<1>8. QED
  BY <1>6, <1>7
-----------------------------------------------------------------------------
(* The pass.                                                               *)

LEMMA FindKeeps ==
  ASSUME TypeOK, HeldInv, PhaseInv, PassFind
  PROVE  PhaseInv'
<1>1. PICK s \in Orders :
        pass' = [pass EXCEPT !.pc = "status", !.order = s, !.rows = validator]
  BY DEF PassFind
<1>2. /\ ~Running /\ pass = NoPass /\ Stored # {}
      /\ UNCHANGED <<standing, validator, scan, info>>
      /\ quiet' = ~Held /\ calm' = IF Held THEN 0 ELSE calm
  BY DEF PassFind, Running, PhaseInv, PassInv, sources
<1>3. /\ pass'.pc = "status" /\ pass'.order = s /\ pass'.rows = validator
      /\ pass'.position = 1 /\ Running'
  BY <1>1, <1>2 DEF NoPass, Running
<1>4. /\ s \in Seq(Stored) /\ Len(s) = Cardinality(Stored) /\ Sorted(s)
      /\ DOMAIN s = 1..Cardinality(Stored)
      /\ \A i, j \in DOMAIN s : i # j => s[i] # s[j]
      /\ {s[i] : i \in DOMAIN s} = Stored
  BY OrderFacts
<1>5. Left' = Stored /\ Stored' = Stored /\ Done' = {} /\ (Held' <=> Held)
  BY <1>2, <1>3, <1>4 DEF Left, Stored, Done, Held
<1>6. PassInv'
  <2>1. s # <<>>
    BY <1>2, <1>4
  <2>2. 1 - 1 + Len(s) <= Len(Roster)
    BY <1>4, StoredFacts, RosterFacts
  <2>3. \A e \in Left' : validator[e] # None
    BY <1>5 DEF Stored
  <2>4. QED
    BY <1>3, <1>4, <2>1, <2>2, <2>3 DEF PassInv
<1>7. CASE Held
  <2>1. ~quiet'
    BY <1>2, <1>7, Zenon
  <2>2. ~(calm' > 0)
    BY <1>2, <1>7
  <2>3. QED
    BY <1>6, <2>1, <2>2 DEF PhaseInv, CalmInv, QuietInv, SecondInv, SettledInv
<1>8. CASE ~Held
  <2>1. CalmInv' /\ SettledInv'
    BY <1>2, <1>3, <1>8 DEF CalmInv, SettledInv
  <2>2. QuietInv'
    <3>1. pass'.position - 1 + Len(pass'.order) = Cardinality(Stored')
      BY <1>3, <1>4, <1>5, StoredFacts
    <3>2. {validator'[e].rank : e \in Done'} = 1..(pass'.position - 1)
      BY <1>3, <1>5
    <3>3. QED
      BY <1>2, <1>3, <1>5, <1>8, <3>1, <3>2 DEF QuietInv
  <2>3. SecondInv'
    <3>1. SUFFICES ASSUME calm > 0 PROVE SecondInv'
      BY <1>2, <1>8 DEF SecondInv
    <3>2. \A e \in Stored : Fresh(e)
      BY <1>2, <3>1 DEF PhaseInv, SettledInv
    <3>3. \A i, j \in DOMAIN s : i < j => ~Before(standing[s[j]], standing[s[i]])
      <4>1. \A i \in DOMAIN s : s[i] \in Stored
        BY <1>4
      <4>2. QED
        BY <1>4, <3>2, <4>1 DEF Sorted, Fresh, Before
    <3>4. \A e \in Stored' : Fresh(e)'
      BY <1>2, <1>5, <3>2 DEF Fresh
    <3>5. QED
      BY <1>2, <1>3, <1>5, <3>3, <3>4 DEF SecondInv, RanksFollow
  <2>4. QED
    BY <1>6, <2>1, <2>2, <2>3 DEF PhaseInv
<1>9. QED
  BY <1>7, <1>8

LEMMA StatusKeeps ==
  ASSUME TypeOK, PhaseInv, PassStatus
  PROVE  PhaseInv'
<1>1. /\ Running /\ Running' /\ pass.pc = "status"
      /\ UNCHANGED <<standing, validator, scan, info, quiet, calm>>
      /\ pass'.pc = "update" /\ pass'.order = pass.order /\ pass'.rows = pass.rows
      /\ pass'.position = pass.position
      /\ pass'.escrow = [e \in Entity |-> IF pass.rows[e] # None THEN standing[e].escrow ELSE 0]
  <2>1. /\ Running /\ Running' /\ pass.pc = "status"
        /\ UNCHANGED <<standing, validator, scan, info, quiet, calm>>
    BY DEF PassStatus, Running, sources, history
  <2>2. /\ pass'.pc = "update" /\ pass'.order = pass.order /\ pass'.rows = pass.rows
        /\ pass'.position = pass.position
    BY DEF PassStatus
  <2>3. pass'.escrow = [e \in Entity |-> IF pass.rows[e] # None THEN standing[e].escrow ELSE 0]
    BY DEF PassStatus
  <2>4. QED
    BY <2>1, <2>2, <2>3
<1>2. Left' = Left /\ Stored' = Stored /\ Done' = Done /\ Held' = Held
  BY <1>1 DEF Left, Stored, Done, Held
<1>3. PassInv'
  BY <1>1, <1>2 DEF PhaseInv, PassInv
<1>4. CalmInv' /\ SettledInv'
  BY <1>1 DEF PhaseInv, CalmInv, SettledInv
<1>5. QuietInv'
  <2>1. SUFFICES ASSUME quiet PROVE QuietInv'
    BY <1>1 DEF QuietInv
  <2>2. \A e \in Left : pass.rows[e] # None /\ e \in Entity
    BY <1>1 DEF PhaseInv, PassInv, Left, TypeOK
  <2>3. \A e \in Left : pass'.escrow[e] = standing[e].escrow
    BY <1>1, <2>2
  <2>4. \A e \in Done : Fresh(e)'
    BY <1>1, <2>1 DEF PhaseInv, QuietInv, Fresh
  <2>5. QED
    BY <1>1, <1>2, <2>1, <2>3, <2>4 DEF PhaseInv, QuietInv
<1>6. SecondInv'
  BY <1>1, <1>2 DEF PhaseInv, SecondInv, Fresh, RanksFollow
<1>7. QED
  BY <1>3, <1>4, <1>5, <1>6 DEF PhaseInv

(* What is left of an order without its head. *)
LEMMA TailFacts ==
  ASSUME NEW S, NEW o \in Seq(S), o # <<>>,
         \A i, j \in DOMAIN o : i # j => o[i] # o[j]
  PROVE  LET L == {o[i] : i \in DOMAIN o}
             T == {Tail(o)[i] : i \in DOMAIN Tail(o)}
         IN  /\ Len(o) \in Nat \ {0} /\ Tail(o) \in Seq(S) /\ Len(Tail(o)) = Len(o) - 1
             /\ Head(o) \in L /\ T = L \ {Head(o)}
             /\ \A i \in DOMAIN Tail(o) : i + 1 \in DOMAIN o /\ Tail(o)[i] = o[i + 1]
             /\ \A i, j \in DOMAIN Tail(o) : i # j => Tail(o)[i] # Tail(o)[j]
<1> DEFINE L == {o[i] : i \in DOMAIN o}
           t == Tail(o)
           T == {t[i] : i \in DOMAIN t}
<1>1. /\ Len(o) \in Nat \ {0} /\ DOMAIN o = 1..Len(o) /\ Head(o) = o[1]
      /\ t \in Seq(S) /\ Len(t) = Len(o) - 1 /\ DOMAIN t = 1..(Len(o) - 1)
      /\ \A i \in 1..(Len(o) - 1) : t[i] = o[i + 1]
  OBVIOUS
<1> HIDE DEF t
<1>2. \A i \in DOMAIN t : i + 1 \in DOMAIN o /\ t[i] = o[i + 1]
  BY <1>1
<1>3. \A i, j \in DOMAIN t : i # j => t[i] # t[j]
  BY <1>1, <1>2
<1>4. T = L \ {Head(o)}
  <2>1. ASSUME NEW x \in T PROVE x \in L \ {Head(o)}
    BY <1>1, <1>2
  <2>2. ASSUME NEW x \in L \ {Head(o)} PROVE x \in T
    <3>1. PICK i \in DOMAIN o : x = o[i]
      OBVIOUS
    <3>2. i - 1 \in DOMAIN t /\ t[i - 1] = x
      BY <1>1, <3>1
    <3>3. QED
      BY <3>2
  <2>3. QED
    BY <2>1, <2>2
<1>5. Head(o) \in L
  BY <1>1
<1>6. QED
  BY <1>1, <1>2, <1>3, <1>4, <1>5 DEF t

(* What a quiet pass has done once it has written one validator more. *)
LEMMA UpdateWrites ==
  ASSUME TypeOK, PhaseInv, PassUpdate, quiet
  PROVE  LET e == Head(pass.order)
             N == Done \cup {e}
         IN  /\ Stored' = Stored /\ N \subseteq Stored /\ Left \subseteq Stored
             /\ {validator'[x].rank : x \in N} = 1..pass.position
             /\ \A x \in N : Fresh(x)'
             /\ \A x \in Left \ {e} : validator'[x] = pass.rows[x]
             /\ calm > 0 =>
                  /\ \A x \in Stored : Fresh(x)'
                  /\ \A x \in Left \ {e}, d \in N : ~Before(standing[x], standing[d])
                  /\ \A d, x \in N : Before(standing[d], standing[x]) =>
                       validator'[d].rank < validator'[x].rank
<1> DEFINE e == Head(pass.order)
           N == Done \cup {e}
<1>1. /\ Running /\ pass.pc = "update" /\ UNCHANGED standing
      /\ validator' = [validator EXCEPT ![e] = Ranked(e)]
  BY DEF PassUpdate, Running, sources
<1>2. /\ pass.order \in Seq(Entity) /\ pass.order # <<>>
      /\ \A i, j \in DOMAIN pass.order : i # j => pass.order[i] # pass.order[j]
  BY <1>1 DEF TypeOK, PhaseInv, PassInv
<1>3. /\ Len(pass.order) \in Nat \ {0} /\ e \in Left
      /\ \A i \in DOMAIN Tail(pass.order) :
           i + 1 \in DOMAIN pass.order /\ Tail(pass.order)[i] = pass.order[i + 1]
  BY <1>2, TailFacts DEF Left
<1>4. /\ Left \subseteq Stored
      /\ \A x \in Left : pass.rows[x] = validator[x]
      /\ {validator[x].rank : x \in Done} = 1..(pass.position - 1)
      /\ \A x \in Left : pass.escrow[x] = standing[x].escrow
      /\ \A x \in Done : Fresh(x)
  BY <1>1 DEF PhaseInv, QuietInv
<1>5. /\ e \in Stored /\ e \in Entity /\ Stored \subseteq Entity /\ e \notin Done
      /\ validator \in Rows /\ pass.position \in Nat \ {0}
  BY <1>3, <1>4, RosterFacts DEF Stored, Done, TypeOK
<1>6. Ranked(e) \in Row
  BY <1>3, <1>4, <1>5, RankedTyped DEF Stored
<1>7. /\ Ranked(e).rank = pass.position
      /\ Ranked(e).nodes = standing[e].nodes /\ Ranked(e).escrow = standing[e].escrow
  <2>1. pass.rows[e] \in Row
    BY <1>3, <1>4, <1>5 DEF Rows, Stored
  <2>2. QED
    BY <1>3, <1>4, <2>1 DEF Ranked, Row
<1>8. /\ validator'[e] = Ranked(e)
      /\ \A x \in Stored : x # e => validator'[x] = validator[x]
  BY <1>1, <1>5 DEF Rows
<1>9. Stored' = Stored
  <2>1. Ranked(e) # None
    BY <1>6, NoneAssumption
  <2>2. \A x \in Entity : validator'[x] # None <=> validator[x] # None
    BY <1>1, <1>5, <1>8, <2>1 DEF Rows, Stored
  <2>3. QED
    BY <2>2 DEF Stored
<1>10. N \subseteq Stored
  BY <1>5 DEF Done
<1>11. \A x \in Done : validator'[x] = validator[x] /\ x # e
  BY <1>5, <1>8 DEF Done
<1>12. {validator'[x].rank : x \in N} = 1..pass.position
  <2>1. {validator'[x].rank : x \in N} = {validator[x].rank : x \in Done} \cup {pass.position}
    BY <1>7, <1>8, <1>11
  <2>2. 1..(pass.position - 1) \cup {pass.position} = 1..pass.position
    BY <1>5
  <2>3. QED
    BY <1>4, <2>1, <2>2
<1>13. \A x \in N : Fresh(x)'
  BY <1>1, <1>4, <1>7, <1>8, <1>11 DEF Fresh
<1>14. \A x \in Left \ {e} : validator'[x] = pass.rows[x]
  BY <1>4, <1>8
<1>15. ASSUME calm > 0
       PROVE  /\ \A x \in Stored : Fresh(x)'
              /\ \A x \in Left \ {e}, d \in N : ~Before(standing[x], standing[d])
              /\ \A d, x \in N : Before(standing[d], standing[x]) =>
                   validator'[d].rank < validator'[x].rank
  <2>1. /\ \A x \in Stored : Fresh(x)
        /\ \A i, j \in DOMAIN pass.order :
             i < j => ~Before(standing[pass.order[j]], standing[pass.order[i]])
        /\ \A x \in Left, d \in Done : ~Before(standing[x], standing[d])
        /\ RanksFollow(Done)
    BY <1>1, <1>15 DEF PhaseInv, SecondInv
  <2>2. \A x \in Stored : Fresh(x)'
    BY <1>1, <1>7, <1>8, <2>1 DEF Fresh
  <2>3. \A x \in Left \ {e} : ~Before(standing[x], standing[e])
    <3>1. TAKE x \in Left \ {e}
    <3>2. PICK i \in DOMAIN pass.order : x = pass.order[i]
      BY DEF Left
    <3>3. e = pass.order[1] /\ DOMAIN pass.order = 1..Len(pass.order)
      BY <1>2
    <3>4. 1 < i /\ 1 \in DOMAIN pass.order
      BY <1>3, <3>1, <3>2, <3>3
    <3>5. QED
      BY <2>1, <3>2, <3>3, <3>4
  <2>4. \A x \in Left \ {e}, d \in N : ~Before(standing[x], standing[d])
    BY <2>1, <2>3
  <2>5. \A d \in Done : /\ validator'[d].rank < validator'[e].rank
                       /\ ~Before(standing[e], standing[d])
    <3>1. TAKE d \in Done
    <3>2. validator[d].rank \in 1..(pass.position - 1)
      BY <1>4
    <3>3. validator[d].rank < pass.position
      BY <1>5, <3>2
    <3>4. validator'[d].rank < validator'[e].rank
      BY <1>7, <1>8, <1>11, <3>3
    <3>5. QED
      BY <1>3, <2>1, <3>4
  <2>6. ~Before(standing[e], standing[e])
    <3>1. standing[e] \in [nodes : {0, 1}, escrow : Nat]
      BY <1>5, StandingAssumption DEF TypeOK
    <3>2. QED
      BY <3>1 DEF Before
  <2>7. \A d, x \in N : Before(standing[d], standing[x]) =>
          validator'[d].rank < validator'[x].rank
    BY <1>11, <2>1, <2>5, <2>6 DEF RanksFollow
  <2>8. QED
    BY <2>2, <2>4, <2>7
<1>16. QED
  BY <1>4, <1>9, <1>10, <1>12, <1>13, <1>14, <1>15

LEMMA UpdateKeeps ==
  ASSUME TypeOK, PhaseInv, PassUpdate
  PROVE  PhaseInv'
<1> DEFINE e == Head(pass.order)
           N == Done \cup {e}
           t == Tail(pass.order)
<1>1. /\ Running /\ pass.pc = "update" /\ UNCHANGED <<standing, scan, info>>
      /\ PassType /\ HistoryType
  BY TypeParts DEF PassUpdate, Running, sources
<1>2. /\ pass.order \in Seq(Entity) /\ pass.order # <<>>
      /\ \A i, j \in DOMAIN pass.order : i # j => pass.order[i] # pass.order[j]
      /\ \A x \in Left : pass.rows[x] # None
      /\ pass.position - 1 + Len(pass.order) <= Len(Roster)
  BY <1>1 DEF PassType, PhaseInv, PassInv
<1>3. /\ Len(pass.order) \in Nat \ {0} /\ e \in Left /\ Left \subseteq Entity
      /\ Len(t) = Len(pass.order) - 1 /\ t \in Seq(Entity)
      /\ {t[i] : i \in DOMAIN t} = Left \ {e}
      /\ \A i \in DOMAIN t : i + 1 \in DOMAIN pass.order /\ t[i] = pass.order[i + 1]
      /\ \A i, j \in DOMAIN t : i # j => t[i] # t[j]
  <2>1. Left \subseteq Entity
    BY <1>2 DEF Left
  <2>2. {pass.order[i] : i \in DOMAIN pass.order} = Left
    BY DEF Left
  <2> HIDE DEF e, t
  <2>3. LET L == {pass.order[i] : i \in DOMAIN pass.order}
            T == {Tail(pass.order)[i] : i \in DOMAIN Tail(pass.order)}
        IN  /\ Len(pass.order) \in Nat \ {0} /\ Tail(pass.order) \in Seq(Entity)
            /\ Len(Tail(pass.order)) = Len(pass.order) - 1
            /\ Head(pass.order) \in L /\ T = L \ {Head(pass.order)}
            /\ \A i \in DOMAIN Tail(pass.order) :
                 i + 1 \in DOMAIN pass.order /\ Tail(pass.order)[i] = pass.order[i + 1]
            /\ \A i, j \in DOMAIN Tail(pass.order) :
                 i # j => Tail(pass.order)[i] # Tail(pass.order)[j]
    BY <1>2, TailFacts
  <2>4. QED
    BY <2>1, <2>2, <2>3 DEF e, t
<1>4. /\ quiet => /\ Stored' = Stored /\ N \subseteq Stored /\ Left \subseteq Stored
                  /\ {validator'[x].rank : x \in N} = 1..pass.position
                  /\ \A x \in N : Fresh(x)'
                  /\ \A x \in Left \ {e} : validator'[x] = pass.rows[x]
      /\ quiet /\ calm > 0 =>
           /\ \A x \in Stored : Fresh(x)'
           /\ \A x \in Left \ {e}, d \in N : ~Before(standing[x], standing[d])
           /\ \A d, x \in N : Before(standing[d], standing[x]) =>
                validator'[d].rank < validator'[x].rank
  BY UpdateWrites
<1>5. quiet => /\ ~Held /\ pass.position - 1 + Len(pass.order) = Cardinality(Stored)
               /\ \A x \in Left : pass.escrow[x] = standing[x].escrow
  BY <1>1 DEF PhaseInv, QuietInv
<1>6. Held' <=> Held
  BY <1>1 DEF Held
<1>7. pass.position \in Nat \ {0} /\ Len(Roster) \in Nat
  BY <1>1, RosterFacts DEF PassType
<1> HIDE DEF e, N, t
<1>8. CASE Len(pass.order) > 1
  <2>1. /\ Running' /\ pass'.pc = "update" /\ UNCHANGED <<quiet, calm>>
        /\ pass'.order = t /\ pass'.position = pass.position + 1
        /\ \A x \in Left \ {e} : /\ pass'.rows[x] = pass.rows[x]
                               /\ pass'.escrow[x] = pass.escrow[x]
    <3>1. /\ pass' = [pass EXCEPT !.position = @ + 1, !.order = Tail(@),
                                   !.rows[e] = None, !.escrow[e] = 0]
          /\ UNCHANGED history
      BY <1>8 DEF PassUpdate, e
    <3>2. /\ pass'.pc = pass.pc /\ pass'.order = t
          /\ pass'.position = pass.position + 1
          /\ pass'.rows = [pass.rows EXCEPT ![e] = None]
          /\ pass'.escrow = [pass.escrow EXCEPT ![e] = 0]
      BY <1>1, <3>1 DEF t, PassType
    <3>3. pass.rows \in [Entity -> Row \cup {None}] /\ pass.escrow \in [Entity -> Nat]
      BY <1>1 DEF PassType, Rows
    <3>4. \A x \in Left \ {e} : /\ pass'.rows[x] = pass.rows[x]
                             /\ pass'.escrow[x] = pass.escrow[x]
      BY <1>3, <3>2, <3>3
    <3>5. QED
      BY <1>1, <3>1, <3>2, <3>4 DEF Running, history
  <2>2. Left' = Left \ {e}
    <3>1. Left' = {t[i] : i \in DOMAIN t}
      BY <2>1 DEF Left
    <3>2. QED
      BY <1>3, <3>1
  <2>3. PassInv'
    <3>1. t # <<>>
      BY <1>3, <1>8
    <3>2. pass.position + 1 - 1 + Len(t) <= Len(Roster)
      BY <1>2, <1>3, <1>7
    <3>3. \A x \in Left' : pass'.rows[x] # None
      BY <1>2, <2>1, <2>2
    <3>4. QED
      <4>1. /\ pass'.order # <<>>
            /\ pass'.position - 1 + Len(pass'.order) <= Len(Roster)
            /\ \A x \in Left' : pass'.rows[x] # None
        <5>1. pass'.order = t /\ pass'.position = pass.position + 1
          BY <2>1
        <5>2. pass'.position - 1 + Len(pass'.order) <= Len(Roster)
          BY <1>7, <3>2, <5>1
        <5>3. QED
          BY <3>1, <3>3, <5>1, <5>2
      <4>2. \A i, j \in DOMAIN pass'.order : i # j => pass'.order[i] # pass'.order[j]
        BY <1>3, <2>1
      <4>3. Running' /\ pass'.pc # "status"
        BY <2>1
      <4>4. QED
        BY <4>1, <4>2, <4>3 DEF PassInv
  <2>4. CalmInv' /\ SettledInv'
    BY <1>1, <2>1 DEF PhaseInv, CalmInv, SettledInv
  <2>5. quiet => Done' = N
    BY <1>3, <1>4, <2>2 DEF Done, N
  <2>6. QuietInv'
    <3>1. SUFFICES ASSUME quiet PROVE QuietInv'
      BY <2>1 DEF QuietInv
    <3>2. pass'.position - 1 + Len(pass'.order) = Cardinality(Stored')
      <4>1. pass.position - 1 + Len(pass.order) = Cardinality(Stored)
        BY <1>5, <3>1
      <4>2. pass'.position = pass.position + 1 /\ Len(pass'.order) = Len(pass.order) - 1
        BY <1>3, <2>1
      <4>3. Stored' = Stored
        BY <1>4, <3>1
      <4>4. QED
        BY <1>3, <1>7, <4>1, <4>2, <4>3
    <3>3. \A x \in Left' : /\ pass'.rows[x] = validator'[x]
                          /\ pass'.escrow[x] = standing'[x].escrow /\ x \in Stored'
      BY <1>1, <1>4, <1>5, <2>1, <2>2, <3>1
    <3>4. {validator'[x].rank : x \in Done'} = 1..(pass'.position - 1)
      BY <1>4, <1>7, <2>1, <2>5, <3>1
    <3>5. QED
      BY <1>4, <1>5, <1>6, <2>5, <3>1, <3>2, <3>3, <3>4 DEF QuietInv
  <2>7. SecondInv'
    <3>1. SUFFICES ASSUME quiet, calm > 0 PROVE SecondInv'
      BY <2>1 DEF SecondInv
    <3>2. \A i, j \in DOMAIN pass.order :
            i < j => ~Before(standing[pass.order[j]], standing[pass.order[i]])
      BY <1>1, <3>1 DEF PhaseInv, SecondInv
    <3>3. \A i, j \in DOMAIN t :
            i < j => ~Before(standing[t[j]], standing[t[i]])
      <4>1. DOMAIN t \subseteq Int
        BY <1>3
      <4>2. QED
        BY <1>3, <3>2, <4>1
    <3>4. RanksFollow(Done)'
      BY <1>1, <1>4, <2>5, <3>1 DEF RanksFollow
    <3>5. QED
      BY <1>1, <1>4, <2>1, <2>2, <2>5, <3>1, <3>3, <3>4 DEF SecondInv
  <2>8. QED
    BY <2>3, <2>4, <2>6, <2>7 DEF PhaseInv
<1>9. CASE ~(Len(pass.order) > 1)
  <2>1. /\ pass' = NoPass /\ ~Running'
        /\ calm' = IF ~quiet THEN 0 ELSE IF calm = 2 THEN 2 ELSE calm + 1
    BY <1>9 DEF PassUpdate, NoPass, Running
  <2>2. PassInv' /\ CalmInv' /\ QuietInv' /\ SecondInv'
    BY <2>1 DEF PassInv, CalmInv, QuietInv, SecondInv
  <2>3. SettledInv'
    <3>1. SUFFICES ASSUME calm' > 0 PROVE SettledInv'
      BY DEF SettledInv
    <3>2. quiet
      BY <2>1, <3>1
    <3>3. Left = {e} /\ N = Stored
      <4>1. Len(pass.order) = 1 /\ Len(t) = 0
        <5>1. \A n \in Nat \ {0} : ~(n > 1) => n = 1
          OBVIOUS
        <5>2. Len(pass.order) = 1
          BY <1>3, <1>9, <5>1
        <5>3. QED
          BY <1>3, <5>2
      <4>2. DOMAIN t = {}
        BY <1>3, <4>1
      <4>3. Left \ {e} = {}
        BY <1>3, <4>2
      <4>4. QED
        BY <1>3, <1>4, <3>2, <4>3 DEF N, Done
    <3>4. pass.position = Cardinality(Stored)
      BY <1>3, <1>5, <1>7, <1>9, <3>2, StoredFacts
    <3>5. scan'.row = None /\ info'.row = None
      BY <1>5, <1>6, <3>2 DEF Held
    <3>6. calm' = 2 => calm > 0
      BY <1>1, <2>1, <3>2 DEF HistoryType
    <3>7. calm' = 2 => RanksFollow(Stored)'
      BY <1>1, <1>4, <3>2, <3>3, <3>6 DEF RanksFollow
    <3>8. {validator'[x].rank : x \in Stored'} = 1..Cardinality(Stored')
      BY <1>4, <3>2, <3>3, <3>4
    <3>9. \A x \in Stored' : Fresh(x)'
      BY <1>4, <3>2, <3>3
    <3>10. QED
      BY <3>5, <3>7, <3>8, <3>9 DEF SettledInv
  <2>4. QED
    BY <2>2, <2>3 DEF PhaseInv
<1>10. QED
  BY <1>8, <1>9
-----------------------------------------------------------------------------
(* The invariant.                                                          *)

LEMMA InitEstablishes == Init => IInv
<1> SUFFICES ASSUME Init PROVE IInv
  OBVIOUS
<1>1. SourceType
  <2>1. 0 \in Version /\ 1 \in Version
    BY VersionAssumption DEF Version
  <2>2. QED
    BY <2>1, StandingAssumption DEF Init, SourceType
<1>2. validator \in Rows /\ ScanType /\ InfoType
  BY NoScanTyped, NoInfoTyped DEF Init, Rows, ScanType, InfoType
<1>3. PassType
  <2>1. 1 \in 1..Len(Roster) /\ pass = NoPass
    BY RosterFacts DEF Init
  <2>2. QED
    BY <2>1 DEF NoPass, PassType, Rows
<1>4. HistoryType /\ BoundType
  <2>1. quiet = FALSE /\ calm = 0 /\ changes = 0 /\ faults = 0
    BY DEF Init
  <2>2. quiet \in BOOLEAN
    BY <2>1, Zenon
  <2>3. QED
    BY <2>1, <2>2, FaultAssumption DEF HistoryType, BoundType
<1>5. HeldInv
  BY DEF Init, NoScan, NoInfo, HeldInv
<1>6. ~Running /\ calm = 0
  BY DEF Init, NoPass, Running
<1>7. PhaseInv
  BY <1>6 DEF Init, PhaseInv, PassInv, CalmInv, QuietInv, SecondInv, SettledInv
<1>8. QED
  BY <1>1, <1>2, <1>3, <1>4, <1>5, <1>7, TypeParts DEF IInv

LEMMA NextPreserves == IInv /\ [Next]_vars => IInv'
<1> SUFFICES ASSUME IInv, [Next]_vars PROVE IInv'
  OBVIOUS
<1>1. TypeOK /\ HeldInv /\ PhaseInv
  BY DEF IInv
<1>2. CASE \E e \in Entity : Register(e) \/ Publish(e) \/ Move(e)
  BY <1>1, <1>2, OtherTypes, WorldKeeps DEF IInv
<1>3. CASE Scan
  BY <1>1, <1>3, ScanTypes, ScanKeeps DEF IInv
<1>4. CASE Info
  BY <1>1, <1>4, InfoTypes, InfoKeeps DEF IInv
<1>5. CASE Pass
  <2>1. TypeOK'
    BY <1>1, <1>5, PassTypes DEF PhaseInv
  <2>2. PhaseInv'
    BY <1>1, <1>5, FindKeeps, StatusKeeps, UpdateKeeps DEF Pass
  <2>3. HeldInv'
    <3>1. UNCHANGED <<scan, info>>
      BY <1>5 DEF Pass, PassFind, PassStatus, PassUpdate
    <3>2. QED
      BY <1>1, <3>1 DEF HeldInv
  <2>4. QED
    BY <2>1, <2>2, <2>3 DEF IInv
<1>6. CASE Fail
  BY <1>1, <1>6, OtherTypes, FailKeeps DEF IInv
<1>7. CASE UNCHANGED vars
  <2>1. /\ UNCHANGED <<registry, file, standing, validator, scan, info, pass, quiet, calm,
                       changes, faults>>
    BY <1>7 DEF vars, sources, history
  <2>2. TypeOK' /\ HeldInv'
    BY <1>1, <2>1 DEF TypeOK, HeldInv
  <2>3. PhaseInv'
    BY <1>1, <2>1, ReadKeeps DEF history, Copied, Dropped
  <2>4. QED
    BY <2>2, <2>3 DEF IInv
<1>8. QED
  BY <1>2, <1>3, <1>4, <1>5, <1>6, <1>7 DEF Next

(* The inductive invariant.  It says how far a pass has got, what it and   *)
(* the copies of the other jobs still hold of the rows, and what the rows  *)
(* owe to the passes before.                                               *)
THEOREM Invariance == Spec => []IInv
BY InitEstablishes, NextPreserves, PTL DEF Spec

(* One pass that ended and that no copy of a row reached into leaves the   *)
(* ranks 1, 2, ... without a gap or a tie, for every order of the list     *)
(* (validator_task.go:311 and :425); every variable keeps its type.        *)
THEOREM RanksCorrect == Spec => []RanksAreAPermutation
<1>1. IInv => RanksAreAPermutation
  BY DEF IInv, PhaseInv, SettledInv, RanksAreAPermutation
<1>2. QED
  BY <1>1, Invariance, PTL

(* Two such passes in a row leave the stakes and the activity as the chain *)
(* has them, and the ranks in that order (validatormodel.go:52): the ranks *)
(* of the first pass only order what the pass before it had written.       *)
THEOREM SettlesCorrect == Spec => []TwoPassesSettle
<1>1. IInv => TwoPassesSettle
  <2>1. SUFFICES ASSUME IInv, ~Running, calm = 2
                 PROVE  /\ \A e \in Stored : Fresh(e)
                        /\ \A e, f \in Stored :
                             Before(validator[e], validator[f])
                               => validator[e].rank < validator[f].rank
    BY DEF TwoPassesSettle, Fresh
  <2>2. (\A e \in Stored : Fresh(e)) /\ RanksFollow(Stored)
    BY <2>1 DEF IInv, PhaseInv, SettledInv
  <2>3. \A e, f \in Stored :
          Before(validator[e], validator[f]) <=> Before(standing[e], standing[f])
    BY <2>2 DEF Fresh, Before
  <2>4. QED
    BY <2>2, <2>3 DEF RanksFollow
<1>2. QED
  BY <1>1, Invariance, PTL
=============================================================================
