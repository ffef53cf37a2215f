------------------------- MODULE SnapshotJobsProofs -------------------------
(***************************************************************************)
(* Whatever the chain, the validators and the failures are, the table      *)
(* delegator holds the delegations of one height; whatever the pace of     *)
(* BlockScanner is, a later day in table escrow_stats has a greater        *)
(* height; and whatever the ballots and the stakes are, the rows of table  *)
(* vote that a pass leaves behind share out one total.                     *)
(*                                                                         *)
(* The counters of RuntimeStats are sums as well: what is proved of them   *)
(* follows the sums, at the end.                                           *)
(***************************************************************************)
EXTENDS SnapshotJobs, RuntimeStats, TLAPS, FiniteSetTheorems, WellFoundedInduction
-----------------------------------------------------------------------------
(* Delegations.                                                            *)

Delegations == [Entity -> SUBSET Holder]

DelegationTypeOK ==
  /\ ledger \in Seq(Delegations) /\ Len(ledger) >= 1
  /\ Enrolled \subseteq enrolled /\ enrolled \subseteq Entity
  /\ delegator \in Delegations
  /\ ds \in [pc : {"idle", "list", "copy"}, height : 1..Len(ledger),
             listed : SUBSET enrolled, todo : SUBSET Entity, rows : Delegations]

(* The transaction that is open holds the delegations of its height to the *)
(* validators it is done with, and to no other.                            *)
CopyInv ==
  ds.pc = "copy" =>
    /\ Enrolled \subseteq ds.listed /\ ds.todo \subseteq ds.listed
    /\ Snapshot(ds.rows, ds.height, ds.listed \ ds.todo)

DelegationInv == DelegationTypeOK /\ CopyInv /\ TableIsOneSnapshot
-----------------------------------------------------------------------------
LEMMA NobodyType == Nobody \in Delegations
BY DEF Nobody, Delegations

LEMMA IdleType ==
  ASSUME NEW n \in Nat, n >= 1, NEW S
  PROVE  DsIdle \in [pc : {"idle", "list", "copy"}, height : 1..n,
                     listed : SUBSET S, todo : SUBSET Entity, rows : Delegations]
BY NobodyType DEF DsIdle

(* The invariant holds at the start.                                       *)
LEMMA DelegationStarts == DelegationInit => DelegationInv
<1> SUFFICES ASSUME DelegationInit PROVE DelegationInv
  OBVIOUS
<1>1. ledger \in Seq(Delegations) /\ Len(ledger) = 1
  BY NobodyType DEF DelegationInit
<1>2. DelegationTypeOK
  BY <1>1, NobodyType, IdleType, EntityAssumption DEF DelegationInit, DelegationTypeOK
<1>3. CopyInv
  BY DEF DelegationInit, CopyInv, DsIdle
<1>4. TableIsOneSnapshot
  BY DEF DelegationInit, TableIsOneSnapshot
<1>5. QED
  BY <1>2, <1>3, <1>4 DEF DelegationInv

(* What was copied stays the snapshot that it was, since heights are never *)
(* rewritten and validators never leave.                                   *)
LEMMA TableStays ==
  ASSUME TableIsOneSnapshot, Len(ledger) \in Nat, Len(ledger') \in Nat,
         Len(ledger') >= Len(ledger),
         \A h \in 1..Len(ledger) : ledger'[h] = ledger[h],
         enrolled \subseteq enrolled', delegator' = delegator
  PROVE  TableIsOneSnapshot'
<1>1. CASE delegator = Nobody
  BY <1>1 DEF TableIsOneSnapshot, Nobody
<1>2. CASE delegator # Nobody
  <2>1. PICK h \in 1..Len(ledger), listed \in SUBSET enrolled :
          Enrolled \subseteq listed /\ Snapshot(delegator, h, listed)
    BY <1>2 DEF TableIsOneSnapshot
  <2>2. h \in 1..Len(ledger') /\ listed \in SUBSET enrolled' /\ ledger'[h] = ledger[h]
    OBVIOUS
  <2>3. delegator' = [v \in Entity |-> IF v \in listed THEN ledger'[h][v] ELSE {}]
    BY <2>1, <2>2 DEF Snapshot
  <2>4. QED
    BY <2>1, <2>2, <2>3 DEF TableIsOneSnapshot, Snapshot
<1>3. QED
  BY <1>1, <1>2

LEMMA SnapshotMakesTable ==
  ASSUME NEW h \in 1..Len(ledger'), NEW listed \in SUBSET enrolled', Enrolled \subseteq listed,
         delegator' = [v \in Entity |-> IF v \in listed THEN ledger'[h][v] ELSE {}]
  PROVE  TableIsOneSnapshot'
BY DEF TableIsOneSnapshot, Snapshot

(* The chain moves on and validators join: what was copied stays the       *)
(* snapshot that it was, since heights are never rewritten.                *)
LEMMA SnapshotStays ==
  ASSUME DelegationInv,
         ledger' \in Seq(Delegations), Len(ledger') >= Len(ledger),
         \A h \in 1..Len(ledger) : ledger'[h] = ledger[h],
         enrolled \subseteq enrolled', enrolled' \subseteq Entity,
         delegator' = delegator, ds' = ds
  PROVE  DelegationInv'
<1> USE DEF DelegationInv
<1>1. Len(ledger) \in Nat /\ Len(ledger') \in Nat
  BY DEF DelegationTypeOK
<1>2. DelegationTypeOK'
  <2>1. 1..Len(ledger) \subseteq 1..Len(ledger') /\ SUBSET enrolled \subseteq SUBSET enrolled'
    BY <1>1
  <2>2. ds' \in [pc : {"idle", "list", "copy"}, height : 1..Len(ledger'),
                 listed : SUBSET enrolled', todo : SUBSET Entity, rows : Delegations]
    BY <2>1 DEF DelegationTypeOK
  <2>3. QED
    BY <1>1, <2>2 DEF DelegationTypeOK
<1>3. CopyInv'
  <2>1. ds.height \in 1..Len(ledger)
    BY DEF DelegationTypeOK
  <2>2. ledger'[ds.height] = ledger[ds.height]
    BY <2>1
  <2>3. QED
    BY <2>2 DEF CopyInv, Snapshot
<1>4. TableIsOneSnapshot'
  BY <1>1, TableStays
<1>5. QED
  BY <1>2, <1>3, <1>4

(* The transaction moves on, or ends without effect.                       *)
LEMMA PassKeeps ==
  ASSUME DelegationInv, ledger' = ledger, enrolled' = enrolled, delegator' = delegator,
         ds' \in [pc : {"idle", "list", "copy"}, height : 1..Len(ledger),
                  listed : SUBSET enrolled, todo : SUBSET Entity, rows : Delegations],
         CopyInv'
  PROVE  DelegationInv'
<1>1. DelegationTypeOK'
  BY DEF DelegationInv, DelegationTypeOK
<1>2. TableIsOneSnapshot'
  BY TableStays DEF DelegationInv, DelegationTypeOK
<1>3. QED
  BY <1>1, <1>2 DEF DelegationInv

(* COMMIT makes the rows of the open transaction the table, at once.       *)
LEMMA CommitKeeps ==
  ASSUME DelegationInv, UNCHANGED <<ledger, enrolled>>,
         ds.pc = "copy", ds.todo = {}, delegator' = ds.rows, ds' = DsIdle
  PROVE  DelegationInv'
<1>1. DelegationTypeOK'
  BY IdleType DEF DelegationInv, DelegationTypeOK
<1>2. CopyInv'
  BY DEF CopyInv, DsIdle
<1>3. TableIsOneSnapshot'
  <2>1. Enrolled \subseteq ds.listed /\ Snapshot(ds.rows, ds.height, ds.listed)
    <3>1. ds.listed \ ds.todo = ds.listed
      OBVIOUS
    <3>2. QED
      BY <3>1 DEF DelegationInv, CopyInv
  <2>2. ds.height \in 1..Len(ledger) /\ ds.listed \in SUBSET enrolled
    BY DEF DelegationInv, DelegationTypeOK
  <2>3. delegator' = [v \in Entity |-> IF v \in ds.listed THEN ledger'[ds.height][v] ELSE {}]
    BY <2>1 DEF Snapshot
  <2>4. ds.height \in 1..Len(ledger') /\ ds.listed \in SUBSET enrolled'
    BY <2>2
  <2>5. QED
    BY <2>1, <2>3, <2>4, SnapshotMakesTable
<1>4. QED
  BY <1>1, <1>2, <1>3 DEF DelegationInv
-----------------------------------------------------------------------------
(* Every step of the jobs and of the chain keeps the invariant.            *)
LEMMA DelegationSteps ==
  ASSUME DelegationInv, [DelegationNext]_delegationVars
  PROVE  DelegationInv'
<1>0. Len(ledger) \in Nat /\ Len(ledger) >= 1
  BY DEF DelegationInv, DelegationTypeOK
<1>1. ASSUME NEW v \in Entity, NEW d \in Holder, Delegate(v, d)
      PROVE  DelegationInv'
  <2>1. Last(ledger) \in Delegations
    BY <1>0 DEF Last, DelegationInv, DelegationTypeOK
  <2>2. PICK now \in Delegations : ledger' = Append(ledger, now)
    <3> DEFINE set == IF d \in Last(ledger)[v] THEN Last(ledger)[v] \ {d} ELSE Last(ledger)[v] \cup {d}
    <3>1. [Last(ledger) EXCEPT ![v] = set] \in Delegations
      BY <2>1 DEF Delegations
    <3>2. ledger' = Append(ledger, [Last(ledger) EXCEPT ![v] = set])
      BY <1>1 DEF Delegate
    <3>3. QED
      BY <3>1, <3>2
  <2>3. /\ ledger' \in Seq(Delegations) /\ Len(ledger') >= Len(ledger)
        /\ \A h \in 1..Len(ledger) : ledger'[h] = ledger[h]
    BY <2>2 DEF DelegationInv, DelegationTypeOK
  <2>4. QED
    BY <1>1, <2>3, SnapshotStays DEF Delegate, DelegationInv, DelegationTypeOK
<1>2. ASSUME NEW v \in Entity, Enroll(v)
      PROVE  DelegationInv'
  BY <1>2, SnapshotStays DEF Enroll, DelegationInv, DelegationTypeOK
<1>3. CASE DelegatorHeight
  <2>1. CopyInv'
    BY <1>3 DEF DelegatorHeight, CopyInv, DelegationInv, DelegationTypeOK
  <2>2. ds' \in [pc : {"idle", "list", "copy"}, height : 1..Len(ledger),
                 listed : SUBSET enrolled, todo : SUBSET Entity, rows : Delegations]
    <3>1. Len(ledger) \in 1..Len(ledger)
      BY <1>0
    <3>2. QED
      BY <1>3, <3>1 DEF DelegatorHeight, DelegationInv, DelegationTypeOK
  <2>3. QED
    BY <1>3, <2>1, <2>2, PassKeeps DEF DelegatorHeight
<1>4. CASE DelegatorList
  <2>1. ds' = [ds EXCEPT !.pc = "copy", !.listed = enrolled, !.todo = enrolled, !.rows = Nobody]
    BY <1>4 DEF DelegatorList, Emptied
  <2>2. CopyInv'
    <3>1. ds'.listed = enrolled /\ ds'.rows = Nobody /\ ds'.todo = enrolled
      BY <2>1 DEF DelegationInv, DelegationTypeOK
    <3>2. ds'.rows = [v \in Entity |-> IF v \in ds'.listed \ ds'.todo THEN ledger'[ds'.height][v] ELSE {}]
      BY <3>1 DEF Nobody
    <3>3. QED
      BY <3>1, <3>2 DEF CopyInv, Snapshot, DelegationInv, DelegationTypeOK
  <2>3. QED
    BY <1>4, <2>1, <2>2, NobodyType, PassKeeps DEF DelegatorList, DelegationInv, DelegationTypeOK
<1>5. ASSUME NEW v \in Entity, CopyDelegations(v)
      PROVE  DelegationInv'
  <2>1. ds.rows[v] = {} /\ ledger[ds.height] \in Delegations
    BY <1>5 DEF CopyDelegations, DelegationInv, DelegationTypeOK, CopyInv, Snapshot
  <2>2. ds' = [ds EXCEPT !.todo = @ \ {v}, !.rows[v] = ledger[ds.height][v]]
    BY <1>5, <2>1 DEF CopyDelegations
  <2>3. CopyInv'
    <3>1. /\ ds'.listed = ds.listed /\ ds'.height = ds.height /\ ds'.todo = ds.todo \ {v}
          /\ ds'.rows = [ds.rows EXCEPT ![v] = ledger[ds.height][v]]
      BY <2>2 DEF DelegationInv, DelegationTypeOK
    <3>2. /\ Enrolled \subseteq ds.listed
          /\ ds.rows = [w \in Entity |-> IF w \in ds.listed \ ds.todo THEN ledger[ds.height][w] ELSE {}]
      BY <1>5 DEF CopyDelegations, DelegationInv, CopyInv, Snapshot
    <3>3. v \in ds.listed /\ ds.todo \subseteq ds.listed
      BY <1>5 DEF CopyDelegations, DelegationInv, CopyInv
    <3>4. ds'.rows = [w \in Entity |-> IF w \in ds'.listed \ ds'.todo THEN ledger[ds.height][w] ELSE {}]
      BY <1>5, <3>1, <3>2, <3>3 DEF CopyDelegations
    <3>5. ledger' = ledger
      BY <1>5 DEF CopyDelegations
    <3>6. QED
      BY <3>1, <3>2, <3>3, <3>4, <3>5 DEF CopyInv, Snapshot
  <2>4. ds'.rows \in Delegations
    BY <2>1, <2>2 DEF DelegationInv, DelegationTypeOK, Delegations
  <2>5. QED
    BY <1>5, <2>2, <2>3, <2>4, PassKeeps DEF CopyDelegations, DelegationInv, DelegationTypeOK
<1>6. CASE DelegatorCommit \/ DelegatorCommitAndDie
  BY <1>6, CommitKeeps DEF DelegatorCommit, DelegatorCommitAndDie
<1>7. CASE DelegatorFails
  <2>1. CopyInv'
    BY <1>7 DEF DelegatorFails, CopyInv, DsIdle
  <2>2. QED
    BY <1>0, <1>7, <2>1, IdleType, PassKeeps DEF DelegatorFails, DelegationInv, DelegationTypeOK
<1>8. CASE CountDelegators \/ CountFails \/ WriteRows \/ UNCHANGED delegationVars
  <2>1. UNCHANGED <<ledger, enrolled, delegator, ds>>
    BY <1>8 DEF CountDelegators, CountStart, CountByValidator, CountUpdate, CountFails,
                 WriteRows, ReadRow, WriteRow, WriterFails, PassOver, delegationVars
  <2>2. QED
    BY <1>0, <2>1, SnapshotStays DEF DelegationInv, DelegationTypeOK
<1>9. QED
  BY <1>1, <1>2, <1>3, <1>4, <1>5, <1>6, <1>7, <1>8 DEF DelegationNext, DelegatorSync
-----------------------------------------------------------------------------
(* EscrowStats.                                                            *)

EscrowRow == [address : Address, height : Nat, date : Int]

EscrowPass ==
  [pc : {"idle", "block", "rows"}, today : Nat, day : Int,
   listed : SUBSET Address, todo : SUBSET Address, height : Nat]

EscrowTypeOK ==
  /\ today \in Nat
  /\ born \in Seq(Nat) /\ indexed \in 0..Len(born)
  /\ validators \subseteq Address
  /\ stats \subseteq EscrowRow
  /\ es \in EscrowPass

(* The block of a row is stored and not after the row's day, and no row is *)
(* of a day to come.                                                       *)
RowsOfThePast ==
  \A r \in stats :
    r.height \in 1..indexed /\ born[r.height] <= r.date /\ r.date <= today

(* A pass works at the newest day there is, or after it; once it has found *)
(* the block of its day, no row has a greater height.                      *)
PassInv ==
  /\ es.pc # "idle" => es.today <= today /\ \A r \in stats : r.date <= es.day
  /\ es.pc = "rows" =>
       /\ es.day <= es.today
       /\ es.height \in 1..indexed /\ born[es.height] <= es.day
       /\ \A r \in stats : r.height <= es.height

EscrowInv == EscrowTypeOK /\ RowsOfThePast /\ PassInv /\ HeightsFollowDates
-----------------------------------------------------------------------------
(* A set of integers with an upper bound has a greatest element.           *)
LEMMA GreatestExists ==
  ASSUME NEW S \in SUBSET Int, S # {}, NEW b \in Int, \A x \in S : x <= b
  PROVE  Max(S) \in S /\ \A x \in S : x <= Max(S)
<1> DEFINE T == {b - x : x \in S}
<1>1. T \subseteq Nat /\ T # {}
  <2>1. ASSUME NEW x \in S PROVE b - x \in Nat
    <3>1. x \in Int /\ x <= b
      OBVIOUS
    <3>2. QED
      BY <3>1
  <2>2. QED
    BY <2>1
<1>2. PICK t \in T : \A u \in T : <<u, t>> \notin OpToRel(<, Nat)
  BY <1>1, WFMin, NatLessThanWellFounded
<1>3. \A u \in T : t <= u
  <2>1. ASSUME NEW u \in T, u < t PROVE <<u, t>> \in OpToRel(<, Nat)
    BY <1>1, <2>1 DEF OpToRel
  <2>2. ASSUME NEW u \in T PROVE t <= u
    <3>1. ~(u < t)
      BY <1>2, <2>1
    <3>2. u \in Nat /\ t \in Nat
      BY <1>1
    <3>3. QED
      BY <3>1, <3>2
  <2>3. QED
    BY <2>2
<1>4. PICK m \in S : t = b - m
  OBVIOUS
<1>5. \A x \in S : m >= x
  <2>1. ASSUME NEW x \in S PROVE m >= x
    <3>1. b - x \in T
      OBVIOUS
    <3>2. b - m <= b - x
      BY <1>3, <1>4, <3>1
    <3>3. QED
      BY <3>2
  <2>2. QED
    BY <2>1
<1>6. Max(S) \in S /\ \A x \in S : Max(S) >= x
  BY <1>4, <1>5 DEF Max
<1>7. QED
  BY <1>6
-----------------------------------------------------------------------------
(* The invariant holds at the start.                                       *)
LEMMA EscrowStarts == EscrowInit => EscrowInv
<1> SUFFICES ASSUME EscrowInit PROVE EscrowInv
  OBVIOUS
<1>1. EscrowTypeOK
  BY DayAssumption DEF EscrowInit, EscrowTypeOK, EscrowPass, EsIdle
<1>2. RowsOfThePast /\ PassInv /\ HeightsFollowDates
  BY DEF EscrowInit, RowsOfThePast, PassInv, HeightsFollowDates, EsIdle
<1>3. QED
  BY <1>1, <1>2 DEF EscrowInv

(* Time, the chain, BlockScanner and NodeScanner: what is there stays.     *)
LEMMA WorldKeeps ==
  ASSUME EscrowInv,
         today' \in Nat, today <= today', born' \in Seq(Nat), Len(born) <= Len(born'),
         \A h \in 1..Len(born) : born'[h] = born[h],
         indexed' \in 0..Len(born'), indexed <= indexed', validators' \subseteq Address,
         stats' = stats, es' = es
  PROVE  EscrowInv'
<1> USE DEF EscrowInv
<1>1. EscrowTypeOK'
  BY DEF EscrowTypeOK, EscrowPass
<1>2. \A h \in 1..indexed : h \in 1..indexed' /\ born'[h] = born[h]
  BY DEF EscrowTypeOK, EscrowPass
<1>3. RowsOfThePast'
  <2>1. \A r \in stats : r.date \in Int
    BY DEF EscrowTypeOK, EscrowPass, EscrowRow
  <2>2. ASSUME NEW r \in stats
        PROVE  r.height \in 1..indexed' /\ born'[r.height] <= r.date /\ r.date <= today'
    <3>1. r.height \in 1..indexed /\ born[r.height] <= r.date /\ r.date <= today
      BY DEF RowsOfThePast
    <3>2. r.height \in 1..indexed' /\ born'[r.height] = born[r.height]
      BY <1>2, <3>1
    <3>3. r.date <= today'
      BY <2>1, <3>1 DEF EscrowTypeOK
    <3>4. QED
      BY <3>1, <3>2, <3>3
  <2>3. QED
    BY <2>2 DEF RowsOfThePast
<1>4. PassInv'
  <2>1. es.pc # "idle" => es.today <= today'
    BY DEF EscrowTypeOK, EscrowPass, PassInv
  <2>2. es.pc = "rows" => es.height \in 1..indexed' /\ born'[es.height] <= es.day
    BY <1>2 DEF PassInv
  <2>3. QED
    BY <2>1, <2>2 DEF PassInv
<1>5. HeightsFollowDates'
  BY DEF HeightsFollowDates
<1>6. QED
  BY <1>1, <1>3, <1>4, <1>5

(* A step of the job that stores nothing.                                  *)
LEMMA LookKeeps ==
  ASSUME EscrowInv, today' = today, born' = born, indexed' = indexed,
         validators' = validators, stats' = stats,
         es' \in EscrowPass,
         PassInv'
  PROVE  EscrowInv'
BY DEF EscrowInv, EscrowTypeOK, EscrowPass, RowsOfThePast, HeightsFollowDates

(* A run starts at a day that is not before that of any row.               *)
LEMMA StartKeeps == ASSUME EscrowInv, EscrowStart PROVE EscrowInv'
<1>1. ResumeDay \in Int /\ \A r \in stats : r.date <= ResumeDay
  <2>1. CASE stats = {}
    BY <2>1, DayAssumption DEF ResumeDay, EscrowInv, EscrowTypeOK, EscrowPass
  <2>2. CASE stats # {}
    <3> DEFINE D == {r.date : r \in stats}
    <3>1. D \in SUBSET Int /\ D # {} /\ today \in Int /\ \A d \in D : d <= today
      BY <2>2 DEF EscrowInv, EscrowTypeOK, EscrowPass, EscrowRow, RowsOfThePast
    <3>2. Max(D) \in D /\ \A d \in D : d <= Max(D)
      BY <3>1, GreatestExists
    <3>3. QED
      BY <2>2, <3>1, <3>2 DEF ResumeDay
  <2>3. QED
    BY <2>1, <2>2
<1>2. es' = [EsIdle EXCEPT !.pc = "block", !.today = today, !.day = ResumeDay, !.listed = validators]
  BY DEF EscrowStart
<1>3. PassInv'
  BY <1>1, <1>2 DEF EscrowStart, PassInv, EsIdle, EscrowInv, EscrowTypeOK, EscrowPass
<1>4. QED
  <2>1. es' \in EscrowPass
    BY <1>1, <1>2 DEF EsIdle, EscrowPass, EscrowInv, EscrowTypeOK
  <2>2. QED
    BY <1>3, <2>1, LookKeeps DEF EscrowStart

(* The run finds the block of its day: every row has a block not after     *)
(* that day, too, so its height is not greater.                            *)
LEMMA BlockKeeps == ASSUME EscrowInv, EscrowBlock PROVE EscrowInv'
<1> DEFINE B == BlocksBefore(es.day)
<1>1. CASE B = {}
  <2>1. PassInv'
    BY <1>1 DEF EscrowBlock, PassInv, EsIdle
  <2>2. QED
    BY <1>1, <2>1, LookKeeps DEF EscrowBlock, EsIdle, EscrowPass
<1>2. CASE B # {}
  <2>1. B \in SUBSET Int /\ indexed \in Int /\ \A h \in B : h <= indexed
    BY DEF BlocksBefore, EscrowInv, EscrowTypeOK, EscrowPass
  <2>2. Max(B) \in B /\ \A h \in B : h <= Max(B)
    BY <1>2, <2>1, GreatestExists
  <2>3. \A r \in stats : r.height \in B
    BY DEF EscrowBlock, BlocksBefore, EscrowInv, EscrowTypeOK, EscrowPass, EscrowRow, RowsOfThePast, PassInv
  <2>4. es' = [es EXCEPT !.pc = "rows", !.height = Max(B), !.todo = es.listed]
    BY <1>2 DEF EscrowBlock
  <2>5. Max(B) \in 1..indexed /\ born[Max(B)] <= es.day
    BY <2>2 DEF BlocksBefore
  <2>6. PassInv'
    BY <2>2, <2>3, <2>4, <2>5 DEF EscrowBlock, PassInv, EscrowInv, EscrowTypeOK, EscrowPass
  <2>7. QED
    <3>1. Max(B) \in Nat
      BY <2>1, <2>5
    <3>2. es' \in EscrowPass
      BY <2>4, <3>1 DEF EscrowPass, EscrowInv, EscrowTypeOK
    <3>3. QED
      BY <2>6, <3>2, LookKeeps DEF EscrowBlock
<1>3. QED
  BY <1>1, <1>2

(* A new row is of a later day and a greater height than the rows there    *)
(* are, since it is stored only if neither is there.                       *)
LEMMA SaveKeeps ==
  ASSUME EscrowInv, NEW v \in Address, SaveStats(v)
  PROVE  EscrowInv'
<1> DEFINE new == [address |-> v, height |-> es.height, date |-> es.day]
<1>1. es' = [es EXCEPT !.todo = @ \ {v}]
  BY DEF SaveStats
<1>2. CASE HasRow(v)
  <2>1. stats' = stats
    BY <1>2 DEF SaveStats
  <2>2. PassInv'
    BY <1>1, <2>1 DEF SaveStats, PassInv, EscrowInv, EscrowTypeOK, EscrowPass
  <2>3. QED
    BY <1>1, <2>1, <2>2, LookKeeps DEF SaveStats, EscrowInv, EscrowTypeOK, EscrowPass
<1>3. CASE ~HasRow(v)
  <2>1. stats' = stats \cup {new}
    BY <1>3 DEF SaveStats
  <2>2. /\ es.pc = "rows" /\ es.today <= today /\ es.day <= es.today
        /\ es.height \in 1..indexed /\ born[es.height] <= es.day
        /\ \A r \in stats : r.date <= es.day /\ r.height <= es.height
    BY DEF SaveStats, EscrowInv, PassInv
  <2>3. EscrowTypeOK'
    <3>1. new \in EscrowRow
      BY <2>2 DEF EscrowInv, EscrowTypeOK, EscrowPass, EscrowRow
    <3>2. es' \in EscrowPass
      BY <1>1 DEF EscrowInv, EscrowTypeOK, EscrowPass
    <3>3. QED
      BY <2>1, <3>1, <3>2 DEF SaveStats, EscrowInv, EscrowTypeOK, EscrowPass
  <2>4. RowsOfThePast'
    BY <2>1, <2>2 DEF SaveStats, EscrowInv, EscrowTypeOK, EscrowPass, RowsOfThePast
  <2>5. PassInv'
    BY <1>1, <2>1, <2>2 DEF SaveStats, EscrowInv, EscrowTypeOK, EscrowPass, PassInv
  <2>6. \A r \in stats : r.address = v => r.date < es.day /\ r.height < es.height
    BY <1>3, <2>2 DEF HasRow, EscrowInv, EscrowTypeOK, EscrowPass, EscrowRow
  <2>7. HeightsFollowDates'
    BY <2>1, <2>6 DEF EscrowInv, EscrowTypeOK, EscrowPass, EscrowRow, HeightsFollowDates
  <2>8. QED
    BY <2>3, <2>4, <2>5, <2>7 DEF EscrowInv
<1>4. QED
  BY <1>2, <1>3

(* Every step keeps the invariant.                                         *)
LEMMA EscrowSteps ==
  ASSUME EscrowInv, [EscrowNext]_escrowVars
  PROVE  EscrowInv'
<1>1. CASE NextDay
  BY <1>1, WorldKeeps DEF NextDay, EscrowInv, EscrowTypeOK, EscrowPass
<1>2. CASE Produce
  <2>1. /\ born' \in Seq(Nat) /\ Len(born') = Len(born) + 1
        /\ \A h \in 1..Len(born) : born'[h] = born[h]
    BY <1>2 DEF Produce, EscrowInv, EscrowTypeOK, EscrowPass
  <2>2. QED
    BY <1>2, <2>1, WorldKeeps DEF Produce, EscrowInv, EscrowTypeOK, EscrowPass
<1>3. CASE IndexBlock
  BY <1>3, WorldKeeps DEF IndexBlock, EscrowInv, EscrowTypeOK, EscrowPass
<1>4. ASSUME NEW v \in Address, List(v) PROVE EscrowInv'
  BY <1>4, WorldKeeps DEF List, EscrowInv, EscrowTypeOK, EscrowPass
<1>5. CASE EscrowStart
  BY <1>5, StartKeeps
<1>6. CASE EscrowBlock
  BY <1>6, BlockKeeps
<1>7. CASE EscrowDone \/ EscrowFails
  <2>1. PassInv'
    BY <1>7 DEF EscrowDone, EscrowFails, PassInv, EsIdle
  <2>2. QED
    BY <1>7, <2>1, LookKeeps DEF EscrowDone, EscrowFails, EsIdle, EscrowPass
<1>8. CASE FollowingDay
  <2>1. PassInv'
    BY <1>8 DEF FollowingDay, PassInv, EscrowInv, EscrowTypeOK, EscrowPass, EscrowRow
  <2>2. QED
    <3>1. es \in EscrowPass /\ es.day + 1 \in Int
      BY DEF EscrowInv, EscrowTypeOK, EscrowPass
    <3>2. es' = [es EXCEPT !.pc = "block", !.day = es.day + 1]
      BY <1>8 DEF FollowingDay
    <3>3. es' \in EscrowPass
      BY <3>1, <3>2 DEF EscrowPass
    <3>4. QED
      BY <1>8, <2>1, <3>3, LookKeeps DEF FollowingDay
<1>9. ASSUME NEW v \in Address, SaveStats(v) PROVE EscrowInv'
  BY <1>9, SaveKeeps
<1>10. CASE UNCHANGED escrowVars
  BY <1>10, WorldKeeps DEF escrowVars, EscrowInv, EscrowTypeOK, EscrowPass
<1>11. QED
  BY <1>1, <1>2, <1>3, <1>4, <1>5, <1>6, <1>7, <1>8, <1>9, <1>10 DEF EscrowNext, EscrowStatsSync
-----------------------------------------------------------------------------
(* Induction over the numbers, and over the parts of a finite set, for a   *)
(* set of those that have the property in question.                        *)
LEMMA Climb ==
  ASSUME NEW A, 0 \in A, \A n \in Nat : n \in A => n + 1 \in A
  PROVE  Nat \subseteq A
<1> DEFINE T == Nat \ A
<1>1. SUFFICES ASSUME T # {} PROVE FALSE
  OBVIOUS
<1>2. PICK k \in T : \A j \in T : <<j, k>> \notin OpToRel(<, Nat)
  BY <1>1, WFMin, NatLessThanWellFounded
<1>3. k \in Nat /\ k # 0
  BY <1>2
<1>4. k - 1 \in Nat /\ (k - 1) + 1 = k
  BY <1>3
<1>5. <<k - 1, k>> \in OpToRel(<, Nat)
  BY <1>3, <1>4 DEF OpToRel
<1>6. k - 1 \in A
  BY <1>2, <1>4, <1>5
<1>7. QED
  BY <1>2, <1>4, <1>6

LEMMA SetInduction ==
  ASSUME NEW U, IsFiniteSet(U), NEW A, {} \in A,
         \A s \in SUBSET U : s # {} /\ (\A x \in s : s \ {x} \in A) => s \in A
  PROVE  \A s \in SUBSET U : s \in A
<1> DEFINE B == {n \in Nat : \A s \in SUBSET U : Cardinality(s) = n => s \in A}
<1>1. \A s \in SUBSET U : IsFiniteSet(s) /\ Cardinality(s) \in Nat
  BY FS_Subset, FS_CardinalityType
<1>2. 0 \in B
  BY <1>1, FS_EmptySet
<1>3. ASSUME NEW n \in Nat, n \in B PROVE n + 1 \in B
  <2>1. SUFFICES ASSUME NEW s \in SUBSET U, Cardinality(s) = n + 1 PROVE s \in A
    OBVIOUS
  <2>2. s # {}
    <3>1. Cardinality(s) # 0
      BY <2>1
    <3>2. QED
      BY <3>1, FS_EmptySet
  <2>3. ASSUME NEW x \in s PROVE s \ {x} \in A
    <3>1. Cardinality(s \ {x}) = Cardinality(s) - 1
      BY <1>1, FS_RemoveElement
    <3>2. Cardinality(s \ {x}) = n
      BY <2>1, <3>1
    <3>3. QED
      BY <1>3, <3>2
  <2>4. QED
    BY <2>2, <2>3
<1>4. Nat \subseteq B
  <2> HIDE DEF B
  <2>1. QED
    BY <1>2, <1>3, Climb
<1>5. QED
  BY <1>1, <1>4
-----------------------------------------------------------------------------
(* Sums.  Fold(f, U, g) says that g is the recursive function by which     *)
(* MapThenSumSet adds up the values of f over the parts of U.              *)
Sum(f, S) == MapThenSumSet(LAMBDA v : f[v], S)

First(s) == CHOOSE x \in s : TRUE
FoldStep(f, g, s) == IF s = {} THEN 0 ELSE f[First(s)] + g[s \ {First(s)}]
Fold(f, U, g) == g = [s \in SUBSET U |-> FoldStep(f, g, s)]
TheFold(f, S) == CHOOSE g : Fold(f, S, g)

LEMMA SumIsFold ==
  ASSUME NEW f, NEW S PROVE Sum(f, S) = TheFold(f, S)[S]
BY DEF Sum, TheFold, Fold, FoldStep, First, MapThenSumSet, MapThenFoldSet

LEMMA SumOfFunction ==
  ASSUME NEW f PROVE SumFunction(f) = Sum(f, DOMAIN f)
BY DEF SumFunction, SumFunctionOnSet, FoldFunctionOnSet, Sum, MapThenSumSet, MapThenFoldSet

LEMMA FirstIn == ASSUME NEW s, s # {} PROVE First(s) \in s
BY DEF First

(* There is such a function, one size of the parts after the other.        *)
LEMMA FoldExists ==
  ASSUME NEW U, IsFiniteSet(U), NEW f \in [U -> Nat]
  PROVE  \E g \in [SUBSET U -> Nat] : Fold(f, U, g)
<1> DEFINE Small(n) == {s \in SUBSET U : Cardinality(s) <= n}
           Good(n, g) == g = [s \in Small(n) |-> FoldStep(f, g, s)]
           A == {n \in Nat : \E g \in [Small(n) -> Nat] : Good(n, g)}
<1>1. \A s \in SUBSET U : IsFiniteSet(s) /\ Cardinality(s) \in Nat
  BY FS_Subset, FS_CardinalityType
<1>2. \A s \in SUBSET U : s # {} => First(s) \in s /\ f[First(s)] \in Nat
  BY FirstIn
<1>3. \A s \in SUBSET U : s # {} => Cardinality(s \ {First(s)}) = Cardinality(s) - 1
  BY <1>1, <1>2, FS_RemoveElement
<1>4. 0 \in A
  <2> DEFINE g == [s \in Small(0) |-> 0]
  <2>1. \A s \in Small(0) : s = {}
    BY <1>1, FS_EmptySet
  <2>2. g \in [Small(0) -> Nat]
    OBVIOUS
  <2>3. Good(0, g)
    BY <2>1 DEF FoldStep
  <2>4. QED
    BY <2>2, <2>3
<1>5. ASSUME NEW n \in Nat, n \in A PROVE n + 1 \in A
  <2>1. PICK g \in [Small(n) -> Nat] : Good(n, g)
    BY <1>5
  <2> DEFINE h == [s \in Small(n + 1) |-> FoldStep(f, g, s)]
  <2>2. \A s \in Small(n + 1) : s # {} => s \ {First(s)} \in Small(n)
    BY <1>1, <1>3
  <2>3. \A s \in Small(n + 1) : FoldStep(f, g, s) \in Nat
    BY <1>2, <2>2 DEF FoldStep
  <2>4. h \in [Small(n + 1) -> Nat]
    BY <2>3
  <2>5. \A s \in Small(n) : s \in Small(n + 1) /\ g[s] = FoldStep(f, g, s)
    BY <1>1, <2>1
  <2>6. \A s \in Small(n) : h[s] = g[s]
    BY <2>5
  <2>7. \A s \in Small(n + 1) : FoldStep(f, h, s) = FoldStep(f, g, s)
    <3> HIDE DEF h, Small
    <3>1. QED
      BY <2>2, <2>6 DEF FoldStep
  <2>8. Good(n + 1, h)
    BY <2>7
  <2>9. QED
    <3> HIDE DEF h, Small, Good
    <3>1. n + 1 \in Nat
      OBVIOUS
    <3>2. QED
      BY <2>4, <2>8, <3>1
<1>6. Nat \subseteq A
  <2> HIDE DEF A
  <2>1. QED
    BY <1>4, <1>5, Climb
<1>7. Cardinality(U) \in A
  BY <1>1, <1>6
<1>8. Small(Cardinality(U)) = SUBSET U
  BY <1>1, FS_Subset
<1>9. PICK g \in [SUBSET U -> Nat] : Good(Cardinality(U), g)
  BY <1>7, <1>8
<1>10. QED
  BY <1>8, <1>9 DEF Fold

(* What it says of a part does not depend on the whole.                    *)
LEMMA FoldUnique ==
  ASSUME NEW f, NEW g, NEW h, NEW U, NEW S, S \in SUBSET U, IsFiniteSet(U),
         Fold(f, U, g), Fold(f, S, h)
  PROVE  \A s \in SUBSET S : h[s] = g[s]
<1> DEFINE A == {s \in SUBSET S : h[s] = g[s]}
<1>1. IsFiniteSet(S)
  BY FS_Subset
<1>2. \A s \in SUBSET S : h[s] = FoldStep(f, h, s) /\ g[s] = FoldStep(f, g, s)
  BY DEF Fold
<1>3. {} \in A
  BY <1>2 DEF FoldStep
<1>4. ASSUME NEW s \in SUBSET S, s # {}, \A x \in s : s \ {x} \in A
      PROVE  s \in A
  <2>1. s \ {First(s)} \in A
    BY <1>4, FirstIn
  <2>2. h[s] = g[s]
    BY <1>2, <1>4, <2>1 DEF FoldStep
  <2>3. QED
    BY <2>2
<1>5. \A s \in SUBSET S : s \in A
  <2> HIDE DEF A
  <2>1. QED
    BY <1>1, <1>3, <1>4, SetInduction
<1>6. QED
  BY <1>5

(* The sum of a set: a number; nothing over nothing; one summand first.    *)
LEMMA SumFirst ==
  ASSUME NEW U, IsFiniteSet(U), NEW f \in [U -> Nat]
  PROVE  /\ \A S \in SUBSET U : Sum(f, S) \in Nat
         /\ Sum(f, {}) = 0
         /\ \A S \in SUBSET U : S # {} => Sum(f, S) = f[First(S)] + Sum(f, S \ {First(S)})
<1>1. PICK g \in [SUBSET U -> Nat] : Fold(f, U, g)
  BY FoldExists
<1>2. ASSUME NEW S \in SUBSET U PROVE Sum(f, S) = g[S]
  <2> DEFINE r == [x \in S |-> f[x]]
  <2>1. IsFiniteSet(S)
    BY FS_Subset
  <2>0. r \in [S -> Nat]
    OBVIOUS
  <2>2. PICK e \in [SUBSET S -> Nat] : Fold(r, S, e)
    <3> HIDE DEF r
    <3>1. QED
      BY <2>0, <2>1, FoldExists
  <2>3. \A s \in SUBSET S : FoldStep(r, e, s) = FoldStep(f, e, s)
    BY FirstIn DEF FoldStep
  <2>4. Fold(f, S, e)
    <3> HIDE DEF r
    <3>1. QED
      BY <2>2, <2>3 DEF Fold
  <2>5. Fold(f, S, TheFold(f, S))
    BY <2>4 DEF TheFold
  <2>6. \A s \in SUBSET S : TheFold(f, S)[s] = g[s]
    <3>1. PICK h : h = TheFold(f, S)
      OBVIOUS
    <3>2. Fold(f, S, h)
      BY <2>5, <3>1
    <3>3. \A s \in SUBSET S : h[s] = g[s]
      <4>1. Fold(f, U, g)
        BY <1>1
      <4>2. IsFiniteSet(U) /\ S \in SUBSET U
        OBVIOUS
      <4> HIDE DEF r
      <4>3. QED
        BY <3>2, <4>1, <4>2, FoldUnique
    <3>4. QED
      BY <3>1, <3>3
  <2>7. QED
    BY <2>6, SumIsFold
<1>3. \A S \in SUBSET U : g[S] = FoldStep(f, g, S)
  BY <1>1 DEF Fold
<1>4. QED
  <2>1. \A S \in SUBSET U : Sum(f, S) \in Nat
    BY <1>1, <1>2
  <2>2. Sum(f, {}) = 0
    BY <1>2, <1>3 DEF FoldStep
  <2>3. ASSUME NEW S \in SUBSET U, S # {}
        PROVE  Sum(f, S) = f[First(S)] + Sum(f, S \ {First(S)})
    <3>1. S \ {First(S)} \in SUBSET U
      OBVIOUS
    <3>2. g[S] = f[First(S)] + g[S \ {First(S)}]
      BY <1>3, <2>3 DEF FoldStep
    <3>3. QED
      BY <1>2, <3>1, <3>2
  <2>4. QED
    BY <2>1, <2>2, <2>3

(* Any summand may come first.                                             *)
LEMMA SumRemove ==
  ASSUME NEW U, IsFiniteSet(U), NEW f \in [U -> Nat], NEW S \in SUBSET U, NEW x \in S
  PROVE  Sum(f, S) = f[x] + Sum(f, S \ {x})
<1> DEFINE A == {s \in SUBSET U : \A y \in s : Sum(f, s) = f[y] + Sum(f, s \ {y})}
<1>1. \A s \in SUBSET U : Sum(f, s) \in Nat
  BY SumFirst
<1>2. {} \in A
  OBVIOUS
<1>3. ASSUME NEW s \in SUBSET U, s # {}, \A y \in s : s \ {y} \in A
      PROVE  s \in A
  <2>1. SUFFICES ASSUME NEW y \in s PROVE Sum(f, s) = f[y] + Sum(f, s \ {y})
    OBVIOUS
  <2>2. PICK c \in s : Sum(f, s) = f[c] + Sum(f, s \ {c})
    <3>1. First(s) \in s
      BY FirstIn
    <3>2. QED
      BY <3>1, SumFirst
  <2>3. CASE y = c
    BY <2>2, <2>3
  <2>4. CASE y # c
    <3>1. Sum(f, s \ {c}) = f[y] + Sum(f, (s \ {c}) \ {y})
      BY <1>3, <2>4
    <3>2. Sum(f, s \ {y}) = f[c] + Sum(f, (s \ {y}) \ {c})
      BY <1>3, <2>4
    <3>3. (s \ {c}) \ {y} = (s \ {y}) \ {c}
      OBVIOUS
    <3>4. f[y] \in Nat /\ f[c] \in Nat /\ Sum(f, (s \ {y}) \ {c}) \in Nat
      BY <1>1
    <3>5. PICK a \in Nat, b \in Nat, d \in Nat :
            /\ a = f[y] /\ b = f[c] /\ d = Sum(f, (s \ {y}) \ {c})
      BY <3>4
    <3>6. Sum(f, s) = b + (a + d)
      BY <2>2, <3>1, <3>3, <3>5
    <3>7. f[y] + Sum(f, s \ {y}) = a + (b + d)
      BY <3>2, <3>5
    <3>8. QED
      BY <3>6, <3>7
  <2>5. QED
    BY <2>3, <2>4
<1>4. \A s \in SUBSET U : s \in A
  <2> HIDE DEF A
  <2>1. QED
    BY <1>2, <1>3, SetInduction
<1>5. QED
  BY <1>4

(* Only the values on the set count.                                       *)
LEMMA SumEqual ==
  ASSUME NEW U, IsFiniteSet(U), NEW f \in [U -> Nat], NEW g \in [U -> Nat],
         NEW S \in SUBSET U, \A x \in S : f[x] = g[x]
  PROVE  Sum(f, S) = Sum(g, S)
<1> DEFINE A == {s \in SUBSET U : s \subseteq S => Sum(f, s) = Sum(g, s)}
<1>1. {} \in A
  BY SumFirst
<1>2. ASSUME NEW s \in SUBSET U, s # {}, \A y \in s : s \ {y} \in A
      PROVE  s \in A
  <2>1. SUFFICES ASSUME s \subseteq S PROVE Sum(f, s) = Sum(g, s)
    OBVIOUS
  <2>2. PICK y \in s : TRUE
    BY <1>2
  <2>3. Sum(f, s) = f[y] + Sum(f, s \ {y}) /\ Sum(g, s) = g[y] + Sum(g, s \ {y})
    BY SumRemove
  <2>4. Sum(f, s \ {y}) = Sum(g, s \ {y}) /\ f[y] = g[y]
    BY <1>2, <2>1
  <2>5. QED
    BY <2>3, <2>4
<1>3. \A s \in SUBSET U : s \in A
  <2> HIDE DEF A
  <2>1. QED
    BY <1>1, <1>2, SetInduction
<1>4. QED
  BY <1>3

(* One summand more.                                                       *)
LEMMA SumRaise ==
  ASSUME NEW U, IsFiniteSet(U), NEW f \in [U -> Nat], NEW g \in [U -> Nat],
         NEW x \in U, NEW d \in Nat, g[x] = f[x] + d, \A y \in U \ {x} : f[y] = g[y]
  PROVE  Sum(g, U) = Sum(f, U) + d
<1>1. Sum(f, U) = f[x] + Sum(f, U \ {x})
  BY SumRemove
<1>2. Sum(g, U) = g[x] + Sum(g, U \ {x})
  BY SumRemove
<1>3. U \ {x} \in SUBSET U
  OBVIOUS
<1>4. Sum(f, U \ {x}) = Sum(g, U \ {x})
  BY <1>3, SumEqual
<1>5. PICK a \in Nat, b \in Nat : a = f[x] /\ b = Sum(f, U \ {x})
  BY <1>3, SumFirst
<1>6. Sum(f, U) = a + b /\ Sum(g, U) = (a + d) + b
  BY <1>1, <1>2, <1>4, <1>5
<1>7. QED
  BY <1>6

(* A part of a set adds up to no more.                                     *)
LEMMA SumGrows ==
  ASSUME NEW U, IsFiniteSet(U), NEW f \in [U -> Nat], NEW T \in SUBSET U, NEW S \in SUBSET T
  PROVE  Sum(f, S) <= Sum(f, T)
<1> DEFINE A == {t \in SUBSET U : \A s \in SUBSET t : Sum(f, s) <= Sum(f, t)}
<1>1. \A s \in SUBSET U : Sum(f, s) \in Nat
  BY SumFirst
<1>2. {} \in A
  BY <1>1
<1>3. ASSUME NEW t \in SUBSET U, t # {}, \A y \in t : t \ {y} \in A
      PROVE  t \in A
  <2>1. SUFFICES ASSUME NEW s \in SUBSET t PROVE Sum(f, s) <= Sum(f, t)
    OBVIOUS
  <2>2. CASE s = t
    BY <1>1, <2>2
  <2>3. CASE s # t
    <3>1. PICK y \in t : y \notin s
      BY <2>3
    <3>2. s \in SUBSET (t \ {y})
      BY <3>1
    <3>3. Sum(f, s) <= Sum(f, t \ {y})
      BY <1>3, <3>2
    <3>4. Sum(f, t) = f[y] + Sum(f, t \ {y})
      BY SumRemove
    <3>5. PICK a \in Nat, b \in Nat, d \in Nat : a = f[y] /\ b = Sum(f, t \ {y}) /\ d = Sum(f, s)
      BY <1>1
    <3>6. d <= b /\ Sum(f, t) = a + b
      BY <3>3, <3>4, <3>5
    <3>7. QED
      BY <3>5, <3>6
  <2>4. QED
    BY <2>2, <2>3
<1>4. \A t \in SUBSET U : t \in A
  <2> HIDE DEF A
  <2>1. QED
    BY <1>2, <1>3, SetInduction
<1>5. QED
  BY <1>4

(* Nothing but zeros.                                                      *)
LEMMA SumOfZeros ==
  ASSUME NEW U, IsFiniteSet(U), NEW f \in [U -> Nat], \A x \in U : f[x] = 0
  PROVE  Sum(f, U) = 0
<1> DEFINE A == {s \in SUBSET U : Sum(f, s) = 0}
<1>1. {} \in A
  BY SumFirst
<1>2. ASSUME NEW s \in SUBSET U, s # {}, \A y \in s : s \ {y} \in A
      PROVE  s \in A
  <2>1. PICK y \in s : TRUE
    BY <1>2
  <2>2. Sum(f, s) = f[y] + Sum(f, s \ {y})
    BY SumRemove
  <2>3. Sum(f, s \ {y}) = 0 /\ f[y] = 0
    BY <1>2
  <2>4. QED
    BY <2>2, <2>3
<1>3. \A s \in SUBSET U : s \in A
  <2> HIDE DEF A
  <2>1. QED
    BY <1>1, <1>2, SetInduction
<1>4. QED
  BY <1>3

(* What the members of s that k sorts under o add up to.                   *)
Share(f, k, s, o) == Sum(f, {v \in s : k[v] = o})
Shares(f, k, K, s) == [o \in K |-> Share(f, k, s, o)]

LEMMA SharesType ==
  ASSUME NEW U, IsFiniteSet(U), NEW f \in [U -> Nat], NEW k, NEW K, NEW s \in SUBSET U
  PROVE  Shares(f, k, K, s) \in [K -> Nat]
<1>1. ASSUME NEW o PROVE Share(f, k, s, o) \in Nat
  <2>1. {v \in s : k[v] = o} \in SUBSET U
    OBVIOUS
  <2>2. QED
    BY <2>1, SumFirst DEF Share
<1>2. QED
  BY <1>1 DEF Shares

(* What is sorted by kind sums up to the same, if nothing is lost.         *)
LEMMA SumOfShares ==
  ASSUME NEW U, IsFiniteSet(U), NEW f \in [U -> Nat], NEW K, IsFiniteSet(K), NEW k,
         \A v \in U : k[v] \in K \/ f[v] = 0
  PROVE  Sum(Shares(f, k, K, U), K) = Sum(f, U)
<1> DEFINE A == {s \in SUBSET U : Sum(Shares(f, k, K, s), K) = Sum(f, s)}
<1>1. {} \in A
  <2>1. \A o \in K : {v \in {} : k[v] = o} = {}
    OBVIOUS
  <2>2. \A o \in K : Share(f, k, {}, o) = 0
    BY <2>1, SumFirst DEF Share
  <2>3. \A o \in K : Shares(f, k, K, {})[o] = 0
    BY <2>2 DEF Shares
  <2>4. Shares(f, k, K, {}) \in [K -> Nat]
    BY SharesType
  <2>5. Sum(Shares(f, k, K, {}), K) = 0
    BY <2>3, <2>4, SumOfZeros
  <2>6. Sum(f, {}) = 0
    BY SumFirst
  <2>7. QED
    BY <2>5, <2>6
<1>2. ASSUME NEW s \in SUBSET U, s # {}, \A y \in s : s \ {y} \in A
      PROVE  s \in A
  <2>1. PICK y \in s : TRUE
    BY <1>2
  <2> DEFINE t == s \ {y}
  <2>2. t \in SUBSET U /\ Sum(Shares(f, k, K, t), K) = Sum(f, t)
    BY <1>2, <2>1
  <2>3. f[y] \in Nat /\ Sum(f, t) \in Nat /\ Sum(f, s) = f[y] + Sum(f, t)
    BY <2>2, SumFirst, SumRemove
  <2>4. Shares(f, k, K, s) \in [K -> Nat] /\ Shares(f, k, K, t) \in [K -> Nat]
    BY <2>2, SharesType
  <2>5. \A o : o # k[y] => Share(f, k, s, o) = Share(f, k, t, o)
    <3>1. \A o : o # k[y] => {v \in s : k[v] = o} = {v \in t : k[v] = o}
      OBVIOUS
    <3>2. QED
      BY <3>1 DEF Share
  <2>6. Share(f, k, s, k[y]) = f[y] + Share(f, k, t, k[y])
    <3> DEFINE W == {v \in s : k[v] = k[y]}
    <3>1. W \in SUBSET U /\ y \in W
      OBVIOUS
    <3>2. {v \in t : k[v] = k[y]} = W \ {y}
      OBVIOUS
    <3>3. Sum(f, W) = f[y] + Sum(f, W \ {y})
      <4> HIDE DEF W
      <4>1. QED
        BY <3>1, SumRemove
    <3>4. QED
      BY <3>2, <3>3 DEF Share
  <2>7. CASE k[y] \in K
    <3>1. \A o \in K \ {k[y]} : Shares(f, k, K, t)[o] = Shares(f, k, K, s)[o]
      BY <2>5 DEF Shares
    <3>2. Shares(f, k, K, s)[k[y]] = f[y] + Shares(f, k, K, t)[k[y]]
      BY <2>6, <2>7 DEF Shares
    <3>3. PICK p \in [K -> Nat], q \in [K -> Nat], d \in Nat, x \in K :
            /\ p = Shares(f, k, K, t) /\ q = Shares(f, k, K, s) /\ d = f[y] /\ x = k[y]
      BY <2>3, <2>4, <2>7
    <3>4. p \in [K -> Nat] /\ q \in [K -> Nat] /\ \A o \in K \ {x} : p[o] = q[o]
      BY <2>4, <3>1, <3>3
    <3>5. q[x] = p[x] + d
      <4>1. q[x] = d + p[x] /\ p[x] \in Nat
        BY <3>2, <3>3, <3>4
      <4>2. QED
        BY <4>1
    <3>6. Sum(q, K) = Sum(p, K) + d
      BY <3>4, <3>5, SumRaise
    <3>7. PICK n \in Nat : n = Sum(f, t)
      BY <2>3
    <3>8. Sum(q, K) = n + d /\ Sum(f, s) = d + n
      BY <2>2, <2>3, <3>3, <3>6, <3>7
    <3>9. QED
      BY <3>3, <3>8
  <2>8. CASE k[y] \notin K
    <3>1. Shares(f, k, K, s) = Shares(f, k, K, t)
      BY <2>5, <2>8 DEF Shares
    <3>2. f[y] = 0
      BY <2>8
    <3>3. Sum(f, s) = Sum(f, t)
      BY <2>3, <3>2
    <3>4. QED
      BY <2>2, <3>1, <3>3
  <2>9. QED
    BY <2>7, <2>8
<1>3. \A s \in SUBSET U : s \in A
  <2> HIDE DEF A
  <2>1. QED
    BY <1>1, <1>2, SetInduction
<1>4. QED
  BY <1>3
-----------------------------------------------------------------------------
(* Governance.                                                             *)

GovernanceTypeOK ==
  /\ epoch \in 0..LastEpoch
  /\ ballot \in [Proposal -> [Voter -> Seq(Option)]]
  /\ vote = [p \in Proposal |-> vote[p]]
  /\ vs \in [pc : {"idle", "find", "weigh", "store"},
             votes : [Proposal -> [Voter -> Option \cup {None}]],
             listed : SUBSET Proposal, todo : SUBSET Proposal,
             power : [Voter -> Nat], left : SUBSET Voter]

(* Every row and every vote a pass has read was cast.                      *)
CastInv ==
  /\ \A p \in Proposal : \A v \in DOMAIN vote[p] :
       v \in Voter /\ vote[p][v].option \in Range(ballot[p][v])
  /\ \A p \in Proposal, v \in Voter :
       vs.votes[p][v] # None => vs.votes[p][v] \in Range(ballot[p][v])

(* A pass has read the vote of everyone who has a row.                     *)
ReadInv ==
  vs.pc # "idle" => \A p \in Proposal : DOMAIN vote[p] \subseteq Voted(vs.votes[p])

(* The rows of p are those of its voters and share one total, their own.   *)
Whole(p) ==
  /\ DOMAIN vote[p] = Voted(vs.votes[p])
  /\ \A v \in DOMAIN vote[p] : vote[p][v].of = Total(Amounts(p))

DoneInv ==
  vs.pc \in {"weigh", "store"} => \A p \in vs.listed \ vs.todo : Whole(p)

(* In the middle of a proposal the rows that are written carry the weights *)
(* of this pass, and nobody else weighs anything.                          *)
StoreInv ==
  vs.pc = "store" =>
    /\ vs.todo # {} /\ vs.left # {}
    /\ vs.left \subseteq Voted(vs.votes[Max(vs.todo)])
    /\ \A v \in Voter : vs.votes[Max(vs.todo)][v] = None => vs.power[v] = 0
    /\ \A v \in Voted(vs.votes[Max(vs.todo)]) \ vs.left :
         /\ v \in DOMAIN vote[Max(vs.todo)]
         /\ vote[Max(vs.todo)][v].amount = vs.power[v]
         /\ vote[Max(vs.todo)][v].of = Total(vs.power)

GovernanceInv == GovernanceTypeOK /\ CastInv /\ ReadInv /\ DoneInv /\ StoreInv
-----------------------------------------------------------------------------
(* A finite set of numbers has an upper bound.                             *)
LEMMA FiniteBound ==
  ASSUME NEW S \in SUBSET Nat, IsFiniteSet(S)
  PROVE  \E b \in Nat : \A x \in S : x <= b
<1>1. PICK n \in Nat : ExistsSurjection(1..n, S)
  BY FS_NatSurjection
<1>2. PICK f \in [1..n -> S] : \A x \in S : \E i \in 1..n : f[i] = x
  BY <1>1 DEF ExistsSurjection, Surjection
<1> DEFINE T == {k \in 0..n : \A b \in Nat : \E i \in 1..k : ~(f[i] <= b)}
<1>3. T = {}
  <2>1. SUFFICES ASSUME T # {} PROVE FALSE
    OBVIOUS
  <2>2. PICK k \in T : \A j \in T : <<j, k>> \notin OpToRel(<, Nat)
    <3>1. T \subseteq Nat
      BY <1>1
    <3>2. QED
      BY <2>1, <3>1, WFMin, NatLessThanWellFounded
  <2>3. k \in 0..n /\ k # 0
    <3>1. 1..0 = {}
      OBVIOUS
    <3>2. QED
      BY <2>2, <3>1
  <2>4. k - 1 \in 0..n /\ k - 1 \in Nat /\ k \in Nat /\ k \in 1..n
    BY <1>1, <2>3
  <2>5. k - 1 \notin T
    <3>1. <<k - 1, k>> \in OpToRel(<, Nat)
      BY <2>4 DEF OpToRel
    <3>2. QED
      BY <2>2, <3>1
  <2>6. PICK b \in Nat : \A i \in 1..(k - 1) : f[i] <= b
    BY <2>4, <2>5
  <2>7. \A i \in 1..k : f[i] \in Nat
    <3>1. 1..k \subseteq 1..n
      BY <1>1, <2>4
    <3>2. QED
      BY <1>2, <3>1
  <2>8. b + f[k] \in Nat /\ \A i \in 1..k : f[i] <= b + f[k]
    <3>1. f[k] \in Nat
      BY <2>4, <2>7
    <3>2. ASSUME NEW i \in 1..k PROVE f[i] <= b + f[k]
      <4>1. f[i] \in Nat /\ (i \in 1..(k - 1) \/ i = k)
        BY <2>4, <2>7
      <4>2. f[i] <= b \/ f[i] = f[k]
        BY <2>6, <4>1
      <4>3. QED
        BY <3>1, <4>1, <4>2
    <3>3. QED
      BY <3>1, <3>2
  <2>9. QED
    BY <2>2, <2>8
<1>4. n \in 0..n /\ n \notin T
  <2> HIDE DEF T
  <2>1. n \in 0..n
    BY <1>1
  <2>2. QED
    BY <1>3, <2>1
<1>5. PICK b \in Nat : \A i \in 1..n : f[i] <= b
  BY <1>4
<1>6. QED
  BY <1>2, <1>5

(* Proposals are weighed from the newest on.                               *)
LEMMA NewestExists ==
  ASSUME NEW S \in SUBSET Proposal, S # {}
  PROVE  Max(S) \in S
<1>1. PICK b \in Nat : \A x \in Proposal : x <= b
  BY FiniteBound, ProposalAssumption
<1>2. S \in SUBSET Int /\ \A x \in S : x <= b
  BY <1>1, ProposalAssumption
<1>3. QED
  <2>1. b \in Int
    OBVIOUS
  <2>2. QED
    BY <1>2, <2>1, GreatestExists

LEMMA VsIdleType ==
  VsIdle \in [pc : {"idle", "find", "weigh", "store"},
              votes : [Proposal -> [Voter -> Option \cup {None}]],
              listed : SUBSET Proposal, todo : SUBSET Proposal,
              power : [Voter -> Nat], left : SUBSET Voter]
BY DEF VsIdle, NoVotes

LEMMA VsIdleHasNoVotes ==
  \A p \in Proposal, v \in Voter : VsIdle.votes[p][v] = None
BY DEF VsIdle, NoVotes

(* The latest vote of v is one v has cast.                                 *)
LEMMA VotesFacts ==
  ASSUME GovernanceTypeOK, NEW p \in Proposal
  PROVE  /\ Votes(p) \in [Voter -> Option \cup {None}]
         /\ \A v \in Voter : Votes(p)[v] # None <=> ballot[p][v] # <<>>
         /\ \A v \in Voter : Votes(p)[v] # None => Votes(p)[v] \in Range(ballot[p][v])
<1>1. \A v \in Voter : /\ ballot[p][v] \in Seq(Option)
                       /\ Votes(p)[v] = IF ballot[p][v] = <<>> THEN None
                                        ELSE ballot[p][v][Len(ballot[p][v])]
  BY DEF GovernanceTypeOK, Votes
<1>2. ASSUME NEW v \in Voter, ballot[p][v] # <<>>
      PROVE  /\ Len(ballot[p][v]) \in DOMAIN ballot[p][v]
             /\ ballot[p][v][Len(ballot[p][v])] \in Option
  <2>1. ballot[p][v] \in Seq(Option)
    BY <1>1
  <2>2. QED
    BY <1>2, <2>1
<1>3. \A v \in Voter : ballot[p][v] # <<>> =>
        Votes(p)[v] \in Option /\ Votes(p)[v] \in Range(ballot[p][v])
  BY <1>1, <1>2 DEF Range
<1>4. \A v \in Voter : Votes(p)[v] \in Option \cup {None}
  BY <1>1, <1>3
<1>5. QED
  BY <1>1, <1>3, <1>4, OptionAssumption DEF Votes

LEMMA GovernanceStarts == GovernanceInit => GovernanceInv
<1> SUFFICES ASSUME GovernanceInit PROVE GovernanceInv
  OBVIOUS
<1>1. /\ ballot = [p \in Proposal |-> [v \in Voter |-> <<>>]]
      /\ vote = [p \in Proposal |-> NoRows] /\ vs = VsIdle /\ epoch = 0
  BY DEF GovernanceInit
<1>2. GovernanceTypeOK
  BY <1>1, VsIdleType, ProposalAssumption DEF GovernanceTypeOK
<1>3. \A p \in Proposal : DOMAIN vote[p] = {}
  BY <1>1 DEF NoRows
<1>4. CastInv
  BY <1>1, <1>3, VsIdleHasNoVotes DEF CastInv
<1>5. vs.pc = "idle"
  BY <1>1 DEF VsIdle
<1>6. QED
  BY <1>2, <1>4, <1>5 DEF GovernanceInv, ReadInv, DoneInv, StoreInv

(* Steps that leave VoteSync and its table alone, and take no vote away.   *)
LEMMA BallotKeeps ==
  ASSUME GovernanceInv, UNCHANGED <<vote, vs>>, epoch' \in 0..LastEpoch,
         ballot' \in [Proposal -> [Voter -> Seq(Option)]],
         \A p \in Proposal, v \in Voter : Range(ballot[p][v]) \subseteq Range(ballot'[p][v])
  PROVE  GovernanceInv'
<1>1. GovernanceTypeOK'
  BY DEF GovernanceInv, GovernanceTypeOK
<1>2. CastInv'
  BY DEF GovernanceInv, CastInv
<1>3. ReadInv' /\ StoreInv'
  BY DEF GovernanceInv, ReadInv, StoreInv
<1>4. DoneInv'
  BY DEF GovernanceInv, DoneInv, Whole, Amounts
<1>5. QED
  BY <1>1, <1>2, <1>3, <1>4 DEF GovernanceInv

(* The pass ends.                                                          *)
LEMMA PassEnds ==
  ASSUME GovernanceInv, vs' = VsIdle, UNCHANGED <<epoch, ballot, vote>>
  PROVE  GovernanceInv'
<1>1. GovernanceTypeOK'
  BY VsIdleType DEF GovernanceInv, GovernanceTypeOK
<1>2. CastInv'
  BY VsIdleHasNoVotes DEF GovernanceInv, CastInv
<1>3. vs'.pc = "idle"
  BY DEF VsIdle
<1>4. QED
  BY <1>1, <1>2, <1>3 DEF GovernanceInv, ReadInv, DoneInv, StoreInv

LEMMA CastKeeps ==
  ASSUME GovernanceInv, NEW p \in Proposal, NEW v \in Voter, NEW o \in Option, Cast(p, v, o)
  PROVE  GovernanceInv'
<1>1. /\ UNCHANGED <<vote, vs, epoch>> /\ ballot \in [Proposal -> [Voter -> Seq(Option)]]
      /\ epoch \in 0..LastEpoch
      /\ ballot' = [ballot EXCEPT ![p] = [ballot[p] EXCEPT ![v] = Append(ballot[p][v], o)]]
  BY DEF Cast, GovernanceInv, GovernanceTypeOK
<1> DEFINE s == ballot[p][v]
<1>2. s \in Seq(Option)
  BY <1>1
<1>3. Append(s, o) \in Seq(Option) /\ Range(s) \subseteq Range(Append(s, o))
  <2>1. \A i \in DOMAIN s : i \in DOMAIN Append(s, o) /\ Append(s, o)[i] = s[i]
    BY <1>2
  <2>2. QED
    BY <1>2, <2>1 DEF Range
<1> HIDE DEF s
<1>4. ballot' \in [Proposal -> [Voter -> Seq(Option)]]
  BY <1>1, <1>3 DEF s
<1>5. \A q \in Proposal, w \in Voter : Range(ballot[q][w]) \subseteq Range(ballot'[q][w])
  <2>1. TAKE q \in Proposal, w \in Voter
  <2>2. ballot'[q][w] = IF q = p /\ w = v THEN Append(s, o) ELSE ballot[q][w]
    BY <1>1 DEF s
  <2>3. QED
    BY <1>3, <2>2 DEF s
<1>6. QED
  BY <1>1, <1>4, <1>5, BallotKeeps

LEMMA ReadHeightKeeps ==
  ASSUME GovernanceInv, ReadHeight
  PROVE  GovernanceInv'
<1>1. /\ UNCHANGED <<epoch, ballot, vote>> /\ GovernanceTypeOK /\ CastInv
      /\ vs' = [vs EXCEPT !.pc = "find", !.votes = [p \in Proposal |-> Votes(p)]]
  BY DEF ReadHeight, GovernanceInv
<1>2. /\ vs'.pc = "find" /\ \A p \in Proposal : vs'.votes[p] = Votes(p)
  BY <1>1 DEF GovernanceTypeOK
<1>3. [p \in Proposal |-> Votes(p)] \in [Proposal -> [Voter -> Option \cup {None}]]
  BY <1>1, VotesFacts
<1>4. GovernanceTypeOK'
  BY <1>1, <1>3 DEF GovernanceTypeOK
<1>5. CastInv'
  <2>1. \A p \in Proposal, v \in Voter :
          vs'.votes[p][v] # None => vs'.votes[p][v] \in Range(ballot[p][v])
    BY <1>1, <1>2, VotesFacts
  <2>2. QED
    BY <1>1, <2>1 DEF CastInv
<1>6. ReadInv'
  <2>1. ASSUME NEW p \in Proposal, NEW v \in DOMAIN vote[p]
        PROVE  v \in Voted(Votes(p))
    <3>1. v \in Voter /\ vote[p][v].option \in Range(ballot[p][v])
      BY <1>1 DEF CastInv
    <3>2. ballot[p][v] # <<>>
      BY <3>1 DEF Range
    <3>3. QED
      BY <1>1, <3>1, <3>2, VotesFacts DEF Voted
  <2>2. QED
    BY <1>1, <1>2, <2>1 DEF ReadInv
<1>7. QED
  BY <1>2, <1>4, <1>5, <1>6 DEF GovernanceInv, DoneInv, StoreInv

LEMMA FindKeeps ==
  ASSUME GovernanceInv, FindAllProposals
  PROVE  GovernanceInv'
<1>1. /\ UNCHANGED <<epoch, ballot, vote>> /\ vs.pc = "find"
      /\ vs' = [vs EXCEPT !.pc = "weigh", !.listed = Rows, !.todo = Rows]
  BY DEF FindAllProposals
<1>2. GovernanceTypeOK'
  BY <1>1 DEF Rows, GovernanceInv, GovernanceTypeOK
<1>3. vs'.pc = "weigh" /\ vs'.listed = Rows /\ vs'.todo = Rows /\ vs'.votes = vs.votes
  BY <1>1 DEF GovernanceInv, GovernanceTypeOK
<1>4. CastInv' /\ ReadInv'
  BY <1>1, <1>3 DEF GovernanceInv, CastInv, ReadInv
<1>5. DoneInv' /\ StoreInv'
  BY <1>3 DEF DoneInv, StoreInv
<1>6. QED
  BY <1>2, <1>4, <1>5 DEF GovernanceInv

(* A proposal is done without a row: nobody has voted.                     *)
LEMMA WeighKeeps ==
  ASSUME GovernanceInv, NEW e \in 0..LastEpoch, Weigh(e)
  PROVE  GovernanceInv'
<1> DEFINE p == Max(vs.todo)
           power == Power(vs.votes[p], e)
<1>1. /\ vs.pc = "weigh" /\ vs.todo # {} /\ UNCHANGED <<epoch, ballot, vote>>
      /\ vs' = IF Voted(vs.votes[p]) = {} THEN NextProposal(p)
               ELSE IF Total(power) = 0 THEN VsIdle
               ELSE [vs EXCEPT !.pc = "store", !.power = power, !.left = Voted(vs.votes[p])]
  BY DEF Weigh
<1>2. GovernanceTypeOK /\ CastInv /\ ReadInv /\ DoneInv
  BY DEF GovernanceInv
<1>3. p \in vs.todo /\ p \in Proposal
  BY <1>1, <1>2, NewestExists DEF GovernanceTypeOK
<1>4. power \in [Voter -> Nat] /\ \A v \in Voter : vs.votes[p][v] = None => power[v] = 0
  BY <1>2, <1>3, ProposalAssumption DEF Power, GovernanceTypeOK
<1> HIDE DEF p, power
<1>5. CASE Voted(vs.votes[p]) = {}
  <2>1. vs' = [vs EXCEPT !.pc = "weigh", !.todo = @ \ {p}, !.power = VsIdle.power, !.left = {}]
    BY <1>1, <1>5 DEF NextProposal
  <2>2. VsIdle.power \in [Voter -> Nat]
    BY DEF VsIdle
  <2>3. GovernanceTypeOK'
    BY <1>1, <1>2, <2>1, <2>2 DEF GovernanceTypeOK
  <2>4. /\ vs'.pc = "weigh" /\ vs'.votes = vs.votes /\ vs'.listed = vs.listed
        /\ vs'.todo = vs.todo \ {p}
    BY <1>2, <2>1 DEF GovernanceTypeOK
  <2>5. CastInv' /\ ReadInv'
    BY <1>1, <1>2, <2>4 DEF CastInv, ReadInv
  <2>6. DoneInv'
    <3>1. Whole(p)
      BY <1>1, <1>2, <1>3, <1>5 DEF ReadInv, Whole
    <3>2. \A q \in Proposal : Whole(q) => Whole(q)'
      BY <1>1, <2>4 DEF Whole, Amounts
    <3>3. \A q \in vs.listed \ vs.todo : Whole(q)
      BY <1>1, <1>2 DEF DoneInv
    <3>4. vs.listed \subseteq Proposal
      BY <1>2 DEF GovernanceTypeOK
    <3>5. QED
      BY <2>4, <3>1, <3>2, <3>3, <3>4 DEF DoneInv
  <2>7. QED
    BY <2>3, <2>4, <2>5, <2>6 DEF GovernanceInv, StoreInv
<1>6. CASE Voted(vs.votes[p]) # {} /\ Total(power) = 0
  BY <1>1, <1>6, PassEnds
<1>7. CASE Voted(vs.votes[p]) # {} /\ Total(power) # 0
  <2>1. vs' = [vs EXCEPT !.pc = "store", !.power = power, !.left = Voted(vs.votes[p])]
    BY <1>1, <1>7
  <2>2. Voted(vs.votes[p]) \in SUBSET Voter
    BY DEF Voted
  <2>3. GovernanceTypeOK'
    BY <1>1, <1>2, <1>4, <2>1, <2>2 DEF GovernanceTypeOK
  <2>4. /\ vs'.pc = "store" /\ vs'.votes = vs.votes /\ vs'.listed = vs.listed
        /\ vs'.todo = vs.todo /\ vs'.power = power /\ vs'.left = Voted(vs.votes[p])
    BY <1>2, <2>1 DEF GovernanceTypeOK
  <2>5. CastInv' /\ ReadInv'
    BY <1>1, <1>2, <2>4 DEF CastInv, ReadInv
  <2>6. DoneInv'
    BY <1>1, <1>2, <2>4 DEF DoneInv, Whole, Amounts
  <2>7. StoreInv'
    BY <1>1, <1>4, <1>7, <2>4 DEF StoreInv, p
  <2>8. QED
    BY <2>3, <2>5, <2>6, <2>7 DEF GovernanceInv
<1>8. QED
  BY <1>5, <1>6, <1>7

(* One row more.  After the last one the rows are those of this pass.      *)
LEMMA StoreKeeps ==
  ASSUME GovernanceInv, NEW v \in Voter, StoreVote(v)
  PROVE  GovernanceInv'
<1>p. PICK p : p = Max(vs.todo)
  OBVIOUS
<1> DEFINE row == VoteRow(p, v)
<1>1. /\ vs.pc = "store" /\ v \in vs.left /\ UNCHANGED <<epoch, ballot>>
      /\ vote' = [vote EXCEPT ![p] = WithRow(p, v)]
      /\ vs' = IF vs.left = {v} THEN NextProposal(p) ELSE [vs EXCEPT !.left = @ \ {v}]
  BY <1>p DEF StoreVote
<1>2. GovernanceTypeOK /\ CastInv /\ ReadInv /\ DoneInv /\ StoreInv
  BY DEF GovernanceInv
<1>3. /\ vs.todo # {} /\ vs.left \subseteq Voted(vs.votes[p])
      /\ \A w \in Voter : vs.votes[p][w] = None => vs.power[w] = 0
      /\ \A w \in Voted(vs.votes[p]) \ vs.left :
           /\ w \in DOMAIN vote[p]
           /\ vote[p][w].amount = vs.power[w] /\ vote[p][w].of = Total(vs.power)
  BY <1>p, <1>1, <1>2 DEF StoreInv
<1>4. p \in vs.todo /\ p \in Proposal
  BY <1>p, <1>2, <1>3, NewestExists DEF GovernanceTypeOK
<1>5. vote = [q \in Proposal |-> vote[q]]
  BY <1>2 DEF GovernanceTypeOK
<1>6. \A q \in Proposal : vote'[q] = IF q = p THEN WithRow(p, v) ELSE vote[q]
  BY <1>1, <1>5
<1>7. /\ DOMAIN vote'[p] = DOMAIN vote[p] \cup {v}
      /\ \A w \in DOMAIN vote'[p] : vote'[p][w] = IF w = v THEN row ELSE vote[p][w]
  BY <1>4, <1>6 DEF WithRow
<1>8. /\ row.amount = vs.power[v] /\ row.of = Total(vs.power)
      /\ row.option = IF v \in DOMAIN vote[p] THEN vote[p][v].option ELSE vs.votes[p][v]
  BY DEF VoteRow
<1> HIDE DEF row
<1>9. v \in Voted(vs.votes[p]) /\ vs.votes[p][v] # None
  BY <1>1, <1>3 DEF Voted
<1>10. /\ vs'.votes = vs.votes /\ vs'.listed = vs.listed /\ vs'.pc # "idle"
       /\ GovernanceTypeOK'
  <2>1. vote' = [q \in Proposal |-> vote'[q]]
    BY <1>1, <1>5
  <2>2. VsIdle.power \in [Voter -> Nat]
    BY DEF VsIdle
  <2>3. \/ vs' = [vs EXCEPT !.pc = "weigh", !.todo = @ \ {p}, !.power = VsIdle.power, !.left = {}]
        \/ vs' = [vs EXCEPT !.left = @ \ {v}]
    BY <1>p, <1>1 DEF NextProposal
  <2>4. /\ vs'.votes = vs.votes /\ vs'.listed = vs.listed /\ vs'.pc # "idle"
        /\ vs' \in [pc : {"idle", "find", "weigh", "store"},
                    votes : [Proposal -> [Voter -> Option \cup {None}]],
                    listed : SUBSET Proposal, todo : SUBSET Proposal,
                    power : [Voter -> Nat], left : SUBSET Voter]
    <3>1. CASE vs' = [vs EXCEPT !.pc = "weigh", !.todo = @ \ {p}, !.power = VsIdle.power,
                                !.left = {}]
      BY <1>2, <2>2, <3>1 DEF GovernanceTypeOK
    <3>2. CASE vs' = [vs EXCEPT !.left = @ \ {v}]
      BY <1>1, <1>2, <3>2 DEF GovernanceTypeOK
    <3>3. QED
      BY <2>3, <3>1, <3>2
  <2>5. QED
    BY <1>1, <1>2, <2>1, <2>4 DEF GovernanceTypeOK
<1>11. CastInv'
  <2>1. ASSUME NEW q \in Proposal, NEW w \in DOMAIN vote'[q]
        PROVE  w \in Voter /\ vote'[q][w].option \in Range(ballot[q][w])
    <3>1. CASE q = p /\ w = v
      BY <1>2, <1>4, <1>7, <1>8, <1>9, <2>1, <3>1 DEF CastInv
    <3>2. CASE ~(q = p /\ w = v)
      <4>1. w \in DOMAIN vote[q] /\ vote'[q][w] = vote[q][w]
        BY <1>6, <1>7, <2>1, <3>2
      <4>2. QED
        BY <1>2, <4>1 DEF CastInv
    <3>3. QED
      BY <3>1, <3>2
  <2>2. QED
    BY <1>1, <1>2, <1>10, <2>1 DEF CastInv
<1>12. ReadInv'
  BY <1>1, <1>2, <1>6, <1>7, <1>9, <1>10 DEF ReadInv
<1>13. \A q \in vs.listed \ vs.todo : Whole(q)'
  <2>1. TAKE q \in vs.listed \ vs.todo
  <2>2. q \in Proposal /\ q # p /\ vote'[q] = vote[q]
    BY <1>2, <1>4, <1>6, <2>1 DEF GovernanceTypeOK
  <2>3. Whole(q)
    BY <1>1, <1>2, <2>1 DEF DoneInv
  <2>4. QED
    BY <1>10, <2>2, <2>3 DEF Whole, Amounts
<1>14. \A w \in Voted(vs.votes[p]) \ (vs.left \ {v}) :
         /\ w \in DOMAIN vote'[p]
         /\ vote'[p][w].amount = vs.power[w] /\ vote'[p][w].of = Total(vs.power)
  BY <1>3, <1>7, <1>8
<1>15. CASE vs.left = {v}
  <2>1. vs'.pc = "weigh" /\ vs'.todo = vs.todo \ {p}
    BY <1>1, <1>2, <1>15 DEF NextProposal, GovernanceTypeOK
  <2>2. DOMAIN vote'[p] = Voted(vs.votes[p])
    <3>1. DOMAIN vote[p] \subseteq Voted(vs.votes[p])
      BY <1>1, <1>2, <1>4 DEF ReadInv
    <3>2. QED
      BY <1>7, <1>9, <1>14, <1>15, <3>1
  <2>3. Amounts(p)' = vs.power
    <3>1. vs.power \in [Voter -> Nat]
      BY <1>2 DEF GovernanceTypeOK
    <3>2. \A w \in Voter : (IF w \in DOMAIN vote'[p] THEN vote'[p][w].amount ELSE 0) = vs.power[w]
      BY <1>3, <1>14, <1>15, <2>2 DEF Voted
    <3>3. Amounts(p)' = [w \in Voter |-> IF w \in DOMAIN vote'[p] THEN vote'[p][w].amount ELSE 0]
      BY DEF Amounts
    <3>4. QED
      BY <3>1, <3>2, <3>3
  <2>4. Whole(p)'
    BY <1>10, <1>14, <1>15, <2>2, <2>3 DEF Whole
  <2>5. DoneInv' /\ StoreInv'
    BY <1>10, <1>13, <2>1, <2>4 DEF DoneInv, StoreInv
  <2>6. QED
    BY <1>10, <1>11, <1>12, <2>5 DEF GovernanceInv
<1>16. CASE vs.left # {v}
  <2>1. /\ vs'.pc = "store" /\ vs'.todo = vs.todo /\ vs'.power = vs.power
        /\ vs'.left = vs.left \ {v}
    BY <1>1, <1>2, <1>16 DEF GovernanceTypeOK
  <2>2. vs'.left # {}
    BY <1>1, <1>16, <2>1
  <2>3. StoreInv'
    BY <1>p, <1>3, <1>10, <1>14, <2>1, <2>2 DEF StoreInv
  <2>4. DoneInv'
    BY <1>10, <1>13, <2>1 DEF DoneInv
  <2>5. QED
    BY <1>10, <1>11, <1>12, <2>3, <2>4 DEF GovernanceInv
<1>17. QED
  BY <1>15, <1>16

LEMMA GovernanceSteps ==
  ASSUME GovernanceInv, GovernanceNext
  PROVE  GovernanceInv'
<1>1. /\ epoch \in 0..LastEpoch /\ LastEpoch \in Nat
      /\ ballot \in [Proposal -> [Voter -> Seq(Option)]]
  BY ProposalAssumption DEF GovernanceInv, GovernanceTypeOK
<1>2. CASE NextEpoch
  <2>1. epoch' \in 0..LastEpoch /\ UNCHANGED <<ballot, vote, vs>>
    BY <1>1, <1>2 DEF NextEpoch
  <2>2. QED
    BY <1>1, <2>1, BallotKeeps
<1>3. CASE \E p \in Proposal, v \in Voter, o \in Option : Cast(p, v, o)
  BY <1>3, CastKeeps
<1>4. CASE \/ ProposalSync \/ ProposalSyncFails
           \/ \E p \in Proposal : SaveProposalEstimated(p)
  <2>1. UNCHANGED <<epoch, ballot, vote, vs>>
    BY <1>4 DEF ProposalSync, ListProposals, NoProposals, SaveProposal, ProposalSyncFails,
                SaveProposalEstimated
  <2>2. QED
    BY <1>1, <2>1, BallotKeeps
<1>5. CASE VoteSync
  <2>1. CASE VotesDone
    BY <2>1, PassEnds DEF VotesDone
  <2>2. CASE WeighVotes
    <3>1. Closes[Max(vs.todo)] \in Nat
      <4>1. vs.todo # {} /\ vs.todo \in SUBSET Proposal
        BY <2>2 DEF WeighVotes, GovernanceInv, GovernanceTypeOK
      <4>2. Max(vs.todo) \in Proposal
        BY <4>1, NewestExists
      <4>3. QED
        BY <4>2, ProposalAssumption
    <3>2. WeighedAt(Closes[Max(vs.todo)]) \in 0..LastEpoch
      BY <1>1, <3>1 DEF WeighedAt
    <3>3. QED
      BY <2>2, <3>2, WeighKeeps DEF WeighVotes
  <2>3. QED
    BY <1>5, <2>1, <2>2, ReadHeightKeeps, FindKeeps, StoreKeeps DEF VoteSync
<1>6. CASE WeighVotesAtGenesis
  <2>1. 0 \in 0..LastEpoch
    BY <1>1
  <2>2. QED
    BY <1>6, <2>1, WeighKeeps DEF WeighVotesAtGenesis
<1>7. CASE VoteSyncFails
  BY <1>7, PassEnds DEF VoteSyncFails
<1>8. QED
  BY <1>2, <1>3, <1>4, <1>5, <1>6, <1>7 DEF GovernanceNext

(* The page reads the votes as they are now, the table what they were.     *)
LEMMA AnswersNameVoters ==
  ASSUME GovernanceInv, NEW p \in Proposal, NEW t \in ProposalWithVotes(p)
  PROVE  DOMAIN vote[p] \subseteq Voted(t.votes)
<1>1. t.votes = Votes(p)
  <2>1. \A e : Tally(p, e).votes = Votes(p)
    BY DEF Tally
  <2>2. QED
    BY <2>1 DEF ProposalWithVotes
<1>2. ASSUME NEW v \in DOMAIN vote[p] PROVE v \in Voted(Votes(p))
  <2>1. v \in Voter /\ vote[p][v].option \in Range(ballot[p][v])
    BY DEF GovernanceInv, CastInv
  <2>2. ballot[p][v] # <<>>
    BY <2>1 DEF Range
  <2>3. QED
    BY <2>1, <2>2, VotesFacts DEF Voted, GovernanceInv
<1>3. QED
  BY <1>1, <1>2

(* Every vote is for one of the options, and who has not voted weighs      *)
(* nothing.                                                                *)
LEMMA AnswersAddUp ==
  ASSUME GovernanceInv, NEW p \in Proposal, NEW t \in ProposalWithVotes(p)
  PROVE  SumFunction(t.options) = Total(t.power)
<1>1. PICK e \in 0..LastEpoch : t = Tally(p, e)
  <2>1. WeighedAt(Created[p]) \in 0..LastEpoch /\ 0 \in 0..LastEpoch
    BY ProposalAssumption DEF WeighedAt
  <2>2. QED
    BY <2>1 DEF ProposalWithVotes
<1> DEFINE votes == Votes(p)
           power == Power(votes, e)
<1>2. power \in [Voter -> Nat] /\ \A v \in Voter : votes[v] \in Option \/ power[v] = 0
  BY ProposalAssumption, VotesFacts DEF Power, GovernanceInv
<1>3. t.power = power /\ t.options = [o \in Option |-> Weight(p, power, o)]
  BY <1>1 DEF Tally
<1>4. \A o : Weight(p, power, o) = Share(power, votes, Voter, o)
  BY DEF Weight, Share, Sum
<1>5. t.options = Shares(power, votes, Option, Voter)
  BY <1>3, <1>4 DEF Shares
<1> HIDE DEF votes, power
<1>6. Sum(Shares(power, votes, Option, Voter), Option) = Sum(power, Voter)
  BY <1>2, ProposalAssumption, OptionAssumption, SumOfShares
<1>7. SumFunction(t.options) = Sum(t.options, Option)
  <2>1. DOMAIN t.options = Option
    BY <1>5 DEF Shares
  <2>2. QED
    BY <2>1, SumOfFunction
<1>8. Total(t.power) = Sum(power, Voter)
  <2>1. DOMAIN power = Voter
    BY <1>2
  <2>2. QED
    BY <1>3, <2>1, SumOfFunction DEF Total
<1>9. QED
  BY <1>5, <1>6, <1>7, <1>8
-----------------------------------------------------------------------------
(* The jobs put together: no step of one subject touches the tables of     *)
(* another.                                                                *)
SnapshotsInv == DelegationInv /\ EscrowInv /\ GovernanceInv

LEMMA SnapshotsStart == Init => SnapshotsInv
BY DelegationStarts, EscrowStarts, GovernanceStarts DEF Init, SnapshotsInv

LEMMA DelegationsRest ==
  ASSUME DelegationInv, DelegationRests
  PROVE  DelegationInv'
<1>1. Len(ledger) \in Nat
  BY DEF DelegationInv, DelegationTypeOK
<1>2. QED
  BY <1>1, SnapshotStays DEF DelegationRests, DelegationInv, DelegationTypeOK

LEMMA EscrowRestsToo ==
  ASSUME EscrowInv, EscrowRests
  PROVE  EscrowInv'
BY WorldKeeps DEF EscrowRests, EscrowInv, EscrowTypeOK, EscrowPass

LEMMA GovernanceRestsToo ==
  ASSUME GovernanceInv, GovernanceRests
  PROVE  GovernanceInv'
BY BallotKeeps DEF GovernanceRests, GovernanceInv, GovernanceTypeOK

LEMMA SnapshotsStep ==
  ASSUME SnapshotsInv, [Next]_vars
  PROVE  SnapshotsInv'
<1> USE DEF SnapshotsInv
<1>1. CASE Governance(GovernanceNext)
  BY <1>1, GovernanceSteps, DelegationsRest, EscrowRestsToo DEF Governance
<1>2. CASE Delegation(DelegationNext)
  BY <1>2, DelegationSteps, GovernanceRestsToo, EscrowRestsToo DEF Delegation
<1>3. CASE Escrow(EscrowNext)
  BY <1>3, EscrowSteps, DelegationsRest, GovernanceRestsToo DEF Escrow
<1>4. CASE UNCHANGED vars
  <2>1. DelegationRests /\ EscrowRests /\ GovernanceRests
    BY <1>4 DEF vars, governanceVars, delegationVars, escrowVars, DelegationRests, EscrowRests,
                GovernanceRests
  <2>2. QED
    BY <2>1, DelegationsRest, EscrowRestsToo, GovernanceRestsToo
<1>5. QED
  BY <1>1, <1>2, <1>3, <1>4 DEF Next

LEMMA SnapshotsInvariance == Spec => []SnapshotsInv
BY SnapshotsStart, SnapshotsStep, PTL DEF Spec

(* The table delegator is never a mix of two heights, nor is it there half *)
(* copied, for every chain, every set of validators and every failure of   *)
(* DelegatorSync (validator_task.go:448).                                  *)
THEOREM TableCorrect == Spec => []TableIsOneSnapshot
<1>1. SnapshotsInv => TableIsOneSnapshot
  BY DEF SnapshotsInv, DelegationInv
<1>2. QED
  BY <1>1, SnapshotsInvariance, PTL

(* The history of a validator in table escrow_stats has one row per day,   *)
(* and its heights grow with its days, for every chain and every failure   *)
(* of EscrowStatsSync (validator_task.go:690).                             *)
THEOREM HistoryCorrect == Spec => []HeightsFollowDates
<1>1. SnapshotsInv => HeightsFollowDates
  BY DEF SnapshotsInv, EscrowInv
<1>2. QED
  BY <1>1, SnapshotsInvariance, PTL

(* When a pass of VoteSync is done with a proposal, its rows are those of  *)
(* its voters, and all share the one total that they add up to, for every  *)
(* ballot, stake, order of the statements and failure                      *)
(* (governance_task.go:186-224).                                           *)
THEOREM RowsCorrect == Spec => []RowsOfOnePass
<1>1. SnapshotsInv => RowsOfOnePass
  <2>1. SUFFICES ASSUME GovernanceInv, vs.pc = "weigh", NEW p \in vs.listed \ vs.todo
                 PROVE  /\ DOMAIN vote[p] = Voted(vs.votes[p])
                        /\ \A v \in DOMAIN vote[p] :
                             /\ vote[p][v].of = Total(Amounts(p))
                             /\ vote[p][v].option \in Range(ballot[p][v])
    BY DEF SnapshotsInv, RowsOfOnePass
  <2>2. Whole(p) /\ p \in Proposal /\ CastInv
    BY <2>1 DEF GovernanceInv, DoneInv, GovernanceTypeOK
  <2>3. QED
    BY <2>2 DEF Whole, CastInv
<1>2. QED
  BY <1>1, SnapshotsInvariance, PTL

(* The page of a proposal never misses a voter that the table names, and   *)
(* its options share out the whole weight of its votes                     *)
(* (governanceproposalwithvoteslogic.go:98-177).                           *)
THEOREM AnswersCorrect == Spec => []AnswersCoverTheTable
<1>1. SnapshotsInv => AnswersCoverTheTable
  BY AnswersNameVoters, AnswersAddUp DEF SnapshotsInv, AnswersCoverTheTable
<1>2. QED
  BY <1>1, SnapshotsInvariance, PTL
-----------------------------------------------------------------------------
(* RuntimeStats.                                                           *)

GainAt(r, e, c) == [h \in Height |-> Gain(Block[r][h], e, c)]

LEMMA TotalIsSum ==
  ASSUME NEW r, NEW e, NEW c, NEW H
  PROVE  TotalGain(r, e, c, H) = Sum(GainAt(r, e, c), H)
BY DEF TotalGain, Sum, GainAt, SumFunctionOnSet, FoldFunctionOnSet, MapThenSumSet

LEMMA FiniteImage ==
  ASSUME NEW D, IsFiniteSet(D), NEW f
  PROVE  IsFiniteSet({f[i] : i \in D})
<1> DEFINE T == {f[i] : i \in D}
           g == [i \in D |-> f[i]]
<1>1. g \in Surjection(D, T)
  BY DEF Surjection
<1> HIDE DEF T, g
<1>2. IsFiniteSet(T)
  BY <1>1, FS_Surjection
<1>3. QED
  BY <1>2 DEF T

BlockRecord ==
  [round : Nat, type : HeaderType,
   committee : Seq([node : Node, role : Role]), proposer : Node \cup {None}]

LEMMA BlockType ==
  \A r \in Runtime : \A h \in Height : Block[r][h] \in BlockRecord
<1>1. Block \in [Runtime -> [Height -> BlockRecord]]
  BY BlockAssumption DEF BlockRecord
<1>2. QED
  BY <1>1

LEMMA GainIsNumber ==
  ASSUME NEW r \in Runtime, NEW h \in Height, NEW e, NEW c \in Column
  PROVE  Gain(Block[r][h], e, c) \in Nat
<1> DEFINE b    == Block[r][h]
           mine == {i \in DOMAIN b.committee : EntityOf[b.committee[i].node] = e}
           name == [i \in mine |-> b.committee[i].node]
<1>1. b.committee \in Seq([node : Node, role : Role])
  BY BlockType DEF BlockRecord
<1>2. IsFiniteSet(DOMAIN b.committee)
  <2>1. Len(b.committee) \in Nat /\ DOMAIN b.committee = 1..Len(b.committee)
    BY <1>1
  <2>2. QED
    BY <2>1, FS_Interval
<1>3. \A D \in SUBSET DOMAIN b.committee : IsFiniteSet(D) /\ Cardinality(D) \in Nat
  BY <1>2, FS_Subset, FS_CardinalityType
<1>4. Cardinality({b.committee[i].node : i \in mine}) \in Nat
  <2>1. IsFiniteSet(mine)
    BY <1>3
  <2>2. {b.committee[i].node : i \in mine} = {name[i] : i \in mine}
    OBVIOUS
  <2>3. IsFiniteSet({name[i] : i \in mine})
    <3> HIDE DEF name, mine
    <3>1. QED
      BY <2>1, FiniteImage
  <2>4. QED
    BY <2>2, <2>3, FS_CardinalityType
<1>5. /\ Cardinality({i \in mine : b.committee[i].role = "worker"}) \in Nat
      /\ Cardinality({i \in mine : b.committee[i].role = "backup"}) \in Nat
      /\ Cardinality({i \in mine : b.committee[i].node = b.proposer}) \in Nat
  BY <1>3
<1>6. QED
  BY <1>4, <1>5 DEF Gain, Column

(* What is counted of the heights of a set.                                *)
LEMMA TotalFacts ==
  ASSUME NEW r \in Runtime, NEW e, NEW c \in Column
  PROVE  /\ \A H \in SUBSET Height : TotalGain(r, e, c, H) \in Nat
         /\ TotalGain(r, e, c, {}) = 0
         /\ \A G \in SUBSET Height : \A H \in SUBSET G :
              TotalGain(r, e, c, H) <= TotalGain(r, e, c, G)
         /\ \A H \in SUBSET Height : \A h \in Height \ H :
              TotalGain(r, e, c, H \cup {h}) = TotalGain(r, e, c, H) + Gain(Block[r][h], e, c)
<1> DEFINE U == Height
           f == GainAt(r, e, c)
<1>1. IsFiniteSet(U)
  BY HeightAssumption, FS_Interval DEF Height
<1>2. f \in [U -> Nat] /\ \A h \in U : f[h] = Gain(Block[r][h], e, c)
  BY GainIsNumber DEF GainAt
<1>3. \A H : TotalGain(r, e, c, H) = Sum(f, H)
  BY TotalIsSum
<1> HIDE DEF f, U
<1>4. \A H \in SUBSET U : Sum(f, H) \in Nat
  BY <1>1, <1>2, SumFirst
<1>5. Sum(f, {}) = 0
  BY <1>1, <1>2, SumFirst
<1>6. \A G \in SUBSET U : \A H \in SUBSET G : Sum(f, H) <= Sum(f, G)
  BY <1>1, <1>2, SumGrows
<1>7. ASSUME NEW H \in SUBSET U, NEW h \in U \ H
      PROVE  Sum(f, H \cup {h}) = Sum(f, H) + f[h]
  <2>1. H \cup {h} \in SUBSET U /\ h \in H \cup {h} /\ (H \cup {h}) \ {h} = H
    OBVIOUS
  <2>2. Sum(f, H \cup {h}) = f[h] + Sum(f, (H \cup {h}) \ {h})
    BY <1>1, <1>2, <2>1, SumRemove
  <2>3. f[h] \in Nat /\ Sum(f, H) \in Nat
    BY <1>2, <1>4
  <2>4. PICK a \in Nat, b \in Nat : a = f[h] /\ b = Sum(f, H)
    BY <2>3
  <2>5. Sum(f, H \cup {h}) = a + b
    BY <2>1, <2>2, <2>4
  <2>6. QED
    BY <2>4, <2>5
<1>8. QED
  BY <1>2, <1>3, <1>4, <1>5, <1>6, <1>7 DEF U
-----------------------------------------------------------------------------
(* The rounds the counters must have seen up to height k, and those they   *)
(* may have seen.                                                          *)
NewUpTo(r, k) == {h \in (Genesis + 1)..k : NewRound(r, h) /\ Counted(r, h)}
AllUpTo(r, k) == {h \in Genesis..k : Counted(r, h)}

AtLeast(r, k) ==
  \A e \in RowsOf[r], c \in Column :
    counters[r][e][c] >= TotalGain(r, e, c, NewUpTo(r, k))

AtMost(r) ==
  \A e \in Entities, c \in Column :
    counters[r][e][c] <= IF cursor[r] = None THEN 0 ELSE TotalGain(r, e, c, AllUpTo(r, cursor[r]))

Untouched(r) == \A e \in Entities, c \in Column : counters[r][e][c] = 0

(* A committed cursor has nothing behind it that is not counted.           *)
CursorInv ==
  \A r \in Runtime : cursor[r] # None => AtLeast(r, cursor[r]) /\ cursor[r] <= latest

(* Neither has the height a run is at, and the round the run compares with *)
(* is that of the height before, or none.                                  *)
JobInv ==
  /\ pc # "idle" => current \in Runtime /\ currentHeight <= latest
  /\ pc = "insertCursor" /\ late = 0 => cursor[current] = None
  /\ pc = "save" =>
       /\ scanHeight <= currentHeight
       /\ cursor[current] # None
       /\ AtLeast(current, scanHeight - 1)
       /\ currentRound # 0 =>
            /\ scanHeight > Genesis
            /\ Block[current][scanHeight - 1].type # "missing"
            /\ currentRound = Block[current][scanHeight - 1].round
       /\ late = 0 =>
            \/ scanHeight > cursor[current]
            \/ scanHeight = Genesis /\ cursor[current] = Genesis /\ Untouched(current)

(* Neither has the height of a transaction that is still undecided.        *)
SessionInv ==
  \A s \in inflight :
    /\ AtLeast(s.runtime, s.height - 1) /\ s.height <= latest
    /\ cursor[s.runtime] # None
    /\ s.height \in NewUpTo(s.runtime, s.height) => s.counts

(* Without a late COMMIT no height is counted twice.                       *)
OnceInv == late = 0 => inflight = {} /\ \A r \in Runtime : AtMost(r)

StatsInv == TypeOK /\ CursorInv /\ JobInv /\ SessionInv /\ OnceInv
-----------------------------------------------------------------------------
(* Heights are numbers, and None is none.                                  *)
LEMMA HeightFacts ==
  /\ Genesis \in Nat /\ Genesis >= 1 /\ MaxHeight \in Nat /\ Genesis <= MaxHeight
  /\ Height = Genesis..MaxHeight
  /\ MaxFaults \in Nat /\ MaxLate \in Nat
  /\ None \notin Int /\ None \notin Runtime
BY HeightAssumption, FaultAssumption, LateAssumption, NoneAssumption DEF Height

LEMMA SetsOfHeights ==
  ASSUME NEW r, NEW k \in Int, k <= MaxHeight
  PROVE  NewUpTo(r, k) \in SUBSET Height /\ AllUpTo(r, k) \in SUBSET Height
BY HeightFacts DEF NewUpTo, AllUpTo

Added(s, r, e, c) ==
  IF r = s.runtime /\ s.counts /\ e \in RowsOf[r] THEN Gain(Block[r][s.height], e, c) ELSE 0

CounterTable == [Runtime -> [Entities -> [Column -> Nat]]]

(* A transaction adds up.                                                  *)
LEMMA ApplyFacts ==
  ASSUME TypeOK, NEW s \in Session, Apply(s)
  PROVE  /\ runtimeNode' \in [Runtime -> SUBSET Node]
         /\ cursor' \in [Runtime -> Height \cup {None}]
         /\ \A r \in Runtime : cursor'[r] = IF s.advances /\ r = s.runtime THEN s.height ELSE cursor[r]
         /\ counters' \in CounterTable
         /\ \A r \in Runtime, e \in Entities, c \in Column :
              counters'[r][e][c] = counters[r][e][c] + Added(s, r, e, c)
<1>1. s.runtime \in Runtime /\ s.height \in Height
  BY DEF Session
<1>2. runtimeNode' \in [Runtime -> SUBSET Node]
  <2>1. runtimeNode \in [Runtime -> SUBSET Node]
    BY DEF TypeOK
  <2>2. Registered[s.runtime][s.height] \in SUBSET Node
    BY <1>1, BlockAssumption
  <2>3. QED
    BY <1>1, <2>1, <2>2 DEF Apply, NodesAfter
<1>3. cursor \in [Runtime -> Height \cup {None}]
  BY DEF TypeOK
<1>4. counters \in CounterTable
  BY DEF TypeOK, CounterTable
<1>5. \A e, c : c \in Column => Gain(Block[s.runtime][s.height], e, c) \in Nat
  BY <1>1, GainIsNumber
<1>6. counters' \in CounterTable
  <2>1. counters' = StatsAfter(s)
    BY DEF Apply
  <2>2. CASE ~s.counts
    BY <1>4, <2>1, <2>2 DEF StatsAfter
  <2>3. CASE s.counts
    <3> DEFINE row == [e \in Entities |-> [c \in Column |-> counters[s.runtime][e][c] +
                        IF e \in RowsOf[s.runtime] THEN Gain(Block[s.runtime][s.height], e, c) ELSE 0]]
    <3>1. row \in [Entities -> [Column -> Nat]]
      BY <1>1, <1>4, <1>5 DEF CounterTable
    <3>2. counters' = [counters EXCEPT ![s.runtime] = row]
      BY <1>1, <1>4, <2>1, <2>3 DEF StatsAfter, CounterTable
    <3> HIDE DEF row
    <3>3. QED
      BY <1>1, <1>4, <3>1, <3>2 DEF CounterTable
  <2>4. QED
    BY <2>2, <2>3
<1>7. ASSUME NEW r \in Runtime, NEW e \in Entities, NEW c \in Column
      PROVE  counters'[r][e][c] = counters[r][e][c] + Added(s, r, e, c)
  <2>1. counters' = StatsAfter(s)
    BY DEF Apply
  <2>2. counters[r][e][c] \in Nat
    BY <1>4 DEF CounterTable
  <2>3. CASE ~s.counts
    BY <2>1, <2>2, <2>3 DEF StatsAfter, Added
  <2>4. CASE s.counts /\ r # s.runtime
    <3>1. counters'[r] = counters[r]
      BY <1>4, <2>1, <2>4 DEF StatsAfter, CounterTable
    <3>2. QED
      BY <2>2, <2>4, <3>1 DEF Added
  <2>5. CASE s.counts /\ r = s.runtime
    BY <1>1, <1>4, <2>1, <2>5 DEF StatsAfter, CounterTable, Added
  <2>6. QED
    BY <2>3, <2>4, <2>5
<1>8. cursor' \in [Runtime -> Height \cup {None}]
  BY <1>1, <1>3 DEF Apply
<1>9. \A r \in Runtime : cursor'[r] = IF s.advances /\ r = s.runtime THEN s.height ELSE cursor[r]
  BY <1>1, <1>3 DEF Apply
<1>10. QED
  BY <1>2, <1>6, <1>7, <1>8, <1>9

CountersGrow ==
  \A r \in Runtime, e \in Entities, c \in Column : counters[r][e][c] <= counters'[r][e][c]

LEMMA ApplyGrows ==
  ASSUME TypeOK, NEW s \in Session, Apply(s)
  PROVE  CountersGrow
<1>1. ASSUME NEW r \in Runtime, NEW e \in Entities, NEW c \in Column
      PROVE  counters[r][e][c] <= counters'[r][e][c]
  <2>1. counters'[r][e][c] = counters[r][e][c] + Added(s, r, e, c)
    BY ApplyFacts
  <2>2. counters[r][e][c] \in Nat
    BY DEF TypeOK
  <2>3. Added(s, r, e, c) \in Nat
    BY GainIsNumber DEF Added, Session
  <2>4. QED
    BY <2>1, <2>2, <2>3
<1>2. QED
  BY <1>1 DEF CountersGrow

RowsAreEntities == \A r \in Runtime : RowsOf[r] \subseteq Entities

LEMMA RowsType == RowsAreEntities
BY EntitiesAssumption DEF RowsAreEntities

(* What has been counted stays counted.                                    *)
LEMMA AtLeastStays ==
  ASSUME counters \in CounterTable, counters' \in CounterTable, CountersGrow,
         NEW r \in Runtime, NEW k \in Int, k <= MaxHeight, AtLeast(r, k)
  PROVE  AtLeast(r, k)'
<1>1. ASSUME NEW e \in RowsOf[r], NEW c \in Column
      PROVE  counters'[r][e][c] >= TotalGain(r, e, c, NewUpTo(r, k))
  <2>1. e \in Entities
    BY RowsType DEF RowsAreEntities
  <2>2. counters[r][e][c] \in Nat /\ counters'[r][e][c] \in Nat
    BY <2>1 DEF CounterTable
  <2>3. TotalGain(r, e, c, NewUpTo(r, k)) \in Nat
    BY SetsOfHeights, TotalFacts
  <2>4. counters[r][e][c] >= TotalGain(r, e, c, NewUpTo(r, k)) /\ counters[r][e][c] <= counters'[r][e][c]
    BY <2>1 DEF AtLeast, CountersGrow
  <2>5. QED
    BY <2>2, <2>3, <2>4
<1>2. QED
  BY <1>1 DEF AtLeast

(* The transaction of a height makes the counters good for it.             *)
LEMMA AtLeastNext ==
  ASSUME TypeOK, NEW s \in Session, Apply(s),
         AtLeast(s.runtime, s.height - 1),
         s.height \in NewUpTo(s.runtime, s.height) => s.counts
  PROVE  AtLeast(s.runtime, s.height)'
<1> DEFINE r == s.runtime
           h == s.height
<1>1. r \in Runtime /\ h \in Height /\ h \in Int /\ h - 1 \in Int /\ h <= MaxHeight /\ h - 1 <= MaxHeight
  BY HeightFacts DEF Session
<1>2. NewUpTo(r, h) = IF h \in NewUpTo(r, h) THEN NewUpTo(r, h - 1) \cup {h} ELSE NewUpTo(r, h - 1)
  BY <1>1, HeightFacts DEF NewUpTo
<1>3. h \notin NewUpTo(r, h - 1)
  BY <1>1, HeightFacts DEF NewUpTo
<1>4. NewUpTo(r, h - 1) \in SUBSET Height
  BY <1>1, SetsOfHeights
<1>5. ASSUME NEW e \in RowsOf[r], NEW c \in Column
      PROVE  counters'[r][e][c] >= TotalGain(r, e, c, NewUpTo(r, h))
  <2>1. e \in Entities
    BY <1>1, RowsType DEF RowsAreEntities
  <2>2. counters[r][e][c] \in Nat
    BY <1>1, <2>1 DEF TypeOK
  <2>3. counters'[r][e][c] = counters[r][e][c] + Added(s, r, e, c)
    BY <1>1, <2>1, ApplyFacts
  <2>4. counters[r][e][c] >= TotalGain(r, e, c, NewUpTo(r, h - 1))
    BY DEF AtLeast
  <2>5. TotalGain(r, e, c, NewUpTo(r, h - 1)) \in Nat
    BY <1>1, <1>4, TotalFacts
  <2>6. Gain(Block[r][h], e, c) \in Nat
    BY <1>1, GainIsNumber
  <2>7. CASE h \in NewUpTo(r, h)
    <3>1. TotalGain(r, e, c, NewUpTo(r, h)) =
            TotalGain(r, e, c, NewUpTo(r, h - 1)) + Gain(Block[r][h], e, c)
      <4>1. PICK W : W = NewUpTo(r, h - 1)
        OBVIOUS
      <4>2. NewUpTo(r, h) = W \cup {h}
        BY <1>2, <2>7, <4>1
      <4>3. W \in SUBSET Height /\ h \in Height \ W
        BY <1>1, <1>3, <1>4, <4>1
      <4> HIDE DEF r, h
      <4>4. TotalGain(r, e, c, W \cup {h}) = TotalGain(r, e, c, W) + Gain(Block[r][h], e, c)
        BY <1>1, <4>3, TotalFacts
      <4>5. QED
        BY <4>1, <4>2, <4>4
    <3>2. Added(s, r, e, c) = Gain(Block[r][h], e, c)
      BY <2>7 DEF Added
    <3>3. PICK x \in Nat, y \in Nat, z \in Nat :
            /\ x = counters[r][e][c] /\ y = Gain(Block[r][h], e, c)
            /\ z = TotalGain(r, e, c, NewUpTo(r, h - 1))
      BY <2>2, <2>5, <2>6
    <3>4. counters'[r][e][c] = x + y /\ TotalGain(r, e, c, NewUpTo(r, h)) = z + y /\ x >= z
      BY <2>3, <2>4, <3>1, <3>2, <3>3
    <3>5. QED
      BY <3>4
  <2>8. CASE h \notin NewUpTo(r, h)
    <3>1. NewUpTo(r, h) = NewUpTo(r, h - 1)
      BY <1>2, <2>8
    <3>2. Added(s, r, e, c) \in Nat
      BY <2>6 DEF Added
    <3>3. QED
      BY <2>2, <2>3, <2>4, <2>5, <3>1, <3>2
  <2>9. QED
    BY <2>7, <2>8
<1>6. QED
  BY <1>5 DEF AtLeast

(* And it counts nothing that is not within the cursor it commits.         *)
LEMMA AtMostNext ==
  ASSUME TypeOK, NEW s \in Session, Apply(s),
         AtMost(s.runtime), cursor[s.runtime] # None,
         s.counts => s.advances /\ Counted(s.runtime, s.height),
         \/ s.height > cursor[s.runtime]
         \/ s.height = Genesis /\ cursor[s.runtime] = Genesis /\ Untouched(s.runtime)
  PROVE  AtMost(s.runtime)'
<1> DEFINE r == s.runtime
           h == s.height
           B == IF h > cursor[r] THEN AllUpTo(r, cursor[r]) ELSE {}
<1>1. r \in Runtime /\ h \in Height /\ h \in Int /\ h <= MaxHeight
  BY HeightFacts DEF Session
<1>2. cursor[r] \in Height /\ cursor[r] \in Int /\ cursor[r] <= MaxHeight /\ cursor[r] <= h
  BY <1>1, HeightFacts DEF TypeOK
<1>3. /\ B \in SUBSET Height /\ h \notin B
      /\ B \subseteq AllUpTo(r, h) /\ AllUpTo(r, cursor[r]) \subseteq AllUpTo(r, h)
      /\ AllUpTo(r, h) \in SUBSET Height
  BY <1>1, <1>2, HeightFacts DEF AllUpTo
<1>4. h \in AllUpTo(r, h) <=> Counted(r, h)
  BY <1>1, HeightFacts DEF AllUpTo
<1>5. ASSUME NEW e \in Entities, NEW c \in Column
      PROVE  counters'[r][e][c] <= IF cursor'[r] = None THEN 0
                                   ELSE TotalGain(r, e, c, AllUpTo(r, cursor'[r]))
  <2>1. counters[r][e][c] \in Nat
    BY <1>1 DEF TypeOK
  <2>2. counters'[r][e][c] = counters[r][e][c] + Added(s, r, e, c)
    BY <1>1, ApplyFacts
  <2>3. counters[r][e][c] <= TotalGain(r, e, c, AllUpTo(r, cursor[r]))
    BY DEF AtMost
  <2>4. cursor'[r] = IF s.advances THEN h ELSE cursor[r]
    BY <1>1, ApplyFacts
  <2>5. cursor'[r] # None
    BY <1>1, <2>4, HeightFacts
  <2>6. Gain(Block[r][h], e, c) \in Nat
    BY <1>1, GainIsNumber
  <2>7. CASE s.counts
    <3>1. cursor'[r] = h /\ Counted(r, h)
      BY <2>4, <2>7
    <3>2. counters[r][e][c] <= TotalGain(r, e, c, B)
      <4>1. CASE h > cursor[r]
        BY <2>3, <4>1
      <4>2. CASE ~(h > cursor[r])
        <5>1. counters[r][e][c] = 0
          BY <1>1, <4>2 DEF Untouched
        <5>2. TotalGain(r, e, c, {}) = 0
          BY <1>1, TotalFacts
        <5>3. QED
          BY <4>2, <5>1, <5>2
      <4>3. QED
        BY <4>1, <4>2
    <3>3. TotalGain(r, e, c, B \cup {h}) = TotalGain(r, e, c, B) + Gain(Block[r][h], e, c)
      <4>1. h \in Height \ B
        BY <1>1, <1>3
      <4> HIDE DEF r, h, B
      <4>2. QED
        BY <1>1, <1>3, <4>1, TotalFacts
    <3>4. TotalGain(r, e, c, B \cup {h}) <= TotalGain(r, e, c, AllUpTo(r, h))
      <4>1. B \cup {h} \in SUBSET AllUpTo(r, h)
        BY <1>3, <1>4, <3>1
      <4> HIDE DEF r, h, B
      <4>2. QED
        BY <1>1, <1>3, <4>1, TotalFacts
    <3>5. TotalGain(r, e, c, B) \in Nat /\ TotalGain(r, e, c, AllUpTo(r, h)) \in Nat
      <4> HIDE DEF r, h, B
      <4>1. QED
        BY <1>1, <1>3, TotalFacts
    <3>6. Added(s, r, e, c) \in Nat /\ Added(s, r, e, c) <= Gain(Block[r][h], e, c)
      BY <2>6 DEF Added
    <3>7. PICK x \in Nat, y \in Nat, z \in Nat, a \in Nat, t \in Nat :
            /\ x = counters[r][e][c] /\ y = Gain(Block[r][h], e, c) /\ a = Added(s, r, e, c)
            /\ z = TotalGain(r, e, c, B) /\ t = TotalGain(r, e, c, AllUpTo(r, h))
      BY <2>1, <2>6, <3>5, <3>6
    <3>8. counters'[r][e][c] = x + a /\ a <= y /\ x <= z /\ z + y <= t
      BY <2>2, <3>2, <3>3, <3>4, <3>6, <3>7
    <3>9. x + a <= t
      BY <3>8
    <3>10. QED
      BY <2>5, <3>1, <3>7, <3>8, <3>9
  <2>8. CASE ~s.counts
    <3>1. counters'[r][e][c] = counters[r][e][c]
      BY <2>1, <2>2, <2>8 DEF Added
    <3>2. TotalGain(r, e, c, AllUpTo(r, cursor[r])) <= TotalGain(r, e, c, AllUpTo(r, h))
      <4> HIDE DEF r, h, B
      <4>1. QED
        BY <1>1, <1>3, TotalFacts
    <3>3. /\ TotalGain(r, e, c, AllUpTo(r, cursor[r])) \in Nat
          /\ TotalGain(r, e, c, AllUpTo(r, h)) \in Nat
      <4>1. AllUpTo(r, cursor[r]) \in SUBSET Height
        BY <1>3
      <4> HIDE DEF r, h, B
      <4>2. QED
        BY <1>1, <1>3, <4>1, TotalFacts
    <3>4. counters[r][e][c] <= TotalGain(r, e, c, AllUpTo(r, h))
      BY <2>1, <2>3, <3>2, <3>3
    <3>5. QED
      BY <2>3, <2>4, <2>5, <3>1, <3>4
  <2>9. QED
    BY <2>7, <2>8
<1>6. QED
  BY <1>5 DEF AtMost

(* What the transaction of a height does.                                  *)
LEMMA SessionFacts ==
  ASSUME NEW r \in Runtime, NEW h \in Height, NEW round \in Nat,
         round # 0 => /\ h > Genesis /\ Block[r][h - 1].type # "missing"
                      /\ round = Block[r][h - 1].round
  PROVE  LET s == SessionAt(r, h, round)
         IN  /\ s \in Session /\ s.runtime = r /\ s.height = h
             /\ s.counts => s.advances /\ Counted(r, h)
             /\ h \in NewUpTo(r, h) => s.counts
<1>1. Block[r][h] \in BlockRecord
  BY BlockType
<1>2. Quiet(Block[r][h]) \in BOOLEAN
  BY DEF Quiet
<1>3. ASSUME h \in NewUpTo(r, h)
      PROVE  Block[r][h].type # "missing" /\ Block[r][h].round # round /\ ~Quiet(Block[r][h])
  <2>1. h > Genesis /\ NewRound(r, h) /\ Counted(r, h)
    BY <1>3, HeightFacts DEF NewUpTo
  <2>2. Block[r][h].round # 0 /\ Block[r][h].round # Block[r][h - 1].round
    BY <2>1 DEF NewRound
  <2>3. QED
    BY <2>1, <2>2 DEF Counted, Quiet
<1>4. QED
  BY <1>1, <1>2, <1>3 DEF SessionAt, Session, Counted
-----------------------------------------------------------------------------
(* The variables of the job, of the tables, the others.                    *)
JobType ==
  /\ pc \in {"idle", "findCursor", "insertCursor", "save"}
  /\ currentHeight \in Height
  /\ current \in Runtime \cup {None}
  /\ todo \subseteq Runtime
  /\ scanHeight \in Genesis..(MaxHeight + 1)
  /\ currentRound \in Nat

TablesType ==
  /\ cursor \in [Runtime -> Height \cup {None}]
  /\ runtimeNode \in [Runtime -> SUBSET Node]
  /\ counters \in CounterTable

OthersType ==
  /\ latest \in Height
  /\ inflight \subseteq Session
  /\ faults \in 0..MaxFaults
  /\ late \in 0..MaxLate

LEMMA StatsTypeParts == TypeOK <=> JobType /\ TablesType /\ OthersType
BY DEF TypeOK, JobType, TablesType, OthersType, CounterTable

TablesKept == CountersGrow /\ \A r \in Runtime : cursor[r] # None => cursor'[r] # None

LEMMA UnchangedTables ==
  ASSUME TablesType, UNCHANGED tables
  PROVE  TablesType' /\ TablesKept /\ cursor' = cursor /\ counters' = counters
<1>1. cursor' = cursor /\ runtimeNode' = runtimeNode /\ counters' = counters
  BY DEF tables
<1>2. TablesType'
  BY <1>1 DEF TablesType
<1>3. CountersGrow
  <2>1. ASSUME NEW r \in Runtime, NEW e \in Entities, NEW c \in Column
        PROVE  counters[r][e][c] <= counters'[r][e][c]
    <3>1. counters[r][e][c] \in Nat
      BY DEF TablesType, CounterTable
    <3>2. QED
      BY <1>1, <3>1
  <2>2. QED
    BY <2>1 DEF CountersGrow
<1>4. QED
  BY <1>1, <1>2, <1>3 DEF TablesKept

(* The cursors: one that is set is set where the counters are good.        *)
LEMMA CursorInvStep ==
  ASSUME TypeOK, TablesType', TablesKept, CursorInv,
         latest' \in Height, latest <= latest',
         \A r \in Runtime : \A k \in Int :
           cursor'[r] = k /\ cursor[r] # k => AtLeast(r, k)' /\ k <= latest'
  PROVE  CursorInv'
<1>1. ASSUME NEW r \in Runtime, cursor'[r] # None
      PROVE  AtLeast(r, cursor[r])' /\ cursor'[r] <= latest'
  <2>1. cursor'[r] \in Height
    BY <1>1 DEF TablesType
  <2>2. PICK k \in Int : k = cursor'[r] /\ k <= MaxHeight
    BY <2>1, HeightFacts
  <2>3. AtLeast(r, k)' /\ k <= latest'
    <3>1. CASE cursor[r] # k
      BY <2>2, <3>1
    <3>2. CASE cursor[r] = k
      <4>1. AtLeast(r, k) /\ k <= latest
        BY <1>1, <2>2, <3>2, HeightFacts DEF CursorInv
      <4>2. AtLeast(r, k)'
        BY <2>2, <4>1, AtLeastStays, StatsTypeParts DEF TablesKept, TablesType
      <4>3. latest \in Int /\ latest' \in Int
        BY HeightFacts DEF TypeOK
      <4>4. QED
        BY <2>2, <4>1, <4>2, <4>3
    <3>3. QED
      BY <3>1, <3>2
  <2>4. QED
    BY <2>2, <2>3 DEF AtLeast
<1>2. QED
  BY <1>1 DEF CursorInv

SessionOK(s) ==
  /\ AtLeast(s.runtime, s.height - 1) /\ s.height <= latest
  /\ cursor[s.runtime] # None
  /\ s.height \in NewUpTo(s.runtime, s.height) => s.counts

LEMMA SessionStays ==
  ASSUME TypeOK, TablesType', TablesKept,
         latest' \in Height, latest <= latest',
         NEW s \in Session, SessionOK(s)
  PROVE  SessionOK(s)'
<1> DEFINE r == s.runtime
           k == s.height - 1
<1>1. r \in Runtime /\ s.height \in Int /\ k \in Int /\ k <= MaxHeight
  BY HeightFacts DEF Session
<1>2. latest \in Int /\ latest' \in Int
  BY HeightFacts DEF TypeOK
<1>3. s.height <= latest'
  BY <1>1, <1>2 DEF SessionOK
<1>4. AtLeast(r, k)'
  <2>1. AtLeast(r, k)
    BY DEF SessionOK
  <2> HIDE DEF r, k
  <2>2. QED
    BY <1>1, <2>1, AtLeastStays, StatsTypeParts DEF TablesKept, TablesType
<1>5. cursor'[r] # None
  BY <1>1 DEF SessionOK, TablesKept
<1>6. QED
  BY <1>3, <1>4, <1>5 DEF SessionOK

LEMMA SessionInvStep ==
  ASSUME TypeOK, TablesType', TablesKept, SessionInv,
         latest' \in Height, latest <= latest',
         \A s \in inflight' : s \in inflight \/ (s \in Session /\ SessionOK(s))
  PROVE  SessionInv'
<1>1. ASSUME NEW s \in inflight'
      PROVE  SessionOK(s)'
  <2>1. s \in Session /\ SessionOK(s)
    BY <1>1 DEF SessionInv, SessionOK, TypeOK
  <2>2. QED
    BY <2>1, SessionStays
<1>2. QED
  BY <1>1 DEF SessionInv, SessionOK

Ahead(r, h) ==
  \/ h > cursor[r]
  \/ h = Genesis /\ cursor[r] = Genesis /\ Untouched(r)

RoundOf(r, h, round) ==
  round # 0 => /\ h > Genesis
               /\ Block[r][h - 1].type # "missing"
               /\ round = Block[r][h - 1].round

(* A step of somebody else leaves the job where it is.                     *)
LEMMA JobInvKept ==
  ASSUME TypeOK, TablesType', TablesKept, JobInv,
         latest' \in Height, latest <= latest', late' = late,
         UNCHANGED job,
         late = 0 => cursor' = cursor /\ counters' = counters
  PROVE  JobType' /\ JobInv'
<1>1. UNCHANGED <<pc, currentHeight, current, todo, scanHeight, currentRound>>
  BY DEF job
<1>2. JobType'
  BY <1>1 DEF TypeOK, JobType
<1>3. latest \in Int /\ latest' \in Int /\ currentHeight \in Int /\ scanHeight \in Int
  BY HeightFacts DEF TypeOK
<1>4. pc' # "idle" => current' \in Runtime /\ currentHeight' <= latest'
  BY <1>1, <1>3 DEF JobInv
<1>5. pc' = "insertCursor" /\ late' = 0 => cursor'[current'] = None
  BY <1>1 DEF JobInv
<1>6. ASSUME pc' = "save"
      PROVE  /\ scanHeight' <= currentHeight'
             /\ cursor'[current'] # None
             /\ AtLeast(current, scanHeight - 1)'
             /\ RoundOf(current, scanHeight, currentRound)'
             /\ late' = 0 => Ahead(current, scanHeight)'
  <2>1. /\ pc = "save" /\ scanHeight <= currentHeight /\ current \in Runtime /\ cursor[current] # None
        /\ AtLeast(current, scanHeight - 1)
        /\ RoundOf(current, scanHeight, currentRound)
        /\ late = 0 => Ahead(current, scanHeight)
    BY <1>1, <1>6 DEF JobInv, RoundOf, Ahead
  <2>2. cursor'[current'] # None
    BY <1>1, <2>1 DEF TablesKept
  <2>3. PICK r \in Runtime, k \in Int : r = current /\ k = scanHeight - 1 /\ k <= MaxHeight
    BY <1>3, <2>1, HeightFacts DEF TypeOK
  <2>4. AtLeast(r, k)'
    BY <2>1, <2>3, AtLeastStays, StatsTypeParts DEF TablesKept, TablesType
  <2>5. AtLeast(current, scanHeight - 1)'
    BY <1>1, <2>3, <2>4 DEF AtLeast
  <2>6. late' = 0 => Ahead(current, scanHeight)'
    BY <1>1, <2>1 DEF Ahead, Untouched
  <2>7. QED
    BY <1>1, <2>1, <2>2, <2>5, <2>6 DEF RoundOf
<1>7. QED
  BY <1>2, <1>4, <1>5, <1>6 DEF JobInv, RoundOf, Ahead

LEMMA ReturnFacts ==
  ASSUME Return
  PROVE  JobType' /\ JobInv'
BY HeightFacts DEF Return, JobType, JobInv

(* The loop goes on at h, or the run is done with this ParaTime.           *)
LEMMA LoopFacts ==
  ASSUME TypeOK, JobInv, pc # "idle", latest' = latest, late' = late,
         NEW r \in Runtime, r = current, NEW h \in Int, h >= Genesis, NEW round \in Nat,
         Loop(h, round),
         cursor'[r] # None, AtLeast(r, h - 1)', RoundOf(r, h, round), late = 0 => Ahead(r, h)'
  PROVE  JobType' /\ JobInv'
<1>1. currentHeight <= latest /\ currentHeight \in Height
  BY DEF JobInv, TypeOK
<1>2. CASE h <= currentHeight
  <2>1. /\ pc' = "save" /\ scanHeight' = h /\ currentRound' = round
        /\ currentHeight' = currentHeight /\ current' = current /\ todo' = todo
    BY <1>2 DEF Loop
  <2>2. JobType'
    BY <1>1, <1>2, <2>1, HeightFacts DEF TypeOK, JobType
  <2>3. AtLeast(current, scanHeight - 1)'
    BY <2>1 DEF AtLeast
  <2>4. late' = 0 => Ahead(current, scanHeight)'
    BY <2>1 DEF Ahead, Untouched
  <2>5. RoundOf(current, scanHeight, currentRound)'
    BY <2>1 DEF RoundOf
  <2>6. QED
    BY <1>1, <1>2, <2>1, <2>2, <2>3, <2>4, <2>5 DEF JobInv, Ahead, RoundOf
<1>3. CASE ~(h <= currentHeight)
  <2>1. NextRuntime
    BY <1>3 DEF Loop
  <2>2. CASE todo = {}
    BY <2>1, <2>2, ReturnFacts DEF NextRuntime
  <2>3. CASE todo # {}
    <3>1. PICK q \in todo : Visit(q, todo)
      BY <2>1, <2>3 DEF NextRuntime
    <3>2. scanHeight' = Genesis /\ currentRound' = 0 /\ currentHeight' = currentHeight
      BY <2>1, <2>3 DEF NextRuntime
    <3>3. pc' = "findCursor" /\ current' = q /\ todo' \subseteq todo /\ q \in Runtime /\ todo \subseteq Runtime
      BY <3>1 DEF Visit, TypeOK
    <3>4. JobType'
      BY <1>1, <3>2, <3>3, HeightFacts DEF JobType
    <3>5. QED
      BY <1>1, <3>2, <3>3, <3>4 DEF JobInv
  <2>4. QED
    BY <2>2, <2>3
<1>4. QED
  BY <1>2, <1>3

LEMMA OnceInvKept ==
  ASSUME OnceInv, cursor' = cursor, counters' = counters, inflight' \subseteq inflight, late' = late
  PROVE  OnceInv'
BY DEF OnceInv, AtMost
-----------------------------------------------------------------------------
(* The steps.                                                              *)

LEMMA StatsInitially ==
  ASSUME StatsInit
  PROVE  StatsInv
<1>1. TypeOK
  <2>1. JobType
    BY HeightFacts DEF StatsInit, JobType
  <2>2. TablesType
    BY DEF StatsInit, TablesType, CounterTable
  <2>3. OthersType
    BY HeightFacts DEF StatsInit, OthersType
  <2>4. QED
    BY <2>1, <2>2, <2>3, StatsTypeParts
<1>2. CursorInv /\ JobInv /\ SessionInv
  BY DEF StatsInit, CursorInv, JobInv, SessionInv
<1>3. OnceInv
  BY DEF StatsInit, OnceInv, AtMost
<1>4. QED
  BY <1>1, <1>2, <1>3 DEF StatsInv

LEMMA TablesSame ==
  ASSUME StatsInv, UNCHANGED tables, latest' \in Height, latest <= latest'
  PROVE  /\ TablesType' /\ CursorInv' /\ TablesKept /\ cursor' = cursor /\ counters' = counters
         /\ inflight' \subseteq inflight => SessionInv'
         /\ inflight' \subseteq inflight /\ late' = late => OnceInv'
<1>1. TablesType' /\ TablesKept /\ cursor' = cursor /\ counters' = counters
  BY UnchangedTables, StatsTypeParts DEF StatsInv
<1>2. CursorInv'
  BY <1>1, CursorInvStep DEF StatsInv
<1>3. ASSUME inflight' \subseteq inflight PROVE SessionInv'
  BY <1>1, <1>3, SessionInvStep DEF StatsInv
<1>4. ASSUME inflight' \subseteq inflight, late' = late PROVE OnceInv'
  BY <1>1, <1>4, OnceInvKept DEF StatsInv
<1>5. QED
  BY <1>1, <1>2, <1>3, <1>4

(* The new state, put together.                                            *)
LEMMA StatsInvFrom ==
  ASSUME JobType', JobInv', TablesType', OthersType', CursorInv', SessionInv', OnceInv'
  PROVE  StatsInv'
<1>1. TypeOK'
  BY StatsTypeParts, PTL
<1>2. QED
  BY <1>1 DEF StatsInv

LEMMA LatestFacts ==
  ASSUME TypeOK
  PROVE  latest \in Int /\ latest <= latest /\ Genesis <= latest /\ latest <= MaxHeight
BY HeightFacts DEF TypeOK

LEMMA OthersKept ==
  ASSUME TypeOK, UNCHANGED <<latest, late>>, inflight' \subseteq Session,
         faults' = faults \/ Fault
  PROVE  OthersType'
<1>1. faults' \in 0..MaxFaults
  BY HeightFacts DEF TypeOK, Fault
<1>2. QED
  BY <1>1 DEF TypeOK, OthersType

LEMMA GrowStep ==
  ASSUME StatsInv, Grow
  PROVE  StatsInv'
<1>1. latest \in Int /\ latest' = latest + 1 /\ latest' \in Height /\ latest <= latest'
  BY LatestFacts, HeightFacts DEF StatsInv, Grow
<1>2. UNCHANGED tables /\ UNCHANGED job /\ inflight' = inflight /\ late' = late /\ faults' = faults
  BY DEF Grow
<1>3. TablesType' /\ CursorInv' /\ TablesKept /\ cursor' = cursor /\ counters' = counters /\ SessionInv' /\ OnceInv'
  BY <1>1, <1>2, TablesSame
<1>4. JobType' /\ JobInv'
  BY <1>1, <1>2, <1>3, JobInvKept DEF StatsInv
<1>5. OthersType'
  BY <1>1, <1>2 DEF StatsInv, TypeOK, OthersType
<1>6. QED
  BY <1>3, <1>4, <1>5, StatsInvFrom

LEMMA StutterStep ==
  ASSUME StatsInv, UNCHANGED statsVars
  PROVE  StatsInv'
<1>1. latest' = latest /\ latest' \in Height /\ latest <= latest'
  BY LatestFacts DEF StatsInv, statsVars, TypeOK
<1>2. UNCHANGED tables /\ UNCHANGED job /\ inflight' = inflight /\ late' = late /\ faults' = faults
  BY DEF statsVars
<1>3. TablesType' /\ CursorInv' /\ TablesKept /\ cursor' = cursor /\ counters' = counters /\ SessionInv' /\ OnceInv'
  BY <1>1, <1>2, TablesSame
<1>4. JobType' /\ JobInv'
  BY <1>1, <1>2, <1>3, JobInvKept DEF StatsInv
<1>5. OthersType'
  BY <1>1, <1>2 DEF StatsInv, TypeOK, OthersType
<1>6. QED
  BY <1>3, <1>4, <1>5, StatsInvFrom

(* A step of the job that leaves the database alone.                       *)
LEMMA TablesAlone ==
  ASSUME StatsInv, UNCHANGED <<latest, inflight, late>>, UNCHANGED tables,
         faults' = faults \/ Fault, JobType', JobInv'
  PROVE  StatsInv'
<1>1. latest' \in Height /\ latest <= latest'
  BY LatestFacts DEF StatsInv, TypeOK
<1>2. TablesType' /\ CursorInv' /\ SessionInv' /\ OnceInv'
  BY <1>1, TablesSame
<1>3. OthersType'
  BY OthersKept DEF StatsInv, TypeOK
<1>4. QED
  BY <1>2, <1>3, StatsInvFrom

LEMMA GetStatusStep ==
  ASSUME StatsInv, GetStatus
  PROVE  StatsInv'
<1>1. UNCHANGED <<latest, inflight, late, faults, scanHeight, currentRound>> /\ UNCHANGED tables
  BY DEF GetStatus
<1>2. PICK r \in Runtime : pc' = "findCursor" /\ current' = r /\ todo' = Runtime \ {r}
  BY DEF GetStatus, Visit
<1>3. currentHeight' = latest
  BY DEF GetStatus
<1>4. JobType'
  BY <1>1, <1>2, <1>3 DEF StatsInv, TypeOK, JobType
<1>5. JobInv'
  BY <1>1, <1>2, <1>3, LatestFacts DEF StatsInv, JobInv
<1>6. QED
  BY <1>1, <1>4, <1>5, TablesAlone

LEMMA FindCursorStep ==
  ASSUME StatsInv, FindCursor
  PROVE  StatsInv'
<1>1. UNCHANGED <<latest, inflight, late, faults>> /\ UNCHANGED tables /\ pc = "findCursor"
  BY DEF FindCursor
<1>2. PICK r \in Runtime : r = current
  BY <1>1 DEF StatsInv, JobInv
<1>3. cursor' = cursor /\ counters' = counters
  BY <1>1 DEF tables
<1>4. CASE cursor[r] = None
  <2>1. pc' = "insertCursor" /\ UNCHANGED <<currentHeight, current, todo, scanHeight, currentRound>>
    BY <1>2, <1>4 DEF FindCursor
  <2>2. JobType' /\ JobInv'
    BY <1>1, <1>2, <1>3, <1>4, <2>1 DEF StatsInv, TypeOK, JobType, JobInv
  <2>3. QED
    BY <1>1, <2>2, TablesAlone
<1>5. CASE cursor[r] # None
  <2>1. cursor[r] \in Height /\ AtLeast(r, cursor[r]) /\ cursor[r] <= latest
    BY <1>5 DEF StatsInv, CursorInv, TypeOK
  <2>2. PICK h \in Int : h = cursor[r] + 1 /\ h >= Genesis /\ h - 1 = cursor[r] /\ h > cursor[r]
    BY <2>1, HeightFacts
  <2>3. Loop(h, 0)
    BY <1>2, <1>5, <2>2 DEF FindCursor, Resume
  <2>4. cursor'[r] # None /\ AtLeast(r, h - 1)' /\ Ahead(r, h)'
    BY <1>3, <1>5, <2>1, <2>2 DEF AtLeast, Ahead
  <2>5. RoundOf(r, h, 0)
    BY DEF RoundOf
  <2>6. JobType' /\ JobInv'
    BY <1>1, <1>2, <2>2, <2>3, <2>4, <2>5, LoopFacts DEF StatsInv
  <2>7. QED
    BY <1>1, <2>6, TablesAlone
<1>6. QED
  BY <1>4, <1>5

(* A new cursor stands at genesis, before the first height that must be counted. *)
LEMMA AtGenesis ==
  ASSUME TablesType', NEW r \in Runtime
  PROVE  AtLeast(r, Genesis)' /\ AtLeast(r, Genesis - 1)'
<1>1. NewUpTo(r, Genesis) = {} /\ NewUpTo(r, Genesis - 1) = {}
  BY HeightFacts DEF NewUpTo
<1>2. ASSUME NEW e \in RowsOf[r], NEW c \in Column
      PROVE  counters'[r][e][c] >= TotalGain(r, e, c, {})
  <2>1. e \in Entities
    BY RowsType DEF RowsAreEntities
  <2>2. counters'[r][e][c] \in Nat
    BY <2>1 DEF TablesType, CounterTable
  <2>3. QED
    BY <2>2, TotalFacts
<1>3. QED
  BY <1>1, <1>2 DEF AtLeast

LEMMA AddCursorFacts ==
  ASSUME StatsInv, pc = "insertCursor", AddCursor,
         UNCHANGED <<latest, inflight, late>>, NEW r \in Runtime, r = current
  PROVE  /\ TablesType' /\ CursorInv' /\ SessionInv' /\ OnceInv'
         /\ cursor'[r] # None /\ AtLeast(r, Genesis - 1)' /\ (late = 0 => Ahead(r, Genesis)')
<1>1. cursor \in [Runtime -> Height \cup {None}]
  BY DEF StatsInv, TypeOK
<1>2. Genesis \in Height /\ Genesis \in Int /\ Genesis # None
  BY HeightFacts
<1>3. cursor' = [cursor EXCEPT ![r] = Genesis] /\ runtimeNode' = runtimeNode /\ counters' = counters
  BY DEF AddCursor
<1>4. TablesType'
  BY <1>1, <1>2, <1>3 DEF StatsInv, TypeOK, TablesType, CounterTable
<1>5. /\ \A q \in Runtime : cursor'[q] = IF q = r THEN Genesis ELSE cursor[q]
      /\ cursor'[r] = Genesis
  BY <1>1, <1>3
<1>6. TablesKept
  <2>1. CountersGrow
    <3>1. ASSUME NEW q \in Runtime, NEW e \in Entities, NEW c \in Column
          PROVE  counters[q][e][c] <= counters'[q][e][c]
      <4>1. counters[q][e][c] \in Nat
        BY DEF StatsInv, TypeOK
      <4>2. QED
        BY <1>3, <4>1
    <3>2. QED
      BY <3>1 DEF CountersGrow
  <2>2. QED
    BY <1>2, <1>5, <2>1 DEF TablesKept
<1>7. AtLeast(r, Genesis)' /\ AtLeast(r, Genesis - 1)'
  BY <1>4, AtGenesis
<1>8. latest' \in Height /\ latest <= latest' /\ Genesis <= latest'
  BY LatestFacts DEF StatsInv, TypeOK
<1>9. CursorInv'
  <2>1. ASSUME NEW q \in Runtime, NEW k \in Int, cursor'[q] = k, cursor[q] # k
        PROVE  AtLeast(q, k)' /\ k <= latest'
    <3>1. q = r /\ k = Genesis
      BY <1>5, <2>1
    <3>2. QED
      BY <1>7, <1>8, <3>1
  <2>2. QED
    BY <1>4, <1>6, <1>8, <2>1, CursorInvStep DEF StatsInv
<1>10. SessionInv'
  BY <1>4, <1>6, <1>8, SessionInvStep DEF StatsInv
<1>11. ASSUME late = 0
       PROVE  cursor[r] = None /\ Untouched(r) /\ Untouched(r)'
  <2>1. cursor[r] = None /\ AtMost(r)
    BY <1>11 DEF StatsInv, JobInv, OnceInv
  <2>2. Untouched(r)
    <3>1. ASSUME NEW e \in Entities, NEW c \in Column PROVE counters[r][e][c] = 0
      <4>1. counters[r][e][c] \in Nat
        BY DEF StatsInv, TypeOK
      <4>2. QED
        BY <2>1, <4>1 DEF AtMost
    <3>2. QED
      BY <3>1 DEF Untouched
  <2>3. QED
    BY <1>3, <2>1, <2>2 DEF Untouched
<1>12. OnceInv'
  <2>1. ASSUME late' = 0 PROVE inflight' = {}
    BY <2>1 DEF StatsInv, OnceInv
  <2>2. ASSUME late' = 0, NEW q \in Runtime PROVE AtMost(q)'
    <3>1. CASE q # r
      <4>1. AtMost(q) /\ cursor'[q] = cursor[q]
        BY <1>5, <2>2, <3>1 DEF StatsInv, OnceInv
      <4>2. QED
        BY <1>3, <4>1 DEF AtMost
    <3>2. CASE q = r
      <4>1. Untouched(r)'
        BY <1>11, <2>2
      <4>2. AllUpTo(r, Genesis) \in SUBSET Height
        BY <1>2, HeightFacts, SetsOfHeights
      <4>3. ASSUME NEW e \in Entities, NEW c \in Column
            PROVE  counters'[r][e][c] <= TotalGain(r, e, c, AllUpTo(r, Genesis))
        <5>1. counters'[r][e][c] = 0
          BY <4>1 DEF Untouched
        <5>2. TotalGain(r, e, c, AllUpTo(r, Genesis)) \in Nat
          BY <4>2, TotalFacts
        <5>3. QED
          BY <5>1, <5>2
      <4>4. QED
        BY <1>2, <1>5, <3>2, <4>3 DEF AtMost
    <3>3. QED
      BY <3>1, <3>2
  <2>3. QED
    BY <2>1, <2>2 DEF OnceInv
<1>13. late = 0 => Ahead(r, Genesis)'
  BY <1>5, <1>11 DEF Ahead
<1>14. QED
  BY <1>2, <1>4, <1>5, <1>7, <1>9, <1>10, <1>12, <1>13

LEMMA InsertCursorStep ==
  ASSUME StatsInv, InsertCursor
  PROVE  StatsInv'
<1>1. /\ UNCHANGED <<latest, inflight, late, faults>> /\ pc = "insertCursor"
      /\ AddCursor /\ Loop(Genesis, 0)
  BY DEF InsertCursor
<1>2. PICK r \in Runtime : r = current
  BY <1>1 DEF StatsInv, JobInv
<1>3. /\ TablesType' /\ CursorInv' /\ SessionInv' /\ OnceInv'
      /\ cursor'[r] # None /\ AtLeast(r, Genesis - 1)' /\ (late = 0 => Ahead(r, Genesis)')
  BY <1>1, <1>2, AddCursorFacts
<1>4. PICK h \in Int : h = Genesis /\ h >= Genesis
  BY HeightFacts
<1>5. JobType' /\ JobInv'
  <2>1. Loop(h, 0) /\ AtLeast(r, h - 1)' /\ (late = 0 => Ahead(r, h)')
    BY <1>1, <1>3, <1>4
  <2>2. RoundOf(r, h, 0) /\ pc # "idle"
    BY <1>1 DEF RoundOf
  <2>3. QED
    BY <1>1, <1>2, <1>3, <1>4, <2>1, <2>2, LoopFacts DEF StatsInv
<1>6. OthersType'
  BY <1>1, OthersKept DEF StatsInv, TypeOK
<1>7. QED
  BY <1>3, <1>5, <1>6, StatsInvFrom

LEMMA InsertCursorAndDieStep ==
  ASSUME StatsInv, InsertCursorAndDie
  PROVE  StatsInv'
<1>1. /\ UNCHANGED <<latest, inflight, late>> /\ pc = "insertCursor" /\ Fault
      /\ AddCursor /\ Return
  BY DEF InsertCursorAndDie
<1>2. PICK r \in Runtime : r = current
  BY <1>1 DEF StatsInv, JobInv
<1>3. TablesType' /\ CursorInv' /\ SessionInv' /\ OnceInv'
  BY <1>1, <1>2, AddCursorFacts
<1>4. JobType' /\ JobInv'
  BY <1>1, ReturnFacts
<1>5. OthersType'
  BY <1>1, OthersKept DEF StatsInv, TypeOK
<1>6. QED
  BY <1>3, <1>4, <1>5, StatsInvFrom

LEMMA SaveFailsStep ==
  ASSUME StatsInv, SaveFails
  PROVE  StatsInv'
<1>1. UNCHANGED <<latest, inflight, late, faults>> /\ UNCHANGED tables /\ Return
  BY DEF SaveFails
<1>2. QED
  BY <1>1, ReturnFacts, TablesAlone

LEMMA FailStep ==
  ASSUME StatsInv, Fail
  PROVE  StatsInv'
<1>1. UNCHANGED <<latest, inflight, late>> /\ UNCHANGED tables /\ Fault /\ Return
  BY DEF Fail
<1>2. QED
  BY <1>1, ReturnFacts, TablesAlone

(* A transaction takes effect.                                             *)
LEMMA ApplyStep ==
  ASSUME StatsInv, NEW s \in Session, SessionOK(s), Apply(s),
         UNCHANGED <<latest, late>>, inflight' \subseteq inflight
  PROVE  /\ TablesType' /\ TablesKept /\ CursorInv' /\ SessionInv'
         /\ AtLeast(s.runtime, s.height)' /\ cursor'[s.runtime] # None
<1>1. s.runtime \in Runtime /\ s.height \in Height /\ s.height \in Int
  BY HeightFacts DEF Session
<1>2. TablesType' /\ \A r \in Runtime : cursor'[r] = IF s.advances /\ r = s.runtime THEN s.height ELSE cursor[r]
  BY ApplyFacts DEF StatsInv, TablesType
<1>3. TablesKept
  <2>1. CountersGrow
    BY ApplyGrows DEF StatsInv
  <2>2. QED
    BY <1>1, <1>2, <2>1, HeightFacts DEF TablesKept
<1>4. AtLeast(s.runtime, s.height)' /\ s.height <= latest'
  BY AtLeastNext DEF StatsInv, SessionOK
<1>5. latest' \in Height /\ latest <= latest'
  BY LatestFacts DEF StatsInv, TypeOK
<1>6. CursorInv'
  <2>1. ASSUME NEW r \in Runtime, NEW k \in Int, cursor'[r] = k, cursor[r] # k
        PROVE  AtLeast(r, k)' /\ k <= latest'
    <3>1. r = s.runtime /\ k = s.height
      BY <1>2, <2>1
    <3>2. QED
      BY <1>4, <3>1 DEF AtLeast
  <2>2. QED
    BY <1>2, <1>3, <1>5, <2>1, CursorInvStep DEF StatsInv
<1>7. SessionInv'
  BY <1>2, <1>3, <1>5, SessionInvStep DEF StatsInv
<1>8. cursor'[s.runtime] # None
  BY <1>1, <1>3 DEF SessionOK, TablesKept
<1>9. QED
  BY <1>2, <1>3, <1>4, <1>6, <1>7, <1>8

LEMMA ApplyOnce ==
  ASSUME StatsInv, NEW s \in Session, SessionOK(s), Apply(s),
         UNCHANGED <<inflight, late>>,
         s.counts => s.advances /\ Counted(s.runtime, s.height),
         late = 0 => Ahead(s.runtime, s.height)
  PROVE  OnceInv'
<1>1. s.runtime \in Runtime
  BY DEF Session
<1>2. ASSUME late' = 0 PROVE inflight' = {}
  BY <1>2 DEF StatsInv, OnceInv
<1>3. ASSUME late' = 0, NEW r \in Runtime PROVE AtMost(r)'
  <2>1. AtMost(r)
    BY <1>3 DEF StatsInv, OnceInv
  <2>2. CASE r = s.runtime
    <3>1. AtMost(s.runtime) /\ Ahead(s.runtime, s.height) /\ cursor[s.runtime] # None
      BY <1>3, <2>1, <2>2 DEF SessionOK
    <3>2. AtMost(s.runtime)'
      BY <3>1, AtMostNext DEF StatsInv, Ahead
    <3>3. QED
      BY <2>2, <3>2 DEF AtMost
  <2>3. CASE r # s.runtime
    <3>1. cursor'[r] = cursor[r]
      BY <2>3, ApplyFacts DEF StatsInv
    <3>2. ASSUME NEW e \in Entities, NEW c \in Column PROVE counters'[r][e][c] = counters[r][e][c]
      <4>1. counters[r][e][c] \in Nat
        BY DEF StatsInv, TypeOK
      <4>2. counters'[r][e][c] = counters[r][e][c] + Added(s, r, e, c)
        BY ApplyFacts DEF StatsInv
      <4>3. QED
        BY <2>3, <4>1, <4>2 DEF Added
    <3>3. QED
      BY <2>1, <3>1, <3>2 DEF AtMost
  <2>4. QED
    BY <2>2, <2>3
<1>4. QED
  BY <1>2, <1>3 DEF OnceInv

(* The transaction of the height the job is at.                            *)
LEMMA OpenedFacts ==
  ASSUME StatsInv, pc = "save", NEW s, s = Opened
  PROVE  /\ s \in Session /\ s.runtime = current /\ s.height = scanHeight /\ SessionOK(s)
         /\ s.counts => s.advances /\ Counted(s.runtime, s.height)
         /\ late = 0 => Ahead(s.runtime, s.height)
         /\ current \in Runtime /\ scanHeight \in Height /\ scanHeight <= latest
         /\ RoundOf(current, scanHeight, currentRound)
<1>1. /\ current \in Runtime /\ currentHeight <= latest /\ scanHeight <= currentHeight
      /\ cursor[current] # None /\ AtLeast(current, scanHeight - 1)
      /\ RoundOf(current, scanHeight, currentRound)
      /\ late = 0 => Ahead(current, scanHeight)
  BY DEF StatsInv, JobInv, RoundOf, Ahead
<1>2. scanHeight \in Height /\ scanHeight <= latest /\ currentRound \in Nat
  BY <1>1, HeightFacts DEF StatsInv, TypeOK
<1>3. PICK r \in Runtime, h \in Height, round \in Nat : r = current /\ h = scanHeight /\ round = currentRound
  BY <1>1, <1>2
<1>4. s = SessionAt(r, h, round)
  BY <1>3 DEF Opened
<1>5. /\ s \in Session /\ s.runtime = r /\ s.height = h
      /\ s.counts => s.advances /\ Counted(r, h)
      /\ h \in NewUpTo(r, h) => s.counts
  BY <1>1, <1>3, <1>4, SessionFacts DEF RoundOf
<1>6. SessionOK(s)
  BY <1>1, <1>2, <1>3, <1>5 DEF SessionOK
<1>7. QED
  BY <1>1, <1>2, <1>3, <1>5, <1>6

LEMMA SaveStep ==
  ASSUME StatsInv, Save
  PROVE  StatsInv'
<1>1. /\ pc = "save" /\ UNCHANGED <<latest, inflight, faults, late>> /\ Apply(Opened)
      /\ Loop(scanHeight + 1, SeenRound)
  BY DEF Save
<1>2. PICK s : s = Opened
  OBVIOUS
<1>3. /\ s \in Session /\ s.runtime = current /\ s.height = scanHeight /\ SessionOK(s)
      /\ s.counts => s.advances /\ Counted(s.runtime, s.height)
      /\ late = 0 => Ahead(s.runtime, s.height)
      /\ current \in Runtime /\ scanHeight \in Height
      /\ RoundOf(current, scanHeight, currentRound)
  BY <1>1, <1>2, OpenedFacts
<1>4. Apply(s)
  BY <1>1, <1>2
<1>5. /\ TablesType' /\ TablesKept /\ CursorInv' /\ SessionInv'
      /\ AtLeast(s.runtime, s.height)' /\ cursor'[s.runtime] # None
  BY <1>1, <1>3, <1>4, ApplyStep
<1>6. OnceInv'
  BY <1>1, <1>3, <1>4, ApplyOnce
<1>7. PICK r \in Runtime, g \in Height, h \in Int, round \in Nat :
        r = current /\ g = scanHeight /\ h = scanHeight + 1 /\ round = SeenRound
  <2>1. SeenRound \in Nat
    <3>1. Block[current][scanHeight] \in BlockRecord
      BY <1>3, BlockType
    <3>2. QED
      BY <3>1 DEF SeenRound, BlockRecord, StatsInv, TypeOK
  <2>2. scanHeight + 1 \in Int
    BY <1>3, HeightFacts
  <2>3. QED
    BY <1>3, <2>1, <2>2
<1>8. g \in Int /\ h = g + 1 /\ h - 1 = g /\ h >= Genesis /\ h > Genesis /\ g >= Genesis /\ h > g
  BY <1>7, HeightFacts
<1>9. RoundOf(r, h, round)
  <2>1. CASE Block[r][g].type = "missing"
    <3>1. round = currentRound
      BY <1>7, <2>1 DEF SeenRound
    <3>2. currentRound # 0 => g > Genesis /\ Block[r][g - 1].type # "missing"
      BY <1>3, <1>7 DEF RoundOf
    <3>3. g > Genesis => g - 1 \in Genesis..g
      BY <1>8, HeightFacts
    <3>4. \A k \in Genesis..g : Block[r][k].type = "missing"
      BY <2>1, BlockAssumption
    <3>5. QED
      BY <3>1, <3>2, <3>3, <3>4 DEF RoundOf
  <2>2. CASE Block[r][g].type # "missing"
    <3>1. round = Block[r][g].round
      BY <1>7, <2>2 DEF SeenRound
    <3>2. QED
      BY <1>8, <2>2, <3>1 DEF RoundOf
  <2>3. QED
    BY <2>1, <2>2
<1>10. cursor'[r] # None /\ AtLeast(r, h - 1)'
  BY <1>3, <1>5, <1>7, <1>8 DEF AtLeast
<1>11. late = 0 => Ahead(r, h)'
  <2>1. SUFFICES ASSUME late = 0 PROVE h > cursor'[r]
    BY DEF Ahead
  <2>2. cursor[r] \in Int /\ cursor[r] <= g
    <3>1. cursor[r] # None /\ cursor[r] \in Height \cup {None}
      BY <1>3, <1>7 DEF SessionOK, StatsInv, TypeOK
    <3>2. g > cursor[r] \/ (g = Genesis /\ cursor[r] = Genesis)
      BY <1>3, <1>7, <2>1 DEF Ahead
    <3>3. QED
      BY <1>8, <3>1, <3>2, HeightFacts
  <2>3. cursor'[r] = g \/ cursor'[r] = cursor[r]
    <3>1. cursor'[r] = IF s.advances /\ r = s.runtime THEN s.height ELSE cursor[r]
      BY <1>3, <1>4, ApplyFacts DEF StatsInv
    <3>2. QED
      BY <1>3, <1>7, <3>1
  <2>4. QED
    BY <1>8, <2>2, <2>3
<1>12. Loop(h, round)
  BY <1>1, <1>7
<1>13. JobType' /\ JobInv'
  <2>1. TypeOK /\ JobInv /\ pc # "idle" /\ latest' = latest /\ late' = late /\ r = current /\ h >= Genesis
    BY <1>1, <1>7, <1>8 DEF StatsInv
  <2>2. QED
    BY <1>9, <1>10, <1>11, <1>12, <2>1, LoopFacts
<1>14. OthersType'
  BY <1>1, OthersKept DEF StatsInv, TypeOK
<1>15. QED
  BY <1>5, <1>6, <1>13, <1>14, StatsInvFrom

LEMMA SaveAndDieStep ==
  ASSUME StatsInv, SaveAndDie
  PROVE  StatsInv'
<1>1. /\ pc = "save" /\ UNCHANGED <<latest, inflight, late>> /\ Apply(Opened)
      /\ Fault /\ Return
  BY DEF SaveAndDie
<1>2. PICK s : s = Opened
  OBVIOUS
<1>3. /\ s \in Session /\ SessionOK(s)
      /\ s.counts => s.advances /\ Counted(s.runtime, s.height)
      /\ late = 0 => Ahead(s.runtime, s.height)
  BY <1>1, <1>2, OpenedFacts
<1>4. Apply(s)
  BY <1>1, <1>2
<1>5. TablesType' /\ CursorInv' /\ SessionInv'
  BY <1>1, <1>3, <1>4, ApplyStep
<1>6. OnceInv'
  BY <1>1, <1>3, <1>4, ApplyOnce
<1>7. JobType' /\ JobInv'
  BY <1>1, ReturnFacts
<1>8. OthersType'
  BY <1>1, OthersKept DEF StatsInv, TypeOK
<1>9. QED
  BY <1>5, <1>6, <1>7, <1>8, StatsInvFrom

LEMMA SaveUndecidedStep ==
  ASSUME StatsInv, SaveUndecided
  PROVE  StatsInv'
<1>1. /\ pc = "save" /\ latest' = latest /\ UNCHANGED tables /\ inflight' = inflight \cup {Opened}
      /\ Fault /\ Return /\ late < MaxLate /\ late' = late + 1
  BY DEF SaveUndecided
<1>2. PICK s : s = Opened
  OBVIOUS
<1>3. s \in Session /\ SessionOK(s)
  BY <1>1, <1>2, OpenedFacts
<1>4. inflight' = inflight \cup {s}
  BY <1>1, <1>2
<1>5. latest' \in Height /\ latest <= latest'
  BY <1>1, LatestFacts DEF StatsInv, TypeOK
<1>6. TablesType' /\ CursorInv' /\ TablesKept
  BY <1>1, <1>5, TablesSame
<1>7. SessionInv'
  <2>1. \A x \in inflight' : x \in inflight \/ (x \in Session /\ SessionOK(x))
    BY <1>3, <1>4
  <2>2. QED
    BY <1>5, <1>6, <2>1, SessionInvStep DEF StatsInv
<1>8. late' \in 0..MaxLate /\ late' # 0
  BY <1>1, HeightFacts DEF StatsInv, TypeOK
<1>9. OnceInv'
  BY <1>8 DEF OnceInv
<1>10. OthersType'
  <2>1. faults' \in 0..MaxFaults
    BY <1>1, HeightFacts DEF StatsInv, TypeOK, Fault
  <2>2. inflight' \subseteq Session
    BY <1>3, <1>4 DEF StatsInv, TypeOK
  <2>3. QED
    BY <1>5, <1>8, <2>1, <2>2 DEF OthersType
<1>11. JobType' /\ JobInv'
  BY <1>1, ReturnFacts
<1>12. QED
  BY <1>6, <1>7, <1>9, <1>10, <1>11, StatsInvFrom

LEMMA DecideStep ==
  ASSUME StatsInv, Decide
  PROVE  StatsInv'
<1>1. PICK s \in inflight :
        /\ inflight' = inflight \ {s}
        /\ Apply(s) \/ UNCHANGED tables
        /\ UNCHANGED <<latest, faults, late>> /\ UNCHANGED job
  BY DEF Decide
<1>2. s \in Session /\ SessionOK(s) /\ inflight' \subseteq inflight /\ late # 0
  BY <1>1 DEF StatsInv, TypeOK, SessionInv, SessionOK, OnceInv
<1>3. latest' \in Height /\ latest <= latest'
  BY <1>1, LatestFacts DEF StatsInv, TypeOK
<1>4. TablesType' /\ TablesKept /\ CursorInv' /\ SessionInv'
  <2>1. CASE Apply(s)
    BY <1>1, <1>2, <2>1, ApplyStep
  <2>2. CASE UNCHANGED tables
    BY <1>2, <1>3, <2>2, TablesSame
  <2>3. QED
    BY <1>1, <2>1, <2>2
<1>5. OnceInv'
  BY <1>1, <1>2 DEF OnceInv
<1>6. JobType' /\ JobInv'
  BY <1>1, <1>2, <1>3, <1>4, JobInvKept DEF StatsInv
<1>7. OthersType'
  BY <1>1, <1>2, OthersKept DEF StatsInv, TypeOK
<1>8. QED
  BY <1>4, <1>5, <1>6, <1>7, StatsInvFrom

LEMMA StatsStep ==
  ASSUME StatsInv, [StatsNext]_statsVars
  PROVE  StatsInv'
<1>1. CASE Grow
  BY <1>1, GrowStep
<1>2. CASE GetStatus
  BY <1>2, GetStatusStep
<1>3. CASE FindCursor
  BY <1>3, FindCursorStep
<1>4. CASE InsertCursor
  BY <1>4, InsertCursorStep
<1>5. CASE InsertCursorAndDie
  BY <1>5, InsertCursorAndDieStep
<1>6. CASE Save
  BY <1>6, SaveStep
<1>7. CASE SaveFails
  BY <1>7, SaveFailsStep
<1>8. CASE SaveAndDie
  BY <1>8, SaveAndDieStep
<1>9. CASE SaveUndecided
  BY <1>9, SaveUndecidedStep
<1>10. CASE Decide
  BY <1>10, DecideStep
<1>11. CASE Fail
  BY <1>11, FailStep
<1>12. CASE UNCHANGED statsVars
  BY <1>12, StutterStep
<1>13. QED
  BY <1>1, <1>2, <1>3, <1>4, <1>5, <1>6, <1>7, <1>8, <1>9, <1>10, <1>11, <1>12
     DEF StatsNext, Run

LEMMA StatsInvIsEnough ==
  ASSUME StatsInv
  PROVE  CountedExactlyOnce
<1>1. ASSUME NEW r \in Runtime, cursor[r] # None, NEW e \in RowsOf[r], NEW c \in Column
      PROVE  counters[r][e][c] >= TotalGain(r, e, c,
               {h \in (Genesis + 1)..cursor[r] : NewRound(r, h) /\ Counted(r, h)})
  BY <1>1 DEF StatsInv, CursorInv, AtLeast, NewUpTo
<1>2. ASSUME late = 0, NEW r \in Runtime, NEW e \in Entities, NEW c \in Column
      PROVE  counters[r][e][c] <= TotalGain(r, e, c,
               {h \in Genesis..latest : Counted(r, h) /\ cursor[r] # None /\ h <= cursor[r]})
  <2> DEFINE H == {h \in Genesis..latest : Counted(r, h) /\ cursor[r] # None /\ h <= cursor[r]}
  <2>1. counters[r][e][c] <= IF cursor[r] = None THEN 0 ELSE TotalGain(r, e, c, AllUpTo(r, cursor[r]))
    BY <1>2 DEF StatsInv, OnceInv, AtMost
  <2>2. CASE cursor[r] = None
    <3>1. H = {}
      BY <2>2
    <3>2. TotalGain(r, e, c, {}) = 0
      BY TotalFacts
    <3>3. QED
      BY <2>1, <2>2, <3>1, <3>2
  <2>3. CASE cursor[r] # None
    <3>1. cursor[r] \in Height /\ cursor[r] <= latest /\ latest \in Height
      BY <2>3 DEF StatsInv, CursorInv, TypeOK
    <3>2. PICK k \in Int, l \in Int : k = cursor[r] /\ l = latest /\ k <= l /\ k # None
      BY <2>3, <3>1, HeightFacts
    <3>3. {h \in Genesis..l : Counted(r, h) /\ k # None /\ h <= k} = {h \in Genesis..k : Counted(r, h)}
      BY <3>2, HeightFacts
    <3>4. H = AllUpTo(r, k)
      BY <3>2, <3>3 DEF AllUpTo
    <3>5. QED
      BY <2>1, <2>3, <3>2, <3>4
  <2>4. QED
    BY <2>2, <2>3
<1>3. TypeOK
  BY DEF StatsInv
<1>4. QED
  BY <1>1, <1>2, <1>3 DEF CountedExactlyOnce

(* The counters of RuntimeStats miss no new round up to the cursor, and    *)
(* count no height twice unless a COMMIT is decided late, for every number *)
(* of ParaTimes and of heights, every committee and every order of         *)
(* failures (runtime_task.go:434-746).                                     *)
THEOREM CountersCorrect == StatsSpec => []CountedExactlyOnce
<1>1. StatsInit => StatsInv
  BY StatsInitially
<1>2. StatsInv /\ [StatsNext]_statsVars => StatsInv'
  BY StatsStep
<1>3. StatsInv => CountedExactlyOnce
  BY StatsInvIsEnough
<1>4. QED
  BY <1>1, <1>2, <1>3, PTL DEF StatsSpec
=============================================================================
