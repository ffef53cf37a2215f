----------------------------- MODULE EscrowStats -----------------------------
(***************************************************************************)
(* The job EscrowStatsSync: every five minutes it stores, for each day     *)
(* from the newest day in table escrow_stats to today and each validator,  *)
(* the escrow at the last stored block up to that day's midnight.  The     *)
(* block table it reads is filled by BlockScanner, which may lag.          *)
(***************************************************************************)
EXTENDS Faults, Integers, Sequences, FiniteSets, FiniteSetsExt

CONSTANTS
  Address,    \* entity addresses that may be validators
  Listed,     \* the validators of table validator at the start
  Back,       \* 35: days before today the table starts with
  MaxDay,     \* bound: the last day; the chain starts on day 0
  MaxBlocks   \* bound: blocks the chain produces

ASSUME DayAssumption == Listed \subseteq Address /\ Back \in Nat /\ MaxDay \in Nat

VARIABLES
  today,      \* the day it is
  born,       \* chain: born[h], the first midnight block h is not after
  indexed,    \* database: blocks 1..indexed are stored
  validators, \* database: the entities in table validator
  stats,      \* database: the rows of table escrow_stats
  es          \* EscrowStatsSync

escrowVars == <<today, born, indexed, validators, stats, es, faults>>

EsIdle == [pc |-> "idle", today |-> 0, day |-> 0, listed |-> {}, todo |-> {}, height |-> 0]

EscrowInit ==
  /\ today = 0
  /\ born = <<1>>
  /\ indexed = 0
  /\ validators = Listed
  /\ stats = {}
  /\ es = EsIdle
-----------------------------------------------------------------------------
NextDay ==
  /\ today < MaxDay
  /\ today' = today + 1
  /\ UNCHANGED <<born, indexed, validators, stats, es, faults>>

(* A block of today, or of its midnight unless there is one of today.      *)
Produce ==
  /\ Len(born) < MaxBlocks
  /\ \E day \in {today, today + 1} : day >= born[Len(born)] /\ born' = Append(born, day)
  /\ UNCHANGED <<today, indexed, validators, stats, es, faults>>

(* BlockScanner stores the next block. *)
IndexBlock ==
  /\ indexed < Len(born)
  /\ indexed' = indexed + 1
  /\ UNCHANGED <<today, born, validators, stats, es, faults>>

(* NodeScanner inserts a validator. *)
List(v) ==
  /\ v \notin validators
  /\ validators' = validators \cup {v}
  /\ UNCHANGED <<today, born, indexed, stats, es, faults>>
-----------------------------------------------------------------------------
(* The blocks FindOneByTime chooses the newest of: those that are not      *)
(* after the midnight the day starts with.                                 *)
BlocksBefore(day) == {h \in 1..indexed : born[h] <= day}

(* Mutant of ResumeDay: on to the day after the newest one.                *)
ResumeDayAfter == IF stats = {} THEN today - Back ELSE Max({r.date : r \in stats}) + 1

(* The newest day of any validator, which may lack some of them. *)
ResumeDay == IF stats = {} THEN today - Back ELSE Max({r.date : r \in stats})

(* The clock, FindLatestOne and FindAll. *)
EscrowStart ==
  /\ es.pc = "idle"
  /\ es' = [EsIdle EXCEPT !.pc = "block", !.today = today, !.day = ResumeDay, !.listed = validators]
  /\ UNCHANGED <<today, born, indexed, validators, stats, faults>>

(* FindOneByTime.  Without a block there is no height to read: a panic.    *)
EscrowBlock ==
  /\ es.pc = "block" /\ es.day <= es.today
  /\ es' = IF BlocksBefore(es.day) = {} THEN EsIdle
           ELSE [es EXCEPT !.pc = "rows", !.height = Max(BlocksBefore(es.day)), !.todo = es.listed]
  /\ UNCHANGED <<today, born, indexed, validators, stats, faults>>

EscrowDone ==
  /\ es.pc = "block" /\ es.day > es.today
  /\ es' = EsIdle
  /\ UNCHANGED <<today, born, indexed, validators, stats, faults>>

(* Mutant of HasRow: only the height is looked up.                         *)
HasRowOfHeight(v) == \E r \in stats : r.address = v /\ r.height = es.height

(* A validator that has a row of the same height, or of the same day, is   *)
(* left as it is.                                                          *)
HasRow(v) == \E r \in stats : r.address = v /\ (r.height = es.height \/ r.date = es.day)

(* The Account at the height, then the Insert. *)
SaveStats(v) ==
  /\ es.pc = "rows" /\ v \in es.todo
  /\ stats' = IF HasRow(v) THEN stats
              ELSE stats \cup {[address |-> v, height |-> es.height, date |-> es.day]}
  /\ es' = [es EXCEPT !.todo = @ \ {v}]
  /\ UNCHANGED <<today, born, indexed, validators, faults>>

FollowingDay ==
  /\ es.pc = "rows" /\ es.todo = {}
  /\ es' = [es EXCEPT !.pc = "block", !.day = @ + 1]
  /\ UNCHANGED <<today, born, indexed, validators, stats, faults>>

EscrowFails ==
  /\ Fault
  /\ es.pc # "idle"
  /\ es' = EsIdle
  /\ UNCHANGED <<today, born, indexed, validators, stats>>

EscrowStatsSync ==
  \/ EscrowStart \/ EscrowBlock \/ EscrowDone \/ FollowingDay
  \/ \E v \in Address : SaveStats(v)

EscrowNext ==
  \/ NextDay
  \/ Produce
  \/ IndexBlock
  \/ \E v \in Address : List(v)
  \/ EscrowStatsSync
  \/ EscrowFails
-----------------------------------------------------------------------------
(* Properties.                                                             *)

(* The history of a validator has one row per day, and a later day has a   *)
(* greater height, although runs are cut short, days are looked at again,  *)
(* and the block found for a day changes while BlockScanner catches up     *)
(* (validator_task.go:685-709).                                            *)
HeightsFollowDates ==
  \A r, s \in stats :
    r.address = s.address /\ r # s => r.date # s.date /\ (r.date < s.date => r.height < s.height)

(* Once the days and the failures are over every validator has a row of    *)
(* today, or one of the block that stands for today; the only way out is   *)
(* that no block is stored up to the day to resume with, which ends        *)
(* every run in a panic (validator_task.go:673-690).                       *)
EscrowCatchesUp ==
  <>[](BlocksBefore(ResumeDay) # {} =>
         \A v \in validators : \E r \in stats :
           r.address = v /\ (r.date = today \/ r.height = Max(BlocksBefore(today))))
=============================================================================
