------------------------------ MODULE SignStats ------------------------------
(***************************************************************************)
(* Who signed how many blocks.  DailyJob refreshes the materialized views, *)
(* ValidatorConsensusSync counts the signatures of recent heights, and the *)
(* job SignStatsCacheJob of the API puts, for each validator and day, the  *)
(* blocks of the day and those that the validator signed in a cache, from  *)
(* a view and a table that are read one after the other and while          *)
(* BlockScanner goes on.  It runs from cron and, once, from a goroutine    *)
(* that starts with the process.                                           *)
(***************************************************************************)
EXTENDS Faults, Integers, Sequences, FiniteSets, SequencesExt, FiniteSetsExt

CONSTANTS
  Chains,       \* bound: the chains, sequences of [day, signers]
  Validators,   \* the validators in the order FindAll returns them
  NodesOf,      \* NodesOf[v], the nodes of the entity in table node
  WindowDays,   \* 12: days before now that the view and the signatures cover
  ViewLimit,    \* 11: days that are read from the view
  UptimeHeight  \* 1000: heights the uptime is counted over

ASSUME SignAssumption ==
  /\ WindowDays \in Nat \ {0} /\ ViewLimit \in Nat \ {0} /\ UptimeHeight \in Nat \ {0}
  /\ Validators \in Seq(DOMAIN NodesOf)
  /\ \A v \in ToSet(Validators) : IsFiniteSet(NodesOf[v])

(* Blocks are in the order of their time.                                  *)
ASSUME ChainAssumption ==
  \A b \in Chains :
    /\ b \in Seq(ToSet(b)) /\ b # <<>>
    /\ \A h \in DOMAIN b : b[h].day \in Nat /\ \A g \in 1..h : b[g].day <= b[h].day

VARIABLES
  chain,      \* the whole chain, the blocks to come included
  height,     \* its last block so far
  cut,        \* blocks 1..cut are more than WindowDays old
  stored,     \* database: signatures of blocks 1..stored
  nodeHeight, \* database: the cursor of NodeScanner
  view,       \* database: the blocks of view block_count_days, cut + 1 .. upto
  uptime,     \* database: signs_uptime of each validator, and the height it is of
  sync,       \* ValidatorConsensusSync
  cache,      \* API: ValidatorSignsStatsCache
  job         \* API: the two refreshers

signVars == <<chain, height, cut, stored, nodeHeight, view, uptime, sync, cache, job, faults>>

chainVars == <<chain, height, cut>>
database  == <<stored, nodeHeight>>

Refresher == {"init", "cron"}

JobIdle  == [pc |-> "idle", i |-> 0, days |-> None]
SyncIdle == [of |-> None, todo |-> <<>>]

SignInit ==
  /\ chain \in Chains
  /\ height = 1 /\ cut = 0
  /\ stored = 0 /\ nodeHeight = 0
  /\ view = [upto |-> 0, cut |-> 0]
  /\ uptime = [v \in ToSet(Validators) |-> [of |-> 0, signs |-> 0]]
  /\ sync = SyncIdle
  /\ cache = [v \in ToSet(Validators) |-> None]
  /\ job = [r \in Refresher |-> [JobIdle EXCEPT !.pc = IF r = "init" THEN "ready" ELSE "idle"]]
-----------------------------------------------------------------------------
(* The chain, the clock and the scanners.                                  *)

today == chain[height].day

(* A block is produced; on a new day the days before the window are over.  *)
Mine ==
  /\ height < Len(chain)
  /\ height' = height + 1
  /\ cut' = Max({cut} \cup {h \in 1..height : chain[h].day < chain[height + 1].day - WindowDays})
  /\ UNCHANGED <<chain, database, view, uptime, sync, cache, job, faults>>

(* The hour of the day moves on: a block of the first day leaves the window. *)
Age ==
  /\ cut < height /\ chain[cut + 1].day <= today - WindowDays
  /\ cut' = cut + 1
  /\ UNCHANGED <<chain, height, database, view, uptime, sync, cache, job, faults>>

(* BlockScanner stores the signatures of a block. *)
StoreSignatures ==
  /\ stored < height
  /\ stored' = stored + 1
  /\ UNCHANGED <<chainVars, nodeHeight, view, uptime, sync, cache, job, faults>>

(* NodeScanner moves its cursor, apart from BlockScanner. *)
ScanNodes ==
  /\ nodeHeight < height
  /\ nodeHeight' = nodeHeight + 1
  /\ UNCHANGED <<chainVars, stored, view, uptime, sync, cache, job, faults>>

(* Signatures of the nodes, one for each node and height. *)
Signatures(nodes, heights) ==
  UNION {{<<h, n>> : n \in nodes \cap chain[h].signers} : h \in heights}

SignedHeights(nodes, heights) == {h \in heights : nodes \cap chain[h].signers # {}}

OfDay(day) == {h \in DOMAIN chain : chain[h].day = day}
-----------------------------------------------------------------------------
(* DailyJob refreshes four views, one after the other.  One that cannot    *)
(* be refreshed keeps its rows, and the next one is tried; the others are  *)
(* not read here.                                                          *)
DailyJob ==
  /\ view' = [upto |-> stored, cut |-> cut]
  /\ UNCHANGED <<chainVars, database, uptime, sync, cache, job, faults>>
-----------------------------------------------------------------------------
(* The uptime of ValidatorConsensusSync.                                   *)

(* Mutant of CountSigns: no height is the last one.                        *)
CountSignsFrom(nodes, from) ==
  Cardinality(Signatures(nodes, {h \in 1..stored : from <= 0 \/ h > from}))

(* A height above zero to start from bounds the heights on both sides, any *)
(* other on none.                                                          *)
CountSigns(nodes, from) ==
  Cardinality(Signatures(nodes,
                         {h \in 1..stored : from > 0 => h > from /\ h <= from + UptimeHeight}))

(* The height after the cursor, and FindAll.                               *)
SyncStart ==
  /\ sync = SyncIdle
  /\ nodeHeight > 0
  /\ sync' = [of |-> nodeHeight + 1, todo |-> Validators]
  /\ UNCHANGED <<chainVars, database, view, uptime, cache, job, faults>>

(* A validator without nodes keeps its columns. *)
SyncUptime ==
  /\ sync.todo # <<>>
  /\ LET v == Head(sync.todo)
     IN  uptime' = IF NodesOf[v] = {} THEN uptime
                   ELSE [uptime EXCEPT ![v] = [of    |-> sync.of,
                                               signs |-> CountSigns(NodesOf[v], sync.of - UptimeHeight)]]
  /\ sync' = IF Len(sync.todo) = 1 THEN SyncIdle ELSE [sync EXCEPT !.todo = Tail(@)]
  /\ UNCHANGED <<chainVars, database, view, cache, job, faults>>

(* A query fails: the validators that are left keep their columns.         *)
SyncFails ==
  /\ Fault
  /\ sync # SyncIdle
  /\ sync' = SyncIdle
  /\ UNCHANGED <<chainVars, database, view, uptime, cache, job>>
-----------------------------------------------------------------------------
(* SignStatsCacheJob.                                                      *)

(* The newest days of block_count_days: the blocks that were stored and in *)
(* the window when the view was refreshed.                                 *)
FindBlockCountDays ==
  LET days    == {chain[h].day : h \in view.cut + 1 .. view.upto}
      newest  == {d \in days : Cardinality({e \in days : e > d}) < ViewLimit}
  IN  [d \in newest |-> Cardinality(OfDay(d) \cap (view.cut + 1 .. view.upto))]

(* The heights of a day signed by one of the nodes, and in the window now. *)
ValidatorSignStats(nodes) == SignedHeights(nodes, cut + 1 .. stored)

Skipped(v) == NodesOf[v] # {} /\ ValidatorSignStats(NodesOf[v]) = {}

(* Mutant of PastDays: the newest day as well.                               *)
EveryDay(days) == DOMAIN days

(* days[0], the newest day, is left out: it is not over.                   *)
PastDays(days) == {d \in DOMAIN days : \E e \in DOMAIN days : e > d}

(* Mutant of Skips: the last validator is not reached.                     *)
SkipsLast(r) ==
  IF job[r].i < Len(Validators) - 1 THEN [JobIdle EXCEPT !.pc = "nodes", !.i = job[r].i + 1] ELSE JobIdle

(* The next validator; after the last one the run ends. *)
Skips(r) ==
  IF job[r].i < Len(Validators) THEN [JobIdle EXCEPT !.pc = "nodes", !.i = job[r].i + 1] ELSE JobIdle

JobStart(r) ==
  /\ job[r].pc = "ready" \/ (r = "cron" /\ job[r].pc = "idle")
  /\ job' = [job EXCEPT ![r] = Skips(r)]
  /\ UNCHANGED <<chainVars, database, view, uptime, sync, cache, faults>>

NoStats == [cutAt |-> 0, days |-> {}]

FindNodes(r) ==
  /\ job[r].pc = "nodes"
  /\ LET v == Validators[job[r].i]
     IN  IF NodesOf[v] = {}
         THEN /\ cache' = [cache EXCEPT ![v] = NoStats]
              /\ job' = [job EXCEPT ![r] = Skips(r)]
         ELSE /\ job' = [job EXCEPT ![r].pc = "signs", ![r].days = FindBlockCountDays]
              /\ UNCHANGED cache
  /\ UNCHANGED <<chainVars, database, view, uptime, sync, faults>>

(* Without a signature in the window the cache is left as it is.           *)
SetStats(r) ==
  /\ job[r].pc = "signs"
  /\ LET v     == Validators[job[r].i]
         days  == job[r].days
         signs == ValidatorSignStats(NodesOf[v])
         stats == {[day |-> d, expected |-> days[d], actual |-> Cardinality(signs \cap OfDay(d))] :
                     d \in PastDays(days)}
     IN  IF Skipped(v)
         THEN UNCHANGED cache
         ELSE cache' = [cache EXCEPT ![v] = [cutAt |-> cut, days |-> stats]]
  /\ job' = [job EXCEPT ![r] = Skips(r)]
  /\ UNCHANGED <<chainVars, database, view, uptime, sync, faults>>

(* A query fails: the next validator. *)
JobSkips(r) ==
  /\ Fault
  /\ job[r].pc \in {"nodes", "signs"}
  /\ job' = [job EXCEPT ![r] = Skips(r)]
  /\ UNCHANGED <<chainVars, database, view, uptime, sync, cache>>

(* FindAll fails, or the process dies and takes the cache with it.         *)
ApiFails ==
  /\ Fault
  /\ \/ /\ \E r \in Refresher : job[r].pc = "nodes" /\ job[r].i = 1
                                /\ job' = [job EXCEPT ![r] = JobIdle]
        /\ UNCHANGED cache
     \/ /\ job' = [r \in Refresher |-> [JobIdle EXCEPT !.pc = IF r = "init" THEN "ready" ELSE "idle"]]
        /\ cache' = [v \in ToSet(Validators) |-> None]
  /\ UNCHANGED <<chainVars, database, view, uptime, sync>>

(* An hour after it was set. *)
Expire(v) ==
  /\ cache[v] # None
  /\ cache' = [cache EXCEPT ![v] = None]
  /\ UNCHANGED <<chainVars, database, view, uptime, sync, job, faults>>

SignStatsCacheJob(r) == JobStart(r) \/ FindNodes(r) \/ SetStats(r)

(* ValidatorConsensusSync and SignStatsCacheJob share the table only.      *)
UptimeNext == Mine \/ StoreSignatures \/ ScanNodes \/ SyncStart \/ SyncUptime \/ SyncFails

SignNext ==
  \/ Mine \/ Age \/ StoreSignatures
  \/ DailyJob
  \/ \E r \in Refresher : SignStatsCacheJob(r) \/ JobSkips(r)
  \/ ApiFails
  \/ \E v \in ToSet(Validators) : Expire(v)
-----------------------------------------------------------------------------
(* Properties.                                                             *)

(* What the cache says of a day never changes again: no day is listed that *)
(* is not over, none with more blocks signed than there are, and all but   *)
(* the oldest have every block, although view and table are read at        *)
(* different times, the view at most once an hour, and while BlockScanner  *)
(* and the window move (cacherefresh.go:52-88).                            *)
CachedDaysAreFinal ==
  \A v \in ToSet(Validators) : cache[v] # None =>
    \A s \in cache[v].days :
      /\ s.actual <= s.expected
      /\ \/ \A t \in cache[v].days : s.day <= t.day
         \/ s.expected = Cardinality(OfDay(s.day))
      /\ (\A h \in OfDay(s.day) : h > cache[v].cutAt)
           => s.actual = Cardinality(SignedHeights(NodesOf[v], OfDay(s.day)))

(* The uptime of a validator counts the UptimeHeight heights up to the one *)
(* that NodeScanner had reached, at most one signature for each node and   *)
(* height, although BlockScanner may be ahead; a chain that is younger     *)
(* than UptimeHeight is left out, there both bounds are dropped            *)
(* (validator_task.go:393, blocksignaturemodel.go:98-102).                 *)
UptimeOfRecentHeights ==
  \A v \in ToSet(Validators) :
    LET u == uptime[v]
    IN  u.of > UptimeHeight =>
          u.signs <= Cardinality(Signatures(NodesOf[v], DOMAIN chain \cap (u.of - UptimeHeight + 1 .. u.of)))
=============================================================================
