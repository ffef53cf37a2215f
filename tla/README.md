# A TLA+ model of oasisscan-backend

oasisscan-backend is the back end of an explorer for the Oasis network. One
process, *job*, copies the consensus chain and the ParaTimes (runtimes) into
PostgreSQL; another, *api*, answers the web front end from that database, from
an Oasis node and from in-memory caches.

The correctness of the whole rests on the jobs: they run every few seconds, call
two remote systems that fail and lag, are killed by every deployment, and
remember nothing but what they wrote to the database before. The models are
about that: what the tables hold after any sequence of runs, failures, restarts
and answers that were lost.

Contents: [1 Inventory](#1-inventory) · [2 Plan](#2-plan) ·
[3 Modelling conventions](#3-modelling-conventions) ·
[4 Modules](#4-modules) · [5 Runs](#5-runs) · [6 Proofs](#6-proofs) ·
[7 Findings](#7-findings) · [8 What is not modelled](#8-what-is-not-modelled)

## 1 Inventory

### The parts and how they interact

```
 Oasis node  <--gRPC--  job process                      api process  --gRPC--> Oasis node
 (GetStatus,            cron: 13 entries, each           routes/handlers/logic
  GetBlock, ...)        DelayIfStillRunning + Recover    LocalCache, SignStatsCacheJob
                          |  one goroutine per tick          |
                          v                                  v
                        PostgreSQL: block, block_signature, transaction, staking_event,
                        node, validator, delegator, reward, escrow_stats, runtime,
                        runtime_round, runtime_transaction, runtime_node, runtime_stats,
                        proposal, vote, system_property (cursors), materialized views
```

There is no other channel: jobs talk to each other and to the API through the
tables only. A job never runs twice at a time (`DelayIfStillRunning`), but all
thirteen run beside each other.

| Component | State it keeps | Operations | What is hard | What makes it correct |
|---|---|---|---|---|
| `BlockScanner` (block_task.go:25) | tables block, block_signature, transaction; no cursor | one transaction per height | lost COMMIT, lagging node, blocks it cannot decode | stored heights are a prefix of the chain, each whole, each row once; every block is stored in the end |
| `StakingEventsScanner` (block_task.go:250) | table staking_event, a cursor | insert an event, move the cursor | no transaction; statements that land late | cursor never passes an event that is not stored; no event twice |
| cursors in `system_property` | one row per job (and ParaTime) | find, insert, update | the retry of a lost statement | work behind the cursor is done and stays done |
| `NodeScanner` (validator_task.go:28) | tables node and validator, a cursor | record node, insert or update validator row | resume after the cursor; rows of two tables; node order | no registered node missed; addresses of a row belong together |
| `ValidatorInfoSync` (:181) | validator row (name, icon, ...) | read row, HTTP calls, write the full row | another job writes the row meanwhile | a lost update is made good again |
| `ValidatorConsensusSync` (:278) | validator row (rank, escrow, uptime, number of delegators, ...) | the same for all rows in rank order | the same; returns at the first error; counts rows of tables that other jobs replace | ranks are a permutation; a lost update is made good again; the uptime is that of the recent heights |
| `DelegatorSync` (:435) | table delegator | delete all, insert all, one transaction | remote calls inside the transaction | readers see one height's delegators, never a mix |
| `DelegatorRewardSync` (:497) | table reward, a cursor | prune, then one epoch after another | retries, pruning, batches, arithmetic | no holes, rewards counted once and from the epoch before |
| `EscrowStatsSync` (:664) | table escrow_stats | one row per validator and day | resumes at the last stored day; the block of a day changes while blocks are stored late; nil block | one row per day and validator, later days at greater heights; today is reached |
| `RuntimeRoundSync`, `RuntimeTransactionSync` (runtime_task.go:74, :201) | tables runtime_round, runtime_transaction, a cursor per ParaTime | one round after another, one ParaTime after another | no transaction; one bad item ends the run for all | nothing skipped, nothing twice, nobody starved |
| `RuntimeStats` (runtime_task.go:405) | tables runtime_stats, runtime_node, a cursor per ParaTime | one transaction per height | increments are not idempotent; the last round lives in memory | every election counted, once |
| `RuntimeInfoSync` (runtime_task.go:33) | table runtime | insert ParaTimes | not scheduled anywhere | - |
| `ProposalSync`, `VoteSync` (governance_task.go) | tables proposal, vote | insert or refresh, row by row | votes that weigh nothing; epochs without a block; a pass cut short | the rows of a proposal share one total; they settle when the ballot is closed |
| `DailyJob` (daily_task.go) | materialized views | four REFRESH | the view is older than the table it is put beside | days are shown when they are over |
| cron (job.go) | which job runs | ticks, delays, recovers | a job slower than its period | one run per job at a time; runs keep coming |
| `LocalCache` (api/internal/svc/cache.go), `SignStatsCacheJob` (cacherefresh.go) | cached answers, signed blocks per validator and day | take, set, expire, refresh | expiry, errors and panics under way, a request inside another one, two refreshers | answers never go back in time; every request is answered; a day in the cache is final |
| API queries (`api/internal/logic`) | none | read and compute | page and count are separate queries, written twice; rows arrive while a client walks a list | the total covers the page; a walk misses nothing |
| generated row models, gRPC stubs, routes, helpers | none | single statements, decoding | - | - |

### The hard behaviours

PROJECT.json lists each hazard at its line. By kind:

* **lost answers** - a statement or COMMIT whose answer never arrives may have
  been executed, may be executed later, or never (block_task.go:156, :356;
  runtime_task.go:475);
* **crashes between statements** - only BlockScanner, RuntimeStats and
  DelegatorSync group their writes in transactions;
* **lagging nodes** - `GetStatus` may report a lower height than a run ago;
* **poison** - an input that cannot be decoded ends every run that meets it
  (block_task.go:70; runtime_task.go:288, :646);
* **lost updates** - three jobs read, hold and write back whole validator rows;
* **memory that is lost with the run** - `currentRound` of RuntimeStats;
* **snapshots** - tables that copy the chain at one moment, statement by
  statement, while it moves on (validator_task.go:448; governance_task.go:186);
* **two sources for one answer** - a page and its total, a view and a table, the
  cache and what it is made from (transactionmodel.go:199; cacherefresh.go:52);
* **boundaries** - a chain younger than the reward window, genesis itself,
  zero voting power, uptime windows that start below height one.

## 2 Plan

The order follows what other parts depend on: the scanners first, because the
API and the other jobs read what they store.

| # | Module | Status |
|---|---|---|
| 1 | `ChainIndex` (abstract), `BlockScanner`, proofs | done |
| 2 | `Checkpoint` (abstract), `StakingEventsScanner`, proofs | done |
| 3 | `NodeScanner`, which implements `Checkpoint` but for genesis | done, rows and refinement proved |
| 4 | `RuntimeStats` | done, its counters proved |
| 5 | `RewardSync` | done, all safety proved |
| 6 | `RuntimeSync`, whose cursors implement `Checkpoint` | done, all safety and the refinement proved |
| 7 | `ValidatorTable`: the three writers of validator rows, composed; ranks, and what each column recurrently is (`[]<>`) | done, both invariants proved |
| 8 | `Governance`: ProposalSync and VoteSync, stakes at the closing epoch, votes that weigh nothing, votes cast again; the page that weighs them itself | done, both invariants proved |
| 9 | `Delegations`: DelegatorSync, one transaction against readers and against the count of its rows; the jobs that put an old count back | done, the snapshot proved |
| 10 | `EscrowStats`: day and height keys, resume, blocks that are stored late | done, the history proved |
| 11 | `SignStats`: the uptime, DailyJob's view, `SignStatsCacheJob` | done, both invariants proved |
| 12 | `Take`: `LocalCache` and the endpoints that use it | done, freshness proved |
| 13 | `Pages`: the lists of the API, page and total as two queries, rows whose order is not settled | done, both invariants proved |
| 14 | `SnapshotJobs`, `ApiReads`: 8 to 10 and 11 to 13 put together | done |

Abstract specifications: `ChainIndex` (block tables) and `Checkpoint` (cursors).

Cron gets no module of its own. That one run of a job excludes another, that a tick which
comes too early waits instead of being dropped and that a panic ends the run only are
three lines of a library (`cron.WithChain`, job.go:47); they are the guard of
each job's first action and its fairness. The ticks that pile up behind a slow job start
a run that would have started anyway.

Runs and properties are kept few, so that each says something: when a component
is added, a shallower property gives way to a deeper one.

Every safety invariant the passing runs check is proved (section 6). A reader who wants to go on
would model the walks that `WalkSeesAll` leaves out, those over rows with equal keys first, with what
the code does promise of them.

## 3 Modelling conventions

**One call, one action.** Each job is a program counter `pc` that names the call
the job makes next, its local variables, and the tables it writes. A call to
the node or the database is one action together with the computation that
follows it up to the next call. `Return` resets the locals: a run leaves nothing
behind in memory.

**Failures.** `Fail` stands for any call that returns an error before it had an
effect, and for the process being killed there; every error path in these jobs is a `return`, so both
leave the same state. `...AndDie` actions are calls that took effect before the answer
was lost. `LoseAnswer`/`CommitLost`/`SaveUndecided` leave the statement with
the database, which decides it later, possibly in the middle of the next run
(`Decide`, `Execute`, `Drop`). `GetStaleStatus` is a node that lags. All of them
share the budget `MaxFaults`. `RuntimeStats` and the modules that copy or serve snapshots take
it from `Faults`; in the latter a statement that took effect before its answer was lost is
the step followed by the failure, and statements that land during a later run are not modelled.

**Composition.** Jobs that write the same rows run beside each other in one module
(`ValidatorTable`, `Delegations`; of `SignStats`, the column it fills is written back by others too, see there). `SnapshotJobs` and `ApiReads` put modules
together that share nothing but the node, the database and their failures: none
reads a table another one writes, so the variable `subject` picks the one a behaviour is
about and the others rest. All interleavings of the jobs of one subject are explored; those of jobs that
cannot notice each other would only multiply the states.

**The database.** Unique keys are what the tables in docs/sql/init.sql declare; an
INSERT that meets one fails, and inside a transaction it first waits for an
undecided transaction that holds the key (`Waits`, `Free`). An UPDATE of a row
that does not exist changes nothing and reports no error.

**Data.** Hashes, addresses and rows are model values or keys; timestamps,
amounts (outside `RewardSync`) and JSON are left out, because no condition of the jobs
reads them.

**Fairness.** Weak fairness of a job's own steps (`Scan`, `Run`): cron starts it
every few seconds (`@every 5s`, job.go:50), `DelayIfStillRunning` queues a tick
that comes too early instead of dropping it, `Recover` turns a panic into the
end of the run, and a run itself waits for nothing but answers. Weak fairness of
the database's decisions: PostgreSQL ends the transaction of a client that is
gone. No fairness for the chain (`Grow`), except in `RewardSync`, whose
liveness property speaks of an epoch that has ended. In `SnapshotJobs` each of the five jobs
has its weak fairness, in `ApiReads` each refresher of the sign cache and each
request that is under way (`Serve`). None for what clients ask, for
cache entries that expire, for the clock or for the scanners whose tables these
modules read. Faults are never fair and
limited by `MaxFaults`: liveness says what happens when failures stop.

**Bounds.** `MaxHeight`, `MaxRound` and `MaxEpoch` stop the chain, `MaxFaults` (and
`MaxLate`) limit injected failures; `LastEpoch`, `MaxCasts`, `MaxMoves`, `MaxDay`,
`MaxBlocks`, `MaxRows`, `Chains` and `MaxChanges` limit what the environment does. Three to five heights
suffice because a run only relates a height to its predecessor and to the cursor; two
faults are needed so that a retry can fail too, and to have a late
statement meet a retry.

**Mutants.** A definition preceded by "Mutant of X" is a plausible bug in X; it is
not used by the specification, PROJECT.json says which property it breaks.

## 4 Modules

### ChainIndex

Abstract. `db[h]` turns from no rows to the complete rows of block `h`, lowest
height first, and never changes again. This is what a reader of the API relies on.

### BlockScanner, BlockScannerProofs, MCBlockScanner

Translates `BlockScanner` with `parseMethod` and the three batch inserts.
`latest` is the chain, `Chain[h]` its blocks (the commit with one entry per
validator slot, the transactions), `db[h]` counts the rows per unique key,
`session` is the open transaction, `inflight` those whose COMMIT is undecided.

| Code | Action |
|---|---|
| GetStatus | `GetStatus`, `GetStaleStatus` |
| FindLatestBlock, resume height | `FindLatestBlock`, `NextHeight` |
| GetBlock, GetTransactionsWithResults, decoding, GetEpoch | `Fetch` |
| three inserts in TransactCtx | `InsertSignatures`, `InsertBlock`, `InsertTransactions` |
| COMMIT | `Commit`, `CommitLost`, `Decide` |

The content of a transaction row is not modelled; that parsing may
fail is (`Undecodable`).

### Checkpoint

Abstract. `done` is the set of heights whose work is complete, `resume` where the
next run starts. `done` only grows and `resume` never exceeds what is done. `resume` may
move backwards: a statement from an earlier run may land late.

### StakingEventsScanner, StakingEventsScannerProofs, MCStakingEventsScanner

`rows[<<height, position>>]`, the `cursor`, and `late`, the statements whose answers
were lost. The scan resumes *at* the cursor and looks up each event, so nothing
is inserted twice by one run; the unique key `(height, position)` settles the
race of a late INSERT with its retry. A late cursor UPDATE may move
the cursor back, which only costs repeated work.

### NodeScanner, NodeScannerProofs, MCNodeScanner

`node` is the table in id order, `validator[e]` the row of entity `e` (node id,
node address, consensus address: the columns this job writes), `registry[h]` the
list `GetNodes` returns. `FindLatestNode` is the condition under the comment
"only update latest node info", where latest means first seen last: the row of an entity
that returns to an earlier node keeps the node it replaced. The scan resumes *after* the cursor,
while the cursor is first inserted with the genesis height before genesis is
scanned (validator_task.go:51-61): a failure at that moment skips the genesis height.
`CursorSpec` (the refinement of `Checkpoint`), `RowsAsRegistered` and `EveryNodeIsRecorded`
except genesis for that reason; nodes that stay registered are recorded at the next height anyway. Entity and node address computations
are identities up to encoding and are represented by the keys. A statement of this job
that lands after its run is not modelled separately from one that took effect
before it (`WriteAndDie`).

### ValidatorTable, ValidatorTableProofs, MCValidatorTable

Composes the three jobs that write table validator. All of them read a row, call
remote systems and write *all* columns back, so an overlap loses updates; nothing
in the code prevents it. `Row` has the columns of each job: `address`
(NodeScanner), `file` (ValidatorInfoSync: name, icon, links), `nodes`, `escrow`,
`rank` (ValidatorConsensusSync: what its next pass orders by, and the order). The
other consensus columns are written together with these and nothing is decided by
them.

| Code | Action |
|---|---|
| NodeScanner: GetNodes; FindOneByEntityId; Insert or Update | `ScanList`, `ScanFind`, `ScanSave` |
| ValidatorInfoSync: listing; FindOneByEntityId; download, decoding, Update | `InfoList`, `InfoFind`, `InfoSave`, `InfoEmpty` |
| ValidatorConsensusSync: FindAll; GetStatus; one validator after another | `PassFind`, `PassStatus`, `PassUpdate` |
| an error of one job; a deployment, which restarts all three | `Fail` |

Both loops go through `Roster`, any order in which the registry and the directory list
the entities; `listed` is what the directory held when it was read, and an entity that
is not in it takes a step without effect (`InfoFind`). The order of a pass is another one: that of its own
query (`Orders`). Registry, files and stakes are version numbers and small records that change
`MaxChanges` times. `quiet` and `calm` are history variables, not state of the
code: they say whether a job's copy of a row, an insert, a failure or a change of
stake reached into the last pass or two. Under that condition ranks are a
permutation (`RanksAreAPermutation`) and agree with the stakes stored beside them
(`TwoPassesSettle`: the order is that of the columns the pass *before* stored).
Without it neither holds. `ColumnsFreshAgain` is `[]<>` and not `<>[]`: two jobs
may undo each other's columns for as long as they keep overlapping. It takes for
granted that the chain keeps producing heights, which is what makes NodeScanner
visit a validator again. An UPDATE that PostgreSQL executes after its job was
restarted is not modelled here.

### RuntimeStats, SnapshotJobsProofs, MCRuntimeStats

`counters[r][e][c]` are the counters, `Block[r][h]` the latest block of ParaTime `r`
at consensus height `h` with its committee. `SessionAt` says what the transaction of
a height does, given the last round seen in this run:

* a missing ParaTime, a suspended round or a new round without a committee
  returns before the cursor moves (`Quiet`);
* a header type the job does not know, or a committee without a scheduler, is an
  error and ends the whole run (`Bad`, `SaveFails`);
* a new round adds its committee to the counters (`StatsAfter`) - by UPDATE only,
  see finding 3.

`FindAll` has no ORDER BY, so a run visits the ParaTimes in any order (`Visit`).
The statistics kept only in memory (discrepancies, commitments) are left out:
nothing reads them. The entity of a node is fixed (`EntityOf`).
A scheduler that is a backup worker as well is counted as proposer once per role, as the
loop over the committee does. The upper bound of `CountedExactlyOnce` holds only as long as no COMMIT has been
decided late (`late = 0`): counters are increments, and a COMMIT that is
decided only after the next run has read the cursor and passed its own check is applied on top of
the retry - the code has nothing that would refuse it. `TotalGain` adds up what the heights of a set count.
`BlockAssumption` also says that a ParaTime the chain knows at a height is there at all later
ones: the job meets a missing one before its first block only.

### RewardSync, RewardSyncProofs, MCRewardSync

`pools[e][v]` is the escrow pool of validator `v` at the first block of epoch `e` (its
balance, the number of its shares and who holds them, `PoolAssumption`),
`reward[v][d][e]` the row of table reward. `StakeForShares` is the rounding
division of oasis-core (external), `Reward` the computation of
validator_task.go:603-624. `Cutoff` is `int64(currentEpoch - RewardStatsDays*24)`: on a
chain younger than the window the unsigned difference wraps and the conversion makes
it negative again; the beacon knows no block for it and the run ends
(`Loop`). `Join` is NodeScanner inserting a validator during a run.
Late statements are reduced to those that took effect before the next run
starts (`WriteAndDie`, `SyncSomeAndDie`): a late INSERT is refused by the unique
key, a late DELETE removes what every later run removes as well, and a late cursor UPDATE
costs repeated lookups. Amounts are integers without the limit of int64:
the supply of the network fits.

### RuntimeSync, RuntimeSyncProofs, MCRuntimeSync

One module for `RuntimeRoundSync` and `RuntimeTransactionSync`, which have the same
control and differ in what an item is (the header of a round; its transactions).
They write different tables and different cursors, so composing them would
add no behaviour. `Orders` are the orders in which the ParaTimes may be visited. A
round that is there already is rewritten with its timestamp, which changes nothing that is modelled.
The last normal round is read with the height of `GetStatus`, so it is taken
together with it. `Item` names everything a ParaTime has, `Unreadable` those of it that
cannot be decoded (`UnreadableAssumption`). `Cursor(r)` is the abstract `Checkpoint` of
ParaTime `r`, with its cursor as `resume` and its complete rounds as `done`; `CursorSpec` is
all of them together. The cursor stands at the last complete round, and the next run looks
at that round again.

### Governance

`ballot[p][v]` are the options voter `v` has chosen for proposal `p` so far, on the chain;
`proposal` and `vote` are the tables, `ps` and `vs` the jobs.

| Code | Action |
|---|---|
| ProposalSync: GetStatus and Proposals; one proposal after another | `ListProposals`, `SaveProposal`, `NoProposals` |
| GetEpochBlock fails, times are estimated | `SaveProposalEstimated` |
| VoteSync: GetStatus; FindAllProposals; Votes, GetEpochBlock and Account; Insert or Update | `ReadHeight`, `FindAllProposals`, `WeighVotes`, `StoreVote` |
| GetEpochBlock fails, votes are weighed at genesis | `WeighVotesAtGenesis` |
| GovernanceProposalWithVotes | `ProposalWithVotes`, the answers it may give now |

An epoch that has not begun has no block, and the code goes on with height 0 where the
node takes the genesis block (`WeighedAt`). A percentage is the amount and the total it is `of`: what
matters is which total. The rows of a proposal are a function on the voters that have one
(`WithRow` inserts or updates). Votes that weigh nothing divide zero by zero, and
the division panics (`Weigh`): the run ends there, and since proposals are walked from the
newest on, older ones are never reached again (`Starved`, which
`ClosedVotesSettle` has to except). Two epochs with a stake each and the genesis
block are what the weights can be taken from. Parameter changes of a proposal that cannot be decoded
would end every run of `ProposalSync` at it (governance_task.go:101-104); they are
not modelled, since the chain accepts only proposals whose changes the module they are for has
decoded, so `SaveProposal` has the failures that pass.

### Delegations

`ledger[h][v]` are the delegators of `v` at height `h`, `delegator` the committed rows,
`ds` the job with the rows of its open transaction, `delegators` the column that
`ValidatorConsensusSync` fills from `count(*)` by another statement (`CountByValidator`,
`CountUpdate`). `Delegators(v)` is the page: no rows while the column is
zero. Of a delegation only the delegator matters here. The height is read before
the validators are listed, so a snapshot may have a validator that was inserted in between.

`NodeScanner` and `ValidatorInfoSync` write the column as well, since their `Update` sets every
column of the row they read before (validator_task.go:157, :268; validatormodel_gen.go:125-127):
`copy[w]` is the row job `w` holds, `ReadRow` and `WriteRow` are its two ends,
`PassOver` an empty file. So `DelegatorsCatchUp` claims of the *table* that it is right for good once the
chain rests, and of the *page* only that it is right again and again (`[]<>`): a count that was read
before the last pass may be put back after it, and an old zero empties the list until
the next pass. With `<>[]` for the page TLC finds exactly that. `ValidatorConsensusSync` reads its row
before it counts, but sets the column itself, so its own copy of it does not matter; what an UPDATE does
that PostgreSQL executes after its run is not modelled here.

### EscrowStats

`stats` are the rows `[address, height, date]`. The job starts over with the newest
stored day (`ResumeDay`), takes for each day the newest stored block of before
its midnight (`BlocksBefore`; a block of that very moment counts) and skips a validator that has a row of that height or that day
(`HasRow`). Days are those of UTC; `born[h]` is the first midnight that block `h` is not after.
Without such a block the nil result is dereferenced and the run ends (`EscrowBlock`).

### SnapshotJobs, SnapshotJobsProofs, MCSnapshotJobs

The three modules together, with a `subject`.

### SignStats

The chain is a sequence of blocks with a day and signers, of which `height` are there,
`stored` are indexed and `1..cut` have left the window of twelve days.

| Code | Action |
|---|---|
| DailyJob, the refresh of block_count_days | `DailyJob` |
| ValidatorConsensusSync: cursor and FindAll; CountSigns and Update | `SyncStart`, `SyncUptime` |
| SignStatsCacheJob: FindAll; FindNodes and FindBlockCountDays; ValidatorSignStats and SetWithExpire | `JobStart`, `FindNodes`, `SetStats` |
| a query fails, the next validator; the API dies | `JobSkips`, `ApiFails` |
| the goroutine at the start of the process and cron (oasisscan.go:41) | `Refresher` |

`CountSigns` drops both bounds when the height to start from is not above zero, so on a chain younger than
a thousand blocks the uptime counts every signature there is, those above the
height it is of as well; `UptimeOfRecentHeights` speaks of older chains. The view
leaves out what was too old when it was refreshed, the query what is too old now: of
the oldest day in the cache fewer blocks may be expected than there were
(`CachedDaysAreFinal` excepts that day). The other jobs that write whole rows may put an uptime back
that they read before (`ValidatorTable` and `Delegations` are about that). It is one the job counted, so the
claim, which is an upper bound on what is counted, is not about them.

Blocks are in the order of their days (`ChainAssumption`).

### Take

`collection.Cache.Take` of go-zero as the endpoints use it (external: lookup, barrier,
second lookup, fetch, set) and the seven endpoints with a cache key. `Queries` lists,
per key, the queries an answer is made from, in the order of the code. A request is a
stack of calls, since MarketInfo asks for the chart in the middle of its own answer.
`held[k]` is how old the oldest data in the answer is; errors are not cached; a
panic ends the request and gives those who wait for it nil. Endpoints that
ignore the error of `Take` assert nil to a type and panic (`Reply`); the server
turns that into an answer of its own, so the request does end.

### Pages, ApiReadsProofs

A row has its table, height, two addresses and a method; `Found` is the WHERE clause of
each list, `CountAll` that of its total, written twice as in the code where the code does.
`Store`, `DeleteBeforeEpoch` and `Withdraw` are the jobs and the chain. Each list is an action
(`ChainTransactions`, `RuntimeRoundList`, ...): page first and total after it, or the
total first, or both at once. A client asks for page after page until the total says
that there are no more (`ReadReply`). What holds of a list depends on its order:

* lists that read the page first lose nothing to rows that arrive, since the total is
  newer than the page (`WalkSeesAll`, `CountCoversPage`);
* ChainBlocks and ChainProposedBlocks count first, so a page may show more than
  the total accounts for: left out of `CountCoversPage`;
* transactions with a method and the runtime transactions (`Parted`): the two
  conditions differ, left out of both;
* staking events from and to an account are cut to one page each before they are
  put together (`StakingEvents`): left out of `WalkSeesAll`;
* rewards are deleted between the two queries: left out of `CountCoversPage`;
* the recent transactions together with those of the runtimes (`Mixed`): the window cuts off the former
  alone, so rows leave from the middle of the list while a client walks it. TLC finds the row that
  is missed once such a request and a fourth row are added to the run; left out of `WalkSeesAll`;
* rows with equal keys. Every transaction of a block has the timestamp of the block, every one of a round
  that of the round, and two rewards of an epoch may be equal (transactionmodel.go:186, :317;
  runtimetransactionmodel.go:65; rewardmodel.go:57). PostgreSQL may put them in one order for a page and in
  another for the next, so a client may see one twice and the other never, although nothing is
  stored. `WalkSeesAll` claims nothing of rows that share their key (`Alone`); TLC finds the
  missed row once that condition is dropped, with two transactions of a round. Only the rounds of a
  ParaTime have a unique key, and nothing is excepted there;
* a block whose proposer is no known validator has a NULL name, which fails the page of
  blocks (`FindAfter`).

`Matching` are the positions in the table of the rows a query matches, and `OrderBy` *all* the
sequences the ORDER BY allows of them: keys descending, equal ones in any order. Each query picks
one (`Listings`), and `PageLimit` is the LIMIT and OFFSET. The key of a row stands for the columns of the
ORDER BY; a later height has a later key (`RowAssumption`), as the time of a block is later than
that of the block before and rewards are ordered by epoch first. `Unique` are the tables whose unique index keeps
a key from being stored twice. Pages have at least one row (`RequestAssumption`): `MaxPage` divides by
their size. The amount of a vote may be rewritten in place, which changes its key; the list of votes has no claim
that depends on the order.

### ApiReads, ApiReadsProofs, MCApiReads

The three modules together, with a `subject`.

## 5 Runs

Each run covers its component at once: the bad inputs are in the same chain as
the good ones, so that a job meets them before, between and after failures.

| Run | Size | Shows |
|---|---|---|
| `block_scanner` | 5 heights, 2 validators, 3 transactions, 3 faults; the fourth block has a transaction that cannot be decoded | types, prefix, wholeness, one undecided transaction, nothing at or above the bad block, refinement of `ChainIndex`, every block below it is stored |
| `staking_events` | 4 heights with 1, 0, 2 and 1 events, 3 faults | nothing skipped, nothing twice, refinement of `Checkpoint`, all stored |
| `node_scanner` | 3 heights, every sequence of 4 node lists, 2 faults | rows as first registered, one per node, addresses that match; refinement of `Checkpoint` but for genesis; all recorded |
| `runtime_rounds` | 2 ParaTimes visited in any order, 0 to 2 items per round, one that cannot be decoded, 2 faults | nothing skipped or twice; refinement of `Checkpoint` for each ParaTime; the unreadable item holds back its ParaTime and those after it, everything reachable is stored |
| `runtime_stats` | 2 ParaTimes, 4 heights: missing, suspended and repeated rounds, double roles, an unknown header type; 2 faults, one COMMIT decided late | counters between one count per new round and one per height (`CountedExactlyOnce`); every height is scanned up to a round that cannot be set up |
| `validator_table` | 2 validators, the three jobs that write them, one change outside, one failure or restart | ranks are a permutation after a pass nothing got in the way of; two such passes settle; every column comes right again and again |
| `reward_sync` | 5 epochs, window 3, 2 validators, 2 delegators, one fault | no holes, rewards from the epoch before and none on a young chain, final, never more than the shares earned, all stored |
| `snapshot_jobs` | 2 proposals, 2 voters, 3 epochs after genesis, 3 votes of which one is cast again; 2 validators, one of them inserted late, a delegator who moves twice, the two other jobs that write back whole rows; 2 validators, 5 days, 3 blocks, 2 days back; one fault | the rows of one pass fit together, answers cover the table, the delegator table is one height, later days have greater heights; closed votes, the delegator table and today's escrow are reached, the page of delegators again and again |
| `api_reads` | 14 requests, pages of one and two rows, 3 rows, among them equal keys, window 1, limit 2; 2 chains with two blocks on a day and a day without one, window 3 days, 2 nodes; 2 requests at a time, one change; one fault | totals cover pages, walks miss nothing, cached days are final, the uptime is of recent heights, answers never go back in time; every validator is refreshed, every request answered |
| `runtime_stats_rounds`, `runtime_stats_new_entity` | the same blocks, no faults | findings 2 and 3 (violations) |
| `reward_reclaim` | 3 epochs, every small pool after a reclaim | finding 1 (violation) |

Why these sizes: an undecided COMMIT needs a retry beside it (2 faults) and a
height to retry and one to go on to (3 heights); a tie of ranks needs two rows; a window of three epochs in five has
one epoch pruned, one carried over the edge and a young chain; a node can be
replaced and come back in three heights. Two proposals have one starve the other; a
delegator who moves twice while a pass asks about two validators gives three heights to mix up;
two days back in five have a first pass and resumed ones. Three rows and pages of one or
two have a row pushed over the edge of a page; a window of three days in four has a day leave it. Two
requests are one that makes an answer and one that waits or comes too late. A block that repeats a transaction hash, which the
unique key refuses, has no run: `Indexable` treats it like one that cannot be decoded, and
`BadBlockHoldsBack` covers every chain. Deadlock checking is on, no run needs it off.

## 6 Proofs

`BlockScannerProofs` proves for every chain, every height bound and every number of failures:

* `TypeCorrect`, `PrefixCorrect` (`GaplessAndWhole`), `UndecidedCorrect`
  (`OneUndecided`), `BadBlockHoldsBack` (`NothingPastABadBlock`);
* `ImplementsIndex`: every step is a step of `ChainIndex` or leaves it unchanged.

`GaplessAndWhole` is not inductive: a COMMIT may be decided after the run that
sent it, so the invariant has to say what an undecided transaction contains. The
inductive invariant adds that an undecided transaction holds exactly the rows of its
block and belongs to the height right after the stored prefix; that there is at
most one; that the open transaction of the running scanner belongs to that same height or
to a height that has been stored meanwhile; and that once it has inserted rows, no other
undecided transaction has those keys - the last is what the unique keys and the
waiting of PostgreSQL give. A height with an empty commit is the interesting
case: its signatures insert no key at all, and only the row of table block makes the second
transaction wait.

`StakingEventsScannerProofs` proves for every chain, every number of events and failures:

* `TypeCorrect`, `CursorCorrect` (`NothingSkipped`), `UniqueCorrect`
  (`NoDuplicates`);
* `ImplementsCheckpoint`: the scanner implements `Checkpoint`.

Here the inductive invariant covers the statements that are still on their way:
every cursor statement in `late`, and the one the run is about to send, carries a
height below which everything is copied, and what the run has passed at its own height is copied too.

`NodeScannerProofs` proves for every sequence of registries, of any nodes and entities, and every
number of failures:

* `RowsCorrect` (`RowsAsRegistered`): rows say what was registered when the node was first
  seen, one row per node, and a validator's row is that of a node of it;
* `ImplementsCheckpoint`: the cursor implements `Checkpoint` but for genesis.

The cursor may only pass a height when the *validators* of its nodes are recorded too, and
that is the hard part: a node that is known is passed over when a newer one of its entity
is there (`FindLatestNode`), although a run may have died after it inserted that
newer node and before it wrote the validator. `LoneInv` says why no entity is lost:
an entity with nodes and without a row has been met once, either at genesis, which no later run
scans, or as the first of its nodes in the list the next run starts with, so the next run
comes to that node first (`PassedOverHasValidator`).

`RuntimeSyncProofs` proves for every number of ParaTimes, rounds and items, every order
they are visited in, and every number of failures and late statements:

* `RowsCorrect` (`ExactlyOnce`), `UnreadableCorrect` (`UnreadableHoldsBack`);
* `ImplementsCheckpoint`: each ParaTime's cursor implements `Checkpoint`.

One fact carries all of them: the rows of a ParaTime are stored round by round, so a row is there
only if every round before its own is complete (`TableInv`). It must hold of the rows that
INSERTs on their way will make and of the rounds that cursor statements on their way
name (`StatementInv`), of the run, and of the ParaTimes it has left behind (`JobInv`); an
item that cannot be decoded then has nothing after it.

`RewardSyncProofs` proves for every history of the pools, every window, every batch size and
every number of failures and lagging nodes:

* `HolesCorrect` (`NoHoles`), `RowsCorrect` (`RewardFromLastRow`), `NeverOverpaidCorrect`
  (`NeverOverpaid`), and the action property `FinalCorrect` (`RewardIsFinal`).

`NoHoles` is not inductive, since a run that finds the cursor behind its window jumps over
epochs nobody will store. `JobInv` says that such a run has deleted every row from before
its epoch first, that a run never starts above the cursor otherwise, and that
the validators it lists include all that have rows, while NodeScanner adds more.
`NeverOverpaid` is arithmetic: the rounding division of shares (`StakeOfSum`,
`RewardBound`), with each product made a variable before the solver sees it.

`SnapshotJobsProofs` proves four properties of the jobs put together, for every chain
and every number of failures.

* `TableCorrect` (`TableIsOneSnapshot`), for every set of validators and delegators: the table
  delegator is always what the chain said at one height of all the validators of one listing. The
  run checks it with two validators and two moves; the hazard is one of many validators and a
  pass that takes minutes. The property is not inductive, as COMMIT publishes rows that
  were collected over many steps: the invariant adds that the open transaction holds the
  delegations of *its* height to exactly those listed validators it is done with (`CopyInv`), and
  that heights, once there, are never rewritten and validators never removed, which keeps an
  old snapshot one (`TableStays`, `SnapshotStays`).
* `HistoryCorrect` (`HeightsFollowDates`), for every pace of the chain, of `BlockScanner` and of
  the days. The invariant adds what the job never stores: the block of a row was
  born before the row's day (`RowsOfThePast`), and a pass works at the newest stored day or
  after it (`PassInv`). So each earlier row's block is one of those the pass chooses the newest of,
  and the height it finds cannot be less; equal heights and equal days are skipped. That this
  newest block exists is `GreatestExists`, from the well-foundedness of the natural numbers.
* `RowsCorrect` (`RowsOfOnePass`), for every set of proposals and voters, every stake and every
  order of casting. `VoteSync` rewrites the rows of a proposal one by one, and a pass may die
  in the middle of them, so the property says nothing of the proposal at hand. The invariant does: the
  rows written so far carry the weights of this pass, and who is not in it weighs
  nothing (`StoreInv`); once the last one is written, what the table says each voter has
  (`Amounts`) *is* the function of weights, so the totals are equal without
  a look into the sum. No row belongs to someone whose vote the pass has not read,
  as votes are changed on the chain but never withdrawn (`ReadInv`, `CastInv`), and
  nothing that comes later in a pass touches the proposals behind it (`DoneInv`), which needs
  that the newest one left exists (`NewestExists`).
* `AnswersCorrect` (`AnswersCoverTheTable`), for the same constants: the page of a proposal names
  every voter whom the table names, which follows from `CastInv` whatever the two jobs are
  doing, and what it says of the options adds up to the weight of all its votes. The latter is a lemma about
  sums (`SumOfShares`): what is sorted by kind sums up to the same if whatever has no kind
  is zero.

The operators for sums fold a set by a recursive function, so what they yield takes an
induction, and the library's induction theorems cannot be instantiated. Here it is
done with a set in place of the predicate: `Climb` and `SetInduction` say that a set that contains 0, or the
empty set, and with each number or finite set the next contains all of them; that there
is such a fold (`FoldExists`), that it does not matter of which whole (`FoldUnique`) nor which member
comes first (`SumRemove`) follows.

`CountersCorrect` (`CountedExactlyOnce` of `RuntimeStats`) is proved in the same module, since the
counters are sums as well: for every number of ParaTimes, heights, nodes and failures, every committee and
every COMMIT that is decided late; `SnapshotJobsProofs` extends `RuntimeStats` for that. Whatever the job is at -
a committed cursor, the height of the run, a transaction that is undecided - has no new round behind it
that the counters lack (`CursorInv`, `JobInv`, `SessionInv`). Counters only grow, so what is good for a
height stays good for it when a transaction of another one takes effect in between. The upper
bound needs more (`OnceInv`): as long as no COMMIT is left to be decided late, a run is always ahead
of its cursor (`JobInv`), and at genesis, where it is not, the counters have not been
touched.

`ApiReadsProofs` proves five properties of the requests put together:

* `PagesCorrect` (`CountCoversPage`) and `WalksCorrect` (`WalkSeesAll`), for every set of rows and of
  requests, every page size, window and limit, and every order a query may put equal keys in. The run has
  three rows and pages of one and two; the hazard is a list of thousands that grows while it is read. The
  property of a walk speaks of its end, the invariant of its middle (`WalkInv`). The place of a row is
  the number of rows with a key not less than its own (`Place`). If no other row shares its
  key (`Sole`), this is where *every* order by the keys puts it (`OrderFacts`), and nothing
  is said of other rows: a row of the start that is still to be seen has its place behind
  the pages the client has asked for, and a reply counts at least as many rows as lie before that place, so
  there is a next page. A place only moves back: rows are added with a greater key, and
  what leaves - old rewards, transactions the window has passed - has a smaller one than all that stays
  (`LaterKey`, `StoreMoves`, `DeleteMoves`, `PlaceGrows`). For the window this takes that transactions are stored in the order of
  their heights, so that the greatest height never falls (`MaxGrows`); that every round is alone with its key is
  part of `TableInv`. A page awaiting its total has no more rows than the list, and none twice (`CoverInv`).

* `CachedDaysCorrect` (`CachedDaysAreFinal`) and `UptimeCorrect` (`UptimeOfRecentHeights`), for
  every chain, every set of validators and nodes, every window, limit and number of failures. What a
  refresher holds between its queries was in the view at some time, for some height up to
  which blocks were stored and some edge of the window (`Seen`). Both only move on: a day that
  is not the newest of such a view has all its blocks stored by then (`PastIsStored`), and all
  but its oldest day have all their blocks counted, so what the refresher
  reads later of the signed ones is final too (`DayIsFinal`).
* `TakenCorrect` (`TakenNeverGoesBack`), for every number of requests and of changes. The
  property compares a reply with what was served before; inductive is a statement about
  everything that may still become a reply. `Bound(k, n)` collects the versions no later answer to
  `k` may fall behind: those served, held, and given to a call that has not returned; for the chart
  also those `MarketInfo` has used. `FreshInv` says that no answer that is held or being made falls
  behind one of them, `LeaderInv` that one call at a time makes the answer of a key and only when
  none is held, `StackInv` that the only call with another one above it is that of `MarketInfo`
  while it waits for its chart.

`ValidatorTableProofs` proves for every number of validators, every stake, every order of the
listings and every overlap of the three jobs:

* `RanksCorrect` (`RanksAreAPermutation`) and `SettlesCorrect` (`TwoPassesSettle`).

Both speak of the time after a pass, and the invariant says what holds in the middle of one
that nothing got in the way of: the ranks written so far are exactly 1 to `position - 1`, the rows
still to come are those `FindAll` returned and nobody has touched (`QuietInv`); if the pass before was quiet
as well, no row still to come belongs before one already written (`SecondInv`). After a
pass the other jobs may hold copies of rows and write them back; `SettledInv` says that these
copies are no older than the pass. That the list holds every row once is a fact about cardinalities
(`OrderFacts`).

Assumptions of all: the named ASSUMEs of the modules (`HeightAssumption`, ...), which TLC
evaluates in the runs. They say what kind of value a constant is, that a set is finite, that None is no
value of a table, and of the chain that blocks are in the order of their days and times, epochs in theirs, and a pool's total is
that of its shares. The proofs do not use fairness.

Only model-checked:

* liveness (the twelve properties of the runs that say what is eventually, or again and again, so):
  it needs fairness and ENABLED.

All invariants, action properties and refinements that the passing runs check are proved.

## 7 Findings

1. `reward_reclaim` - "remove reward caused by add or reclaim shares"
   (validator_task.go:610): for reclaimed shares the code subtracts where it should add, and
   the reward of the shares that were kept is lost.
2. `runtime_stats_rounds` - "Rounds entity node was elected."
   (common/runtime.go:80): a round that lasts several heights is counted again by every
   run that starts within it.
3. `runtime_stats_new_entity` - the same sentence: an entity without a row in
   runtime_stats is never counted, since the branch that would insert the row tests an
   error that is always nil there.

## 8 What is not modelled

* `RuntimeInfoSync`: no schedule calls it.
* Three of the four materialized views: nothing but a chart reads them, and their refresh
  is PostgreSQL's.
* The columns of table validator nothing is decided by: total signs, proposals,
  score, commission, balance, 24-hour change.
* The queue of ticks behind a slow job: goroutines that wait for a mutex inside the cron
  library, without a bound that could be violated (job.go:47).
* Endpoints that are one lookup and the formatting of its result: single blocks,
  transactions, rounds and proposals, the search, the account, the page of one
  validator, charts and the export of rewards. They have no order of steps to get wrong. What
  a lookup that finds nothing does to the formatting (a nil result that is read,
  runtimeroundinfologic.go:51, validatorblocksstatslogic.go:67) is a matter of a unit test.
* Statements of the snapshot jobs that PostgreSQL executes during a later run.
* Routes, handlers, generated row models and stubs: no state and no decisions.
* Wording and layout of answers, decoding and encoding themselves (that decoding may fail is
  modelled).
* Time: ticks and expiry are steps and fairness, not clocks. Days and epochs are counted.
