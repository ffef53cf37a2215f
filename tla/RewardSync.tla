----------------------------- MODULE RewardSync -----------------------------
(***************************************************************************)
(* The DelegatorRewardSync job: every minute it prunes the rewards that    *)
(* left the window of the last epochs, then walks the epochs from its      *)
(* cursor and stores, for each delegation to a validator it knows, what    *)
(* the delegation is worth and what it earned since the epoch before.      *)
(* Statements are not grouped in a transaction.                            *)
(***************************************************************************)
EXTENDS Integers, FiniteSets, FiniteSetsExt

CONSTANTS
  MaxEpoch,   \* bound: the chain stops here
  Window,     \* RewardStatsDays*24: epochs that are kept
  Validator,  \* addresses of validators
  Delegator,  \* addresses of delegators
  Known,      \* validators in table validator at the start
  Pools,      \* Pools[e]: the escrow pools the chain may have at epoch e
  BatchSize,  \* rows of one INSERT statement
  None,       \* no row
  MaxFaults   \* bound: failures the environment may inject

Epoch == 0..MaxEpoch

(* An escrow pool: its balance, its shares, and those of each delegator. *)
Pool == [balance : Nat, total : Nat, shares : [Delegator -> Nat]]

Row == [amount : Nat, shares : Nat, reward : Nat]

ASSUME EpochAssumption == MaxEpoch \in Nat /\ Window \in Nat \ {0}
ASSUME PoolAssumption ==
  /\ IsFiniteSet(Delegator)
  /\ Known \subseteq Validator
  /\ Pools \in [Epoch -> SUBSET [Validator -> Pool]]
  /\ \A e \in Epoch : \A p \in Pools[e], v \in Validator :
       p[v].total = MapThenSumSet(LAMBDA d : p[v].shares[d], Delegator)
ASSUME BatchAssumption == BatchSize \in Nat \ {0}
ASSUME FaultAssumption == MaxFaults \in Nat
ASSUME NoneAssumption == None \notin Int /\ None \notin Row

VARIABLES
  latest,        \* consensus: the current epoch
  pools,         \* consensus: pools[e][v] at the first block of epoch e
  known,         \* database: validators in table validator
  reward,        \* database: reward[v][d][e], the row of table reward
  cursor,        \* database: value of the property "reward_epoch"
  pc,            \* job: the call it makes next
  currentEpoch,  \* job: LatestEpoch as GetStatus reported it
  rewardEpoch,   \* job: the epoch it works on
  listed,        \* job: the validators FindAll returned
  todo,          \* job: those it has not handled at this epoch
  faults         \* failures injected so far

chain  == <<latest, pools>>
tables == <<known, reward, cursor>>
job    == <<pc, currentEpoch, rewardEpoch, listed, todo>>
vars   == <<chain, tables, job, faults>>

TypeOK ==
  /\ latest \in Epoch
  /\ pools \in [Epoch -> [Validator -> Pool]]
  /\ known \subseteq Validator
  /\ reward \in [Validator -> [Delegator -> [Epoch -> Row \cup {None}]]]
  /\ cursor \in (-Window..MaxEpoch) \cup {None}
  /\ pc \in {"idle", "delete", "findCursor", "insertCursor", "findAll", "sync"}
  /\ currentEpoch \in Epoch
  /\ rewardEpoch \in -Window..MaxEpoch
  /\ todo \subseteq listed
  /\ listed \subseteq known
  /\ faults \in 0..MaxFaults

NoPool ==
  [v \in Validator |-> [balance |-> 0, total |-> 0, shares |-> [d \in Delegator |-> 0]]]

Init ==
  /\ latest = 0
  /\ \E p \in Pools[0] : pools = [e \in Epoch |-> IF e = 0 THEN p ELSE NoPool]
  /\ known = Known
  /\ reward = [v \in Validator |-> [d \in Delegator |-> [e \in Epoch |-> None]]]
  /\ cursor = None
  /\ pc = "idle"
  /\ currentEpoch = 0
  /\ rewardEpoch = 0
  /\ listed = {}
  /\ todo = {}
  /\ faults = 0
-----------------------------------------------------------------------------
(* The arithmetic.                                                         *)

(* What a number of shares of the pool is worth, rounded down. *)
StakeForShares(pool, shares) ==
  IF shares = 0 \/ pool.balance = 0 \/ pool.total = 0
  THEN 0
  ELSE (shares * pool.balance) \div pool.total

Abs(n) == IF n < 0 THEN -n ELSE n

(* Mutant of Reward: shares that were added count as reward.               *)
RewardWithAddedShares(last, pool, shares) ==
  LET gain == StakeForShares(pool, shares) - last.amount IN IF gain < 0 THEN 0 ELSE gain

(* What a delegation earned since its row of the epoch before: the growth  *)
(* of its value, less the value of the shares that changed hands, and      *)
(* never less than zero.                                                   *)
Reward(last, pool, shares) ==
  LET gain == StakeForShares(pool, shares) - last.amount
               - StakeForShares(pool, Abs(shares - last.shares))
  IN  IF gain < 0 THEN 0 ELSE gain

(* Mutant of LastRow: the newest row there is, however old.                *)
LastRowAnyAge(v, d, e) ==
  IF \A k \in Epoch : k < e => reward[v][d][k] = None
  THEN None
  ELSE reward[v][d][CHOOSE k \in Epoch :
         /\ k < e
         /\ reward[v][d][k] # None
         /\ \A j \in Epoch : k < j /\ j < e => reward[v][d][j] = None]

LastRow(v, d, e) == IF e - 1 \in Epoch THEN reward[v][d][e - 1] ELSE None

RowFor(v, d, e) ==
  LET pool == pools[e][v]
      last == LastRow(v, d, e)
  IN  [amount |-> StakeForShares(pool, pool.shares[d]),
       shares |-> pool.shares[d],
       reward |-> IF last = None THEN 0 ELSE Reward(last, pool, pool.shares[d])]

(* DelegationsTo(v) at the first block of epoch e. *)
Delegators(v, e) == {d \in Delegator : pools[e][v].shares[d] > 0}

(* Mutants of Missing: rows are written again; one row is taken for all.   *)
MissingAll(v, e) == Delegators(v, e)

MissingUnlessAny(v, e) ==
  IF \E d \in Delegator : reward[v][d][e] # None THEN {} ELSE Delegators(v, e)

(* The delegations that have no row yet. *)
Missing(v, e) == {d \in Delegators(v, e) : reward[v][d][e] = None}
-----------------------------------------------------------------------------
(* The steps of a run.                                                     *)

(* The first epoch that is kept.  The subtraction is unsigned and wraps,   *)
(* the conversion to int64 makes a negative number of it again.            *)
Cutoff(e) == e - Window

Return ==
  /\ pc' = "idle"
  /\ currentEpoch' = 0
  /\ rewardEpoch' = 0
  /\ listed' = {}
  /\ todo' = {}

Fault ==
  /\ faults < MaxFaults
  /\ faults' = faults + 1

GoTo(p) ==
  /\ pc' = p
  /\ UNCHANGED <<currentEpoch, rewardEpoch, listed, todo>>

(* The loop over the epochs, at e.  No block belongs to an epoch before    *)
(* the first, the beacon answers with an error and the run ends.           *)
Loop(e, validators) ==
  IF e < currentEpoch /\ e \in Epoch
  THEN /\ pc' = "sync"
       /\ rewardEpoch' = e
       /\ listed' = validators
       /\ todo' = validators
       /\ UNCHANGED currentEpoch
  ELSE Return

(* An epoch passes. *)
Grow ==
  /\ latest < MaxEpoch
  /\ latest' = latest + 1
  /\ \E p \in Pools[latest + 1] : pools' = [pools EXCEPT ![latest + 1] = p]
  /\ UNCHANGED <<tables, job, faults>>

(* The NodeScanner job records the validator of a new entity. *)
Join ==
  \E v \in Validator \ known :
    /\ known' = known \cup {v}
    /\ UNCHANGED <<chain, reward, cursor, job, faults>>

GetStatus ==
  /\ pc = "idle"
  /\ pc' = "delete"
  /\ currentEpoch' = latest
  /\ rewardEpoch' = Cutoff(latest)
  /\ UNCHANGED <<chain, tables, listed, todo, faults>>

(* The node that answers GetStatus lags behind the chain. *)
GetStaleStatus ==
  /\ pc = "idle"
  /\ Fault
  /\ \E e \in Epoch :
       /\ e < latest
       /\ currentEpoch' = e
       /\ rewardEpoch' = Cutoff(e)
  /\ pc' = "delete"
  /\ UNCHANGED <<chain, tables, listed, todo>>

DeleteBefore ==
  reward' = [v \in Validator |-> [d \in Delegator |-> [e \in Epoch |->
               IF e < rewardEpoch THEN None ELSE reward[v][d][e]]]]

DeleteBeforeEpoch ==
  /\ pc = "delete"
  /\ DeleteBefore
  /\ GoTo("findCursor")
  /\ UNCHANGED <<chain, known, cursor, faults>>

(* The run starts at the cursor, or at the window if that is later. *)
Resume(c) == IF rewardEpoch < c THEN c ELSE rewardEpoch

FindCursor ==
  /\ pc = "findCursor"
  /\ IF cursor = None
     THEN pc' = "insertCursor" /\ UNCHANGED rewardEpoch
     ELSE pc' = "findAll" /\ rewardEpoch' = Resume(cursor)
  /\ UNCHANGED <<chain, tables, currentEpoch, listed, todo, faults>>

InsertCursor ==
  /\ pc = "insertCursor"
  /\ cursor' = rewardEpoch
  /\ GoTo("findAll")
  /\ UNCHANGED <<chain, known, reward, faults>>

(* Mutant of FindAll: the validators are read when the process starts.     *)
FindAllOnce ==
  /\ pc = "findAll"
  /\ Loop(rewardEpoch, Known)
  /\ UNCHANGED <<chain, tables, faults>>

FindAll ==
  /\ pc = "findAll"
  /\ Loop(rewardEpoch, known)
  /\ UNCHANGED <<chain, tables, faults>>

Store(v, new) ==
  reward' = [reward EXCEPT ![v] =
    [d \in Delegator |-> IF d \in new THEN [@[d] EXCEPT ![rewardEpoch] = RowFor(v, d, rewardEpoch)]
                                      ELSE @[d]]]

(* The rows of one validator at one epoch: what is missing is computed     *)
(* and inserted.                                                           *)
SyncValidator(v) ==
  /\ pc = "sync"
  /\ v \in todo
  /\ Store(v, Missing(v, rewardEpoch))
  /\ todo' = todo \ {v}
  /\ UNCHANGED <<chain, known, cursor, pc, currentEpoch, rewardEpoch, listed, faults>>

(* One statement after another of BatchInsert succeeds until one fails. *)
SyncSomeAndDie(v) ==
  /\ pc = "sync"
  /\ Fault
  /\ v \in todo
  /\ \E new \in SUBSET Missing(v, rewardEpoch) :
       /\ Cardinality(new) % BatchSize = 0 \/ new = Missing(v, rewardEpoch)
       /\ Store(v, new)
  /\ Return
  /\ UNCHANGED <<chain, known, cursor>>

UpdateCursor ==
  /\ pc = "sync"
  /\ todo = {}
  /\ cursor' = rewardEpoch
  /\ Loop(rewardEpoch + 1, listed)
  /\ UNCHANGED <<chain, known, reward, faults>>

(* A statement on another table succeeds, but its answer is lost or the    *)
(* process killed.                                                         *)
WriteAndDie ==
  /\ Fault
  /\ \/ pc = "delete" /\ DeleteBefore /\ UNCHANGED cursor
     \/ pc = "insertCursor" /\ cursor' = rewardEpoch /\ UNCHANGED reward
     \/ pc = "sync" /\ todo = {} /\ cursor' = rewardEpoch /\ UNCHANGED reward
  /\ Return
  /\ UNCHANGED <<chain, known>>

(* A call fails, or the process is killed before it. *)
Fail ==
  /\ pc # "idle"
  /\ Fault
  /\ Return
  /\ UNCHANGED <<chain, tables>>

Run ==
  \/ GetStatus
  \/ DeleteBeforeEpoch
  \/ FindCursor
  \/ InsertCursor
  \/ FindAll
  \/ \E v \in Validator : SyncValidator(v)
  \/ UpdateCursor

Next ==
  \/ Grow
  \/ Join
  \/ Run
  \/ GetStaleStatus
  \/ \E v \in Validator : SyncSomeAndDie(v)
  \/ WriteAndDie
  \/ Fail

(* cron starts the job again and again, a running job makes its next call, *)
(* and epochs pass on the chain (up to the bound).                         *)
Fairness == WF_vars(Run) /\ WF_vars(Grow)

Spec == Init /\ [][Next]_vars /\ Fairness
-----------------------------------------------------------------------------
(* Properties.                                                             *)

HasRow(v, d, e) == reward[v][d][e] # None

(* No holes: once a validator has a row at some epoch, every delegation to *)
(* it at a later epoch has one, up to the cursor, whatever failed between. *)
NoHoles ==
  cursor # None =>
    \A v \in Validator, e1, e2 \in Epoch :
      e1 < e2 /\ e2 <= cursor /\ (\E d \in Delegator : HasRow(v, d, e1))
        => \A d \in Delegators(v, e2) : HasRow(v, d, e2)

(* A stored reward is what the delegation earned since the epoch before,   *)
(* or zero when the job did not know that epoch.  It is never counted from *)
(* an older row.  A chain younger than the window has no row at all: the   *)
(* first epoch the job asks for is negative and the beacon refuses it      *)
(* (validator_task.go:505).                                                *)
RewardFromLastRow ==
  /\ TypeOK
  /\ \A v \in Validator, d \in Delegator, e \in Epoch : HasRow(v, d, e) =>
       /\ latest >= Window
       /\ reward[v][d][e].reward # 0 =>
            /\ e > 0
            /\ reward[v][d][e].reward =
                 Reward([amount |-> StakeForShares(pools[e - 1][v], pools[e - 1][v].shares[d]),
                         shares |-> pools[e - 1][v].shares[d]],
                        pools[e][v], pools[e][v].shares[d])

(* A stored reward is final: no retry changes it, only pruning removes it, *)
(* and never inside the window.                                            *)
RewardIsFinal ==
  [][\A v \in Validator, d \in Delegator, e \in Epoch :
       HasRow(v, d, e) /\ reward'[v][d][e] # reward[v][d][e]
         => reward'[v][d][e] = None /\ e < latest - Window]_vars

(* Liveness: a delegation to a validator that was known in time gets its   *)
(* row, unless its epoch leaves the window first.                          *)
EveryDelegationRewarded ==
  \A v \in Validator, d \in Delegator, e \in Epoch :
    latest = e /\ v \in known /\ d \in Delegators(v, e) /\ MaxEpoch > e
      ~> HasRow(v, d, e) \/ latest - Window > e

Smaller(m, n) == IF m < n THEN m ELSE n

(* What the shares held at both epochs gained. *)
KeptGain(v, d, e) ==
  LET kept == Smaller(pools[e - 1][v].shares[d], pools[e][v].shares[d])
  IN  StakeForShares(pools[e][v], kept) - StakeForShares(pools[e - 1][v], kept)

(* "remove reward caused by add or reclaim shares"                         *)
(* (validator_task.go:610), the half that holds: shares that were added    *)
(* are no reward.  A stored reward exceeds what the kept shares gained by  *)
(* one at most, the rounding.                                              *)
NeverOverpaid ==
  \A v \in Validator, d \in Delegator, e \in Epoch :
    HasRow(v, d, e) /\ reward[v][d][e].reward > 0
      => reward[v][d][e].reward <= KeptGain(v, d, e) + 1

(* The same comment, the other half: once the effect of changed shares is  *)
(* removed, what remains is what the kept shares gained, also after a      *)
(* delegation was partly reclaimed.                                        *)
KeptSharesEarn ==
  \A v \in Validator, d \in Delegator, e \in Epoch :
    e > 0 /\ HasRow(v, d, e) /\ HasRow(v, d, e - 1)
      => reward[v][d][e].reward >= KeptGain(v, d, e)
=============================================================================
