-------------------------- MODULE RewardSyncProofs --------------------------
(***************************************************************************)
(* The rewards that DelegatorRewardSync keeps have no holes, are computed  *)
(* from the epoch before and from no other, are final, and never pay for   *)
(* shares that were added: for every history of the escrow pools, every    *)
(* window, and any number of failures, kills and lagging nodes.            *)
(*                                                                         *)
(* The hard part is that a run which finds the cursor behind its window    *)
(* jumps over epochs that nobody will ever store.  No hole is left because *)
(* that same run has deleted every row from before the window, so that no  *)
(* row is older than the epochs it jumps over.                             *)
(***************************************************************************)
EXTENDS RewardSync, TLAPS

(* A row says what the chain says of its epoch, and its reward is that of  *)
(* the epoch before.                                                       *)
RewardFits(v, d, e, r) ==
  r # 0 =>
    /\ e > 0
    /\ r = Reward([amount |-> StakeForShares(pools[e - 1][v], pools[e - 1][v].shares[d]),
                   shares |-> pools[e - 1][v].shares[d]],
                  pools[e][v], pools[e][v].shares[d])

RowFits(v, d, e, row) ==
  /\ row.shares = pools[e][v].shares[d]
  /\ row.amount = StakeForShares(pools[e][v], pools[e][v].shares[d])
  /\ RewardFits(v, d, e, row.reward)

RowsInv ==
  \A v \in Validator, d \in Delegator, e \in Epoch : HasRow(v, d, e) =>
    /\ v \in known /\ d \in Delegators(v, e) /\ e < latest
    /\ cursor # None /\ latest >= Window
    /\ RowFits(v, d, e, reward[v][d][e])

CursorInv ==
  cursor # None => cursor < latest /\ (cursor >= 0 => latest >= Window)

(* No row is older than epoch n. *)
NoneBefore(n) ==
  \A v \in Validator, d \in Delegator, e \in Epoch : HasRow(v, d, e) => n <= e

InWalk == pc \in {"findAll", "sync"}

(* What the job knows between two calls. *)
JobInv ==
  /\ currentEpoch <= latest
  /\ pc \in {"delete", "findCursor", "insertCursor"} => rewardEpoch = Cutoff(currentEpoch)
  /\ pc \in {"findCursor", "insertCursor"} => NoneBefore(rewardEpoch)
  /\ pc = "insertCursor" => cursor = None
  /\ InWalk =>
       /\ cursor # None /\ cursor <= rewardEpoch
       /\ rewardEpoch >= 0 => latest >= Window
       /\ rewardEpoch - 1 <= cursor \/ NoneBefore(rewardEpoch)
  /\ pc = "sync" =>
       /\ rewardEpoch \in Epoch /\ rewardEpoch < currentEpoch
       /\ \A v \in Validator, d \in Delegator, e \in Epoch : HasRow(v, d, e) => v \in listed
       /\ \A v \in listed \ todo : Missing(v, rewardEpoch) = {}

TablesInv == RowsInv /\ CursorInv /\ NoHoles

IInv == TypeOK /\ TablesInv /\ JobInv

ChainType ==
  /\ latest \in Epoch
  /\ pools \in [Epoch -> [Validator -> Pool]]

TablesType ==
  /\ known \subseteq Validator
  /\ reward \in [Validator -> [Delegator -> [Epoch -> Row \cup {None}]]]
  /\ cursor \in (-Window..MaxEpoch) \cup {None}

JobType ==
  /\ pc \in {"idle", "delete", "findCursor", "insertCursor", "findAll", "sync"}
  /\ currentEpoch \in Epoch
  /\ rewardEpoch \in -Window..MaxEpoch
  /\ todo \subseteq listed
  /\ listed \subseteq known

(* What a run that stores rows leaves alone: the rows there are. *)
RowsStay ==
  \A v \in Validator, d \in Delegator, e \in Epoch :
    HasRow(v, d, e) => reward'[v][d][e] = reward[v][d][e]
-----------------------------------------------------------------------------
(* The numbers and the types.                                              *)

LEMMA EpochFacts ==
  /\ MaxEpoch \in Nat /\ Window \in Nat /\ Window > 0 /\ 0 \in Epoch
  /\ \A e \in Epoch : e \in Int /\ 0 <= e /\ e <= MaxEpoch
  /\ \A e \in Int : 0 <= e /\ e <= MaxEpoch => e \in Epoch
  /\ \A e \in -Window..MaxEpoch : e \in Int /\ -Window <= e /\ e <= MaxEpoch
  /\ \A e \in Int : -Window <= e /\ e <= MaxEpoch => e \in -Window..MaxEpoch
  /\ None \notin Int /\ None \notin Row
BY EpochAssumption, NoneAssumption DEF Epoch

LEMMA PoolFacts ==
  ASSUME ChainType, NEW e \in Epoch, NEW v \in Validator, NEW d \in Delegator
  PROVE  pools[e][v] \in Pool /\ pools[e][v].shares[d] \in Nat
<1>1. pools[e] \in [Validator -> Pool]
  BY DEF ChainType
<1>2. pools[e][v] \in Pool
  BY <1>1
<1>3. pools[e][v].shares \in [Delegator -> Nat]
  BY <1>2 DEF Pool
<1>4. QED
  BY <1>2, <1>3

LEMMA ShareType ==
  ASSUME NEW n \in Nat, NEW b \in Nat, NEW t \in Nat, t # 0
  PROVE  (n * b) \div t \in Nat
<1>1. n * b \in Nat
  OBVIOUS
<1>2. PICK m \in Nat : m = n * b
  BY <1>1
<1>3. m \div t \in Nat
  OBVIOUS
<1>4. QED
  BY <1>2, <1>3

LEMMA StakeType ==
  ASSUME NEW pool \in Pool, NEW n \in Nat
  PROVE  StakeForShares(pool, n) \in Nat
<1>1. pool.balance \in Nat /\ pool.total \in Nat
  BY DEF Pool
<1>2. ASSUME pool.total # 0
      PROVE  (n * pool.balance) \div pool.total \in Nat
  BY <1>1, <1>2, ShareType
<1>3. QED
  BY <1>2 DEF StakeForShares

LEMMA RewardType ==
  ASSUME NEW pool \in Pool, NEW n \in Nat, NEW last, last.amount \in Nat, last.shares \in Nat
  PROVE  Reward(last, pool, n) \in Nat
<1>1. n - last.shares \in Int
  OBVIOUS
<1>2. Abs(n - last.shares) \in Nat
  BY <1>1 DEF Abs
<1>3. StakeForShares(pool, n) \in Nat /\ StakeForShares(pool, Abs(n - last.shares)) \in Nat
  BY <1>2, StakeType
<1>4. QED
  BY <1>3 DEF Reward

LEMMA RowFacts ==
  ASSUME TablesType, NEW v \in Validator, NEW d \in Delegator, NEW e \in Epoch
  PROVE  /\ reward[v][d][e] \in Row \cup {None}
         /\ HasRow(v, d, e) =>
              /\ reward[v][d][e].amount \in Nat
              /\ reward[v][d][e].shares \in Nat
              /\ reward[v][d][e].reward \in Nat
<1>1. reward[v] \in [Delegator -> [Epoch -> Row \cup {None}]]
  BY DEF TablesType
<1>2. reward[v][d] \in [Epoch -> Row \cup {None}]
  BY <1>1
<1>3. reward[v][d][e] \in Row \cup {None}
  BY <1>2
<1>4. QED
  BY <1>3 DEF HasRow, Row

LEMMA RowForType ==
  ASSUME ChainType, TablesType, NEW v \in Validator, NEW d \in Delegator, NEW e \in Epoch
  PROVE  RowFor(v, d, e) \in Row /\ RowFor(v, d, e) # None
<1> DEFINE pool == pools[e][v]
           last == LastRow(v, d, e)
<1>1. pool \in Pool /\ pool.shares[d] \in Nat
  BY PoolFacts
<1>2. StakeForShares(pool, pool.shares[d]) \in Nat
  BY <1>1, StakeType
<1>3. ASSUME last # None PROVE Reward(last, pool, pool.shares[d]) \in Nat
  <2>1. e - 1 \in Epoch /\ last = reward[v][d][e - 1]
    BY <1>3 DEF LastRow
  <2>2. last.amount \in Nat /\ last.shares \in Nat
    BY <1>3, <2>1, RowFacts DEF HasRow
  <2>3. QED
    BY <1>1, <2>2, RewardType
<1>4. RowFor(v, d, e) \in Row
  <2>1. (IF last = None THEN 0 ELSE Reward(last, pool, pool.shares[d])) \in Nat
    BY <1>3
  <2> HIDE DEF last
  <2>2. QED
    BY <1>1, <1>2, <2>1 DEF RowFor, Row, last
<1>5. QED
  BY <1>4, EpochFacts

(* The row of an epoch is computed from that of the epoch before. *)
LEMMA RowForFits ==
  ASSUME ChainType, TablesType, RowsInv,
         NEW v \in Validator, NEW d \in Delegator, NEW e \in Epoch
  PROVE  RowFits(v, d, e, RowFor(v, d, e))
<1> DEFINE pool == pools[e][v]
           last == LastRow(v, d, e)
           r    == IF last = None THEN 0 ELSE Reward(last, pool, pool.shares[d])
<1>1. /\ RowFor(v, d, e).amount = StakeForShares(pool, pool.shares[d])
      /\ RowFor(v, d, e).shares = pool.shares[d]
      /\ RowFor(v, d, e).reward = r
  BY DEF RowFor
<1>2. RewardFits(v, d, e, r)
  <2>1. CASE last = None
    BY <2>1 DEF RewardFits
  <2>2. CASE last # None
    <3>1. e - 1 \in Epoch /\ last = reward[v][d][e - 1]
      BY <2>2 DEF LastRow
    <3>2. HasRow(v, d, e - 1)
      BY <2>2, <3>1 DEF HasRow
    <3>3. RowFits(v, d, e - 1, last)
      BY <3>1, <3>2 DEF RowsInv
    <3>4. /\ last.shares = pools[e - 1][v].shares[d]
          /\ last.amount = StakeForShares(pools[e - 1][v], pools[e - 1][v].shares[d])
      BY <3>3 DEF RowFits
    <3>5. e > 0
      BY <3>1, EpochFacts
    <3>6. r = Reward(last, pool, pool.shares[d])
      BY <2>2
    <3> HIDE DEF last, r
    <3>7. r = Reward([amount |-> StakeForShares(pools[e - 1][v], pools[e - 1][v].shares[d]),
                      shares |-> pools[e - 1][v].shares[d]], pool, pool.shares[d])
      BY <3>4, <3>6 DEF Reward
    <3>8. QED
      BY <3>5, <3>7 DEF RewardFits
  <2>3. QED
    BY <2>1, <2>2
<1>3. QED
  BY <1>1, <1>2 DEF RowFits
-----------------------------------------------------------------------------
(* What a step does to the tables.                                         *)

LEMMA InitEstablishes == Init => IInv
<1> SUFFICES ASSUME Init PROVE IInv
  OBVIOUS
<1> USE DEF Init
<1>1. PICK p \in Pools[0] : pools = [e \in Epoch |-> IF e = 0 THEN p ELSE NoPool]
  OBVIOUS
<1>2. p \in [Validator -> Pool]
  BY PoolAssumption, EpochFacts
<1>3. NoPool \in [Validator -> Pool]
  BY DEF NoPool, Pool
<1>4. ChainType
  BY <1>1, <1>2, <1>3, EpochFacts DEF ChainType
<1>5. \A v \in Validator, d \in Delegator, e \in Epoch : ~HasRow(v, d, e)
  BY DEF HasRow
<1>6. TablesType /\ JobType
  BY PoolAssumption, EpochFacts DEF TablesType, JobType
<1>7. TypeOK
  BY <1>4, <1>6, FaultAssumption DEF TypeOK, ChainType, TablesType, JobType
<1>8. TablesInv
  BY <1>5 DEF TablesInv, RowsInv, CursorInv, NoHoles
<1>9. JobInv
  BY <1>5 DEF JobInv, InWalk
<1>10. QED
  BY <1>7, <1>8, <1>9 DEF IInv

LEMMA Typed ==
  /\ TypeOK => ChainType /\ TablesType /\ JobType /\ faults \in 0..MaxFaults
  /\ ChainType' /\ TablesType' /\ JobType' /\ faults' \in 0..MaxFaults => TypeOK'
BY DEF TypeOK, ChainType, TablesType, JobType

(* Rows speak of epochs that have begun, whose pools are settled. *)
LEMMA TablesSame ==
  ASSUME IInv, ChainType', latest <= latest', known \subseteq known', UNCHANGED <<reward, cursor>>,
         \A e \in Epoch : e <= latest => pools'[e] = pools[e]
  PROVE  TablesInv'
<1>t. ChainType /\ TablesType
  BY Typed DEF IInv
<1>n. latest \in Int /\ latest' \in Int /\ (cursor # None => cursor \in Int)
  BY <1>t, EpochFacts DEF ChainType, TablesType
<1>1. RowsInv'
  <2> SUFFICES ASSUME NEW v \in Validator, NEW d \in Delegator, NEW e \in Epoch,
                      HasRow(v, d, e)'
               PROVE  /\ v \in known' /\ d \in Delegators(v, e)' /\ e < latest'
                      /\ cursor' # None /\ latest' >= Window
                      /\ RowFits(v, d, e, reward[v][d][e])'
    BY DEF RowsInv
  <2>1. HasRow(v, d, e)
    BY DEF HasRow
  <2>2. /\ v \in known /\ d \in Delegators(v, e) /\ e < latest
        /\ cursor # None /\ latest >= Window
        /\ RowFits(v, d, e, reward[v][d][e])
    BY <2>1 DEF IInv, TablesInv, RowsInv
  <2>3. e \in Int /\ e <= latest /\ Window \in Int
    BY <2>2, <1>n, EpochFacts
  <2>4. pools'[e] = pools[e]
    BY <2>3
  <2>5. e > 0 => e - 1 \in Epoch /\ e - 1 <= latest
    BY <2>3, <1>n, EpochFacts
  <2>6. e > 0 => pools'[e - 1] = pools[e - 1]
    BY <2>5
  <2>7. d \in Delegators(v, e)'
    BY <2>2, <2>4 DEF Delegators
  <2>8. RowFits(v, d, e, reward[v][d][e])'
    BY <2>2, <2>4, <2>6 DEF RowFits, RewardFits
  <2>9. e < latest' /\ latest' >= Window
    BY <2>2, <2>3, <1>n
  <2>10. QED
    BY <2>2, <2>7, <2>8, <2>9
<1>2. CursorInv'
  <2>1. cursor # None => cursor < latest /\ (cursor >= 0 => latest >= Window)
    BY DEF IInv, TablesInv, CursorInv
  <2>2. QED
    BY <2>1, <1>n, EpochFacts DEF CursorInv
<1>3. NoHoles'
  <2> SUFFICES ASSUME cursor # None, NEW v \in Validator, NEW e1 \in Epoch, NEW e2 \in Epoch,
                      e1 < e2, e2 <= cursor, NEW d1 \in Delegator, HasRow(v, d1, e1)',
                      NEW d \in Delegator, d \in Delegators(v, e2)'
               PROVE  HasRow(v, d, e2)'
    BY DEF NoHoles, Delegators
  <2>1. cursor < latest
    BY DEF IInv, TablesInv, CursorInv
  <2>2. e2 <= latest
    BY <2>1, <1>n, EpochFacts
  <2>3. d \in Delegators(v, e2)
    BY <2>2 DEF Delegators
  <2>4. HasRow(v, d1, e1)
    BY DEF HasRow
  <2>5. HasRow(v, d, e2)
    BY <2>3, <2>4 DEF IInv, TablesInv, NoHoles
  <2>6. QED
    BY <2>5 DEF HasRow
<1>4. QED
  BY <1>1, <1>2, <1>3 DEF TablesInv

(* An INSERT fills places that were empty, in the epoch of the run. *)
LEMMA Stored ==
  ASSUME IInv, pc = "sync", NEW v \in Validator, v \in listed,
         NEW new \in SUBSET Missing(v, rewardEpoch), Store(v, new),
         UNCHANGED <<chain, known, cursor>>
  PROVE  /\ TablesType' /\ TablesInv' /\ RowsStay
         /\ \A w \in Validator, d \in Delegator, e \in Epoch : HasRow(w, d, e)' =>
              HasRow(w, d, e) \/ (w = v /\ e = rewardEpoch)
         /\ \A d \in new : reward'[v][d][rewardEpoch] # None
<1>t. ChainType /\ TablesType /\ JobType
  BY Typed DEF IInv
<1>j. /\ rewardEpoch \in Epoch /\ rewardEpoch < currentEpoch /\ currentEpoch <= latest
      /\ cursor # None /\ cursor <= rewardEpoch
      /\ rewardEpoch >= 0 => latest >= Window
      /\ v \in known
  BY <1>t DEF IInv, JobInv, InWalk, JobType
<1>n. /\ latest \in Int /\ currentEpoch \in Int /\ rewardEpoch \in Int /\ cursor \in Int
      /\ 0 <= rewardEpoch
  BY <1>t, <1>j, EpochFacts DEF ChainType, TablesType, JobType
<1>s. new \subseteq Delegator /\ new \subseteq Delegators(v, rewardEpoch)
  BY DEF Missing, Delegators
<1>m. \A d \in new : ~HasRow(v, d, rewardEpoch)
  BY DEF Missing, HasRow
<1>u. latest' = latest /\ pools' = pools /\ known' = known /\ cursor' = cursor
  BY DEF chain
<1>1. \A w \in Validator, d \in Delegator, e \in Epoch :
        reward'[w][d][e] = IF w = v /\ d \in new /\ e = rewardEpoch
                           THEN RowFor(v, d, rewardEpoch) ELSE reward[w][d][e]
  <2> SUFFICES ASSUME NEW w \in Validator, NEW d \in Delegator, NEW e \in Epoch
               PROVE  reward'[w][d][e] = IF w = v /\ d \in new /\ e = rewardEpoch
                                         THEN RowFor(v, d, rewardEpoch) ELSE reward[w][d][e]
    OBVIOUS
  <2>1. CASE w # v
    <3>1. reward'[w] = reward[w]
      BY <2>1, <1>t DEF Store, TablesType
    <3>2. QED
      BY <2>1, <3>1
  <2>2. CASE w = v
    <3>1. reward'[v] = [c \in Delegator |->
                          IF c \in new THEN [reward[v][c] EXCEPT ![rewardEpoch] = RowFor(v, c, rewardEpoch)]
                                       ELSE reward[v][c]]
      BY <1>t DEF Store, TablesType
    <3>2. reward'[v][d] = IF d \in new THEN [reward[v][d] EXCEPT ![rewardEpoch] = RowFor(v, d, rewardEpoch)]
                                       ELSE reward[v][d]
      BY <3>1
    <3>3. reward[v][d] \in [Epoch -> Row \cup {None}]
      BY <1>t DEF TablesType
    <3>4. QED
      BY <2>2, <3>2, <3>3, <1>j
  <2>3. QED
    BY <2>1, <2>2
<1>2. TablesType'
  <2>1. \A d \in new : RowFor(v, d, rewardEpoch) \in Row
    BY <1>t, <1>j, <1>s, RowForType
  <2>2. \A w \in Validator, d \in Delegator : reward[w][d] \in [Epoch -> Row \cup {None}]
    BY <1>t DEF TablesType
  <2>3. \A d \in Delegator :
          (IF d \in new THEN [reward[v][d] EXCEPT ![rewardEpoch] = RowFor(v, d, rewardEpoch)]
                        ELSE reward[v][d]) \in [Epoch -> Row \cup {None}]
    BY <2>1, <2>2
  <2>4. [d \in Delegator |-> IF d \in new THEN [reward[v][d] EXCEPT ![rewardEpoch] = RowFor(v, d, rewardEpoch)]
                                          ELSE reward[v][d]]
          \in [Delegator -> [Epoch -> Row \cup {None}]]
    BY <2>3
  <2>5. reward' = [reward EXCEPT ![v] =
          [d \in Delegator |-> IF d \in new THEN [reward[v][d] EXCEPT ![rewardEpoch] = RowFor(v, d, rewardEpoch)]
                                            ELSE reward[v][d]]]
    BY <1>t DEF Store, TablesType
  <2>6. reward' \in [Validator -> [Delegator -> [Epoch -> Row \cup {None}]]]
    BY <2>4, <2>5, <1>t DEF TablesType
  <2>7. QED
    BY <2>6, <1>u, <1>t DEF TablesType
<1>3. RowsStay
  BY <1>1, <1>m DEF RowsStay, HasRow
<1>4. \A w \in Validator, d \in Delegator, e \in Epoch : HasRow(w, d, e)' =>
        HasRow(w, d, e) \/ (w = v /\ d \in new /\ e = rewardEpoch)
  BY <1>1 DEF HasRow
<1>5. \A d \in new : reward'[v][d][rewardEpoch] # None
  <2>1. \A d \in new : reward'[v][d][rewardEpoch] = RowFor(v, d, rewardEpoch)
    BY <1>1, <1>s, <1>j
  <2>2. \A d \in new : RowFor(v, d, rewardEpoch) # None
    BY <1>t, <1>j, <1>s, RowForType
  <2>3. QED
    BY <2>1, <2>2
<1>6. RowsInv'
  <2> SUFFICES ASSUME NEW w \in Validator, NEW d \in Delegator, NEW e \in Epoch,
                      HasRow(w, d, e)'
               PROVE  /\ w \in known' /\ d \in Delegators(w, e)' /\ e < latest'
                      /\ cursor' # None /\ latest' >= Window
                      /\ RowFits(w, d, e, reward[w][d][e])'
    BY DEF RowsInv
  <2>1. CASE HasRow(w, d, e)
    <3>1. /\ w \in known /\ d \in Delegators(w, e) /\ e < latest
          /\ cursor # None /\ latest >= Window
          /\ RowFits(w, d, e, reward[w][d][e])
      BY <2>1 DEF IInv, TablesInv, RowsInv
    <3>2. reward'[w][d][e] = reward[w][d][e]
      BY <2>1, <1>3 DEF RowsStay
    <3>3. QED
      BY <3>1, <3>2, <1>u DEF Delegators, RowFits, RewardFits
  <2>2. CASE ~HasRow(w, d, e)
    <3>1. w = v /\ d \in new /\ e = rewardEpoch
      BY <2>2, <1>4
    <3>2. reward'[w][d][e] = RowFor(v, d, e)
      BY <1>1, <3>1
    <3>3. RowFits(v, d, e, RowFor(v, d, e))
      BY <1>t, RowForFits DEF IInv, TablesInv
    <3>4. RowFits(w, d, e, reward[w][d][e])'
      BY <3>1, <3>2, <3>3, <1>u DEF RowFits, RewardFits
    <3>5. d \in Delegators(w, e)'
      BY <3>1, <1>s, <1>u DEF Delegators
    <3>6. e < latest
      BY <3>1, <1>j, <1>n
    <3>7. latest >= Window
      BY <1>j, <1>n
    <3>8. QED
      BY <3>1, <3>4, <3>5, <3>6, <3>7, <1>j, <1>u
  <2>3. QED
    BY <2>1, <2>2
<1>7. CursorInv'
  BY <1>u DEF IInv, TablesInv, CursorInv
<1>8. NoHoles'
  <2> SUFFICES ASSUME NEW w \in Validator, NEW e1 \in Epoch, NEW e2 \in Epoch,
                      e1 < e2, e2 <= cursor, NEW d1 \in Delegator, HasRow(w, d1, e1)',
                      NEW d \in Delegator, d \in Delegators(w, e2)
               PROVE  HasRow(w, d, e2)'
    BY <1>u DEF NoHoles, Delegators
  <2>1. e1 # rewardEpoch
    BY <1>j, <1>n, EpochFacts
  <2>2. HasRow(w, d1, e1)
    BY <2>1, <1>4
  <2>3. HasRow(w, d, e2)
    BY <2>2, <1>j DEF IInv, TablesInv, NoHoles
  <2>4. QED
    BY <2>3, <1>3 DEF RowsStay, HasRow
<1>9. QED
  BY <1>2, <1>3, <1>4, <1>5, <1>6, <1>7, <1>8 DEF TablesInv

(* The DELETE takes the oldest rows, whole epochs at a time. *)
LEMMA Deleted ==
  ASSUME IInv, pc = "delete", DeleteBefore, UNCHANGED <<chain, known, cursor>>
  PROVE  /\ TablesType' /\ TablesInv'
         /\ \A v \in Validator, d \in Delegator, e \in Epoch :
              HasRow(v, d, e)' => rewardEpoch <= e /\ reward'[v][d][e] = reward[v][d][e]
<1>t. ChainType /\ TablesType /\ JobType
  BY Typed DEF IInv
<1>n. rewardEpoch \in Int /\ (cursor # None => cursor \in Int)
  BY <1>t, EpochFacts DEF TablesType, JobType
<1>u. latest' = latest /\ pools' = pools /\ known' = known /\ cursor' = cursor
  BY DEF chain
<1>1. \A v \in Validator, d \in Delegator, e \in Epoch :
        reward'[v][d][e] = IF e < rewardEpoch THEN None ELSE reward[v][d][e]
  BY DEF DeleteBefore
<1>2. TablesType'
  <2>1. \A v \in Validator, d \in Delegator, e \in Epoch :
          (IF e < rewardEpoch THEN None ELSE reward[v][d][e]) \in Row \cup {None}
    BY <1>t, RowFacts
  <2>2. reward' \in [Validator -> [Delegator -> [Epoch -> Row \cup {None}]]]
    BY <2>1 DEF DeleteBefore
  <2>3. QED
    BY <2>2, <1>u, <1>t DEF TablesType
<1>3. \A v \in Validator, d \in Delegator, e \in Epoch :
        HasRow(v, d, e)' => rewardEpoch <= e /\ reward'[v][d][e] = reward[v][d][e]
  BY <1>1, <1>n, EpochFacts DEF HasRow
<1>4. \A v \in Validator, d \in Delegator, e \in Epoch : HasRow(v, d, e)' => HasRow(v, d, e)
  BY <1>3 DEF HasRow
<1>5. RowsInv'
  <2> SUFFICES ASSUME NEW v \in Validator, NEW d \in Delegator, NEW e \in Epoch,
                      HasRow(v, d, e)'
               PROVE  /\ v \in known' /\ d \in Delegators(v, e)' /\ e < latest'
                      /\ cursor' # None /\ latest' >= Window
                      /\ RowFits(v, d, e, reward[v][d][e])'
    BY DEF RowsInv
  <2>1. /\ v \in known /\ d \in Delegators(v, e) /\ e < latest
        /\ cursor # None /\ latest >= Window
        /\ RowFits(v, d, e, reward[v][d][e])
    BY <1>4 DEF IInv, TablesInv, RowsInv
  <2>2. QED
    BY <2>1, <1>3, <1>u DEF Delegators, RowFits, RewardFits
<1>6. CursorInv'
  BY <1>u DEF IInv, TablesInv, CursorInv
<1>7. NoHoles'
  <2> SUFFICES ASSUME cursor # None, NEW v \in Validator, NEW e1 \in Epoch, NEW e2 \in Epoch,
                      e1 < e2, e2 <= cursor, NEW d1 \in Delegator, HasRow(v, d1, e1)',
                      NEW d \in Delegator, d \in Delegators(v, e2)
               PROVE  HasRow(v, d, e2)'
    BY <1>u DEF NoHoles, Delegators
  <2>1. HasRow(v, d1, e1) /\ rewardEpoch <= e1
    BY <1>3, <1>4
  <2>2. HasRow(v, d, e2)
    BY <2>1 DEF IInv, TablesInv, NoHoles
  <2>3. ~(e2 < rewardEpoch)
    BY <2>1, <1>n, EpochFacts
  <2>4. reward'[v][d][e2] = reward[v][d][e2]
    BY <2>3, <1>1
  <2>5. QED
    BY <2>2, <2>4 DEF HasRow
<1>8. QED
  BY <1>2, <1>3, <1>5, <1>6, <1>7 DEF TablesInv

(* The cursor moves over an epoch that is stored, or over epochs before    *)
(* the window, of which nothing is left.                                   *)
LEMMA CursorMoved ==
  ASSUME IInv, pc = "insertCursor" \/ (pc = "sync" /\ todo = {}),
         cursor' = rewardEpoch, UNCHANGED <<chain, known, reward>>
  PROVE  TablesType' /\ TablesInv'
<1>t. ChainType /\ TablesType /\ JobType
  BY Typed DEF IInv
<1>n. /\ latest \in Int /\ currentEpoch \in Int /\ rewardEpoch \in Int
      /\ (cursor # None => cursor \in Int) /\ rewardEpoch # None
  BY <1>t, EpochFacts DEF ChainType, TablesType, JobType
<1>u. latest' = latest /\ pools' = pools /\ known' = known /\ reward' = reward
  BY DEF chain
<1>1. TablesType'
  BY <1>t, <1>u DEF TablesType, JobType
<1>2. rewardEpoch < latest /\ (rewardEpoch >= 0 => latest >= Window)
  <2>c. currentEpoch <= latest
    BY DEF IInv, JobInv
  <2>1. CASE pc = "insertCursor"
    <3>1. rewardEpoch = currentEpoch - Window
      BY <2>1 DEF IInv, JobInv, Cutoff
    <3>2. QED
      BY <3>1, <2>c, <1>n, EpochFacts
  <2>2. CASE pc = "sync"
    <3>1. rewardEpoch < currentEpoch /\ (rewardEpoch >= 0 => latest >= Window)
      BY <2>2 DEF IInv, JobInv, InWalk
    <3>2. QED
      BY <3>1, <2>c, <1>n
  <2>3. QED
    BY <2>1, <2>2
<1>3. CursorInv'
  BY <1>2, <1>u DEF CursorInv
<1>4. RowsInv'
  <2>1. RowsInv
    BY DEF IInv, TablesInv
  <2>2. QED
    BY <2>1, <1>u, <1>n DEF RowsInv, HasRow, Delegators, RowFits, RewardFits
<1>5. NoHoles'
  <2> SUFFICES ASSUME NEW v \in Validator, NEW e1 \in Epoch, NEW e2 \in Epoch,
                      e1 < e2, e2 <= rewardEpoch, NEW d1 \in Delegator, HasRow(v, d1, e1),
                      NEW d \in Delegator, d \in Delegators(v, e2)
               PROVE  HasRow(v, d, e2)
    BY <1>u DEF NoHoles, Delegators, HasRow
  <2>e. e1 \in Int /\ e2 \in Int
    BY EpochFacts
  <2>1. cursor # None
    BY DEF IInv, TablesInv, RowsInv
  <2>2. pc = "sync" /\ todo = {}
    BY <2>1 DEF IInv, JobInv
  <2>3. CASE e2 <= cursor
    BY <2>1, <2>3 DEF IInv, TablesInv, NoHoles
  <2>4. CASE e2 = rewardEpoch
    <3>1. v \in listed \ todo
      BY <2>2 DEF IInv, JobInv
    <3>2. Missing(v, rewardEpoch) = {}
      BY <2>2, <3>1 DEF IInv, JobInv
    <3>3. QED
      BY <2>4, <3>2 DEF Missing, HasRow
  <2>5. CASE ~(e2 <= cursor) /\ e2 # rewardEpoch
    <3>1. ~(rewardEpoch - 1 <= cursor)
      BY <2>5, <2>e, <2>1, <1>n
    <3>2. NoneBefore(rewardEpoch)
      BY <2>2, <3>1 DEF IInv, JobInv, InWalk
    <3>3. rewardEpoch <= e1
      BY <3>2 DEF NoneBefore
    <3>4. QED
      BY <3>3, <2>e, <1>n
  <2>6. QED
    BY <2>3, <2>4, <2>5
<1>6. QED
  BY <1>1, <1>3, <1>4, <1>5 DEF TablesInv
-----------------------------------------------------------------------------
(* The job.                                                                *)

LEMMA ReturnIsSafe ==
  ASSUME ChainType', Return
  PROVE  JobType' /\ JobInv'
<1>1. currentEpoch' <= latest'
  BY EpochFacts DEF ChainType, Return
<1>2. JobInv'
  BY <1>1 DEF Return, JobInv, InWalk
<1>3. JobType'
  BY EpochFacts DEF Return, JobType
<1>4. QED
  BY <1>2, <1>3

(* The head of the loop: what must hold to go on with epoch n.             *)
LEMMA LoopIsSafe ==
  ASSUME ChainType', JobType, currentEpoch <= latest', NEW n \in Int,
         NEW validators \in SUBSET known', Loop(n, validators),
         cursor' # None, cursor' <= n, n - 1 <= cursor' \/ NoneBefore(n)',
         n >= 0 => latest' >= Window,
         \A v \in Validator, d \in Delegator, e \in Epoch : HasRow(v, d, e)' => v \in validators
  PROVE  JobType' /\ JobInv'
<1>1. CASE n < currentEpoch /\ n \in Epoch
  <2>1. /\ pc' = "sync" /\ rewardEpoch' = n
        /\ listed' = validators /\ todo' = validators /\ currentEpoch' = currentEpoch
    BY <1>1 DEF Loop
  <2>2. n \in -Window..MaxEpoch
    BY <1>1, EpochFacts
  <2>3. JobType'
    BY <2>1, <2>2 DEF JobType
  <2>4. listed' \ todo' = {}
    BY <2>1
  <2>5. NoneBefore(n)' => NoneBefore(rewardEpoch)'
    BY <2>1 DEF NoneBefore
  <2>6. JobInv'
    BY <1>1, <2>1, <2>4, <2>5 DEF JobInv, InWalk
  <2>7. QED
    BY <2>3, <2>6
<1>2. CASE ~(n < currentEpoch /\ n \in Epoch)
  BY <1>2, ReturnIsSafe DEF Loop
<1>3. QED
  BY <1>1, <1>2
-----------------------------------------------------------------------------
(* The steps.                                                              *)

LEMMA Assembled ==
  ASSUME ChainType', TablesType', JobType', faults' \in 0..MaxFaults, TablesInv', JobInv'
  PROVE  IInv'
BY Typed DEF IInv

LEMMA FaultType ==
  ASSUME IInv, Fault \/ UNCHANGED faults
  PROVE  faults' \in 0..MaxFaults
<1>1. faults \in 0..MaxFaults /\ MaxFaults \in Nat
  BY FaultAssumption DEF IInv, TypeOK
<1>2. QED
  BY <1>1 DEF Fault

(* A step of the job, or of a fault, that writes to no table.              *)
LEMMA JobStep ==
  ASSUME IInv, UNCHANGED <<chain, tables>>, Fault \/ UNCHANGED faults, JobType', JobInv'
  PROVE  IInv'
<1>t. ChainType /\ TablesType
  BY Typed DEF IInv
<1>1. ChainType' /\ TablesType'
  BY <1>t DEF ChainType, TablesType, chain, tables
<1>2. latest \in Int
  BY <1>t, EpochFacts DEF ChainType
<1>3. TablesInv'
  BY <1>1, <1>2, TablesSame DEF chain, tables
<1>4. QED
  BY <1>1, <1>3, FaultType, Assembled

LEMMA GrowPreserves == ASSUME IInv, Grow PROVE IInv'
<1>t. ChainType /\ TablesType /\ JobType
  BY Typed DEF IInv
<1>u. known' = known /\ reward' = reward /\ cursor' = cursor
  BY DEF Grow, tables
<1>j. /\ pc' = pc /\ currentEpoch' = currentEpoch /\ rewardEpoch' = rewardEpoch
      /\ listed' = listed /\ todo' = todo
  BY DEF Grow, job
<1>n. latest \in Int /\ latest + 1 \in Epoch /\ latest' = latest + 1 /\ currentEpoch \in Int
  BY <1>t, EpochFacts DEF Grow, ChainType, JobType
<1>1. PICK p \in Pools[latest + 1] : pools' = [pools EXCEPT ![latest + 1] = p]
  BY DEF Grow
<1>2. p \in [Validator -> Pool]
  BY <1>n, PoolAssumption
<1>3. ChainType'
  BY <1>1, <1>2, <1>n, <1>t DEF ChainType
<1>4. \A e \in Epoch : e <= latest => pools'[e] = pools[e]
  <2>1. \A e \in Epoch : e <= latest => e # latest + 1
    BY <1>n, EpochFacts
  <2>2. QED
    BY <1>1, <1>t, <2>1 DEF ChainType
<1>5. TablesInv'
  BY <1>3, <1>4, <1>n, <1>u, TablesSame
<1>6. TablesType' /\ JobType'
  BY <1>t, <1>u, <1>j DEF TablesType, JobType
<1>7. JobInv'
  <2>1. currentEpoch <= latest
    BY DEF IInv, JobInv
  <2>2. currentEpoch' <= latest'
    BY <2>1, <1>n, <1>j
  <2>3. InWalk' => /\ cursor' # None /\ cursor' <= rewardEpoch'
                   /\ rewardEpoch' >= 0 => latest' >= Window
                   /\ rewardEpoch' - 1 <= cursor' \/ NoneBefore(rewardEpoch)'
    <3> SUFFICES ASSUME InWalk'
                 PROVE  /\ cursor' # None /\ cursor' <= rewardEpoch'
                        /\ rewardEpoch' >= 0 => latest' >= Window
                        /\ rewardEpoch' - 1 <= cursor' \/ NoneBefore(rewardEpoch)'
      OBVIOUS
    <3>1. /\ cursor # None /\ cursor <= rewardEpoch
          /\ rewardEpoch >= 0 => latest >= Window
          /\ rewardEpoch - 1 <= cursor \/ NoneBefore(rewardEpoch)
      BY <1>j DEF IInv, JobInv, InWalk
    <3>2. NoneBefore(rewardEpoch) => NoneBefore(rewardEpoch)'
      BY <1>u, <1>j DEF NoneBefore, HasRow
    <3>3. latest >= Window => latest' >= Window
      BY <1>n, EpochFacts
    <3>4. QED
      BY <3>1, <3>2, <3>3, <1>u, <1>j
  <2>4. pc' \in {"findCursor", "insertCursor"} => NoneBefore(rewardEpoch)'
    BY <1>u, <1>j DEF IInv, JobInv, NoneBefore, HasRow
  <2>5. pc' = "sync" =>
          /\ rewardEpoch' \in Epoch /\ rewardEpoch' < currentEpoch'
          /\ \A v \in Validator, d \in Delegator, e \in Epoch : HasRow(v, d, e)' => v \in listed'
          /\ \A v \in listed' \ todo' : Missing(v, rewardEpoch)' = {}
    <3> SUFFICES ASSUME pc' = "sync"
                 PROVE  /\ rewardEpoch' \in Epoch /\ rewardEpoch' < currentEpoch'
                        /\ \A v \in Validator, d \in Delegator, e \in Epoch :
                             HasRow(v, d, e)' => v \in listed'
                        /\ \A v \in listed' \ todo' : Missing(v, rewardEpoch)' = {}
      OBVIOUS
    <3>1. /\ rewardEpoch \in Epoch /\ rewardEpoch < currentEpoch
          /\ \A v \in Validator, d \in Delegator, e \in Epoch : HasRow(v, d, e) => v \in listed
          /\ \A v \in listed \ todo : Missing(v, rewardEpoch) = {}
      BY <1>j DEF IInv, JobInv
    <3>2. rewardEpoch <= latest
      BY <3>1, <2>1, <1>n, EpochFacts
    <3>3. pools'[rewardEpoch] = pools[rewardEpoch]
      BY <3>1, <3>2, <1>4
    <3>4. \A v \in listed \ todo : Missing(v, rewardEpoch)' = Missing(v, rewardEpoch)
      BY <3>3, <1>u, <1>j DEF Missing, Delegators
    <3>5. QED
      BY <3>1, <3>4, <1>u, <1>j DEF HasRow
  <2>6. /\ pc' \in {"delete", "findCursor", "insertCursor"} => rewardEpoch' = Cutoff(currentEpoch)'
        /\ pc' = "insertCursor" => cursor' = None
    BY <1>u, <1>j DEF IInv, JobInv, Cutoff
  <2>7. QED
    BY <2>2, <2>3, <2>4, <2>5, <2>6 DEF JobInv
<1>8. QED
  BY <1>3, <1>5, <1>6, <1>7, FaultType, Assembled DEF Grow

LEMMA JoinPreserves == ASSUME IInv, Join PROVE IInv'
<1>t. ChainType /\ TablesType /\ JobType
  BY Typed DEF IInv
<1>1. PICK v \in Validator \ known : known' = known \cup {v}
  BY DEF Join
<1>u. latest' = latest /\ pools' = pools /\ reward' = reward /\ cursor' = cursor
  BY DEF Join, chain
<1>j. /\ pc' = pc /\ currentEpoch' = currentEpoch /\ rewardEpoch' = rewardEpoch
      /\ listed' = listed /\ todo' = todo
  BY DEF Join, job
<1>2. ChainType' /\ TablesType' /\ JobType'
  BY <1>t, <1>1, <1>u, <1>j DEF ChainType, TablesType, JobType
<1>3. latest \in Int
  BY <1>t, EpochFacts DEF ChainType
<1>4. TablesInv'
  BY <1>1, <1>2, <1>3, <1>u, TablesSame
<1>5. JobInv'
  <2>1. JobInv
    BY DEF IInv
  <2>2. QED
    BY <2>1, <1>u, <1>j DEF JobInv, InWalk, NoneBefore, HasRow, Cutoff, Missing, Delegators
<1>6. QED
  BY <1>2, <1>4, <1>5, FaultType, Assembled DEF Join

LEMMA StatusPreserves == ASSUME IInv, GetStatus \/ GetStaleStatus PROVE IInv'
<1>t. ChainType /\ TablesType /\ JobType
  BY Typed DEF IInv
<1>u. UNCHANGED <<chain, tables, listed, todo>> /\ pc' = "delete" /\ (Fault \/ UNCHANGED faults)
  BY DEF GetStatus, GetStaleStatus
<1>n. latest \in Epoch /\ latest \in Int /\ latest' = latest /\ known' = known
  BY <1>t, <1>u, EpochFacts DEF ChainType, chain, tables
<1>1. PICK e \in Epoch : e <= latest /\ currentEpoch' = e /\ rewardEpoch' = Cutoff(e)
  <2>1. CASE GetStatus
    BY <2>1, <1>n DEF GetStatus
  <2>2. CASE GetStaleStatus
    <3>1. PICK e \in Epoch : e < latest /\ currentEpoch' = e /\ rewardEpoch' = Cutoff(e)
      BY <2>2 DEF GetStaleStatus
    <3>2. e <= latest
      BY <3>1, <1>n, EpochFacts
    <3>3. QED
      BY <3>1, <3>2
  <2>3. QED
    BY <2>1, <2>2
<1>2. Cutoff(e) \in -Window..MaxEpoch
  BY EpochFacts DEF Cutoff
<1>3. JobType'
  BY <1>t, <1>u, <1>n, <1>1, <1>2 DEF JobType
<1>4. JobInv'
  BY <1>u, <1>1, <1>n DEF JobInv, InWalk, Cutoff
<1>5. QED
  BY <1>u, <1>3, <1>4, JobStep

LEMMA DeletePreserves == ASSUME IInv, DeleteBeforeEpoch PROVE IInv'
<1> USE DEF DeleteBeforeEpoch
<1>t. ChainType /\ TablesType /\ JobType
  BY Typed DEF IInv
<1>u. /\ latest' = latest /\ pools' = pools /\ known' = known /\ cursor' = cursor
      /\ pc' = "findCursor" /\ currentEpoch' = currentEpoch /\ rewardEpoch' = rewardEpoch
      /\ listed' = listed /\ todo' = todo
  BY DEF chain, GoTo
<1>1. /\ TablesType' /\ TablesInv'
      /\ \A v \in Validator, d \in Delegator, e \in Epoch : HasRow(v, d, e)' => rewardEpoch <= e
  BY Deleted
<1>2. ChainType' /\ JobType'
  BY <1>t, <1>u DEF ChainType, JobType
<1>3. NoneBefore(rewardEpoch)'
  BY <1>1, <1>u DEF NoneBefore
<1>4. JobInv'
  BY <1>3, <1>u DEF IInv, JobInv, InWalk, Cutoff
<1>5. QED
  BY <1>1, <1>2, <1>4, FaultType, Assembled

LEMMA FindCursorPreserves == ASSUME IInv, FindCursor PROVE IInv'
<1> USE DEF FindCursor
<1>t. ChainType /\ TablesType /\ JobType
  BY Typed DEF IInv
<1>u. /\ latest' = latest /\ reward' = reward /\ known' = known /\ cursor' = cursor
      /\ currentEpoch' = currentEpoch /\ listed' = listed /\ todo' = todo
  BY DEF chain, tables
<1>n. /\ latest \in Int /\ currentEpoch \in Int /\ rewardEpoch \in Int
      /\ (cursor # None => cursor \in Int)
  BY <1>t, EpochFacts DEF ChainType, TablesType, JobType
<1>j. /\ currentEpoch <= latest /\ rewardEpoch = currentEpoch - Window
      /\ NoneBefore(rewardEpoch)
  BY DEF IInv, JobInv, Cutoff
<1>1. CASE cursor = None
  <2>1. pc' = "insertCursor" /\ rewardEpoch' = rewardEpoch
    BY <1>1
  <2>2. JobType'
    BY <2>1, <1>t, <1>u DEF JobType
  <2>3. NoneBefore(rewardEpoch)'
    BY <2>1, <1>j, <1>u DEF NoneBefore, HasRow
  <2>4. JobInv'
    BY <2>1, <2>3, <1>1, <1>u, <1>j DEF JobInv, InWalk, Cutoff
  <2>5. QED
    BY <2>2, <2>4, JobStep
<1>2. CASE cursor # None
  <2>1. pc' = "findAll" /\ rewardEpoch' = Resume(cursor)
    BY <1>2
  <2>2. JobType'
    BY <2>1, <1>2, <1>t, <1>u DEF JobType, TablesType, Resume
  <2>3. PICK n \in Int : n = rewardEpoch'
    BY <2>1, <1>2, <1>n DEF Resume
  <2>4. /\ cursor <= n
        /\ n >= 0 => latest >= Window
        /\ n - 1 <= cursor \/ n = rewardEpoch
    <3>1. CASE rewardEpoch < cursor
      <4>1. n = cursor
        BY <3>1, <2>1, <2>3 DEF Resume
      <4>2. cursor >= 0 => latest >= Window
        BY <1>2 DEF IInv, TablesInv, CursorInv
      <4>3. QED
        BY <4>1, <4>2, <1>2, <1>n
    <3>2. CASE ~(rewardEpoch < cursor)
      <4>1. n = rewardEpoch
        BY <3>2, <2>1, <2>3 DEF Resume
      <4>2. QED
        BY <3>2, <4>1, <1>2, <1>n, <1>j, EpochFacts
    <3>3. QED
      BY <3>1, <3>2
  <2>5. n = rewardEpoch => NoneBefore(rewardEpoch)'
    BY <2>3, <1>j, <1>u DEF NoneBefore, HasRow
  <2>6. JobInv'
    <3>1. currentEpoch' <= latest'
      BY <1>j, <1>u
    <3>2. /\ cursor' # None /\ cursor' <= rewardEpoch'
          /\ rewardEpoch' >= 0 => latest' >= Window
          /\ rewardEpoch' - 1 <= cursor' \/ NoneBefore(rewardEpoch)'
      BY <2>3, <2>4, <2>5, <1>2, <1>u
    <3>3. QED
      BY <3>1, <3>2, <2>1 DEF JobInv, InWalk
  <2>7. QED
    BY <2>2, <2>6, JobStep
<1>3. QED
  BY <1>1, <1>2

LEMMA InsertCursorPreserves == ASSUME IInv, InsertCursor PROVE IInv'
<1> USE DEF InsertCursor
<1>t. ChainType /\ TablesType /\ JobType
  BY Typed DEF IInv
<1>u. /\ latest' = latest /\ pools' = pools /\ known' = known /\ reward' = reward
      /\ pc' = "findAll" /\ currentEpoch' = currentEpoch /\ rewardEpoch' = rewardEpoch
      /\ listed' = listed /\ todo' = todo /\ cursor' = rewardEpoch
  BY DEF chain, GoTo
<1>n. /\ latest \in Int /\ currentEpoch \in Int /\ rewardEpoch \in Int /\ rewardEpoch # None
  BY <1>t, EpochFacts DEF ChainType, JobType
<1>1. TablesType' /\ TablesInv'
  BY CursorMoved
<1>2. ChainType' /\ JobType'
  BY <1>t, <1>u DEF ChainType, JobType
<1>3. currentEpoch <= latest /\ rewardEpoch = currentEpoch - Window
  BY DEF IInv, JobInv, Cutoff
<1>4. /\ rewardEpoch >= 0 => latest >= Window
      /\ rewardEpoch <= rewardEpoch /\ rewardEpoch - 1 <= rewardEpoch
  BY <1>3, <1>n, EpochFacts
<1>5. JobInv'
  BY <1>3, <1>4, <1>n, <1>u DEF JobInv, InWalk
<1>6. QED
  BY <1>1, <1>2, <1>5, FaultType, Assembled

LEMMA FindAllPreserves == ASSUME IInv, FindAll PROVE IInv'
<1> USE DEF FindAll
<1>t. ChainType /\ TablesType /\ JobType
  BY Typed DEF IInv
<1>u. latest' = latest /\ pools' = pools /\ known' = known /\ reward' = reward /\ cursor' = cursor
  BY DEF chain, tables
<1>1. PICK n \in Int : n = rewardEpoch
  BY <1>t, EpochFacts DEF JobType
<1>2. /\ cursor # None /\ cursor <= n
      /\ n >= 0 => latest >= Window
      /\ n - 1 <= cursor \/ NoneBefore(n)
      /\ currentEpoch <= latest
  BY <1>1 DEF IInv, JobInv, InWalk
<1>3. NoneBefore(n) => NoneBefore(n)'
  BY <1>u DEF NoneBefore, HasRow
<1>4. \A v \in Validator, d \in Delegator, e \in Epoch : HasRow(v, d, e)' => v \in known
  BY <1>u DEF IInv, TablesInv, RowsInv, HasRow
<1>5. ChainType'
  BY <1>t, <1>u DEF ChainType
<1>6. PICK validators \in SUBSET known' : validators = known
  BY <1>u
<1>7. Loop(n, validators)
  BY <1>1, <1>6
<1>8. JobType' /\ JobInv'
  BY <1>2, <1>3, <1>4, <1>5, <1>6, <1>7, <1>t, <1>u, LoopIsSafe
<1>9. QED
  BY <1>8, JobStep

LEMMA SyncPreserves ==
  ASSUME IInv, NEW v \in Validator, SyncValidator(v)
  PROVE  IInv' /\ RowsStay
<1> USE DEF SyncValidator
<1>t. ChainType /\ TablesType /\ JobType
  BY Typed DEF IInv
<1>u. /\ latest' = latest /\ pools' = pools /\ known' = known /\ cursor' = cursor
      /\ pc' = "sync" /\ currentEpoch' = currentEpoch /\ rewardEpoch' = rewardEpoch
      /\ listed' = listed /\ todo' = todo \ {v} /\ v \in listed
  BY <1>t DEF chain, JobType
<1>1. PICK new \in SUBSET Missing(v, rewardEpoch) : new = Missing(v, rewardEpoch)
  OBVIOUS
<1>2. /\ TablesType' /\ TablesInv' /\ RowsStay
      /\ \A w \in Validator, d \in Delegator, e \in Epoch : HasRow(w, d, e)' =>
           HasRow(w, d, e) \/ (w = v /\ e = rewardEpoch)
      /\ \A d \in new : reward'[v][d][rewardEpoch] # None
  BY <1>1, <1>u, Stored
<1>3. ChainType' /\ JobType'
  BY <1>t, <1>u DEF ChainType, JobType
<1>4. /\ currentEpoch <= latest /\ cursor # None /\ cursor <= rewardEpoch
      /\ rewardEpoch >= 0 => latest >= Window
      /\ rewardEpoch - 1 <= cursor \/ NoneBefore(rewardEpoch)
      /\ rewardEpoch \in Epoch /\ rewardEpoch < currentEpoch
      /\ \A w \in Validator, d \in Delegator, e \in Epoch : HasRow(w, d, e) => w \in listed
      /\ \A w \in listed \ todo : Missing(w, rewardEpoch) = {}
  BY DEF IInv, JobInv, InWalk
<1>5. NoneBefore(rewardEpoch) => NoneBefore(rewardEpoch)'
  <2>1. rewardEpoch <= rewardEpoch
    BY <1>4, EpochFacts
  <2>2. QED
    BY <2>1, <1>2, <1>u DEF NoneBefore
<1>6. \A w \in Validator, d \in Delegator, e \in Epoch : HasRow(w, d, e)' => w \in listed'
  BY <1>2, <1>4, <1>u
<1>7. \A w \in listed' \ todo' : Missing(w, rewardEpoch)' = {}
  <2> SUFFICES ASSUME NEW w \in listed, w \notin todo \/ w = v,
                      NEW d \in Delegator, pools[rewardEpoch][w].shares[d] > 0
               PROVE  reward'[w][d][rewardEpoch] # None
    BY <1>u DEF Missing, Delegators
  <2>1. CASE reward[w][d][rewardEpoch] # None
    <3>1. w \in Validator
      BY <1>t DEF JobType, TablesType
    <3>2. HasRow(w, d, rewardEpoch)
      BY <2>1 DEF HasRow
    <3>3. reward'[w][d][rewardEpoch] = reward[w][d][rewardEpoch]
      BY <3>1, <3>2, <1>2, <1>4 DEF RowsStay
    <3>4. QED
      BY <2>1, <3>3
  <2>2. CASE reward[w][d][rewardEpoch] = None
    <3>1. d \in Missing(w, rewardEpoch)
      BY <2>2 DEF Missing, Delegators
    <3>2. w = v
      BY <3>1, <1>4
    <3>3. QED
      BY <3>1, <3>2, <1>1, <1>2
  <2>3. QED
    BY <2>1, <2>2
<1>8. JobInv'
  BY <1>4, <1>5, <1>6, <1>7, <1>u DEF JobInv, InWalk
<1>9. QED
  BY <1>2, <1>3, <1>8, FaultType, Assembled

LEMMA SomePreserves ==
  ASSUME IInv, NEW v \in Validator, SyncSomeAndDie(v)
  PROVE  IInv' /\ RowsStay
<1> USE DEF SyncSomeAndDie
<1>t. ChainType /\ TablesType /\ JobType
  BY Typed DEF IInv
<1>1. PICK new \in SUBSET Missing(v, rewardEpoch) : Store(v, new)
  OBVIOUS
<1>2. v \in listed
  BY <1>t DEF JobType
<1>3. TablesType' /\ TablesInv' /\ RowsStay
  BY <1>1, <1>2, Stored
<1>4. ChainType'
  BY <1>t DEF ChainType, chain
<1>5. QED
  BY <1>3, <1>4, ReturnIsSafe, FaultType, Assembled

LEMMA UpdateCursorPreserves == ASSUME IInv, UpdateCursor PROVE IInv'
<1> USE DEF UpdateCursor
<1>t. ChainType /\ TablesType /\ JobType
  BY Typed DEF IInv
<1>u. latest' = latest /\ pools' = pools /\ known' = known /\ reward' = reward
  BY DEF chain
<1>1. TablesType' /\ TablesInv'
  BY CursorMoved
<1>2. PICK m \in Int : m = rewardEpoch
  BY <1>t, EpochFacts DEF JobType
<1>3. PICK n \in Int : n = m + 1
  OBVIOUS
<1>4. /\ rewardEpoch \in Epoch /\ currentEpoch <= latest
      /\ rewardEpoch >= 0 => latest >= Window
      /\ \A v \in Validator, d \in Delegator, e \in Epoch : HasRow(v, d, e) => v \in listed
  BY DEF IInv, JobInv, InWalk
<1>5. /\ cursor' # None /\ cursor' <= n /\ n - 1 <= cursor'
      /\ n >= 0 => latest' >= Window
  BY <1>2, <1>3, <1>4, <1>u, EpochFacts
<1>6. \A v \in Validator, d \in Delegator, e \in Epoch : HasRow(v, d, e)' => v \in listed
  BY <1>4, <1>u DEF HasRow
<1>7. PICK validators \in SUBSET known' : validators = listed
  BY <1>t, <1>u DEF JobType
<1>8. Loop(n, validators)
  BY <1>2, <1>3, <1>7
<1>9. ChainType'
  BY <1>t, <1>u DEF ChainType
<1>10. JobType' /\ JobInv'
  BY <1>4, <1>5, <1>6, <1>7, <1>8, <1>9, <1>t, <1>u, LoopIsSafe
<1>11. QED
  BY <1>1, <1>9, <1>10, FaultType, Assembled

LEMMA WriteAndDiePreserves == ASSUME IInv, WriteAndDie PROVE IInv'
<1> USE DEF WriteAndDie
<1>t. ChainType /\ TablesType /\ JobType
  BY Typed DEF IInv
<1>1. TablesType' /\ TablesInv'
  <2>1. CASE pc = "delete" /\ DeleteBefore /\ UNCHANGED cursor
    BY <2>1, Deleted
  <2>2. CASE (pc = "insertCursor" \/ (pc = "sync" /\ todo = {}))
             /\ cursor' = rewardEpoch /\ UNCHANGED reward
    BY <2>2, CursorMoved
  <2>3. QED
    BY <2>1, <2>2
<1>2. ChainType'
  BY <1>t DEF ChainType, chain
<1>3. QED
  BY <1>1, <1>2, ReturnIsSafe, FaultType, Assembled

LEMMA FailPreserves == ASSUME IInv, Fail PROVE IInv'
<1>t. ChainType
  BY Typed DEF IInv
<1>1. ChainType'
  BY <1>t DEF Fail, ChainType, chain
<1>2. QED
  BY <1>1, ReturnIsSafe, JobStep DEF Fail

LEMMA NextPreserves == IInv /\ [Next]_vars => IInv'
<1> SUFFICES ASSUME IInv, [Next]_vars PROVE IInv'
  OBVIOUS
<1>1. CASE Grow
  BY <1>1, GrowPreserves
<1>2. CASE Join
  BY <1>2, JoinPreserves
<1>3. CASE GetStatus \/ GetStaleStatus
  BY <1>3, StatusPreserves
<1>4. CASE DeleteBeforeEpoch
  BY <1>4, DeletePreserves
<1>5. CASE FindCursor
  BY <1>5, FindCursorPreserves
<1>6. CASE InsertCursor
  BY <1>6, InsertCursorPreserves
<1>7. CASE FindAll
  BY <1>7, FindAllPreserves
<1>8. CASE \E v \in Validator : SyncValidator(v)
  BY <1>8, SyncPreserves
<1>9. CASE UpdateCursor
  BY <1>9, UpdateCursorPreserves
<1>10. CASE \E v \in Validator : SyncSomeAndDie(v)
  BY <1>10, SomePreserves
<1>11. CASE WriteAndDie
  BY <1>11, WriteAndDiePreserves
<1>12. CASE Fail
  BY <1>12, FailPreserves
<1>13. CASE UNCHANGED vars
  <2>t. ChainType /\ TablesType /\ JobType
    BY Typed DEF IInv
  <2>1. JobType'
    BY <2>t, <1>13 DEF JobType, vars, tables, job
  <2>2. JobInv'
    <3>1. JobInv
      BY DEF IInv
    <3>2. QED
      BY <3>1, <1>13 DEF vars, chain, tables, job, JobInv, InWalk, NoneBefore, HasRow,
                         Cutoff, Missing, Delegators
  <2>3. QED
    BY <2>1, <2>2, <1>13, JobStep DEF vars
<1>14. QED
  BY <1>1, <1>2, <1>3, <1>4, <1>5, <1>6, <1>7, <1>8, <1>9, <1>10, <1>11, <1>12, <1>13
  DEF Next, Run
-----------------------------------------------------------------------------
(* What the arithmetic bounds.                                             *)

LEMMA StakeIsQuotient ==
  ASSUME NEW pool \in Pool, NEW n \in Nat, pool.total # 0
  PROVE  StakeForShares(pool, n) = (n * pool.balance) \div pool.total
<1>1. PICK b \in Nat : b = pool.balance
  BY DEF Pool
<1>2. PICK t \in Nat : t = pool.total
  BY DEF Pool
<1>3. n = 0 \/ b = 0 => (n * b) \div t = 0
  BY <1>2
<1>4. QED
  BY <1>1, <1>2, <1>3 DEF StakeForShares

LEMMA QuotientGrows ==
  ASSUME NEW m \in Nat, NEW n \in Nat, NEW b \in Nat, NEW t \in Nat, t # 0, m <= n
  PROVE  (m * b) \div t <= (n * b) \div t
<1>1. PICK k \in Nat : k = m * b
  OBVIOUS
<1>2. PICK l \in Nat : l = n * b
  OBVIOUS
<1>3. k <= l
  <2>1. m * b <= n * b
    OBVIOUS
  <2>2. QED
    BY <2>1, <1>1, <1>2
<1>4. k \div t <= l \div t
  BY <1>3
<1>5. QED
  BY <1>1, <1>2, <1>4

LEMMA QuotientOfSum ==
  ASSUME NEW m \in Nat, NEW n \in Nat, NEW b \in Nat, NEW t \in Nat, t # 0
  PROVE  ((m + n) * b) \div t <= (m * b) \div t + (n * b) \div t + 1
<1>1. PICK k \in Nat : k = m * b
  OBVIOUS
<1>2. PICK l \in Nat : l = n * b
  OBVIOUS
<1>3. (m + n) * b = k + l
  <2>1. (m + n) * b = m * b + n * b
    OBVIOUS
  <2>2. QED
    BY <2>1, <1>1, <1>2
<1>4. (k + l) \div t <= k \div t + l \div t + 1
  OBVIOUS
<1>5. QED
  BY <1>1, <1>2, <1>3, <1>4

(* More shares are worth more. *)
LEMMA StakeGrows ==
  ASSUME NEW pool \in Pool, NEW m \in Nat, NEW n \in Nat, m <= n
  PROVE  StakeForShares(pool, m) <= StakeForShares(pool, n)
<1>1. pool.balance \in Nat /\ pool.total \in Nat
  BY DEF Pool
<1>2. CASE pool.total = 0
  BY <1>2 DEF StakeForShares
<1>3. CASE pool.total # 0
  BY <1>1, <1>3, StakeIsQuotient, QuotientGrows
<1>4. QED
  BY <1>2, <1>3

(* Shares are worth at most one more together than one by one. *)
LEMMA StakeOfSum ==
  ASSUME NEW pool \in Pool, NEW m \in Nat, NEW n \in Nat
  PROVE  StakeForShares(pool, m + n) <= StakeForShares(pool, m) + StakeForShares(pool, n) + 1
<1>1. pool.balance \in Nat /\ pool.total \in Nat /\ m + n \in Nat
  BY DEF Pool
<1>2. CASE pool.total = 0
  BY <1>2 DEF StakeForShares
<1>3. CASE pool.total # 0
  BY <1>1, <1>3, StakeIsQuotient, QuotientOfSum
<1>4. QED
  BY <1>2, <1>3

(* A reward is at most what the kept shares gained, but for the rounding.  *)
LEMMA RewardBound ==
  ASSUME NEW old \in Pool, NEW new \in Pool, NEW m \in Nat, NEW n \in Nat,
         NEW kept \in Nat, kept = Smaller(m, n),
         NEW r, r > 0,
         r = Reward([amount |-> StakeForShares(old, m), shares |-> m], new, n)
  PROVE  r <= StakeForShares(new, kept) - StakeForShares(old, kept) + 1
<1> DEFINE changed == StakeForShares(new, Abs(n - m))
<1>1. PICK a \in Nat : a = StakeForShares(old, m)
  BY StakeType
<1>2. PICK b \in Nat : b = StakeForShares(new, n)
  BY StakeType
<1>3. n - m \in Int /\ Abs(n - m) \in Nat
  BY DEF Abs
<1>4. PICK c \in Nat : c = StakeForShares(new, Abs(n - m))
  BY <1>3, StakeType
<1>5. r = b - a - c
  <2>1. r = (LET gain == b - a - c IN IF gain < 0 THEN 0 ELSE gain)
    BY <1>1, <1>2, <1>4 DEF Reward
  <2>2. QED
    BY <2>1
<1>6. CASE m < n
  <2>1. kept = m
    BY <1>6 DEF Smaller
  <2>2. PICK k \in Nat : k = n - m
    BY <1>6
  <2>3. Abs(n - m) = k /\ m + k = n
    BY <2>2, <1>6 DEF Abs
  <2>4. PICK g \in Nat : g = StakeForShares(new, m)
    BY StakeType
  <2>5. b <= g + c + 1
    BY <2>3, <2>4, <1>2, <1>4, StakeOfSum
  <2>6. QED
    BY <2>1, <2>4, <2>5, <1>1, <1>5
<1>7. CASE ~(m < n)
  <2>1. kept = n /\ n <= m
    BY <1>7 DEF Smaller
  <2>2. PICK g \in Nat : g = StakeForShares(old, n)
    BY StakeType
  <2>3. g <= a
    BY <2>1, <2>2, <1>1, StakeGrows
  <2>4. QED
    BY <2>1, <2>2, <2>3, <1>2, <1>5
<1>8. QED
  BY <1>6, <1>7

LEMMA NothingOverpaid == IInv => NeverOverpaid
<1> SUFFICES ASSUME IInv, NEW v \in Validator, NEW d \in Delegator, NEW e \in Epoch,
                    HasRow(v, d, e), reward[v][d][e].reward > 0
             PROVE  reward[v][d][e].reward <= KeptGain(v, d, e) + 1
  BY DEF NeverOverpaid
<1>t. ChainType /\ TablesType
  BY Typed DEF IInv
<1>1. PICK r \in Nat : r = reward[v][d][e].reward
  BY <1>t, RowFacts
<1>2. RewardFits(v, d, e, r)
  BY <1>1 DEF IInv, TablesInv, RowsInv, RowFits
<1>3. e > 0 /\ e - 1 \in Epoch
  BY <1>1, <1>2, EpochFacts DEF RewardFits
<1>4. PICK old \in Pool : old = pools[e - 1][v]
  BY <1>t, <1>3, PoolFacts
<1>5. PICK new \in Pool : new = pools[e][v]
  BY <1>t, PoolFacts
<1>6. PICK m \in Nat : m = old.shares[d]
  BY <1>t, <1>3, <1>4, PoolFacts
<1>7. PICK n \in Nat : n = new.shares[d]
  BY <1>t, <1>5, PoolFacts
<1>8. r = Reward([amount |-> StakeForShares(old, m), shares |-> m], new, n)
  BY <1>1, <1>2, <1>4, <1>5, <1>6, <1>7 DEF RewardFits
<1>9. PICK kept \in Nat : kept = Smaller(m, n)
  BY DEF Smaller
<1>10. r <= StakeForShares(new, kept) - StakeForShares(old, kept) + 1
  BY <1>1, <1>8, <1>9, RewardBound
<1>11. KeptGain(v, d, e) = StakeForShares(new, kept) - StakeForShares(old, kept)
  BY <1>4, <1>5, <1>6, <1>7, <1>9 DEF KeptGain
<1>12. QED
  BY <1>1, <1>10, <1>11

(* No step of the job but the DELETE touches a row, and the DELETE of a    *)
(* run, however old the status it works with, stays behind the window.     *)
LEMMA StepIsFinal ==
  IInv /\ [Next]_vars =>
    \A v \in Validator, d \in Delegator, e \in Epoch :
      HasRow(v, d, e) /\ reward'[v][d][e] # reward[v][d][e]
        => reward'[v][d][e] = None /\ e < latest - Window
<1> SUFFICES ASSUME IInv, [Next]_vars, NEW v \in Validator, NEW d \in Delegator, NEW e \in Epoch,
                    HasRow(v, d, e), reward'[v][d][e] # reward[v][d][e]
             PROVE  reward'[v][d][e] = None /\ e < latest - Window
  OBVIOUS
<1>t. ChainType /\ TablesType /\ JobType
  BY Typed DEF IInv
<1>1. ASSUME pc = "delete", DeleteBefore, UNCHANGED <<chain, known, cursor>>
      PROVE  reward'[v][d][e] = None /\ e < latest - Window
  <2>1. reward'[v][d][e] = IF e < rewardEpoch THEN None ELSE reward[v][d][e]
    BY <1>1 DEF DeleteBefore
  <2>2. reward'[v][d][e] = None /\ e < rewardEpoch
    BY <2>1
  <2>3. rewardEpoch = currentEpoch - Window /\ currentEpoch <= latest
    BY <1>1 DEF IInv, JobInv, Cutoff
  <2>4. latest \in Int /\ currentEpoch \in Int
    BY <1>t, EpochFacts DEF ChainType, JobType
  <2>5. QED
    BY <2>2, <2>3, <2>4, EpochFacts
<1>2. reward' # reward /\ ~RowsStay
  BY DEF RowsStay
<1>3. CASE DeleteBeforeEpoch
  BY <1>1, <1>3 DEF DeleteBeforeEpoch
<1>4. CASE WriteAndDie
  BY <1>1, <1>2, <1>4 DEF WriteAndDie
<1>5. CASE \E w \in Validator : SyncValidator(w) \/ SyncSomeAndDie(w)
  BY <1>2, <1>5, SyncPreserves, SomePreserves
<1>6. CASE \/ Grow \/ Join \/ GetStatus \/ GetStaleStatus \/ FindCursor
           \/ InsertCursor \/ FindAll \/ UpdateCursor \/ Fail \/ UNCHANGED vars
  <2>1. reward' = reward
    BY <1>6 DEF Grow, Join, GetStatus, GetStaleStatus, FindCursor, InsertCursor,
                FindAll, UpdateCursor, Fail, tables, vars
  <2>2. QED
    BY <2>1, <1>2
<1>7. QED
  BY <1>3, <1>4, <1>5, <1>6 DEF Next, Run
-----------------------------------------------------------------------------
(* The theorems.                                                           *)

(* The inductive invariant.  Apart from what a row says, it relates the    *)
(* cursor to the epoch of the run: the run goes on where the cursor ends,  *)
(* or it has jumped, and then no row is left from before its epoch.        *)
THEOREM Invariance == Spec => []IInv
BY InitEstablishes, NextPreserves, PTL DEF Spec

(* No holes: a validator that has a row at some epoch has all its rows at  *)
(* every later one, up to the cursor (validator_task.go:548-661).          *)
THEOREM HolesCorrect == Spec => []NoHoles
<1>1. IInv => NoHoles
  BY DEF IInv, TablesInv
<1>2. QED
  BY <1>1, Invariance, PTL

(* Every reward is that of the epoch before, or zero                       *)
(* (validator_task.go:598-624), and every variable keeps its type.         *)
THEOREM RowsCorrect == Spec => []RewardFromLastRow
<1>1. IInv => RewardFromLastRow
  BY DEF IInv, TablesInv, RowsInv, RowFits, RewardFits, RewardFromLastRow
<1>2. QED
  BY <1>1, Invariance, PTL

(* Shares that were added are no reward: for every balance, number of      *)
(* shares and rounding, a reward exceeds what the kept shares gained by    *)
(* one at most (validator_task.go:610-618).                                *)
THEOREM NeverOverpaidCorrect == Spec => []NeverOverpaid
BY NothingOverpaid, Invariance, PTL

(* A stored reward is final: retries and restarts leave it alone, pruning  *)
(* removes it only behind the window (validator_task.go:507-512, 574-582). *)
THEOREM FinalCorrect == Spec => RewardIsFinal
BY StepIsFinal, Invariance, PTL DEF Spec, RewardIsFinal
=============================================================================
