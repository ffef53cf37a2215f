---------------------------- MODULE BlockScanner ----------------------------
(***************************************************************************)
(* The BlockScanner job: every 5 seconds it copies the consensus blocks    *)
(* that are not in PostgreSQL yet, one database transaction per block.     *)
(* It keeps no cursor: the highest stored block says where to resume.      *)
(*                                                                         *)
(* The job calls a remote node and a remote database, either of which may  *)
(* fail at any call; its process may be killed between any two of them     *)
(* (every deployment restarts it).  A COMMIT whose answer never arrived    *)
(* may still take effect, later, while the job already runs again.         *)
(***************************************************************************)
EXTENDS Integers, Sequences

CONSTANTS
  Genesis,      \* GenesisHeight of the chain
  MaxHeight,    \* bound: the chain stops growing here
  Validator,    \* consensus addresses of validators
  NoAddress,    \* the empty address of a validator that did not sign
  Tx,           \* transactions, by hash
  Undecodable,  \* transactions whose bytes the scanner cannot decode
  Chain,        \* Chain[h]: the block at height h
  MaxFaults     \* bound: failures the environment may inject

Height  == Genesis..MaxHeight
Address == Validator \cup {NoAddress}

ASSUME HeightAssumption ==
  /\ Genesis \in Nat \ {0}
  /\ MaxHeight \in Nat
  /\ Genesis <= MaxHeight
ASSUME FaultAssumption == MaxFaults \in Nat
ASSUME AddressAssumption == NoAddress \notin Validator
(* A block carries the last commit, one entry per validator slot with an   *)
(* empty address for those that did not sign, and a list of transactions.  *)
ASSUME ChainAssumption ==
  /\ Undecodable \subseteq Tx
  /\ Chain \in [Height -> [commit : Seq(Address), txs : Seq(Tx)]]

VARIABLES
  latest,         \* consensus: height of the last block
  db,             \* database: db[h], how often each row of height h is stored
  inflight,       \* database: transactions whose COMMIT is still undecided
  pc,             \* scanner: the call it makes next
  currentHeight,  \* scanner: LatestHeight as GetStatus reported it
  scanHeight,     \* scanner: the height it copies
  session,        \* scanner: the rows its open transaction has written
  faults          \* failures injected so far

scanner == <<pc, currentHeight, scanHeight, session>>
vars == <<latest, db, inflight, pc, currentHeight, scanHeight, session, faults>>
-----------------------------------------------------------------------------
(* The rows of one block.                                                  *)

Entries(s) == {s[i] : i \in DOMAIN s}

(* The validators that signed: the commit without its empty addresses. *)
Signers(h) == Entries(Chain[h].commit) \ {NoAddress}
Hashes(h)  == Entries(Chain[h].txs)

(* Two rows of one INSERT have the same key: the statement fails. *)
Clash(s, keys) == \E i, j \in DOMAIN s : i # j /\ s[i] = s[j] /\ s[i] \in keys

Decodable(h) == Hashes(h) \cap Undecodable = {}

(* A height the scanner is able to copy. *)
Indexable(h) ==
  /\ Decodable(h)
  /\ ~Clash(Chain[h].commit, Signers(h))
  /\ ~Clash(Chain[h].txs, Hashes(h))

(* How many rows of each key a height has; the unique keys are             *)
(* (height, validator_address), (height) and (tx_hash, height).            *)
RowCount == [signature : [Address -> Nat], block : Nat, transaction : [Tx -> Nat]]

NoRows ==
  [signature |-> [v \in Address |-> 0], block |-> 0, transaction |-> [t \in Tx |-> 0]]

(* Every row of the block, once. *)
Content ==
  [h \in Height |->
     [signature   |-> [v \in Address |-> IF v \in Signers(h) THEN 1 ELSE 0],
      block       |-> 1,
      transaction |-> [t \in Tx |-> IF t \in Hashes(h) THEN 1 ELSE 0]]]

(* What an open transaction has written. *)
Session ==
  [height : Height, signatures : SUBSET Address, block : BOOLEAN, txs : SUBSET Tx]

NoSession ==
  [height |-> Genesis, signatures |-> {}, block |-> FALSE, txs |-> {}]

(* Mutant of Committed: the transactions are inserted outside the session  *)
(* and get lost.                                                           *)
CommittedWithoutTxs(s) ==
  [db EXCEPT ![s.height].block = @ + 1,
             ![s.height].signature = [v \in Address |-> @[v] + (IF v \in s.signatures THEN 1 ELSE 0)]]

(* The rows of height h after session s commits. *)
Committed(s) ==
  LET rows == db[s.height]
  IN  [db EXCEPT ![s.height] =
         [signature   |-> [v \in Address |->
                             rows.signature[v] + (IF v \in s.signatures THEN 1 ELSE 0)],
          block       |-> rows.block + (IF s.block THEN 1 ELSE 0),
          transaction |-> [t \in Tx |->
                             rows.transaction[t] + (IF t \in s.txs THEN 1 ELSE 0)]]]

(* Mutant of Waits: an INSERT does not see the keys of undecided           *)
(* transactions.                                                           *)
WaitsNever(signatures, block, txs) == FALSE

(* PostgreSQL makes an INSERT wait while an undecided transaction holds    *)
(* one of its keys.                                                        *)
Waits(signatures, block, txs) ==
  \E o \in inflight :
    /\ o.height = session.height
    /\ \/ o.signatures \cap signatures # {}
       \/ o.block /\ block
       \/ o.txs \cap txs # {}
-----------------------------------------------------------------------------
PC == {"idle", "findLatest", "fetch", "signatures", "block", "transactions", "commit"}

TypeOK ==
  /\ latest \in Height
  /\ db \in [Height -> RowCount]
  /\ inflight \subseteq Session
  /\ pc \in PC
  /\ currentHeight \in Height
  /\ scanHeight \in Genesis..(MaxHeight + 1)
  /\ session \in Session
  /\ faults \in 0..MaxFaults

Init ==
  /\ latest = Genesis
  /\ db = [h \in Height |-> NoRows]
  /\ inflight = {}
  /\ pc = "idle"
  /\ currentHeight = Genesis
  /\ scanHeight = Genesis
  /\ session = NoSession
  /\ faults = 0

(* The function ends; its locals are gone and its transaction, if one is   *)
(* open, is rolled back.                                                   *)
Return ==
  /\ pc' = "idle"
  /\ currentHeight' = Genesis
  /\ scanHeight' = Genesis
  /\ session' = NoSession

Fault ==
  /\ faults < MaxFaults
  /\ faults' = faults + 1

(* The loop condition, evaluated for height h. *)
Loop(h, current) ==
  IF h <= current
  THEN /\ pc' = "fetch"
       /\ scanHeight' = h
       /\ currentHeight' = current
       /\ session' = NoSession
  ELSE Return

(* The validators produce the next block. *)
Grow ==
  /\ latest < MaxHeight
  /\ latest' = latest + 1
  /\ UNCHANGED <<db, inflight, scanner, faults>>

(* The cron entry fires and GetStatus answers. *)
GetStatus ==
  /\ pc = "idle"
  /\ pc' = "findLatest"
  /\ currentHeight' = latest
  /\ UNCHANGED <<latest, db, inflight, scanHeight, session, faults>>

(* The node that answers GetStatus lags behind the chain. *)
GetStaleStatus ==
  /\ pc = "idle"
  /\ Fault
  /\ pc' = "findLatest"
  /\ currentHeight' \in Genesis..(latest - 1)
  /\ UNCHANGED <<latest, db, inflight, scanHeight, session>>

(* Mutant of NextHeight: scanHeight is not incremented.                    *)
NextHeightNoIncrement ==
  LET stored == {h \in Height : db[h].block > 0}
  IN  IF stored = {} THEN Genesis ELSE CHOOSE h \in stored : \A g \in stored : g <= h

(* The height after the highest stored one, or the first when none is. *)
NextHeight ==
  LET stored == {h \in Height : db[h].block > 0}
  IN  IF stored = {} THEN Genesis
      ELSE (CHOOSE h \in stored : \A g \in stored : g <= h) + 1

FindLatestBlock ==
  /\ pc = "findLatest"
  /\ Loop(NextHeight, currentHeight)
  /\ UNCHANGED <<latest, db, inflight, faults>>

(* Mutant of Fetch: a transaction that cannot be decoded is passed over.   *)
FetchAnyway ==
  /\ pc = "fetch"
  /\ pc' = "signatures"
  /\ session' = [NoSession EXCEPT !.height = scanHeight]
  /\ UNCHANGED <<latest, db, inflight, currentHeight, scanHeight, faults>>

(* GetBlock, GetTransactionsWithResults, the decoding of every             *)
(* transaction, GetEpoch, and the begin of the database transaction.       *)
Fetch ==
  /\ pc = "fetch"
  /\ IF Decodable(scanHeight)
     THEN /\ pc' = "signatures"
          /\ session' = [NoSession EXCEPT !.height = scanHeight]
          /\ UNCHANGED <<currentHeight, scanHeight>>
     ELSE Return
  /\ UNCHANGED <<latest, db, inflight, faults>>

(* BatchSessionInsert of the signatures: it waits for an undecided         *)
(* transaction with the same keys, and fails on a key that is stored.      *)
InsertSignatures ==
  LET keys == Signers(scanHeight) IN
  /\ pc = "signatures"
  /\ ~Waits(keys, FALSE, {})
  /\ IF \/ Clash(Chain[scanHeight].commit, keys)
        \/ \E v \in keys : db[scanHeight].signature[v] > 0
     THEN Return
     ELSE /\ pc' = "block"
          /\ session' = [session EXCEPT !.signatures = keys]
          /\ UNCHANGED <<currentHeight, scanHeight>>
  /\ UNCHANGED <<latest, db, inflight, faults>>

InsertBlock ==
  /\ pc = "block"
  /\ ~Waits({}, TRUE, {})
  /\ IF db[scanHeight].block > 0
     THEN Return
     ELSE /\ pc' = "transactions"
          /\ session' = [session EXCEPT !.block = TRUE]
          /\ UNCHANGED <<currentHeight, scanHeight>>
  /\ UNCHANGED <<latest, db, inflight, faults>>

InsertTransactions ==
  LET keys == Hashes(scanHeight) IN
  /\ pc = "transactions"
  /\ ~Waits({}, FALSE, keys)
  /\ IF \/ Clash(Chain[scanHeight].txs, keys)
        \/ \E t \in keys : db[scanHeight].transaction[t] > 0
     THEN Return
     ELSE /\ pc' = "commit"
          /\ session' = [session EXCEPT !.txs = keys]
          /\ UNCHANGED <<currentHeight, scanHeight>>
  /\ UNCHANGED <<latest, db, inflight, faults>>

(* COMMIT succeeds and the loop goes on with the next height. *)
Commit ==
  /\ pc = "commit"
  /\ db' = Committed(session)
  /\ Loop(scanHeight + 1, currentHeight)
  /\ UNCHANGED <<latest, inflight, faults>>

(* COMMIT is sent and its answer lost, or the process dies waiting for it: *)
(* the scanner is out, the transaction is undecided.                       *)
CommitLost ==
  /\ pc = "commit"
  /\ Fault
  /\ inflight' = inflight \cup {session}
  /\ Return
  /\ UNCHANGED <<latest, db>>

(* The database decides a transaction nobody waits for. *)
Decide(o) ==
  /\ o \in inflight
  /\ inflight' = inflight \ {o}
  /\ db' \in {db, Committed(o)}
  /\ UNCHANGED <<latest, scanner, faults>>

(* A call fails, or the process is killed before it sends COMMIT. *)
Fail ==
  /\ pc # "idle"
  /\ Fault
  /\ Return
  /\ UNCHANGED <<latest, db, inflight>>

Scan ==
  \/ GetStatus
  \/ FindLatestBlock
  \/ Fetch
  \/ InsertSignatures
  \/ InsertBlock
  \/ InsertTransactions
  \/ Commit

DecideAny == \E o \in inflight : Decide(o)

Next ==
  \/ Grow
  \/ Scan
  \/ GetStaleStatus
  \/ CommitLost
  \/ DecideAny
  \/ Fail

(* cron starts the job again and again, a running job makes its next call, *)
(* and PostgreSQL ends every transaction.                                  *)
Fairness == WF_vars(Scan) /\ WF_vars(DecideAny)

Spec == Init /\ [][Next]_vars /\ Fairness
-----------------------------------------------------------------------------
(* Safety.                                                                 *)

(* The stored heights are a gapless prefix of the chain and each of them   *)
(* is complete, with every row once, whatever was rolled back, killed or   *)
(* left undecided on the way (block_task.go:98, one transaction per        *)
(* height, and FindLatestBlock as the only memory of the job).             *)
GaplessAndWhole ==
  /\ TypeOK
  /\ \E n \in Genesis..(latest + 1) :
       \A h \in Height : db[h] = IF h < n THEN Content[h] ELSE NoRows

(* A transaction that nobody waits for can only be the one of the height   *)
(* the next run resumes at, and there is at most one: the unique keys      *)
(* serialize the runs of the job even when a COMMIT outlives its run.      *)
OneUndecided ==
  \A o \in inflight : o.height = NextHeight /\ inflight = {o}

(* The block tables implement the index their readers count on. *)
Index == INSTANCE ChainIndex
IndexSpec == Index!Spec

(* A block that cannot be copied holds the tables back: nothing at or      *)
(* above it is ever stored, in part or out of order (block_task.go:68-87   *)
(* return instead of skipping the transaction).                            *)
NothingPastABadBlock ==
  \A b \in Height : ~Indexable(b) => \A h \in b..MaxHeight : db[h] = NoRows

(* Liveness: once the chain has a height whose blocks up to it can all be  *)
(* copied, that height is stored in the end, after any number of failures  *)
(* and restarts (block_task.go:47-164 resumes where it stopped).           *)
EveryBlockIsStored ==
  \A h \in Height :
    (latest >= h /\ \A g \in Genesis..h : Indexable(g)) ~> (db[h] = Content[h])
=============================================================================
