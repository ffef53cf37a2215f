------------------------- MODULE BlockScannerProofs -------------------------
(***************************************************************************)
(* The BlockScanner keeps the block tables a whole, gapless prefix of the  *)
(* chain, and so implements ChainIndex, for every chain and any number of  *)
(* faults.                                                                 *)
(***************************************************************************)
EXTENDS BlockScanner, TLAPS

(* The heights below n are stored, whole, and nothing else is. *)
StoredBelow(n) ==
  \A h \in Height : db[h] = IF h < n THEN Content[h] ELSE NoRows

(* The rows of height h as a complete session writes them. *)
Whole(h) ==
  [height |-> h, signatures |-> Signers(h), block |-> TRUE, txs |-> Hashes(h)]

(* What the scanner knows between two calls.  A session started before an  *)
(* undecided COMMIT was applied may be at a height that is stored by now   *)
(* (scanHeight < n); it cannot get past the INSERT into block.             *)
ScannerInv(n) ==
  /\ pc # "idle" => currentHeight <= latest
  /\ pc \notin {"idle", "findLatest"} => scanHeight <= n /\ scanHeight <= currentHeight
  /\ pc \in {"signatures", "block", "transactions", "commit"} =>
       session.height = scanHeight /\ Decodable(scanHeight)
  /\ pc \in {"block", "transactions", "commit"} =>
       /\ session.signatures = Signers(scanHeight)
       /\ ~Clash(Chain[scanHeight].commit, Signers(scanHeight))
  /\ pc \in {"transactions", "commit"} =>
       session.block /\ scanHeight = n /\ inflight = {}
  /\ pc = "commit" =>
       /\ session.txs = Hashes(scanHeight)
       /\ ~Clash(Chain[scanHeight].txs, Hashes(scanHeight))

(* The inductive invariant: some n is the next height, every undecided     *)
(* transaction is a whole one of height n, and only what can be copied was.*)
PrefixInv(n) ==
  /\ StoredBelow(n)
  /\ \A h \in Height : h < n => Indexable(h)
  /\ \A o \in inflight : o = Whole(n) /\ n <= latest /\ Indexable(n)
  /\ ScannerInv(n)

IInv == TypeOK /\ \E n \in Genesis..(latest + 1) : PrefixInv(n)
-----------------------------------------------------------------------------
LEMMA HeightFacts ==
  /\ Genesis \in Int /\ MaxHeight \in Int /\ Genesis <= MaxHeight
  /\ Genesis \in Height
  /\ Height \subseteq Int
  /\ \A h \in Height : Genesis <= h /\ h <= MaxHeight
BY HeightAssumption DEF Height

(* The rows of a block are rows of the tables. *)
LEMMA KeysType ==
  ASSUME NEW h \in Height
  PROVE  /\ Signers(h) \subseteq Address
         /\ Hashes(h) \subseteq Tx
<1>1. Chain[h] \in [commit : Seq(Address), txs : Seq(Tx)]
  BY ChainAssumption
<1>2. Chain[h].commit \in Seq(Address) /\ Chain[h].txs \in Seq(Tx)
  BY <1>1
<1>3. /\ \A i \in DOMAIN Chain[h].commit : Chain[h].commit[i] \in Address
      /\ \A i \in DOMAIN Chain[h].txs : Chain[h].txs[i] \in Tx
  BY <1>2
<1>4. QED
  BY <1>3 DEF Signers, Hashes, Entries

LEMMA WholeType ==
  ASSUME NEW h \in Height
  PROVE  Whole(h) \in Session
BY KeysType DEF Whole, Session

LEMMA RowsType ==
  /\ NoRows \in RowCount
  /\ \A h \in Height : Content[h] \in RowCount /\ Content[h].block = 1
  /\ NoRows.block = 0
  /\ \A h \in Height : Content[h] # NoRows
BY DEF NoRows, Content, RowCount

(* Committing a session adds to the counts of its height only. *)
LEMMA CommittedType ==
  ASSUME db \in [Height -> RowCount], NEW s \in Session
  PROVE  Committed(s) \in [Height -> RowCount]
<1>1. s.height \in Height /\ db[s.height] \in RowCount
  BY DEF Session
<1>2. [signature   |-> [v \in Address |->
                          db[s.height].signature[v] + (IF v \in s.signatures THEN 1 ELSE 0)],
       block       |-> db[s.height].block + (IF s.block THEN 1 ELSE 0),
       transaction |-> [t \in Tx |->
                          db[s.height].transaction[t] + (IF t \in s.txs THEN 1 ELSE 0)]]
        \in RowCount
  BY <1>1 DEF RowCount
<1>3. QED
  BY <1>1, <1>2 DEF Committed

(* Committing the whole of the next height extends the prefix by it. *)
LEMMA CommitWhole ==
  ASSUME db \in [Height -> RowCount], NEW n \in Height, StoredBelow(n)
  PROVE  /\ Committed(Whole(n)) = [db EXCEPT ![n] = Content[n]]
         /\ \A h \in Height :
              Committed(Whole(n))[h] = IF h < n + 1 THEN Content[h] ELSE NoRows
<1>1. db[n] = NoRows
  BY HeightFacts DEF StoredBelow
<1>2. Committed(Whole(n)) = [db EXCEPT ![n] = Content[n]]
  <2>1. \A v \in Address : NoRows.signature[v] + (IF v \in Signers(n) THEN 1 ELSE 0)
                             = IF v \in Signers(n) THEN 1 ELSE 0
    BY DEF NoRows
  <2>2. \A t \in Tx : NoRows.transaction[t] + (IF t \in Hashes(n) THEN 1 ELSE 0)
                        = IF t \in Hashes(n) THEN 1 ELSE 0
    BY DEF NoRows
  <2>3. NoRows.block + (IF TRUE THEN 1 ELSE 0) = 1
    BY DEF NoRows
  <2>4. /\ Whole(n).height = n
        /\ Whole(n).signatures = Signers(n)
        /\ Whole(n).block = TRUE
        /\ Whole(n).txs = Hashes(n)
    BY DEF Whole
  <2>5. Content[n] =
          [signature   |-> [v \in Address |->
                             NoRows.signature[v] + (IF v \in Signers(n) THEN 1 ELSE 0)],
           block       |-> NoRows.block + (IF TRUE THEN 1 ELSE 0),
           transaction |-> [t \in Tx |->
                             NoRows.transaction[t] + (IF t \in Hashes(n) THEN 1 ELSE 0)]]
    BY <2>1, <2>2, <2>3 DEF Content
  <2>6. QED
    BY <1>1, <2>4, <2>5 DEF Committed
<1>3. ASSUME NEW h \in Height
      PROVE  Committed(Whole(n))[h] = IF h < n + 1 THEN Content[h] ELSE NoRows
  <2>1. CASE h = n
    BY <1>2, <2>1, HeightFacts
  <2>2. CASE h # n
    <3>1. Committed(Whole(n))[h] = db[h]
      BY <1>2, <2>2
    <3>2. h < n <=> h < n + 1
      BY <2>2, HeightFacts
    <3>3. QED
      BY <3>1, <3>2 DEF StoredBelow
  <2>3. QED
    BY <2>1, <2>2
<1>4. QED
  BY <1>2, <1>3

(* FindLatestBlock finds the top of the prefix. *)
LEMMA NextHeightIsNext ==
  ASSUME TypeOK, NEW n \in Genesis..(latest + 1), StoredBelow(n)
  PROVE  NextHeight = n
<1> DEFINE stored == {h \in Height : db[h].block > 0}
           tip == CHOOSE h \in stored : \A g \in stored : g <= h
<1>1. \A h \in Height : h \in stored <=> h < n
  <2>1. ASSUME NEW h \in Height
        PROVE  h \in stored <=> h < n
    BY RowsType DEF StoredBelow
  <2>2. QED
    BY <2>1
<1>2. latest \in Height /\ n \in Int /\ Genesis <= n /\ n <= MaxHeight + 1
  BY HeightFacts DEF TypeOK
<1> stored \subseteq Height
  OBVIOUS
<1>6. NextHeight = IF stored = {} THEN Genesis ELSE tip + 1
  BY DEF NextHeight
<1> HIDE DEF stored
<1>3. CASE n = Genesis
  <2>1. stored = {}
    BY <1>1, <1>3, HeightFacts
  <2>2. QED
    BY <2>1, <1>3, <1>6
<1>4. CASE n # Genesis
  <2>1. n - 1 \in Height
    BY <1>2, <1>4, HeightFacts DEF Height
  <2>2. n - 1 \in stored /\ \A g \in stored : g <= n - 1
    BY <1>1, <1>2, <2>1, HeightFacts
  <2>3. \A h \in stored : (\A g \in stored : g <= h) => h = n - 1
    BY <2>2, <1>2, HeightFacts
  <2>4. tip = n - 1
    BY <2>2, <2>3
  <2>5. stored # {}
    BY <2>2
  <2> HIDE DEF tip
  <2>6. QED
    BY <2>4, <2>5, <1>2, <1>6
<1>5. QED
  BY <1>3, <1>4
-----------------------------------------------------------------------------
LEMMA InitEstablishes == Init => IInv
<1> SUFFICES ASSUME Init PROVE IInv
  OBVIOUS
<1>1. NoSession \in Session
  BY HeightFacts DEF NoSession, Session
<1>2. TypeOK
  BY <1>1, HeightFacts, RowsType, FaultAssumption DEF Init, TypeOK, PC
<1>3. PrefixInv(Genesis)
  BY HeightFacts DEF Init, PrefixInv, StoredBelow, ScannerInv
<1>4. QED
  BY <1>2, <1>3, HeightFacts DEF IInv, Init

LEMMA NextPreserves == IInv /\ [Next]_vars => IInv'
<1> SUFFICES ASSUME IInv, [Next]_vars PROVE IInv'
  OBVIOUS
<1> PICK n \in Genesis..(latest + 1) : PrefixInv(n)
  BY DEF IInv
<1>t. TypeOK
  BY DEF IInv
<1>n. /\ latest \in Height /\ n \in Int /\ Genesis <= n /\ n <= latest + 1
      /\ latest \in Int /\ latest <= MaxHeight
  BY <1>t, HeightFacts DEF TypeOK
<1>s. /\ NoSession \in Session
      /\ \A h \in Height : [NoSession EXCEPT !.height = h] \in Session
      /\ \A h \in Height : [NoSession EXCEPT !.height = h].height = h
  BY HeightFacts DEF NoSession, Session
<1>k. ASSUME UNCHANGED <<latest, db, inflight>>, ScannerInv(n)'
      PROVE  PrefixInv(n)'
  <2>1. StoredBelow(n)'
    BY <1>k DEF PrefixInv, StoredBelow
  <2>2. QED
    BY <1>k, <2>1 DEF PrefixInv
<1>1. CASE Grow
  <2>1. latest' \in Height /\ n \in Genesis..(latest' + 1)
    BY <1>1, <1>n, HeightFacts DEF Grow, Height
  <2>2. TypeOK'
    BY <1>1, <1>t, <2>1 DEF Grow, TypeOK, scanner
  <2>3. PrefixInv(n)'
    BY <1>1, <1>n, <2>1, <1>t, HeightFacts
       DEF Grow, PrefixInv, StoredBelow, ScannerInv, scanner, TypeOK
  <2>4. QED
    BY <2>1, <2>2, <2>3 DEF IInv
<1>2. CASE GetStatus
  <2>1. TypeOK'
    BY <1>2, <1>t DEF GetStatus, TypeOK, PC
  <2>2. PrefixInv(n)'
    <3>1. ScannerInv(n)'
      BY <1>2, <1>n DEF GetStatus, ScannerInv
    <3>2. QED
      BY <1>2, <1>k, <3>1 DEF GetStatus
  <2>3. QED
    BY <1>2, <2>1, <2>2 DEF IInv, GetStatus
<1>3. CASE GetStaleStatus
  <2>1. currentHeight' \in Height /\ currentHeight' <= latest
    BY <1>3, <1>n, HeightFacts DEF GetStaleStatus, Height
  <2>2. TypeOK'
    BY <1>3, <1>t, <2>1, FaultAssumption DEF GetStaleStatus, Fault, TypeOK, PC
  <2>3. PrefixInv(n)'
    <3>1. ScannerInv(n)'
      BY <1>3, <1>n, <2>1 DEF GetStaleStatus, ScannerInv
    <3>2. QED
      BY <1>3, <1>k, <3>1 DEF GetStaleStatus
  <2>4. QED
    BY <1>3, <2>2, <2>3 DEF IInv, GetStaleStatus
<1>r. ASSUME Return, UNCHANGED <<latest, db>>, inflight' = inflight, faults' \in 0..MaxFaults
      PROVE  IInv'
  <2>1. TypeOK'
    BY <1>r, <1>t, <1>s, HeightFacts DEF Return, TypeOK, PC
  <2>2. PrefixInv(n)'
    <3>1. ScannerInv(n)'
      BY <1>r DEF Return, ScannerInv
    <3>2. QED
      BY <1>r, <1>k, <3>1
  <2>3. QED
    BY <1>r, <2>1, <2>2 DEF IInv
<1>4. CASE FindLatestBlock
  <2>1. NextHeight = n
    BY <1>t, NextHeightIsNext DEF PrefixInv
  <2>2. CASE n <= currentHeight
    <3>1. /\ pc' = "fetch" /\ scanHeight' = n /\ currentHeight' = currentHeight
          /\ session' = NoSession /\ UNCHANGED <<latest, db, inflight, faults>>
      BY <1>4, <2>1, <2>2 DEF FindLatestBlock, Loop
    <3>2. TypeOK'
      BY <3>1, <1>t, <1>s, <1>n, HeightFacts DEF TypeOK, PC
    <3>3. PrefixInv(n)'
      <4>1. pc = "findLatest" /\ currentHeight <= latest
        BY <1>4 DEF FindLatestBlock, PrefixInv, ScannerInv
      <4>2. ScannerInv(n)'
        BY <3>1, <4>1, <1>n, <2>2 DEF ScannerInv
      <4>3. QED
        BY <3>1, <4>2, <1>k
    <3>4. QED
      BY <3>1, <3>2, <3>3 DEF IInv
  <2>3. CASE ~(n <= currentHeight)
    BY <1>4, <2>1, <2>3, <1>r, <1>t DEF FindLatestBlock, Loop, TypeOK
  <2>4. QED
    BY <2>2, <2>3
<1>h. ASSUME pc \in {"fetch", "signatures", "block", "transactions", "commit"}
      PROVE  /\ scanHeight \in Height /\ scanHeight <= n /\ scanHeight <= currentHeight
             /\ Signers(scanHeight) \subseteq Address /\ Hashes(scanHeight) \subseteq Tx
  <2>1. scanHeight <= n /\ scanHeight <= currentHeight
    BY <1>h DEF PrefixInv, ScannerInv
  <2>2. scanHeight \in Height
    BY <2>1, <1>t, HeightFacts DEF TypeOK, Height
  <2>3. QED
    BY <2>1, <2>2, KeysType
<1>5. CASE Fetch
  <2>1. CASE Decodable(scanHeight)
    <3>1. /\ pc = "fetch" /\ pc' = "signatures"
          /\ session' = [NoSession EXCEPT !.height = scanHeight]
          /\ UNCHANGED <<latest, db, inflight, faults, currentHeight, scanHeight>>
      BY <1>5, <2>1 DEF Fetch
    <3>2. TypeOK'
      BY <3>1, <1>t, <1>s, <1>h DEF TypeOK, PC
    <3>3. PrefixInv(n)'
      <4>1. ScannerInv(n)'
        BY <3>1, <1>h, <1>s, <2>1 DEF PrefixInv, ScannerInv
      <4>2. QED
        BY <3>1, <4>1, <1>k
    <3>4. QED
      BY <3>1, <3>2, <3>3 DEF IInv
  <2>2. CASE ~Decodable(scanHeight)
    BY <1>5, <2>2, <1>r, <1>t DEF Fetch, TypeOK
  <2>3. QED
    BY <2>1, <2>2
<1>6. CASE InsertSignatures
  <2>1. CASE UNCHANGED scanHeight /\ pc' = "block"
    <3>1. /\ pc = "signatures" /\ pc' = "block"
          /\ session' = [session EXCEPT !.signatures = Signers(scanHeight)]
          /\ ~Clash(Chain[scanHeight].commit, Signers(scanHeight))
          /\ UNCHANGED <<latest, db, inflight, faults, currentHeight, scanHeight>>
      BY <1>6, <2>1 DEF InsertSignatures, Return
    <3>2. session' \in Session /\ session'.height = session.height
          /\ session'.signatures = Signers(scanHeight)
      BY <3>1, <1>t, <1>h DEF TypeOK, Session
    <3>3. TypeOK'
      BY <3>1, <3>2, <1>t DEF TypeOK, PC
    <3>4. PrefixInv(n)'
      <4>1. ScannerInv(n)'
        BY <3>1, <3>2 DEF PrefixInv, ScannerInv
      <4>2. QED
        BY <3>1, <4>1, <1>k
    <3>5. QED
      BY <3>1, <3>3, <3>4 DEF IInv
  <2>2. CASE ~(UNCHANGED scanHeight /\ pc' = "block")
    BY <1>6, <2>2, <1>r, <1>t DEF InsertSignatures, TypeOK
  <2>3. QED
    BY <2>1, <2>2
<1>7. CASE InsertBlock
  <2>1. CASE db[scanHeight].block > 0
    BY <1>7, <2>1, <1>r, <1>t DEF InsertBlock, TypeOK
  <2>2. CASE ~(db[scanHeight].block > 0)
    <3>1. /\ pc = "block" /\ pc' = "transactions"
          /\ session' = [session EXCEPT !.block = TRUE]
          /\ UNCHANGED <<latest, db, inflight, faults, currentHeight, scanHeight>>
          /\ ~Waits({}, TRUE, {})
      BY <1>7, <2>2 DEF InsertBlock
    <3>2. session' \in Session /\ session'.height = session.height
          /\ session'.signatures = session.signatures /\ session'.block
      BY <3>1, <1>t DEF TypeOK, Session
    <3>3. scanHeight = n
      <4>1. scanHeight \in Height /\ scanHeight <= n
        BY <3>1, <1>h
      <4>2. ~(scanHeight < n)
        BY <4>1, <2>2, RowsType DEF PrefixInv, StoredBelow
      <4>3. QED
        BY <4>1, <4>2, <1>n, HeightFacts
    <3>4. inflight = {}
      <4>1. session.height = n
        BY <3>1, <3>3 DEF PrefixInv, ScannerInv
      <4>2. \A o \in inflight : o.height = n /\ o.block
        BY DEF PrefixInv, Whole
      <4>3. QED
        BY <3>1, <4>1, <4>2 DEF Waits
    <3>5. TypeOK'
      BY <3>1, <3>2, <1>t DEF TypeOK, PC
    <3>6. PrefixInv(n)'
      <4>1. ScannerInv(n)'
        BY <3>1, <3>2, <3>3, <3>4 DEF PrefixInv, ScannerInv
      <4>2. QED
        BY <3>1, <4>1, <1>k
    <3>7. QED
      BY <3>1, <3>5, <3>6 DEF IInv
  <2>3. QED
    BY <2>1, <2>2
<1>8. CASE InsertTransactions
  <2>1. CASE pc' = "commit"
    <3>1. /\ pc = "transactions" /\ pc' = "commit"
          /\ session' = [session EXCEPT !.txs = Hashes(scanHeight)]
          /\ ~Clash(Chain[scanHeight].txs, Hashes(scanHeight))
          /\ UNCHANGED <<latest, db, inflight, faults, currentHeight, scanHeight>>
      BY <1>8, <2>1 DEF InsertTransactions, Return
    <3>2. session' \in Session /\ session'.height = session.height
          /\ session'.signatures = session.signatures
          /\ session'.block = session.block /\ session'.txs = Hashes(scanHeight)
      BY <3>1, <1>t, <1>h DEF TypeOK, Session
    <3>3. TypeOK'
      BY <3>1, <3>2, <1>t DEF TypeOK, PC
    <3>4. PrefixInv(n)'
      <4>1. ScannerInv(n)'
        BY <3>1, <3>2 DEF PrefixInv, ScannerInv
      <4>2. QED
        BY <3>1, <4>1, <1>k
    <3>5. QED
      BY <3>1, <3>3, <3>4 DEF IInv
  <2>2. CASE pc' # "commit"
    BY <1>8, <2>2, <1>r, <1>t DEF InsertTransactions, TypeOK
  <2>3. QED
    BY <2>1, <2>2
<1>c. ASSUME pc = "commit"
      PROVE  /\ session = Whole(n) /\ n = scanHeight /\ n \in Height /\ n <= latest
             /\ n <= currentHeight /\ inflight = {} /\ Indexable(n)
  <2>1. /\ session.height = n /\ session.signatures = Signers(n) /\ session.block
        /\ session.txs = Hashes(n) /\ n = scanHeight /\ inflight = {}
        /\ n <= currentHeight /\ currentHeight <= latest /\ Indexable(n)
    BY <1>c DEF PrefixInv, ScannerInv, Indexable
  <2>2. session \in Session
    BY <1>t DEF TypeOK
  <2>3. session = Whole(n)
    BY <2>1, <2>2 DEF Session, Whole
  <2>4. QED
    BY <2>1, <2>3, <1>c, <1>h, <1>t, <1>n, HeightFacts DEF TypeOK
<1>9. CASE Commit
  <2>1. pc = "commit"
    BY <1>9 DEF Commit
  <2>2. /\ db' = Committed(Whole(n)) /\ UNCHANGED <<latest, inflight, faults>>
        /\ Loop(n + 1, currentHeight)
    BY <1>9, <1>c, <2>1 DEF Commit
  <2>3. db' \in [Height -> RowCount]
    BY <2>1, <2>2, <1>c, <1>t, WholeType, CommittedType DEF TypeOK
  <2>4. StoredBelow(n + 1)'
    BY <2>1, <2>2, <1>c, <1>t, CommitWhole DEF TypeOK, StoredBelow, PrefixInv
  <2>5. /\ n + 1 \in Genesis..(latest' + 1)
        /\ \A h \in Height : h < n + 1 => Indexable(h)
    BY <2>1, <2>2, <1>c, <1>n, HeightFacts DEF PrefixInv
  <2>6. CASE n + 1 <= currentHeight
    <3>1. /\ pc' = "fetch" /\ scanHeight' = n + 1 /\ currentHeight' = currentHeight
          /\ session' = NoSession
      BY <2>2, <2>6 DEF Loop
    <3>2. TypeOK'
      BY <3>1, <2>2, <2>3, <1>t, <1>s, <1>n, HeightFacts, <2>5 DEF TypeOK, PC
    <3>3. PrefixInv(n + 1)'
      BY <3>1, <2>1, <2>2, <2>4, <2>5, <2>6, <1>c, <1>n DEF PrefixInv, ScannerInv
    <3>4. QED
      BY <3>2, <3>3, <2>5 DEF IInv
  <2>7. CASE ~(n + 1 <= currentHeight)
    <3>1. Return
      BY <2>2, <2>7 DEF Loop
    <3>2. TypeOK'
      BY <3>1, <2>2, <2>3, <1>t, <1>s, HeightFacts DEF TypeOK, PC, Return
    <3>3. PrefixInv(n + 1)'
      BY <3>1, <2>1, <2>2, <2>4, <2>5, <1>c DEF PrefixInv, ScannerInv, Return
    <3>4. QED
      BY <3>2, <3>3, <2>5 DEF IInv
  <2>8. QED
    BY <2>6, <2>7
<1>10. CASE CommitLost
  <2>1. /\ pc = "commit" /\ inflight' = inflight \cup {session} /\ Return
        /\ UNCHANGED <<latest, db>> /\ faults' = faults + 1 /\ faults < MaxFaults
    BY <1>10 DEF CommitLost, Fault
  <2>2. inflight' = {Whole(n)} /\ Whole(n) \in Session
    BY <2>1, <1>c, WholeType
  <2>3. TypeOK'
    BY <2>1, <2>2, <1>t, <1>s, HeightFacts, FaultAssumption DEF TypeOK, PC, Return
  <2>4. PrefixInv(n)'
    BY <2>1, <2>2, <1>c DEF PrefixInv, StoredBelow, ScannerInv, Return
  <2>5. QED
    BY <2>1, <2>3, <2>4 DEF IInv
<1>11. CASE DecideAny
  <2> PICK o \in inflight : Decide(o)
    BY <1>11 DEF DecideAny
  <2>1. /\ o = Whole(n) /\ n <= latest /\ n \in Height /\ o \in Session
    BY <1>n, <1>t, HeightFacts DEF PrefixInv, Height, TypeOK
  <2>2. /\ inflight' = {} /\ UNCHANGED <<latest, pc, currentHeight, scanHeight, session, faults>>
    BY <2>1 DEF Decide, PrefixInv, scanner
  <2>3. pc \notin {"transactions", "commit"}
    BY DEF PrefixInv, ScannerInv
  <2>4. CASE db' = db
    <3>1. TypeOK'
      BY <2>2, <2>4, <1>t DEF TypeOK
    <3>2. PrefixInv(n)'
      BY <2>2, <2>4 DEF PrefixInv, StoredBelow, ScannerInv
    <3>3. QED
      BY <3>1, <3>2, <2>2 DEF IInv
  <2>5. CASE db' = Committed(o)
    <3>1. db' \in [Height -> RowCount]
      BY <2>1, <2>5, <1>t, CommittedType DEF TypeOK
    <3>2. TypeOK'
      BY <3>1, <2>2, <1>t DEF TypeOK
    <3>3. StoredBelow(n + 1)'
      BY <2>1, <2>5, <1>t, CommitWhole DEF TypeOK, StoredBelow, PrefixInv
    <3>4. scanHeight \in Int
      BY <1>t, HeightFacts DEF TypeOK
    <3>5. \A h \in Height : h < n + 1 => Indexable(h)
      BY <1>n, HeightFacts DEF PrefixInv
    <3>6. PrefixInv(n + 1)'
      BY <3>3, <3>4, <3>5, <2>2, <2>3, <1>n DEF PrefixInv, ScannerInv
    <3>7. n + 1 \in Genesis..(latest' + 1)
      BY <2>1, <2>2, <1>n, HeightFacts
    <3>8. QED
      BY <3>2, <3>6, <3>7 DEF IInv
  <2>6. QED
    BY <2>4, <2>5 DEF Decide
<1>12. CASE Fail
  <2>1. faults' \in 0..MaxFaults
    BY <1>12, <1>t, FaultAssumption DEF Fail, Fault, TypeOK
  <2>2. QED
    BY <1>12, <2>1, <1>r DEF Fail
<1>13. CASE UNCHANGED vars
  <2>1. TypeOK'
    BY <1>13, <1>t DEF vars, TypeOK
  <2>2. PrefixInv(n)'
    <3>1. ScannerInv(n)'
      BY <1>13 DEF vars, PrefixInv, ScannerInv
    <3>2. QED
      BY <1>13, <3>1, <1>k DEF vars
  <2>3. QED
    BY <1>13, <2>1, <2>2 DEF vars, IInv
<1>14. QED
  BY <1>1, <1>2, <1>3, <1>4, <1>5, <1>6, <1>7, <1>8, <1>9, <1>10, <1>11, <1>12, <1>13
     DEF Next, Scan

(* The inductive invariant holds throughout. *)
THEOREM Invariance == Spec => []IInv
<1>1. QED
  BY InitEstablishes, NextPreserves, PTL DEF Spec
-----------------------------------------------------------------------------
(* Every state of the scanner and of the database is well typed: a session *)
(* never names a height outside the chain, a row count is never negative.  *)
THEOREM TypeCorrect == Spec => []TypeOK
<1>1. IInv => TypeOK
  BY DEF IInv
<1>2. QED
  BY <1>1, Invariance, PTL

(* The tables are a whole, gapless prefix of the chain in every state, for *)
(* every chain and any number of failed calls, kills and lost COMMITs.     *)
THEOREM PrefixCorrect == Spec => []GaplessAndWhole
<1>1. IInv => GaplessAndWhole
  BY DEF IInv, PrefixInv, StoredBelow, GaplessAndWhole
<1>2. QED
  BY <1>1, Invariance, PTL

(* At most one COMMIT is undecided, and it is that of the next height.     *)
THEOREM UndecidedCorrect == Spec => []OneUndecided
<1>1. IInv => OneUndecided
  <2> SUFFICES ASSUME IInv PROVE OneUndecided
    OBVIOUS
  <2> PICK n \in Genesis..(latest + 1) : PrefixInv(n)
    BY DEF IInv
  <2>1. NextHeight = n
    BY NextHeightIsNext DEF IInv, PrefixInv
  <2>2. \A o \in inflight : o = Whole(n)
    BY DEF PrefixInv
  <2>3. ASSUME NEW o \in inflight
        PROVE  o.height = n /\ inflight = {o}
    <3>1. o.height = n
      BY <2>2 DEF Whole
    <3>2. inflight = {o}
      BY <2>2
    <3>3. QED
      BY <3>1, <3>2
  <2>4. QED
    BY <2>1, <2>3 DEF OneUndecided
<1>2. QED
  BY <1>1, Invariance, PTL

(* Nothing is stored at or above a block that cannot be copied.            *)
THEOREM BadBlockHoldsBack == Spec => []NothingPastABadBlock
<1>1. IInv => NothingPastABadBlock
  <2> SUFFICES ASSUME IInv, NEW b \in Height, ~Indexable(b), NEW h \in b..MaxHeight
               PROVE  db[h] = NoRows
    BY DEF NothingPastABadBlock
  <2> PICK n \in Genesis..(latest + 1) : PrefixInv(n)
    BY DEF IInv
  <2>1. ~(b < n)
    BY DEF PrefixInv
  <2>2. h \in Height /\ ~(h < n)
    BY <2>1, HeightFacts DEF Height, IInv, TypeOK
  <2>3. QED
    BY <2>2 DEF PrefixInv, StoredBelow
<1>2. QED
  BY <1>1, Invariance, PTL

LEMMA IndexInit == Init => Index!Init
BY DEF Init, Index!Init, Index!Height, Height

(* Every step of the scanner is a step of the index or leaves it alone.    *)
LEMMA IndexNext == IInv /\ [Next]_vars => [Index!Next]_(Index!vars)
<1> SUFFICES ASSUME IInv, [Next]_vars PROVE [Index!Next]_(Index!vars)
  OBVIOUS
<1> PICK n \in Genesis..(latest + 1) : PrefixInv(n)
  BY DEF IInv
<1>t. TypeOK
  BY DEF IInv
<1>i. ASSUME n \in Height, n <= latest, UNCHANGED latest, db' = Committed(Whole(n))
      PROVE  Index!Next
  <2>1. db' = [db EXCEPT ![n] = Content[n]]
    BY <1>i, <1>t, CommitWhole DEF TypeOK, PrefixInv
  <2>2. db[n] = NoRows /\ \A g \in Height : g < n => db[g] = Content[g]
    BY <1>i, HeightFacts DEF PrefixInv, StoredBelow
  <2>3. Index!Index(n)
    BY <1>i, <2>1, <2>2 DEF Index!Index, Index!Height, Height
  <2>4. QED
    BY <1>i, <2>3 DEF Index!Next, Index!Height, Height
<1>1. CASE Grow
  BY <1>1 DEF Grow, Index!Grow, Index!Next
<1>2. CASE Commit
  <2>1. /\ session.height = n /\ session.signatures = Signers(n) /\ session.block
        /\ session.txs = Hashes(n) /\ n = scanHeight
        /\ n <= currentHeight /\ currentHeight <= latest
    BY <1>2 DEF Commit, PrefixInv, ScannerInv
  <2>2. session = Whole(n)
    BY <2>1, <1>t DEF TypeOK, Session, Whole
  <2>3. n \in Height /\ n <= latest
    BY <2>1, <1>t, HeightFacts DEF TypeOK, Height
  <2>4. QED
    BY <1>2, <1>i, <2>2, <2>3 DEF Commit
<1>3. CASE DecideAny
  <2> PICK o \in inflight : Decide(o)
    BY <1>3 DEF DecideAny
  <2>1. o = Whole(n) /\ n <= latest /\ n \in Height
    BY <1>t, HeightFacts DEF PrefixInv, Height, TypeOK
  <2>2. CASE db' = db
    BY <2>2 DEF Decide, Index!vars
  <2>3. CASE db' = Committed(o)
    BY <2>1, <2>3, <1>i DEF Decide
  <2>4. QED
    BY <2>2, <2>3 DEF Decide
<1>4. CASE UNCHANGED <<latest, db>>
  BY <1>4 DEF Index!vars
<1>5. QED
  BY <1>1, <1>2, <1>3, <1>4
     DEF Next, Scan, GetStatus, GetStaleStatus, FindLatestBlock, Fetch, InsertSignatures,
         InsertBlock, InsertTransactions, CommitLost, Fail, vars

(* The block tables implement the append-only index of ChainIndex: what a  *)
(* reader sees grows by one whole block at a time and is never rewritten.  *)
THEOREM ImplementsIndex == Spec => IndexSpec
<1>1. QED
  BY IndexInit, IndexNext, Invariance, PTL DEF Spec, IndexSpec, Index!Spec
=============================================================================
