------------------------- MODULE RuntimeSyncProofs --------------------------
(***************************************************************************)
(* RuntimeRoundSync and RuntimeTransactionSync keep what their cursors     *)
(* promise, for any number of ParaTimes, rounds and items, any order of    *)
(* the list, any failures and any delay of a statement whose answer was    *)
(* lost.  The rows of a ParaTime are stored round by round: a row is there *)
(* only when every round before its own is complete.  What the cursor may  *)
(* say, what a late statement may still do, and why nothing is stored past *)
(* an item that cannot be decoded, all follow from that.                   *)
(***************************************************************************)
EXTENDS RuntimeSync, TLAPS

CompleteBelow(r, n) == \A i \in Item : i[1] = r /\ i[2] < n => rows[i] > 0

InRound == pc \in {"getBlock", "find", "insert", "updateCursor"}

(* What the tables say of each other and of the chain.                     *)
TableInv ==
  /\ \A i \in Item : rows[i] <= 1
  /\ \A i \in Item : rows[i] > 0 => i \notin Unreadable /\ CompleteBelow(i[1], i[2])
  /\ \A r \in Runtime : First[r] <= latest[r]
  /\ \A r \in Runtime : cursor[r] # None =>
       /\ First[r] <= cursor[r] /\ cursor[r] <= latest[r]
       /\ cursor[r] = First[r] \/ CompleteBelow(r, cursor[r] + 1)

(* What the job knows between two calls.  The ParaTimes it has left behind *)
(* are complete up to the round it was told of.                            *)
JobInv ==
  /\ \A r \in Runtime : First[r] <= status[r] /\ status[r] <= latest[r]
  /\ pc = "idle" => current = 1
  /\ pc # "idle" => order \in Orders /\ current \in 1..Len(order)
  /\ \A j \in 1..(current - 1) : CompleteBelow(order[j], status[order[j]] + 1)
  /\ InRound => /\ First[Self] <= scanRound /\ scanRound <= status[Self]
                /\ CompleteBelow(Self, scanRound)
  /\ pc \in {"find", "insert"} =>
       /\ position \in 1..ItemCount[Self][scanRound]
       /\ \A i \in Item :
            i[1] = Self /\ i[2] = scanRound /\ i[3] < position => rows[i] > 0
  /\ pc = "insert" => Here \notin Unreadable
  /\ pc = "updateCursor" => Stored(Self, scanRound)

(* What a statement sent by an earlier run may still do.                   *)
StatementInv(s) ==
  /\ s.kind = "insert" => s.item \notin Unreadable /\ CompleteBelow(s.item[1], s.item[2])
  /\ s.kind = "insertCursor" => s.value = First[s.runtime]
  /\ s.kind = "updateCursor" =>
       /\ First[s.runtime] <= s.value /\ s.value <= latest[s.runtime]
       /\ CompleteBelow(s.runtime, s.value + 1)

IInv ==
  /\ TypeOK
  /\ TableInv
  /\ JobInv
  /\ \A s \in lost : StatementInv(s)

JobType ==
  /\ pc \in {"idle", "findCursor", "getBlock", "find", "insert", "insertCursor", "updateCursor"}
  /\ order \in Orders \cup {<<>>}
  /\ current \in Nat
  /\ status \in [Runtime -> Round]
  /\ scanRound \in 0..(MaxRound + 1)
  /\ position \in Nat

(* Nothing that is stored is taken away. *)
RowsStay == \A i \in Item : rows[i] > 0 => rows'[i] > 0
-----------------------------------------------------------------------------
LEMMA RoundFacts ==
  /\ MaxRound \in Nat
  /\ \A r \in Runtime : First[r] \in Round
  /\ \A n \in Round : n \in Int /\ 0 <= n /\ n <= MaxRound
  /\ \A n \in Int : 0 <= n /\ n <= MaxRound => n \in Round
  /\ \A r \in Runtime, n \in Round : ItemCount[r][n] \in Nat
  /\ None \notin Round
BY RoundAssumption, NoneAssumption DEF Round

LEMMA ItemFacts ==
  /\ \A i \in Item : /\ i[1] \in Runtime /\ i[2] \in Round /\ First[i[1]] <= i[2]
                     /\ i[3] \in 1..ItemCount[i[1]][i[2]]
                     /\ i = <<i[1], i[2], i[3]>>
  /\ \A r \in Runtime, n \in Round : First[r] <= n =>
       \A k \in 1..ItemCount[r][n] : <<r, n, k>> \in Item
<1>1. ASSUME NEW i \in Item
      PROVE  /\ i[1] \in Runtime /\ i[2] \in Round /\ First[i[1]] <= i[2]
             /\ i[3] \in 1..ItemCount[i[1]][i[2]]
             /\ i = <<i[1], i[2], i[3]>>
  <2>0. PICK r \in Runtime :
          i \in UNION {{r} \X {m} \X (1..ItemCount[r][m]) : m \in First[r]..MaxRound}
    BY DEF Item
  <2>1. PICK n \in First[r]..MaxRound : i \in {r} \X {n} \X (1..ItemCount[r][n])
    BY <2>0
  <2>2. i[1] = r /\ i[2] = n /\ i[3] \in 1..ItemCount[r][n] /\ i = <<i[1], i[2], i[3]>>
    BY <2>1
  <2>3. n \in Round /\ First[r] <= n
    BY RoundFacts
  <2>4. QED
    BY <2>2, <2>3
<1>2. ASSUME NEW r \in Runtime, NEW n \in Round, First[r] <= n, NEW k \in 1..ItemCount[r][n]
      PROVE  <<r, n, k>> \in Item
  <2>1. n \in First[r]..MaxRound
    BY <1>2, RoundFacts
  <2>2. <<r, n, k>> \in {r} \X {n} \X (1..ItemCount[r][n])
    OBVIOUS
  <2>3. QED
    BY <2>1, <2>2 DEF Item
<1>3. QED
  BY <1>1, <1>2

LEMMA OrderFacts ==
  \A s \in Orders : Len(s) \in Nat /\ 1 <= Len(s) /\ \A j \in 1..Len(s) : s[j] \in Runtime
<1> SUFFICES ASSUME NEW s \in Orders
             PROVE  Len(s) \in Nat /\ 1 <= Len(s) /\ \A j \in 1..Len(s) : s[j] \in Runtime
  OBVIOUS
<1>1. s \in Seq(Runtime) /\ s # <<>>
  BY OrderAssumption
<1>2. QED
  BY <1>1

LEMMA StatementFacts ==
  ASSUME NEW s \in Statement
  PROVE  /\ s.kind \in {"insert", "insertCursor", "updateCursor"}
         /\ s.kind = "insert" => s.item \in Item
         /\ s.kind \in {"insertCursor", "updateCursor"} =>
              s.runtime \in Runtime /\ s.value \in Round
BY DEF Statement

(* The job works on a ParaTime of its list, at a round it was told of.     *)
LEMMA WorkFacts ==
  ASSUME IInv, pc # "idle"
  PROVE  /\ order \in Orders /\ current \in 1..Len(order) /\ current \in Nat
         /\ Len(order) \in Nat
         /\ Self \in Runtime /\ First[Self] \in Round /\ status[Self] \in Round
         /\ First[Self] <= status[Self] /\ status[Self] <= latest[Self]
         /\ latest[Self] \in Round
         /\ InRound => scanRound \in Round
<1>t. TypeOK /\ JobInv
  BY DEF IInv
<1>1. order \in Orders /\ current \in 1..Len(order) /\ current \in Nat
  BY <1>t DEF JobInv, TypeOK
<1>2. Len(order) \in Nat /\ Self \in Runtime
  BY <1>1, OrderFacts DEF Self
<1>3. First[Self] \in Round /\ status[Self] \in Round /\ latest[Self] \in Round
  BY <1>2, <1>t, RoundFacts DEF TypeOK
<1>4. First[Self] <= status[Self] /\ status[Self] <= latest[Self]
  BY <1>2, <1>t DEF JobInv
<1>5. InRound => scanRound \in Round
  <2>1. scanRound \in Int /\ 0 <= scanRound
    BY <1>t, RoundFacts DEF TypeOK
  <2>2. SUFFICES ASSUME InRound PROVE scanRound \in Round
    OBVIOUS
  <2>3. scanRound <= status[Self]
    BY <2>2, <1>t DEF JobInv
  <2>4. QED
    BY <2>1, <2>3, <1>3, RoundFacts
<1>6. QED
  BY <1>1, <1>2, <1>3, <1>4, <1>5

LEMMA NothingBeforeFirst ==
  \A r \in Runtime : CompleteBelow(r, First[r])
<1> SUFFICES ASSUME NEW r \in Runtime, NEW i \in Item, i[1] = r, i[2] < First[r]
             PROVE  FALSE
  BY DEF CompleteBelow
<1>1. First[r] <= i[2] /\ i[2] \in Int /\ First[r] \in Int
  BY ItemFacts, RoundFacts
<1>2. QED
  BY <1>1

(* A round is complete and so are those before it.                         *)
LEMMA NextRoundComplete ==
  ASSUME NEW r, NEW n \in Int, CompleteBelow(r, n), Stored(r, n)
  PROVE  CompleteBelow(r, n + 1)
<1> SUFFICES ASSUME NEW i \in Item, i[1] = r, i[2] < n + 1
             PROVE  rows[i] > 0
  BY DEF CompleteBelow
<1>1. i[2] \in Int
  BY ItemFacts, RoundFacts
<1>2. i[2] < n \/ i[2] = n
  BY <1>1
<1>3. QED
  BY <1>2 DEF CompleteBelow, Stored

LEMMA CompleteBelowLess ==
  ASSUME NEW r, NEW m \in Int, NEW n \in Int, m <= n, CompleteBelow(r, n)
  PROVE  CompleteBelow(r, m)
<1> SUFFICES ASSUME NEW i \in Item, i[1] = r, i[2] < m
             PROVE  rows[i] > 0
  BY DEF CompleteBelow
<1>1. i[2] \in Int
  BY ItemFacts, RoundFacts
<1>2. i[2] < n
  BY <1>1
<1>3. QED
  BY <1>2 DEF CompleteBelow

(* What is complete stays complete as long as rows stay.                   *)
LEMMA CompleteStays ==
  ASSUME RowsStay, NEW r, NEW n
  PROVE  /\ CompleteBelow(r, n) => \A i \in Item : i[1] = r /\ i[2] < n => rows'[i] > 0
         /\ Stored(r, n) => \A i \in Item : i[1] = r /\ i[2] = n => rows'[i] > 0
BY DEF RowsStay, CompleteBelow, Stored

(* A statement that is sound stays sound.                                  *)
LEMMA StatementStays ==
  ASSUME RowsStay, TypeOK, NEW s \in Statement, StatementInv(s),
         \A r \in Runtime : latest[r] <= latest'[r] /\ latest'[r] \in Round
  PROVE  StatementInv(s)'
<1>1. CASE s.kind = "insert"
  BY <1>1, CompleteStays DEF StatementInv, CompleteBelow
<1>2. CASE s.kind = "insertCursor"
  BY <1>2 DEF StatementInv
<1>3. CASE s.kind = "updateCursor"
  <2>1. s.runtime \in Runtime /\ s.value \in Round
    BY <1>3, StatementFacts
  <2>2. First[s.runtime] <= s.value /\ s.value <= latest[s.runtime]
    BY <1>3 DEF StatementInv
  <2>3. latest[s.runtime] \in Int /\ latest'[s.runtime] \in Int /\ s.value \in Int
    BY <2>1, RoundFacts DEF TypeOK
  <2>4. s.value <= latest'[s.runtime]
    BY <2>1, <2>2, <2>3
  <2>5. \A i \in Item : i[1] = s.runtime /\ i[2] < s.value + 1 => rows'[i] > 0
    BY <1>3, CompleteStays DEF StatementInv
  <2>6. QED
    BY <1>3, <2>2, <2>4, <2>5 DEF StatementInv, CompleteBelow
<1>4. QED
  BY <1>1, <1>2, <1>3, StatementFacts

(* The statement the job sends is well typed and sound.                    *)
LEMMA PendingSound ==
  ASSUME IInv, Writing
  PROVE  Pending \in Statement /\ StatementInv(Pending)
<1>t. TypeOK /\ JobInv
  BY DEF IInv
<1>w. /\ Self \in Runtime /\ First[Self] \in Round /\ status[Self] \in Round
      /\ latest[Self] \in Round /\ status[Self] <= latest[Self]
      /\ InRound => scanRound \in Round
  BY WorkFacts DEF Writing
<1>1. CASE pc = "insert"
  <2>1. /\ First[Self] <= scanRound /\ CompleteBelow(Self, scanRound)
        /\ position \in 1..ItemCount[Self][scanRound] /\ Here \notin Unreadable
        /\ scanRound \in Round
    BY <1>1, <1>t, <1>w DEF JobInv, InRound
  <2>2. Here \in Item /\ Here[1] = Self /\ Here[2] = scanRound
    BY <2>1, <1>w, ItemFacts DEF Here
  <2>3. QED
    BY <1>1, <2>1, <2>2 DEF Pending, Statement, StatementInv
<1>2. CASE pc = "insertCursor"
  BY <1>2, <1>w DEF Pending, Statement, StatementInv
<1>3. CASE pc = "updateCursor"
  <2>1. /\ First[Self] <= scanRound /\ scanRound <= status[Self] /\ scanRound \in Round
        /\ CompleteBelow(Self, scanRound) /\ Stored(Self, scanRound)
    BY <1>3, <1>t, <1>w DEF JobInv, InRound
  <2>2. scanRound <= latest[Self] /\ CompleteBelow(Self, scanRound + 1)
    BY <2>1, <1>w, RoundFacts, NextRoundComplete
  <2>3. QED
    BY <1>3, <2>1, <2>2, <1>w DEF Pending, Statement, StatementInv
<1>4. QED
  BY <1>1, <1>2, <1>3 DEF Writing

(* Executing a sound statement, whoever sent it, keeps what is true of the *)
(* tables, and every row.                                                  *)
LEMMA ApplyKeeps ==
  ASSUME IInv, NEW s \in Statement, StatementInv(s), Accepts(s), Apply(s), latest' = latest
  PROVE  /\ rows' \in [Item -> Nat] /\ cursor' \in [Runtime -> Round \cup {None}]
         /\ TableInv'
         /\ RowsStay
         /\ s.kind = "insert" => rows'[s.item] > 0
<1>t. /\ TypeOK /\ TableInv /\ rows \in [Item -> Nat] /\ latest \in [Runtime -> Round]
      /\ cursor \in [Runtime -> Round \cup {None}]
  BY DEF IInv, TypeOK
<1>1. CASE s.kind = "insert"
  <2>1. /\ s.item \in Item /\ rows[s.item] = 0 /\ cursor' = cursor
        /\ rows' = [rows EXCEPT ![s.item] = @ + 1]
        /\ s.item \notin Unreadable /\ CompleteBelow(s.item[1], s.item[2])
    BY <1>1, StatementFacts DEF Accepts, Apply, StatementInv
  <2>2. /\ rows' \in [Item -> Nat] /\ rows'[s.item] = 1
        /\ \A i \in Item : i # s.item => rows'[i] = rows[i]
    BY <2>1, <1>t
  <2>3. RowsStay
    BY <2>2 DEF RowsStay
  <2>4. ASSUME NEW r, NEW n, CompleteBelow(r, n)
        PROVE  CompleteBelow(r, n)'
    BY <2>3, <2>4 DEF CompleteBelow, RowsStay
  <2>5. \A i \in Item : rows'[i] <= 1
    BY <2>2, <1>t DEF TableInv
  <2>6. ASSUME NEW i \in Item, rows'[i] > 0
        PROVE  i \notin Unreadable /\ CompleteBelow(i[1], i[2])'
    <3>1. i \notin Unreadable /\ CompleteBelow(i[1], i[2])
      BY <2>1, <2>2, <2>6, <1>t DEF TableInv
    <3>2. QED
      BY <3>1, <2>4
  <2>7. ASSUME NEW r \in Runtime, cursor'[r] # None
        PROVE  /\ First[r] <= cursor'[r] /\ cursor'[r] <= latest'[r]
               /\ cursor'[r] = First[r] \/ CompleteBelow(r, cursor[r] + 1)'
    BY <2>1, <2>4, <2>7, <1>t DEF TableInv
  <2>8. TableInv'
    BY <2>5, <2>6, <2>7, <1>t DEF TableInv
  <2>9. QED
    BY <2>1, <2>2, <2>3, <2>8, <1>t
<1>2. CASE s.kind # "insert"
  <2>1. /\ s.runtime \in Runtime /\ s.value \in Round /\ rows' = rows
        /\ cursor' \in {cursor, [cursor EXCEPT ![s.runtime] = s.value]}
    BY <1>2, StatementFacts DEF Apply
  <2>2. /\ First[s.runtime] <= s.value /\ s.value <= latest[s.runtime]
        /\ s.value = First[s.runtime] \/ CompleteBelow(s.runtime, s.value + 1)
    <3>1. CASE s.kind = "insertCursor"
      BY <3>1, <2>1, <1>t, RoundFacts DEF StatementInv, TableInv
    <3>2. CASE s.kind = "updateCursor"
      BY <3>2 DEF StatementInv
    <3>3. QED
      BY <1>2, <3>1, <3>2, StatementFacts
  <2>3. cursor' \in [Runtime -> Round \cup {None}]
    BY <2>1, <1>t
  <2>4. \A r \in Runtime : cursor'[r] = cursor[r] \/ (r = s.runtime /\ cursor'[r] = s.value)
    BY <2>1, <1>t
  <2>5. ASSUME NEW r \in Runtime, cursor'[r] # None
        PROVE  /\ First[r] <= cursor'[r] /\ cursor'[r] <= latest'[r]
               /\ cursor'[r] = First[r] \/ CompleteBelow(r, cursor'[r] + 1)
    BY <2>2, <2>4, <2>5, <1>t DEF TableInv
  <2>6. TableInv'
    BY <2>1, <2>5, <1>t DEF TableInv, CompleteBelow
  <2>7. RowsStay
    BY <2>1 DEF RowsStay
  <2>8. QED
    BY <1>2, <2>1, <2>3, <2>6, <2>7, <1>t
<1>3. QED
  BY <1>1, <1>2
-----------------------------------------------------------------------------
LEMMA InitEstablishes == Init => IInv
<1> SUFFICES ASSUME Init PROVE IInv
  OBVIOUS
<1>1. First \in [Runtime -> Round]
  BY RoundAssumption
<1>2. TypeOK
  BY <1>1, RoundFacts, FaultAssumption DEF Init, TypeOK
<1>3. TableInv
  BY <1>1, RoundFacts DEF Init, TableInv
<1>4. JobInv
  BY <1>1, RoundFacts DEF Init, JobInv, InRound
<1>5. QED
  BY <1>2, <1>3, <1>4 DEF Init, IInv

(* A step of the job that touches neither the tables nor the ParaTimes.    *)
LEMMA JobStep ==
  ASSUME IInv, UNCHANGED <<latest, rows, cursor>>, JobType', faults' \in 0..MaxFaults,
         JobInv', \A s \in lost' : s \in lost \/ (s \in Statement /\ StatementInv(s))
  PROVE  IInv'
<1>1. TypeOK'
  BY DEF IInv, TypeOK, JobType
<1>2. TableInv'
  BY DEF IInv, TableInv, CompleteBelow
<1>3. \A s \in lost' : StatementInv(s)'
  BY DEF IInv, StatementInv, CompleteBelow
<1>4. QED
  BY <1>1, <1>2, <1>3 DEF IInv

(* A step that executes a sound statement.                                 *)
LEMMA StatementStep ==
  ASSUME IInv, NEW s \in Statement, StatementInv(s), Accepts(s), Apply(s),
         latest' = latest, faults' = faults, JobType', JobInv', lost' \subseteq lost
  PROVE  IInv'
<1>1. /\ rows' \in [Item -> Nat] /\ cursor' \in [Runtime -> Round \cup {None}]
      /\ TableInv' /\ RowsStay
  BY ApplyKeeps
<1>2. TypeOK /\ lost \subseteq Statement /\ latest \in [Runtime -> Round]
  BY DEF IInv, TypeOK
<1>3. TypeOK'
  BY <1>1, <1>2 DEF TypeOK, JobType
<1>4. \A r \in Runtime : latest[r] <= latest'[r] /\ latest'[r] \in Round
  BY <1>2, RoundFacts
<1>5. ASSUME NEW x \in lost'
      PROVE  StatementInv(x)'
  <2>1. x \in Statement /\ StatementInv(x)
    BY <1>2, <1>5 DEF IInv
  <2>2. QED
    BY <1>1, <1>2, <1>4, <2>1, StatementStays
<1>6. QED
  BY <1>1, <1>3, <1>5 DEF IInv

LEMMA ReturnIsSafe ==
  ASSUME Return, latest' = latest, IInv
  PROVE  JobType' /\ JobInv'
<1>1. \A r \in Runtime : First[r] <= First[r] /\ First[r] <= latest[r]
  BY RoundFacts DEF IInv, TableInv
<1>2. JobType'
  BY RoundAssumption, RoundFacts DEF Return, JobType
<1>3. JobInv'
  BY <1>1 DEF Return, JobInv, InRound
<1>4. QED
  BY <1>2, <1>3

(* What the job has left behind stays complete.                            *)
LEMMA VisitedStay ==
  ASSUME IInv, RowsStay, order' = order, status' = status
  PROVE  \A j \in 1..(current - 1) : CompleteBelow(order[j], status[order[j]] + 1)'
BY DEF IInv, JobInv, RowsStay, CompleteBelow

(* The job leaves a ParaTime that is complete.                             *)
LEMMA NextRuntimeIsSafe ==
  ASSUME IInv, NextRuntime, latest' = latest, pc # "idle", RowsStay,
         CompleteBelow(Self, status[Self] + 1)
  PROVE  JobType' /\ JobInv'
<1>t. TypeOK /\ JobInv /\ JobType
  BY DEF IInv, TypeOK, JobType
<1>w. /\ order \in Orders /\ current \in 1..Len(order) /\ current \in Nat
      /\ Len(order) \in Nat
  BY WorkFacts
<1>1. CASE current < Len(order)
  <2>1. /\ pc' = "findCursor" /\ current' = current + 1 /\ scanRound' = 0
        /\ position' = 0 /\ order' = order /\ status' = status
    BY <1>1 DEF NextRuntime
  <2>2. JobType'
    BY <2>1, <1>t, <1>w, RoundFacts DEF JobType
  <2>3. current' \in 1..Len(order')
    BY <2>1, <1>w, <1>1
  <2>4. ASSUME NEW j \in 1..(current' - 1)
        PROVE  CompleteBelow(order[j], status[order[j]] + 1)'
    <3>1. CASE j = current
      BY <3>1, <2>1, CompleteStays DEF Self, CompleteBelow
    <3>2. CASE j # current
      <4>1. j \in 1..(current - 1)
        BY <3>2, <2>1, <1>w
      <4>2. QED
        BY <4>1, <2>1, VisitedStay
    <3>3. QED
      BY <3>1, <3>2
  <2>5. QED
    BY <2>1, <2>2, <2>3, <2>4, <1>t, <1>w DEF JobInv, InRound
<1>2. CASE ~(current < Len(order))
  BY <1>2, ReturnIsSafe DEF NextRuntime
<1>3. QED
  BY <1>1, <1>2

(* The loop over the rounds goes on at n, everything below n complete.     *)
LEMMA LoopIsSafe ==
  ASSUME IInv, NEW n \in 0..(MaxRound + 1), Loop(n), latest' = latest, pc # "idle",
         RowsStay, First[Self] <= n,
         \A i \in Item : i[1] = Self /\ i[2] < n => rows'[i] > 0,
         n > status[Self] => CompleteBelow(Self, status[Self] + 1)
  PROVE  JobType' /\ JobInv'
<1>t. TypeOK /\ JobInv /\ JobType
  BY DEF IInv, TypeOK, JobType
<1>w. /\ order \in Orders /\ current \in 1..Len(order) /\ status[Self] \in Int /\ n \in Int
  BY WorkFacts, RoundFacts
<1>1. CASE n <= status[Self]
  <2>1. /\ pc' = "getBlock" /\ scanRound' = n /\ position' = 0
        /\ order' = order /\ status' = status /\ current' = current
    BY <1>1 DEF Loop
  <2>2. JobType'
    BY <2>1, <1>t DEF JobType
  <2>3. Self' = Self /\ CompleteBelow(Self, scanRound)'
    BY <2>1 DEF Self, CompleteBelow
  <2>4. First[Self'] <= scanRound' /\ scanRound' <= status'[Self']
    BY <2>1, <2>3, <1>1
  <2>5. \A j \in 1..(current' - 1) : CompleteBelow(order[j], status[order[j]] + 1)'
    BY <2>1, VisitedStay
  <2>6. QED
    BY <2>1, <2>2, <2>3, <2>4, <2>5, <1>t, <1>w DEF JobInv, InRound
<1>2. CASE ~(n <= status[Self])
  BY <1>2, <1>w, NextRuntimeIsSafe DEF Loop
<1>3. QED
  BY <1>1, <1>2

(* The loop over the items of a round goes on at i, the earlier ones       *)
(* stored.                                                                 *)
LEMMA NextItemIsSafe ==
  ASSUME IInv, NEW k \in Nat, 1 <= k, NextItem(k), latest' = latest, InRound, RowsStay,
         \A i \in Item : i[1] = Self /\ i[2] = scanRound /\ i[3] < k => rows'[i] > 0
  PROVE  JobType' /\ JobInv'
<1>t. TypeOK /\ JobInv /\ JobType
  BY DEF IInv, TypeOK, JobType
<1>w. /\ order \in Orders /\ current \in 1..Len(order)
      /\ Self \in Runtime /\ scanRound \in Round
      /\ ItemCount[Self][scanRound] \in Nat
      /\ First[Self] <= scanRound /\ scanRound <= status[Self] /\ CompleteBelow(Self, scanRound)
  BY <1>t, WorkFacts, RoundFacts DEF InRound, JobInv
<1>1. /\ position' = k /\ order' = order /\ current' = current /\ status' = status
      /\ scanRound' = scanRound /\ Self' = Self
      /\ pc' \in {"find", "updateCursor"}
      /\ pc' = "find" => k <= ItemCount[Self][scanRound]
      /\ pc' = "updateCursor" => ~(k <= ItemCount[Self][scanRound])
  BY DEF NextItem, Self
<1>2. JobType'
  BY <1>1, <1>t DEF JobType
<1>3. CompleteBelow(Self, scanRound)'
  BY <1>1, <1>w, CompleteStays DEF CompleteBelow
<1>4. \A j \in 1..(current' - 1) : CompleteBelow(order[j], status[order[j]] + 1)'
  BY <1>1, VisitedStay
<1>5. pc' = "find" => position' \in 1..ItemCount[Self'][scanRound']
  BY <1>1, <1>w
<1>6. pc' = "updateCursor" => Stored(Self, scanRound)'
  <2> SUFFICES ASSUME ~(k <= ItemCount[Self][scanRound]),
                      NEW i \in Item, i[1] = Self, i[2] = scanRound
               PROVE  rows'[i] > 0
    BY <1>1 DEF Stored
  <2>1. i[3] \in 1..ItemCount[Self][scanRound]
    BY ItemFacts
  <2>2. i[3] < k
    BY <2>1, <1>w
  <2>3. QED
    BY <2>2
<1>7. QED
  BY <1>1, <1>2, <1>3, <1>4, <1>5, <1>6, <1>t, <1>w DEF JobInv, InRound
-----------------------------------------------------------------------------
LEMMA NextPreserves == IInv /\ [Next]_vars => IInv'
<1> SUFFICES ASSUME IInv, [Next]_vars PROVE IInv'
  OBVIOUS
<1>t. /\ TypeOK /\ TableInv /\ JobInv /\ JobType /\ faults \in 0..MaxFaults
      /\ latest \in [Runtime -> Round] /\ rows \in [Item -> Nat]
      /\ cursor \in [Runtime -> Round \cup {None}]
  BY DEF IInv, TypeOK, JobType
<1>l. lost \subseteq Statement /\ \A s \in lost : StatementInv(s)
  BY DEF IInv, TypeOK
<1>w. ASSUME pc # "idle"
      PROVE  /\ Self \in Runtime /\ First[Self] \in Round /\ status[Self] \in Round
             /\ latest[Self] \in Round /\ order \in Orders /\ current \in 1..Len(order)
             /\ First[Self] <= status[Self]
             /\ InRound => scanRound \in Round
  BY <1>w, WorkFacts
<1>p. ASSUME Writing PROVE Pending \in Statement /\ StatementInv(Pending)
  BY <1>p, PendingSound
<1>s. ASSUME rows' = rows PROVE RowsStay
  BY <1>s DEF RowsStay
<1>r. ASSUME Return, UNCHANGED <<latest, rows, cursor>>, faults' \in 0..MaxFaults,
             \A s \in lost' : s \in lost \/ (s \in Statement /\ StatementInv(s))
      PROVE  IInv'
  BY <1>r, ReturnIsSafe, JobStep
<1>1. ASSUME NEW r \in Runtime, Grow(r) PROVE IInv'
  <2>1. /\ latest[r] < MaxRound /\ latest' = [latest EXCEPT ![r] = @ + 1]
        /\ UNCHANGED <<rows, cursor, lost, faults>>
        /\ UNCHANGED <<pc, order, current, status, scanRound, position>>
    BY <1>1 DEF Grow, tables, job
  <2>2. /\ latest' \in [Runtime -> Round]
        /\ \A x \in Runtime : latest[x] <= latest'[x] /\ latest'[x] \in Round
    BY <2>1, <1>t, RoundFacts
  <2>3. TypeOK'
    BY <2>1, <2>2, <1>t DEF TypeOK
  <2>4. TableInv'
    <3>1. \A x \in Runtime : First[x] <= latest'[x]
      BY <2>2, <1>t, RoundFacts DEF TableInv
    <3>2. ASSUME NEW x \in Runtime, cursor[x] # None PROVE cursor[x] <= latest'[x]
      <4>1. cursor[x] \in Int /\ latest[x] \in Int /\ latest'[x] \in Int
        BY <3>2, <2>2, <1>t, RoundFacts
      <4>2. cursor[x] <= latest[x] /\ latest[x] <= latest'[x]
        BY <3>2, <2>2, <1>t DEF TableInv
      <4>3. QED
        BY <4>1, <4>2
    <3>3. QED
      BY <2>1, <3>1, <3>2, <1>t DEF TableInv, CompleteBelow
  <2>5. JobInv'
    <3>1. \A x \in Runtime : First[x] <= status[x] /\ status[x] <= latest'[x]
      <4>1. SUFFICES ASSUME NEW x \in Runtime
                     PROVE  First[x] <= status[x] /\ status[x] <= latest'[x]
        OBVIOUS
      <4>2. status[x] \in Int /\ latest[x] \in Int /\ latest'[x] \in Int
        BY <2>2, <1>t, RoundFacts DEF JobType
      <4>3. First[x] <= status[x] /\ status[x] <= latest[x] /\ latest[x] <= latest'[x]
        BY <2>2, <1>t DEF JobInv
      <4>4. QED
        BY <4>2, <4>3
    <3>2. QED
      BY <2>1, <3>1, <1>t DEF JobInv, InRound, Self, Here, CompleteBelow, Stored
  <2>6. ASSUME NEW s \in lost' PROVE StatementInv(s)'
    BY <2>1, <2>2, <2>6, <1>l, <1>t, <1>s, StatementStays
  <2>7. QED
    BY <2>3, <2>4, <2>5, <2>6 DEF IInv
<1>2. CASE GetStatus
  <2>1. /\ pc = "idle" /\ pc' = "findCursor" /\ order' \in Orders /\ status' = latest
        /\ UNCHANGED <<latest, rows, cursor, lost, faults, current, scanRound, position>>
    BY <1>2 DEF GetStatus, tables
  <2>2. JobType'
    BY <2>1, <1>t DEF JobType
  <2>3. current' = 1 /\ 1 \in 1..Len(order')
    BY <2>1, <1>t, OrderFacts DEF JobInv
  <2>4. \A r \in Runtime : First[r] <= status'[r] /\ status'[r] <= latest'[r]
    BY <2>1, <1>t, RoundFacts DEF TableInv
  <2>5. JobInv'
    BY <2>1, <2>3, <2>4 DEF JobInv, InRound
  <2>6. QED
    BY <2>1, <2>2, <2>5, <1>t, JobStep
<1>3. CASE FindCursor
  <2>1. pc = "findCursor" /\ UNCHANGED <<latest, rows, cursor, lost, faults>> /\ RowsStay
    BY <1>3, <1>s DEF FindCursor, tables
  <2>2. CASE cursor[Self] = None
    <3>1. pc' = "insertCursor" /\ UNCHANGED <<order, current, status, scanRound, position>>
      BY <1>3, <2>2 DEF FindCursor, GoTo
    <3>2. JobType' /\ JobInv'
      BY <2>1, <3>1, <1>t DEF JobType, JobInv, InRound, CompleteBelow
    <3>3. QED
      BY <2>1, <3>2, <1>t, JobStep
  <2>3. CASE cursor[Self] # None
    <3>1. Loop(cursor[Self]) /\ pc # "idle"
      BY <1>3, <2>1, <2>3 DEF FindCursor
    <3>2. /\ cursor[Self] \in Round /\ First[Self] <= cursor[Self]
          /\ cursor[Self] = First[Self] \/ CompleteBelow(Self, cursor[Self] + 1)
      BY <2>1, <2>3, <1>t, <1>w DEF TableInv
    <3>3. cursor[Self] \in 0..(MaxRound + 1) /\ cursor[Self] \in Int
      BY <3>2, RoundFacts
    <3>4. CompleteBelow(Self, cursor[Self])
      BY <3>2, <3>3, <2>1, <1>w, NothingBeforeFirst, CompleteBelowLess
    <3>5. \A i \in Item : i[1] = Self /\ i[2] < cursor[Self] => rows'[i] > 0
      BY <3>4, <2>1 DEF CompleteBelow
    <3>6. cursor[Self] > status[Self] => CompleteBelow(Self, status[Self] + 1)
      <4>1. SUFFICES ASSUME cursor[Self] > status[Self]
                     PROVE  CompleteBelow(Self, status[Self] + 1)
        OBVIOUS
      <4>2. status[Self] \in Int
        BY <2>1, <1>w, RoundFacts
      <4>3. status[Self] + 1 \in Int /\ status[Self] + 1 <= cursor[Self]
        BY <4>1, <4>2, <3>3
      <4>4. QED
        BY <4>3, <3>3, <3>4, CompleteBelowLess
    <3>7. JobType' /\ JobInv'
      BY <2>1, <3>1, <3>2, <3>3, <3>5, <3>6, LoopIsSafe
    <3>8. QED
      BY <2>1, <3>7, <1>t, JobStep
  <2>4. QED
    BY <2>2, <2>3
<1>4. CASE GetBlock
  <2>1. /\ pc = "getBlock" /\ InRound /\ NextItem(1) /\ RowsStay
        /\ UNCHANGED <<latest, rows, cursor, lost, faults>>
    BY <1>4, <1>s DEF GetBlock, tables, InRound
  <2>2. \A i \in Item : ~(i[3] < 1)
    <3>1. SUFFICES ASSUME NEW i \in Item PROVE ~(i[3] < 1)
      OBVIOUS
    <3>2. i[3] \in 1..ItemCount[i[1]][i[2]] /\ ItemCount[i[1]][i[2]] \in Nat
      BY ItemFacts, RoundFacts
    <3>3. QED
      BY <3>2
  <2>3. PICK k \in Nat : k = 1
    OBVIOUS
  <2>4. JobType' /\ JobInv'
    BY <2>1, <2>2, <2>3, NextItemIsSafe
  <2>5. QED
    BY <2>1, <2>4, <1>t, JobStep
<1>h. ASSUME pc \in {"find", "insert"}
      PROVE  /\ InRound /\ position \in Nat /\ 1 <= position
             /\ Here \in Item /\ Here = <<Self, scanRound, position>>
             /\ \A i \in Item :
                  i[1] = Self /\ i[2] = scanRound /\ i[3] < position => rows[i] > 0
  <2>1. /\ InRound /\ Self \in Runtime /\ scanRound \in Round /\ First[Self] <= scanRound
        /\ position \in 1..ItemCount[Self][scanRound] /\ position \in Nat
        /\ \A i \in Item :
                  i[1] = Self /\ i[2] = scanRound /\ i[3] < position => rows[i] > 0
    BY <1>h, <1>t, <1>w DEF JobInv, InRound, JobType
  <2>2. 1 <= position /\ ItemCount[Self][scanRound] \in Nat
    BY <2>1, RoundFacts
  <2>3. QED
    BY <2>1, <2>2, ItemFacts DEF Here
<1>i. ASSUME NEW k, k = position + 1, pc \in {"find", "insert"}, RowsStay, rows'[Here] > 0
      PROVE  /\ k \in Nat /\ 1 <= k
             /\ \A i \in Item : i[1] = Self /\ i[2] = scanRound /\ i[3] < k => rows'[i] > 0
  <2>1. k \in Nat /\ 1 <= k
    BY <1>i, <1>h
  <2>2. SUFFICES ASSUME NEW i \in Item, i[1] = Self, i[2] = scanRound, i[3] < k
                 PROVE  rows'[i] > 0
    BY <2>1
  <2>3. i[3] \in Int /\ i = <<i[1], i[2], i[3]>>
    BY ItemFacts, RoundFacts
  <2>4. CASE i[3] < position
    BY <2>2, <2>4, <1>h, <1>i DEF RowsStay
  <2>5. CASE i[3] = position
    BY <2>2, <2>3, <2>5, <1>h, <1>i
  <2>6. QED
    BY <2>2, <2>3, <2>4, <2>5, <1>h, <1>i
<1>5. CASE Find
  <2>1. pc = "find" /\ UNCHANGED <<latest, rows, cursor, lost, faults>> /\ RowsStay
    BY <1>5, <1>s DEF Find, tables
  <2>2. CASE Here \in Unreadable
    BY <1>5, <2>1, <2>2, <1>r, <1>t DEF Find
  <2>3. CASE Here \notin Unreadable /\ rows[Here] > 0
    <3>1. NextItem(position + 1) /\ rows'[Here] > 0 /\ InRound
      BY <1>5, <2>1, <2>3 DEF Find, InRound
    <3>2. PICK k : k = position + 1
      OBVIOUS
    <3>3. JobType' /\ JobInv'
      BY <2>1, <3>1, <3>2, <1>i, NextItemIsSafe
    <3>4. QED
      BY <2>1, <3>3, <1>t, JobStep
  <2>4. CASE Here \notin Unreadable /\ ~(rows[Here] > 0)
    <3>1. pc' = "insert" /\ UNCHANGED <<order, current, status, scanRound, position>>
      BY <1>5, <2>4 DEF Find, GoTo
    <3>2. Self' = Self /\ Here' = Here
      BY <3>1 DEF Self, Here
    <3>3. JobType' /\ JobInv'
      BY <2>1, <2>4, <3>1, <3>2, <1>t DEF JobType, JobInv, InRound, CompleteBelow
    <3>4. QED
      BY <2>1, <3>3, <1>t, JobStep
  <2>5. QED
    BY <2>2, <2>3, <2>4
<1>6. CASE Write
  <2>1. Writing /\ Accepts(Pending) /\ Apply(Pending) /\ UNCHANGED <<latest, lost, faults>>
    BY <1>6 DEF Write
  <2>2. PICK s \in Statement : s = Pending
    BY <2>1, <1>p
  <2>3. /\ StatementInv(s) /\ RowsStay /\ pc # "idle"
        /\ s.kind = "insert" => rows'[s.item] > 0
    BY <2>1, <2>2, <1>p, ApplyKeeps DEF Writing
  <2>4. CASE pc = "insertCursor"
    <3>1. Loop(First[Self])
      BY <1>6, <2>4 DEF Write
    <3>2. PICK n \in 0..(MaxRound + 1) : n = First[Self]
      BY <2>3, <1>w, RoundFacts
    <3>3. \A i \in Item : i[1] = Self /\ i[2] < n => rows'[i] > 0
      BY <2>3, <3>2, <1>w, NothingBeforeFirst, CompleteStays
    <3>4. First[Self] <= n /\ ~(n > status[Self])
      BY <2>3, <3>2, <1>w, RoundFacts
    <3>5. JobType' /\ JobInv'
      BY <2>1, <2>3, <3>1, <3>2, <3>3, <3>4, LoopIsSafe
    <3>6. QED
      BY <2>1, <2>2, <2>3, <3>5, StatementStep
  <2>5. CASE pc = "insert"
    <3>1. NextItem(position + 1) /\ rows'[Here] > 0 /\ InRound
      BY <1>6, <2>2, <2>3, <2>5 DEF Write, Pending, InRound
    <3>2. PICK k : k = position + 1
      OBVIOUS
    <3>3. JobType' /\ JobInv'
      BY <2>1, <2>3, <2>5, <3>1, <3>2, <1>i, NextItemIsSafe
    <3>4. QED
      BY <2>1, <2>2, <2>3, <3>3, StatementStep
  <2>6. CASE pc = "updateCursor"
    <3>1. Loop(scanRound + 1)
      BY <1>6, <2>6 DEF Write
    <3>2. /\ scanRound \in Round /\ status[Self] \in Int /\ First[Self] \in Int
          /\ First[Self] <= scanRound /\ scanRound <= status[Self]
          /\ CompleteBelow(Self, scanRound) /\ Stored(Self, scanRound)
      BY <2>3, <2>6, <1>t, <1>w, RoundFacts DEF InRound, JobInv
    <3>3. PICK n \in 0..(MaxRound + 1) : n = scanRound + 1
      BY <3>2, RoundFacts
    <3>4. CompleteBelow(Self, n)
      BY <3>2, <3>3, RoundFacts, NextRoundComplete
    <3>5. \A i \in Item : i[1] = Self /\ i[2] < n => rows'[i] > 0
      BY <2>3, <3>4, CompleteStays
    <3>6. First[Self] <= n /\ (n > status[Self] => n = status[Self] + 1)
      BY <3>2, <3>3, RoundFacts
    <3>7. JobType' /\ JobInv'
      BY <2>1, <2>3, <3>1, <3>3, <3>4, <3>5, <3>6, LoopIsSafe
    <3>8. QED
      BY <2>1, <2>2, <2>3, <3>7, StatementStep
  <2>7. QED
    BY <2>1, <2>4, <2>5, <2>6 DEF Writing
<1>7. CASE Refused
  BY <1>7, <1>r, <1>t DEF Refused, tables
<1>8. CASE LoseAnswer
  <2>1. faults' \in 0..MaxFaults
    BY <1>8, <1>t, FaultAssumption DEF LoseAnswer, Fault
  <2>2. \A s \in lost' : s \in lost \/ (s \in Statement /\ StatementInv(s))
    BY <1>8, <1>p DEF LoseAnswer
  <2>3. QED
    BY <1>8, <2>1, <2>2, <1>r DEF LoseAnswer
<1>9. CASE Decide
  <2>1. PICK s \in lost : /\ lost' = lost \ {s}
                          /\ \/ Accepts(s) /\ Apply(s)
                             \/ UNCHANGED <<rows, cursor>>
                          /\ UNCHANGED <<latest, job, faults>>
    BY <1>9 DEF Decide
  <2>2. /\ s \in Statement /\ StatementInv(s)
        /\ UNCHANGED <<pc, order, current, status, scanRound, position>>
    BY <2>1, <1>l DEF job
  <2>3. JobType'
    BY <2>2, <1>t DEF JobType
  <2>4. RowsStay
    BY <2>1, <2>2, <1>s, ApplyKeeps
  <2>5. JobInv'
    <3>1. Self' = Self /\ Here' = Here /\ latest' = latest
      BY <2>1, <2>2 DEF Self, Here
    <3>2. \A j \in 1..(current - 1) : CompleteBelow(order[j], status[order[j]] + 1)'
      BY <2>2, <2>4, VisitedStay
    <3>3. InRound => CompleteBelow(Self, scanRound)'
      BY <2>2, <2>4, <3>1, <1>t, CompleteStays DEF JobInv, CompleteBelow
    <3>4. pc = "updateCursor" => Stored(Self, scanRound)'
      BY <2>2, <2>4, <3>1, <1>t, CompleteStays DEF JobInv, Stored
    <3>5. pc \in {"find", "insert"} =>
            \A i \in Item : i[1] = Self /\ i[2] = scanRound /\ i[3] < position => rows'[i] > 0
      BY <2>4, <1>t DEF JobInv, RowsStay
    <3>6. QED
      BY <2>2, <3>1, <3>2, <3>3, <3>4, <3>5, <1>t DEF JobInv, InRound
  <2>6. CASE Accepts(s) /\ Apply(s)
    BY <2>1, <2>2, <2>3, <2>5, <2>6, StatementStep
  <2>7. CASE UNCHANGED <<rows, cursor>>
    BY <2>1, <2>3, <2>5, <2>7, <1>t, JobStep
  <2>8. QED
    BY <2>1, <2>6, <2>7
<1>10. CASE Fail
  <2>1. faults' \in 0..MaxFaults
    BY <1>10, <1>t, FaultAssumption DEF Fail, Fault
  <2>2. QED
    BY <1>10, <2>1, <1>r DEF Fail, tables
<1>11. CASE UNCHANGED vars
  <2>1. JobType' /\ JobInv'
    BY <1>11, <1>t
       DEF vars, job, tables, JobType, JobInv, InRound, Self, Here, CompleteBelow, Stored
  <2>2. QED
    BY <1>11, <2>1, <1>t, JobStep DEF vars, tables
<1>12. QED
  BY <1>1, <1>2, <1>3, <1>4, <1>5, <1>6, <1>7, <1>8, <1>9, <1>10, <1>11 DEF Next, Run

(* The inductive invariant holds throughout.                               *)
THEOREM Invariance == Spec => []IInv
<1>1. QED
  BY InitEstablishes, NextPreserves, PTL DEF Spec
-----------------------------------------------------------------------------
(* No cursor gets ahead of the rows and no item is stored twice, however   *)
(* late an INSERT or a cursor statement takes effect.                      *)
THEOREM RowsCorrect == Spec => []ExactlyOnce
<1>1. IInv => ExactlyOnce
  <2> SUFFICES ASSUME IInv PROVE ExactlyOnce
    OBVIOUS
  <2>1. ASSUME NEW r \in Runtime, cursor[r] # None, NEW n \in First[r]..(cursor[r] - 1)
        PROVE  Stored(r, n)
    <3>1. cursor[r] \in Int /\ First[r] \in Int
      BY <2>1, RoundFacts DEF IInv, TypeOK
    <3>2. CompleteBelow(r, cursor[r] + 1)
      BY <2>1, <3>1 DEF IInv, TableInv
    <3>3. n < cursor[r] + 1
      BY <3>1
    <3>4. QED
      BY <3>2, <3>3 DEF CompleteBelow, Stored
  <2>2. QED
    BY <2>1 DEF ExactlyOnce, IInv, TableInv
<1>2. QED
  BY <1>1, Invariance, PTL

(* An item that cannot be decoded holds back its ParaTime's cursor and     *)
(* every later item of it, and a run never gets past the ParaTime.         *)
THEOREM UnreadableCorrect == Spec => []UnreadableHoldsBack
<1>1. IInv => UnreadableHoldsBack
  <2> SUFFICES ASSUME IInv, NEW u \in Unreadable
               PROVE  /\ cursor[u[1]] # None =>
                           cursor[u[1]] < u[2] \/ cursor[u[1]] = First[u[1]]
                      /\ \A i \in Item : i[1] = u[1] /\ i[2] > u[2] => rows[i] = 0
                      /\ \A j \in 1..(current - 1) : order[j] = u[1] => status[u[1]] < u[2]
    BY DEF UnreadableHoldsBack
  <2>u. u \in Item /\ u[1] \in Runtime /\ u[2] \in Int
    BY UnreadableAssumption, ItemFacts, RoundFacts
  <2>t. /\ TypeOK /\ TableInv /\ JobInv /\ rows \in [Item -> Nat]
        /\ status \in [Runtime -> Round]
        /\ cursor \in [Runtime -> Round \cup {None}]
    BY DEF IInv, TypeOK
  <2>1. ~(rows[u] > 0)
    BY <2>u, <2>t DEF TableInv
  <2>2. ASSUME NEW n, CompleteBelow(u[1], n) PROVE ~(u[2] < n)
    BY <2>u, <2>1, <2>2 DEF CompleteBelow
  <2>3. ASSUME cursor[u[1]] # None, cursor[u[1]] # First[u[1]]
        PROVE  cursor[u[1]] < u[2]
    <3>1. cursor[u[1]] \in Int
      BY <2>u, <2>t, <2>3, RoundFacts
    <3>2. ~(u[2] < cursor[u[1]] + 1)
      BY <2>u, <2>t, <2>3, <2>2 DEF TableInv
    <3>3. QED
      BY <2>u, <3>1, <3>2
  <2>4. ASSUME NEW i \in Item, i[1] = u[1], i[2] > u[2] PROVE rows[i] = 0
    <3>1. i[2] \in Int /\ rows[i] \in Nat
      BY <2>t, ItemFacts, RoundFacts
    <3>2. rows[i] > 0 => ~(u[2] < i[2])
      BY <2>4, <2>t, <2>2 DEF TableInv
    <3>3. QED
      BY <2>4, <2>u, <3>1, <3>2
  <2>5. ASSUME NEW j \in 1..(current - 1), order[j] = u[1] PROVE status[u[1]] < u[2]
    <3>1. status[u[1]] \in Int
      BY <2>u, <2>t, RoundFacts
    <3>2. ~(u[2] < status[u[1]] + 1)
      BY <2>5, <2>t, <2>2 DEF JobInv
    <3>3. QED
      BY <2>u, <3>1, <3>2
  <2>6. QED
    BY <2>3, <2>4, <2>5
<1>2. QED
  BY <1>1, Invariance, PTL
-----------------------------------------------------------------------------
(* The refinement of Checkpoint, for each ParaTime.                        *)

Done(r)   == {n \in First[r]..latest[r] : Stored(r, n)}
Resume(r) == IF cursor[r] = None THEN First[r] ELSE cursor[r]

LEMMA CursorInit ==
  ASSUME Init, NEW r \in Runtime
  PROVE  Cursor(r)!Init
<1>1. latest[r] = First[r] /\ cursor[r] = None /\ First[r] \in Int
  BY RoundAssumption, RoundFacts DEF Init
<1>2. Done(r) \in SUBSET {First[r]}
  BY <1>1 DEF Done
<1>3. QED
  BY <1>1, <1>2 DEF Cursor!Init, Done

(* A sound statement completes a round of one ParaTime or moves its cursor *)
(* to a round before which everything is done; for the others nothing      *)
(* happens.                                                                *)
LEMMA ApplyIsCheckpointStep ==
  ASSUME IInv, NEW s \in Statement, StatementInv(s), Accepts(s), Apply(s), latest' = latest,
         NEW r \in Runtime
  PROVE  [Cursor(r)!Next]_(Cursor(r)!vars)
<1>t. /\ TypeOK /\ TableInv /\ latest[r] \in Int /\ First[r] \in Int
      /\ cursor' \in [Runtime -> Round \cup {None}] /\ TableInv' /\ RowsStay
      /\ rows \in [Item -> Nat] /\ cursor \in [Runtime -> Round \cup {None}]
  BY ApplyKeeps, RoundFacts DEF IInv, TypeOK
<1>1. CASE s.kind = "insert"
  <2>1. /\ s.item \in Item /\ cursor' = cursor
        /\ rows' = [rows EXCEPT ![s.item] = @ + 1]
    BY <1>1, StatementFacts DEF Accepts, Apply
  <2>2. Resume(r)' = Resume(r)
    BY <2>1 DEF Resume
  <2>3. \A n : Stored(r, n) => Stored(r, n)'
    BY <1>t, CompleteStays DEF Stored
  <2>4. \E H \in SUBSET (First[r]..latest[r]) : Done(r)' = Done(r) \cup H
    <3>1. Done(r)' = Done(r) \cup Done(r)' /\ Done(r)' \in SUBSET (First[r]..latest[r])
      BY <2>3 DEF Done
    <3>2. QED
      BY <3>1
  <2>5. Cursor(r)!Complete
    BY <2>2, <2>4 DEF Cursor!Complete, Done, Resume
  <2>6. QED
    BY <2>5 DEF Cursor!Next
<1>2. CASE s.kind # "insert"
  <2>1. rows' = rows
    BY <1>2 DEF Apply
  <2>2. Done(r)' = Done(r)
    BY <2>1 DEF Done, Stored
  <2>3. /\ Resume(r)' \in Int /\ First[r] <= Resume(r)' /\ Resume(r)' <= latest[r]
        /\ Resume(r)' = First[r] \/ CompleteBelow(r, Resume(r)' + 1)
    <3>1. CASE cursor'[r] = None
      BY <3>1, <1>t DEF Resume, TableInv
    <3>2. CASE cursor'[r] # None
      <4>1. cursor'[r] \in Int
        BY <3>2, <1>t, RoundFacts
      <4>2. /\ First[r] <= cursor'[r] /\ cursor'[r] <= latest[r]
            /\ cursor'[r] = First[r] \/ CompleteBelow(r, cursor'[r] + 1)
        BY <3>2, <2>1, <1>t DEF TableInv, CompleteBelow
      <4>3. QED
        BY <3>2, <4>1, <4>2 DEF Resume
    <3>3. QED
      BY <3>1, <3>2
  <2>4. Resume(r)' \in First[r]..(latest[r] + 1)
    BY <2>3, <1>t
  <2>5. ASSUME NEW n \in First[r]..MaxRound, n < Resume(r)'
        PROVE  n \in Done(r)
    <3>1. n \in First[r]..latest[r] /\ n < Resume(r)' + 1 /\ Resume(r)' # First[r]
      BY <2>3, <2>5, <1>t, RoundFacts
    <3>2. Stored(r, n)
      BY <2>3, <3>1 DEF CompleteBelow, Stored
    <3>3. QED
      BY <3>1, <3>2 DEF Done
  <2>6. Cursor(r)!SetCursor
    BY <2>2, <2>4, <2>5 DEF Cursor!SetCursor, Cursor!Height, Done, Resume
  <2>7. QED
    BY <2>6 DEF Cursor!Next
<1>3. QED
  BY <1>1, <1>2

LEMMA CursorNext ==
  ASSUME IInv, [Next]_vars, NEW r \in Runtime
  PROVE  [Cursor(r)!Next]_(Cursor(r)!vars)
<1>s. ASSUME UNCHANGED <<latest, rows, cursor>> PROVE UNCHANGED Cursor(r)!vars
  BY <1>s DEF Cursor!vars, Stored
<1>1. ASSUME NEW x \in Runtime, Grow(x) PROVE [Cursor(r)!Next]_(Cursor(r)!vars)
  <2>1. /\ latest[x] < MaxRound /\ latest' = [latest EXCEPT ![x] = @ + 1]
        /\ rows' = rows /\ cursor' = cursor
    BY <1>1 DEF Grow, tables
  <2>2. /\ latest \in [Runtime -> Round] /\ latest[r] \in Int /\ First[r] \in Int
        /\ First[r] <= latest[r]
    BY RoundFacts DEF IInv, TypeOK, TableInv
  <2>3. CASE x # r
    <3>1. latest'[r] = latest[r]
      BY <2>1, <2>2, <2>3
    <3>2. QED
      BY <2>1, <3>1 DEF Cursor!vars, Stored
  <2>4. CASE x = r
    <3>1. latest'[r] = latest[r] + 1 /\ latest[r] < MaxRound
      BY <2>1, <2>2, <2>4
    <3>2. \A n : Stored(r, n)' <=> Stored(r, n)
      BY <2>1 DEF Stored
    <3>3. \A n : n \in First[r]..latest'[r] <=> n \in First[r]..latest[r] \/ n = latest'[r]
      BY <3>1, <2>2
    <3>4. Done(r)' \in {Done(r), Done(r) \cup {latest'[r]}}
      <4> PICK n : n = latest'[r]
        OBVIOUS
      <4>1. CASE Stored(r, n)'
        BY <3>2, <3>3, <4>1 DEF Done
      <4>2. CASE ~Stored(r, n)'
        BY <3>2, <3>3, <4>2 DEF Done
      <4>3. QED
        BY <4>1, <4>2
    <3>5. Cursor(r)!Grow
      BY <2>1, <3>1, <3>4 DEF Cursor!Grow, Done
    <3>6. QED
      BY <3>5 DEF Cursor!Next
  <2>5. QED
    BY <2>3, <2>4
<1>2. CASE Write
  <2>1. PICK s \in Statement : s = Pending
    BY <1>2, PendingSound DEF Write
  <2>2. StatementInv(s) /\ Accepts(s) /\ Apply(s) /\ latest' = latest
    BY <1>2, <2>1, PendingSound DEF Write
  <2>3. QED
    BY <2>2, ApplyIsCheckpointStep
<1>3. CASE Decide
  <2>1. PICK s \in lost : /\ \/ Accepts(s) /\ Apply(s)
                             \/ UNCHANGED <<rows, cursor>>
                          /\ UNCHANGED latest
    BY <1>3 DEF Decide
  <2>2. s \in Statement /\ StatementInv(s)
    BY DEF IInv, TypeOK
  <2>3. CASE Accepts(s) /\ Apply(s)
    BY <2>1, <2>2, <2>3, ApplyIsCheckpointStep
  <2>4. CASE UNCHANGED <<rows, cursor>>
    BY <2>1, <2>4, <1>s
  <2>5. QED
    BY <2>1, <2>3, <2>4
<1>4. CASE UNCHANGED <<latest, rows, cursor>>
  BY <1>4, <1>s
<1>5. QED
  BY <1>1, <1>2, <1>3, <1>4
     DEF Next, Run, GetStatus, FindCursor, GetBlock, Find, Refused, LoseAnswer, Fail,
         vars, tables

(* For every ParaTime the job implements the promise of its cursor: what   *)
(* is behind it is done, and stays done.                                   *)
THEOREM ImplementsCheckpoint == Spec => CursorSpec
<1>1. Init => \A r \in Runtime : Cursor(r)!Init
  BY CursorInit
<1>2. IInv /\ [Next]_vars =>
        [\A r \in Runtime : [Cursor(r)!Next]_(Cursor(r)!vars)]_<<latest, rows, cursor>>
  BY CursorNext
<1>3. QED
  BY <1>1, <1>2, Invariance, PTL DEF Spec, CursorSpec
=============================================================================
