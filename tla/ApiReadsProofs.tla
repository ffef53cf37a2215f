--------------------------- MODULE ApiReadsProofs ---------------------------
(***************************************************************************)
(* What the API may say.  Of its lists: a page shows no row twice and no   *)
(* more rows than the total accounts for, and a client that walks a list   *)
(* to its end misses no row whose place the order of the list settles.  Of *)
(* its caches: the days of signed blocks are final, the uptime is that of  *)
(* recent heights, and no request gets an answer older than one that       *)
(* somebody had before it.                                                 *)
(***************************************************************************)
EXTENDS ApiReads, TLAPS, Integers, FiniteSetTheorems, WellFoundedInduction
-----------------------------------------------------------------------------
(* Greatest elements.                                                      *)

(* A set of integers with an upper bound has a greatest element.           *)
LEMMA GreatestExists ==
  ASSUME NEW S \in SUBSET Int, S # {}, NEW b \in Int, \A x \in S : x <= b
  PROVE  Max(S) \in S /\ \A x \in S : x <= Max(S)
<1> DEFINE T == {b - x : x \in S}
<1>1. T \subseteq Nat /\ T # {}
  <2>1. ASSUME NEW x \in S PROVE b - x \in Nat
    <3>1. x \in Int /\ x <= b
      OBVIOUS
    <3>2. QED
      BY <3>1
  <2>2. QED
    BY <2>1
<1>2. PICK t \in T : \A u \in T : <<u, t>> \notin OpToRel(<, Nat)
  BY <1>1, WFMin, NatLessThanWellFounded
<1>3. \A u \in T : t <= u
  <2>1. ASSUME NEW u \in T, u < t PROVE <<u, t>> \in OpToRel(<, Nat)
    BY <1>1, <2>1 DEF OpToRel
  <2>2. ASSUME NEW u \in T PROVE t <= u
    <3>1. ~(u < t)
      BY <1>2, <2>1
    <3>2. u \in Nat /\ t \in Nat
      BY <1>1
    <3>3. QED
      BY <3>1, <3>2
  <2>3. QED
    BY <2>2
<1>4. PICK m \in S : t = b - m
  OBVIOUS
<1>5. \A x \in S : m >= x
  <2>1. ASSUME NEW x \in S PROVE m >= x
    <3>1. b - x \in T
      OBVIOUS
    <3>2. b - m <= b - x
      BY <1>3, <1>4, <3>1
    <3>3. QED
      BY <3>2
  <2>2. QED
    BY <2>1
<1>6. Max(S) \in S /\ \A x \in S : Max(S) >= x
  BY <1>4, <1>5 DEF Max
<1>7. QED
  BY <1>6

-----------------------------------------------------------------------------
(* The invariant of the lists and the client.                              *)

ReaderType ==
  [pc : {"done", "ask", "count", "find", "reply"}, q : Requests, page : Nat,
   list : Seq(Nat), total : Nat, seen : SUBSET Nat, start : SUBSET Nat]

PagesType ==
  /\ table \in Seq(Rows) /\ deleted \subseteq DOMAIN table
  /\ reader \in ReaderType
  /\ reader.pc # "done" => reader.page # 0
  /\ reader.start \subseteq DOMAIN table

(* There is a latest height, and no round is stored twice.                 *)
TableInv ==
  /\ \E b \in Nat : \A h \in Heights("transaction") : h <= b
  /\ \A i \in DOMAIN table, j \in DOMAIN table :
       table[i].table = "runtime_round" /\ table[j].table = "runtime_round" /\ table[i].key = table[j].key
         => i = j

Before == (reader.page - 1) * Asked.size
UpTo   == reader.page * Asked.size

(* A page that is not yet counted has no more rows than there are.         *)
CoverInv ==
  /\ reader.pc = "count" => Asked.of \notin {"blocks", "proposedBlocks", "delegations", "debonding"}
  /\ reader.pc = "count" /\ Asked.of # "rewards" /\ ~Parted(Asked) =>
       /\ IsInjective(reader.list)
       /\ \/ reader.list = <<>>
          \/ Before + Len(reader.list) <= Cardinality(Matching(Asked))
          \/ Asked.of = "transactions" /\ Unfiltered(Asked)
  /\ CountCoversPage

Walks ==
  /\ Asked.of \in {"transactions", "escrowEvents", "rounds", "rewards", "runtimeTransactions"}
  /\ ~Parted(Asked) /\ ~Mixed(Asked)
  /\ Asked.of = "runtimeTransactions" => Cardinality(Matching(Asked)) <= MaxSizeLimit

(* The place of position i among those of S, in any order by their keys,   *)
(* if no other one has its key.                                            *)
Place(i, S) == Cardinality({j \in S : table[j].key >= table[i].key})
Sole(i, S)  == \A j \in S : table[j].key = table[i].key => j = i

(* A row of the start that is still to be seen has its place on a page the *)
(* client has yet to ask for, and the reply says that there is one.        *)
ToCome(i) ==
  LET place == Place(i, Matching(Asked))
  IN  /\ reader.pc = "done" => i \in reader.seen
      /\ reader.pc # "done" => i \in reader.seen \/ place > Before
      /\ reader.pc \in {"count", "reply"} =>
           \/ i \in reader.seen \cup ToSet(reader.list)
           \/ place > UpTo /\ (reader.pc = "reply" => reader.total > UpTo)

WalkInv == Walks => \A i \in reader.start \cap Matching(Asked) : Alone(i) => ToCome(i)

PagesInv == PagesType /\ TableInv /\ CoverInv /\ WalkInv

(* Every row has a height or round, and a key.                             *)
LEMMA RowType ==
  ASSUME PagesType
  PROVE  \A i \in DOMAIN table : table[i] \in Rows /\ table[i].at \in Nat /\ table[i].key \in Nat
BY RowAssumption DEF PagesType

(* The positions of a table.                                               *)
LEMMA Positions ==
  ASSUME NEW t \in Seq(Rows), NEW S \in SUBSET DOMAIN t
  PROVE  S \in SUBSET Nat /\ IsFiniteSet(S)
<1>1. PICK n \in Nat : DOMAIN t = 1..n
  OBVIOUS
<1>2. QED
  BY <1>1, FS_Interval, FS_Subset
-----------------------------------------------------------------------------
(* Pages.                                                                  *)

(* A place in a set of positions is no greater than their number.          *)
LEMMA PlaceFacts ==
  ASSUME PagesType, NEW S \in SUBSET DOMAIN table
  PROVE  /\ Cardinality(S) \in Nat /\ IsFiniteSet(S)
         /\ \A i \in S : Place(i, S) \in 1..Cardinality(S)
<1>1. IsFiniteSet(S) /\ Cardinality(S) \in Nat
  BY Positions, FS_CardinalityType DEF PagesType
<1>2. ASSUME NEW i \in S PROVE Place(i, S) \in 1..Cardinality(S)
  <2>1. PICK U \in SUBSET S : U = {j \in S : table[j].key >= table[i].key}
    OBVIOUS
  <2>2. i \in U
    <3>1. table[i].key \in Nat
      BY RowType
    <3>2. QED
      BY <2>1, <3>1
  <2>3. IsFiniteSet(U) /\ Cardinality(U) \in Nat /\ Cardinality(U) <= Cardinality(S)
    BY <1>1, FS_Subset, FS_CardinalityType
  <2>4. Cardinality(U) # 0
    BY <2>2, <2>3, FS_EmptySet
  <2>5. Place(i, S) = Cardinality(U)
    BY <2>1 DEF Place
  <2>6. QED
    BY <1>1, <2>3, <2>4, <2>5
<1>3. QED
  BY <1>1, <1>2

(* Any order by the keys has each position once, and one whose key no      *)
(* other has at its place.                                                 *)
LEMMA OrderFacts ==
  ASSUME PagesType, NEW S \in SUBSET DOMAIN table, NEW list \in OrderBy(S)
  PROVE  /\ list \in Seq(S) /\ Len(list) = Cardinality(S)
         /\ \A j \in 1..Cardinality(S), k \in 1..Cardinality(S) : list[j] = list[k] => j = k
         /\ \A i \in S : Sole(i, S) => list[Place(i, S)] = i
<1>1. PICK n \in Nat : n = Cardinality(S) /\ IsFiniteSet(S)
  BY PlaceFacts
<1>2. /\ list \in [1..n -> S]
      /\ \A j \in 1..n, k \in 1..n : j # k => list[j] # list[k]
      /\ \A j \in 1..n, k \in 1..n : j < k => table[list[j]].key >= table[list[k]].key
  BY <1>1 DEF OrderBy, SetToSeqs
<1>3. list \in Seq(S) /\ Len(list) = n
  BY <1>2
<1>4. \A i \in S : \E k \in 1..n : list[k] = i
  <2>1. list \in Injection(1..n, S)
    BY <1>2 DEF Injection, IsInjective
  <2>2. Cardinality(1..n) = n
    BY FS_Interval
  <2>3. list \in Surjection(1..n, S)
    BY <1>1, <2>1, <2>2, FS_Injection
  <2>4. QED
    BY <2>3 DEF Surjection
<1>5. \A i \in S : table[i].key \in Nat
  BY RowType
<1>6. ASSUME NEW i \in S, Sole(i, S) PROVE list[Place(i, S)] = i
  <2>1. PICK k \in 1..n : list[k] = i
    BY <1>4
  <2>2. PICK U \in SUBSET S : U = {j \in S : table[j].key >= table[i].key}
    OBVIOUS
  <2>3. ASSUME NEW m \in 1..k PROVE m \in 1..n /\ list[m] \in U
    <3>1. m \in 1..n /\ list[m] \in S
      BY <1>2, <2>1
    <3>2. CASE m = k
      BY <1>5, <2>1, <2>2, <3>1, <3>2
    <3>3. CASE m # k
      BY <1>2, <2>1, <2>2, <3>1, <3>3
    <3>4. QED
      BY <3>1, <3>2, <3>3
  <2>4. ASSUME NEW j \in U PROVE \E m \in 1..k : list[m] = j
    <3>1. PICK m \in 1..n : list[m] = j
      BY <1>4
    <3>2. CASE m <= k
      BY <3>1, <3>2
    <3>3. CASE m > k
      <4>1. table[i].key >= table[j].key /\ table[j].key >= table[i].key
        BY <1>2, <2>1, <2>2, <3>1, <3>3
      <4>2. table[i].key \in Nat /\ table[j].key \in Nat
        BY <1>5
      <4>3. table[j].key = table[i].key
        BY <4>1, <4>2
      <4>4. j = i
        BY <1>6, <4>3 DEF Sole
      <4>5. QED
        BY <1>2, <2>1, <3>1, <3>3, <4>4
    <3>4. QED
      BY <3>2, <3>3
  <2>5. ExistsBijection(1..k, U)
    <3> DEFINE f == [m \in 1..k |-> list[m]]
    <3>1. f \in Injection(1..k, U)
      BY <1>2, <2>3 DEF Injection, IsInjective
    <3>2. f \in Surjection(1..k, U)
      BY <2>3, <2>4 DEF Surjection
    <3>3. f \in Bijection(1..k, U)
      BY <3>1, <3>2 DEF Bijection
    <3>4. QED
      BY <3>3 DEF ExistsBijection
  <2>6. Cardinality(U) = k
    BY <2>5, FS_CountingElements
  <2>7. QED
    BY <2>1, <2>2, <2>6 DEF Place
<1>7. QED
  BY <1>1, <1>2, <1>3, <1>6

(* The smaller of two numbers.                                             *)
LEMMA MinFacts ==
  ASSUME NEW a \in Int, NEW b \in Int
  PROVE  Min({a, b}) = IF a <= b THEN a ELSE b
<1>1. PICK m \in {a, b} : m = (IF a <= b THEN a ELSE b)
  OBVIOUS
<1>2. \A x \in {a, b} : (\A y \in {a, b} : x <= y) <=> x = m
  BY <1>1
<1>3. Min({a, b}) = m
  BY <1>2 DEF Min
<1>4. QED
  BY <1>1, <1>3

(* Before a page are a rows, up to its end b.                              *)
PageAt(page, size, a, b) == a = (page - 1) * size /\ b = page * size

(* Both are numbers, a page apart.                                         *)
LEMMA PageBounds ==
  ASSUME NEW page \in Nat \ {0}, NEW size \in Nat \ {0}
  PROVE  \E a \in Nat, b \in Nat : PageAt(page, size, a, b) /\ b = a + size
<1>1. (page - 1) * size = page * size - size
  OBVIOUS
<1>2. page - 1 \in Nat
  OBVIOUS
<1>3. \A x \in Nat, y \in Nat : x * y \in Nat
  OBVIOUS
<1>4. (page - 1) * size \in Nat /\ page * size \in Nat
  BY <1>2, <1>3
<1>5. QED
  BY <1>1, <1>4 DEF PageAt

(* And so are those of a given page.                                       *)
LEMMA PageAtFacts ==
  ASSUME NEW page \in Nat \ {0}, NEW size \in Nat \ {0}, NEW a, NEW b, PageAt(page, size, a, b)
  PROVE  a \in Nat /\ b \in Nat /\ b = a + size
<1>1. PICK c \in Nat, d \in Nat : PageAt(page, size, c, d) /\ d = c + size
  BY PageBounds
<1>2. a = c /\ b = d
  BY <1>1 DEF PageAt
<1>3. QED
  BY <1>1, <1>2

(* The rows before the next page are those up to the end of this one.      *)
LEMMA NextPage ==
  ASSUME NEW page \in Nat \ {0}, NEW size \in Nat \ {0}
  PROVE  (page + 1 - 1) * size = page * size
<1>1. page + 1 - 1 = page
  OBVIOUS
<1>2. QED
  BY <1>1

(* A sequence over a set is one over a larger set.                         *)
LEMMA SmallerSeq ==
  ASSUME NEW S, NEW T, S \subseteq T, NEW s \in Seq(S)
  PROVE  s \in Seq(T)
OBVIOUS

IsPageOf(p, list, S, a, b) ==
  /\ p \in Seq(S) /\ Len(p) \in Nat /\ DOMAIN p = 1..Len(p)
  /\ p = <<>> \/ a + Len(p) <= Len(list)
  /\ \A k \in 1..Len(p) : a + k \in 1..Len(list) /\ p[k] = list[a + k]
  /\ \A m \in 1..Len(list) : a < m /\ m <= b => \E k \in 1..Len(p) : p[k] = list[m]

(* A page of a list: a rows are before it, b up to its end.                *)
LEMMA PageLimitFacts ==
  ASSUME NEW S, NEW list \in Seq(S), NEW page \in Nat \ {0}, NEW size \in Nat \ {0},
         NEW a \in Nat, NEW b \in Nat, NEW p, PageAt(page, size, a, b), p = PageLimit(list, page, size)
  PROVE  IsPageOf(p, list, S, a, b)
<1>1. PICK n \in Nat : n = Len(list)
  OBVIOUS
<1>2. b = a + size
  BY PageAtFacts
<1>3. PICK e \in Nat : e = Min({a + size, n}) /\ e = (IF a + size <= n THEN a + size ELSE n)
  BY <1>2, MinFacts
<1>4. p = [k \in 1..(e - a) |-> list[a + k]]
  BY <1>1, <1>3 DEF PageLimit, PageAt
<1>5. \A k \in 1..(e - a) : a + k \in 1..n /\ list[a + k] \in S
  BY <1>2, <1>1, <1>3
<1>6. PICK l \in Nat : l = (IF e >= a THEN e - a ELSE 0)
  BY <1>3
<1>7. 1..(e - a) = 1..l
  BY <1>2, <1>3, <1>6
<1>8. p = [k \in 1..l |-> list[a + k]] /\ \A k \in 1..l : a + k \in 1..n /\ list[a + k] \in S
  BY <1>4, <1>5, <1>7
<1>9. p \in Seq(S) /\ Len(p) = l /\ DOMAIN p = 1..l
  <2>1. p \in [1..l -> S]
    BY <1>8
  <2>2. QED
    BY <2>1
<1>10. p = <<>> \/ a + l <= n
  <2>1. CASE l = 0
    BY <1>9, <2>1
  <2>2. CASE l # 0
    BY <1>2, <1>3, <1>6, <2>2
  <2>3. QED
    BY <2>1, <2>2
<1>11. ASSUME NEW m \in 1..n, a < m, m <= a + size
       PROVE  \E k \in 1..l : p[k] = list[m]
  <2>1. m - a \in 1..l
    BY <1>2, <1>3, <1>6, <1>11
  <2>2. a + (m - a) = m
    OBVIOUS
  <2>3. p[m - a] = list[m]
    BY <1>8, <2>1, <2>2
  <2>4. QED
    BY <2>1, <2>3
<1>12. \A m \in 1..n : a < m /\ m <= b => \E k \in 1..l : p[k] = list[m]
  BY <1>2, <1>11
<1>13. QED
  BY <1>2, <1>1, <1>8, <1>9, <1>10, <1>12 DEF IsPageOf

(* A client that is told there is no further page has come to the end.     *)
LEMMA LastPage ==
  ASSUME NEW page \in Nat \ {0}, NEW size \in Nat \ {0}, NEW total \in Nat,
         ~(page < MaxPage(size, total))
  PROVE  total <= page * size
<1>1. total \div size \in Int /\ total % size \in 0..(size - 1)
  OBVIOUS
<1>2. total = (size * (total \div size)) + (total % size)
  OBVIOUS
<1>3. PICK d \in Int, m \in Int : /\ d = total \div size /\ m = total % size
                                  /\ total = size * d + m /\ 0 <= m /\ m < size
  BY <1>1, <1>2
<1>4. CASE m = 0
  <2>1. d <= page
    BY <1>3, <1>4 DEF MaxPage
  <2>2. size * d <= size * page
    BY <2>1
  <2>3. QED
    BY <1>3, <1>4, <2>2
<1>5. CASE m # 0
  <2>1. d + 1 <= page
    BY <1>3, <1>5 DEF MaxPage
  <2>2. size * (d + 1) <= size * page
    BY <2>1
  <2>3. size * (d + 1) = size * d + size
    BY <1>3
  <2>4. QED
    BY <1>3, <2>2, <2>3
<1>6. QED
  BY <1>4, <1>5

(* The page of a set of positions in any order by their keys.              *)
LEMMA PageOfSet ==
  ASSUME PagesType, NEW S \in SUBSET DOMAIN table, NEW l \in OrderBy(S),
         NEW page \in Nat \ {0}, NEW size \in Nat \ {0}, NEW a \in Nat, NEW b \in Nat,
         NEW p, PageAt(page, size, a, b), p = PageLimit(l, page, size)
  PROVE  /\ p \in Seq(Nat) /\ ToSet(p) \subseteq S /\ IsInjective(p)
         /\ p = <<>> \/ a + Len(p) <= Cardinality(S)
         /\ \A i \in S : Sole(i, S) /\ a < Place(i, S) /\ Place(i, S) <= b => i \in ToSet(p)
<1>1. PICK n \in Nat : /\ l \in Seq(S) /\ n = Cardinality(S) /\ Len(l) = n
                       /\ \A j \in 1..n, k \in 1..n : l[j] = l[k] => j = k
                       /\ \A i \in S : Sole(i, S) => l[Place(i, S)] = i
  BY OrderFacts, PlaceFacts
<1>3. /\ p \in Seq(S) /\ Len(p) \in Nat /\ DOMAIN p = 1..Len(p)
      /\ p = <<>> \/ a + Len(p) <= n
      /\ \A k \in 1..Len(p) : a + k \in 1..n /\ p[k] = l[a + k]
      /\ \A m \in 1..n : a < m /\ m <= b => \E k \in 1..Len(p) : p[k] = l[m]
  <2>1. IsPageOf(p, l, S, a, b)
    BY <1>1, PageLimitFacts
  <2>2. QED
    BY <1>1, <2>1 DEF IsPageOf
<1>4. ToSet(p) \subseteq S
  BY <1>3 DEF ToSet
<1>5. IsInjective(p)
  <2>1. SUFFICES ASSUME NEW j \in 1..Len(p), NEW k \in 1..Len(p), p[j] = p[k] PROVE j = k
    BY <1>3 DEF IsInjective
  <2>2. a + j \in 1..n /\ a + k \in 1..n /\ l[a + j] = l[a + k]
    BY <1>3, <2>1
  <2>3. a + j = a + k
    BY <1>1, <2>2
  <2>4. QED
    BY <1>3, <2>3
<1>6. ASSUME NEW i \in S, Sole(i, S), a < Place(i, S), Place(i, S) <= b PROVE i \in ToSet(p)
  <2>1. Place(i, S) \in 1..n
    BY <1>1, PlaceFacts
  <2>2. PICK k \in 1..Len(p) : p[k] = l[Place(i, S)]
    BY <1>3, <1>6, <2>1
  <2>3. p[k] = i
    BY <1>1, <1>6, <2>2
  <2>4. QED
    BY <1>3, <2>3 DEF ToSet
<1>7. p \in Seq(Nat)
  <2>1. S \subseteq Nat
    BY Positions DEF PagesType
  <2>2. QED
    BY <1>3, <2>1, SmallerSeq
<1>8. QED
  BY <1>1, <1>3, <1>4, <1>5, <1>6, <1>7

-----------------------------------------------------------------------------
(* The rows of a list are finitely many positions.                         *)
LEMMA MatchingFacts ==
  ASSUME PagesType, NEW q
  PROVE  /\ Matching(q) \in SUBSET Nat /\ IsFiniteSet(Matching(q)) /\ Matching(q) \subseteq DOMAIN table
         /\ Cardinality(Matching(q)) \in Nat
<1>1. Matching(q) \in SUBSET DOMAIN table
  BY DEF Matching, Live
<1>2. Matching(q) \in SUBSET Nat /\ IsFiniteSet(Matching(q)) /\ Cardinality(Matching(q)) \in Nat
  BY <1>1, Positions, FS_CardinalityType DEF PagesType
<1>3. QED
  BY <1>1, <1>2

(* The number of rows of a list.                                           *)
LEMMA CountAllFacts ==
  ASSUME PagesType, NEW q
  PROVE  /\ CountAll(q) \in Nat
         /\ q.of = "runtimeTransactions" => CountAll(q) <= MaxSizeLimit
         /\ CountAll(q) = Cardinality(Matching(q)) \/ Parted(q)
              \/ (q.of = "runtimeTransactions" /\ CountAll(q) = MaxSizeLimit /\ Cardinality(Matching(q)) >= MaxSizeLimit)
<1>1. PICK n \in Nat : n = Cardinality(Matching(q))
  BY MatchingFacts
<1>2. CASE q.of = "transactions"
  <2>1. CountAll(q) = Cardinality({i \in Live : CountTxs(q, table[i])})
    BY <1>2 DEF CountAll
  <2>2. Cardinality({i \in Live : CountTxs(q, table[i])}) \in Nat
    <3>1. Len(table) \in Nat /\ DOMAIN table = 1..Len(table)
      BY DEF PagesType
    <3>2. IsFiniteSet(DOMAIN table)
      BY <3>1, FS_Interval
    <3>3. {i \in Live : CountTxs(q, table[i])} \in SUBSET DOMAIN table
      BY DEF Live
    <3>4. QED
      BY <3>2, <3>3, FS_Subset, FS_CardinalityType
  <2>3. ASSUME ~Parted(q)
        PROVE  {i \in Live : CountTxs(q, table[i])} = Matching(q)
    <3>1. ASSUME NEW i \in Live PROVE CountTxs(q, table[i]) <=> Found(q, table[i])
      <4>1. q.runtime => q.method = None
        BY <1>2, <2>3 DEF Parted
      <4>2. Found(q, table[i]) <=> FindTxs(q, table[i])
        BY <1>2 DEF Found
      <4>3. CountTxs(q, table[i]) <=> FindTxs(q, table[i])
        BY <4>1 DEF CountTxs, FindTxs, Touches, Is
      <4>4. QED
        BY <4>2, <4>3
    <3>2. QED
      BY <3>1 DEF Matching
  <2>4. QED
    BY <1>2, <2>1, <2>2, <2>3
<1>3. CASE q.of = "runtimeTransactions"
  <2>1. CountAll(q) = Min({n, MaxSizeLimit})
    BY <1>1, <1>3 DEF CountAll
  <2>2. MaxSizeLimit \in Nat
    BY PageAssumption
  <2>3. CountAll(q) = IF n <= MaxSizeLimit THEN n ELSE MaxSizeLimit
    BY <2>1, <2>2, MinFacts
  <2>4. QED
    BY <1>1, <1>3, <2>2, <2>3
<1>4. CASE q.of \notin {"transactions", "runtimeTransactions"}
  BY <1>1, <1>4 DEF CountAll
<1>5. QED
  BY <1>2, <1>3, <1>4

(* The page of a list.                                                     *)
LEMMA PageOfFacts ==
  ASSUME NEW q \in Requests, NEW page \in Nat \ {0}, NEW a \in Nat, NEW b \in Nat, NEW p \in PagesOf(q, page),
         PagesType, PageAt(page, q.size, a, b)
  PROVE  /\ p \in Seq(Nat) /\ IsInjective(p)
         /\ p = <<>> \/ a + Len(p) <= Cardinality(Matching(q))
         /\ q.of # "stakingEvents" =>
              \A i \in Matching(q) :
                Sole(i, Matching(q)) /\ a < Place(i, Matching(q)) /\ Place(i, Matching(q)) <= b => i \in ToSet(p)
<1>1. PICK S \in SUBSET DOMAIN table, size \in Nat \ {0} : S = Matching(q) /\ IsFiniteSet(S) /\ size = q.size
  BY MatchingFacts, RequestAssumption
<1>2. PageAt(page, size, a, b)
  BY <1>1
<1>3. CASE q.of # "stakingEvents"
  <2>1. PICK l \in OrderBy(S) : p = PageLimit(l, page, size)
    BY <1>1, <1>3 DEF PagesOf, Listings
  <2>2. QED
    BY <1>1, <1>2, <2>1, PageOfSet
<1>4. CASE q.of = "stakingEvents"
  <2>1. PICK F \in SUBSET S, T \in SUBSET S : F = EventsFrom(q) /\ T = EventsTo(q)
    BY <1>1 DEF EventsFrom, EventsTo
  <2>2. PICK l \in StakingEvents(q) : p = PageLimit(l, page, size)
    BY <1>1, <1>4 DEF PagesOf, Listings
  <2>3. PICK f \in FirstPage(F, size), t \in FirstPage(T, size) : l \in OrderBy(f \cup t)
    <3>1. \E f \in FirstPage(EventsFrom(q), q.size), t \in FirstPage(EventsTo(q), q.size) :
            l \in OrderBy(f \cup t)
      BY <2>2 DEF StakingEvents
    <3>2. QED
      BY <1>1, <2>1, <3>1
  <2>4. PICK B \in SUBSET S : B = f \cup t
    <3>1. PICK one \in Nat \ {0} : one = 1
      OBVIOUS
    <3>2. PICK c \in Nat, d \in Nat : PageAt(one, size, c, d)
      BY PageBounds
    <3>3. PICK m \in OrderBy(F) : f = ToSet(PageLimit(m, one, size))
      BY <3>1 DEF FirstPage
    <3>4. F \in SUBSET DOMAIN table /\ T \in SUBSET DOMAIN table
      BY <1>1
    <3>5. f \subseteq F
      BY <3>2, <3>3, <3>4, PageOfSet
    <3>6. PICK k \in OrderBy(T) : t = ToSet(PageLimit(k, one, size))
      BY <3>1 DEF FirstPage
    <3>7. t \subseteq T
      BY <3>2, <3>4, <3>6, PageOfSet
    <3>8. QED
      BY <3>5, <3>7
  <2>5. /\ Cardinality(B) \in Nat /\ Cardinality(S) \in Nat /\ Cardinality(B) <= Cardinality(S)
        /\ B \in SUBSET DOMAIN table
    BY <1>1, <2>4, FS_Subset, FS_CardinalityType
  <2>6. p \in Seq(Nat) /\ IsInjective(p) /\ (p = <<>> \/ a + Len(p) <= Cardinality(B))
    BY <1>2, <2>2, <2>3, <2>4, <2>5, PageOfSet
  <2>7. p = <<>> \/ a + Len(p) <= Cardinality(S)
    <3>1. Len(p) \in Nat
      BY <2>6
    <3>2. QED
      BY <2>5, <2>6, <3>1
  <2>8. QED
    BY <1>1, <1>4, <2>6, <2>7
<1>5. QED
  BY <1>3, <1>4

-----------------------------------------------------------------------------
(* The jobs.                                                               *)

(* A row that is stored is at the end, the others stay where they are.     *)
LEMMA StoreFacts ==
  ASSUME PagesType, NEW r \in Rows, Store(r)
  PROVE  /\ PagesType' /\ reader' = reader
         /\ DOMAIN table \subseteq DOMAIN table' /\ Live \subseteq Live'
         /\ \A i \in DOMAIN table : table'[i] = table[i] /\ (i \in Live' => i \in Live)
         /\ \A i \in DOMAIN table' : i \in DOMAIN table \/ (i = Len(table) + 1 /\ table'[i] = r)
         /\ DOMAIN table = 1..Len(table) /\ Len(table) \in Nat
<1>1. table' = Append(table, r) /\ deleted' = deleted /\ reader' = reader
  BY DEF Store
<1>2. table \in Seq(Rows) /\ Len(table) \in Nat /\ DOMAIN table = 1..Len(table)
  BY DEF PagesType
<1>3. table' \in Seq(Rows) /\ DOMAIN table' = 1..(Len(table) + 1)
  BY <1>1, <1>2
<1>4. \A i \in DOMAIN table' : table'[i] = IF i = Len(table) + 1 THEN r ELSE table[i]
  BY <1>1, <1>2, <1>3
<1>5. \A i \in DOMAIN table : i \in DOMAIN table' /\ i # Len(table) + 1
  BY <1>2, <1>3
<1>6. \A i \in DOMAIN table' : i \in DOMAIN table \/ i = Len(table) + 1
  BY <1>2, <1>3
<1>7. PagesType'
  BY <1>1, <1>3, <1>5 DEF PagesType
<1>8. Live \subseteq Live' /\ \A i \in DOMAIN table : i \in Live' => i \in Live
  BY <1>1, <1>5 DEF Live
<1>9. QED
  BY <1>1, <1>2, <1>4, <1>5, <1>6, <1>7, <1>8

(* The heights stay bounded, and a round is not stored again.              *)
LEMMA TableStored ==
  ASSUME PagesType, TableInv, NEW r \in Rows, Store(r)
  PROVE  TableInv'
<1>1. /\ DOMAIN table \subseteq DOMAIN table'
      /\ \A i \in DOMAIN table : table'[i] = table[i]
      /\ \A i \in DOMAIN table' : i \in DOMAIN table \/ (i = Len(table) + 1 /\ table'[i] = r)
  BY StoreFacts
<1>2. PICK b \in Nat : \A h \in Heights("transaction") : h <= b
  BY DEF TableInv
<1>3. r.at \in Nat
  BY RowAssumption
<1>4. \A i \in DOMAIN table : table[i].at \in Nat /\ table[i].at \in Heights(table[i].table)
  BY RowType DEF Heights
<1>5. ASSUME NEW i \in DOMAIN table', table'[i].table = "transaction"
      PROVE  table'[i].at <= b + r.at
  <2>1. CASE i \in DOMAIN table
    <3>1. table[i].at <= b /\ table[i].at \in Nat
      BY <1>1, <1>2, <1>4, <1>5, <2>1
    <3>2. QED
      BY <1>1, <1>3, <2>1, <3>1
  <2>2. CASE i \notin DOMAIN table
    BY <1>1, <1>3, <2>2
  <2>3. QED
    BY <2>1, <2>2
<1>6. \A h \in Heights("transaction")' : h <= b + r.at
  BY <1>5 DEF Heights
<1>7. b + r.at \in Nat
  BY <1>3
<1>8. r.table = "runtime_round" => \A i \in DOMAIN table : table[i].table = "runtime_round" => table[i].key # r.key
  BY DEF Store, Unique
<1>9. \A i \in DOMAIN table', j \in DOMAIN table' :
        table'[i].table = "runtime_round" /\ table'[j].table = "runtime_round" /\ table'[i].key = table'[j].key
          => i = j
  BY <1>1, <1>8 DEF TableInv
<1>10. QED
  BY <1>6, <1>7, <1>9 DEF TableInv

(* Only the lists of what is recent depend on other rows.                  *)
LEMMA FoundSame ==
  ASSUME NEW q, NEW x, table' = table \/ (q.of # "proposedBlocks" /\ ~(q.of = "transactions" /\ Unfiltered(q)))
  PROVE  Found(q, x)' <=> Found(q, x)
<1>1. CASE table' = table
  <2>1. Heights("transaction")' = Heights("transaction") /\ Heights("block")' = Heights("block")
    BY <1>1 DEF Heights
  <2>2. Recent("transaction", x)' <=> Recent("transaction", x)
    BY <2>1 DEF Recent
  <2>3. Recent("block", x)' <=> Recent("block", x)
    BY <2>1 DEF Recent
  <2>4. Transaction(q, x)' <=> Transaction(q, x)
    BY <2>2 DEF Transaction
  <2>5. FindTxs(q, x)' <=> FindTxs(q, x)
    BY <2>4 DEF FindTxs
  <2>6. FindBlocksByValidator(q, x)' <=> FindBlocksByValidator(q, x)
    BY <2>3 DEF FindBlocksByValidator
  <2>7. QED
    BY <2>5, <2>6 DEF Found
<1>2. CASE q.of # "proposedBlocks" /\ ~(q.of = "transactions" /\ Unfiltered(q))
  <2>1. CASE q.of # "transactions"
    BY <1>2, <2>1 DEF Found
  <2>2. CASE q.of = "transactions"
    <3>1. Transaction(q, x)' <=> Transaction(q, x)
      BY <1>2, <2>2 DEF Transaction
    <3>2. FindTxs(q, x)' <=> FindTxs(q, x)
      BY <3>1 DEF FindTxs
    <3>3. QED
      BY <2>2, <3>2 DEF Found
  <2>3. QED
    BY <2>1, <2>2
<1>3. QED
  BY <1>1, <1>2

(* A list depends on the rows that are there only.                         *)
LEMMA MatchingSame ==
  ASSUME NEW q, table' = table, deleted' = deleted
  PROVE  Matching(q)' = Matching(q)
<1>1. Live' = Live
  BY DEF Live
<1>2. \A i \in Live : Found(q, table[i])' <=> Found(q, table[i])
  <2>1. ASSUME NEW i \in Live PROVE Found(q, table[i])' <=> Found(q, table[i])
    <3>1. PICK x : x = table[i] /\ x = table'[i]
      OBVIOUS
    <3>2. Found(q, x)' <=> Found(q, x)
      BY FoundSame
    <3>3. QED
      BY <3>1, <3>2
  <2>2. QED
    BY <2>1
<1>3. QED
  BY <1>1, <1>2 DEF Matching

(* A larger set has a greater maximum.                                     *)
LEMMA MaxGrows ==
  ASSUME NEW S \in SUBSET Int, NEW T \in SUBSET Int, S \subseteq T, S # {}, NEW b \in Int, \A x \in T : x <= b
  PROVE  Max(S) \in Int /\ Max(T) \in Int /\ Max(S) <= Max(T)
<1>1. T # {} /\ \A x \in S : x <= b
  OBVIOUS
<1>2. Max(S) \in S
  BY <1>1, GreatestExists
<1>3. Max(T) \in T /\ \A x \in T : x <= Max(T)
  BY <1>1, GreatestExists
<1>4. QED
  BY <1>2, <1>3

(* The rows of list T that were there were of list S, and none behind them has left. *)
Follows(T, S) ==
  \A i \in T \cap DOMAIN table : i \in S /\ \A j \in S : table[j].key >= table[i].key => j \in T

(* A row that is stored adds to a list, or moves the window of what is recent. *)
LEMMA StoreAdds ==
  ASSUME PagesType, NEW r \in Rows, Store(r), NEW q,
         q.of # "proposedBlocks", ~(q.of = "transactions" /\ Unfiltered(q))
  PROVE  Matching(q) \subseteq Matching(q)' /\ Follows(Matching(q)', Matching(q))
<1>1. /\ Live \subseteq Live'
      /\ \A i \in DOMAIN table : table'[i] = table[i] /\ (i \in Live' => i \in Live)
  BY StoreFacts
<1>2. \A x : Found(q, x)' <=> Found(q, x)
  BY FoundSame
<1>3. ASSUME NEW i \in DOMAIN table PROVE Found(q, table[i])' <=> Found(q, table[i])
  <2>1. PICK x : x = table[i] /\ x = table'[i]
    BY <1>1
  <2>2. Found(q, x)' <=> Found(q, x)
    BY <1>2
  <2>3. QED
    BY <2>1, <2>2
<1>4. Matching(q) \subseteq Matching(q)'
  BY <1>1, <1>3 DEF Matching, Live
<1>5. \A i \in Matching(q)' : i \in DOMAIN table => i \in Matching(q)
  BY <1>1, <1>3 DEF Matching
<1>6. QED
  BY <1>4, <1>5 DEF Follows

(* What the list of recent transactions shows.                             *)
LEMMA RecentFound ==
  ASSUME NEW q, NEW x, q.of = "transactions", Unfiltered(q), ~Mixed(q)
  PROVE  Found(q, x) <=> x.table = "transaction" /\ Recent("transaction", x)
<1>1. ~q.runtime /\ q.at = None /\ q.address = None /\ q.method = None
  BY DEF Mixed, Unfiltered
<1>2. Found(q, x) <=> Transaction(q, x)
  BY <1>1 DEF Found, FindTxs
<1>3. Transaction(q, x) <=> x.table = "transaction" /\ Recent("transaction", x)
  BY <1>1 DEF Transaction, Is, SignedOrPaid
<1>4. QED
  BY <1>2, <1>3

(* What is of a later height or epoch has a greater key.                   *)
LEMMA LaterKey ==
  ASSUME PagesType, NEW i \in DOMAIN table, NEW j \in DOMAIN table,
         table[i].table = table[j].table, table[i].table \in {"transaction", "reward"},
         table[j].key >= table[i].key
  PROVE  ~(table[j].at < table[i].at)
<1>1. PICK r \in Rows, s \in Rows : r = table[j] /\ s = table[i] /\ r.key \in Nat /\ s.key \in Nat
  BY RowType
<1>2. r.at < s.at => r.key < s.key
  BY <1>1, RowAssumption
<1>3. QED
  BY <1>1, <1>2

(* The window moves on: what leaves the recent list is at its end.         *)
LEMMA StoreMoves ==
  ASSUME PagesType, TableInv, NEW r \in Rows, Store(r), NEW q,
         q.of = "transactions", Unfiltered(q), ~Mixed(q)
  PROVE  Follows(Matching(q)', Matching(q))
<1>1. /\ DOMAIN table \subseteq DOMAIN table' /\ Live \subseteq Live' /\ Live \subseteq DOMAIN table
      /\ \A i \in DOMAIN table : table'[i] = table[i] /\ (i \in Live' => i \in Live)
      /\ DOMAIN table = 1..Len(table)
  BY StoreFacts DEF Live
<1>2. TableInv' /\ PagesType'
  BY TableStored, StoreFacts
<1>3. PICK S, T : S = Heights("transaction") /\ T = Heights("transaction")'
  OBVIOUS
<1>4. S \in SUBSET Int /\ T \in SUBSET Int /\ S \subseteq T
  <2>1. \A i \in DOMAIN table : table[i].at \in Nat
    BY RowType
  <2>2. \A i \in DOMAIN table' : table'[i].at \in Nat
    BY <1>2, RowAssumption DEF PagesType
  <2>3. QED
    BY <1>1, <1>3, <2>1, <2>2 DEF Heights
<1>5. PICK b \in Int : \A h \in T : h <= b
  BY <1>2, <1>3 DEF TableInv
<1>6. ASSUME NEW i \in DOMAIN table
      PROVE  (i \in Matching(q) <=> i \in Live /\ table[i].table = "transaction" /\ table[i].at > Max(S) - Window)
  <2>1. Found(q, table[i]) <=> table[i].table = "transaction" /\ Recent("transaction", table[i])
    BY RecentFound
  <2>2. QED
    BY <1>3, <2>1 DEF Matching, Recent
<1>7. ASSUME NEW i \in DOMAIN table
      PROVE  (i \in Matching(q)' <=> i \in Live' /\ table[i].table = "transaction" /\ table[i].at > Max(T) - Window)
  <2>1. PICK x : x = table[i] /\ x = table'[i]
    BY <1>1
  <2>2. Found(q, x)' <=> x.table = "transaction" /\ Recent("transaction", x)'
    <3>1. ~q.runtime /\ q.at = None /\ q.address = None /\ q.method = None
      BY DEF Mixed, Unfiltered
    <3>2. Found(q, x)' <=> Transaction(q, x)'
      BY <3>1 DEF Found, FindTxs
    <3>3. Transaction(q, x)' <=> x.table = "transaction" /\ Recent("transaction", x)'
      BY <3>1 DEF Transaction, Is, SignedOrPaid, Unfiltered
    <3>4. QED
      BY <3>2, <3>3
  <2>3. Recent("transaction", x)' <=> x.at > Max(T) - Window
    BY <1>3 DEF Recent
  <2>4. QED
    BY <2>1, <2>2, <2>3 DEF Matching
<1>8. ASSUME NEW i \in DOMAIN table, i \in Matching(q)'
      PROVE  i \in Matching(q) /\ \A j \in Matching(q) : table[j].key >= table[i].key => j \in Matching(q)'
  <2>1. i \in Live /\ table[i].table = "transaction" /\ table[i].at > Max(T) - Window
    BY <1>1, <1>7, <1>8
  <2>2. table[i].at \in S
    BY <1>3, <2>1 DEF Heights
  <2>3. Max(S) \in Int /\ Max(T) \in Int /\ Max(S) <= Max(T)
    BY <1>4, <1>5, <2>2, MaxGrows
  <2>4. table[i].at \in Int /\ Window \in Int
    BY RowType, PageAssumption
  <2>5. i \in Matching(q)
    <3>1. table[i].at > Max(S) - Window
      BY <2>1, <2>3, <2>4
    <3>2. QED
      BY <1>6, <2>1, <3>1
  <2>6. ASSUME NEW j \in Matching(q), table[j].key >= table[i].key PROVE j \in Matching(q)'
    <3>1. j \in DOMAIN table
      BY <1>1 DEF Matching
    <3>2. j \in Live' /\ table[j].table = "transaction"
      BY <1>1, <1>6, <3>1
    <3>3. table[j].at \in Int /\ table[i].at \in Int
      BY <3>1, RowType
    <3>4. table[i].at <= table[j].at
      <4>1. ~(table[j].at < table[i].at)
        BY <2>1, <2>6, <3>1, <3>2, LaterKey
      <4>2. QED
        BY <3>3, <4>1
    <3>5. table[j].at \in Int
      BY <3>3
    <3>6. table[j].at > Max(T) - Window
      BY <2>1, <2>3, <2>4, <3>4, <3>5
    <3>7. QED
      BY <1>7, <3>1, <3>2, <3>6
  <2>7. QED
    BY <2>5, <2>6
<1>9. QED
  BY <1>8 DEF Follows

(* The rewards that are deleted are those of the oldest epochs.            *)
LEMMA DeleteMoves ==
  ASSUME PagesType, NEW q, q.of = "rewards", DeleteBeforeEpoch
  PROVE  Follows(Matching(q)', Matching(q))
<1>1. PICK h \in Heights("reward") :
        deleted' = deleted \cup {i \in Live : table[i].table = "reward" /\ table[i].at <= h}
  BY DEF DeleteBeforeEpoch
<1>2. table' = table /\ Live \subseteq DOMAIN table
  BY DEF DeleteBeforeEpoch, Live
<1>3. h \in Nat
  BY RowType DEF Heights
<1>4. ASSUME NEW i \in Live PROVE (Found(q, table[i]) => table[i].table = "reward") /\ (Found(q, table[i])' <=> Found(q, table[i]))
  <2>1. PICK x : x = table[i] /\ x = table'[i]
    BY <1>2
  <2>2. Found(q, x)' <=> Found(q, x)
    BY <1>2, FoundSame
  <2>3. Found(q, x) => x.table = "reward"
    BY DEF Found, FindByDelegator
  <2>4. QED
    BY <2>1, <2>2, <2>3
<1>5. Live' = {i \in Live : ~(table[i].table = "reward" /\ table[i].at <= h)}
  BY <1>1, <1>2 DEF Live
<1>6. Matching(q)' = {i \in Matching(q) : ~(table[i].at <= h)}
  BY <1>2, <1>4, <1>5 DEF Matching
<1>7. ASSUME NEW i \in Matching(q)', NEW j \in Matching(q), table[j].key >= table[i].key PROVE j \in Matching(q)'
  <2>1. i \in Matching(q) /\ ~(table[i].at <= h)
    BY <1>6
  <2>2. /\ i \in DOMAIN table /\ j \in DOMAIN table
        /\ table[i].table = "reward" /\ table[j].table = "reward"
    BY <1>2, <1>4, <2>1 DEF Matching
  <2>3. ~(table[j].at < table[i].at)
    BY <1>7, <2>2, LaterKey
  <2>4. table[i].at \in Nat /\ table[j].at \in Nat
    BY <2>2, RowType
  <2>5. ~(table[j].at <= h)
    BY <1>3, <2>1, <2>3, <2>4
  <2>6. QED
    BY <1>6, <2>5
<1>8. QED
  BY <1>6, <1>7 DEF Follows

(* What follows keeps its place or moves back.                             *)
LEMMA PlaceGrows ==
  ASSUME PagesType, PagesType', NEW S \in SUBSET DOMAIN table, NEW T \in SUBSET DOMAIN table', NEW i \in S,
         \A j \in DOMAIN table : j \in DOMAIN table' /\ table'[j] = table[j],
         \A j \in S : table[j].key >= table[i].key => j \in T
  PROVE  \E a \in Nat, b \in Nat :
           a <= b /\ Place(i, S) = a /\ Cardinality({j \in T : table'[j].key >= table'[i].key}) = b
<1>1. PICK U \in SUBSET S, V \in SUBSET T :
        U = {j \in S : table[j].key >= table[i].key} /\ V = {j \in T : table'[j].key >= table'[i].key}
  OBVIOUS
<1>2. IsFiniteSet(T)
  BY Positions DEF PagesType
<1>3. U \in SUBSET V
  <2>1. ASSUME NEW j \in U PROVE j \in V
    <3>1. j \in S /\ j \in T /\ table[j].key >= table[i].key
      BY <1>1
    <3>2. table'[j] = table[j] /\ table'[i] = table[i]
      BY <3>1
    <3>3. QED
      BY <1>1, <3>1, <3>2
  <2>2. QED
    BY <2>1
<1>4. IsFiniteSet(V)
  BY <1>2, FS_Subset
<1>5. IsFiniteSet(U) /\ Cardinality(U) <= Cardinality(V) /\ Cardinality(U) \in Nat /\ Cardinality(V) \in Nat
  BY <1>3, <1>4, FS_Subset, FS_CardinalityType
<1>6. QED
  BY <1>1, <1>5 DEF Place

(* The numbers of the client.                                              *)
LEMMA ReaderNumbers ==
  ASSUME PagesType
  PROVE  /\ Asked \in Requests /\ Asked.size \in Nat \ {0}
         /\ reader.page \in Nat /\ reader.total \in Nat
         /\ Before \in Int /\ UpTo \in Int
<1>1. Asked \in Requests /\ reader.page \in Nat /\ reader.total \in Nat
  BY DEF PagesType, ReaderType, Asked
<1>2. PICK p \in Nat, s \in Nat \ {0} : p = reader.page /\ s = Asked.size
  BY <1>1, RequestAssumption
<1>3. p * s \in Int /\ (p - 1) * s \in Int
  <2>1. \A x \in Int, y \in Int : x * y \in Int
    OBVIOUS
  <2>2. QED
    BY <2>1
<1>4. QED
  BY <1>1, <1>2, <1>3 DEF Before, UpTo

(* A walk bears every change that leaves what it has yet to see in place.  *)
LEMMA WalkKeeps ==
  ASSUME PagesType, PagesType', WalkInv, reader' = reader, Walks' => Walks,
         \A j \in DOMAIN table : j \in DOMAIN table' /\ table'[j] = table[j],
         Walks' => Follows(Matching(Asked)', Matching(Asked))
  PROVE  WalkInv'
<1>1. SUFFICES ASSUME Walks', NEW i \in reader.start, i \in Matching(Asked)', Alone(i)' PROVE ToCome(i)'
  BY DEF WalkInv
<1>2. PICK S \in SUBSET DOMAIN table, T \in SUBSET DOMAIN table' : S = Matching(Asked) /\ T = Matching(Asked)'
  BY DEF Matching, Live
<1>3. i \in DOMAIN table
  BY DEF PagesType
<1>4. i \in S /\ \A j \in S : table[j].key >= table[i].key => j \in T
  BY <1>1, <1>2, <1>3 DEF Follows
<1>5. PICK a \in Nat, b \in Nat :
        a <= b /\ Place(i, S) = a /\ Cardinality({j \in T : table'[j].key >= table'[i].key}) = b
  BY <1>4, PlaceGrows
<1>6. Alone(i)
  <2>1. \A j \in T : table'[j].key = table'[i].key => j = i
    BY <1>1, <1>2 DEF Alone
  <2>2. ASSUME NEW j \in S, table[j].key = table[i].key PROVE j = i
    <3>1. table[j].key \in Nat /\ table[i].key \in Nat
      BY <1>3, RowType
    <3>2. j \in T
      BY <1>4, <2>2, <3>1
    <3>3. table'[j] = table[j] /\ table'[i] = table[i]
      BY <1>3
    <3>4. QED
      BY <2>1, <2>2, <3>2, <3>3
  <2>3. QED
    BY <1>2, <2>2 DEF Alone
<1>7. ToCome(i)
  BY <1>1, <1>2, <1>4, <1>6 DEF WalkInv
<1>8. PICK u \in Int, v \in Int, m \in Nat : u = Before /\ v = UpTo /\ m = reader.total
  BY ReaderNumbers
<1>9. Before' = u /\ UpTo' = v
  BY <1>8 DEF Before, UpTo, Asked
<1>10. /\ reader.pc = "done" => i \in reader.seen
       /\ reader.pc # "done" => i \in reader.seen \/ a > u
       /\ reader.pc \in {"count", "reply"} =>
            \/ i \in reader.seen \cup ToSet(reader.list)
            \/ a > v /\ (reader.pc = "reply" => reader.total > v)
  BY <1>2, <1>5, <1>7, <1>8 DEF ToCome
<1>11. (a > u => b > u) /\ (a > v => b > v)
  BY <1>5, <1>8
<1>12. Place(i, Matching(Asked))' = b
  BY <1>2, <1>5 DEF Place
<1>13. QED
  BY <1>9, <1>10, <1>11, <1>12 DEF ToCome

-----------------------------------------------------------------------------
(* Every step.                                                             *)

(* What the jobs do to the lists and their walks.                          *)
LEMMA StorePages ==
  ASSUME PagesInv, NEW r \in Rows, Store(r)
  PROVE  PagesInv'
<1>1. PagesType /\ TableInv /\ CoverInv /\ WalkInv
  BY DEF PagesInv
<1>2. PagesType' /\ reader' = reader /\ TableInv'
  BY <1>1, StoreFacts, TableStored
<1>3. PICK q : q = Asked /\ q = Asked'
  BY <1>2 DEF Asked
<1>4. ASSUME q.of # "proposedBlocks", ~(q.of = "transactions" /\ Unfiltered(q))
      PROVE  /\ Matching(q) \subseteq Matching(q)' /\ Follows(Matching(q)', Matching(q))
             /\ Cardinality(Matching(q)) <= Cardinality(Matching(q)')
             /\ Cardinality(Matching(q)) \in Nat /\ Cardinality(Matching(q)') \in Nat
  <2>1. Matching(q) \subseteq Matching(q)' /\ Follows(Matching(q)', Matching(q))
    BY <1>1, <1>4, StoreAdds
  <2>2. IsFiniteSet(Matching(q)')
    <3>1. table' \in Seq(Rows)
      BY <1>2 DEF PagesType
    <3>2. Matching(q)' \in SUBSET DOMAIN table'
      BY DEF Matching, Live
    <3>3. QED
      BY <3>1, <3>2, Positions
  <2>3. Matching(q) \in SUBSET (Matching(q)')
    BY <2>1
  <2>4. QED
    BY <2>1, <2>2, <2>3, FS_Subset, FS_CardinalityType
<1>5. CoverInv'
  <2>1. Before' = Before
    BY <1>2 DEF Before, Asked
  <2>2. CountCoversPage'
    BY <1>1, <1>2 DEF CoverInv, CountCoversPage, Asked
  <2>3. reader.pc = "count" => Asked.of \notin {"blocks", "proposedBlocks", "delegations", "debonding"}
    BY <1>1 DEF CoverInv
  <2>4. ASSUME reader.pc = "count", q.of # "rewards", ~Parted(q)
        PROVE  /\ IsInjective(reader.list)
               /\ \/ reader.list = <<>>
                  \/ Before + Len(reader.list) <= Cardinality(Matching(q)')
                  \/ q.of = "transactions" /\ Unfiltered(q)
    <3>1. /\ IsInjective(reader.list)
          /\ \/ reader.list = <<>>
             \/ Before + Len(reader.list) <= Cardinality(Matching(q))
             \/ q.of = "transactions" /\ Unfiltered(q)
      BY <1>1, <1>3, <2>4 DEF CoverInv
    <3>2. q.of # "proposedBlocks"
      BY <1>3, <2>3, <2>4
    <3>3. Before \in Int /\ Len(reader.list) \in Nat
      BY <1>1, ReaderNumbers DEF PagesType, ReaderType
    <3>4. CASE q.of = "transactions" /\ Unfiltered(q)
      BY <3>1, <3>4
    <3>5. CASE ~(q.of = "transactions" /\ Unfiltered(q))
      BY <1>4, <3>1, <3>2, <3>3, <3>5
    <3>6. QED
      BY <3>4, <3>5
  <2>5. QED
    BY <1>2, <1>3, <2>1, <2>2, <2>3, <2>4 DEF CoverInv
<1>6. WalkInv'
  <2>1. ASSUME Walks' PROVE Walks /\ Follows(Matching(q)', Matching(q))
    <3>1. /\ q.of \in {"transactions", "escrowEvents", "rounds", "rewards", "runtimeTransactions"}
          /\ ~Parted(q) /\ ~Mixed(q)
          /\ q.of = "runtimeTransactions" => Cardinality(Matching(q)') <= MaxSizeLimit
      BY <1>3, <2>1 DEF Walks
    <3>2. Follows(Matching(q)', Matching(q))
      BY <1>1, <1>4, <3>1, StoreMoves
    <3>3. q.of = "runtimeTransactions" => Cardinality(Matching(q)) <= MaxSizeLimit
      <4>1. MaxSizeLimit \in Nat
        BY PageAssumption
      <4>2. QED
        BY <1>4, <3>1, <4>1
    <3>4. QED
      BY <1>3, <3>1, <3>2, <3>3 DEF Walks
  <2>2. \A j \in DOMAIN table : j \in DOMAIN table' /\ table'[j] = table[j]
    BY <1>1, StoreFacts
  <2>3. QED
    BY <1>1, <1>2, <1>3, <2>1, <2>2, WalkKeeps
<1>7. QED
  BY <1>2, <1>5, <1>6 DEF PagesInv

(* Rows are deleted: the oldest rewards, or any of what is not walked.     *)
LEMMA DeletePages ==
  ASSUME PagesInv, DeleteBeforeEpoch \/ Withdraw
  PROVE  PagesInv'
<1>1. PagesType /\ TableInv /\ CoverInv /\ WalkInv
  BY DEF PagesInv
<1>2. /\ table' = table /\ reader' = reader /\ Asked.of \in {"rewards", "delegations", "debonding"}
      /\ deleted' \subseteq DOMAIN table
  BY <1>1 DEF DeleteBeforeEpoch, Withdraw, PagesType, Live
<1>3. PICK q : q = Asked /\ q = Asked'
  BY <1>2 DEF Asked
<1>4. PagesType'
  BY <1>1, <1>2 DEF PagesType
<1>5. TableInv'
  BY <1>1, <1>2 DEF TableInv, Heights
<1>6. CoverInv'
  <2>1. CountCoversPage'
    BY <1>1, <1>2 DEF CoverInv, CountCoversPage, Asked
  <2>2. reader.pc = "count" => Asked.of = "rewards"
    BY <1>1, <1>2 DEF CoverInv
  <2>3. QED
    BY <1>2, <1>3, <2>1, <2>2 DEF CoverInv
<1>7. Walks' => Walks /\ q.of = "rewards"
  <2>1. Walks' => q.of = "rewards"
    BY <1>2, <1>3 DEF Walks
  <2>2. Walks' => ~Parted(q) /\ ~Mixed(q)
    BY <1>3 DEF Walks
  <2>3. QED
    BY <1>3, <2>1, <2>2 DEF Walks
<1>8. q.of = "rewards" => Follows(Matching(q)', Matching(q))
  <2>1. q.of = "rewards" => DeleteBeforeEpoch
    BY <1>3 DEF Withdraw
  <2>2. QED
    BY <1>1, <2>1, DeleteMoves
<1>9. WalkInv'
  BY <1>1, <1>2, <1>3, <1>4, <1>7, <1>8, WalkKeeps
<1>10. QED
  BY <1>4, <1>5, <1>6, <1>9 DEF PagesInv

(* A step of the client leaves the lists as they are.                      *)
LEMMA ClientFrame ==
  ASSUME PagesInv, table' = table, deleted' = deleted, reader'.q = reader.q
  PROVE  /\ Asked' = Asked /\ Matching(Asked)' = Matching(Asked) /\ (Walks' <=> Walks) /\ TableInv'
         /\ \A i : Place(i, Matching(Asked))' = Place(i, Matching(Asked)) /\ (Alone(i)' <=> Alone(i))
<1>1. PICK q : q = Asked /\ q = Asked'
  BY DEF Asked
<1>2. Matching(q)' = Matching(q)
  BY MatchingSame
<1>3. TableInv'
  BY DEF PagesInv, TableInv, Heights
<1>4. Asked' = Asked /\ Matching(Asked)' = Matching(Asked)
  BY <1>1, <1>2
<1>5. Walks' <=> Walks
  BY <1>1, <1>2 DEF Walks
<1>6. \A i : Place(i, Matching(Asked))' = Place(i, Matching(Asked))
  BY <1>4 DEF Place
<1>7. \A i : Alone(i)' <=> Alone(i)
  BY <1>4 DEF Alone
<1>8. QED
  BY <1>3, <1>4, <1>5, <1>6, <1>7

(* What a step of the client needs of the state.                           *)
LEMMA ClientFacts ==
  ASSUME PagesInv, reader.pc # "done"
  PROVE  /\ reader.page \in Nat \ {0}
         /\ \E a \in Nat, b \in Nat, c \in Nat :
              PageAt(reader.page, Asked.size, a, b) /\ a = Before /\ b = UpTo /\ c = Cardinality(Matching(Asked))
<1>1. reader.page \in Nat \ {0} /\ Asked.size \in Nat \ {0} /\ PagesType
  BY ReaderNumbers DEF PagesInv, PagesType
<1>2. PICK a \in Nat, b \in Nat : PageAt(reader.page, Asked.size, a, b)
  BY <1>1, PageBounds
<1>3. Cardinality(Matching(Asked)) \in Nat
  BY <1>1, MatchingFacts
<1>4. QED
  BY <1>1, <1>2, <1>3 DEF PageAt, Before, UpTo

(* A client begins: every row is on a page to come.                        *)
LEMMA BeginPages ==
  ASSUME PagesInv, Begin
  PROVE  PagesInv'
<1>1. /\ reader' = [reader EXCEPT !.pc = "ask", !.page = 1, !.list = <<>>, !.total = 0,
                              !.seen = {}, !.start = Matching(Asked)]
      /\ table' = table /\ deleted' = deleted /\ PagesType
  BY DEF Begin, PagesInv
<1>2. PICK S \in SUBSET Nat : S = Matching(Asked) /\ IsFiniteSet(S) /\ S \subseteq DOMAIN table
  BY <1>1, MatchingFacts
<1>3. reader \in ReaderType /\ reader' = [reader EXCEPT !.pc = "ask", !.page = 1, !.list = <<>>, !.total = 0,
                              !.seen = {}, !.start = S]
  BY <1>1, <1>2 DEF PagesType
<1>4. /\ reader' \in ReaderType /\ reader'.q = reader.q /\ reader'.pc = "ask" /\ reader'.page = 1 /\ reader'.start = S
  <2>1. reader'.q = reader.q /\ reader'.pc = "ask" /\ reader'.page = 1 /\ reader'.start = S
    BY <1>3 DEF ReaderType
  <2>2. <<>> \in Seq(Nat) /\ {} \in SUBSET Nat /\ 0 \in Nat /\ 1 \in Nat
    OBVIOUS
  <2>3. reader' \in ReaderType
    BY <1>3, <2>2 DEF ReaderType
  <2>4. QED
    BY <2>1, <2>3
<1>5. PagesType'
  BY <1>1, <1>2, <1>4 DEF PagesType
<1>6. /\ Matching(Asked)' = S /\ TableInv' /\ Asked' = Asked
      /\ \A i : Place(i, Matching(Asked))' = Place(i, S)
  BY <1>1, <1>2, <1>4, ClientFrame
<1>7. CoverInv'
  BY <1>4 DEF CoverInv, CountCoversPage
<1>8. \A i \in S : Place(i, S) > 0
  BY <1>1, <1>2, PlaceFacts
<1>9. Before' = 0
  <2>1. Asked.size \in Nat
    BY <1>1, ReaderNumbers
  <2>2. QED
    BY <1>4, <1>6, <2>1 DEF Before
<1>10. \A i \in S : ToCome(i)'
  <2>1. ASSUME NEW i \in S PROVE ToCome(i)'
    <3>1. Place(i, Matching(Asked))' > Before'
      BY <1>6, <1>8, <1>9
    <3>2. QED
      BY <1>4, <3>1 DEF ToCome
  <2>2. QED
    BY <2>1
<1>11. WalkInv'
  BY <1>6, <1>10 DEF WalkInv
<1>12. QED
  BY <1>5, <1>6, <1>7, <1>11 DEF PagesInv

(* The rows of a page are those with a place on it.                        *)
LEMMA PageShows ==
  ASSUME PagesInv, reader.pc # "done", NEW p \in PagesOf(Asked, reader.page)
  PROVE  /\ p \in Seq(Nat) /\ IsInjective(p)
         /\ p = <<>> \/ Before + Len(p) <= Cardinality(Matching(Asked))
         /\ Asked.of # "stakingEvents" =>
              \A i \in Matching(Asked) : Alone(i) /\
                Place(i, Matching(Asked)) > Before => i \in ToSet(p) \/ Place(i, Matching(Asked)) > UpTo
<1>1. PICK q \in Requests : q = Asked
  BY ReaderNumbers DEF PagesInv
<1>2. PICK page \in Nat \ {0}, a \in Nat, b \in Nat :
        page = reader.page /\ PageAt(page, q.size, a, b) /\ a = Before /\ b = UpTo
  BY <1>1, ClientFacts
<1>3. PagesType /\ p \in PagesOf(q, page)
  BY <1>1, <1>2 DEF PagesInv
<1>4. /\ p \in Seq(Nat) /\ IsInjective(p)
      /\ p = <<>> \/ a + Len(p) <= Cardinality(Matching(q))
      /\ q.of # "stakingEvents" =>
           \A i \in Matching(q) : Sole(i, Matching(q)) /\ a < Place(i, Matching(q)) /\ Place(i, Matching(q)) <= b => i \in ToSet(p)
  BY <1>2, <1>3, PageOfFacts
<1>5. PICK S \in SUBSET DOMAIN table : S = Matching(q)
  BY <1>3, MatchingFacts
<1>6. \A i \in S : Place(i, S) \in Int
  BY <1>3, <1>5, PlaceFacts
<1>7. \A i \in S : (Place(i, S) > a <=> a < Place(i, S)) /\ (Place(i, S) > b <=> ~(Place(i, S) <= b))
  BY <1>6
<1>8. \A i : Alone(i) <=> Sole(i, S)
  BY <1>1, <1>5 DEF Alone, Sole
<1>9. QED
  BY <1>1, <1>2, <1>4, <1>5, <1>7, <1>8

(* The page is read: it shows what had its place on it.                    *)
LEMMA FindPagePages ==
  ASSUME PagesInv, FindPage, Asked.of \notin {"blocks", "proposedBlocks", "delegations", "debonding"}
  PROVE  PagesInv'
<1>1. PICK p \in PagesOf(Asked, reader.page) : reader' = [reader EXCEPT !.pc = "count", !.list = p]
  BY DEF FindPage
<1>2. /\ reader' = [reader EXCEPT !.pc = "count", !.list = p]
      /\ reader.pc = "ask" /\ table' = table /\ deleted' = deleted /\ PagesType
  BY <1>1 DEF FindPage, PagesInv
<1>3. /\ p \in Seq(Nat) /\ IsInjective(p)
      /\ p = <<>> \/ Before + Len(p) <= Cardinality(Matching(Asked))
      /\ Asked.of # "stakingEvents" =>
           \A i \in Matching(Asked) : Alone(i) /\
             Place(i, Matching(Asked)) > Before => i \in ToSet(p) \/ Place(i, Matching(Asked)) > UpTo
  BY <1>1, <1>2, PageShows
<1>4. /\ reader'.q = reader.q /\ reader'.pc = "count" /\ reader'.page = reader.page /\ reader'.list = p
      /\ reader'.start = reader.start /\ reader'.seen = reader.seen
  BY <1>2 DEF PagesType, ReaderType
<1>5. reader' \in ReaderType
  BY <1>2, <1>3 DEF PagesType, ReaderType
<1>6. PagesType'
  BY <1>2, <1>4, <1>5 DEF PagesType
<1>7. /\ Asked' = Asked /\ Matching(Asked)' = Matching(Asked) /\ (Walks' <=> Walks) /\ TableInv'
      /\ \A i : Place(i, Matching(Asked))' = Place(i, Matching(Asked)) /\ (Alone(i)' <=> Alone(i))
  BY <1>2, <1>4, ClientFrame
<1>8. Before' = Before /\ UpTo' = UpTo
  BY <1>4, <1>7 DEF Before, UpTo
<1>9. CoverInv'
  BY <1>3, <1>4, <1>7, <1>8 DEF CoverInv, CountCoversPage
<1>10. ASSUME Walks, NEW i \in reader.start, i \in Matching(Asked), Alone(i) PROVE ToCome(i)'
  <2>1. i \in reader.seen \/ Place(i, Matching(Asked)) > Before
    BY <1>2, <1>10 DEF PagesInv, WalkInv, ToCome
  <2>2. Asked.of # "stakingEvents"
    BY <1>10 DEF Walks
  <2>3. i \in reader.seen \/ i \in ToSet(p) \/ Place(i, Matching(Asked)) > UpTo
    BY <1>3, <1>10, <2>1, <2>2
  <2>4. QED
    BY <1>4, <1>7, <1>8, <2>1, <2>3 DEF ToCome
<1>11. WalkInv'
  BY <1>4, <1>7, <1>10 DEF WalkInv
<1>12. QED
  BY <1>6, <1>7, <1>9, <1>11 DEF PagesInv

(* The total is read after the page: it counts what is behind the page.    *)
LEMMA CountAfterPages ==
  ASSUME PagesInv, CountAfter
  PROVE  PagesInv'
<1>1. PICK n : n = CountAll(Asked)
  OBVIOUS
<1>2. /\ reader' = [reader EXCEPT !.pc = "reply", !.total = n]
      /\ reader.pc = "count" /\ table' = table /\ deleted' = deleted /\ PagesType
  BY <1>1 DEF CountAfter, PagesInv
<1>3. PICK c \in Nat, a \in Nat, b \in Nat : c = Cardinality(Matching(Asked)) /\ a = Before /\ b = UpTo
  BY <1>2, ClientFacts
<1>4. /\ n \in Nat
      /\ Asked.of = "runtimeTransactions" => n <= MaxSizeLimit
      /\ n = c \/ Parted(Asked) \/ (Asked.of = "runtimeTransactions" /\ n = MaxSizeLimit /\ c >= MaxSizeLimit)
  BY <1>1, <1>2, <1>3, CountAllFacts
<1>5. /\ reader'.q = reader.q /\ reader'.pc = "reply" /\ reader'.page = reader.page /\ reader'.list = reader.list
      /\ reader'.start = reader.start /\ reader'.seen = reader.seen /\ reader'.total = n
  BY <1>2 DEF PagesType, ReaderType
<1>6. reader' \in ReaderType
  BY <1>2, <1>4 DEF PagesType, ReaderType
<1>7. PagesType'
  BY <1>2, <1>5, <1>6 DEF PagesType
<1>8. /\ Asked' = Asked /\ Matching(Asked)' = Matching(Asked) /\ (Walks' <=> Walks) /\ TableInv'
      /\ \A i : Place(i, Matching(Asked))' = Place(i, Matching(Asked)) /\ (Alone(i)' <=> Alone(i))
  BY <1>2, <1>5, ClientFrame
<1>9. Before' = Before /\ UpTo' = UpTo
  BY <1>5, <1>8 DEF Before, UpTo
<1>10. CoverInv'
  <2>1. ASSUME Asked.of \notin {"rewards", "blocks", "proposedBlocks"}, ~Parted(Asked)
        PROVE  /\ IsInjective(reader.list)
               /\ \/ reader.list = <<>>
                  \/ Before + Len(reader.list) <= n
                  \/ Asked.of = "transactions" /\ Unfiltered(Asked)
                  \/ n = MaxSizeLimit
    BY <1>2, <1>3, <1>4, <2>1 DEF PagesInv, CoverInv
  <2>2. CountCoversPage'
    BY <1>4, <1>5, <1>8, <1>9, <2>1 DEF CountCoversPage, Before
  <2>3. QED
    BY <1>5, <2>2 DEF CoverInv
<1>11. ASSUME Walks, NEW i \in reader.start, i \in Matching(Asked), Alone(i) PROVE ToCome(i)'
  <2>1. /\ i \in reader.seen \/ Place(i, Matching(Asked)) > Before
        /\ i \in reader.seen \cup ToSet(reader.list) \/ Place(i, Matching(Asked)) > UpTo
    BY <1>2, <1>11 DEF PagesInv, WalkInv, ToCome
  <2>2. n = c
    <3>1. ~Parted(Asked) /\ (Asked.of = "runtimeTransactions" => c <= MaxSizeLimit)
      BY <1>3, <1>11 DEF Walks
    <3>2. MaxSizeLimit \in Nat
      BY PageAssumption
    <3>3. QED
      BY <1>3, <1>4, <3>1, <3>2
  <2>3. Place(i, Matching(Asked)) > UpTo => n > UpTo
    <3>1. Place(i, Matching(Asked)) \in 1..c
      <4>1. Matching(Asked) \in SUBSET DOMAIN table
      BY <1>2, MatchingFacts
    <4>2. QED
      BY <1>2, <1>3, <1>11, <4>1, PlaceFacts
    <3>2. QED
      BY <1>3, <2>2, <3>1
  <2>4. QED
    BY <1>5, <1>8, <1>9, <2>1, <2>3 DEF ToCome
<1>12. WalkInv'
  BY <1>5, <1>8, <1>11 DEF WalkInv
<1>13. QED
  BY <1>7, <1>8, <1>10, <1>12 DEF PagesInv

(* Blocks are counted first, and delegations in one step.                  *)
LEMMA CountBeforePages ==
  ASSUME PagesInv, CountBefore, Asked.of \in {"blocks", "proposedBlocks"}
  PROVE  PagesInv'
<1>1. PICK n : n = CountAll(Asked)
  OBVIOUS
<1>2. /\ \/ reader' = [reader EXCEPT !.pc = "reply", !.total = 0]
         \/ reader' = [reader EXCEPT !.pc = "find", !.total = n]
      /\ reader.pc = "ask" /\ table' = table /\ deleted' = deleted /\ PagesType
  BY <1>1 DEF CountBefore, PagesInv
<1>3. n \in Nat
  BY <1>1, <1>2, CountAllFacts
<1>4. /\ reader'.q = reader.q /\ reader'.pc \in {"reply", "find"} /\ reader'.page = reader.page
      /\ reader'.start = reader.start
  BY <1>2 DEF PagesType, ReaderType
<1>5. reader' \in ReaderType
  <2>1. CASE reader' = [reader EXCEPT !.pc = "reply", !.total = 0]
    BY <1>2, <2>1 DEF PagesType, ReaderType
  <2>2. CASE reader' = [reader EXCEPT !.pc = "find", !.total = n]
    BY <1>2, <1>3, <2>2 DEF PagesType, ReaderType
  <2>3. QED
    BY <1>2, <2>1, <2>2
<1>6. PagesType'
  BY <1>2, <1>4, <1>5 DEF PagesType
<1>7. Asked' = Asked /\ (Walks' <=> Walks) /\ TableInv'
  BY <1>2, <1>4, ClientFrame
<1>8. CoverInv'
  BY <1>4, <1>7 DEF CoverInv, CountCoversPage
<1>9. ~Walks'
  BY <1>7 DEF Walks
<1>10. QED
  BY <1>6, <1>7, <1>8, <1>9 DEF PagesInv, WalkInv

LEMMA FindAfterPages ==
  ASSUME PagesInv, FindAfter, Asked.of \in {"blocks", "proposedBlocks"}
  PROVE  PagesInv'
<1>1. PICK p \in PagesOf(Asked, reader.page) :
        \/ reader' = [reader EXCEPT !.pc = "done", !.list = <<>>, !.seen = {}, !.start = {}]
        \/ reader' = [reader EXCEPT !.pc = "reply", !.list = p]
  BY DEF FindAfter
<1>2. /\ \/ reader' = [reader EXCEPT !.pc = "done", !.list = <<>>, !.seen = {}, !.start = {}]
         \/ reader' = [reader EXCEPT !.pc = "reply", !.list = p]
      /\ reader.pc = "find" /\ table' = table /\ deleted' = deleted /\ PagesType
  BY <1>1 DEF FindAfter, PagesInv
<1>3. p \in Seq(Nat)
  BY <1>1, <1>2, PageShows
<1>4. /\ reader'.q = reader.q /\ reader'.pc \in {"reply", "done"} /\ reader'.page = reader.page
      /\ reader'.start \in {reader.start, {}}
  BY <1>2 DEF PagesType, ReaderType
<1>5. reader' \in ReaderType
  <2>1. <<>> \in Seq(Nat) /\ {} \in SUBSET Nat
    OBVIOUS
  <2>2. QED
    BY <1>2, <1>3, <2>1 DEF PagesType, ReaderType
<1>6. PagesType'
  BY <1>2, <1>4, <1>5 DEF PagesType
<1>7. Asked' = Asked /\ (Walks' <=> Walks) /\ TableInv'
  BY <1>2, <1>4, ClientFrame
<1>8. CoverInv'
  BY <1>4, <1>7 DEF CoverInv, CountCoversPage
<1>9. ~Walks'
  BY <1>7 DEF Walks
<1>10. QED
  BY <1>6, <1>7, <1>8, <1>9 DEF PagesInv, WalkInv

LEMMA FindAndCountPages ==
  ASSUME PagesInv, FindAndCount, Asked.of \in {"delegations", "debonding"}
  PROVE  PagesInv'
<1>0. PICK n : n = CountAll(Asked)
  OBVIOUS
<1>1. PICK p \in PagesOf(Asked, reader.page) : reader' = [reader EXCEPT !.pc = "reply", !.list = p, !.total = n]
  BY <1>0 DEF FindAndCount
<1>2. /\ reader' = [reader EXCEPT !.pc = "reply", !.list = p, !.total = n]
      /\ reader.pc = "ask" /\ table' = table /\ deleted' = deleted /\ PagesType
  BY <1>1 DEF FindAndCount, PagesInv
<1>3. /\ p \in Seq(Nat) /\ IsInjective(p)
      /\ p = <<>> \/ Before + Len(p) <= Cardinality(Matching(Asked))
  BY <1>1, <1>2, PageShows
<1>4. n \in Nat /\ n = Cardinality(Matching(Asked))
  BY <1>0, <1>2, CountAllFacts DEF Parted
<1>5. /\ reader'.q = reader.q /\ reader'.pc = "reply" /\ reader'.page = reader.page
      /\ reader'.start = reader.start /\ reader'.list = p /\ reader'.total = n
  BY <1>2 DEF PagesType, ReaderType
<1>6. reader' \in ReaderType
  BY <1>2, <1>3, <1>4 DEF PagesType, ReaderType
<1>7. PagesType'
  BY <1>2, <1>5, <1>6 DEF PagesType
<1>8. Asked' = Asked /\ (Walks' <=> Walks) /\ TableInv'
  BY <1>2, <1>5, ClientFrame
<1>9. CoverInv'
  <2>1. CountCoversPage'
    BY <1>3, <1>4, <1>5, <1>8 DEF CountCoversPage, Before
  <2>2. QED
    BY <1>5, <2>1 DEF CoverInv
<1>10. ~Walks'
  BY <1>8 DEF Walks
<1>11. QED
  BY <1>7, <1>8, <1>9, <1>10 DEF PagesInv, WalkInv

(* What a record with new values in some fields is a member of.            *)
LEMMA Remade ==
  ASSUME NEW C, NEW Q, NEW N, NEW L, NEW P,
         NEW s \in [pc : C, q : Q, page : N, list : L, total : N, seen : P, start : P],
         NEW pc \in C, NEW page \in N, NEW list \in L, NEW total \in N, NEW seen \in P
  PROVE  [s EXCEPT !.pc = pc, !.page = page, !.seen = seen, !.list = list, !.total = total]
           \in [pc : C, q : Q, page : N, list : L, total : N, seen : P, start : P]
OBVIOUS

(* The client goes on to the next page, or has come to the end.            *)
LEMMA ReadReplyPages ==
  ASSUME PagesInv, ReadReply
  PROVE  PagesInv'
<1>1. PICK more \in BOOLEAN : more <=> reader.page < MaxPage(Asked.size, reader.total)
  OBVIOUS
<1>2. /\ reader' = [reader EXCEPT !.pc   = IF more THEN "ask" ELSE "done",
                                  !.page = IF more THEN @ + 1 ELSE @,
                                  !.seen = @ \cup ToSet(reader.list),
                                  !.list = <<>>, !.total = 0]
      /\ reader.pc = "reply" /\ table' = table /\ deleted' = deleted /\ PagesType
  BY <1>1 DEF ReadReply, PagesInv
<1>3. /\ reader'.q = reader.q /\ reader'.pc = (IF more THEN "ask" ELSE "done")
      /\ reader'.page = (IF more THEN reader.page + 1 ELSE reader.page)
      /\ reader'.start = reader.start /\ reader'.seen = reader.seen \cup ToSet(reader.list)
  BY <1>2 DEF PagesType, ReaderType
<1>4. reader' \in ReaderType
  <2>1. ToSet(reader.list) \in SUBSET Nat /\ <<>> \in Seq(Nat)
    BY <1>2 DEF PagesType, ReaderType, ToSet
  <2>2. reader.page \in Nat /\ reader.seen \in SUBSET Nat
    BY <1>2 DEF PagesType, ReaderType
  <2>3. PICK pc \in {"done", "ask", "count", "find", "reply"} : pc = (IF more THEN "ask" ELSE "done")
    OBVIOUS
  <2>4. PICK page \in Nat : page = (IF more THEN reader.page + 1 ELSE reader.page)
    BY <2>2
  <2>5. PICK seen \in SUBSET Nat : seen = reader.seen \cup ToSet(reader.list)
    BY <2>1, <2>2
  <2>6. reader' = [reader EXCEPT !.pc = pc, !.page = page, !.seen = seen, !.list = <<>>, !.total = 0]
    BY <1>2, <2>3, <2>4, <2>5
  <2>7. reader \in ReaderType /\ 0 \in Nat
    BY <1>2 DEF PagesType
  <2>8. QED
    BY <2>1, <2>6, <2>7, Remade DEF ReaderType
<1>5. PagesType'
  <2>1. reader'.page # 0
    BY <1>2, <1>3 DEF PagesType, ReaderType
  <2>2. QED
    BY <1>2, <1>3, <1>4, <2>1 DEF PagesType
<1>6. /\ Asked' = Asked /\ Matching(Asked)' = Matching(Asked) /\ (Walks' <=> Walks) /\ TableInv'
      /\ \A i : Place(i, Matching(Asked))' = Place(i, Matching(Asked)) /\ (Alone(i)' <=> Alone(i))
  BY <1>2, <1>3, ClientFrame
<1>7. CoverInv'
  BY <1>3 DEF CoverInv, CountCoversPage
<1>8. ~more => ~(reader.total > UpTo)
  <2>1. PICK page \in Nat \ {0}, size \in Nat \ {0}, total \in Nat :
          page = reader.page /\ size = Asked.size /\ total = reader.total
    BY <1>2, ReaderNumbers, ClientFacts
  <2>2. ~more => total <= page * size
    BY <1>1, <2>1, LastPage
  <2>3. UpTo \in Int /\ UpTo = page * size
    BY <1>2, <2>1, ReaderNumbers DEF UpTo
  <2>4. QED
    BY <2>1, <2>2, <2>3
<1>9. more => Before' = UpTo
  <2>1. PICK page \in Nat \ {0}, size \in Nat \ {0} : page = reader.page /\ size = Asked.size
    BY <1>2, ReaderNumbers, ClientFacts
  <2>2. (page + 1 - 1) * size = page * size
    BY NextPage
  <2>3. QED
    BY <1>3, <1>6, <2>1, <2>2 DEF Before, UpTo
<1>10. ASSUME Walks, NEW i \in reader.start, i \in Matching(Asked), Alone(i) PROVE ToCome(i)'
  <2>1. \/ i \in reader.seen \cup ToSet(reader.list)
        \/ Place(i, Matching(Asked)) > UpTo /\ reader.total > UpTo
    BY <1>2, <1>10 DEF PagesInv, WalkInv, ToCome
  <2>2. CASE more
    BY <1>3, <1>6, <1>9, <2>1, <2>2 DEF ToCome
  <2>3. CASE ~more
    BY <1>3, <1>8, <2>1, <2>3 DEF ToCome
  <2>4. QED
    BY <2>2, <2>3
<1>11. WalkInv'
  BY <1>3, <1>6, <1>10 DEF WalkInv
<1>12. QED
  BY <1>5, <1>6, <1>7, <1>11 DEF PagesInv

(* A client that asks again has lost the page, and still awaits its rows.  *)
LEMMA ReadFailsPages ==
  ASSUME PagesInv, ReadFails
  PROVE  PagesInv'
<1>1. /\ reader' = [reader EXCEPT !.pc = "ask", !.list = <<>>, !.total = 0]
      /\ reader.pc \in {"count", "find", "reply"} /\ table' = table /\ deleted' = deleted /\ PagesType
  BY DEF ReadFails, PagesInv
<1>2. /\ reader'.q = reader.q /\ reader'.pc = "ask" /\ reader'.page = reader.page
      /\ reader'.start = reader.start /\ reader'.seen = reader.seen
  BY <1>1 DEF PagesType, ReaderType
<1>3. reader' \in ReaderType
  <2>1. <<>> \in Seq(Nat) /\ 0 \in Nat
    OBVIOUS
  <2>2. QED
    BY <1>1, <2>1 DEF PagesType, ReaderType
<1>4. PagesType'
  BY <1>1, <1>2, <1>3 DEF PagesType
<1>5. /\ Asked' = Asked /\ Matching(Asked)' = Matching(Asked) /\ (Walks' <=> Walks) /\ TableInv'
      /\ \A i : Place(i, Matching(Asked))' = Place(i, Matching(Asked)) /\ (Alone(i)' <=> Alone(i))
  BY <1>1, <1>2, ClientFrame
<1>6. CoverInv'
  BY <1>2 DEF CoverInv, CountCoversPage
<1>7. Before' = Before
  BY <1>2, <1>5 DEF Before
<1>8. ASSUME Walks, NEW i \in reader.start, i \in Matching(Asked), Alone(i) PROVE ToCome(i)'
  <2>1. i \in reader.seen \/ Place(i, Matching(Asked)) > Before
    BY <1>1, <1>8 DEF PagesInv, WalkInv, ToCome
  <2>2. QED
    BY <1>2, <1>5, <1>7, <2>1 DEF ToCome
<1>9. WalkInv'
  BY <1>2, <1>5, <1>8 DEF WalkInv
<1>10. QED
  BY <1>4, <1>5, <1>6, <1>9 DEF PagesInv

(* The invariant holds at first, and every step of PageNext keeps it.      *)
LEMMA PagesStart == PageInit => PagesInv
<1>1. SUFFICES ASSUME PageInit PROVE PagesInv
  OBVIOUS
<1>2. PICK q \in Requests :
        /\ reader = [pc |-> "done", q |-> q, page |-> 0, list |-> <<>>, total |-> 0, seen |-> {}, start |-> {}]
        /\ table = <<>> /\ deleted = {}
  BY <1>1 DEF PageInit
<1>3. reader.pc = "done" /\ reader.start = {} /\ DOMAIN table = {} /\ table \in Seq(Rows)
  BY <1>2
<1>4. reader \in ReaderType
  <2>1. <<>> \in Seq(Nat) /\ {} \in SUBSET Nat
    OBVIOUS
  <2>2. QED
    BY <1>2, <2>1 DEF ReaderType
<1>5. PagesType
  BY <1>2, <1>3, <1>4 DEF PagesType
<1>6. TableInv
  <2>1. Heights("transaction") = {} /\ 0 \in Nat
    BY <1>3 DEF Heights
  <2>2. QED
    BY <1>3, <2>1 DEF TableInv
<1>7. CoverInv /\ WalkInv
  BY <1>3 DEF CoverInv, CountCoversPage, WalkInv
<1>8. QED
  BY <1>5, <1>6, <1>7 DEF PagesInv

LEMMA PagesStep == ASSUME PagesInv, PageNext PROVE PagesInv'
<1>1. ASSUME NEW r \in Rows, Store(r) PROVE PagesInv'
  BY <1>1, StorePages
<1>2. ASSUME NEW of, PageThenCount(of), of \notin {"blocks", "proposedBlocks", "delegations", "debonding"}
      PROVE PagesInv'
  BY <1>2, FindPagePages, CountAfterPages DEF PageThenCount
<1>3. ASSUME NEW of, CountThenPage(of), of \in {"blocks", "proposedBlocks"} PROVE PagesInv'
  BY <1>3, CountBeforePages, FindAfterPages DEF CountThenPage
<1>4. ASSUME NEW of \in {"delegations", "debonding"}, Asked.of = of, FindAndCount PROVE PagesInv'
  BY <1>4, FindAndCountPages
<1>5. CASE AccountStakingEvents \/ AccountReward \/ AccountDelegations \/ AccountDebonding
  BY <1>2, <1>4, <1>5 DEF AccountStakingEvents, AccountReward, AccountDelegations, AccountDebonding
<1>6. CASE ChainTransactions \/ ValidatorEscrowEvent \/ RuntimeTransactionList \/ RuntimeRoundList \/ GovernanceVotes
  BY <1>2, <1>6 DEF ChainTransactions, ValidatorEscrowEvent, RuntimeTransactionList, RuntimeRoundList, GovernanceVotes
<1>7. CASE ChainBlocks \/ ChainProposedBlocks
  BY <1>3, <1>7 DEF ChainBlocks, ChainProposedBlocks
<1>8. CASE DeleteBeforeEpoch \/ Withdraw
  BY <1>8, DeletePages
<1>9. CASE Begin
  BY <1>9, BeginPages
<1>10. CASE ReadReply
  BY <1>10, ReadReplyPages
<1>11. CASE ReadFails
  BY <1>11, ReadFailsPages
<1>12. QED
  BY <1>1, <1>5, <1>6, <1>7, <1>8, <1>9, <1>10, <1>11 DEF PageNext

(* Steps of others leave the lists and the client alone.                   *)
LEMMA ListsRest ==
  ASSUME PagesInv, table' = table, deleted' = deleted, reader' = reader
  PROVE  PagesInv'
<1>1. /\ Asked' = Asked /\ Matching(Asked)' = Matching(Asked) /\ (Walks' <=> Walks) /\ TableInv'
      /\ \A i : Place(i, Matching(Asked))' = Place(i, Matching(Asked)) /\ (Alone(i)' <=> Alone(i))
  BY ClientFrame
<1>2. Before' = Before /\ UpTo' = UpTo
  BY <1>1 DEF Before, UpTo
<1>3. PagesType'
  BY DEF PagesInv, PagesType
<1>4. CoverInv'
  <2>1. CountCoversPage'
    BY <1>1 DEF PagesInv, CoverInv, CountCoversPage
  <2>2. QED
    BY <1>1, <1>2, <2>1 DEF PagesInv, CoverInv
<1>5. WalkInv'
  <2>1. ASSUME Walks, NEW i \in reader.start, i \in Matching(Asked), Alone(i) PROVE ToCome(i)'
    <3>1. ToCome(i)
      BY <2>1 DEF PagesInv, WalkInv
    <3>2. QED
      BY <1>1, <1>2, <3>1 DEF ToCome
  <2>2. QED
    BY <1>1, <2>1 DEF WalkInv
<1>6. QED
  BY <1>1, <1>3, <1>4, <1>5 DEF PagesInv

(* At the end of a walk nothing is to come, and no round shares its key.   *)
LEMMA WalkEnds == PagesInv => WalkSeesAll
<1>1. SUFFICES ASSUME PagesInv, reader.pc = "done",
          Asked.of \in {"transactions", "escrowEvents", "rounds", "rewards", "runtimeTransactions"},
          ~Parted(Asked), ~Mixed(Asked),
          Asked.of = "runtimeTransactions" => Cardinality(Matching(Asked)) <= MaxSizeLimit,
          NEW i \in reader.start \cap Matching(Asked), Asked.of = "rounds" \/ Alone(i)
        PROVE  i \in reader.seen
  BY DEF WalkSeesAll
<1>2. Walks
  BY <1>1 DEF Walks
<1>3. ASSUME Asked.of = "rounds" PROVE Alone(i)
  <2>1. \A j \in Matching(Asked) : j \in DOMAIN table /\ table[j].table = "runtime_round"
    BY <1>3 DEF Matching, Live, Found, FindByRuntimeId
  <2>2. QED
    BY <1>1, <2>1 DEF Alone, PagesInv, TableInv
<1>4. QED
  BY <1>1, <1>2, <1>3 DEF PagesInv, WalkInv, ToCome
-----------------------------------------------------------------------------
(* SignStats.                                                              *)

InTable == ToSet(Validators)

(* The days of the blocks c + 1 .. u, as FindBlockCountDays counts them.   *)
DaysOf(c, u) ==
  LET days   == {chain[h].day : h \in c + 1 .. u}
      newest == {d \in days : Cardinality({e \in days : e > d}) < ViewLimit}
  IN  [d \in newest |-> Cardinality(OfDay(d) \cap (c + 1 .. u))]

(* What was in the view at some time.                                      *)
Seen == {DaysOf(c, u) : c \in 0..cut, u \in 0..stored}

JobStates == [pc : {"idle", "ready", "nodes", "signs"}, i : 0..Len(Validators), days : {None} \cup Seen]

ChainType ==
  /\ chain \in Chains
  /\ height \in 1..Len(chain) /\ cut \in 0..height
  /\ stored \in 0..height /\ nodeHeight \in 0..height
  /\ view \in [upto : 0..stored, cut : 0..cut]

UptimeType ==
  /\ uptime \in [InTable -> [of : Nat, signs : Nat]]
  /\ sync \in [of : {None} \cup Nat, todo : Seq(InTable)]
  /\ sync.todo # <<>> => sync.of \in Nat

Stats == [cutAt : Nat, days : SUBSET [day : Nat, expected : Nat, actual : Nat]]

CacheType ==
  cache \in [InTable -> {None} \cup Stats]

(* What a refresher holds was in the view at some time.                    *)
RefresherInv ==
  /\ job \in [Refresher -> JobStates]
  /\ \A r \in Refresher :
       /\ job[r].pc \in {"nodes", "signs"} => job[r].i # 0
       /\ job[r].pc = "signs" => job[r].days \in Seen

(* What CachedDaysAreFinal says of one validator and its entry.            *)
Final(v, entry) ==
  \A s \in entry.days :
    /\ s.actual <= s.expected
    /\ \/ \A t \in entry.days : s.day <= t.day
       \/ s.expected = Cardinality(OfDay(s.day))
    /\ (\A h \in OfDay(s.day) : h > entry.cutAt)
         => s.actual = Cardinality(SignedHeights(NodesOf[v], OfDay(s.day)))

SignInv ==
  ChainType /\ UptimeType /\ CacheType /\ RefresherInv /\ CachedDaysAreFinal /\ UptimeOfRecentHeights
-----------------------------------------------------------------------------
LEMMA ChainFacts ==
  ASSUME chain \in Chains
  PROVE  /\ Len(chain) \in Nat \ {0} /\ DOMAIN chain = 1..Len(chain)
         /\ \A h \in 1..Len(chain) : chain[h].day \in Nat
         /\ \A h \in 1..Len(chain), g \in 1..Len(chain) : g <= h => chain[g].day <= chain[h].day
<1>1. chain \in Seq(ToSet(chain)) /\ chain # <<>>
  BY ChainAssumption
<1>2. Len(chain) \in Nat \ {0} /\ DOMAIN chain = 1..Len(chain)
  BY <1>1
<1>3. \A h \in 1..Len(chain) : chain[h].day \in Nat /\ \A g \in 1..h : chain[g].day <= chain[h].day
  BY <1>2, ChainAssumption
<1>4. QED
  BY <1>2, <1>3

(* Some validator of the table. *)
LEMMA ListedFacts ==
  /\ Len(Validators) \in Nat
  /\ \A i \in 1..Len(Validators) : Validators[i] \in InTable
  /\ Validators \in Seq(InTable)
  /\ \A v \in InTable : IsFiniteSet(NodesOf[v])
<1>1. Len(Validators) \in Nat /\ DOMAIN Validators = 1..Len(Validators)
  BY SignAssumption
<1>2. \A i \in 1..Len(Validators) : Validators[i] \in InTable
  BY <1>1 DEF InTable, ToSet
<1>3. Validators \in Seq(InTable)
  BY <1>1, <1>2, SignAssumption
<1>4. QED
  BY <1>1, <1>2, <1>3, SignAssumption DEF InTable

(* The number of heights in a set of heights. *)
LEMMA FewerHeights ==
  ASSUME chain \in Chains, NEW T \in SUBSET DOMAIN chain, NEW S \in SUBSET T
  PROVE  Cardinality(S) \in Nat /\ Cardinality(T) \in Nat /\ Cardinality(S) <= Cardinality(T)
<1>1. IsFiniteSet(DOMAIN chain)
  BY ChainFacts, FS_Interval
<1>2. IsFiniteSet(T)
  BY <1>1, FS_Subset
<1>3. IsFiniteSet(S) /\ Cardinality(S) <= Cardinality(T)
  BY <1>2, FS_Subset
<1>4. QED
  BY <1>2, <1>3, FS_CardinalityType

(* A signature is a height and a node.                                     *)
LEMMA SignatureOfHeight ==
  ASSUME NEW nodes, NEW S, NEW x
  PROVE  x \in Signatures(nodes, S) <=> \E h \in S : \E n \in nodes \cap chain[h].signers : x = <<h, n>>
<1> DEFINE Of(h) == {<<h, n>> : n \in nodes \cap chain[h].signers}
<1>1. Signatures(nodes, S) = UNION {Of(h) : h \in S}
  BY DEF Signatures
<1>2. \A h : x \in Of(h) <=> \E n \in nodes \cap chain[h].signers : x = <<h, n>>
  OBVIOUS
<1> HIDE DEF Of
<1>3. x \in UNION {Of(h) : h \in S} <=> \E h \in S : x \in Of(h)
  OBVIOUS
<1>4. QED
  BY <1>1, <1>2, <1>3

(* More heights have no fewer signatures.                                  *)
LEMMA FewerSignatures ==
  ASSUME chain \in Chains, NEW nodes, IsFiniteSet(nodes),
         NEW T \in SUBSET DOMAIN chain, NEW S \in SUBSET T
  PROVE  /\ Cardinality(Signatures(nodes, S)) \in Nat
         /\ Cardinality(Signatures(nodes, S)) <= Cardinality(Signatures(nodes, T))
<1> DEFINE H == DOMAIN chain
<1>1. IsFiniteSet(H)
  BY ChainFacts, FS_Interval
<1> HIDE DEF H
<1>2. IsFiniteSet(H \X nodes)
  BY <1>1, FS_Product
<1>3. ASSUME NEW x \in Signatures(nodes, T) PROVE x \in H \X nodes
  <2>1. PICK h \in T : \E n \in nodes \cap chain[h].signers : x = <<h, n>>
    BY <1>3, SignatureOfHeight
  <2>2. PICK n \in nodes : x = <<h, n>>
    BY <2>1
  <2>3. h \in H
    BY DEF H
  <2>4. QED
    BY <2>2, <2>3
<1>4. IsFiniteSet(Signatures(nodes, T))
  BY <1>2, <1>3, FS_Subset
<1>5. ASSUME NEW x \in Signatures(nodes, S) PROVE x \in Signatures(nodes, T)
  <2>1. \E h \in S : \E n \in nodes \cap chain[h].signers : x = <<h, n>>
    BY <1>5, SignatureOfHeight
  <2>2. QED
    BY <2>1, SignatureOfHeight
<1>6. IsFiniteSet(Signatures(nodes, S)) /\ Cardinality(Signatures(nodes, S)) <= Cardinality(Signatures(nodes, T))
  BY <1>4, <1>5, FS_Subset
<1>7. QED
  BY <1>6, FS_CardinalityType

(* The view never shows less of the past.                                  *)
LEMMA SeenGrows ==
  ASSUME chain' = chain, cut \in Nat, cut' \in Nat, cut <= cut',
         stored \in Nat, stored' \in Nat, stored <= stored'
  PROVE  Seen \subseteq Seen' /\ JobStates \subseteq JobStates'
<1>1. 0..cut \subseteq 0..cut' /\ 0..stored \subseteq 0..stored'
  OBVIOUS
<1>2. \A c, u : DaysOf(c, u)' = DaysOf(c, u)
  BY DEF DaysOf, OfDay
<1>3. Seen \subseteq Seen'
  BY <1>1, <1>2 DEF Seen
<1>4. QED
  BY <1>3 DEF JobStates

(* What is cached, and the uptime, are about the chain alone.              *)
LEMMA CacheStays ==
  ASSUME CacheType, CachedDaysAreFinal, chain' = chain, cache' = cache
  PROVE  CacheType' /\ CachedDaysAreFinal'
<1>1. \A d : OfDay(d)' = OfDay(d)
  BY DEF OfDay
<1>2. \A n, H : SignedHeights(n, H)' = SignedHeights(n, H)
  BY DEF SignedHeights
<1>3. CachedDaysAreFinal'
  BY <1>1, <1>2 DEF CachedDaysAreFinal
<1>4. QED
  BY <1>3 DEF CacheType

LEMMA UptimeStays ==
  ASSUME UptimeType, UptimeOfRecentHeights, chain' = chain, uptime' = uptime, sync' = sync
  PROVE  UptimeType' /\ UptimeOfRecentHeights'
<1>1. \A n, H : Signatures(n, H)' = Signatures(n, H)
  BY DEF Signatures
<1>2. UptimeOfRecentHeights'
  BY <1>1 DEF UptimeOfRecentHeights
<1>3. QED
  BY <1>2 DEF UptimeType

(* The chain and the scanners move on.                                     *)
LEMMA ChainMoves ==
  ASSUME SignInv, ChainType', cut <= cut', stored <= stored',
         UNCHANGED <<chain, uptime, sync, cache, job>>
  PROVE  SignInv'
<1>1. cut \in Nat /\ cut' \in Nat /\ stored \in Nat /\ stored' \in Nat
  BY DEF SignInv, ChainType
<1>2. Seen \subseteq Seen' /\ JobStates \subseteq JobStates'
  BY <1>1, SeenGrows
<1>3. RefresherInv'
  BY <1>2 DEF SignInv, RefresherInv
<1>4. QED
  BY <1>3, CacheStays, UptimeStays DEF SignInv

(* ValidatorConsensusSync moves on.                                        *)
LEMMA SyncMoves ==
  ASSUME SignInv, UptimeType', UptimeOfRecentHeights',
         UNCHANGED <<chainVars, database, view, cache, job>>
  PROVE  SignInv'
<1>1. ChainType'
  BY DEF SignInv, ChainType, chainVars, database
<1>2. RefresherInv'
  <2>1. cut \in Nat /\ stored \in Nat
    BY DEF SignInv, ChainType
  <2>2. Seen \subseteq Seen' /\ JobStates \subseteq JobStates'
    BY <2>1, SeenGrows DEF chainVars, database
  <2>3. QED
    BY <2>2 DEF SignInv, RefresherInv
<1>3. QED
  BY <1>1, <1>2, CacheStays DEF SignInv, chainVars

(* The refreshers move on.                                                 *)
LEMMA RefreshersMove ==
  ASSUME SignInv, CacheType', CachedDaysAreFinal',
         UNCHANGED <<chainVars, database, view, uptime, sync>>,
         job' \in [Refresher -> JobStates],
         \A r \in Refresher :
           /\ job'[r].pc \in {"nodes", "signs"} => job'[r].i # 0
           /\ job'[r].pc = "signs" => job'[r].days \in Seen
  PROVE  SignInv'
<1>1. ChainType'
  BY DEF SignInv, ChainType, chainVars, database
<1>2. RefresherInv'
  <2>1. cut \in Nat /\ stored \in Nat
    BY DEF SignInv, ChainType
  <2>2. Seen \subseteq Seen' /\ JobStates \subseteq JobStates'
    BY <2>1, SeenGrows DEF chainVars, database
  <2>3. QED
    BY <2>2 DEF RefresherInv
<1>3. QED
  BY <1>1, <1>2, UptimeStays DEF SignInv, chainVars

LEMMA RefresherMoves ==
  ASSUME SignInv, CacheType', CachedDaysAreFinal',
         UNCHANGED <<chainVars, database, view, uptime, sync>>,
         NEW r \in Refresher, NEW new \in JobStates,
         job' = [job EXCEPT ![r] = new],
         new.pc \in {"nodes", "signs"} => new.i # 0,
         new.pc = "signs" => new.days \in Seen
  PROVE  SignInv'
<1>1. job \in [Refresher -> JobStates]
  BY DEF SignInv, RefresherInv
<1>2. job' \in [Refresher -> JobStates]
  BY <1>1
<1>3. \A q \in Refresher : job'[q] = IF q = r THEN new ELSE job[q]
  BY <1>1
<1>4. \A q \in Refresher :
           /\ job'[q].pc \in {"nodes", "signs"} => job'[q].i # 0
           /\ job'[q].pc = "signs" => job'[q].days \in Seen
  BY <1>3 DEF SignInv, RefresherInv
<1>5. QED
  BY <1>2, <1>4, RefreshersMove

(* The job goes on with a validator of the table, or ends.                 *)
LEMMA SkipsSafely ==
  ASSUME SignInv, NEW r \in Refresher
  PROVE  /\ Skips(r) \in JobStates
         /\ Skips(r).pc \in {"nodes", "signs"} => Skips(r).i # 0
         /\ Skips(r).pc # "signs"
<1>1. job[r].i \in 0..Len(Validators) /\ Len(Validators) \in Nat
  BY ListedFacts DEF SignInv, RefresherInv, JobStates
<1>2. CASE job[r].i < Len(Validators)
  <2>1. Skips(r) = [pc |-> "nodes", i |-> job[r].i + 1, days |-> None]
    BY <1>2 DEF Skips, JobIdle
  <2>2. QED
    BY <1>1, <1>2, <2>1 DEF JobStates
<1>3. CASE ~(job[r].i < Len(Validators))
  BY <1>1, <1>3 DEF Skips, JobIdle, JobStates
<1>4. QED
  BY <1>2, <1>3

(* An entry is set. *)
LEMMA EntrySet ==
  ASSUME SignInv, chain' = chain,
         NEW v \in InTable, NEW new \in {None} \cup Stats, new # None => Final(v, new),
         cache' = [cache EXCEPT ![v] = new]
  PROVE  CacheType' /\ CachedDaysAreFinal'
<1>1. cache \in [InTable -> {None} \cup Stats]
  BY DEF SignInv, CacheType
<1>2. cache' \in [InTable -> {None} \cup Stats]
  BY <1>1
<1>3. \A w \in InTable : cache'[w] = IF w = v THEN new ELSE cache[w]
  BY <1>1
<1>4. \A w \in InTable : cache[w] # None => Final(w, cache[w])
  BY DEF SignInv, CachedDaysAreFinal, Final, InTable
<1>5. \A w \in InTable : cache'[w] # None => Final(w, cache'[w])
  BY <1>3, <1>4
<1>6. (\A d : OfDay(d)' = OfDay(d)) /\ (\A n, H : SignedHeights(n, H)' = SignedHeights(n, H))
  BY DEF OfDay, SignedHeights
<1>7. CachedDaysAreFinal'
  BY <1>5, <1>6 DEF CachedDaysAreFinal, Final, InTable
<1>8. QED
  BY <1>2, <1>7 DEF CacheType

(* The days of a run of blocks, and what is counted of them.               *)
LEMMA DaysFacts ==
  ASSUME NEW c, NEW u
  PROVE  /\ \A d \in DOMAIN DaysOf(c, u) : \E h \in c + 1 .. u : d = chain[h].day
         /\ \A d \in DOMAIN DaysOf(c, u) : DaysOf(c, u)[d] = Cardinality(OfDay(d) \cap (c + 1 .. u))
BY DEF DaysOf

(* A day that is over has no block that is not stored yet.                 *)
LEMMA PastIsStored ==
  ASSUME ChainType, NEW c \in 0..cut, NEW u \in 0..stored, NEW d \in PastDays(DaysOf(c, u))
  PROVE  /\ d \in Nat
         /\ OfDay(d) \subseteq 1..u
         /\ DaysOf(c, u)[d] = Cardinality(OfDay(d) \cap (c + 1 .. u))
<1>1. PICK e \in DOMAIN DaysOf(c, u) : e > d
  BY DEF PastDays
<1>2. d \in DOMAIN DaysOf(c, u)
  BY DEF PastDays
<1>3. PICK h \in c + 1 .. u : e = chain[h].day
  BY DaysFacts
<1>4. PICK g \in c + 1 .. u : d = chain[g].day
  BY <1>2, DaysFacts
<1>5. Len(chain) \in Nat /\ c \in Nat /\ u \in Nat /\ u <= Len(chain) /\ chain \in Chains
  BY DEF ChainType
<1>6. h \in 1..Len(chain) /\ g \in 1..Len(chain)
  BY <1>5
<1>7. d \in Nat /\ e \in Nat
  BY <1>3, <1>4, <1>5, <1>6, ChainFacts
<1>8. ASSUME NEW x \in OfDay(d) PROVE x \in 1..u
  <2>1. x \in 1..Len(chain) /\ chain[x].day = d
    BY <1>5, ChainFacts DEF OfDay
  <2>2. ~(h <= x)
    BY <1>1, <1>3, <1>5, <1>6, <1>7, <2>1, ChainFacts
  <2>3. QED
    BY <1>5, <1>6, <2>1, <2>2
<1>9. QED
  BY <1>2, <1>7, <1>8, DaysFacts

(* One day of the entry that a refresher makes of what was in the view.    *)
LEMMA DayIsFinal ==
  ASSUME ChainType, NEW c \in 0..cut, NEW u \in 0..stored,
         NEW d \in PastDays(DaysOf(c, u)), NEW nodes, NEW expected, NEW actual,
         expected = DaysOf(c, u)[d],
         actual = Cardinality(ValidatorSignStats(nodes) \cap OfDay(d))
  PROVE  /\ expected \in Nat /\ actual \in Nat /\ actual <= expected
         /\ \A t \in PastDays(DaysOf(c, u)) : t < d => expected = Cardinality(OfDay(d))
         /\ (\A h \in OfDay(d) : h > cut) => actual = Cardinality(SignedHeights(nodes, OfDay(d)))
<1> DEFINE D == OfDay(d)
           S == ValidatorSignStats(nodes) \cap D
           E == D \cap (c + 1 .. u)
<1>1. chain \in Chains /\ c \in Nat /\ u \in Nat /\ u <= stored /\ c <= cut /\ cut \in Nat /\ stored \in Nat
  BY DEF ChainType
<1>2. d \in Nat /\ D \subseteq 1..u /\ expected = Cardinality(E)
  BY PastIsStored
<1>3. D \subseteq DOMAIN chain
  BY DEF OfDay
<1>4. \A h : h \in S <=> h \in D /\ h \in cut + 1 .. stored /\ nodes \cap chain[h].signers # {}
  BY DEF ValidatorSignStats, SignedHeights
<1>5. S \subseteq E
  BY <1>1, <1>2, <1>4
<1>6. E \in SUBSET DOMAIN chain
  BY <1>3
<1>7. expected \in Nat /\ actual \in Nat /\ actual <= expected
  BY <1>1, <1>2, <1>5, <1>6, FewerHeights
<1>8. ASSUME NEW t \in PastDays(DaysOf(c, u)), t < d PROVE expected = Cardinality(D)
  <2>1. PICK g \in c + 1 .. u : t = chain[g].day
    BY DaysFacts DEF PastDays
  <2>2. u <= Len(chain) /\ Len(chain) \in Nat /\ g \in 1..Len(chain) /\ DOMAIN chain = 1..Len(chain)
    BY <1>1, ChainFacts DEF ChainType
  <2>3. t \in Nat
    BY PastIsStored
  <2>4. ASSUME NEW h \in D PROVE h \in c + 1 .. u
    <3>1. h \in 1..Len(chain) /\ chain[h].day = d
      BY <2>2 DEF OfDay
    <3>2. ~(h <= g)
      BY <1>1, <1>2, <1>8, <2>1, <2>2, <2>3, <3>1, ChainFacts
    <3>3. QED
      BY <1>1, <1>2, <2>2, <3>1, <3>2
  <2>5. E = D
    BY <2>4
  <2>6. QED
    BY <1>2, <2>5
<1>9. ASSUME \A h \in D : h > cut PROVE actual = Cardinality(SignedHeights(nodes, D))
  <2>1. ASSUME NEW h \in D PROVE h \in cut + 1 .. stored
    <3>1. h \in 1..u /\ h > cut
      BY <1>2, <1>9
    <3>2. QED
      BY <1>1, <3>1
  <2>2. \A h : h \in SignedHeights(nodes, D) <=> h \in D /\ nodes \cap chain[h].signers # {}
    BY DEF SignedHeights
  <2>3. S = SignedHeights(nodes, D)
    BY <1>4, <2>1, <2>2
  <2>4. QED
    BY <2>3
<1>10. QED
  BY <1>7, <1>8, <1>9

LEMMA StatsAreFinal ==
  ASSUME ChainType, NEW v, NEW c \in 0..cut, NEW u \in 0..stored, NEW stats,
         stats = {[day |-> d, expected |-> DaysOf(c, u)[d],
                   actual |-> Cardinality(ValidatorSignStats(NodesOf[v]) \cap OfDay(d))] :
                     d \in PastDays(DaysOf(c, u))}
  PROVE  [cutAt |-> cut, days |-> stats] \in Stats /\ Final(v, [cutAt |-> cut, days |-> stats])
<1> DEFINE entry == [cutAt |-> cut, days |-> stats]
           P == PastDays(DaysOf(c, u))
           Of(d) == Cardinality(ValidatorSignStats(NodesOf[v]) \cap OfDay(d))
<1>a. stats = {[day |-> d, expected |-> DaysOf(c, u)[d], actual |-> Of(d)] : d \in P}
  OBVIOUS
<1> HIDE DEF P, Of
<1>1. ASSUME NEW s \in stats
      PROVE  /\ s.day \in P /\ s.expected = DaysOf(c, u)[s.day] /\ s.actual = Of(s.day)
             /\ s = [day |-> s.day, expected |-> s.expected, actual |-> s.actual]
  <2>1. PICK d \in P : s = [day |-> d, expected |-> DaysOf(c, u)[d], actual |-> Of(d)]
    BY <1>a
  <2>2. QED
    BY <2>1
<1>2. cut \in Nat
  BY DEF ChainType
<1>3. ASSUME NEW s \in stats
      PROVE  /\ s \in [day : Nat, expected : Nat, actual : Nat]
             /\ s.actual <= s.expected
             /\ \A t \in P : t < s.day => s.expected = Cardinality(OfDay(s.day))
             /\ (\A h \in OfDay(s.day) : h > cut)
                  => s.actual = Cardinality(SignedHeights(NodesOf[v], OfDay(s.day)))
  <2>1. s.day \in P /\ s.expected = DaysOf(c, u)[s.day] /\ s.actual = Of(s.day)
    BY <1>1
  <2> DEFINE d == s.day
  <2>a. d \in PastDays(DaysOf(c, u)) /\ s.expected = DaysOf(c, u)[d]
    BY <2>1 DEF P
  <2>b. s.actual = Cardinality(ValidatorSignStats(NodesOf[v]) \cap OfDay(d))
    BY <2>1 DEF Of
  <2> HIDE DEF d
  <2>c. /\ s.expected \in Nat /\ s.actual \in Nat /\ s.actual <= s.expected
        /\ \A t \in PastDays(DaysOf(c, u)) : t < d => s.expected = Cardinality(OfDay(d))
        /\ (\A h \in OfDay(d) : h > cut) => s.actual = Cardinality(SignedHeights(NodesOf[v], OfDay(d)))
    BY <2>a, <2>b, DayIsFinal
  <2>2. s.day \in Nat /\ s.expected \in Nat /\ s.actual \in Nat
    BY <2>a, <2>c, PastIsStored DEF d
  <2>e. s = [day |-> s.day, expected |-> s.expected, actual |-> s.actual]
    BY <1>1
  <2>3. s \in [day : Nat, expected : Nat, actual : Nat]
    BY <2>e, <2>2
  <2>4. QED
    BY <2>3, <2>c DEF P, d
<1>4. entry \in Stats
  BY <1>2, <1>3 DEF Stats
<1>5. ASSUME NEW s \in stats
      PROVE  (\A t \in stats : s.day <= t.day) \/ s.expected = Cardinality(OfDay(s.day))
  <2>1. ASSUME NEW t \in stats, ~(s.day <= t.day) PROVE s.expected = Cardinality(OfDay(s.day))
    <3>1. t.day \in P /\ t.day \in Nat /\ s.day \in Nat
      BY <1>1, <1>3
    <3>2. t.day < s.day
      BY <2>1, <3>1
    <3>3. QED
      BY <1>3, <3>1, <3>2
  <2>2. QED
    BY <2>1
<1>6. Final(v, entry)
  BY <1>3, <1>5 DEF Final
<1>7. QED
  BY <1>4, <1>6

(* What a refresher reads is in the view.                                  *)
LEMMA ViewIsSeen == ASSUME ChainType PROVE FindBlockCountDays \in Seen
<1>1. view.cut \in 0..cut /\ view.upto \in 0..stored
  BY DEF ChainType
<1>2. FindBlockCountDays = DaysOf(view.cut, view.upto)
  BY DEF FindBlockCountDays, DaysOf
<1>3. QED
  BY <1>1, <1>2 DEF Seen
-----------------------------------------------------------------------------
LEMMA SignStarts == SignInit => SignInv
<1> SUFFICES ASSUME SignInit PROVE SignInv
  OBVIOUS
<1>1. ChainType
  BY ChainFacts DEF SignInit, ChainType
<1>2. UptimeType /\ UptimeOfRecentHeights
  BY SignAssumption DEF SignInit, UptimeType, UptimeOfRecentHeights, SyncIdle, InTable
<1>3. CacheType /\ CachedDaysAreFinal
  BY DEF SignInit, CacheType, CachedDaysAreFinal, InTable
<1>4. RefresherInv
  <2>1. \A r \in Refresher : /\ [JobIdle EXCEPT !.pc = IF r = "init" THEN "ready" ELSE "idle"] \in JobStates
                              /\ [JobIdle EXCEPT !.pc = IF r = "init" THEN "ready" ELSE "idle"].pc \notin {"nodes", "signs"}
    BY ListedFacts DEF JobStates, JobIdle
  <2>2. QED
    BY <2>1 DEF SignInit, RefresherInv
<1>5. QED
  BY <1>1, <1>2, <1>3, <1>4 DEF SignInv

LEMMA MineKeeps == ASSUME SignInv, Mine PROVE SignInv'
<1>1. ChainType
  BY DEF SignInv
<1> DEFINE S == {cut} \cup {h \in 1..height : chain[h].day < chain[height + 1].day - WindowDays}
<1>2. cut \in Nat /\ height \in Nat /\ cut <= height /\ S \in SUBSET Int /\ cut \in S /\ \A x \in S : x <= height
  BY <1>1, ChainFacts DEF ChainType
<1>4. cut' = Max(S) /\ height' = height + 1 /\ height < Len(chain)
  BY DEF Mine
<1>b. S # {}
  BY <1>2
<1> HIDE DEF S
<1>3. Max(S) \in S /\ \A x \in S : x <= Max(S)
  BY <1>2, <1>b, GreatestExists
<1>5. cut' \in 0..height /\ cut <= cut'
  <2>1. cut <= Max(S) /\ Max(S) \in Int /\ Max(S) <= height
    BY <1>2, <1>3
  <2>2. QED
    BY <1>2, <1>4, <2>1
<1>6. UNCHANGED <<chain, stored, nodeHeight, view, uptime, sync, cache, job>>
  BY DEF Mine, database
<1>7. Len(chain) \in Nat /\ height' \in 1..Len(chain)
  BY <1>1, <1>2, <1>4, ChainFacts DEF ChainType
<1>8. view' \in [upto : 0..stored', cut : 0..cut']
  <2>1. 0..cut \subseteq 0..cut'
    BY <1>2, <1>5
  <2>2. QED
    BY <1>1, <1>6, <2>1 DEF ChainType
<1>9. ChainType'
  BY <1>1, <1>2, <1>4, <1>5, <1>6, <1>7, <1>8 DEF ChainType
<1>10. QED
  BY <1>1, <1>5, <1>6, <1>9, ChainMoves DEF ChainType

LEMMA AgeKeeps == ASSUME SignInv, Age PROVE SignInv'
<1>1. ChainType
  BY DEF SignInv
<1>2. cut \in Nat /\ height \in Nat /\ cut' = cut + 1 /\ cut < height
  BY <1>1, ChainFacts DEF ChainType, Age
<1>3. UNCHANGED <<chain, height, stored, nodeHeight, view, uptime, sync, cache, job>>
  BY DEF Age, database
<1>4. 0..cut \subseteq 0..cut'
  BY <1>2
<1>5. ChainType'
  BY <1>1, <1>2, <1>3, <1>4 DEF ChainType
<1>6. QED
  BY <1>1, <1>2, <1>3, <1>5, ChainMoves DEF ChainType

LEMMA StoreKeeps == ASSUME SignInv, StoreSignatures PROVE SignInv'
<1>1. ChainType
  BY DEF SignInv
<1>2. stored \in Nat /\ height \in Nat /\ stored' = stored + 1 /\ stored < height /\ cut \in Nat
  BY <1>1, ChainFacts DEF ChainType, StoreSignatures
<1>3. UNCHANGED <<chain, height, cut, nodeHeight, view, uptime, sync, cache, job>>
  BY DEF StoreSignatures, chainVars
<1>4. 0..stored \subseteq 0..stored'
  BY <1>2
<1>5. ChainType'
  BY <1>1, <1>2, <1>3, <1>4 DEF ChainType
<1>6. QED
  BY <1>1, <1>2, <1>3, <1>5, ChainMoves DEF ChainType

LEMMA ScanKeeps == ASSUME SignInv, ScanNodes PROVE SignInv'
<1>1. ChainType
  BY DEF SignInv
<1>2. ChainType'
  BY <1>1, ChainFacts DEF ChainType, ScanNodes, chainVars
<1>3. QED
  BY <1>1, <1>2, ChainMoves DEF ChainType, ScanNodes, chainVars

LEMMA DailyKeeps == ASSUME SignInv, DailyJob PROVE SignInv'
<1>1. ChainType
  BY DEF SignInv
<1>2. ChainType'
  BY <1>1 DEF ChainType, DailyJob, chainVars, database
<1>3. QED
  BY <1>1, <1>2, ChainMoves DEF ChainType, DailyJob, chainVars, database

LEMMA SyncStartKeeps == ASSUME SignInv, SyncStart PROVE SignInv'
<1>1. sync' = [of |-> nodeHeight + 1, todo |-> Validators] /\ nodeHeight \in Nat
  BY DEF SyncStart, SignInv, ChainType
<1>2. sync' \in [of : {None} \cup Nat, todo : Seq(InTable)] /\ sync'.of \in Nat
  BY <1>1, ListedFacts
<1>3. UptimeType'
  BY <1>2 DEF SyncStart, SignInv, UptimeType, InTable
<1>4. chain' = chain /\ uptime' = uptime
  BY DEF SyncStart, chainVars
<1>5. UptimeOfRecentHeights'
  <2>1. \A n, H : Signatures(n, H)' = Signatures(n, H)
    BY <1>4 DEF Signatures
  <2>2. QED
    BY <1>4, <2>1 DEF SignInv, UptimeOfRecentHeights
<1>6. QED
  BY <1>3, <1>5, SyncMoves DEF SyncStart

(* The validators that are left are validators of the table.               *)
LEMMA TodoFacts ==
  ASSUME SignInv
  PROVE  /\ sync.todo # <<>> => /\ Head(sync.todo) \in InTable
                               /\ [sync EXCEPT !.todo = Tail(@)] \in [of : {None} \cup Nat, todo : Seq(InTable)]
         /\ SyncIdle \in [of : {None} \cup Nat, todo : Seq(InTable)]
<1>1. sync \in [of : {None} \cup Nat, todo : Seq(InTable)]
  BY DEF SignInv, UptimeType
<1>2. sync.todo # <<>> => Head(sync.todo) \in InTable /\ Tail(sync.todo) \in Seq(InTable)
  BY <1>1
<1>3. <<>> \in Seq(InTable)
  OBVIOUS
<1>4. QED
  BY <1>1, <1>2, <1>3 DEF SyncIdle

LEMMA SyncFailsKeeps == ASSUME SignInv, SyncFails PROVE SignInv'
<1>1. sync' = SyncIdle /\ uptime' = uptime /\ chain' = chain
  BY DEF SyncFails, chainVars
<1>2. UptimeType'
  BY <1>1, TodoFacts DEF SignInv, UptimeType, SyncIdle, InTable
<1>3. UptimeOfRecentHeights'
  <2>1. \A n, H : Signatures(n, H)' = Signatures(n, H)
    BY <1>1 DEF Signatures
  <2>2. QED
    BY <1>1, <2>1 DEF SignInv, UptimeOfRecentHeights
<1>4. QED
  BY <1>2, <1>3, SyncMoves DEF SyncFails

(* What is counted for a height above UptimeHeight.                        *)
LEMMA CountsRecent ==
  ASSUME SignInv, NEW v \in InTable, NEW n \in Nat
  PROVE  /\ CountSigns(NodesOf[v], n - UptimeHeight) \in Nat
         /\ n > UptimeHeight =>
              CountSigns(NodesOf[v], n - UptimeHeight)
                <= Cardinality(Signatures(NodesOf[v], DOMAIN chain \cap (n - UptimeHeight + 1 .. n)))
<1> DEFINE from == n - UptimeHeight
           S == {h \in 1..stored : from > 0 => h > from /\ h <= from + UptimeHeight}
           T == DOMAIN chain \cap (n - UptimeHeight + 1 .. n)
<1>1. UptimeHeight \in Nat /\ from \in Int /\ from + UptimeHeight = n
  BY SignAssumption
<1>2. chain \in Chains /\ stored \in Nat /\ stored <= Len(chain)
  BY ChainFacts DEF SignInv, ChainType
<1>3. S \subseteq DOMAIN chain
  BY <1>2, ChainFacts
<1>4. IsFiniteSet(NodesOf[v])
  BY ListedFacts
<1>5. CountSigns(NodesOf[v], from) = Cardinality(Signatures(NodesOf[v], S))
  BY DEF CountSigns
<1>6. n > UptimeHeight => S \subseteq T
  BY <1>1, <1>3
<1>7. T \subseteq DOMAIN chain
  OBVIOUS
<1> HIDE DEF S, T, from
<1>8. Cardinality(Signatures(NodesOf[v], S)) \in Nat
  BY <1>2, <1>3, <1>4, FewerSignatures
<1>9. S \subseteq T => Cardinality(Signatures(NodesOf[v], S)) <= Cardinality(Signatures(NodesOf[v], T))
  BY <1>2, <1>4, <1>7, FewerSignatures
<1>10. QED
  BY <1>5, <1>6, <1>8, <1>9 DEF T, from

LEMMA SyncUptimeKeeps == ASSUME SignInv, SyncUptime PROVE SignInv'
<1> DEFINE v == Head(sync.todo)
           new == [of |-> sync.of, signs |-> CountSigns(NodesOf[v], sync.of - UptimeHeight)]
<1>1. v \in InTable /\ sync.of \in Nat
  BY TodoFacts DEF SyncUptime, SignInv, UptimeType
<1>2. sync' \in [of : {None} \cup Nat, todo : Seq(InTable)] /\ (sync'.todo # <<>> => sync'.of \in Nat)
  BY <1>1, TodoFacts DEF SyncUptime, SyncIdle, SignInv, UptimeType
<1>3. uptime' = IF NodesOf[v] = {} THEN uptime ELSE [uptime EXCEPT ![v] = new]
  BY DEF SyncUptime
<1>4. new \in [of : Nat, signs : Nat]
  BY <1>1, CountsRecent
<1>5. /\ new.of = sync.of
      /\ new.of > UptimeHeight =>
            new.signs <= Cardinality(Signatures(NodesOf[v], DOMAIN chain \cap (new.of - UptimeHeight + 1 .. new.of)))
  BY <1>1, CountsRecent
<1> HIDE DEF v, new
<1>6. uptime \in [InTable -> [of : Nat, signs : Nat]]
  BY DEF SignInv, UptimeType
<1>7. uptime' \in [InTable -> [of : Nat, signs : Nat]]
  BY <1>1, <1>3, <1>4, <1>6
<1>8. UptimeType'
  BY <1>2, <1>7 DEF UptimeType, InTable
<1>9. \A w \in InTable : uptime'[w] = uptime[w] \/ (w = v /\ uptime'[w] = new)
  BY <1>3, <1>6
<1>10. chain' = chain
  BY DEF SyncUptime, chainVars
<1>11. \A n, H : Signatures(n, H)' = Signatures(n, H)
  BY <1>10 DEF Signatures
<1>12. UptimeOfRecentHeights'
  BY <1>5, <1>9, <1>10, <1>11 DEF SignInv, UptimeOfRecentHeights, InTable
<1>13. QED
  BY <1>8, <1>12, SyncMoves DEF SyncUptime

LEMMA JobStartKeeps == ASSUME SignInv, NEW r \in Refresher, JobStart(r) PROVE SignInv'
<1>1. CacheType' /\ CachedDaysAreFinal'
  BY CacheStays DEF SignInv, JobStart, chainVars
<1>2. QED
  BY <1>1, SkipsSafely, RefresherMoves DEF JobStart

LEMMA JobSkipsKeeps == ASSUME SignInv, NEW r \in Refresher, JobSkips(r) PROVE SignInv'
<1>1. CacheType' /\ CachedDaysAreFinal'
  BY CacheStays DEF SignInv, JobSkips, chainVars
<1>2. QED
  BY <1>1, SkipsSafely, RefresherMoves DEF JobSkips

(* The validator a refresher is at. *)
LEMMA AtValidator ==
  ASSUME SignInv, NEW r \in Refresher, job[r].pc \in {"nodes", "signs"}
  PROVE  Validators[job[r].i] \in InTable
<1>1. job[r].i \in 1..Len(Validators)
  BY ListedFacts DEF SignInv, RefresherInv, JobStates
<1>2. QED
  BY <1>1, ListedFacts

LEMMA FindNodesKeeps == ASSUME SignInv, NEW r \in Refresher, FindNodes(r) PROVE SignInv'
<1> DEFINE v == Validators[job[r].i]
<1>1. v \in InTable
  BY AtValidator DEF FindNodes
<1>2. chain' = chain /\ UNCHANGED <<chainVars, database, view, uptime, sync>>
  BY DEF FindNodes, chainVars
<1>3. CASE NodesOf[v] = {}
  <2>1. cache' = [cache EXCEPT ![v] = NoStats] /\ job' = [job EXCEPT ![r] = Skips(r)]
    BY <1>3 DEF FindNodes
  <2>2. NoStats \in Stats /\ Final(v, NoStats)
    BY DEF NoStats, Stats, Final
  <2>3. CacheType' /\ CachedDaysAreFinal'
    BY <1>1, <1>2, <2>1, <2>2, EntrySet
  <2>4. QED
    BY <1>2, <2>1, <2>3, SkipsSafely, RefresherMoves
<1>4. CASE NodesOf[v] # {}
  <2> DEFINE new == [job[r] EXCEPT !.pc = "signs", !.days = FindBlockCountDays]
  <2>1. job' = [job EXCEPT ![r] = new] /\ cache' = cache
    BY <1>4 DEF FindNodes, SignInv, RefresherInv
  <2>2. job[r] \in JobStates /\ job[r].i # 0
    BY DEF FindNodes, SignInv, RefresherInv
  <2>3. FindBlockCountDays \in Seen
    BY ViewIsSeen DEF SignInv
  <2>4. new \in JobStates /\ new.i # 0 /\ new.days \in Seen
    BY <2>2, <2>3 DEF JobStates
  <2>5. CacheType' /\ CachedDaysAreFinal'
    BY <1>2, <2>1, CacheStays DEF SignInv
  <2> HIDE DEF new
  <2>6. QED
    BY <1>2, <2>1, <2>4, <2>5, RefresherMoves
<1>5. QED
  BY <1>3, <1>4

LEMMA SetStatsKeeps == ASSUME SignInv, NEW r \in Refresher, SetStats(r) PROVE SignInv'
<1> DEFINE v == Validators[job[r].i]
           stats == {[day |-> d, expected |-> job[r].days[d],
                      actual |-> Cardinality(ValidatorSignStats(NodesOf[v]) \cap OfDay(d))] :
                        d \in PastDays(job[r].days)}
           new == [cutAt |-> cut, days |-> stats]
<1>1. v \in InTable
  BY AtValidator DEF SetStats
<1>2. chain' = chain /\ UNCHANGED <<chainVars, database, view, uptime, sync>> /\ job' = [job EXCEPT ![r] = Skips(r)]
  BY DEF SetStats, chainVars
<1>3. PICK c \in 0..cut, u \in 0..stored : job[r].days = DaysOf(c, u)
  BY DEF SetStats, SignInv, RefresherInv, Seen
<1>4. new \in Stats /\ Final(v, new)
  BY <1>3, StatsAreFinal DEF SignInv
<1>5. cache' = cache \/ cache' = [cache EXCEPT ![v] = new]
  BY DEF SetStats
<1> HIDE DEF v, new
<1>6. CacheType' /\ CachedDaysAreFinal'
  BY <1>1, <1>2, <1>4, <1>5, EntrySet, CacheStays DEF SignInv
<1>7. QED
  BY <1>2, <1>6, SkipsSafely, RefresherMoves

(* A refresher that has not started, or is done. *)
LEMMA IdleIsSafe ==
  /\ JobIdle \in JobStates /\ JobIdle.pc \notin {"nodes", "signs"}
  /\ \A pc \in {"idle", "ready"} :
       [JobIdle EXCEPT !.pc = pc] \in JobStates /\ [JobIdle EXCEPT !.pc = pc].pc = pc
<1>1. 0 \in 0..Len(Validators)
  BY ListedFacts
<1>2. QED
  BY <1>1 DEF JobStates, JobIdle

LEMMA ApiFailsKeeps == ASSUME SignInv, ApiFails PROVE SignInv'
<1>1. chain' = chain /\ UNCHANGED <<chainVars, database, view, uptime, sync>>
  BY DEF ApiFails, chainVars
<1>2. ASSUME NEW r \in Refresher, job' = [job EXCEPT ![r] = JobIdle], cache' = cache
      PROVE  SignInv'
  <2>1. CacheType' /\ CachedDaysAreFinal'
    BY <1>1, <1>2, CacheStays DEF SignInv
  <2>2. QED
    BY <1>1, <1>2, <2>1, IdleIsSafe, RefresherMoves
<1>3. ASSUME job' = [r \in Refresher |-> [JobIdle EXCEPT !.pc = IF r = "init" THEN "ready" ELSE "idle"]],
             cache' = [v \in InTable |-> None]
      PROVE  SignInv'
  <2>1. CacheType'
    BY <1>3 DEF CacheType, InTable
  <2>2. CachedDaysAreFinal'
    BY <1>3 DEF CachedDaysAreFinal, InTable
  <2>3. job' \in [Refresher -> JobStates] /\ \A r \in Refresher : job'[r].pc \notin {"nodes", "signs"}
    BY <1>3, IdleIsSafe
  <2>4. QED
    BY <1>1, <2>1, <2>2, <2>3, RefreshersMove
<1>4. QED
  BY <1>2, <1>3 DEF ApiFails, InTable

LEMMA ExpireKeeps == ASSUME SignInv, NEW v \in InTable, Expire(v) PROVE SignInv'
<1>1. chain' = chain /\ UNCHANGED <<chainVars, database, view, uptime, sync, job>>
  BY DEF Expire, chainVars
<1>2. CacheType' /\ CachedDaysAreFinal'
  BY <1>1, EntrySet DEF Expire
<1>3. job' \in [Refresher -> JobStates] /\
      \A r \in Refresher :
           /\ job'[r].pc \in {"nodes", "signs"} => job'[r].i # 0
           /\ job'[r].pc = "signs" => job'[r].days \in Seen
  BY <1>1 DEF SignInv, RefresherInv
<1>4. QED
  BY <1>1, <1>2, <1>3, RefreshersMove

LEMMA SignRests == ASSUME SignInv, UNCHANGED <<chainVars, database, view, uptime, sync, cache, job>> PROVE SignInv'
<1>1. UptimeType' /\ UptimeOfRecentHeights'
  BY UptimeStays DEF SignInv, chainVars
<1>2. QED
  BY <1>1, SyncMoves

LEMMA UptimeKeeps == ASSUME SignInv, UptimeNext PROVE SignInv'
BY MineKeeps, StoreKeeps, ScanKeeps, SyncStartKeeps, SyncUptimeKeeps, SyncFailsKeeps DEF UptimeNext

LEMMA SignKeeps == ASSUME SignInv, SignNext PROVE SignInv'
<1>1. CASE Mine \/ Age \/ StoreSignatures \/ DailyJob
  BY <1>1, MineKeeps, AgeKeeps, StoreKeeps, DailyKeeps
<1>2. ASSUME NEW r \in Refresher, SignStatsCacheJob(r) PROVE SignInv'
  BY <1>2, JobStartKeeps, FindNodesKeeps, SetStatsKeeps DEF SignStatsCacheJob
<1>3. ASSUME NEW r \in Refresher, JobSkips(r) PROVE SignInv'
  BY <1>3, JobSkipsKeeps
<1>4. CASE ApiFails
  BY <1>4, ApiFailsKeeps
<1>5. ASSUME NEW v \in InTable, Expire(v) PROVE SignInv'
  BY <1>5, ExpireKeeps
<1>6. QED
  BY <1>1, <1>2, <1>3, <1>4, <1>5 DEF SignNext, InTable
-----------------------------------------------------------------------------
(* Take.                                                                   *)

Since == 0..MaxChanges

(* What a call comes to: an answer, or no answer, which has no data.       *)
Result == {Answer(n) : n \in Since} \cup {Failed(how) : how \in {"error", "nil", "none", "panic"}}

Call ==
  [key : Key, pc : {"take", "barrier", "wait", "check", "fetch", "return"},
   done : Nat, since : Since, result : Result]

Request == [calls : Seq(Call), floor : Since, reply : Result]

TakeTypeOK ==
  /\ topic \subseteq Key /\ version \in Since
  /\ held \in [Key -> Since \cup {None}]
  /\ leader \in [Key -> Client \cup {None}]
  /\ served \in [Key -> Since]
  /\ client \in [Client -> Request]

Depth(c) == Len(client[c].calls)
At(c, i) == client[c].calls[i]

(* A request makes one answer, and that of MarketInfo a chart on the way.  *)
StackInv ==
  \A c \in Client :
    /\ Depth(c) <= 2
    /\ Depth(c) = 2 =>
         /\ At(c, 1).key = "info" /\ At(c, 1).pc = "fetch" /\ At(c, 1).done = 1
         /\ At(c, 2).key = "chart"

(* A call that has not begun to make the answer knows nothing; one that    *)
(* has knows nothing newer than the data.                                  *)
Unread(f) ==
  \/ f.done = 0 /\ f.since = MaxChanges
  \/ f.pc = "fetch" /\ f.since <= version
  \/ f.pc = "return"

(* One request at a time makes the answer of a key, and only when there is *)
(* none.                                                                   *)
LeaderInv ==
  \A c \in Client : \A i \in 1..Depth(c) :
    /\ At(c, i).pc \in {"check", "fetch"} => leader[At(c, i).key] = c
    /\ At(c, i).pc = "fetch" => held[At(c, i).key] = None
    /\ Unread(At(c, i))

(* A call that has an answer to k of version n. *)
Gives(f, k, n) == f.key = k /\ f.pc = "return" /\ f.result = Answer(n)

(* A call that has used a chart of version n, or older data.               *)
Uses(f, n) == f.key = "info" /\ f.pc = "fetch" /\ f.done > 1 /\ n = f.since

(* An answer to k that is in the cache, or that somebody has or had.       *)
Past(k, n) ==
  \/ n = served[k]
  \/ held[k] # None /\ n = held[k]
  \/ \E c \in Client : \E i \in 1..Depth(c) : Gives(At(c, i), k, n)

(* A chart that MarketInfo has used for an answer, given or not yet.       *)
Used(n) ==
  \/ Past("info", n)
  \/ \E c \in Client : \E i \in 1..Depth(c) : Uses(At(c, i), n)

(* What no answer to k may fall behind.                                    *)
Bound(k, n) == Past(k, n) \/ (k = "chart" /\ Used(n))

FreshInv ==
  /\ \A k \in Key : \A n \in Since : Bound(k, n) => n <= version
  /\ \A k \in Key : held[k] # None => \A n \in Since : Bound(k, n) => n <= held[k]
  /\ \A c \in Client : \A i \in 1..Depth(c) :
       /\ At(c, i).pc = "fetch" => \A n \in Since : Bound(At(c, i).key, n) => n <= At(c, i).since
       /\ i = 2 /\ At(c, i).pc = "return" /\ At(c, i).result.is = "answer" =>
            \A n \in Since : Used(n) => n <= At(c, i).result.since

FloorInv ==
  \A c \in Client : Depth(c) > 0 =>
    /\ client[c].floor <= served[At(c, 1).key]
    /\ \A n \in Since : Gives(At(c, 1), At(c, 1).key, n) => client[c].floor <= n

TakeInv ==
  TakeTypeOK /\ StackInv /\ LeaderInv /\ FreshInv /\ FloorInv /\ TakenNeverGoesBack
-----------------------------------------------------------------------------
(* Stacks of calls.                                                        *)

LEMMA FrontFacts ==
  ASSUME NEW S, NEW calls \in Seq(S), calls # <<>>
  PROVE  /\ Front(calls) \in Seq(S) /\ Len(calls) \in Nat \ {0} /\ Len(Front(calls)) = Len(calls) - 1
         /\ \A i \in 1..Len(calls) - 1 : Front(calls)[i] = calls[i]
<1>1. Len(calls) \in Nat \ {0} /\ \A i \in 1..Len(calls) : calls[i] \in S
  OBVIOUS
<1>2. Front(calls) = [i \in 1..Len(calls) - 1 |-> calls[i]]
  BY DEF Front
<1>3. Len(calls) - 1 \in Nat /\ \A i \in 1..Len(calls) - 1 : i \in 1..Len(calls)
  BY <1>1
<1>4. QED
  BY <1>1, <1>2, <1>3

LEMMA PutFacts ==
  ASSUME NEW calls \in Seq(Call), calls # <<>>, NEW f \in Call
  PROVE  /\ Put(calls, f) \in Seq(Call)
         /\ Len(Put(calls, f)) = Len(calls) /\ Len(calls) \in Nat \ {0}
         /\ \A i \in 1..Len(calls) : Put(calls, f)[i] = IF i = Len(calls) THEN f ELSE calls[i]
<1>1. /\ Front(calls) \in Seq(Call) /\ Len(calls) \in Nat \ {0} /\ Len(Front(calls)) = Len(calls) - 1
      /\ \A i \in 1..Len(calls) - 1 : Front(calls)[i] = calls[i]
  BY FrontFacts
<1>2. QED
  BY <1>1 DEF Put

LEMMA TopFacts ==
  ASSUME TakeTypeOK, NEW c \in Client, Busy(c)
  PROVE  /\ client[c].calls \in Seq(Call) /\ client[c].calls # <<>>
         /\ Depth(c) \in Nat \ {0}
         /\ Top(c) = At(c, Depth(c)) /\ Top(c) \in Call
<1>1. client[c].calls \in Seq(Call) /\ client[c].calls # <<>>
  BY DEF TakeTypeOK, Request, Busy
<1>2. QED
  BY <1>1 DEF Top, Last, Depth, At

LEMMA CallFacts ==
  ASSUME TakeTypeOK, NEW c \in Client
  PROVE  /\ client[c].calls \in Seq(Call) /\ Depth(c) \in Nat
         /\ \A i \in 1..Depth(c) : At(c, i) \in Call
<1>1. client[c].calls \in Seq(Call)
  BY DEF TakeTypeOK, Request
<1>2. QED
  BY <1>1 DEF Depth, At

LEMMA ResultFacts ==
  /\ \A n \in Since : Answer(n) \in Result /\ Answer(n).is = "answer" /\ Answer(n).since = n
  /\ \A how \in {"error", "nil", "none", "panic"} : Failed(how) \in Result /\ Failed(how).is # "answer" /\ Failed(how).since = 0
  /\ \A r \in Result : r.since \in Since /\ (r.is = "answer" => r = Answer(r.since)) /\ (r.is # "answer" => r.since = 0)
<1>1. 0 \in Since /\ Since \subseteq Nat
  BY TakeAssumption DEF Since
<1>2. QED
  BY <1>1 DEF Result, Answer, Failed

LEMMA MinMax ==
  ASSUME NEW a \in Nat, NEW b \in Nat
  PROVE  /\ Min({a, b}) = IF a <= b THEN a ELSE b
         /\ Max({a, b}) = IF a <= b THEN b ELSE a
<1>1. \E x \in {a, b} : \A y \in {a, b} : x <= y
  OBVIOUS
<1>2. \E x \in {a, b} : \A y \in {a, b} : x >= y
  OBVIOUS
<1>3. Min({a, b}) \in {a, b} /\ \A y \in {a, b} : Min({a, b}) <= y
  BY <1>1 DEF Min
<1>4. Max({a, b}) \in {a, b} /\ \A y \in {a, b} : Max({a, b}) >= y
  BY <1>2 DEF Max
<1>5. QED
  BY <1>3, <1>4

LEMMA QueryFacts ==
  /\ Key = {"validators", "info", "chart", "status", "runtimeStats", "days", "votes"}
  /\ \A k \in Key : Len(Queries[k]) \in Nat \ {0}
  /\ Len(Queries["info"]) = 2
  /\ \A k \in Key, n \in Nat : n < Len(Queries[k]) =>
       (Queries[k][n + 1] = "chart" <=> k = "info" /\ n = 1)

<1>1. Key = {"validators", "info", "chart", "status", "runtimeStats", "days", "votes"}
  BY DEF Key, Queries
<1>2. /\ Queries["validators"] = <<"escrow", "validator", "delegator">>
      /\ Queries["info"] = <<"coingecko", "chart">>
      /\ Queries["chart"] = <<"coingecko">>
      /\ Queries["status"] = <<"status", "transaction", "escrow", "active", "delegator">>
      /\ Queries["runtimeStats"] = <<"runtime_node", "status", "registry", "validator", "runtime_stats">>
      /\ Queries["days"] = <<"reward">>
      /\ Queries["votes"] = <<"proposal", "status", "votes", "epoch", "account", "validator">>
  BY DEF Queries, ValidatorList, MarketInfo, MarketChart, NetworkStatus, RuntimeStats, FindDays, ProposalVotes
<1>3. /\ Len(Queries["validators"]) = 3 /\ Len(Queries["info"]) = 2 /\ Len(Queries["chart"]) = 1
      /\ Len(Queries["status"]) = 5 /\ Len(Queries["runtimeStats"]) = 5 /\ Len(Queries["days"]) = 1
      /\ Len(Queries["votes"]) = 6
  BY <1>2
<1>4. ASSUME NEW k \in Key, NEW n \in Nat, n < Len(Queries[k])
      PROVE  Queries[k][n + 1] = "chart" <=> k = "info" /\ n = 1
  <2>1. CASE k = "validators"
    <3>1. n = 0 \/ n = 1 \/ n = 2
      <4>1. Len(Queries[k]) = 3
        BY <1>3, <2>1
      <4>2. n < 3
        BY <1>4, <4>1
      <4>3. QED
        BY <4>2
    <3>2. Queries[k][1] # "chart" /\ Queries[k][2] # "chart" /\ Queries[k][3] # "chart"
      BY <1>2, <2>1
    <3>3. QED
      BY <2>1, <3>1, <3>2
  <2>2. CASE k = "info"
    <3>1. n = 0 \/ n = 1
      <4>1. Len(Queries[k]) = 2
        BY <1>3, <2>2
      <4>2. n < 2
        BY <1>4, <4>1
      <4>3. QED
        BY <4>2
    <3>2. Queries[k][1] # "chart" /\ Queries[k][2] = "chart"
      BY <1>2, <2>2
    <3>3. QED
      BY <2>2, <3>1, <3>2
  <2>3. CASE k = "chart"
    <3>1. n = 0
      <4>1. Len(Queries[k]) = 1
        BY <1>3, <2>3
      <4>2. n < 1
        BY <1>4, <4>1
      <4>3. QED
        BY <4>2
    <3>2. Queries[k][1] # "chart"
      BY <1>2, <2>3
    <3>3. QED
      BY <2>3, <3>1, <3>2
  <2>4. CASE k = "status"
    <3>1. n = 0 \/ n = 1 \/ n = 2 \/ n = 3 \/ n = 4
      <4>1. Len(Queries[k]) = 5
        BY <1>3, <2>4
      <4>2. n < 5
        BY <1>4, <4>1
      <4>3. QED
        BY <4>2
    <3>2. Queries[k][1] # "chart" /\ Queries[k][2] # "chart" /\ Queries[k][3] # "chart" /\ Queries[k][4] # "chart" /\ Queries[k][5] # "chart"
      BY <1>2, <2>4
    <3>3. QED
      BY <2>4, <3>1, <3>2
  <2>5. CASE k = "runtimeStats"
    <3>1. n = 0 \/ n = 1 \/ n = 2 \/ n = 3 \/ n = 4
      <4>1. Len(Queries[k]) = 5
        BY <1>3, <2>5
      <4>2. n < 5
        BY <1>4, <4>1
      <4>3. QED
        BY <4>2
    <3>2. Queries[k][1] # "chart" /\ Queries[k][2] # "chart" /\ Queries[k][3] # "chart" /\ Queries[k][4] # "chart" /\ Queries[k][5] # "chart"
      BY <1>2, <2>5
    <3>3. QED
      BY <2>5, <3>1, <3>2
  <2>6. CASE k = "days"
    <3>1. n = 0
      <4>1. Len(Queries[k]) = 1
        BY <1>3, <2>6
      <4>2. n < 1
        BY <1>4, <4>1
      <4>3. QED
        BY <4>2
    <3>2. Queries[k][1] # "chart"
      BY <1>2, <2>6
    <3>3. QED
      BY <2>6, <3>1, <3>2
  <2>7. CASE k = "votes"
    <3>1. n = 0 \/ n = 1 \/ n = 2 \/ n = 3 \/ n = 4 \/ n = 5
      <4>1. Len(Queries[k]) = 6
        BY <1>3, <2>7
      <4>2. n < 6
        BY <1>4, <4>1
      <4>3. QED
        BY <4>2
    <3>2. Queries[k][1] # "chart" /\ Queries[k][2] # "chart" /\ Queries[k][3] # "chart" /\ Queries[k][4] # "chart" /\ Queries[k][5] # "chart" /\ Queries[k][6] # "chart"
      BY <1>2, <2>7
    <3>3. QED
      BY <2>7, <3>1, <3>2
  <2>8. QED
    BY <1>1, <2>1, <2>2, <2>3, <2>4, <2>5, <2>6, <2>7
<1>5. ASSUME NEW k \in Key PROVE Len(Queries[k]) \in Nat \ {0}
  BY <1>1, <1>3, <1>5
<1>6. QED
  BY <1>1, <1>3, <1>4, <1>5
-----------------------------------------------------------------------------
(* How a step changes the calls.                                           *)

(* The topmost call of c becomes f.                                        *)
TopBecomes(c, f) == client' = [client EXCEPT ![c].calls = Put(@, f)]

LEMMA TopBecomesFacts ==
  ASSUME TakeTypeOK, NEW c \in Client, Busy(c), NEW f \in Call, TopBecomes(c, f)
  PROVE  /\ client' \in [Client -> Request]
         /\ \A d \in Client : /\ client'[d].floor = client[d].floor /\ client'[d].reply = client[d].reply
                             /\ Depth(d)' = Depth(d)
                             /\ \A i \in 1..Depth(d) : At(d, i)' = IF d = c /\ i = Depth(c) THEN f ELSE At(d, i)
<1>1. client \in [Client -> Request]
  BY DEF TakeTypeOK
<1>2. /\ Put(client[c].calls, f) \in Seq(Call) /\ Len(Put(client[c].calls, f)) = Depth(c)
      /\ \A i \in 1..Depth(c) : Put(client[c].calls, f)[i] = IF i = Depth(c) THEN f ELSE At(c, i)
  <2>1. client[c].calls \in Seq(Call) /\ client[c].calls # <<>>
    BY TopFacts
  <2>2. QED
    BY <2>1, PutFacts DEF Depth, At
<1>3. client' = [client EXCEPT ![c] = [client[c] EXCEPT !.calls = Put(client[c].calls, f)]]
  BY DEF TopBecomes
<1>4. [client[c] EXCEPT !.calls = Put(client[c].calls, f)] \in Request
  BY <1>1, <1>2 DEF Request
<1>5. client' \in [Client -> Request]
  BY <1>1, <1>3, <1>4
<1>6. \A d \in Client : client'[d] = IF d = c THEN [client[c] EXCEPT !.calls = Put(client[c].calls, f)] ELSE client[d]
  BY <1>1, <1>3
<1>7. client'[c].floor = client[c].floor /\ client'[c].reply = client[c].reply
      /\ client'[c].calls = Put(client[c].calls, f)
  BY <1>1, <1>6 DEF Request
<1>8. QED
  BY <1>2, <1>5, <1>6, <1>7 DEF Depth, At

Ended(f, result) == [f EXCEPT !.pc = "return", !.result = result]

LEMMA EndedFacts ==
  ASSUME NEW f \in Call, NEW r \in Result
  PROVE  /\ Ended(f, r) \in Call /\ Ended(f, r).key = f.key /\ Ended(f, r).pc = "return" /\ Ended(f, r).result = r
         /\ Ended(f, r).done = f.done /\ Ended(f, r).since = f.since
BY DEF Ended, Call

LEMMA ReturnFacts ==
  ASSUME NEW calls \in Seq(Call), calls # <<>>, NEW r \in Result
  PROVE  /\ Return(calls, r) \in Seq(Call) /\ Len(Return(calls, r)) = Len(calls) /\ Len(calls) \in Nat \ {0}
         /\ \A i \in 1..Len(calls) : Return(calls, r)[i] = IF i = Len(calls) THEN Ended(calls[i], r) ELSE calls[i]
<1>1. Last(calls) = calls[Len(calls)] /\ Last(calls) \in Call
  BY DEF Last
<1>2. Return(calls, r) = Put(calls, Ended(Last(calls), r))
  BY DEF Return, Ended
<1>3. Ended(Last(calls), r) \in Call
  BY <1>1, EndedFacts
<1>4. /\ Put(calls, Ended(Last(calls), r)) \in Seq(Call) /\ Len(Put(calls, Ended(Last(calls), r))) = Len(calls)
      /\ Len(calls) \in Nat \ {0}
      /\ \A i \in 1..Len(calls) :
           Put(calls, Ended(Last(calls), r))[i] = IF i = Len(calls) THEN Ended(Last(calls), r) ELSE calls[i]
  BY <1>3, PutFacts
<1>5. QED
  BY <1>1, <1>2, <1>4

(* The requests but c that wait for the answer to k get result r.          *)
WaitersGet(c, k, r) ==
  \A d \in Client \ {c} :
    client'[d] = IF Waits(d, k) THEN [client[d] EXCEPT !.calls = Return(@, r)] ELSE client[d]

LEMMA WaitersFacts ==
  ASSUME TakeTypeOK, NEW c, NEW k, NEW r \in Result, WaitersGet(c, k, r), NEW d \in Client \ {c}
  PROVE  /\ client'[d] \in Request /\ client'[d].floor = client[d].floor /\ client'[d].reply = client[d].reply
         /\ Depth(d)' = Depth(d)
         /\ \A i \in 1..Depth(d) :
              \/ At(d, i)' = At(d, i)
              \/ At(d, i).key = k /\ At(d, i).pc = "wait" /\ i = Depth(d) /\ At(d, i)' = Ended(At(d, i), r)
<1>1. client[d] \in Request
  BY DEF TakeTypeOK
<1>2. CASE Waits(d, k)
  <2>1. client'[d] = [client[d] EXCEPT !.calls = Return(client[d].calls, r)]
    BY <1>2 DEF WaitersGet
  <2>2. client[d].calls \in Seq(Call) /\ client[d].calls # <<>> /\ Top(d) = At(d, Depth(d))
    BY <1>2, TopFacts DEF Waits
  <2>3. Return(client[d].calls, r) \in Seq(Call)
    BY <2>2, ReturnFacts
  <2>4. client'[d] \in Request /\ client'[d].floor = client[d].floor /\ client'[d].reply = client[d].reply
        /\ client'[d].calls = Return(client[d].calls, r)
    BY <1>1, <2>1, <2>3 DEF Request
  <2>5. Depth(d)' = Depth(d)
        /\ \A i \in 1..Depth(d) : At(d, i)' = IF i = Depth(d) THEN Ended(At(d, i), r) ELSE At(d, i)
    BY <2>2, <2>4, ReturnFacts DEF Depth, At
  <2>6. At(d, Depth(d)).key = k /\ At(d, Depth(d)).pc = "wait"
    BY <1>2, <2>2 DEF Waits
  <2>7. QED
    BY <2>4, <2>5, <2>6
<1>3. CASE ~Waits(d, k)
  BY <1>1, <1>3 DEF WaitersGet, Depth, At
<1>4. QED
  BY <1>2, <1>3
-----------------------------------------------------------------------------
(* What the calls hold is fresh.                                           *)

(* Nothing that a call holds is new, or less than the bounds.              *)
Safe(f, i) ==
  /\ \A k \in Key : \A n \in Since : Gives(f, k, n) => Past(k, n)
  /\ \A n \in Since : Uses(f, n) => Used(n)
  /\ f.pc = "fetch" => \A n \in Since : Bound(f.key, n) => n <= f.since
  /\ i = 2 /\ f.pc = "return" /\ f.result.is = "answer" =>
       \A n \in Since : Used(n) => n <= f.result.since

LEMMA OldIsSafe ==
  ASSUME TakeInv, NEW c \in Client, NEW i \in 1..Depth(c)
  PROVE  Safe(At(c, i), i)
BY DEF Safe, TakeInv, FreshInv, Past, Used

LEMMA UnansweredIsSafe ==
  ASSUME NEW f \in Call, NEW i,
         f.pc \in {"take", "barrier", "wait", "check"} \/ (f.pc = "return" /\ f.result.is # "answer")
  PROVE  Safe(f, i)
BY ResultFacts DEF Safe, Gives, Uses

(* An answer from the cache. *)
LEMMA HeldIsSafe ==
  ASSUME TakeInv, NEW f \in Call, NEW i, f.pc = "return", held[f.key] # None,
         f.result = Answer(held[f.key]), i = 2 => f.key = "chart"
  PROVE  Safe(f, i) /\ served[f.key] <= f.result.since
<1>1. f.key \in Key /\ held[f.key] \in Since /\ served[f.key] \in Since
  BY DEF Call, TakeInv, TakeTypeOK
<1>2. f.result.is = "answer" /\ f.result.since = held[f.key]
  BY <1>1, ResultFacts
<1>3. \A k, n : Gives(f, k, n) => Past(k, n)
  BY DEF Gives, Past, Answer
<1>4. \A n \in Since : Bound(f.key, n) => n <= held[f.key]
  BY <1>1 DEF TakeInv, FreshInv
<1>5. Past(f.key, served[f.key])
  BY DEF Past
<1>6. QED
  BY <1>1, <1>2, <1>3, <1>4, <1>5 DEF Safe, Uses, Bound

LEMMA PastStays ==
  ASSUME NEW k \in Key, NEW n \in Since, Past(k, n)',
         n = served'[k] => Past(k, n),
         held'[k] # None /\ n = held'[k] => Past(k, n),
         \A d \in Client : \A i \in 1..Depth(d)' : Gives(At(d, i)', k, n) => Past(k, n)
  PROVE  Past(k, n)
<1>1. ASSUME NEW d \in Client, NEW i \in 1..Depth(d)', Gives(At(d, i), k, n)' PROVE Past(k, n)
  <2>1. Gives(At(d, i)', k, n)
    BY <1>1 DEF Gives
  <2>2. QED
    BY <2>1
<1>2. QED
  BY <1>1 DEF Past

LEMMA FreshStays ==
  ASSUME TakeInv, client' \in [Client -> Request], version' \in Since, version <= version',
         \A k \in Key : \A n \in Since : n = served'[k] => Past(k, n),
         \A k \in Key : held'[k] = held[k] \/ held'[k] = None,
         \A d \in Client : \A i \in 1..Depth(d)' : Safe(At(d, i)', i)
  PROVE  FreshInv'
<1>1. ASSUME NEW k \in Key, NEW n \in Since, Past(k, n)' PROVE Past(k, n)
  <2>1. held'[k] # None /\ n = held'[k] => Past(k, n)
    BY DEF Past
  <2>2. QED
    BY <1>1, <2>1, PastStays DEF Safe
<1>2. "info" \in Key
  BY QueryFacts
<1>3. ASSUME NEW n \in Since, Used(n)' PROVE Used(n)
  <2>1. ASSUME NEW d \in Client, NEW i \in 1..Depth(d)', Uses(At(d, i), n)' PROVE Used(n)
    <3>1. Uses(At(d, i)', n)
      BY <2>1 DEF Uses
    <3>2. QED
      BY <3>1 DEF Safe
  <2>2. Past("info", n)' => Used(n)
    BY <1>1, <1>2 DEF Used
  <2>3. QED
    BY <1>3, <2>1, <2>2 DEF Used
<1>4. ASSUME NEW k \in Key, NEW n \in Since, Bound(k, n)' PROVE Bound(k, n)
  BY <1>1, <1>3, <1>4 DEF Bound
<1>5. ASSUME NEW k \in Key, NEW n \in Since, Bound(k, n)' PROVE n <= version'
  <2>1. n <= version
    BY <1>4, <1>5 DEF TakeInv, FreshInv
  <2>2. n \in Nat /\ version \in Nat /\ version' \in Nat
    BY TakeAssumption DEF Since, TakeInv, TakeTypeOK
  <2>3. QED
    BY <2>1, <2>2
<1>6. ASSUME NEW k \in Key, held'[k] # None, NEW n \in Since, Bound(k, n)' PROVE n <= held'[k]
  BY <1>4, <1>6 DEF TakeInv, FreshInv
<1>7. ASSUME NEW d \in Client, NEW i \in 1..Depth(d)'
      PROVE  /\ At(d, i)'.pc = "fetch" => \A n \in Since : Bound(At(d, i).key, n)' => n <= At(d, i)'.since
             /\ i = 2 /\ At(d, i)'.pc = "return" /\ At(d, i)'.result.is = "answer" =>
                  \A n \in Since : Used(n)' => n <= At(d, i)'.result.since
  <2>1. Safe(At(d, i)', i)
    OBVIOUS
  <2>2. PICK k \in Key : k = At(d, i)'.key
    <3>1. client'[d].calls \in Seq(Call) /\ i \in 1..Len(client'[d].calls)
      BY DEF Request, Depth
    <3>2. client'[d].calls[i] \in Call
      BY <3>1
    <3>3. QED
      BY <3>2 DEF Call, At
  <2>3. ASSUME NEW n \in Since, Bound(At(d, i).key, n)' PROVE Bound(k, n)
    <3>1. Bound(k, n)'
      BY <2>2, <2>3 DEF Bound, Past
    <3>2. QED
      BY <1>4, <3>1
  <2>4. QED
    BY <1>3, <2>1, <2>2, <2>3 DEF Safe
<1>8. QED
  BY <1>5, <1>6, <1>7 DEF FreshInv
-----------------------------------------------------------------------------
(* The steps of one call.                                                  *)

(* The topmost call of c becomes f, and the data stays.                    *)
LEMMA TopKeeps ==
  ASSUME TakeInv, NEW c \in Client, Busy(c), NEW f \in Call, TopBecomes(c, f),
         UNCHANGED <<topic, version, held, served>>,
         leader' \in [Key -> Client \cup {None}],
         f.key = Top(c).key,
         \A d \in Client : \A i \in 1..Depth(d) :
           (d # c \/ i # Depth(c)) /\ At(d, i).pc \in {"check", "fetch"} => leader'[At(d, i).key] = d,
         f.pc \in {"check", "fetch"} => leader'[f.key] = c,
         f.pc = "fetch" => held[f.key] = None,
         Unread(f), Safe(f, Depth(c)),
         f.pc = "return" => f.result.is # "answer" \/ served[f.key] <= f.result.since
  PROVE  TakeInv'
<1> USE DEF TakeInv
<1>1. /\ client' \in [Client -> Request]
      /\ \A d \in Client : /\ client'[d].floor = client[d].floor /\ client'[d].reply = client[d].reply
                          /\ Depth(d)' = Depth(d)
                          /\ \A i \in 1..Depth(d) : At(d, i)' = IF d = c /\ i = Depth(c) THEN f ELSE At(d, i)
  BY TopBecomesFacts
<1>2. Top(c) = At(c, Depth(c)) /\ Depth(c) \in Nat \ {0}
  BY TopFacts
<1>3. TakeTypeOK'
  BY <1>1 DEF TakeTypeOK
<1>4. StackInv'
  <2>1. ASSUME NEW d \in Client, Depth(d) = 2
        PROVE  At(d, 1)' = At(d, 1) /\ At(d, 2)'.key = At(d, 2).key
    BY <1>1, <1>2, <2>1
  <2>2. QED
    BY <1>1, <2>1 DEF StackInv
<1>5. LeaderInv'
  <2>1. ASSUME NEW d \in Client, NEW i \in 1..Depth(d)
        PROVE  /\ At(d, i)'.pc \in {"check", "fetch"} => leader'[At(d, i)'.key] = d
               /\ At(d, i)'.pc = "fetch" => held'[At(d, i)'.key] = None
               /\ Unread(At(d, i)')
    BY <1>1 DEF LeaderInv
  <2>2. QED
    BY <1>1, <2>1 DEF LeaderInv, Unread
<1>6. FreshInv'
  <2>1. \A d \in Client : \A i \in 1..Depth(d)' : Safe(At(d, i)', i)
    BY <1>1, OldIsSafe
  <2>2. \A k \in Key : \A n \in Since : n = served'[k] => Past(k, n)
    BY DEF Past
  <2>3. version' \in Since /\ version <= version'
    BY TakeAssumption DEF TakeTypeOK, Since
  <2>4. QED
    BY <1>1, <2>1, <2>2, <2>3, FreshStays
<1>7. FloorInv'
  <2>1. ASSUME NEW d \in Client, Depth(d) > 0
        PROVE  /\ client[d].floor <= served[At(d, 1)'.key]
               /\ \A n \in Since : Gives(At(d, 1)', At(d, 1)'.key, n) => client[d].floor <= n
    <3>1. 1 \in 1..Depth(d) /\ client[d].floor \in Nat /\ \A k \in Key : served[k] \in Nat
      BY <2>1, CallFacts, TakeAssumption DEF TakeTypeOK, Request, Since
    <3>2. CASE At(d, 1)' = At(d, 1)
      BY <2>1, <3>2 DEF FloorInv
    <3>3. CASE d = c /\ Depth(c) = 1 /\ At(d, 1)' = f
      <4>1. client[c].floor <= served[f.key] /\ f.key \in Key
        BY <1>2, <2>1, <3>3 DEF FloorInv, Call
      <4>2. ASSUME NEW n \in Since, Gives(f, f.key, n) PROVE client[c].floor <= n
        <5>1. served[f.key] <= n
          BY <4>2, ResultFacts DEF Gives
        <5>2. n \in Nat /\ client[c].floor \in Nat /\ served[f.key] \in Nat
          BY <3>1, <3>3, <4>1, TakeAssumption DEF Since
        <5>3. QED
          BY <4>1, <5>1, <5>2
      <4>3. QED
        BY <3>3, <4>1, <4>2
    <3>4. QED
      BY <1>1, <3>1, <3>2, <3>3
  <2>2. QED
    BY <1>1, <2>1 DEF FloorInv, Gives
<1>8. TakenNeverGoesBack'
  BY <1>1 DEF TakenNeverGoesBack
<1>9. QED
  BY <1>3, <1>4, <1>5, <1>6, <1>7, <1>8

(* The call of c for k ends with result r, also for those who wait for it: *)
(* m calls of c are left, and the cache is the same for the other keys.    *)
CallEnds(c, k, r, m) ==
  /\ leader[k] = c /\ leader' = [leader EXCEPT ![k] = None] /\ WaitersGet(c, k, r)
  /\ UNCHANGED <<topic, version, served>>
  /\ held' \in [Key -> Since \cup {None}] /\ \A q \in Key : q # k => held'[q] = held[q]
  /\ client' \in [Client -> Request]
  /\ Depth(c)' = m /\ m <= Depth(c)
  /\ m > 0 => At(c, m).key = k /\ client'[c].floor = client[c].floor
  /\ \A i \in 1..m : At(c, i)' = IF i = m THEN Ended(At(c, i), r) ELSE At(c, i)
  /\ client'[c].reply.is = "answer" =>
       client'[c].reply = client[c].reply /\ client'[c].floor = client[c].floor
  /\ r.is = "answer" => served[k] <= r.since

LEMMA FinishKeeps ==
  ASSUME TakeInv, NEW c \in Client, NEW k \in Key, NEW r \in Result, NEW m \in Nat,
         CallEnds(c, k, r, m), FreshInv'
  PROVE  TakeInv'
<1> USE DEF TakeInv, CallEnds
<1>1. \A d \in Client \ {c} :
         /\ client'[d].floor = client[d].floor /\ client'[d].reply = client[d].reply
         /\ Depth(d)' = Depth(d)
         /\ \A i \in 1..Depth(d) :
              \/ At(d, i)' = At(d, i)
              \/ At(d, i).key = k /\ At(d, i).pc = "wait" /\ i = Depth(d) /\ At(d, i)' = Ended(At(d, i), r)
  BY WaitersFacts
<1>2. TakeTypeOK'
  <2>1. leader' \in [Key -> Client \cup {None}]
    BY DEF TakeTypeOK
  <2>2. QED
    BY <2>1 DEF TakeTypeOK
<1>3. \A d \in Client : Depth(d) \in Nat /\ Depth(d)' \in Nat /\ Depth(d)' <= Depth(d)
  BY <1>1, CallFacts
<1>4. ASSUME NEW d \in Client, NEW i \in 1..Depth(d)'
      PROVE  /\ i \in 1..Depth(d) /\ At(d, i) \in Call
             /\ \/ At(d, i)' = At(d, i) /\ (d = c => i < m)
                \/ /\ At(d, i).key = k /\ i = Depth(d)' /\ At(d, i)' = Ended(At(d, i), r)
                   /\ d # c => At(d, i).pc = "wait" /\ i = Depth(d)
  BY <1>1, <1>3, CallFacts
<1>5. \A f \in Call : /\ Ended(f, r).key = f.key /\ Ended(f, r).pc = "return"
                     /\ Ended(f, r).result = r
  BY EndedFacts
<1>6. StackInv'
  <2>1. ASSUME NEW d \in Client, Depth(d)' = 2
        PROVE  Depth(d) = 2 /\ At(d, 1)' = At(d, 1) /\ At(d, 2)'.key = At(d, 2).key
    <3>1. Depth(d) = 2
      BY <1>3, <2>1 DEF StackInv
    <3>2. 1 \in 1..Depth(d)' /\ 2 \in 1..Depth(d)'
      BY <2>1
    <3>3. QED
      BY <1>4, <1>5, <2>1, <3>1, <3>2
  <2>2. QED
    BY <1>3, <2>1 DEF StackInv
<1>7. LeaderInv'
  <2>1. ASSUME NEW d \in Client, NEW i \in 1..Depth(d)'
        PROVE  /\ At(d, i)'.pc \in {"check", "fetch"} => leader'[At(d, i)'.key] = d
               /\ At(d, i)'.pc = "fetch" => held'[At(d, i)'.key] = None
               /\ Unread(At(d, i)')
    <3>1. CASE At(d, i)' = Ended(At(d, i), r)
      BY <1>4, <1>5, <3>1 DEF Unread
    <3>2. CASE At(d, i)' = At(d, i) /\ (d = c => i < m)
      <4>1. i \in 1..Depth(d) /\ At(d, i).key \in Key
        BY <1>4 DEF Call
      <4>2. Unread(At(d, i))
        BY <4>1 DEF LeaderInv
      <4>3. CASE At(d, i).pc \in {"check", "fetch"}
        <5>1. leader[At(d, i).key] = d /\ (At(d, i).pc = "fetch" => held[At(d, i).key] = None)
          BY <4>1, <4>3 DEF LeaderInv
        <5>2. At(d, i).key # k
          <6>1. CASE d # c
            BY <5>1, <6>1
          <6>2. CASE d = c
            <7>1. i = 1 /\ m = 2 /\ Depth(c) = 2
              BY <1>3, <3>2, <4>1, <6>2 DEF StackInv
            <7>2. QED
              BY <6>2, <7>1 DEF StackInv
          <6>3. QED
            BY <6>1, <6>2
        <5>3. QED
          BY <3>2, <4>1, <4>2, <5>1, <5>2 DEF TakeTypeOK
      <4>4. QED
        BY <3>2, <4>2, <4>3
    <3>3. QED
      BY <1>4, <3>1, <3>2
  <2>2. QED
    BY <2>1 DEF LeaderInv, Unread
<1>8. FloorInv'
  <2>1. ASSUME NEW d \in Client, Depth(d)' > 0
        PROVE  /\ client'[d].floor <= served[At(d, 1)'.key]
               /\ \A n \in Since : Gives(At(d, 1)', At(d, 1)'.key, n) => client'[d].floor <= n
    <3>1. 1 \in 1..Depth(d)' /\ Depth(d) > 0 /\ client'[d].floor = client[d].floor
      BY <1>1, <1>3, <2>1
    <3>2. CASE At(d, 1)' = At(d, 1)
      BY <3>1, <3>2 DEF FloorInv
    <3>3. CASE At(d, 1).key = k /\ At(d, 1)' = Ended(At(d, 1), r)
      <4>1. client[d].floor <= served[k] /\ At(d, 1)'.key = k /\ At(d, 1)'.result = r
        BY <1>4, <1>5, <3>1, <3>3 DEF FloorInv
      <4>2. ASSUME NEW n \in Since, r = Answer(n) PROVE client[d].floor <= n
        <5>1. served[k] <= n
          BY <4>2, ResultFacts
        <5>2. n \in Nat /\ client[d].floor \in Nat /\ served[k] \in Nat
          BY TakeAssumption DEF Since, TakeTypeOK, Request
        <5>3. QED
          BY <4>1, <5>1, <5>2
      <4>3. QED
        BY <3>1, <4>1, <4>2 DEF Gives
    <3>4. QED
      BY <1>4, <3>1, <3>2, <3>3
  <2>2. QED
    BY <2>1 DEF FloorInv, Gives
<1>9. TakenNeverGoesBack'
  BY <1>1 DEF TakenNeverGoesBack
<1>10. QED
  BY <1>2, <1>6, <1>7, <1>8, <1>9

LEMMA RequestIsFresh ==
  ASSUME TakeInv, NEW c \in Client, NEW q \in Request, client' = [client EXCEPT ![c] = q],
         UNCHANGED <<version, held>>,
         \A k \in Key : Past(k, served'[k]),
         \A i \in 1..Len(q.calls) : Safe(q.calls[i], i)
  PROVE  FreshInv'
<1>1. client \in [Client -> Request]
  BY DEF TakeInv, TakeTypeOK
<1>2. client' \in [Client -> Request] /\ \A d \in Client : client'[d] = IF d = c THEN q ELSE client[d]
  BY <1>1
<1>3. \A d \in Client : \A i \in 1..Depth(d)' : Safe(At(d, i)', i)
  BY <1>2, OldIsSafe DEF Depth, At
<1>4. version' \in Since /\ version <= version'
  BY TakeAssumption DEF TakeInv, TakeTypeOK, Since
<1>5. QED
  BY <1>2, <1>3, <1>4, FreshStays

(* Request c becomes q, and the data stays.                                *)
LEMMA RequestKeeps ==
  ASSUME TakeInv, NEW c \in Client, NEW q \in Request, client' = [client EXCEPT ![c] = q],
         UNCHANGED <<topic, version, held, leader>>,
         served' \in [Key -> Since],
         \A k \in Key : served[k] <= served'[k] /\ Past(k, served'[k]),
         NEW m \in 0..2, Len(q.calls) = m,
         m = 2 => /\ q.calls[1].key = "info" /\ q.calls[1].pc = "fetch" /\ q.calls[1].done = 1
                  /\ q.calls[2].key = "chart",
         \A i \in 1..m :
           /\ q.calls[i].pc \in {"check", "fetch"} => leader[q.calls[i].key] = c
           /\ q.calls[i].pc = "fetch" => held[q.calls[i].key] = None
           /\ Unread(q.calls[i]),
         FreshInv',
         m > 0 => q.floor <= served[q.calls[1].key] /\ q.calls[1].pc # "return",
         q.reply.is = "answer" => q.reply.since >= q.floor
  PROVE  TakeInv'
<1> USE DEF TakeInv
<1>1. client' \in [Client -> Request]
  BY DEF TakeTypeOK
<1>2. \A d \in Client : client'[d] = IF d = c THEN q ELSE client[d]
  BY DEF TakeTypeOK
<1>3. Depth(c)' = m /\ client'[c] = q /\ \A i : At(c, i)' = q.calls[i]
  BY <1>2 DEF Depth, At
<1>4. \A d \in Client : d # c => /\ Depth(d)' = Depth(d) /\ client'[d] = client[d]
                              /\ \A i : At(d, i)' = At(d, i)
  BY <1>2 DEF Depth, At
<1>5. TakeTypeOK'
  BY <1>1 DEF TakeTypeOK
<1>6. StackInv'
  BY <1>3, <1>4 DEF StackInv
<1>7. LeaderInv'
  BY <1>3, <1>4 DEF LeaderInv, Unread
<1>8. FloorInv'
  <2>1. ASSUME NEW d \in Client, Depth(d)' > 0
        PROVE  /\ client'[d].floor <= served'[At(d, 1)'.key]
               /\ \A n \in Since : Gives(At(d, 1)', At(d, 1)'.key, n) => client'[d].floor <= n
    <3>1. 1 \in 1..Depth(d)' /\ client'[d].calls \in Seq(Call) /\ client'[d].floor \in Nat
      BY <1>1, <2>1, TakeAssumption DEF Request, Since, Depth
    <3>2. At(d, 1)' \in Call
      BY <3>1 DEF At, Depth
    <3>3. PICK k \in Key : k = At(d, 1)'.key
      BY <3>2 DEF Call
    <3>4. /\ client'[d].floor <= served[k]
          /\ \A n \in Since : Gives(At(d, 1)', k, n) => client'[d].floor <= n
      BY <1>3, <1>4, <2>1, <3>3 DEF FloorInv, Gives
    <3>5. served[k] \in Nat /\ served'[k] \in Nat /\ served[k] <= served'[k]
      BY TakeAssumption DEF TakeTypeOK, Since
    <3>6. QED
      BY <3>1, <3>3, <3>4, <3>5
  <2>2. QED
    BY <2>1 DEF FloorInv, Gives
<1>9. TakenNeverGoesBack'
  BY <1>2 DEF TakenNeverGoesBack
<1>10. QED
  BY <1>5, <1>6, <1>7, <1>8, <1>9

(* The data changes or an answer expires. *)
LEMMA DataKeeps ==
  ASSUME TakeInv, UNCHANGED <<topic, leader, client, served>>, version' \in Since, version <= version',
         held' \in [Key -> Since \cup {None}], \A k \in Key : held'[k] = held[k] \/ held'[k] = None
  PROVE  TakeInv'
<1> USE DEF TakeInv
<1>1. \A d \in Client : Depth(d)' = Depth(d) /\ \A i : At(d, i)' = At(d, i)
  BY DEF Depth, At
<1>2. TakeTypeOK'
  BY DEF TakeTypeOK
<1>3. StackInv'
  BY <1>1 DEF StackInv
<1>4. LeaderInv'
  <2>1. ASSUME NEW d \in Client, NEW i \in 1..Depth(d) PROVE Unread(At(d, i))'
    <3>1. At(d, i) \in Call /\ Unread(At(d, i))
      BY CallFacts DEF LeaderInv
    <3>2. At(d, i).since \in Nat /\ version \in Nat /\ version' \in Nat
      BY <3>1, TakeAssumption DEF Call, Since, TakeTypeOK
    <3>3. QED
      BY <1>1, <3>1, <3>2 DEF Unread
  <2>2. \A d \in Client : \A i \in 1..Depth(d) : At(d, i).key \in Key
    BY CallFacts DEF Call
  <2>3. QED
    BY <1>1, <2>1, <2>2 DEF LeaderInv
<1>5. FreshInv'
  <2>1. \A d \in Client : \A i \in 1..Depth(d)' : Safe(At(d, i)', i)
    BY <1>1, OldIsSafe
  <2>2. client' \in [Client -> Request] /\ \A k \in Key : \A n \in Since : n = served'[k] => Past(k, n)
    BY DEF Past, TakeTypeOK
  <2>3. QED
    BY <2>1, <2>2, FreshStays
<1>6. FloorInv'
  BY <1>1 DEF FloorInv, Gives
<1>7. TakenNeverGoesBack'
  BY DEF TakenNeverGoesBack
<1>8. QED
  BY <1>2, <1>3, <1>4, <1>5, <1>6, <1>7
-----------------------------------------------------------------------------
LEMMA ChangeKeeps == ASSUME TakeInv, Change PROVE TakeInv'
<1>1. version \in Since /\ version' = version + 1 /\ version < MaxChanges /\ held' = held
  BY DEF Change, TakeInv, TakeTypeOK
<1>2. version' \in Since /\ version <= version'
  BY <1>1, TakeAssumption DEF Since
<1>3. QED
  BY <1>1, <1>2, DataKeeps DEF Change, TakeInv, TakeTypeOK

LEMMA ExpireAnswerKeeps == ASSUME TakeInv, NEW k \in Key, ExpireAnswer(k) PROVE TakeInv'
<1>1. held' = [held EXCEPT ![k] = None] /\ version' = version
  BY DEF ExpireAnswer
<1>2. /\ held' \in [Key -> Since \cup {None}] /\ version' \in Since /\ version <= version'
      /\ \A q \in Key : held'[q] = held[q] \/ held'[q] = None
  BY <1>1, TakeAssumption DEF TakeInv, TakeTypeOK, Since
<1>3. QED
  BY <1>2, DataKeeps DEF ExpireAnswer

(* A result that comes to the topmost call. *)
LEMMA ReturnIsTop ==
  ASSUME TakeTypeOK, NEW c \in Client, NEW r, client' = [client EXCEPT ![c].calls = Return(@, r)]
  PROVE  TopBecomes(c, Ended(Top(c), r))
BY DEF Return, TopBecomes, Ended, Top

LEMMA HitKeeps == ASSUME TakeInv, NEW c \in Client, Hit(c) PROVE TakeInv'
<1> DEFINE k == Top(c).key
           r == Answer(held[k])
           f == Ended(Top(c), r)
<1>1. TakeTypeOK
  BY DEF TakeInv
<1>2. Busy(c) /\ Top(c) = At(c, Depth(c)) /\ Top(c) \in Call /\ Depth(c) \in Nat \ {0} /\ Top(c).pc = "take"
  BY <1>1, TopFacts DEF Hit
<1>3. k \in Key /\ held[k] # None /\ held[k] \in Since
  BY <1>1, <1>2 DEF Hit, Call, TakeTypeOK
<1>4. r \in Result
  BY <1>3, ResultFacts
<1>5. f \in Call /\ f.key = k /\ f.pc = "return" /\ f.result = r
  BY <1>2, <1>4, EndedFacts
<1>6. Depth(c) = 2 => k = "chart"
  BY <1>2 DEF TakeInv, StackInv
<1>7. TopBecomes(c, f)
  BY <1>1, ReturnIsTop DEF Hit
<1> HIDE DEF f
<1>8. Safe(f, Depth(c)) /\ served[f.key] <= f.result.since /\ Unread(f)
  BY <1>3, <1>5, <1>6, HeldIsSafe DEF Unread
<1>9. UNCHANGED <<topic, version, held, leader, served>>
  BY DEF Hit
<1>10. \A d \in Client : \A i \in 1..Depth(d) :
           (d # c \/ i # Depth(c)) /\ At(d, i).pc \in {"check", "fetch"} => leader'[At(d, i).key] = d
  BY <1>9 DEF TakeInv, LeaderInv
<1>11. QED
  BY <1>1, <1>2, <1>5, <1>7, <1>8, <1>9, <1>10, TopKeeps DEF TakeTypeOK

(* The other calls are as they were, and lead as before. *)
LEMMA LeadersStay ==
  ASSUME TakeInv, NEW c \in Client, NEW k \in Key, leader' = leader \/ (leader[k] = None /\ leader' = [leader EXCEPT ![k] = c])
  PROVE  \A d \in Client : \A i \in 1..Depth(d) : At(d, i).pc \in {"check", "fetch"} => leader'[At(d, i).key] = d
<1>1. ASSUME NEW d \in Client, NEW i \in 1..Depth(d), At(d, i).pc \in {"check", "fetch"}
      PROVE  leader'[At(d, i).key] = d
  <2>1. leader[At(d, i).key] = d /\ d # None /\ At(d, i).key \in Key
    BY <1>1, CallFacts, TakeAssumption DEF TakeInv, LeaderInv, Call
  <2>2. QED
    BY <2>1 DEF TakeInv, TakeTypeOK
<1>2. QED
  BY <1>1

(* The topmost call goes on and has no answer yet, nor any data. *)
LEMMA PcMoves ==
  ASSUME TakeInv, NEW c \in Client, Busy(c), NEW pc \in {"barrier", "wait", "check", "fetch"},
         TopBecomes(c, [Top(c) EXCEPT !.pc = pc]),
         Top(c).pc \in {"take", "barrier", "check"},
         UNCHANGED <<topic, version, held, served>>,
         leader' = leader \/ (leader[Top(c).key] = None /\ leader' = [leader EXCEPT ![Top(c).key] = c]),
         pc \in {"check", "fetch"} => leader'[Top(c).key] = c,
         pc = "fetch" => held[Top(c).key] = None
  PROVE  TakeInv'
<1> DEFINE f == [Top(c) EXCEPT !.pc = pc]
<1>1. Top(c) = At(c, Depth(c)) /\ Top(c) \in Call /\ Depth(c) \in Nat \ {0}
  BY TopFacts DEF TakeInv
<1>2. Top(c).done = 0 /\ Top(c).since = MaxChanges
  <2>1. Unread(Top(c))
    BY <1>1 DEF TakeInv, LeaderInv
  <2>2. QED
    BY <2>1 DEF Unread
<1>3. f \in Call /\ f.key = Top(c).key /\ f.pc = pc /\ f.done = 0 /\ f.since = MaxChanges
  BY <1>1, <1>2 DEF Call
<1>4. f.key \in Key
  BY <1>3 DEF Call
<1> HIDE DEF f
<1>5. Unread(f)
  BY <1>3 DEF Unread
<1>6. Safe(f, Depth(c))
  <2>1. \A n \in Since : n <= MaxChanges
    BY TakeAssumption DEF Since
  <2>2. QED
    BY <1>3, <2>1 DEF Safe, Gives, Uses
<1>7. \A d \in Client : \A i \in 1..Depth(d) : At(d, i).pc \in {"check", "fetch"} => leader'[At(d, i).key] = d
  BY <1>3, <1>4, LeadersStay
<1>8. leader' \in [Key -> Client \cup {None}]
  BY DEF TakeInv, TakeTypeOK
<1>9. TopBecomes(c, f)
  BY DEF f
<1>10. QED
  BY <1>3, <1>5, <1>6, <1>7, <1>8, <1>9, TopKeeps

LEMMA MissKeeps == ASSUME TakeInv, NEW c \in Client, Miss(c) PROVE TakeInv'
BY PcMoves DEF Miss, TopBecomes

LEMMA BarrierKeeps == ASSUME TakeInv, NEW c \in Client, Barrier(c) PROVE TakeInv'
<1> DEFINE k == Top(c).key
<1>1. Busy(c) /\ Top(c).pc = "barrier" /\ UNCHANGED <<topic, version, held, served>>
  BY DEF Barrier
<1>2. k \in Key
  BY <1>1, TopFacts DEF TakeInv, Call
<1>3. CASE InFlight(k)
  <2>1. TopBecomes(c, [Top(c) EXCEPT !.pc = "wait"]) /\ leader' = leader
    BY <1>3 DEF Barrier, TopBecomes
  <2>2. QED
    BY <1>1, <2>1, PcMoves
<1>4. CASE ~InFlight(k)
  <2>1. TopBecomes(c, [Top(c) EXCEPT !.pc = "check"]) /\ leader' = [leader EXCEPT ![k] = c] /\ leader[k] = None
    BY <1>4 DEF Barrier, TopBecomes, InFlight
  <2>2. leader'[k] = c
    BY <1>2, <2>1 DEF TakeInv, TakeTypeOK
  <2>3. QED
    BY <1>1, <2>1, <2>2, PcMoves
<1>5. QED
  BY <1>3, <1>4

(* The topmost call of c ends, and those that wait for it get its result.  *)
LEMMA TopFinishes ==
  ASSUME TakeInv, NEW c \in Client, Busy(c), Top(c).pc \in {"check", "fetch"},
         NEW r \in Result, Finish(c, Top(c).key, client[c].calls, r)
  PROVE  /\ WaitersGet(c, Top(c).key, r) /\ client' \in [Client -> Request]
         /\ leader[Top(c).key] = c /\ leader' = [leader EXCEPT ![Top(c).key] = None]
         /\ Depth(c)' = Depth(c) /\ client'[c].floor = client[c].floor /\ client'[c].reply = client[c].reply
         /\ \A i \in 1..Depth(c) : At(c, i)' = IF i = Depth(c) THEN Ended(At(c, i), r) ELSE At(c, i)
<1> DEFINE k == Top(c).key
<1>1. TakeTypeOK
  BY DEF TakeInv
<1>2. /\ Top(c) = At(c, Depth(c)) /\ Depth(c) \in Nat \ {0}
      /\ client[c].calls \in Seq(Call) /\ client[c].calls # <<>>
  BY <1>1, TopFacts
<1>3. leader[k] = c
  BY <1>2 DEF TakeInv, LeaderInv
<1>4. leader' = [leader EXCEPT ![k] = None] /\ WaitersGet(c, k, r)
  BY DEF Finish, WaitersGet
<1>5. client'[c] = [client[c] EXCEPT !.calls = Return(client[c].calls, r)] /\ client[c] \in Request
  BY <1>1 DEF Finish, TakeTypeOK
<1>6. Return(client[c].calls, r) \in Seq(Call) /\ Len(Return(client[c].calls, r)) = Depth(c)
      /\ \A i \in 1..Depth(c) : Return(client[c].calls, r)[i] = IF i = Depth(c) THEN Ended(At(c, i), r) ELSE At(c, i)
  BY <1>2, ReturnFacts DEF Depth, At
<1>7. client'[c] \in Request /\ client'[c].floor = client[c].floor /\ client'[c].reply = client[c].reply
      /\ client'[c].calls = Return(client[c].calls, r)
  BY <1>5, <1>6 DEF Request
<1>8. client' \in [Client -> Request]
  <2>1. \A d \in Client \ {c} : client'[d] \in Request
    BY <1>1, <1>4, WaitersFacts
  <2>2. client' = [d \in Client |-> client'[d]]
    BY DEF Finish
  <2>3. QED
    BY <1>7, <2>1, <2>2
<1>9. QED
  BY <1>3, <1>4, <1>6, <1>7, <1>8 DEF Depth, At

(* Nothing new comes to those that wait. *)
LEMMA FinishIsFresh ==
  ASSUME TakeInv, NEW c \in Client, NEW k \in Key, NEW r \in Result, NEW m \in Nat,
         WaitersGet(c, k, r), client' \in [Client -> Request],
         UNCHANGED <<version, served, held>>,
         Depth(c)' = m, m <= Depth(c), m > 0 => At(c, m).key = k,
         \A i \in 1..m : At(c, i)' = IF i = m THEN Ended(At(c, i), r) ELSE At(c, i),
         r.is # "answer" \/ (held[k] # None /\ r = Answer(held[k]))
  PROVE  FreshInv'
<1> USE DEF TakeInv
<1>1. ASSUME NEW d \in Client, NEW i \in 1..Depth(d), At(d, i).key = k PROVE Safe(Ended(At(d, i), r), i)
  <2>1. At(d, i) \in Call /\ Depth(d) \in Nat
    BY CallFacts
  <2>2. /\ Ended(At(d, i), r) \in Call /\ Ended(At(d, i), r).key = k /\ Ended(At(d, i), r).pc = "return"
        /\ Ended(At(d, i), r).result = r
    BY <1>1, <2>1, EndedFacts
  <2>3. i = 2 => k = "chart"
    BY <1>1, <2>1 DEF StackInv
  <2>4. CASE r.is # "answer"
    BY <2>2, <2>4, UnansweredIsSafe
  <2>5. CASE held[k] # None /\ r = Answer(held[k])
    BY <2>2, <2>3, <2>5, HeldIsSafe
  <2>6. QED
    BY <2>4, <2>5
<1>2. ASSUME NEW d \in Client, NEW i \in 1..Depth(d)' PROVE Safe(At(d, i)', i)
  <2>1. CASE d = c
    <3>1. i \in 1..Depth(c) /\ i \in 1..m
      BY <2>1, CallFacts
    <3>2. QED
      BY <1>1, <2>1, <3>1, OldIsSafe
  <2>2. CASE d # c
    <3>1. Depth(d)' = Depth(d) /\ (At(d, i)' = At(d, i) \/ (At(d, i).key = k /\ At(d, i)' = Ended(At(d, i), r)))
         /\ i \in 1..Depth(d)
      BY <2>2, WaitersFacts
    <3>2. QED
      BY <1>1, <3>1, OldIsSafe
  <2>3. QED
    BY <2>1, <2>2
<1>3. version' \in Since /\ version <= version'
  BY TakeAssumption DEF TakeTypeOK, Since
<1>4. QED
  BY <1>2, <1>3, FreshStays DEF Past

(* The topmost call of c ends with no answer, or with that in the cache.   *)
LEMMA TopFinishKeeps ==
  ASSUME TakeInv, NEW c \in Client, Busy(c), Top(c).pc \in {"check", "fetch"},
         NEW r \in Result, Finish(c, Top(c).key, client[c].calls, r),
         UNCHANGED <<topic, version, held, served>>,
         r.is # "answer" \/ (held[Top(c).key] # None /\ r = Answer(held[Top(c).key]))
  PROVE  TakeInv'
<1> DEFINE k == Top(c).key
<1>1. Top(c) = At(c, Depth(c)) /\ Top(c) \in Call /\ Depth(c) \in Nat \ {0}
  BY TopFacts DEF TakeInv
<1>2. k \in Key /\ At(c, Depth(c)).key = k
  BY <1>1 DEF Call
<1>3. /\ WaitersGet(c, k, r) /\ client' \in [Client -> Request]
      /\ leader[k] = c /\ leader' = [leader EXCEPT ![k] = None]
      /\ Depth(c)' = Depth(c) /\ client'[c].floor = client[c].floor /\ client'[c].reply = client[c].reply
      /\ \A i \in 1..Depth(c) : At(c, i)' = IF i = Depth(c) THEN Ended(At(c, i), r) ELSE At(c, i)
  BY TopFinishes
<1> HIDE DEF k
<1>4. FreshInv'
  BY <1>1, <1>2, <1>3, FinishIsFresh DEF k
<1>5. r.is = "answer" => served[k] <= r.since
  <2>1. ASSUME r.is = "answer" PROVE served[k] <= r.since
    <3>1. held[k] # None /\ r = Answer(held[k]) /\ held[k] \in Since
      BY <1>2, <2>1 DEF k, TakeInv, TakeTypeOK
    <3>2. Bound(k, served[k]) /\ served[k] \in Since
      BY <1>2 DEF Bound, Past, TakeInv, TakeTypeOK
    <3>3. QED
      BY <1>2, <3>1, <3>2, ResultFacts DEF TakeInv, FreshInv
  <2>2. QED
    BY <2>1
<1>6. held' \in [Key -> Since \cup {None}]
  BY DEF TakeInv, TakeTypeOK
<1>7. PICK m \in Nat : m = Depth(c)
  BY <1>1
<1>8. Depth(c)' = m /\ m <= Depth(c) /\ At(c, m).key = k
      /\ \A i \in 1..m : At(c, i)' = IF i = m THEN Ended(At(c, i), r) ELSE At(c, i)
  BY <1>1, <1>2, <1>3, <1>7
<1>9. CallEnds(c, k, r, m)
  BY <1>2, <1>3, <1>5, <1>6, <1>8 DEF CallEnds
<1>10. QED
  BY <1>2, <1>4, <1>9, FinishKeeps

LEMMA DoubleCheckKeeps == ASSUME TakeInv, NEW c \in Client, DoubleCheck(c) PROVE TakeInv'
<1> DEFINE k == Top(c).key
<1>1. Busy(c) /\ Top(c).pc = "check" /\ UNCHANGED <<topic, version, held, served>>
  BY DEF DoubleCheck
<1>2. Top(c) = At(c, Depth(c)) /\ Top(c) \in Call /\ Depth(c) \in Nat \ {0}
  BY <1>1, TopFacts DEF TakeInv
<1>3. CASE held[k] # None
  <2>1. Finish(c, k, client[c].calls, Answer(held[k]))
    BY <1>3 DEF DoubleCheck
  <2>2. Answer(held[k]) \in Result
    BY <1>2, <1>3, ResultFacts DEF TakeInv, TakeTypeOK, Call
  <2>3. QED
    BY <1>1, <1>3, <2>1, <2>2, TopFinishKeeps
<1>4. CASE held[k] = None
  <2>1. TopBecomes(c, [Top(c) EXCEPT !.pc = "fetch"]) /\ leader' = leader
    BY <1>4 DEF DoubleCheck, TopBecomes
  <2>2. leader[k] = c
    BY <1>1, <1>2 DEF TakeInv, LeaderInv
  <2>3. QED
    BY <1>1, <1>4, <2>1, <2>2, PcMoves
<1>5. QED
  BY <1>3, <1>4

LEMMA QueryFailsKeeps == ASSUME TakeInv, NEW c \in Client, QueryFails(c) PROVE TakeInv'
BY TopFinishKeeps, ResultFacts DEF QueryFails, Fetches

(* The call that makes an answer and the one below it.                     *)
LEMMA FetchFacts ==
  ASSUME TakeInv, NEW c \in Client, Fetches(c)
  PROVE  /\ Busy(c) /\ Top(c) = At(c, Depth(c)) /\ Top(c) \in Call /\ Depth(c) \in 1..2 /\ Top(c).pc = "fetch"
         /\ Top(c).key \in Key /\ leader[Top(c).key] = c /\ held[Top(c).key] = None
         /\ Depth(c) = 2 => Top(c).key = "chart" /\ At(c, 1).key = "info"
         /\ Unread(Top(c)) /\ Safe(Top(c), Depth(c))
<1>1. Busy(c) /\ Top(c) = At(c, Depth(c)) /\ Top(c) \in Call /\ Depth(c) \in Nat \ {0} /\ Top(c).pc = "fetch"
  BY TopFacts DEF Fetches, TakeInv
<1>2. Depth(c) \in 1..2
  BY <1>1 DEF TakeInv, StackInv
<1>3. QED
  BY <1>1, <1>2, OldIsSafe DEF TakeInv, StackInv, LeaderInv, Call

LEMMA GotFacts ==
  ASSUME NEW f \in Call, NEW n \in Since
  PROVE  /\ Got(f, n) \in Call /\ Got(f, n).key = f.key /\ Got(f, n).pc = f.pc /\ Got(f, n).done = f.done + 1
         /\ Got(f, n).since = IF f.since <= n THEN f.since ELSE n
<1>1. f.since \in Since /\ f.done \in Nat /\ Since \subseteq Nat
  BY TakeAssumption DEF Call, Since
<1>2. Min({f.since, n}) = IF f.since <= n THEN f.since ELSE n
  BY <1>1, MinMax
<1>3. PICK m \in Since : m = Min({f.since, n})
  BY <1>1, <1>2
<1>4. Got(f, n) = [f EXCEPT !.done = f.done + 1, !.since = m]
  BY <1>3 DEF Got
<1>5. f.done + 1 \in Nat
  BY <1>1
<1>6. Got(f, n) \in Call /\ Got(f, n).key = f.key /\ Got(f, n).pc = f.pc
  BY <1>4, <1>5 DEF Call
<1>7. Got(f, n).done = f.done + 1 /\ Got(f, n).since = m
  BY <1>4 DEF Call
<1>8. QED
  BY <1>2, <1>3, <1>6, <1>7

LEMMA QueryKeeps == ASSUME TakeInv, NEW c \in Client, Query(c) PROVE TakeInv'
<1> DEFINE g == Top(c)
<1>1. /\ Busy(c) /\ g = At(c, Depth(c)) /\ g \in Call /\ Depth(c) \in 1..2 /\ g.pc = "fetch"
      /\ g.key \in Key /\ leader[g.key] = c /\ held[g.key] = None
      /\ Depth(c) = 2 => g.key = "chart" /\ At(c, 1).key = "info"
      /\ Unread(g) /\ Safe(g, Depth(c))
  BY FetchFacts DEF Query
<1>2. UNCHANGED <<topic, version, held, leader, served>>
  BY DEF Query
<1>3. g.done \in Nat /\ g.done < Len(Queries[g.key]) /\ g.since \in Nat
  BY <1>1, TakeAssumption DEF Query, Left, Call, Since
<1>4. NextQuery(c) = "chart" <=> g.key = "info" /\ g.done = 1
  BY <1>1, <1>3, QueryFacts DEF NextQuery
<1>5. version \in Since /\ version \in Nat
  BY TakeAssumption DEF TakeInv, TakeTypeOK, Since
<1>6. CASE NextQuery(c) # "chart"
  <2> DEFINE f == Got(g, version)
  <2>1. TopBecomes(c, f)
    BY <1>6 DEF Query, TopBecomes
  <2>3. /\ f \in Call /\ f.key = g.key /\ f.pc = "fetch" /\ f.done = g.done + 1
        /\ f.since = IF g.since <= version THEN g.since ELSE version
    BY <1>1, <1>5, GotFacts
  <2> HIDE DEF f
  <2>4. f.since <= version
    BY <1>3, <1>5, <2>3
  <2>5. Unread(f)
    BY <2>3, <2>4 DEF Unread
  <2>6. ASSUME NEW n \in Since, Bound(f.key, n) PROVE n <= f.since
    <3>1. n <= g.since /\ n <= version
      BY <1>1, <2>3, <2>6 DEF Safe, TakeInv, FreshInv
    <3>2. QED
      BY <2>3, <3>1
  <2>7. \A n : ~Uses(f, n)
    <3>1. f.key = "info" => f.done = 1
      <4>1. ASSUME f.key = "info" PROVE g.done = 0
        BY <1>3, <1>4, <1>6, <2>3, <4>1, QueryFacts
      <4>2. QED
        BY <2>3, <4>1
    <3>2. QED
      BY <3>1 DEF Uses
  <2>8. Safe(f, Depth(c))
    BY <2>3, <2>6, <2>7 DEF Safe, Gives
  <2>9. \A d \in Client : \A i \in 1..Depth(d) : At(d, i).pc \in {"check", "fetch"} => leader'[At(d, i).key] = d
    BY <1>2 DEF TakeInv, LeaderInv
  <2>10. QED
    BY <1>1, <1>2, <2>1, <2>3, <2>5, <2>8, <2>9, TopKeeps DEF TakeInv, TakeTypeOK
<1>7. CASE NextQuery(c) = "chart"
  <2>1. g.key = "info" /\ g.done = 1 /\ Depth(c) = 1
    BY <1>1, <1>4, <1>7
  <2> DEFINE q == [client[c] EXCEPT !.calls = Append(@, Frame(ChartKey))]
  <2>2. client' = [client EXCEPT ![c] = q]
    BY <1>7 DEF Query
  <2>3. "chart" \in Key /\ Frame(ChartKey) \in Call /\ Frame(ChartKey).key = "chart" /\ Frame(ChartKey).pc = "take"
        /\ Frame(ChartKey).done = 0 /\ Frame(ChartKey).since = MaxChanges
    BY QueryFacts, ResultFacts, TakeAssumption DEF Frame, ChartKey, Call, Since
  <2>4. client[c].calls \in Seq(Call) /\ client[c] \in Request /\ Len(client[c].calls) = 1 /\ client[c].calls[1] = g
    BY <1>1, <2>1 DEF TakeInv, TakeTypeOK, Request, Depth, At
  <2>5. /\ q \in Request /\ Len(q.calls) = 2 /\ q.calls[1] = g /\ q.calls[2] = Frame(ChartKey)
        /\ q.floor = client[c].floor /\ q.reply = client[c].reply
    BY <2>3, <2>4 DEF Request
  <2> HIDE DEF q
  <2>6. Safe(Frame(ChartKey), 2) /\ Unread(Frame(ChartKey)) /\ Safe(g, 1)
    BY <1>1, <2>1, <2>3, UnansweredIsSafe DEF Unread
  <2>7. q.floor <= served[g.key] /\ (q.reply.is = "answer" => q.reply.since >= q.floor)
    BY <1>1, <2>1, <2>5 DEF TakeInv, FloorInv, TakenNeverGoesBack
  <2>8. served' \in [Key -> Since] /\ \A k \in Key : served[k] <= served'[k] /\ Past(k, served'[k])
    BY <1>2, TakeAssumption DEF TakeInv, TakeTypeOK, Since, Past
  <2>9. \A i \in 1..2 :
           /\ q.calls[i].pc \in {"check", "fetch"} => leader[q.calls[i].key] = c
           /\ q.calls[i].pc = "fetch" => held[q.calls[i].key] = None
           /\ Unread(q.calls[i]) /\ Safe(q.calls[i], i)
    <3>1. \A i \in 1..2 : i = 1 \/ i = 2
      OBVIOUS
    <3>2. QED
      BY <1>1, <2>3, <2>5, <2>6, <3>1
  <2>10. 2 \in 0..2 /\ q.calls[1].key = "info" /\ q.calls[1].pc = "fetch" /\ q.calls[1].done = 1
         /\ q.calls[2].key = "chart" /\ q.floor <= served[q.calls[1].key]
    BY <1>1, <2>1, <2>3, <2>5, <2>7
  <2>11. FreshInv'
    BY <1>2, <2>2, <2>5, <2>8, <2>9, RequestIsFresh
  <2>12. QED
    BY <1>2, <2>2, <2>5, <2>7, <2>8, <2>9, <2>10, <2>11, RequestKeeps
<1>8. QED
  BY <1>6, <1>7

LEMMA AskKeeps == ASSUME TakeInv, NEW c \in Client, NEW k \in Key, Ask(c, k) PROVE TakeInv'
<1> DEFINE q == [calls |-> <<Frame(k)>>, floor |-> served[k], reply |-> Failed("none")]
<1>1. client' = [client EXCEPT ![c] = q] /\ UNCHANGED <<topic, version, held, leader, served>>
  BY DEF Ask
<1>2. Frame(k) \in Call /\ Frame(k).key = k /\ Frame(k).pc = "take" /\ Frame(k).done = 0 /\ Frame(k).since = MaxChanges
  BY ResultFacts, TakeAssumption DEF Frame, Call, Since
<1>3. served[k] \in Since /\ Failed("none") \in Result /\ Failed("none").is # "answer"
  BY ResultFacts DEF TakeInv, TakeTypeOK
<1>4. q \in Request /\ Len(q.calls) = 1 /\ q.calls[1] = Frame(k) /\ q.floor = served[k] /\ q.reply.is # "answer"
  BY <1>2, <1>3 DEF Request
<1> HIDE DEF q
<1>5. Safe(Frame(k), 1) /\ Unread(Frame(k))
  BY <1>2, UnansweredIsSafe DEF Unread
<1>6. \A i \in 1..1 : i = 1
  OBVIOUS
<1>7. served' \in [Key -> Since] /\ \A j \in Key : served[j] <= served'[j] /\ Past(j, served'[j])
  BY <1>1, TakeAssumption DEF TakeInv, TakeTypeOK, Since, Past
<1>8. FreshInv'
  BY <1>1, <1>4, <1>5, <1>6, <1>7, RequestIsFresh
<1>9. /\ 1 \in 0..2 /\ q.floor <= served[q.calls[1].key] /\ q.calls[1].pc # "return"
      /\ \A i \in 1..1 : q.calls[i].pc \notin {"check", "fetch"} /\ Unread(q.calls[i])
  BY <1>2, <1>3, <1>4, <1>5, <1>6, TakeAssumption DEF Since
<1>10. PICK m \in 0..2 : m = 1
  OBVIOUS
<1>11. /\ Len(q.calls) = m /\ m # 2
       /\ \A i \in 1..m : q.calls[i].pc \notin {"check", "fetch"} /\ Unread(q.calls[i])
  BY <1>4, <1>9, <1>10
<1>12. QED
  BY <1>1, <1>4, <1>7, <1>8, <1>9, <1>11, RequestKeeps

LEMMA ReplyKeeps == ASSUME TakeInv, NEW c \in Client, Reply(c) PROVE TakeInv'
<1> DEFINE k == Top(c).key
           r == Top(c).result
           reply == IF r.is = "nil" \/ (r.is = "error" /\ k \in IgnoreError) THEN Failed("panic") ELSE r
           q == [client[c] EXCEPT !.calls = <<>>, !.reply = reply]
<1>1. client' = [client EXCEPT ![c] = q] /\ UNCHANGED <<topic, version, held, leader>>
      /\ served' = [served EXCEPT ![k] = Max({served[k], r.since})]
  BY DEF Reply
<1>2. Top(c) = At(c, 1) /\ Top(c) \in Call /\ Depth(c) = 1 /\ Top(c).pc = "return"
  BY TopFacts DEF Reply, Returns, Depth, TakeInv
<1>3. k \in Key /\ r \in Result /\ served[k] \in Since /\ r.since \in Since
  BY <1>2, ResultFacts DEF Call, TakeInv, TakeTypeOK
<1>4. client[c] \in Request
  BY DEF TakeInv, TakeTypeOK
<1>5. reply \in Result /\ (reply.is = "answer" => reply = r)
  BY <1>3, ResultFacts
<1> HIDE DEF reply
<1>6. q \in Request /\ q.calls = <<>> /\ q.reply = reply /\ q.floor = client[c].floor
  <2>1. <<>> \in Seq(Call)
    OBVIOUS
  <2>2. q \in Request
    BY <1>4, <1>5, <2>1 DEF Request
  <2>3. QED
    BY <1>4, <2>2 DEF Request
<1> HIDE DEF q, k, r
<1>7. r.is = "answer" => Gives(At(c, 1), k, r.since)
  BY <1>2, <1>3, ResultFacts DEF Gives, k, r
<1>8. q.reply.is = "answer" => q.reply.since >= q.floor
  <2>1. ASSUME reply.is = "answer" PROVE client[c].floor <= r.since
    BY <1>2, <1>3, <1>5, <1>7, <2>1 DEF TakeInv, FloorInv, k
  <2>2. client[c].floor \in Nat /\ r.since \in Nat
    BY <1>3, <1>4, TakeAssumption DEF Request, Since
  <2>3. QED
    BY <1>5, <1>6, <2>1, <2>2
<1>9. served[k] \in Nat /\ r.since \in Nat
  BY <1>3, TakeAssumption DEF Since
<1>10. Max({served[k], r.since}) = IF served[k] <= r.since THEN r.since ELSE served[k]
  BY <1>9, MinMax
<1>11. served' \in [Key -> Since]
  BY <1>1, <1>3, <1>10 DEF TakeInv, TakeTypeOK
<1>12. ASSUME NEW j \in Key PROVE served[j] <= served'[j] /\ Past(j, served'[j])
  <2>1. CASE j # k
    <3>1. served'[j] = served[j] /\ served[j] \in Nat
      BY <1>1, <2>1, TakeAssumption DEF TakeInv, TakeTypeOK, Since
    <3>2. QED
      BY <3>1 DEF Past
  <2>2. CASE j = k /\ served'[k] = served[k]
    BY <1>9, <2>2 DEF Past
  <2>3. CASE j = k /\ served'[k] # served[k]
    <3>1. served'[k] = r.since /\ served[k] < r.since
      BY <1>1, <1>3, <1>9, <1>10, <2>3 DEF TakeInv, TakeTypeOK
    <3>2. r.is = "answer"
      BY <1>3, <1>9, <3>1, ResultFacts
    <3>3. Past(k, r.since)
      BY <1>2, <1>7, <3>2 DEF Past
    <3>4. QED
      BY <1>9, <2>3, <3>1, <3>3
  <2>4. QED
    BY <2>1, <2>2, <2>3
<1>13. Len(q.calls) = 0 /\ 1..0 = {}
  BY <1>6
<1>14. FreshInv'
  BY <1>1, <1>6, <1>12, <1>13, RequestIsFresh
<1>15. PICK m \in 0..2 : m = 0
  OBVIOUS
<1>16. Len(q.calls) = m /\ m # 2 /\ ~(m > 0) /\ \A i \in 1..m : FALSE
  BY <1>13, <1>15
<1>17. QED
  BY <1>1, <1>6, <1>8, <1>11, <1>12, <1>14, <1>16, RequestKeeps

LEMMA FetchPanicsKeeps == ASSUME TakeInv, NEW c \in Client, FetchPanics(c) PROVE TakeInv'
<1> DEFINE k == Top(c).key
           r == Failed("nil")
           q == [Idle EXCEPT !.reply = Failed("panic")]
<1>1. k \in Key /\ leader[k] = c
  BY FetchFacts DEF FetchPanics
<1>2. r \in Result /\ r.is # "answer" /\ Failed("panic") \in Result /\ Failed("panic").is # "answer" /\ Failed("none") \in Result
  BY ResultFacts
<1>3. leader' = [leader EXCEPT ![k] = None] /\ WaitersGet(c, k, r) /\ client'[c] = q
      /\ UNCHANGED <<topic, version, held, served>>
  BY DEF FetchPanics, Panics, WaitersGet
<1>4. q \in Request /\ Len(q.calls) = 0 /\ q.reply.is # "answer"
  <2>1. q = [calls |-> <<>>, floor |-> 0, reply |-> Failed("panic")]
    BY DEF Idle
  <2>2. <<>> \in Seq(Call) /\ 0 \in Since
    BY TakeAssumption DEF Since
  <2>3. QED
    BY <1>2, <2>1, <2>2 DEF Request
<1>5. client' \in [Client -> Request]
  <2>1. \A d \in Client \ {c} : client'[d] \in Request
    BY <1>2, <1>3, WaitersFacts DEF TakeInv
  <2>2. client' = [d \in Client |-> client'[d]]
    BY DEF FetchPanics, Panics
  <2>3. QED
    BY <1>3, <1>4, <2>1, <2>2
<1>6. Depth(c)' = 0 /\ 0 <= Depth(c) /\ 1..0 = {}
  BY <1>3, <1>4, CallFacts DEF Depth, TakeInv
<1> HIDE DEF k, r, q
<1>7. FreshInv'
  BY <1>1, <1>2, <1>3, <1>5, <1>6, FinishIsFresh
<1>8. held' \in [Key -> Since \cup {None}]
  BY <1>3 DEF TakeInv, TakeTypeOK
<1>9. PICK m \in Nat : m = 0
  OBVIOUS
<1>10. Depth(c)' = m /\ m <= Depth(c) /\ ~(m > 0) /\ \A i \in 1..m : FALSE
  BY <1>6, <1>9
<1>11. CallEnds(c, k, r, m)
  BY <1>1, <1>2, <1>3, <1>4, <1>5, <1>8, <1>10 DEF CallEnds
<1>12. QED
  BY <1>1, <1>2, <1>7, <1>11, FinishKeeps

(* The answer that is stored is no older than any that somebody had, and   *)
(* the bounds grow by it alone.                                            *)
LEMMA SetAnswerKeeps == ASSUME TakeInv, NEW c \in Client, SetAnswer(c) PROVE TakeInv'
<1> DEFINE f == Top(c)
           k == f.key
           s == f.since
           r == Answer(s)
<1>1. /\ Busy(c) /\ f = At(c, Depth(c)) /\ f \in Call /\ Depth(c) \in 1..2 /\ f.pc = "fetch"
      /\ k \in Key /\ leader[k] = c /\ held[k] = None
      /\ Depth(c) = 2 => k = "chart" /\ At(c, 1).key = "info"
      /\ Unread(f) /\ Safe(f, Depth(c))
  BY FetchFacts DEF SetAnswer
<1>2. s \in Since /\ f.done \in Nat
  BY <1>1 DEF Call
<1>3. r \in Result /\ r.is = "answer" /\ r.since = s
  BY <1>2, ResultFacts
<1>4. f.done >= 1 /\ (k = "info" => f.done > 1)
  <2>1. CASE ~Left(c)
    <3>1. ~(f.done < Len(Queries[k]))
      BY <2>1 DEF Left
    <3>2. Len(Queries[k]) \in Nat \ {0} /\ (k = "info" => Len(Queries[k]) = 2)
      BY <1>1, QueryFacts
    <3>3. QED
      BY <1>2, <3>1, <3>2
  <2>2. CASE <<k, f.done>> \in Early
    BY <2>2 DEF Early
  <2>3. QED
    BY <2>1, <2>2 DEF SetAnswer, Made
<1>5. s <= version
  BY <1>1, <1>4 DEF Unread
<1>6. Finish(c, k, client[c].calls, r) /\ held' = [held EXCEPT ![k] = s] /\ UNCHANGED <<topic, version, served>>
  BY DEF SetAnswer
<1>7. /\ WaitersGet(c, k, r) /\ client' \in [Client -> Request]
      /\ leader' = [leader EXCEPT ![k] = None]
      /\ Depth(c)' = Depth(c) /\ client'[c].floor = client[c].floor /\ client'[c].reply = client[c].reply
      /\ \A i \in 1..Depth(c) : At(c, i)' = IF i = Depth(c) THEN Ended(At(c, i), r) ELSE At(c, i)
  BY <1>1, <1>3, <1>6, TopFinishes
<1>8. \A n \in Since : Bound(k, n) => n <= s
  BY <1>1 DEF Safe
<1>9. k = "info" => Used(s)
  BY <1>1, <1>4 DEF Uses, Used
<1>10. /\ held' \in [Key -> Since \cup {None}] /\ held'[k] = s /\ \A q \in Key : q # k => held'[q] = held[q]
  BY <1>1, <1>2, <1>6 DEF TakeInv, TakeTypeOK
<1>11. served[k] <= s
  BY <1>1, <1>8 DEF Bound, Past, TakeInv, TakeTypeOK
<1> HIDE DEF f, k, s, r
<1>12. ASSUME NEW d \in Client, NEW i \in 1..Depth(d)'
       PROVE  /\ i \in 1..Depth(d) /\ At(d, i) \in Call
              /\ \/ At(d, i)' = At(d, i) /\ (d = c => i = 1 /\ Depth(c) = 2)
                 \/ /\ At(d, i).key = k /\ At(d, i)' = Ended(At(d, i), r)
                    /\ At(d, i)'.key = k /\ At(d, i)'.pc = "return" /\ At(d, i)'.result = r
  <2>1. Depth(d)' = Depth(d) /\ At(d, i) \in Call
    BY <1>3, <1>7, WaitersFacts, CallFacts DEF TakeInv
  <2>2. \/ At(d, i)' = At(d, i) /\ (d = c => i = 1 /\ Depth(c) = 2)
        \/ At(d, i).key = k /\ At(d, i)' = Ended(At(d, i), r)
    <3>1. CASE d = c
      BY <1>1, <1>7, <2>1, <3>1 DEF k
    <3>2. CASE d # c
      BY <1>3, <1>7, <2>1, <3>2, WaitersFacts DEF TakeInv
    <3>3. QED
      BY <3>1, <3>2
  <2>3. QED
    BY <1>3, <2>1, <2>2, EndedFacts
<1>13. ASSUME NEW q \in Key, NEW n \in Since, Past(q, n)' PROVE Past(q, n) \/ (q = k /\ n = s)
  <2>1. CASE n = served'[q]
    BY <1>6, <2>1 DEF Past
  <2>2. CASE held'[q] # None /\ n = held'[q]
    BY <1>10, <2>2 DEF Past
  <2>3. ASSUME NEW d \in Client, NEW i \in 1..Depth(d)', Gives(At(d, i), q, n)'
        PROVE  Past(q, n) \/ (q = k /\ n = s)
    <3>1. Gives(At(d, i)', q, n)
      BY <2>3 DEF Gives
    <3>2. CASE At(d, i)' = At(d, i)
      BY <1>12, <3>1, <3>2 DEF Past
    <3>3. CASE At(d, i)'.key = k /\ At(d, i)'.result = r
      BY <1>2, <1>3, <3>1, <3>3, ResultFacts DEF Gives
    <3>4. QED
      BY <1>12, <3>2, <3>3
  <2>4. QED
    BY <1>13, <2>1, <2>2, <2>3 DEF Past
<1>14. ASSUME NEW n \in Since, Used(n)' PROVE Used(n)
  <2>1. CASE Past("info", n)'
    BY <1>9, <1>13, <2>1, QueryFacts DEF Used
  <2>2. ASSUME NEW d \in Client, NEW i \in 1..Depth(d)', Uses(At(d, i), n)' PROVE Used(n)
    <3>1. Uses(At(d, i)', n)
      BY <2>2 DEF Uses
    <3>2. At(d, i)' = At(d, i) /\ i \in 1..Depth(d)
      BY <1>12, <3>1 DEF Uses
    <3>3. QED
      BY <3>1, <3>2 DEF Used
  <2>3. QED
    BY <1>14, <2>1, <2>2 DEF Used
<1>15. ASSUME NEW q \in Key, NEW n \in Since, Bound(q, n)' PROVE Bound(q, n) \/ (q = k /\ n = s)
  BY <1>13, <1>14, <1>15 DEF Bound
<1>16. ASSUME NEW q \in Key, NEW n \in Since, Bound(q, n)' PROVE n <= version'
  BY <1>5, <1>6, <1>15, <1>16 DEF TakeInv, FreshInv
<1>17. ASSUME NEW q \in Key, held'[q] # None, NEW n \in Since, Bound(q, n)' PROVE n <= held'[q]
  <2>1. CASE q = k
    <3>1. s <= s
      BY <1>2, TakeAssumption DEF Since
    <3>2. QED
      BY <1>8, <1>10, <1>15, <1>17, <2>1, <3>1
  <2>2. CASE q # k
    BY <1>10, <1>15, <1>17, <2>2 DEF TakeInv, FreshInv
  <2>3. QED
    BY <2>1, <2>2
<1>18. ASSUME NEW d \in Client, NEW i \in 1..Depth(d)'
       PROVE  /\ At(d, i)'.pc = "fetch" => \A n \in Since : Bound(At(d, i).key, n)' => n <= At(d, i)'.since
              /\ i = 2 /\ At(d, i)'.pc = "return" /\ At(d, i)'.result.is = "answer" =>
                   \A n \in Since : Used(n)' => n <= At(d, i)'.result.since
  <2>1. i \in 1..Depth(d) /\ At(d, i) \in Call /\ At(d, i).key \in Key
    BY <1>12 DEF Call
  <2>2. CASE At(d, i)' = At(d, i) /\ (d = c => i = 1 /\ Depth(c) = 2)
    <3>1. Safe(At(d, i), i)
      BY <2>1, OldIsSafe
    <3>2. ASSUME At(d, i).pc = "fetch", NEW n \in Since, Bound(At(d, i).key, n)' PROVE n <= At(d, i).since
      <4>1. At(d, i).key # k
        <5>1. leader[At(d, i).key] = d
          BY <2>1, <3>2 DEF TakeInv, LeaderInv
        <5>2. d = c => At(d, i).key = "info" /\ k = "chart"
          BY <1>1, <2>2 DEF k, f
        <5>3. QED
          BY <1>1, <5>1, <5>2 DEF k, f
      <4>2. PICK q \in Key : q = At(d, i).key
        BY <2>1
      <4>3. Bound(q, n)'
        BY <2>2, <3>2, <4>2 DEF Bound, Past
      <4>4. Bound(q, n)
        BY <1>15, <4>1, <4>2, <4>3
      <4>5. QED
        BY <3>1, <3>2, <4>2, <4>4 DEF Safe
    <3>3. QED
      BY <1>14, <2>2, <3>1, <3>2 DEF Safe
  <2>3. CASE At(d, i).key = k /\ At(d, i)'.pc = "return" /\ At(d, i)'.result = r
    <3>1. i = 2 => k = "chart"
      BY <2>1, <2>3, CallFacts DEF TakeInv, StackInv
    <3>2. QED
      BY <1>3, <1>8, <1>14, <2>3, <3>1 DEF Bound
  <2>4. QED
    BY <1>12, <2>2, <2>3
<1>19. FreshInv'
  BY <1>16, <1>17, <1>18 DEF FreshInv
<1>20. PICK m \in Nat : m = Depth(c)
  BY <1>1
<1>21. Depth(c)' = m /\ m <= Depth(c) /\ At(c, m).key = k
       /\ \A i \in 1..m : At(c, i)' = IF i = m THEN Ended(At(c, i), r) ELSE At(c, i)
  BY <1>1, <1>7, <1>20 DEF k
<1>22. k \in Key /\ leader[k] = c
  BY <1>1 DEF k
<1>23. UNCHANGED <<topic, version, served>> /\ (r.is = "answer" => served[k] <= r.since)
  BY <1>3, <1>6, <1>11
<1>24. CallEnds(c, k, r, m)
  BY <1>7, <1>10, <1>21, <1>22, <1>23 DEF CallEnds
<1>25. QED
  BY <1>3, <1>19, <1>22, <1>24, FinishKeeps

(* A request whose chart has come. *)
LEMMA ChartFacts ==
  ASSUME TakeInv, NEW c \in Client, Returns(c), Len(client[c].calls) > 1
  PROVE  /\ Depth(c) = 2 /\ client[c] \in Request /\ Top(c) = At(c, 2) /\ At(c, 1) \in Call /\ At(c, 2) \in Call
         /\ At(c, 1).key = "info" /\ At(c, 1).pc = "fetch" /\ At(c, 1).done = 1
         /\ At(c, 2).key = "chart" /\ At(c, 2).pc = "return" /\ At(c, 2).result \in Result
         /\ leader["info"] = c /\ held["info"] = None /\ At(c, 1).since <= version
         /\ Safe(At(c, 1), 1) /\ Safe(At(c, 2), 2)
         /\ Front(client[c].calls) \in Seq(Call) /\ Front(client[c].calls) # <<>>
         /\ Len(Front(client[c].calls)) = 1 /\ Front(client[c].calls)[1] = At(c, 1)
         /\ Last(Front(client[c].calls)) = At(c, 1)
<1>1. /\ client[c].calls \in Seq(Call) /\ client[c].calls # <<>> /\ Depth(c) \in Nat \ {0}
      /\ Top(c) = At(c, Depth(c)) /\ Top(c).pc = "return" /\ client[c] \in Request
  BY TopFacts DEF Returns, TakeInv, TakeTypeOK
<1>2. Depth(c) = 2
  <2>1. Depth(c) > 1
    BY DEF Depth
  <2>2. QED
    BY <1>1, <2>1 DEF TakeInv, StackInv
<1>3. 1 \in 1..Depth(c) /\ 2 \in 1..Depth(c)
  BY <1>2
<1>4. At(c, 1) \in Call /\ At(c, 2) \in Call /\ At(c, 2).result \in Result
  BY <1>3, CallFacts DEF TakeInv, Call
<1>5. /\ At(c, 1).key = "info" /\ At(c, 1).pc = "fetch" /\ At(c, 1).done = 1 /\ At(c, 2).key = "chart"
  BY <1>2 DEF TakeInv, StackInv
<1>6. leader["info"] = c /\ held["info"] = None /\ Unread(At(c, 1))
  BY <1>3, <1>5 DEF TakeInv, LeaderInv
<1>7. At(c, 1).since <= version
  BY <1>5, <1>6 DEF Unread
<1>8. Safe(At(c, 1), 1) /\ Safe(At(c, 2), 2)
  BY <1>3, OldIsSafe
<1>9. /\ Front(client[c].calls) \in Seq(Call) /\ Len(Front(client[c].calls)) = 1
      /\ Front(client[c].calls)[1] = At(c, 1)
  <2>1. Len(client[c].calls) = 2
    BY <1>2 DEF Depth
  <2>2. /\ Front(client[c].calls) \in Seq(Call) /\ Len(Front(client[c].calls)) = Len(client[c].calls) - 1
        /\ \A i \in 1..Len(client[c].calls) - 1 : Front(client[c].calls)[i] = client[c].calls[i]
    BY <1>1, FrontFacts
  <2>3. QED
    BY <2>1, <2>2 DEF At
<1>10. Front(client[c].calls) # <<>> /\ Last(Front(client[c].calls)) = At(c, 1)
  BY <1>9 DEF Last
<1>11. QED
  BY <1>1, <1>2, <1>4, <1>5, <1>6, <1>7, <1>8, <1>9, <1>10

(* MarketInfo goes on: its answer is no newer than the chart, and no older *)
(* than any answer that was given before.                                  *)
LEMMA ChartComesKeeps ==
  ASSUME TakeInv, NEW c \in Client, Returns(c), Len(client[c].calls) > 1,
         NEW f \in Call, Top(c).result.is = "answer", f = Got(At(c, 1), Top(c).result.since),
         NEW q \in Request, q.calls = <<f>>, q.floor = client[c].floor, q.reply = client[c].reply,
         client' = [client EXCEPT ![c] = q], UNCHANGED <<topic, version, held, leader, served>>
  PROVE  TakeInv'
<1>1. PICK m \in Since : m = Top(c).result.since
  BY ChartFacts, ResultFacts
<1>2. PICK s \in Since : s = At(c, 1).since
  BY ChartFacts DEF Call
<1>3. /\ f.key = "info" /\ f.pc = "fetch" /\ f.done = 2 /\ f.since = IF s <= m THEN s ELSE m
  <2>1. f.key = At(c, 1).key /\ f.pc = At(c, 1).pc /\ f.done = At(c, 1).done + 1
        /\ f.since = IF s <= m THEN s ELSE m
    BY <1>1, <1>2, GotFacts, ChartFacts
  <2>2. QED
    BY <2>1, ChartFacts
<1>4. s \in Nat /\ m \in Nat /\ version \in Nat /\ Since \subseteq Nat
  BY <1>1, <1>2, TakeAssumption DEF Since, TakeInv, TakeTypeOK
<1>5. f.since \in Nat /\ f.since <= s /\ f.since <= m /\ f.since <= version /\ s <= version
  BY <1>2, <1>3, <1>4, ChartFacts
<1>6. Past("chart", m) /\ Bound("chart", m)
  <2>1. Gives(At(c, 2), "chart", m) /\ 2 \in 1..Depth(c)
    BY <1>1, ChartFacts, ResultFacts DEF Gives
  <2>2. QED
    BY <2>1 DEF Past, Bound
<1>7. \A n \in Since : Used(n) => n <= m
  BY <1>1, ChartFacts DEF Safe
<1>8. \A n \in Since : Past("info", n) => n <= f.since
  BY <1>2, <1>3, <1>7, ChartFacts DEF Safe, Bound, Used
<1>9. \A d \in Client : client'[d] = IF d = c THEN q ELSE client[d]
  BY DEF TakeInv, TakeTypeOK
<1>10. ASSUME NEW d \in Client, NEW i \in 1..Depth(d)'
       PROVE  \/ d = c /\ i = 1 /\ At(d, i)' = f
              \/ d # c /\ At(d, i)' = At(d, i) /\ i \in 1..Depth(d)
  <2>1. CASE d = c
    <3>1. client'[d] = q /\ Len(q.calls) = 1 /\ q.calls[1] = f
      BY <1>9, <2>1
    <3>2. Depth(d)' = 1 /\ i = 1
      <4>1. Depth(d)' = 1
        BY <3>1 DEF Depth
      <4>2. QED
        BY <4>1
    <3>3. QED
      BY <2>1, <3>1, <3>2 DEF At
  <2>2. CASE d # c
    BY <1>9, <2>2 DEF Depth, At
  <2>3. QED
    BY <2>1, <2>2
<1>11. ASSUME NEW k \in Key, NEW n \in Since, Past(k, n)' PROVE Past(k, n)
  <2>1. ASSUME NEW d \in Client, NEW i \in 1..Depth(d)', Gives(At(d, i)', k, n) PROVE Past(k, n)
    BY <1>3, <1>10, <2>1 DEF Gives, Past
  <2>2. QED
    BY <1>11, <2>1, PastStays DEF Past
<1>12. ASSUME NEW n \in Since, Used(n)' PROVE Used(n) \/ n = f.since
  <2>1. CASE Past("info", n)'
    BY <1>11, <2>1, QueryFacts DEF Used
  <2>2. ASSUME NEW d \in Client, NEW i \in 1..Depth(d)', Uses(At(d, i), n)' PROVE Used(n) \/ n = f.since
    <3>1. Uses(At(d, i)', n)
      BY <2>2 DEF Uses
    <3>2. QED
      BY <1>10, <3>1 DEF Used, Uses
  <2>3. QED
    BY <1>12, <2>1, <2>2 DEF Used
<1>13. ASSUME NEW k \in Key, NEW n \in Since, Bound(k, n)'
       PROVE  Bound(k, n) \/ (k = "chart" /\ n = f.since)
  BY <1>11, <1>12, <1>13 DEF Bound
<1>14. ASSUME NEW k \in Key, NEW n \in Since, Bound(k, n)' PROVE n <= version'
  BY <1>5, <1>13, <1>14 DEF TakeInv, FreshInv
<1>15. ASSUME NEW k \in Key, held'[k] # None, NEW n \in Since, Bound(k, n)' PROVE n <= held'[k]
  <2>1. CASE Bound(k, n)
    BY <1>15, <2>1 DEF TakeInv, FreshInv
  <2>2. CASE k = "chart" /\ n = f.since
    <3>1. m <= held[k] /\ held[k] \in Nat
      BY <1>4, <1>6, <1>15, <2>2 DEF TakeInv, FreshInv, TakeTypeOK
    <3>2. QED
      BY <1>4, <1>5, <2>2, <3>1
  <2>3. QED
    BY <1>13, <1>15, <2>1, <2>2
<1>16. ASSUME NEW d \in Client, NEW i \in 1..Depth(d)'
       PROVE  /\ At(d, i)'.pc = "fetch" => \A n \in Since : Bound(At(d, i).key, n)' => n <= At(d, i)'.since
              /\ i = 2 /\ At(d, i)'.pc = "return" /\ At(d, i)'.result.is = "answer" =>
                   \A n \in Since : Used(n)' => n <= At(d, i)'.result.since
  <2>1. CASE d = c /\ i = 1 /\ At(d, i)' = f
    <3>1. ASSUME NEW n \in Since, Bound(At(d, i).key, n)' PROVE n <= f.since
      <4>1. PICK k \in Key : k = "info"
        BY QueryFacts
      <4>2. Bound(k, n)'
        BY <1>3, <2>1, <3>1, <4>1 DEF Bound, Past, Used
      <4>3. Past(k, n)'
        BY <4>1, <4>2 DEF Bound
      <4>4. QED
        BY <1>8, <1>11, <4>1, <4>3
    <3>2. QED
      BY <2>1, <3>1
  <2>2. CASE d # c /\ At(d, i)' = At(d, i) /\ i \in 1..Depth(d)
    <3>1. At(d, i) \in Call /\ Depth(d) \in Nat /\ Safe(At(d, i), i)
      BY <2>2, CallFacts, OldIsSafe DEF TakeInv
    <3>2. ASSUME At(d, i).pc = "fetch", NEW n \in Since, Bound(At(d, i).key, n)' PROVE n <= At(d, i).since
      <4>1. PICK k \in Key : k = At(d, i).key
        BY <3>1 DEF Call
      <4>2. Bound(k, n)'
        BY <2>2, <3>2, <4>1 DEF Bound, Past
      <4>3. CASE Bound(k, n)
        BY <3>1, <3>2, <4>1, <4>3 DEF Safe
      <4>4. CASE k = "chart" /\ n = f.since
        <5>1. m <= At(d, i).since /\ At(d, i).since \in Nat
          BY <1>4, <1>6, <3>1, <3>2, <4>1, <4>4 DEF Safe, Call
        <5>2. QED
          BY <1>4, <1>5, <4>4, <5>1
      <4>5. QED
        BY <1>13, <4>2, <4>3, <4>4
    <3>3. i # 2
      <4>1. ASSUME i = 2 PROVE FALSE
        <5>1. Depth(d) = 2
          BY <2>2, <3>1, <4>1 DEF TakeInv, StackInv
        <5>2. At(d, 1).key = "info" /\ At(d, 1).pc = "fetch" /\ 1 \in 1..Depth(d)
          BY <5>1 DEF TakeInv, StackInv
        <5>3. leader["info"] = d
          BY <5>2 DEF TakeInv, LeaderInv
        <5>4. QED
          BY <2>2, <5>3, ChartFacts
      <4>2. QED
        BY <4>1
    <3>4. QED
      BY <2>2, <3>2, <3>3
  <2>3. QED
    BY <1>10, <2>1, <2>2
<1>17. FreshInv'
  BY <1>14, <1>15, <1>16 DEF FreshInv
<1>18. PICK j \in 0..2 : j = 1
  OBVIOUS
<1>19. Len(q.calls) = j /\ j # 2 /\ q.calls[1] = f
  BY <1>18
<1>20. \A i \in 1..j :
         /\ q.calls[i].pc \in {"check", "fetch"} => leader[q.calls[i].key] = c
         /\ q.calls[i].pc = "fetch" => held[q.calls[i].key] = None
         /\ Unread(q.calls[i])
  BY <1>3, <1>5, <1>18, <1>19, ChartFacts DEF Unread
<1>21. j > 0 => q.floor <= served[q.calls[1].key] /\ q.calls[1].pc # "return"
  BY <1>3, <1>19, ChartFacts DEF TakeInv, FloorInv
<1>22. q.reply.is = "answer" => q.reply.since >= q.floor
  BY DEF TakeInv, TakenNeverGoesBack
<1>23. served' \in [Key -> Since] /\ \A k \in Key : served[k] <= served'[k] /\ Past(k, served'[k])
  <2>1. served' = served /\ served \in [Key -> Since]
    BY DEF TakeInv, TakeTypeOK
  <2>2. \A n \in Since : n <= n
    BY TakeAssumption DEF Since
  <2>3. QED
    BY <2>1, <2>2 DEF Past
<1> HIDE DEF TakeInv
<1>24. QED
  BY <1>17, <1>19, <1>20, <1>21, <1>22, <1>23, RequestKeeps

LEMMA UseChartKeeps == ASSUME TakeInv, NEW c \in Client, UseChart(c) PROVE TakeInv'
<1> DEFINE calls == Front(client[c].calls)
           outer == Last(calls)
           r     == Top(c).result
<1>1. Returns(c) /\ Len(client[c].calls) > 1 /\ UNCHANGED <<topic, version, held, served>>
  BY DEF UseChart
<1>2. /\ Depth(c) = 2 /\ client[c] \in Request /\ outer = At(c, 1) /\ outer \in Call /\ outer.key = "info"
      /\ calls \in Seq(Call) /\ calls # <<>> /\ Len(calls) = 1 /\ calls[1] = outer
      /\ r \in Result /\ leader["info"] = c
  BY <1>1, ChartFacts
<1>3. CASE r.is = "answer" /\ client' = [client EXCEPT ![c].calls = Put(calls, Got(outer, r.since))] /\ UNCHANGED leader
  <2> DEFINE f == Got(outer, r.since)
             q == [client[c] EXCEPT !.calls = Put(calls, f)]
  <2>1. f \in Call
    BY <1>2, GotFacts, ResultFacts
  <2> HIDE DEF f
  <2>2. Put(calls, f) \in Seq(Call) /\ Len(Put(calls, f)) = 1 /\ Put(calls, f)[1] = f
    <3>1. /\ Put(calls, f) \in Seq(Call) /\ Len(Put(calls, f)) = Len(calls)
          /\ \A i \in 1..Len(calls) : Put(calls, f)[i] = IF i = Len(calls) THEN f ELSE calls[i]
      BY <1>2, <2>1, PutFacts
    <3>2. QED
      BY <1>2, <3>1
  <2>3. Put(calls, f) = <<f>>
    BY <2>2
  <2>4. q \in Request /\ q.calls = <<f>> /\ q.floor = client[c].floor /\ q.reply = client[c].reply
    BY <1>2, <2>2, <2>3 DEF Request
  <2>5. client' = [client EXCEPT ![c] = q]
    BY <1>3 DEF f
  <2>6. f = Got(At(c, 1), Top(c).result.since)
    BY <1>2 DEF f
  <2> HIDE DEF q
  <2>7. QED
    BY <1>1, <1>3, <2>1, <2>4, <2>5, <2>6, ChartComesKeeps
<1>4. CASE r.is = "error" /\ Finish(c, outer.key, calls, r)
  <2>1. WaitersGet(c, "info", r) /\ leader' = [leader EXCEPT !["info"] = None]
        /\ client'[c] = [client[c] EXCEPT !.calls = Return(calls, r)]
    BY <1>2, <1>4 DEF Finish, WaitersGet
  <2>2. Return(calls, r) \in Seq(Call) /\ Len(Return(calls, r)) = 1 /\ Return(calls, r)[1] = Ended(outer, r)
    BY <1>2, ReturnFacts
  <2>3. client'[c] \in Request /\ client'[c].floor = client[c].floor /\ client'[c].reply = client[c].reply
        /\ client'[c].calls = Return(calls, r)
    BY <1>2, <2>1, <2>2 DEF Request
  <2>4. client' \in [Client -> Request]
    <3>1. \A d \in Client \ {c} : client'[d] \in Request
      BY <1>2, <2>1, WaitersFacts DEF TakeInv
    <3>2. client' = [d \in Client |-> client'[d]]
      BY <1>4 DEF Finish
    <3>3. QED
      BY <2>3, <3>1, <3>2
  <2>5. PICK k \in Key : k = "info"
    BY QueryFacts
  <2>6. PICK m \in Nat : m = 1
    OBVIOUS
  <2>7. PICK res \in Result : res = r
    BY <1>2
  <2>8. Depth(c)' = m /\ m <= Depth(c) /\ At(c, m).key = k
        /\ \A i \in 1..m : At(c, i)' = IF i = m THEN Ended(At(c, i), res) ELSE At(c, i)
    BY <1>2, <2>2, <2>3, <2>5, <2>6, <2>7 DEF Depth, At
  <2>9. WaitersGet(c, k, res) /\ leader[k] = c /\ leader' = [leader EXCEPT ![k] = None] /\ res.is # "answer"
    BY <1>2, <1>4, <2>1, <2>5, <2>7
  <2>10. FreshInv'
    BY <1>1, <2>4, <2>8, <2>9, FinishIsFresh
  <2>11. held' \in [Key -> Since \cup {None}] /\ \A q \in Key : q # k => held'[q] = held[q]
    BY <1>1 DEF TakeInv, TakeTypeOK
  <2>12. CallEnds(c, k, res, m)
    BY <1>1, <2>3, <2>4, <2>8, <2>9, <2>11 DEF CallEnds
  <2>13. QED
    BY <2>10, <2>12, FinishKeeps
<1>5. QED
  BY <1>3, <1>4 DEF UseChart
-----------------------------------------------------------------------------
LEMMA TakeStarts == ASSUME TakeInit PROVE TakeInv
<1>1. 0 \in Since /\ Since \subseteq Nat
  BY TakeAssumption DEF Since
<1>2. Idle \in Request /\ Idle.calls = <<>> /\ Idle.reply.is # "answer"
  <2>1. <<>> \in Seq(Call) /\ Failed("none") \in Result /\ Failed("none").is # "answer"
    BY ResultFacts
  <2>2. QED
    BY <1>1, <2>1 DEF Idle, Request
<1>3. \A c \in Client : client[c] = Idle /\ Depth(c) = 0
  BY <1>2 DEF TakeInit, Depth
<1>4. topic \subseteq Key
  BY QueryFacts DEF TakeInit
<1>5. client = [c \in Client |-> Idle]
  BY DEF TakeInit
<1>6. TakeTypeOK
  <2>1. client \in [Client -> Request]
    BY <1>2, <1>5
  <2>2. QED
    BY <1>1, <1>4, <2>1 DEF TakeInit, TakeTypeOK
<1>7. StackInv /\ LeaderInv /\ FloorInv
  BY <1>3 DEF StackInv, LeaderInv, FloorInv
<1>8. \A k \in Key : served[k] = 0 /\ held[k] = None
  BY DEF TakeInit
<1>9. \A k \in Key : \A n \in Since : Past(k, n) => n = 0
  BY <1>3, <1>8 DEF Past
<1>10. \A n \in Since : Used(n) => n = 0
  BY <1>3, <1>9, QueryFacts DEF Used
<1>11. FreshInv
  <2>1. \A k \in Key : \A n \in Since : Bound(k, n) => n = 0
    BY <1>9, <1>10 DEF Bound
  <2>2. version = 0 /\ \A c \in Client : 1..Depth(c) = {}
    BY <1>3 DEF TakeInit
  <2>3. QED
    BY <1>1, <1>8, <2>1, <2>2 DEF FreshInv
<1>12. TakenNeverGoesBack
  BY <1>2, <1>3 DEF TakenNeverGoesBack
<1>13. QED
  BY <1>6, <1>7, <1>11, <1>12 DEF TakeInv

LEMMA TakeKeeps == ASSUME TakeInv, TakeNext PROVE TakeInv'
<1>1. CASE Change
  BY <1>1, ChangeKeeps
<1>2. ASSUME NEW k \in Key, ExpireAnswer(k) PROVE TakeInv'
  BY <1>2, ExpireAnswerKeeps
<1>3. ASSUME NEW c \in Client, Serve(c) PROVE TakeInv'
  BY <1>3, HitKeeps, MissKeeps, BarrierKeeps, DoubleCheckKeeps, QueryKeeps, SetAnswerKeeps, ReplyKeeps,
     UseChartKeeps DEF Serve
<1>4. ASSUME NEW c \in Client, QueryFails(c) \/ FetchPanics(c) PROVE TakeInv'
  BY <1>4, QueryFailsKeeps, FetchPanicsKeeps
<1>5. ASSUME NEW c \in Client, NEW k \in Key, Ask(c, k) PROVE TakeInv'
  BY <1>5, AskKeeps
<1>6. QED
  BY <1>1, <1>2, <1>3, <1>4, <1>5 DEF TakeNext

(* What touches no answer. *)
LEMMA TakeRests == ASSUME TakeInv, UNCHANGED <<topic, version, held, leader, client, served>> PROVE TakeInv'
<1>1. version' \in Since /\ version <= version' /\ held' \in [Key -> Since \cup {None}]
  BY TakeAssumption DEF TakeInv, TakeTypeOK, Since
<1>2. QED
  BY <1>1, DataKeeps
-----------------------------------------------------------------------------
(* The requests put together.                                              *)

ApiInv == PagesInv /\ SignInv /\ TakeInv

(* The invariant holds at first.                                           *)
LEMMA InitEstablishes == Init => ApiInv
BY PagesStart, SignStarts, TakeStarts DEF Init, ApiInv

(* Every step, also that of another request, keeps the invariant.          *)
LEMMA NextPreserves == ApiInv /\ [Next]_vars => ApiInv'
<1> SUFFICES ASSUME ApiInv, [Next]_vars PROVE ApiInv'
  OBVIOUS
<1> USE DEF ApiInv
<1>1. CASE Lists(PageNext)
  BY <1>1, PagesStep, SignRests, TakeRests DEF Lists, SignsRest, AnswersRest
<1>2. CASE Signs(SignNext)
  BY <1>2, ListsRest, SignKeeps, TakeRests DEF Signs, PagesRest, AnswersRest
<1>3. CASE Uptimes(UptimeNext)
  BY <1>3, ListsRest, UptimeKeeps, TakeRests DEF Uptimes, PagesRest, AnswersRest
<1>4. CASE Answers(TakeNext)
  BY <1>4, ListsRest, TakeKeeps, SignRests DEF Answers, PagesRest, SignsRest
<1>5. CASE UNCHANGED vars
  <2>1. UNCHANGED pageVars /\ UNCHANGED signVars /\ UNCHANGED takeVars
    BY <1>5, Zenon DEF vars
  <2>2. UNCHANGED <<chainVars, database, view, uptime, sync, cache, job>>
    BY <2>1 DEF signVars, chainVars, database
  <2>3. UNCHANGED <<topic, version, held, leader, client, served>>
    BY <2>1 DEF takeVars
  <2>4. UNCHANGED <<table, deleted, reader>>
    BY <2>1 DEF pageVars
  <2>5. QED
    BY <2>2, <2>3, <2>4, ListsRest, SignRests, TakeRests
<1>6. QED
  BY <1>1, <1>2, <1>3, <1>4, <1>5 DEF Next

(* In every reachable state the invariant holds: what a refresher of       *)
(* SignStatsCacheJob holds was in the view at some time; what Take keeps,  *)
(* gives and makes is no older than what it gave before; and a row of the  *)
(* start of a walk whose key no other row of the list has was seen or is   *)
(* on a page to come, in whatever order each query puts equal rows.        *)
THEOREM Invariance == Spec => []ApiInv
BY InitEstablishes, NextPreserves, PTL DEF Spec

(* What the cache of signed blocks says of a day never changes again,      *)
(* however the view, the table and the window moved since the refresher    *)
(* read them (cacherefresh.go:22-87).                                      *)
THEOREM CachedDaysCorrect == Spec => []CachedDaysAreFinal
<1>1. ApiInv => CachedDaysAreFinal
  BY DEF ApiInv, SignInv
<1>2. QED
  BY <1>1, Invariance, PTL

(* An uptime counts no height but the UptimeHeight ones up to that of      *)
(* NodeScanner, whatever BlockScanner stored since (validator_task.go:393).*)
THEOREM UptimeCorrect == Spec => []UptimeOfRecentHeights
<1>1. ApiInv => UptimeOfRecentHeights
  BY DEF ApiInv, SignInv
<1>2. QED
  BY <1>1, Invariance, PTL

(* No request is answered from data older than that of an answer somebody  *)
(* had before it came in, for any number of requests and changes           *)
(* (cache.go:19-57).                                                       *)
THEOREM TakenCorrect == Spec => []TakenNeverGoesBack
<1>1. ApiInv => TakenNeverGoesBack
  BY DEF ApiInv, TakeInv
<1>2. QED
  BY <1>1, Invariance, PTL

(* No reply shows a row twice, or more rows than its total accounts for,   *)
(* for any requests and pages of any size, whatever is stored between the  *)
(* two queries (chaintransactionslogic.go:41-86, accountdelegationslogic.go*)
(* :92-104, stakingeventmodel.go:42-84).                                   *)
THEOREM PagesCorrect == Spec => []CountCoversPage
<1>1. ApiInv => CountCoversPage
  BY DEF ApiInv, PagesInv, CoverInv
<1>2. QED
  BY <1>1, Invariance, PTL

(* A client that walks a list of any length to its end misses no row that  *)
(* was there when it began and still is, unless another row of the list    *)
(* has the same key: however every query orders equal rows, however many   *)
(* rows push others to later pages in the meantime, or move the window of  *)
(* what is recent.  It misses no round at all (transactionmodel.go:143-146,*)
(* 186, runtimeroundlistlogic.go:44-72).                                   *)
THEOREM WalksCorrect == Spec => []WalkSeesAll
<1>1. ApiInv => WalkSeesAll
  BY WalkEnds DEF ApiInv
<1>2. QED
  BY <1>1, Invariance, PTL
=============================================================================
