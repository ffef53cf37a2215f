------------------------- MODULE NodeScannerProofs --------------------------
(***************************************************************************)
(* The rows NodeScanner keeps are what the registry listed, and its cursor *)
(* never passes a height whose nodes and validators are not recorded, for  *)
(* every registry and any number of failures, kills and lost answers.      *)
(*                                                                         *)
(* The hard part is that a recorded node's entity has its validator row:   *)
(* a node that is known is passed over when a newer node of its entity     *)
(* exists, and a run may die between the insertion of a node and that of   *)
(* the validator.  It holds because such an entity has at most one row     *)
(* from genesis, which is never scanned twice, and any later row is that   *)
(* of its first node in the list the next run resumes with.                *)
(***************************************************************************)
EXTENDS NodeScanner, TLAPS, WellFoundedInduction

RecordedNode(d)   == Known(d) /\ validator[d.entity] # None
RecordedBefore(n) == \A h \in (Genesis + 1)..(n - 1) : Recorded(h)

AtNode  == pc \in {"findNode", "insertNode", "findLatestNode", "findValidator",
                   "insertValidator", "updateValidator"}
AtKnown == pc \in {"findLatestNode", "findValidator", "insertValidator", "updateValidator"}
InLoop  == AtNode \/ pc \in {"getNodes", "updateCursor"}

(* A row is that of a node listed at its height and, genesis excepted, at  *)
(* none before.                                                            *)
RowInv(i) ==
  /\ node[i].height <= latest
  /\ \E d \in ListedAt(node[i].height) : IsRowOf(node[i], d)
  /\ \A h \in (Genesis + 1)..(node[i].height - 1) :
       \A d \in ListedAt(h) : ~IsRowOf(node[i], d)

NodesInv ==
  /\ \A i \in DOMAIN node : RowInv(i)
  /\ \A i, j \in DOMAIN node : i # j => ~IsRowOf(node[i], node[j])
  /\ \A i, j \in DOMAIN node : i <= j => node[i].height <= node[j].height

ValidatorsInv ==
  \A e \in Entity : validator[e] # None =>
    \E i \in DOMAIN node :
      /\ node[i].entity = e
      /\ node[i].node = validator[e].nodeAddress
      /\ node[i].consensus = validator[e].consensus

(* The rows of an entity that has no validator row yet. *)
FirstOfList(i) ==
  \E k \in DOMAIN registry[node[i].height] :
    /\ IsRowOf(node[i], registry[node[i].height][k])
    /\ \A j \in 1..(k - 1) : registry[node[i].height][j].entity # node[i].entity

LoneInv ==
  \A i \in DOMAIN node : validator[node[i].entity] = None =>
    /\ node[i].height > Genesis => FirstOfList(i)
    /\ \A j \in DOMAIN node :
         node[i].height = Genesis /\ node[j].height = Genesis
           /\ node[j].entity = node[i].entity => i = j

CursorInv ==
  /\ cursor = None => node = <<>>
  /\ cursor # None =>
       /\ cursor <= latest /\ RecordedBefore(cursor + 1)
       /\ \A i \in DOMAIN node : node[i].height <= cursor + 1

(* What the scanner knows between two calls. *)
ScannerInv ==
  /\ currentHeight <= latest
  /\ InLoop =>
       /\ cursor # None /\ nodeHeight <= currentHeight
       /\ \/ nodeHeight = cursor + 1
          \/ /\ nodeHeight = Genesis
             /\ \A i \in DOMAIN node :
                  /\ node[i].height = Genesis
                  /\ \/ validator[node[i].entity] # None
                     \/ AtKnown /\ node[i].entity = Current.entity
  /\ pc = "insertCursor" => cursor = None
  /\ AtNode =>
       /\ index \in DOMAIN registry[nodeHeight]
       /\ \A j \in 1..(index - 1) : RecordedNode(registry[nodeHeight][j])
  /\ pc = "insertNode" => ~Known(Current)
  /\ AtKnown => Known(Current)
  /\ pc = "updateValidator" => row # None
  /\ pc = "updateCursor" => Recorded(nodeHeight)

TablesInv == NodesInv /\ ValidatorsInv /\ LoneInv /\ CursorInv

IInv == TypeOK /\ TablesInv /\ ScannerInv

ScannerType ==
  /\ pc \in PC
  /\ currentHeight \in Height
  /\ nodeHeight \in Genesis..(MaxHeight + 1)
  /\ index \in Nat
  /\ row \in ValidatorRow \cup {None}

TablesType ==
  /\ node \in Seq(NodeRow)
  /\ validator \in [Entity -> ValidatorRow \cup {None}]
  /\ cursor \in Height \cup {None}

(* Nothing that is recorded is lost. *)
TablesStay ==
  /\ \A i \in DOMAIN node : i \in DOMAIN node' /\ node'[i] = node[i]
  /\ \A e \in Entity : validator[e] # None => validator'[e] # None
-----------------------------------------------------------------------------
LEMMA HeightFacts ==
  /\ Genesis \in Int /\ MaxHeight \in Int /\ Genesis <= MaxHeight /\ Genesis \in Height
  /\ \A h \in Height : h \in Int /\ Genesis <= h /\ h <= MaxHeight
  /\ \A h \in Int : Genesis <= h /\ h <= MaxHeight => h \in Height
  /\ None \notin Height
BY HeightAssumption, NoneAssumption DEF Height

LEMMA ListFacts ==
  ASSUME TypeOK, NEW h \in Height
  PROVE  /\ registry[h] \in Seq(Descriptor)
         /\ DOMAIN registry[h] = 1..Len(registry[h]) /\ Len(registry[h]) \in Nat
         /\ \A k \in DOMAIN registry[h] : registry[h][k] \in Descriptor
         /\ ListedAt(h) \subseteq Descriptor
<1>1. registry[h] \in Seq(Descriptor)
  <2>1. registry[h] \in Lists \cup {<<>>}
    BY DEF TypeOK
  <2>2. <<>> \in Seq(Descriptor)
    OBVIOUS
  <2>3. \A list \in Lists : list \in Seq(Descriptor)
    BY ListAssumption
  <2>4. QED
    BY <2>1, <2>2, <2>3
<1>2. /\ DOMAIN registry[h] = 1..Len(registry[h]) /\ Len(registry[h]) \in Nat
      /\ \A k \in DOMAIN registry[h] : registry[h][k] \in Descriptor
  BY <1>1
<1>3. QED
  BY <1>1, <1>2 DEF ListedAt

LEMMA RowFacts ==
  ASSUME TypeOK
  PROVE  /\ DOMAIN node = 1..Len(node) /\ Len(node) \in Nat
         /\ \A i \in DOMAIN node :
              /\ i \in Int /\ node[i] \in NodeRow
              /\ node[i].entity \in Entity /\ node[i].height \in Height
              /\ node[i].height \in Int
<1>1. node \in Seq(NodeRow)
  BY DEF TypeOK
<1>2. /\ DOMAIN node = 1..Len(node) /\ Len(node) \in Nat
      /\ \A i \in DOMAIN node : i \in Int /\ node[i] \in NodeRow
  BY <1>1
<1>3. \A r \in NodeRow : r.entity \in Entity /\ r.height \in Height /\ r.height \in Int
  BY HeightFacts DEF NodeRow
<1>4. QED
  BY <1>2, <1>3

(* The scanner works on a node of the list of its height.                  *)
LEMMA WorkFacts ==
  ASSUME IInv, InLoop
  PROVE  /\ nodeHeight \in Height /\ nodeHeight \in Int /\ nodeHeight <= latest
         /\ currentHeight \in Height /\ cursor \in Height /\ cursor \in Int
         /\ RecordedBefore(nodeHeight)
         /\ AtNode => /\ Current \in Descriptor /\ Current.entity \in Entity
                      /\ Current.node \in NodeId /\ Current.consensus \in Consensus
                      /\ Current \in ListedAt(nodeHeight)
<1>t. /\ TypeOK /\ ScannerInv /\ CursorInv /\ currentHeight \in Height /\ latest \in Height
      /\ nodeHeight \in Genesis..(MaxHeight + 1) /\ cursor \in Height \cup {None}
  BY DEF IInv, TypeOK, TablesInv
<1>1. /\ nodeHeight \in Int /\ nodeHeight <= currentHeight /\ currentHeight <= latest
      /\ cursor # None
      /\ nodeHeight = cursor + 1 \/ nodeHeight = Genesis
  BY <1>t, HeightFacts DEF ScannerInv
<1>2. nodeHeight \in Height /\ nodeHeight <= latest
  BY <1>1, <1>t, HeightFacts
<1>3. RecordedBefore(nodeHeight)
  <2>1. CASE nodeHeight = cursor + 1
    BY <2>1, <1>1, <1>t DEF CursorInv
  <2>2. CASE nodeHeight = Genesis
    <3>1. (Genesis + 1)..(Genesis - 1) = {}
      BY HeightFacts
    <3>2. QED
      BY <2>2, <3>1 DEF RecordedBefore
  <2>3. QED
    BY <1>1, <2>1, <2>2
<1>4. ASSUME AtNode
      PROVE  /\ Current \in Descriptor /\ Current.entity \in Entity
             /\ Current.node \in NodeId /\ Current.consensus \in Consensus
             /\ Current \in ListedAt(nodeHeight)
  <2>1. index \in DOMAIN registry[nodeHeight]
    BY <1>4, <1>t DEF ScannerInv
  <2>2. Current \in Descriptor /\ Current \in ListedAt(nodeHeight)
    BY <1>2, <1>t, <2>1, ListFacts DEF Current, ListedAt
  <2>3. QED
    BY <2>2 DEF Descriptor
<1>5. QED
  BY <1>1, <1>2, <1>3, <1>4, <1>t, HeightFacts

(* Among the rows of an entity there is a newest one.                      *)
LEMMA NewestExists ==
  ASSUME TypeOK, NEW e, NEW i \in DOMAIN node, node[i].entity = e
  PROVE  \E m \in DOMAIN node :
           /\ node[m].entity = e
           /\ \A j \in DOMAIN node : node[j].entity = e => j <= m
           /\ NewestNode(e) = node[m]
<1> DEFINE S == {j \in DOMAIN node : node[j].entity = e}
           b == Len(node)
           T == {b - j : j \in S}
<1>1. DOMAIN node = 1..b /\ b \in Nat /\ i \in S /\ \A j \in S : j \in Int /\ j <= b
  BY RowFacts
<1>2. T \subseteq Nat /\ T # {}
  <2>1. \A j \in S : b - j \in Nat
    BY <1>1
  <2>2. QED
    BY <1>1, <2>1
<1> HIDE DEF S, b
<1>3. PICK t \in T : \A u \in T : <<u, t>> \notin OpToRel(<, Nat)
  BY <1>2, WFMin, NatLessThanWellFounded
<1>4. PICK m \in S : t = b - m
  OBVIOUS
<1>5. ASSUME NEW j \in S PROVE j <= m
  <2>1. b - j \in T /\ b - j \in Nat /\ t \in Nat
    BY <1>2
  <2>2. ~(b - j < t)
    BY <1>3, <2>1 DEF OpToRel
  <2>3. QED
    BY <1>1, <1>4, <2>1, <2>2
<1>6. /\ m \in DOMAIN node /\ node[m].entity = e
      /\ \A j \in DOMAIN node : node[j].entity = e => j <= m
  BY <1>5 DEF S
<1>7. ASSUME NEW x \in DOMAIN node, node[x].entity = e,
             \A j \in DOMAIN node : node[j].entity = e => j <= x
      PROVE  x = m
  <2>1. x <= m /\ m <= x /\ x \in Int /\ m \in Int
    BY <1>1, <1>6, <1>7 DEF S
  <2>2. QED
    BY <2>1
<1>8. NewestNode(e) = node[m]
  <2> DEFINE c == CHOOSE x \in DOMAIN node :
                    /\ node[x].entity = e
                    /\ \A j \in DOMAIN node : node[j].entity = e => j <= x
  <2>1. /\ c \in DOMAIN node /\ node[c].entity = e
        /\ \A j \in DOMAIN node : node[j].entity = e => j <= c
    BY <1>6
  <2>2. c = m
    BY <1>7, <2>1
  <2>3. QED
    BY <2>2 DEF NewestNode
<1>9. QED
  BY <1>6, <1>8

(* A known node that is passed over belongs to an entity with a validator  *)
(* row.                                                                    *)
LEMMA PassedOverHasValidator ==
  ASSUME IInv, pc = "findLatestNode", NewestNode(Current.entity).node # Current.node
  PROVE  validator[Current.entity] # None
<1> SUFFICES ASSUME validator[Current.entity] = None PROVE FALSE
  OBVIOUS
<1> DEFINE e == Current.entity
<1>p. AtNode /\ AtKnown /\ InLoop
  BY DEF AtNode, AtKnown, InLoop
<1>t. TypeOK /\ NodesInv /\ LoneInv /\ CursorInv /\ ScannerInv
  BY DEF IInv, TablesInv
<1>w. /\ nodeHeight \in Height /\ nodeHeight \in Int /\ RecordedBefore(nodeHeight)
      /\ cursor \in Int /\ cursor # None
      /\ Current \in Descriptor /\ e \in Entity
  BY <1>p, <1>t, WorkFacts DEF ScannerInv
<1>1. PICK k \in DOMAIN node : IsRowOf(node[k], Current)
  BY <1>p, <1>t DEF ScannerInv, Known
<1>2. PICK m \in DOMAIN node :
        /\ node[m].entity = e
        /\ \A j \in DOMAIN node : node[j].entity = e => j <= m
        /\ NewestNode(e) = node[m]
  BY <1>1, <1>t, NewestExists DEF IsRowOf
<1>3. k <= m /\ node[k].entity = e /\ node[k].node = Current.node /\ k \in Int /\ m \in Int
  BY <1>1, <1>2, <1>t, RowFacts DEF IsRowOf
<1>4. /\ node[m].height \in Int /\ node[k].height \in Int
      /\ node[m].height \in Height /\ node[k].height \in Height
      /\ node[k].height <= node[m].height
  BY <1>3, <1>t, RowFacts DEF NodesInv
<1>5. CASE node[m].height = Genesis
  <2>1. node[k].height = Genesis
    BY <1>4, <1>5, HeightFacts
  <2>2. k = m
    BY <1>2, <1>3, <1>5, <2>1, <1>t DEF LoneInv
  <2>3. QED
    BY <1>2, <1>3, <2>2
<1>6. CASE node[m].height # Genesis
  <2>h. node[m].height > Genesis
    BY <1>4, <1>6, HeightFacts
  <2>f. FirstOfList(m)
    BY <2>h, <1>2, <1>t DEF LoneInv
  <2>1. PICK q \in DOMAIN registry[node[m].height] :
          /\ IsRowOf(node[m], registry[node[m].height][q])
          /\ \A j \in 1..(q - 1) : registry[node[m].height][j].entity # e
    BY <2>f, <1>2 DEF FirstOfList
  <2>2. ~Recorded(node[m].height)
    <3>1. /\ registry[node[m].height][q] \in ListedAt(node[m].height)
          /\ registry[node[m].height][q].entity = e
      BY <2>1, <1>2 DEF ListedAt, IsRowOf
    <3>2. QED
      BY <3>1 DEF Recorded
  <2>3. nodeHeight <= node[m].height
    <3>1. ~(node[m].height \in (Genesis + 1)..(nodeHeight - 1))
      BY <2>2, <1>w DEF RecordedBefore
    <3>2. QED
      BY <3>1, <2>h, <1>w, <1>4, HeightFacts
  <2>4. node[m].height <= nodeHeight
    <3>1. CASE nodeHeight = cursor + 1
      BY <3>1, <1>t, <1>w DEF CursorInv
    <3>2. CASE nodeHeight # cursor + 1
      BY <3>2, <1>p, <1>t, <1>6 DEF ScannerInv
    <3>3. QED
      BY <3>1, <3>2
  <2>5. node[m].height = nodeHeight
    BY <2>3, <2>4, <1>w, <1>4
  <2>6. /\ index \in DOMAIN registry[nodeHeight]
        /\ \A j \in 1..(index - 1) : RecordedNode(registry[nodeHeight][j])
    BY <1>p, <1>t DEF ScannerInv
  <2>7. index \in Int /\ q \in Int /\ 1 <= q /\ 1 <= index
    BY <2>1, <2>5, <2>6, <1>t, <1>w, ListFacts
  <2>8. ~(q < index)
    <3>1. SUFFICES ASSUME q < index PROVE FALSE
      OBVIOUS
    <3>2. RecordedNode(registry[nodeHeight][q])
      BY <3>1, <2>6, <2>7
    <3>3. registry[nodeHeight][q].entity = e
      BY <2>1, <2>5, <1>2 DEF IsRowOf
    <3>4. QED
      BY <3>2, <3>3 DEF RecordedNode
  <2>9. ~(index < q)
    <3>1. SUFFICES ASSUME index < q PROVE FALSE
      OBVIOUS
    <3>2. registry[nodeHeight][index].entity # e
      BY <3>1, <2>1, <2>5, <2>7
    <3>3. QED
      BY <3>2 DEF Current
  <2>10. q = index
    BY <2>7, <2>8, <2>9
  <2>11. node[m].node = Current.node
    BY <2>1, <2>5, <2>10 DEF IsRowOf, Current
  <2>12. QED
    BY <2>11, <1>2
<1>7. QED
  BY <1>5, <1>6
-----------------------------------------------------------------------------
(* What is recorded stays recorded.                                        *)
LEMMA RecordedStays ==
  ASSUME TypeOK, TablesStay, registry' = registry
  PROVE  /\ \A d \in Descriptor : RecordedNode(d) =>
              /\ \E i \in DOMAIN node' : IsRowOf(node'[i], d)
              /\ validator'[d.entity] # None
         /\ \A h \in Height : Recorded(h) => Recorded(h)'
         /\ \A n \in Int : n <= MaxHeight + 1 /\ RecordedBefore(n) => RecordedBefore(n)'
<1>1. ASSUME NEW d \in Descriptor, RecordedNode(d)
      PROVE  /\ \E i \in DOMAIN node' : IsRowOf(node'[i], d)
             /\ validator'[d.entity] # None
  <2>1. d.entity \in Entity
    BY DEF Descriptor
  <2>2. PICK i \in DOMAIN node : IsRowOf(node[i], d)
    BY <1>1 DEF RecordedNode, Known
  <2>3. i \in DOMAIN node' /\ node'[i] = node[i]
    BY DEF TablesStay
  <2>4. validator'[d.entity] # None
    BY <1>1, <2>1 DEF RecordedNode, TablesStay
  <2>5. QED
    BY <2>2, <2>3, <2>4
<1>2. ASSUME NEW h \in Height, Recorded(h) PROVE Recorded(h)'
  <2>1. ListedAt(h) \subseteq Descriptor /\ ListedAt(h)' = ListedAt(h)
    BY ListFacts DEF ListedAt
  <2>2. \A d \in ListedAt(h) : RecordedNode(d)
    BY <1>2 DEF Recorded, RecordedNode, Known
  <2>3. \A d \in ListedAt(h) : /\ \E i \in DOMAIN node' : IsRowOf(node'[i], d)
                               /\ validator'[d.entity] # None
    BY <1>1, <2>1, <2>2
  <2>4. QED
    BY <2>1, <2>3 DEF Recorded
<1>3. ASSUME NEW n \in Int, n <= MaxHeight + 1, RecordedBefore(n) PROVE RecordedBefore(n)'
  <2>1. \A h \in (Genesis + 1)..(n - 1) : h \in Height
    BY <1>3, HeightFacts
  <2>2. QED
    BY <1>2, <1>3, <2>1 DEF RecordedBefore
<1>4. QED
  BY <1>1, <1>2, <1>3

(* The row that is inserted for the node the scanner works on.             *)
NewRow == [entity |-> Current.entity, node |-> Current.node,
           consensus |-> Current.consensus, height |-> nodeHeight]

LEMMA AppendFacts ==
  ASSUME TypeOK, NEW r \in NodeRow, node' = Append(node, r)
  PROVE  /\ node' \in Seq(NodeRow)
         /\ Len(node) + 1 \in DOMAIN node' /\ node'[Len(node) + 1] = r
         /\ \A i \in DOMAIN node : i \in DOMAIN node' /\ node'[i] = node[i]
         /\ \A i \in DOMAIN node' : i \in DOMAIN node \/ i = Len(node) + 1
         /\ \A i \in DOMAIN node : i < Len(node) + 1
<1>1. node \in Seq(NodeRow) /\ DOMAIN node = 1..Len(node) /\ Len(node) \in Nat
  BY RowFacts DEF TypeOK
<1>2. /\ node' \in Seq(NodeRow) /\ Len(node') = Len(node) + 1
      /\ node'[Len(node) + 1] = r
      /\ \A i \in 1..Len(node) : node'[i] = node[i]
  BY <1>1
<1>3. DOMAIN node' = 1..(Len(node) + 1)
  BY <1>1, <1>2
<1>4. QED
  BY <1>1, <1>2, <1>3

LEMMA InsertNodeKeeps ==
  ASSUME IInv, pc = "insertNode", Effect(pc), latest' = latest, registry' = registry
  PROVE  /\ TablesType' /\ TablesInv' /\ TablesStay
         /\ validator' = validator /\ cursor' = cursor
         /\ \E i \in DOMAIN node' : IsRowOf(node'[i], Current)
         /\ \A i \in DOMAIN node' : i \in DOMAIN node \/ node'[i] = NewRow
<1>p. AtNode /\ InLoop /\ ~AtKnown
  BY DEF AtNode, InLoop, AtKnown
<1>t. /\ TypeOK /\ NodesInv /\ ValidatorsInv /\ LoneInv /\ CursorInv /\ ScannerInv
      /\ latest \in Height
  BY DEF IInv, TablesInv, TypeOK
<1>w. /\ nodeHeight \in Height /\ nodeHeight \in Int /\ nodeHeight <= latest
      /\ cursor \in Height /\ cursor \in Int /\ cursor # None /\ RecordedBefore(nodeHeight)
      /\ Current \in Descriptor /\ Current.entity \in Entity /\ Current.node \in NodeId
      /\ Current.consensus \in Consensus /\ Current \in ListedAt(nodeHeight)
      /\ index \in DOMAIN registry[nodeHeight] /\ ~Known(Current)
      /\ \A j \in 1..(index - 1) : RecordedNode(registry[nodeHeight][j])
  BY <1>p, <1>t, WorkFacts, HeightFacts DEF ScannerInv
<1>1. node' = Append(node, NewRow) /\ validator' = validator /\ cursor' = cursor
  BY DEF Effect, NewRow
<1> DEFINE n == Len(node) + 1
<1>2. NewRow \in NodeRow
  BY <1>w DEF NewRow, NodeRow
<1>3. /\ node' \in Seq(NodeRow)
      /\ n \in DOMAIN node' /\ node'[n] = NewRow
      /\ \A i \in DOMAIN node : i \in DOMAIN node' /\ node'[i] = node[i]
      /\ \A i \in DOMAIN node' : i \in DOMAIN node \/ i = n
      /\ \A i \in DOMAIN node : i < n
      /\ \A i \in DOMAIN node : i \in Int
      /\ n \in Int
  BY <1>1, <1>2, <1>t, AppendFacts, RowFacts
<1> HIDE DEF n
<1>4. /\ NewRow.entity = Current.entity /\ NewRow.node = Current.node
      /\ NewRow.consensus = Current.consensus /\ NewRow.height = nodeHeight
      /\ IsRowOf(NewRow, Current)
  BY DEF NewRow, IsRowOf
<1>5. TablesStay
  BY <1>1, <1>3 DEF TablesStay
<1>6. \A i \in DOMAIN node : ~IsRowOf(node[i], NewRow) /\ ~IsRowOf(NewRow, node[i])
  <2>1. SUFFICES ASSUME NEW i \in DOMAIN node
                 PROVE  ~IsRowOf(node[i], NewRow) /\ ~IsRowOf(NewRow, node[i])
    OBVIOUS
  <2>2. ~IsRowOf(node[i], Current)
    BY <1>w DEF Known
  <2>3. QED
    BY <2>2, <1>4 DEF IsRowOf
<1>7. \A i \in DOMAIN node :
        /\ node[i].height \in Int /\ node[i].height <= nodeHeight
        /\ node[i].entity \in Entity
  <2>1. SUFFICES ASSUME NEW i \in DOMAIN node
                 PROVE  node[i].height \in Int /\ node[i].height <= nodeHeight
                        /\ node[i].entity \in Entity
    OBVIOUS
  <2>2. node[i].height \in Int /\ node[i].height <= cursor + 1 /\ node[i].entity \in Entity
    BY <1>t, <1>w, RowFacts DEF CursorInv
  <2>3. nodeHeight = cursor + 1 \/ node[i].height = nodeHeight
    BY <1>t, <1>p DEF ScannerInv
  <2>4. QED
    BY <2>2, <2>3, <1>w
<1>8. NodesInv'
  <2>1. ASSUME NEW i \in DOMAIN node' PROVE RowInv(i)'
    <3>1. CASE i \in DOMAIN node
      <4>1. RowInv(i) /\ node'[i] = node[i]
        BY <3>1, <1>3, <1>t DEF NodesInv
      <4>2. QED
        BY <4>1 DEF RowInv, ListedAt
    <3>2. CASE i = n
      <4>1. node'[i].height = nodeHeight /\ node'[i] = NewRow
        BY <3>2, <1>3, <1>4
      <4>2. ASSUME NEW h \in (Genesis + 1)..(nodeHeight - 1), NEW d \in ListedAt(h)
            PROVE  ~IsRowOf(NewRow, d)
        <5>1. PICK j \in DOMAIN node : IsRowOf(node[j], d)
          BY <4>2, <1>w DEF RecordedBefore, Recorded
        <5>2. QED
          BY <5>1, <1>6 DEF IsRowOf
      <4>3. /\ nodeHeight <= latest
            /\ \E d \in ListedAt(nodeHeight) : IsRowOf(NewRow, d)
        BY <1>w, <1>4
      <4>4. \A h : ListedAt(h)' = ListedAt(h)
        BY DEF ListedAt
      <4>5. QED
        BY <4>1, <4>2, <4>3, <4>4 DEF RowInv
    <3>3. QED
      BY <3>1, <3>2, <1>3
  <2>2. \A i, j \in DOMAIN node' : i # j => ~IsRowOf(node'[i], node'[j])
    <3>1. SUFFICES ASSUME NEW i \in DOMAIN node', NEW j \in DOMAIN node', i # j
                   PROVE  ~IsRowOf(node'[i], node'[j])
      OBVIOUS
    <3>2. CASE i \in DOMAIN node /\ j \in DOMAIN node
      BY <3>1, <3>2, <1>3, <1>t DEF NodesInv
    <3>3. CASE i = n /\ j \in DOMAIN node
      BY <3>3, <1>3, <1>6
    <3>4. CASE i \in DOMAIN node /\ j = n
      BY <3>4, <1>3, <1>6
    <3>5. QED
      BY <3>1, <3>2, <3>3, <3>4, <1>3
  <2>3. \A i, j \in DOMAIN node' : i <= j => node'[i].height <= node'[j].height
    <3>1. SUFFICES ASSUME NEW i \in DOMAIN node', NEW j \in DOMAIN node', i <= j
                   PROVE  node'[i].height <= node'[j].height
      OBVIOUS
    <3>2. CASE i \in DOMAIN node /\ j \in DOMAIN node
      BY <3>1, <3>2, <1>3, <1>t DEF NodesInv
    <3>3. CASE i = n /\ j \in DOMAIN node
      <4>1. j < n /\ j \in Int
        BY <3>3, <1>3
      <4>2. QED
        BY <3>1, <3>3, <4>1, <1>3
    <3>4. CASE i \in DOMAIN node /\ j = n
      BY <3>4, <1>3, <1>4, <1>7
    <3>5. CASE i = n /\ j = n
      BY <3>5, <1>3, <1>4, <1>w
    <3>6. QED
      BY <3>2, <3>3, <3>4, <3>5, <1>3
  <2>4. QED
    BY <2>1, <2>2, <2>3 DEF NodesInv
<1>9. ValidatorsInv'
  <2>1. SUFFICES ASSUME NEW e \in Entity, validator[e] # None
                 PROVE  \E i \in DOMAIN node' :
                          /\ node'[i].entity = e
                          /\ node'[i].node = validator[e].nodeAddress
                          /\ node'[i].consensus = validator[e].consensus
    BY <1>1 DEF ValidatorsInv
  <2>2. PICK i \in DOMAIN node :
          /\ node[i].entity = e
          /\ node[i].node = validator[e].nodeAddress
          /\ node[i].consensus = validator[e].consensus
    BY <2>1, <1>t DEF ValidatorsInv
  <2>3. QED
    BY <2>2, <1>3
<1>10. LoneInv'
  <2>1. SUFFICES ASSUME NEW i \in DOMAIN node', validator[node'[i].entity] = None
                 PROVE  /\ node'[i].height > Genesis => FirstOfList(i)'
                        /\ \A j \in DOMAIN node' :
                             node'[i].height = Genesis /\ node'[j].height = Genesis
                               /\ node'[j].entity = node'[i].entity => i = j
    BY <1>1 DEF LoneInv
  <2>2. node'[i].height > Genesis => FirstOfList(i)'
    <3>1. CASE i \in DOMAIN node
      <4>1. node'[i] = node[i] /\ (node[i].height > Genesis => FirstOfList(i))
        BY <2>1, <3>1, <1>3, <1>t DEF LoneInv
      <4>2. QED
        BY <4>1 DEF FirstOfList
    <3>2. CASE i = n
      <4>1. node'[i] = NewRow
        BY <3>2, <1>3
      <4>2. \A j \in 1..(index - 1) : registry[nodeHeight][j].entity # Current.entity
        BY <4>1, <2>1, <1>w, <1>4 DEF RecordedNode
      <4>3. IsRowOf(NewRow, registry[nodeHeight][index])
        BY <1>4 DEF Current
      <4>4. QED
        BY <4>1, <4>2, <4>3, <1>4, <1>w DEF FirstOfList
    <3>3. QED
      BY <3>1, <3>2, <1>3
  <2>3. ASSUME NEW j \in DOMAIN node', node'[i].height = Genesis, node'[j].height = Genesis,
               node'[j].entity = node'[i].entity
        PROVE  i = j
    <3>1. CASE i \in DOMAIN node /\ j \in DOMAIN node
      BY <2>1, <2>3, <3>1, <1>3, <1>t DEF LoneInv
    <3>2. ASSUME NEW k \in DOMAIN node, node[k].entity = Current.entity,
                 validator[Current.entity] = None, nodeHeight = Genesis
          PROVE  FALSE
      <4>1. nodeHeight # cursor + 1
        BY <3>2, <1>w, HeightFacts
      <4>2. QED
        BY <4>1, <3>2, <1>t, <1>p DEF ScannerInv
    <3>3. CASE i = n /\ j \in DOMAIN node
      BY <2>1, <2>3, <3>2, <3>3, <1>3, <1>4
    <3>4. CASE i \in DOMAIN node /\ j = n
      BY <2>1, <2>3, <3>2, <3>4, <1>3, <1>4
    <3>5. QED
      BY <3>1, <3>3, <3>4, <1>3
  <2>4. QED
    BY <2>2, <2>3
<1>11. CursorInv'
  <2>1. cursor <= latest /\ RecordedBefore(cursor + 1)
    BY <1>t, <1>w DEF CursorInv
  <2>2. RecordedBefore(cursor + 1)'
    <3>1. cursor + 1 \in Int /\ cursor + 1 <= MaxHeight + 1
      BY <1>w, HeightFacts
    <3>2. PICK c \in Int : c = cursor + 1 /\ c <= MaxHeight + 1
      BY <3>1
    <3>3. RecordedBefore(c)'
      BY <2>1, <3>2, <1>t, <1>5, RecordedStays
    <3>4. QED
      BY <3>2, <3>3, <1>1 DEF RecordedBefore
  <2>3. nodeHeight <= cursor + 1
    BY <1>p, <1>t, <1>w, HeightFacts DEF ScannerInv
  <2>4. \A i \in DOMAIN node' : node'[i].height <= cursor + 1
    BY <2>3, <1>3, <1>4, <1>t, <1>w DEF CursorInv
  <2>5. QED
    BY <2>1, <2>2, <2>4, <1>1, <1>w DEF CursorInv
<1>12. TablesType'
  BY <1>1, <1>3, <1>t DEF TablesType, TypeOK
<1>13. QED
  BY <1>1, <1>3, <1>4, <1>5, <1>8, <1>9, <1>10, <1>11, <1>12 DEF TablesInv

(* A validator row is written for a node that has a row.                   *)
LEMMA SetValidatorKeeps ==
  ASSUME IInv, AtKnown, NEW v \in ValidatorRow,
         v.nodeAddress = Current.node, v.consensus = Current.consensus,
         validator' = [validator EXCEPT ![Current.entity] = v],
         node' = node, cursor' = cursor, latest' = latest, registry' = registry
  PROVE  /\ TablesType' /\ TablesInv' /\ TablesStay
         /\ validator'[Current.entity] # None
<1>p. AtNode /\ InLoop
  BY DEF AtNode, InLoop, AtKnown
<1>t. /\ TypeOK /\ NodesInv /\ ValidatorsInv /\ LoneInv /\ CursorInv /\ ScannerInv
      /\ validator \in [Entity -> ValidatorRow \cup {None}]
  BY DEF IInv, TablesInv, TypeOK
<1>w. Current \in Descriptor /\ Current.entity \in Entity
  BY <1>p, WorkFacts
<1>1. /\ validator' \in [Entity -> ValidatorRow \cup {None}]
      /\ validator'[Current.entity] = v
      /\ \A e \in Entity : e # Current.entity => validator'[e] = validator[e]
  BY <1>t, <1>w
<1>2. v # None
  BY NoneAssumption
<1>3. \A e \in Entity : validator[e] # None => validator'[e] # None
  BY <1>1, <1>2
<1>4. TablesStay
  BY <1>3 DEF TablesStay
<1>5. NodesInv'
  <2>1. \A i \in DOMAIN node : RowInv(i)'
    BY <1>t DEF NodesInv, RowInv, ListedAt
  <2>2. QED
    BY <2>1, <1>t DEF NodesInv
<1>6. ValidatorsInv'
  <2>1. SUFFICES ASSUME NEW e \in Entity, validator'[e] # None
                 PROVE  \E i \in DOMAIN node :
                          /\ node[i].entity = e
                          /\ node[i].node = validator'[e].nodeAddress
                          /\ node[i].consensus = validator'[e].consensus
    BY DEF ValidatorsInv
  <2>2. CASE e = Current.entity
    <3>1. PICK i \in DOMAIN node : IsRowOf(node[i], Current)
      BY <1>t DEF ScannerInv, Known
    <3>2. QED
      BY <2>2, <3>1, <1>1 DEF IsRowOf
  <2>3. CASE e # Current.entity
    BY <2>1, <2>3, <1>1, <1>t DEF ValidatorsInv
  <2>4. QED
    BY <2>2, <2>3
<1>7. LoneInv'
  <2>1. \A i \in DOMAIN node : node[i].entity \in Entity
    BY <1>t, RowFacts
  <2>2. \A i \in DOMAIN node : FirstOfList(i)' <=> FirstOfList(i)
    BY DEF FirstOfList
  <2>3. QED
    BY <2>1, <2>2, <1>3, <1>t DEF LoneInv
<1>8. CursorInv'
  <2>1. cursor # None => RecordedBefore(cursor + 1)'
    <3>1. SUFFICES ASSUME cursor # None PROVE RecordedBefore(cursor + 1)'
      OBVIOUS
    <3>2. cursor \in Int /\ cursor <= MaxHeight /\ RecordedBefore(cursor + 1)
      BY <3>1, <1>t, HeightFacts DEF CursorInv, TypeOK
    <3>3. PICK c \in Int : c = cursor + 1 /\ c <= MaxHeight + 1
      BY <3>2, HeightFacts
    <3>4. RecordedBefore(c)'
      BY <3>2, <3>3, <1>t, <1>4, RecordedStays
    <3>5. QED
      BY <3>3, <3>4 DEF RecordedBefore
  <2>2. QED
    BY <2>1, <1>t DEF CursorInv
<1>9. TablesType'
  BY <1>1, <1>t DEF TablesType, TypeOK
<1>10. QED
  BY <1>1, <1>2, <1>4, <1>5, <1>6, <1>7, <1>8, <1>9 DEF TablesInv

(* The cursor is inserted before anything is recorded, and moved to a      *)
(* height that is.                                                         *)
LEMMA SetCursorKeeps ==
  ASSUME IInv, pc \in {"insertCursor", "updateCursor"}, Effect(pc),
         latest' = latest, registry' = registry
  PROVE  /\ TablesType' /\ TablesInv' /\ TablesStay
         /\ node' = node /\ validator' = validator
         /\ pc = "insertCursor" => cursor' = Genesis /\ node = <<>>
         /\ pc = "updateCursor" => cursor' = nodeHeight
<1>t. /\ TypeOK /\ NodesInv /\ ValidatorsInv /\ LoneInv /\ CursorInv /\ ScannerInv
      /\ latest \in Height
  BY DEF IInv, TablesInv, TypeOK
<1>1. /\ node' = node /\ validator' = validator
      /\ pc = "insertCursor" => cursor' = Genesis
      /\ pc = "updateCursor" => cursor' = nodeHeight
  BY DEF Effect
<1>2. \A n : RecordedBefore(n) => RecordedBefore(n)'
  BY <1>1 DEF RecordedBefore, Recorded, ListedAt
<1>3. /\ cursor' \in Height /\ cursor' <= latest
      /\ \E c \in Int : c = cursor' + 1 /\ RecordedBefore(c)
      /\ \A i \in DOMAIN node : node[i].height <= cursor' + 1
      /\ pc = "insertCursor" => node = <<>>
  <2>1. CASE pc = "insertCursor"
    <3>1. cursor' = Genesis /\ cursor = None /\ node = <<>>
      BY <2>1, <1>1, <1>t DEF ScannerInv, CursorInv
    <3>2. (Genesis + 1)..((Genesis + 1) - 1) = {} /\ Genesis + 1 \in Int
      BY HeightFacts
    <3>3. RecordedBefore(Genesis + 1)
      BY <3>2 DEF RecordedBefore
    <3>4. QED
      BY <3>1, <3>2, <3>3, <1>t, HeightFacts
  <2>2. CASE pc = "updateCursor"
    <3>1. InLoop /\ Recorded(nodeHeight) /\ ~AtKnown
      BY <2>2, <1>t DEF InLoop, ScannerInv, AtKnown
    <3>2. /\ nodeHeight \in Height /\ nodeHeight \in Int /\ nodeHeight <= latest
          /\ RecordedBefore(nodeHeight) /\ cursor \in Int /\ cursor # None
      BY <3>1, <1>t, WorkFacts DEF ScannerInv
    <3>3. RecordedBefore(nodeHeight + 1)
      <4>1. \A h \in (Genesis + 1)..((nodeHeight + 1) - 1) :
              h = nodeHeight \/ h \in (Genesis + 1)..(nodeHeight - 1)
        BY <3>2, HeightFacts
      <4>2. QED
        BY <3>1, <3>2, <4>1 DEF RecordedBefore
    <3>4. ASSUME NEW i \in DOMAIN node PROVE node[i].height <= nodeHeight + 1
      <4>1. node[i].height \in Int /\ node[i].height <= cursor + 1
        BY <3>2, <1>t, RowFacts DEF CursorInv
      <4>2. nodeHeight = cursor + 1 \/ node[i].height = nodeHeight
        BY <3>1, <1>t DEF ScannerInv
      <4>3. QED
        BY <4>1, <4>2, <3>2
    <3>5. QED
      BY <2>2, <3>2, <3>3, <3>4, <1>1
  <2>3. QED
    BY <2>1, <2>2
<1>4. CursorInv'
  <2>1. PICK c \in Int : c = cursor' + 1 /\ RecordedBefore(c)
    BY <1>3
  <2>2. RecordedBefore(c)'
    BY <2>1, <1>2
  <2>3. RecordedBefore(cursor + 1)'
    BY <2>1, <2>2 DEF RecordedBefore
  <2>4. cursor' # None
    BY <1>3, HeightFacts
  <2>5. QED
    BY <2>3, <2>4, <1>1, <1>3 DEF CursorInv
<1>5. NodesInv' /\ ValidatorsInv' /\ LoneInv'
  BY <1>1, <1>t DEF NodesInv, RowInv, ListedAt, ValidatorsInv, LoneInv, FirstOfList
<1>6. TablesStay /\ TablesType'
  BY <1>1, <1>3, <1>t DEF TablesStay, TablesType, TypeOK
<1>7. QED
  BY <1>1, <1>3, <1>4, <1>5, <1>6 DEF TablesInv

(* Whatever statement the scanner sends, the tables stay sound.            *)
LEMMA EffectKeeps ==
  ASSUME IInv, pc \in Writing, Effect(pc), latest' = latest, registry' = registry
  PROVE  /\ TablesType' /\ TablesInv' /\ TablesStay
         /\ pc \in {"insertValidator", "updateValidator"} =>
              /\ node' = node /\ cursor' = cursor
              /\ validator'[Current.entity] # None
<1>1. CASE pc = "insertNode"
  BY <1>1, InsertNodeKeeps
<1>2. CASE pc \in {"insertCursor", "updateCursor"}
  BY <1>2, SetCursorKeeps
<1>3. CASE pc \in {"insertValidator", "updateValidator"}
  <2>1. AtKnown /\ AtNode /\ InLoop
    BY <1>3 DEF AtKnown, AtNode, InLoop
  <2>2. Current.node \in NodeId /\ Current.consensus \in Consensus
    BY <2>1, WorkFacts
  <2>3. node' = node /\ cursor' = cursor
    BY <1>3 DEF Effect
  <2>4. \E v \in ValidatorRow :
          /\ v.nodeAddress = Current.node /\ v.consensus = Current.consensus
          /\ validator' = [validator EXCEPT ![Current.entity] = v]
    <3>1. CASE pc = "insertValidator"
      <4> DEFINE v == [nodeId |-> Current.node, nodeAddress |-> Current.node,
                       consensus |-> Current.consensus]
      <4>1. v \in ValidatorRow /\ v.nodeAddress = Current.node /\ v.consensus = Current.consensus
        BY <2>2 DEF ValidatorRow
      <4>2. validator' = [validator EXCEPT ![Current.entity] = v]
        BY <3>1 DEF Effect
      <4>3. QED
        BY <4>1, <4>2
    <3>2. CASE pc = "updateValidator"
      <4> DEFINE v == Updated(row, Current)
      <4>1. row \in ValidatorRow
        BY <3>2 DEF IInv, TypeOK, ScannerInv
      <4>2. row.nodeId \in NodeId
        BY <4>1 DEF ValidatorRow
      <4>3. v \in ValidatorRow /\ v.nodeAddress = Current.node /\ v.consensus = Current.consensus
        BY <4>2, <2>2 DEF ValidatorRow, Updated
      <4>4. validator' = [validator EXCEPT ![Current.entity] = v]
        BY <3>2 DEF Effect
      <4>5. QED
        BY <4>3, <4>4
    <3>3. QED
      BY <1>3, <3>1, <3>2
  <2>5. QED
    BY <2>1, <2>3, <2>4, SetValidatorKeeps
<1>4. QED
  BY <1>1, <1>2, <1>3 DEF Writing
-----------------------------------------------------------------------------
LEMMA InitEstablishes == Init => IInv
<1> SUFFICES ASSUME Init PROVE IInv
  OBVIOUS
<1>1. PICK list \in Lists : registry = [h \in Height |-> IF h = Genesis THEN list ELSE <<>>]
  BY DEF Init
<1>2. registry \in [Height -> Lists \cup {<<>>}]
  BY <1>1
<1>3. node = <<>> /\ DOMAIN node = {} /\ node \in Seq(NodeRow)
  BY DEF Init
<1>4. TypeOK
  BY <1>2, <1>3, HeightFacts, FaultAssumption DEF Init, TypeOK, PC
<1>5. TablesInv
  BY <1>3 DEF Init, TablesInv, NodesInv, ValidatorsInv, LoneInv, CursorInv
<1>6. ScannerInv
  BY HeightFacts DEF Init, ScannerInv, InLoop, AtNode, AtKnown
<1>7. QED
  BY <1>4, <1>5, <1>6 DEF IInv

LEMMA TablesSame ==
  ASSUME IInv, UNCHANGED <<latest, registry, node, validator, cursor>>
  PROVE  TablesType' /\ TablesInv' /\ TablesStay
<1>1. TypeOK /\ NodesInv /\ ValidatorsInv /\ LoneInv /\ CursorInv
  BY DEF IInv, TablesInv
<1>2. TablesType' /\ TablesStay
  BY <1>1 DEF TypeOK, TablesType, TablesStay
<1>3. NodesInv' /\ ValidatorsInv' /\ LoneInv'
  BY <1>1 DEF NodesInv, RowInv, ListedAt, ValidatorsInv, LoneInv, FirstOfList
<1>4. CursorInv'
  BY <1>1 DEF CursorInv, RecordedBefore, Recorded, ListedAt
<1>5. QED
  BY <1>2, <1>3, <1>4 DEF TablesInv

LEMMA Assembled ==
  ASSUME IInv, latest' = latest, registry' = registry, faults' \in 0..MaxFaults,
         TablesType', TablesInv', ScannerType', ScannerInv'
  PROVE  IInv'
BY DEF IInv, TypeOK, TablesType, ScannerType

LEMMA ReturnIsSafe ==
  ASSUME IInv, Return, latest' = latest
  PROVE  ScannerType' /\ ScannerInv'
<1>1. Genesis <= latest
  BY HeightFacts DEF IInv, TypeOK
<1>2. ScannerType'
  BY HeightFacts DEF Return, ScannerType, PC
<1>3. ScannerInv'
  BY <1>1 DEF Return, ScannerInv, InLoop, AtNode, AtKnown
<1>4. QED
  BY <1>2, <1>3

(* The loop over the heights goes on at h, the one after the cursor, or    *)
(* begins at genesis.                                                      *)
LEMMA LoopIsSafe ==
  ASSUME IInv, NEW h \in Genesis..(MaxHeight + 1), Loop(h), latest' = latest,
         cursor' # None,
         \/ h = cursor' + 1
         \/ h = Genesis /\ node' = <<>>
  PROVE  ScannerType' /\ ScannerInv'
<1>1. CASE h <= currentHeight
  <2>1. /\ pc' = "getNodes" /\ nodeHeight' = h /\ index' = 0 /\ row' = None
        /\ currentHeight' = currentHeight
    BY <1>1 DEF Loop
  <2>2. currentHeight \in Height /\ currentHeight <= latest
    BY DEF IInv, TypeOK, ScannerInv
  <2>3. ScannerType'
    BY <2>1, <2>2 DEF ScannerType, PC
  <2>4. ScannerInv'
    BY <2>1, <2>2, <1>1 DEF ScannerInv, InLoop, AtNode, AtKnown
  <2>5. QED
    BY <2>3, <2>4
<1>2. CASE ~(h <= currentHeight)
  BY <1>2, ReturnIsSafe DEF Loop
<1>3. QED
  BY <1>1, <1>2

RecordedNext(d) ==
  (\E i \in DOMAIN node' : IsRowOf(node'[i], d)) /\ validator'[d.entity] # None

(* The loop over the nodes of a height goes on at k, the earlier ones      *)
(* recorded.                                                               *)
LEMMA NextNodeIsSafe ==
  ASSUME IInv, NEW k \in Nat, 1 <= k, NextNode(k), InLoop,
         latest' = latest, registry' = registry, cursor' = cursor,
         \A j \in DOMAIN registry[nodeHeight] :
           j < k => RecordedNext(registry[nodeHeight][j]),
         nodeHeight # cursor + 1 =>
           \A i \in DOMAIN node' :
             node'[i].height = Genesis /\ validator'[node'[i].entity] # None
  PROVE  ScannerType' /\ ScannerInv'
<1>t. TypeOK /\ ScannerInv
  BY DEF IInv
<1>w. /\ nodeHeight \in Height /\ nodeHeight \in Genesis..(MaxHeight + 1)
      /\ nodeHeight <= currentHeight /\ cursor # None
      /\ nodeHeight = cursor + 1 \/ nodeHeight = Genesis
      /\ currentHeight \in Height /\ currentHeight <= latest
  BY <1>t, WorkFacts DEF TypeOK, ScannerInv
<1>l. /\ DOMAIN registry[nodeHeight] = 1..Len(registry[nodeHeight])
      /\ Len(registry[nodeHeight]) \in Nat
  BY <1>t, <1>w, ListFacts
<1>1. /\ index' = k /\ row' = None /\ currentHeight' = currentHeight
      /\ nodeHeight' = nodeHeight
      /\ pc' \in {"findNode", "updateCursor"}
      /\ pc' = "findNode" => k <= Len(registry[nodeHeight])
      /\ pc' = "updateCursor" => ~(k <= Len(registry[nodeHeight]))
  BY DEF NextNode
<1>2. ScannerType'
  BY <1>1, <1>w DEF ScannerType, PC, Writing
<1>3. pc' = "findNode" =>
        /\ k \in DOMAIN registry[nodeHeight]
        /\ \A j \in 1..(k - 1) : RecordedNode(registry[nodeHeight][j])'
  <2>1. SUFFICES ASSUME k <= Len(registry[nodeHeight])
                 PROVE  /\ k \in DOMAIN registry[nodeHeight]
                        /\ \A j \in 1..(k - 1) : RecordedNode(registry[nodeHeight][j])'
    BY <1>1
  <2>2. k \in DOMAIN registry[nodeHeight]
    BY <2>1, <1>l
  <2>3. ASSUME NEW j \in 1..(k - 1) PROVE RecordedNode(registry[nodeHeight][j])'
    <3>1. j \in DOMAIN registry[nodeHeight] /\ j < k
      BY <2>1, <1>l
    <3>2. RecordedNext(registry[nodeHeight][j])
      BY <3>1
    <3>3. QED
      BY <3>2, <1>1 DEF RecordedNext, RecordedNode, Known
  <2>4. QED
    BY <2>2, <2>3
<1>4. pc' = "updateCursor" => Recorded(nodeHeight)'
  <2>1. SUFFICES ASSUME ~(k <= Len(registry[nodeHeight])), NEW d \in ListedAt(nodeHeight)
                 PROVE  RecordedNext(d)
    BY <1>1 DEF Recorded, ListedAt, RecordedNext
  <2>2. PICK j \in DOMAIN registry[nodeHeight] : d = registry[nodeHeight][j]
    BY DEF ListedAt
  <2>3. j < k
    BY <2>1, <1>l
  <2>4. QED
    BY <2>2, <2>3
<1>5. ScannerInv'
  BY <1>1, <1>3, <1>4, <1>w DEF ScannerInv, InLoop, AtNode, AtKnown
<1>6. QED
  BY <1>2, <1>5

(* The node the scanner works on is recorded; it goes on to the next one.  *)
LEMMA DoneWithCurrent ==
  ASSUME IInv, AtKnown, NextNode(index + 1), TablesStay,
         latest' = latest, registry' = registry, node' = node, cursor' = cursor,
         validator'[Current.entity] # None
  PROVE  ScannerType' /\ ScannerInv'
<1>p. AtNode /\ InLoop
  BY DEF AtNode, InLoop, AtKnown
<1>t. TypeOK /\ ScannerInv
  BY DEF IInv
<1>w. /\ nodeHeight \in Height /\ index \in DOMAIN registry[nodeHeight] /\ Known(Current)
      /\ \A j \in 1..(index - 1) : RecordedNode(registry[nodeHeight][j])
  BY <1>p, <1>t, WorkFacts DEF ScannerInv
<1>l. /\ DOMAIN registry[nodeHeight] = 1..Len(registry[nodeHeight])
      /\ Len(registry[nodeHeight]) \in Nat
      /\ \A k \in DOMAIN registry[nodeHeight] : registry[nodeHeight][k] \in Descriptor
  BY <1>t, <1>w, ListFacts
<1>1. index \in Int /\ 1 <= index
  BY <1>w, <1>l
<1>2. PICK k \in Nat : k = index + 1 /\ 1 <= k
  BY <1>1
<1>3. ASSUME NEW j \in DOMAIN registry[nodeHeight], j < k
      PROVE  RecordedNext(registry[nodeHeight][j])
  <2>1. CASE j = index
    BY <2>1, <1>w DEF RecordedNext, Known, Current
  <2>2. CASE j # index
    <3>1. j \in 1..(index - 1)
      BY <2>2, <1>1, <1>2, <1>3, <1>l
    <3>2. RecordedNode(registry[nodeHeight][j]) /\ registry[nodeHeight][j] \in Descriptor
      BY <3>1, <1>3, <1>w, <1>l
    <3>3. QED
      BY <3>2, <1>t, RecordedStays DEF RecordedNext
  <2>3. QED
    BY <2>1, <2>2
<1>4. ASSUME nodeHeight # cursor + 1, NEW i \in DOMAIN node
      PROVE  node[i].height = Genesis /\ validator'[node[i].entity] # None
  <2>1. /\ node[i].height = Genesis
        /\ validator[node[i].entity] # None \/ node[i].entity = Current.entity
    BY <1>4, <1>p, <1>t DEF ScannerInv
  <2>2. node[i].entity \in Entity
    BY <1>t, RowFacts
  <2>3. QED
    BY <2>1, <2>2 DEF TablesStay
<1>5. QED
  BY <1>2, <1>3, <1>4, <1>p, NextNodeIsSafe
-----------------------------------------------------------------------------
LEMMA NextPreserves == IInv /\ [Next]_vars => IInv'
<1> SUFFICES ASSUME IInv, [Next]_vars PROVE IInv'
  OBVIOUS
<1>t. /\ TypeOK /\ TablesInv /\ NodesInv /\ CursorInv /\ ScannerInv /\ ScannerType
      /\ latest \in Height /\ cursor \in Height \cup {None} /\ faults \in 0..MaxFaults
  BY DEF IInv, TablesInv, TypeOK, ScannerType
<1>r. ASSUME Return, UNCHANGED <<latest, registry>>, TablesType', TablesInv',
             faults' \in 0..MaxFaults
      PROVE  IInv'
  BY <1>r, ReturnIsSafe, Assembled
<1>s. ASSUME UNCHANGED <<latest, registry, node, validator, cursor>>,
             faults' \in 0..MaxFaults, ScannerType', ScannerInv'
      PROVE  IInv'
  BY <1>s, TablesSame, Assembled
<1>1. CASE Grow
  <2>1. /\ latest < MaxHeight /\ latest' = latest + 1
        /\ UNCHANGED <<node, validator, cursor, faults>>
        /\ UNCHANGED <<pc, currentHeight, nodeHeight, index, row>>
    BY <1>1 DEF Grow, tables, scanner
  <2>2. PICK list \in Lists : registry' = [registry EXCEPT ![latest + 1] = list]
    BY <1>1 DEF Grow
  <2>3. /\ latest' \in Height /\ latest \in Int /\ latest' \in Int
        /\ registry' \in [Height -> Lists \cup {<<>>}]
        /\ \A h \in Height : h <= latest => registry'[h] = registry[h]
    <3>1. latest \in Int /\ latest + 1 \in Height /\ latest + 1 \in Int
      BY <2>1, <1>t, HeightFacts
    <3>2. registry \in [Height -> Lists \cup {<<>>}]
      BY <1>t DEF TypeOK
    <3>3. \A h \in Height : h <= latest => h # latest + 1
      BY <3>1, HeightFacts
    <3>4. QED
      BY <2>1, <2>2, <3>1, <3>2, <3>3
  <2>4. TypeOK'
    BY <2>1, <2>3, <1>t DEF TypeOK
  <2>5. \A h \in Height : h <= latest =>
          ListedAt(h)' = ListedAt(h) /\ (Recorded(h)' <=> Recorded(h))
    <3>1. SUFFICES ASSUME NEW h \in Height, h <= latest
                   PROVE  ListedAt(h)' = ListedAt(h) /\ (Recorded(h)' <=> Recorded(h))
      OBVIOUS
    <3>2. registry'[h] = registry[h]
      BY <2>3, <3>1
    <3>3. ListedAt(h)' = ListedAt(h)
      BY <3>2 DEF ListedAt
    <3>4. QED
      BY <3>3, <2>1 DEF Recorded
  <2>6. \A n \in Int : n <= latest + 1 => (RecordedBefore(n) => RecordedBefore(n)')
    <3>1. ASSUME NEW n \in Int, n <= latest + 1, NEW h \in (Genesis + 1)..(n - 1)
          PROVE  h \in Height /\ h <= latest
      BY <2>3, <3>1, <1>t, HeightFacts
    <3>2. QED
      BY <2>5, <3>1 DEF RecordedBefore
  <2>7. NodesInv'
    <3>1. ASSUME NEW i \in DOMAIN node PROVE RowInv(i)'
      <4>1. RowInv(i) /\ node[i].height \in Height /\ node[i].height \in Int
        BY <1>t, RowFacts DEF NodesInv
      <4>2. node[i].height <= latest /\ node[i].height <= latest'
        BY <4>1, <2>1, <2>3 DEF RowInv
      <4>3. \A h \in (Genesis + 1)..(node[i].height - 1) : h \in Height /\ h <= latest
        BY <4>1, <4>2, <2>3, <1>t, HeightFacts
      <4>4. QED
        BY <4>1, <4>2, <4>3, <2>1, <2>5 DEF RowInv
    <3>2. QED
      BY <3>1, <2>1, <1>t DEF NodesInv
  <2>8. LoneInv'
    <3>1. ASSUME NEW i \in DOMAIN node PROVE FirstOfList(i)' <=> FirstOfList(i)
      <4>1. node[i].height \in Height /\ node[i].height <= latest
        BY <1>t, RowFacts DEF NodesInv, RowInv
      <4>2. registry'[node[i].height] = registry[node[i].height]
        BY <4>1, <2>3
      <4>3. QED
        BY <4>2, <2>1 DEF FirstOfList
    <3>2. QED
      BY <3>1, <2>1, <1>t DEF LoneInv, TablesInv
  <2>9. CursorInv'
    <3>1. cursor # None => cursor <= latest' /\ RecordedBefore(cursor + 1)'
      <4>1. SUFFICES ASSUME cursor # None
                     PROVE  cursor <= latest' /\ RecordedBefore(cursor + 1)'
        OBVIOUS
      <4>2. cursor \in Int /\ cursor <= latest /\ RecordedBefore(cursor + 1)
        BY <4>1, <1>t, HeightFacts DEF CursorInv
      <4>3. PICK c \in Int : c = cursor + 1 /\ c <= latest + 1
        BY <4>2, <2>3
      <4>4. RecordedBefore(c)'
        BY <4>2, <4>3, <2>6
      <4>5. cursor <= latest'
        BY <4>2, <2>1, <2>3
      <4>6. QED
        BY <4>3, <4>4, <4>5, <2>1 DEF RecordedBefore
    <3>2. QED
      BY <3>1, <2>1, <1>t DEF CursorInv
  <2>10. ValidatorsInv'
    BY <2>1, <1>t DEF ValidatorsInv, TablesInv
  <2>11. ScannerInv'
    <3>1. currentHeight <= latest'
      <4>1. currentHeight <= latest /\ currentHeight \in Int
        BY <1>t, HeightFacts DEF ScannerInv, ScannerType
      <4>2. QED
        BY <4>1, <2>1, <2>3
    <3>2. InLoop => /\ nodeHeight \in Height /\ nodeHeight <= latest
                    /\ registry'[nodeHeight] = registry[nodeHeight]
      BY <2>3, WorkFacts
    <3>3. InLoop => (Recorded(nodeHeight)' <=> Recorded(nodeHeight))
      BY <3>2, <2>1, <2>5 DEF Recorded, ListedAt
    <3>4. AtNode => Current' = Current
      BY <3>2, <2>1 DEF Current, InLoop
    <3>5. InLoop' = InLoop /\ AtNode' = AtNode /\ AtKnown' = AtKnown
      BY <2>1 DEF InLoop, AtNode, AtKnown
    <3>6. (AtKnown => AtNode) /\ (AtNode => InLoop) /\ (pc = "updateCursor" => InLoop)
          /\ (pc = "insertNode" => AtNode)
      BY DEF InLoop, AtNode, AtKnown
    <3>7. AtNode => /\ index \in DOMAIN registry'[nodeHeight]
                    /\ \A j \in 1..(index - 1) : RecordedNode(registry[nodeHeight][j])'
      BY <3>2, <3>6, <2>1, <1>t DEF ScannerInv, RecordedNode, Known
    <3>8. (AtKnown => Known(Current)') /\ (pc = "insertNode" => ~Known(Current)')
      BY <3>4, <3>6, <2>1, <1>t DEF ScannerInv, Known
    <3>9. QED
      BY <3>1, <3>3, <3>4, <3>5, <3>6, <3>7, <3>8, <2>1, <1>t DEF ScannerInv
  <2>12. QED
    BY <2>4, <2>7, <2>8, <2>9, <2>10, <2>11 DEF IInv, TablesInv
<1>2. CASE GetStatus \/ GetStaleStatus
  <2>1. /\ pc = "idle" /\ pc' = "findCursor" /\ currentHeight' \in {latest} \cup Genesis..(latest - 1)
        /\ UNCHANGED <<latest, registry, node, validator, cursor, nodeHeight, index, row>>
        /\ faults' \in 0..MaxFaults
    BY <1>2, <1>t, FaultAssumption DEF GetStatus, GetStaleStatus, Fault, tables
  <2>2. currentHeight' \in Height /\ currentHeight' <= latest
    BY <2>1, <1>t, HeightFacts
  <2>3. ScannerType' /\ ScannerInv'
    BY <2>1, <2>2, <1>t DEF ScannerType, PC, ScannerInv, InLoop, AtNode, AtKnown
  <2>4. QED
    BY <2>1, <2>3, <1>s
<1>3. CASE FindCursor
  <2>1. pc = "findCursor" /\ UNCHANGED <<latest, registry, node, validator, cursor, faults>>
    BY <1>3 DEF FindCursor, tables
  <2>2. CASE cursor = None
    <3>1. pc' = "insertCursor" /\ UNCHANGED <<currentHeight, nodeHeight, index, row>>
      BY <1>3, <2>2 DEF FindCursor, GoTo
    <3>2. ScannerType' /\ ScannerInv'
      BY <2>1, <2>2, <3>1, <1>t
         DEF ScannerType, PC, Writing, ScannerInv, InLoop, AtNode, AtKnown
    <3>3. QED
      BY <2>1, <3>2, <1>s, <1>t
  <2>3. CASE cursor # None
    <3>1. Loop(cursor + 1)
      BY <1>3, <2>3 DEF FindCursor
    <3>2. cursor \in Height
      BY <2>3, <1>t
    <3>3. PICK h \in Genesis..(MaxHeight + 1) : h = cursor + 1
      BY <3>2, HeightFacts
    <3>4. ScannerType' /\ ScannerInv'
      BY <2>1, <2>3, <3>1, <3>3, LoopIsSafe
    <3>5. QED
      BY <2>1, <3>4, <1>s, <1>t
  <2>4. QED
    BY <2>2, <2>3
<1>4. CASE GetNodes
  <2>1. /\ pc = "getNodes" /\ NextNode(1) /\ InLoop /\ ~AtKnown
        /\ UNCHANGED <<latest, registry, node, validator, cursor, faults>>
    BY <1>4 DEF GetNodes, tables, InLoop, AtKnown
  <2>2. nodeHeight # cursor + 1 =>
          \A i \in DOMAIN node :
            node[i].height = Genesis /\ validator[node[i].entity] # None
    BY <2>1, <1>t DEF ScannerInv
  <2>3. \A j \in DOMAIN registry[nodeHeight] : ~(j < 1)
    BY <2>1, <1>t, WorkFacts, ListFacts
  <2>4. PICK k \in Nat : k = 1
    OBVIOUS
  <2>5. ScannerType' /\ ScannerInv'
    BY <2>1, <2>2, <2>3, <2>4, NextNodeIsSafe
  <2>6. QED
    BY <2>1, <2>5, <1>s, <1>t
<1>k. ASSUME pc \in {"findNode", "insertNode"}
      PROVE  /\ AtNode /\ InLoop /\ ~AtKnown
             /\ cursor # None /\ nodeHeight <= currentHeight
             /\ \/ nodeHeight = cursor + 1
                \/ /\ nodeHeight = Genesis
                   /\ \A i \in DOMAIN node :
                        node[i].height = Genesis /\ validator[node[i].entity] # None
             /\ index \in DOMAIN registry[nodeHeight]
             /\ \A j \in 1..(index - 1) : RecordedNode(registry[nodeHeight][j])
  <2>1. AtNode /\ InLoop /\ ~AtKnown
    BY <1>k DEF AtNode, InLoop, AtKnown
  <2>2. QED
    BY <2>1, <1>t DEF ScannerInv
<1>5. CASE FindNode
  <2>1. /\ pc = "findNode"
        /\ UNCHANGED <<latest, registry, node, validator, cursor, faults>>
        /\ UNCHANGED <<currentHeight, nodeHeight, index, row>>
        /\ pc' = IF Known(Current) THEN "findLatestNode" ELSE "insertNode"
    BY <1>5 DEF FindNode, GoTo, tables
  <2>2. ScannerType'
    BY <2>1, <1>t DEF ScannerType, PC, Writing
  <2>3. Current' = Current /\ (Known(Current)' <=> Known(Current))
    BY <2>1 DEF Current, Known
  <2>4. \A d : RecordedNode(d)' <=> RecordedNode(d)
    BY <2>1 DEF RecordedNode, Known
  <2>5. ScannerInv'
    BY <2>1, <2>3, <2>4, <1>k, <1>t
       DEF ScannerInv, InLoop, AtNode, AtKnown, RecordedNode, Known
  <2>6. QED
    BY <2>1, <2>2, <2>5, <1>s, <1>t
<1>6. CASE FindLatestNode
  <2>1. /\ pc = "findLatestNode" /\ AtKnown
        /\ UNCHANGED <<latest, registry, node, validator, cursor, faults>>
    BY <1>6 DEF FindLatestNode, tables, AtKnown
  <2>2. CASE NewestNode(Current.entity).node = Current.node
    <3>1. pc' = "findValidator" /\ UNCHANGED <<currentHeight, nodeHeight, index, row>>
      BY <1>6, <2>2 DEF FindLatestNode, GoTo
    <3>2. ScannerType' /\ ScannerInv'
      BY <2>1, <3>1, <1>t
         DEF ScannerType, PC, ScannerInv, InLoop, AtNode, AtKnown, RecordedNode, Known, Current
    <3>3. QED
      BY <2>1, <3>2, <1>s, <1>t
  <2>3. CASE NewestNode(Current.entity).node # Current.node
    <3>1. NextNode(index + 1)
      BY <1>6, <2>3 DEF FindLatestNode
    <3>2. validator'[Current.entity] # None
      BY <2>1, <2>3, PassedOverHasValidator
    <3>3. TablesStay
      BY <2>1 DEF TablesStay
    <3>4. ScannerType' /\ ScannerInv'
      BY <2>1, <3>1, <3>2, <3>3, DoneWithCurrent
    <3>5. QED
      BY <2>1, <3>4, <1>s, <1>t
  <2>4. QED
    BY <2>2, <2>3
<1>7. CASE FindValidator
  <2>1. /\ pc = "findValidator" /\ AtNode /\ InLoop
        /\ UNCHANGED <<latest, registry, node, validator, cursor, faults>>
        /\ UNCHANGED <<currentHeight, nodeHeight, index>>
        /\ row' = validator[Current.entity]
        /\ pc' = IF row' = None THEN "insertValidator" ELSE "updateValidator"
    BY <1>7 DEF FindValidator, tables, AtNode, InLoop
  <2>2. row' \in ValidatorRow \cup {None}
    BY <2>1, <1>t, WorkFacts DEF TypeOK
  <2>3. ScannerType'
    BY <2>1, <2>2, <1>t DEF ScannerType, PC, Writing
  <2>4. ScannerInv'
    BY <2>1, <1>t DEF ScannerInv, InLoop, AtNode, AtKnown, RecordedNode, Known, Current
  <2>5. QED
    BY <2>1, <2>3, <2>4, <1>s, <1>t
<1>8. CASE Write
  <2>1. pc \in Writing /\ Effect(pc) /\ UNCHANGED <<latest, registry, faults>>
    BY <1>8 DEF Write
  <2>2. TablesType' /\ TablesInv' /\ TablesStay
    BY <2>1, EffectKeeps
  <2>q. ASSUME ScannerType', ScannerInv' PROVE IInv'
    BY <2>1, <2>2, <2>q, <1>t, Assembled
  <2>3. CASE pc = "insertCursor"
    <3>1. Loop(Genesis)
      BY <1>8, <2>3 DEF Write
    <3>2. cursor' = Genesis /\ node' = <<>>
      BY <2>1, <2>3, SetCursorKeeps
    <3>3. cursor' # None /\ Genesis \in Genesis..(MaxHeight + 1)
      BY <3>2, HeightFacts
    <3>4. QED
      BY <2>1, <3>1, <3>2, <3>3, <2>q, LoopIsSafe
  <2>4. CASE pc = "insertNode"
    <3>1. pc' = "findLatestNode" /\ UNCHANGED <<currentHeight, nodeHeight, index, row>>
      BY <1>8, <2>4 DEF Write, GoTo
    <3>2. /\ validator' = validator /\ cursor' = cursor
          /\ \E i \in DOMAIN node' : IsRowOf(node'[i], Current)
          /\ \A i \in DOMAIN node' : i \in DOMAIN node \/ node'[i] = NewRow
      BY <2>1, <2>4, InsertNodeKeeps
    <3>3. ScannerType'
      BY <3>1, <1>t DEF ScannerType, PC
    <3>4. Current' = Current /\ Known(Current)'
      BY <2>1, <3>1, <3>2 DEF Current, Known
    <3>5. ASSUME NEW j \in 1..(index - 1) PROVE RecordedNode(registry[nodeHeight][j])'
      <4>1. RecordedNode(registry[nodeHeight][j])
        BY <2>4, <1>k
      <4>2. \E i \in DOMAIN node' : IsRowOf(node'[i], registry[nodeHeight][j])
        BY <4>1, <2>2 DEF RecordedNode, Known, TablesStay
      <4>3. QED
        BY <4>1, <4>2, <2>1, <3>1, <3>2 DEF RecordedNode, Known
    <3>6. ASSUME nodeHeight # cursor + 1, NEW i \in DOMAIN node'
          PROVE  /\ node'[i].height = Genesis
                 /\ validator[node'[i].entity] # None \/ node'[i].entity = Current.entity
      <4>1. CASE i \in DOMAIN node
        BY <2>2, <2>4, <3>6, <4>1, <1>k DEF TablesStay
      <4>2. CASE node'[i] = NewRow
        BY <2>4, <3>6, <4>2, <1>k DEF NewRow
      <4>3. QED
        BY <3>2, <4>1, <4>2
    <3>7. ScannerInv'
      BY <2>1, <2>4, <3>1, <3>2, <3>4, <3>5, <3>6, <1>k, <1>t
         DEF ScannerInv, InLoop, AtNode, AtKnown
    <3>8. QED
      BY <3>3, <3>7, <2>q
  <2>5. CASE pc \in {"insertValidator", "updateValidator"}
    <3>1. NextNode(index + 1) /\ AtKnown
      BY <1>8, <2>5 DEF Write, AtKnown
    <3>2. node' = node /\ cursor' = cursor /\ validator'[Current.entity] # None
      BY <2>1, <2>5, EffectKeeps
    <3>3. QED
      BY <2>1, <2>2, <3>1, <3>2, <2>q, DoneWithCurrent
  <2>6. CASE pc = "updateCursor"
    <3>1. Loop(nodeHeight + 1) /\ InLoop
      BY <1>8, <2>6 DEF Write, InLoop
    <3>2. cursor' = nodeHeight /\ nodeHeight \in Height
      BY <2>1, <2>6, <3>1, SetCursorKeeps, WorkFacts
    <3>3. PICK h \in Genesis..(MaxHeight + 1) : h = nodeHeight + 1
      BY <3>2, HeightFacts
    <3>4. h = cursor' + 1 /\ cursor' # None
      BY <3>2, <3>3, HeightFacts
    <3>5. QED
      BY <2>1, <3>1, <3>3, <3>4, <2>q, LoopIsSafe
  <2>7. QED
    BY <2>1, <2>3, <2>4, <2>5, <2>6 DEF Writing
<1>9. CASE WriteAndDie
  <2>1. /\ pc \in Writing /\ Effect(pc) /\ Return /\ UNCHANGED <<latest, registry>>
        /\ faults' \in 0..MaxFaults
    BY <1>9, <1>t, FaultAssumption DEF WriteAndDie, Fault
  <2>2. QED
    BY <2>1, <1>r, EffectKeeps
<1>10. CASE Fail
  <2>1. /\ Return /\ UNCHANGED <<latest, registry, node, validator, cursor>>
        /\ faults' \in 0..MaxFaults
    BY <1>10, <1>t, FaultAssumption DEF Fail, Fault, tables
  <2>2. QED
    BY <2>1, <1>r, TablesSame
<1>11. CASE UNCHANGED vars
  <2>1. ScannerType' /\ ScannerInv'
    BY <1>11, <1>t
       DEF vars, ScannerType, ScannerInv, InLoop, AtNode, AtKnown, RecordedNode, Known,
           Current, Recorded, ListedAt
  <2>2. QED
    BY <1>11, <2>1, <1>s, <1>t DEF vars
<1>12. QED
  BY <1>1, <1>2, <1>3, <1>4, <1>5, <1>6, <1>7, <1>8, <1>9, <1>10, <1>11 DEF Next, Scan

(* The inductive invariant holds throughout.                               *)
THEOREM Invariance == Spec => []IInv
<1>1. QED
  BY InitEstablishes, NextPreserves, PTL DEF Spec
-----------------------------------------------------------------------------
(* Every node row is that of a node the registry listed, at the first      *)
(* height it did, once; and every validator row is backed by one.          *)
THEOREM RowsCorrect == Spec => []RowsAsRegistered
<1>1. IInv => RowsAsRegistered
  BY DEF IInv, TablesInv, NodesInv, RowInv, ValidatorsInv, RowsAsRegistered, IsRowOf
<1>2. QED
  BY <1>1, Invariance, PTL
-----------------------------------------------------------------------------
(* The refinement of Checkpoint.                                           *)

Done   == {h \in Genesis..latest : h = Genesis \/ Recorded(h)}
Resume == IF cursor = None THEN Genesis ELSE cursor + 1

LEMMA CursorInit == Init => Cursor!Init
<1> SUFFICES ASSUME Init PROVE Cursor!Init
  OBVIOUS
<1>1. latest = Genesis /\ cursor = None
  BY DEF Init
<1>2. Done \in SUBSET {Genesis}
  BY <1>1, HeightFacts DEF Done
<1>3. QED
  BY <1>1, <1>2 DEF Cursor!Init, Done

(* A statement completes heights, or moves the cursor to one below which   *)
(* everything is done.                                                     *)
LEMMA EffectIsCheckpointStep ==
  ASSUME IInv, pc \in Writing, Effect(pc), latest' = latest, registry' = registry
  PROVE  [Cursor!Next]_(Cursor!vars)
<1>t. /\ TypeOK /\ latest \in Height /\ latest \in Int
      /\ TablesType' /\ TablesInv' /\ TablesStay
  BY HeightFacts, EffectKeeps DEF IInv, TypeOK
<1>1. CASE pc \in {"insertNode", "insertValidator", "updateValidator"}
  <2>1. cursor' = cursor
    BY <1>1 DEF Effect
  <2>2. \A h \in Genesis..latest : h \in Height
    BY <1>t, HeightFacts
  <2>3. Done' = Done \cup Done' /\ Done' \in SUBSET (Genesis..latest)
    <3>1. \A h \in Genesis..latest : Recorded(h) => Recorded(h)'
      BY <2>2, <1>t, RecordedStays
    <3>2. QED
      BY <3>1 DEF Done
  <2>4. \E H \in SUBSET (Genesis..latest) : Done' = Done \cup H
    BY <2>3
  <2>5. Cursor!Complete
    BY <2>1, <2>4 DEF Cursor!Complete, Done, Resume
  <2>6. QED
    BY <2>5 DEF Cursor!Next
<1>2. CASE pc \in {"insertCursor", "updateCursor"}
  <2>1. node' = node /\ validator' = validator /\ cursor' # None /\ cursor' \in Height
    <3>1. /\ node' = node /\ validator' = validator
          /\ pc = "insertCursor" => cursor' = Genesis
          /\ pc = "updateCursor" => cursor' = nodeHeight
      BY <1>2, SetCursorKeeps
    <3>2. pc = "updateCursor" => nodeHeight \in Height
      BY WorkFacts DEF InLoop
    <3>3. QED
      BY <1>2, <3>1, <3>2, HeightFacts
  <2>2. Done' = Done /\ \A h : Recorded(h)' <=> Recorded(h)
    BY <2>1 DEF Done, Recorded, ListedAt
  <2>3. cursor' <= latest /\ RecordedBefore(cursor + 1)'
    BY <2>1, <1>t DEF TablesInv, CursorInv
  <2>4. PICK c \in Int : /\ c = cursor' /\ Resume' = c + 1
                         /\ Genesis <= c /\ c <= latest
    BY <2>1, <2>3, HeightFacts DEF Resume
  <2>i. latest \in Int /\ Genesis \in Int
    BY <1>t, HeightFacts
  <2>j. Genesis <= c /\ c <= latest
    BY <2>4
  <2>5. c + 1 \in Genesis..(latest + 1)
    BY <2>i, <2>j
  <2>6. ASSUME NEW h \in Height, h < c + 1 PROVE h \in Done
    <3>0. h \in Int /\ Genesis <= h
      BY HeightFacts
    <3>1. h \in Genesis..latest
      BY <2>j, <2>6, <2>i, <3>0
    <3>2. h = Genesis \/ h \in (Genesis + 1)..((c + 1) - 1)
      BY <2>j, <2>6, <2>i, <3>0
    <3>3. h = Genesis \/ Recorded(h)
      BY <2>2, <2>3, <2>4, <3>2 DEF RecordedBefore
    <3>4. QED
      BY <3>1, <3>3 DEF Done
  <2>7. Cursor!SetCursor
    BY <2>2, <2>4, <2>5, <2>6 DEF Cursor!SetCursor, Cursor!Height, Height, Done, Resume
  <2>8. QED
    BY <2>7 DEF Cursor!Next
<1>3. QED
  BY <1>1, <1>2 DEF Writing

LEMMA CursorNext == IInv /\ [Next]_vars => [Cursor!Next]_(Cursor!vars)
<1> SUFFICES ASSUME IInv, [Next]_vars PROVE [Cursor!Next]_(Cursor!vars)
  OBVIOUS
<1>1. CASE Grow
  <2>1. /\ latest < MaxHeight /\ latest' = latest + 1
        /\ node' = node /\ validator' = validator /\ cursor' = cursor
    BY <1>1 DEF Grow, tables
  <2>2. PICK list \in Lists : registry' = [registry EXCEPT ![latest + 1] = list]
    BY <1>1 DEF Grow
  <2>3. latest \in Int /\ Genesis \in Int /\ latest \in Height
    BY HeightFacts DEF IInv, TypeOK
  <2>4. ASSUME NEW h \in Genesis..latest PROVE Recorded(h)' <=> Recorded(h)
    <3>1. h \in Height /\ h # latest + 1
      BY <2>3, <2>4, HeightFacts
    <3>2. registry'[h] = registry[h]
      BY <2>2, <3>1 DEF IInv, TypeOK
    <3>3. ListedAt(h)' = ListedAt(h)
      BY <3>2 DEF ListedAt
    <3>4. QED
      BY <2>1, <3>3 DEF Recorded
  <2>5. PICK n \in Int : n = latest' /\ n = latest + 1 /\ n # Genesis
    BY <2>1, <2>3, HeightFacts
  <2>6. \A h : h \in Genesis..n <=> h \in Genesis..latest \/ h = n
    BY <2>3, <2>5, HeightFacts
  <2>d. Done' = {h \in Genesis..n : h = Genesis \/ Recorded(h)'}
    BY <2>5 DEF Done
  <2>7. CASE Recorded(n)'
    <3>1. Done' = Done \cup {n}
      BY <2>d, <2>4, <2>6, <2>7 DEF Done
    <3>2. QED
      BY <2>1, <2>5, <3>1 DEF Cursor!Next, Cursor!Grow, Done
  <2>8. CASE ~Recorded(n)'
    <3>1. Done' = Done
      BY <2>d, <2>4, <2>5, <2>6, <2>8 DEF Done
    <3>2. QED
      BY <2>1, <3>1 DEF Cursor!Next, Cursor!Grow, Done
  <2>9. QED
    BY <2>7, <2>8
<1>2. CASE Write \/ WriteAndDie
  BY <1>2, EffectIsCheckpointStep DEF Write, WriteAndDie
<1>3. CASE UNCHANGED <<latest, registry, node, validator, cursor>>
  BY <1>3 DEF Cursor!vars, Recorded, ListedAt
<1>4. QED
  BY <1>1, <1>2, <1>3
     DEF Next, Scan, GetStatus, GetStaleStatus, FindCursor, GetNodes, FindNode,
         FindLatestNode, FindValidator, Fail, vars, tables

(* The job implements the promise of its cursor, genesis excepted: behind  *)
(* it every node listed has its row and every entity its validator row.    *)
THEOREM ImplementsCheckpoint == Spec => CursorSpec
<1>1. QED
  BY CursorInit, CursorNext, Invariance, PTL DEF Spec, CursorSpec, Cursor!Spec
=============================================================================
