--------------------- MODULE StakingEventsScannerProofs ---------------------
(***************************************************************************)
(* The cursor of the StakingEventsScanner never passes an event that is    *)
(* not stored and no event is stored twice, for every chain and any number *)
(* of failures, kills and statements that take effect late.                *)
(***************************************************************************)
EXTENDS StakingEventsScanner, TLAPS

CopiedBelow(n) == \A h \in Height : h < n => Copied(h)

InLoop == pc \in {"getEvents", "findEvent", "insertEvent", "updateCursor"}

(* What the scanner knows between two calls.                               *)
ScannerInv ==
  /\ pc # "idle" => currentHeight <= latest
  /\ pc \in {"idle", "findCursor", "insertCursor"} => scanHeight = Genesis
  /\ InLoop => scanHeight <= currentHeight /\ CopiedBelow(scanHeight)
  /\ pc \in {"findEvent", "insertEvent"} =>
       /\ position < EventCount[scanHeight]
       /\ \A e \in Event : e[1] = scanHeight /\ e[2] < position => rows[e] > 0
  /\ pc = "updateCursor" => Copied(scanHeight)

(* What a statement sent by an earlier run may still do.  A cursor value   *)
(* was sent after every event up to it was stored, and events stay.        *)
StatementInv(s) ==
  /\ s.kind = "insertEvent" => s.event[1] <= latest
  /\ s.kind = "insertCursor" => s.value = Genesis
  /\ s.kind = "updateCursor" => s.value <= latest /\ CopiedBelow(s.value)

IInv ==
  /\ TypeOK
  /\ NoDuplicates
  /\ cursor # NoCursor => cursor <= latest /\ CopiedBelow(cursor)
  /\ ScannerInv
  /\ \A s \in late : StatementInv(s)
-----------------------------------------------------------------------------
LEMMA HeightFacts ==
  /\ Genesis \in Int /\ MaxHeight \in Int /\ Genesis <= MaxHeight
  /\ Genesis \in Height
  /\ Height \subseteq Int
  /\ \A h \in Height : Genesis <= h /\ h <= MaxHeight
  /\ NoCursor \notin Height
  /\ \A h \in Int : Genesis <= h /\ h <= MaxHeight => h \in Height
BY HeightAssumption, CursorAssumption DEF Height

LEMMA EventFacts ==
  /\ \A h \in Height : EventCount[h] \in Nat
  /\ \A h \in Height, i \in Nat : i < EventCount[h] => <<h, i>> \in Event
  /\ \A e \in Event : /\ e = <<e[1], e[2]>> /\ e[1] \in Height /\ e[2] \in Nat
                      /\ e[2] < EventCount[e[1]]
<1>1. \A h \in Height : EventCount[h] \in Nat
  BY EventAssumption
<1>2. ASSUME NEW h \in Height, NEW i \in Nat, i < EventCount[h]
      PROVE  <<h, i>> \in Event
  <2>1. i \in 0..(EventCount[h] - 1)
    BY <1>1, <1>2
  <2>2. QED
    BY <2>1 DEF Event
<1>3. ASSUME NEW e \in Event
      PROVE  /\ e = <<e[1], e[2]>> /\ e[1] \in Height /\ e[2] \in Nat
             /\ e[2] < EventCount[e[1]]
  <2> PICK h \in Height : e \in {h} \X (0..(EventCount[h] - 1))
    BY DEF Event
  <2>1. e = <<e[1], e[2]>> /\ e[1] = h /\ e[2] \in 0..(EventCount[h] - 1)
    OBVIOUS
  <2>2. QED
    BY <1>1, <2>1
<1>4. QED
  BY <1>1, <1>2, <1>3

(* Executing an INSERT of an event keeps every event that is stored and    *)
(* stores none twice.                                                      *)
LEMMA InsertKeeps ==
  ASSUME TypeOK, NoDuplicates, NEW e \in Event, rows[e] = 0,
         rows' = [rows EXCEPT ![e] = @ + 1]
  PROVE  /\ rows' \in [Event -> Nat]
         /\ NoDuplicates'
         /\ rows'[e] > 0
         /\ \A f \in Event : rows[f] > 0 => rows'[f] > 0
         /\ \A f \in Event : f # e => rows'[f] = rows[f]
         /\ \A h \in Height : Copied(h) => Copied(h)'
         /\ \A h \in Height : h # e[1] => (Copied(h)' <=> Copied(h))
         /\ \A h \in Height : CopiedBelow(h) => CopiedBelow(h)'
<1>1. /\ rows \in [Event -> Nat] /\ rows' \in [Event -> Nat] /\ rows'[e] = 1
      /\ \A f \in Event : f # e => rows'[f] = rows[f]
  BY DEF TypeOK
<1>2. \A f \in Event : rows[f] > 0 => rows'[f] > 0
  BY <1>1
<1>3. NoDuplicates'
  BY <1>1 DEF NoDuplicates
<1>4. \A h \in Height : Copied(h) => Copied(h)'
  BY <1>2 DEF Copied
<1>5. \A h \in Height : h # e[1] => (Copied(h)' <=> Copied(h))
  BY <1>1 DEF Copied
<1>6. \A h \in Height : CopiedBelow(h) => CopiedBelow(h)'
  BY <1>4 DEF CopiedBelow
<1>7. QED
  BY <1>1, <1>2, <1>3, <1>4, <1>5, <1>6

(* The statement the scanner sends is well typed and sound.                *)
LEMMA PendingSound ==
  ASSUME IInv, Writing
  PROVE  Pending \in Statement /\ StatementInv(Pending)
<1>t. TypeOK /\ ScannerInv
  BY DEF IInv
<1>1. CASE pc = "insertEvent"
  <2>1. scanHeight <= currentHeight /\ currentHeight <= latest /\ position < EventCount[scanHeight]
    BY <1>1, <1>t DEF ScannerInv, InLoop
  <2>2. scanHeight \in Height /\ scanHeight <= latest
    BY <2>1, <1>t, HeightFacts DEF TypeOK
  <2>3. <<scanHeight, position>> \in Event
    BY <2>1, <2>2, <1>t, EventFacts DEF TypeOK
  <2>4. QED
    BY <1>1, <2>2, <2>3 DEF Pending, Statement, StatementInv
<1>2. CASE pc = "insertCursor"
  <2>1. scanHeight = Genesis
    BY <1>2, <1>t DEF ScannerInv
  <2>2. QED
    BY <1>2, <2>1, HeightFacts DEF Pending, Statement, StatementInv
<1>3. CASE pc = "updateCursor"
  <2>1. scanHeight <= currentHeight /\ currentHeight <= latest /\ CopiedBelow(scanHeight)
    BY <1>3, <1>t DEF ScannerInv, InLoop
  <2>2. scanHeight \in Height /\ scanHeight <= latest
    BY <2>1, <1>t, HeightFacts DEF TypeOK
  <2>3. QED
    BY <1>3, <2>1, <2>2 DEF Pending, Statement, StatementInv
<1>4. QED
  BY <1>1, <1>2, <1>3 DEF Writing

LEMMA StatementFacts ==
  ASSUME NEW s \in Statement
  PROVE  /\ s.kind \in {"insertEvent", "insertCursor", "updateCursor"}
         /\ s.kind = "insertEvent" => s.event \in Event
         /\ s.kind \in {"insertCursor", "updateCursor"} => s.value \in Height
BY DEF Statement

(* Executing a sound statement, whoever sent it, keeps what is true of the *)
(* tables and of every other statement.                                    *)
LEMMA ApplyKeeps ==
  ASSUME IInv, NEW s \in Statement, StatementInv(s), Accepts(s), Apply(s), latest' = latest
  PROVE  /\ rows' \in [Event -> Nat] /\ cursor' \in Height \cup {NoCursor}
         /\ NoDuplicates'
         /\ cursor' # NoCursor => cursor' <= latest' /\ CopiedBelow(cursor)'
         /\ \A e \in Event : rows[e] > 0 => rows'[e] > 0
         /\ \A h \in Height : Copied(h) => Copied(h)'
         /\ \A n \in Height : CopiedBelow(n) => CopiedBelow(n)'
         /\ \A x \in Statement : StatementInv(x) => StatementInv(x)'
<1>t. TypeOK /\ NoDuplicates /\ latest \in Height
  BY DEF IInv, TypeOK
<1>1. CASE s.kind = "insertEvent"
  <2>1. /\ s.event \in Event /\ rows[s.event] = 0 /\ cursor' = cursor
        /\ rows' = [rows EXCEPT ![s.event] = @ + 1]
    BY <1>1, StatementFacts DEF Accepts, Apply
  <2>2. /\ rows' \in [Event -> Nat]
        /\ NoDuplicates'
        /\ \A e \in Event : rows[e] > 0 => rows'[e] > 0
        /\ \A h \in Height : Copied(h) => Copied(h)'
        /\ \A n \in Height : CopiedBelow(n) => CopiedBelow(n)'
    BY <2>1, <1>t, InsertKeeps
  <2>3. cursor' # NoCursor => cursor' <= latest' /\ CopiedBelow(cursor)'
    <3> SUFFICES ASSUME cursor' # NoCursor
                 PROVE  cursor' <= latest' /\ CopiedBelow(cursor)'
      OBVIOUS
    <3>1. cursor \in Height /\ cursor <= latest /\ CopiedBelow(cursor)
      BY <2>1, <1>t DEF IInv, TypeOK
    <3>2. CopiedBelow(cursor)'
      BY <3>1, <2>1, <2>2 DEF CopiedBelow
    <3>3. QED
      BY <3>1, <3>2, <2>1
  <2>4. ASSUME NEW x \in Statement, StatementInv(x)
        PROVE  StatementInv(x)'
    <3>1. x.kind = "updateCursor" => x.value \in Height /\ CopiedBelow(x.value)
      BY <2>4, StatementFacts DEF StatementInv
    <3>2. x.kind = "updateCursor" => CopiedBelow(x.value)'
      BY <3>1, <2>2
    <3>3. QED
      BY <2>4, <3>2 DEF StatementInv
  <2>5. QED
    BY <2>1, <2>2, <2>3, <2>4, <1>t DEF TypeOK
<1>2. CASE s.kind # "insertEvent"
  <2>1. s.value \in Height /\ rows' = rows /\ cursor' \in {cursor, s.value}
    BY <1>2, StatementFacts DEF Apply
  <2>2. s.value <= latest /\ CopiedBelow(s.value)
    <3>1. CASE s.kind = "insertCursor"
      BY <3>1, <1>t, HeightFacts DEF StatementInv, CopiedBelow
    <3>2. CASE s.kind = "updateCursor"
      BY <3>2 DEF StatementInv
    <3>3. QED
      BY <1>2, <3>1, <3>2, StatementFacts
  <2>3. /\ NoDuplicates'
        /\ \A h \in Height : Copied(h) <=> Copied(h)'
    BY <2>1, <1>t DEF NoDuplicates, Copied
  <2>4. \A n \in Height : CopiedBelow(n) <=> CopiedBelow(n)'
    BY <2>3 DEF CopiedBelow
  <2>5. cursor' # NoCursor => cursor' <= latest' /\ CopiedBelow(cursor)'
    <3>1. SUFFICES ASSUME cursor' # NoCursor
                   PROVE  cursor' <= latest' /\ CopiedBelow(cursor)'
      OBVIOUS
    <3>2. CASE cursor' = cursor
      <4>1. cursor <= latest /\ CopiedBelow(cursor)
        BY <3>1, <3>2 DEF IInv
      <4>2. QED
        BY <4>1, <3>2, <2>3 DEF CopiedBelow
    <3>3. CASE cursor' = s.value
      BY <3>3, <2>2, <2>3 DEF CopiedBelow
    <3>4. QED
      BY <2>1, <3>2, <3>3
  <2>6. ASSUME NEW x \in Statement, StatementInv(x)
        PROVE  StatementInv(x)'
    <3>1. x.kind = "updateCursor" => x.value \in Height /\ CopiedBelow(x.value)
      BY <2>6, StatementFacts DEF StatementInv
    <3>2. x.kind = "updateCursor" => CopiedBelow(x.value)'
      BY <3>1, <2>4
    <3>3. QED
      BY <2>6, <3>2 DEF StatementInv
  <2>7. QED
    BY <2>1, <2>3, <2>4, <2>5, <2>6, <1>t DEF TypeOK
<1>3. QED
  BY <1>1, <1>2
-----------------------------------------------------------------------------
LEMMA InitEstablishes == Init => IInv
BY HeightFacts, FaultAssumption
   DEF Init, IInv, TypeOK, PC, NoDuplicates, ScannerInv, InLoop

(* A step that touches neither the tables nor the chain.                   *)
LEMMA ScannerStep ==
  ASSUME IInv, UNCHANGED <<latest, rows, cursor>>, TypeOK', ScannerInv',
         \A s \in late' : s \in late \/ StatementInv(s)
  PROVE  IInv'
<1>1. NoDuplicates' /\ (cursor # NoCursor => cursor <= latest /\ CopiedBelow(cursor))'
  BY DEF IInv, NoDuplicates, CopiedBelow, Copied
<1>2. \A s \in late' : StatementInv(s)'
  BY DEF IInv, StatementInv, CopiedBelow, Copied
<1>3. QED
  BY <1>1, <1>2 DEF IInv

(* A step of the scanner that executes its own statement.                  *)
LEMMA StatementStep ==
  ASSUME IInv, NEW s \in Statement, StatementInv(s), Accepts(s), Apply(s),
         UNCHANGED latest, TypeOK', ScannerInv', late' \subseteq late
  PROVE  IInv'
<1>1. late \subseteq Statement
  BY DEF IInv, TypeOK
<1>2. \A x \in late' : StatementInv(x)'
  BY <1>1, ApplyKeeps DEF IInv
<1>3. QED
  BY <1>2, ApplyKeeps DEF IInv

LEMMA ReturnIsSafe ==
  ASSUME IInv, Return
  PROVE  /\ ScannerInv'
         /\ pc' \in PC /\ currentHeight' \in Height /\ position' \in Nat
         /\ scanHeight' \in Genesis..(MaxHeight + 1)
BY HeightFacts DEF Return, ScannerInv, InLoop, PC

(* The loop goes on at h, everything below h being stored.                 *)
LEMMA LoopIsSafe ==
  ASSUME IInv, NEW h \in Genesis..(MaxHeight + 1), Loop(h), UNCHANGED latest,
         pc # "idle", CopiedBelow(h)'
  PROVE  /\ ScannerInv'
         /\ pc' \in PC /\ currentHeight' \in Height /\ position' \in Nat
         /\ scanHeight' \in Genesis..(MaxHeight + 1)
<1>1. CASE h <= currentHeight
  <2>1. /\ pc' = "getEvents" /\ scanHeight' = h /\ position' = 0
        /\ currentHeight' = currentHeight
    BY <1>1 DEF Loop
  <2>2. currentHeight \in Height /\ currentHeight <= latest
    BY DEF IInv, TypeOK, ScannerInv
  <2>3. CopiedBelow(scanHeight)'
    BY <2>1 DEF CopiedBelow, Copied
  <2>4. QED
    BY <2>1, <2>2, <2>3, <1>1 DEF ScannerInv, InLoop, PC
<1>2. CASE ~(h <= currentHeight)
  BY <1>2, ReturnIsSafe DEF Loop
<1>3. QED
  BY <1>1, <1>2

(* The loop over the events goes on at index i, the lower ones stored.     *)
LEMMA NextEventIsSafe ==
  ASSUME IInv, NEW i \in Nat, NextEvent(i), UNCHANGED latest, InLoop,
         CopiedBelow(scanHeight)',
         \A e \in Event : e[1] = scanHeight /\ e[2] < i => rows'[e] > 0
  PROVE  /\ ScannerInv'
         /\ pc' \in PC /\ currentHeight' \in Height /\ position' \in Nat
         /\ scanHeight' \in Genesis..(MaxHeight + 1)
<1>1. /\ currentHeight \in Height /\ currentHeight <= latest
      /\ scanHeight <= currentHeight /\ scanHeight \in Height
      /\ scanHeight \in Genesis..(MaxHeight + 1)
  BY HeightFacts DEF IInv, TypeOK, ScannerInv, InLoop
<1>2. /\ position' = i /\ currentHeight' = currentHeight /\ scanHeight' = scanHeight
      /\ pc' \in {"findEvent", "updateCursor"}
      /\ pc' = "findEvent" => i < EventCount[scanHeight]
      /\ pc' = "updateCursor" => ~(i < EventCount[scanHeight])
  BY DEF NextEvent
<1>3. pc' = "updateCursor" => Copied(scanHeight)'
  <2> SUFFICES ASSUME ~(i < EventCount[scanHeight]), NEW e \in Event, e[1] = scanHeight
               PROVE  rows'[e] > 0
    BY <1>2 DEF Copied
  <2>1. e[2] < i
    BY <1>1, EventFacts
  <2>2. QED
    BY <2>1
<1>4. CopiedBelow(scanHeight)' /\ (\A e \in Event : e[1] = scanHeight' /\ e[2] < position' => rows'[e] > 0)
  BY <1>2 DEF CopiedBelow, Copied
<1>5. QED
  BY <1>1, <1>2, <1>3, <1>4 DEF ScannerInv, InLoop, PC
-----------------------------------------------------------------------------
LEMMA NextPreserves == IInv /\ [Next]_vars => IInv'
<1> SUFFICES ASSUME IInv, [Next]_vars PROVE IInv'
  OBVIOUS
<1>t. TypeOK /\ ScannerInv /\ latest \in Height /\ latest \in Int /\ latest <= MaxHeight
  BY HeightFacts DEF IInv, TypeOK
<1>l. late \subseteq Statement /\ \A s \in late : StatementInv(s)
  BY DEF IInv, TypeOK
<1>h. ASSUME InLoop
      PROVE  /\ scanHeight \in Height /\ scanHeight <= currentHeight
             /\ currentHeight <= latest /\ CopiedBelow(scanHeight)
  BY <1>h, <1>t, HeightFacts DEF TypeOK, ScannerInv, InLoop
<1>r. ASSUME Return, UNCHANGED <<latest, rows, cursor>>, faults' \in 0..MaxFaults,
             \A s \in late' : s \in late \/ (s \in Statement /\ StatementInv(s))
      PROVE  IInv'
  <2>1. ScannerInv' /\ TypeOK'
    BY <1>r, <1>t, <1>l, ReturnIsSafe DEF TypeOK
  <2>2. QED
    BY <1>r, <2>1, ScannerStep
<1>1. CASE Grow
  <2>1. latest' \in Height /\ latest' = latest + 1
    BY <1>1, <1>t, HeightFacts DEF Grow, Height
  <2>2. TypeOK'
    BY <1>1, <1>t, <2>1 DEF Grow, TypeOK, scanner
  <2>3. ScannerInv'
    BY <1>1, <1>t, <2>1, HeightFacts
       DEF Grow, ScannerInv, InLoop, scanner, CopiedBelow, Copied, TypeOK
  <2>4. NoDuplicates'
    BY <1>1 DEF Grow, IInv, NoDuplicates
  <2>5. (cursor # NoCursor => cursor <= latest /\ CopiedBelow(cursor))'
    <3>1. cursor' = cursor /\ rows' = rows
      BY <1>1 DEF Grow
    <3>2. SUFFICES ASSUME cursor # NoCursor
                   PROVE  cursor <= latest' /\ CopiedBelow(cursor)'
      BY <3>1
    <3>3. cursor \in Int /\ cursor <= latest /\ CopiedBelow(cursor)
      BY <3>2, <1>t, HeightFacts DEF IInv, TypeOK
    <3>4. CopiedBelow(cursor)'
      BY <3>1, <3>3 DEF CopiedBelow, Copied
    <3>5. QED
      BY <3>3, <3>4, <2>1, <1>t
  <2>6. ASSUME NEW s \in late
        PROVE  StatementInv(s)'
    <3>1. StatementInv(s) /\ s \in Statement
      BY <1>l
    <3>2. s.kind = "insertEvent" => s.event[1] \in Int
      BY <3>1, StatementFacts, EventFacts, HeightFacts
    <3>3. s.kind = "updateCursor" => s.value \in Int
      BY <3>1, StatementFacts, HeightFacts
    <3>4. QED
      BY <1>1, <3>1, <3>2, <3>3, <2>1, <1>t DEF Grow, StatementInv, CopiedBelow, Copied
  <2>7. QED
    BY <1>1, <2>2, <2>3, <2>4, <2>5, <2>6 DEF Grow, IInv
<1>2. CASE GetStatus
  <2>1. TypeOK' /\ ScannerInv'
    BY <1>2, <1>t DEF GetStatus, TypeOK, PC, ScannerInv, InLoop
  <2>2. QED
    BY <1>2, <2>1, ScannerStep DEF GetStatus
<1>3. CASE GetStaleStatus
  <2>1. currentHeight' \in Height /\ currentHeight' <= latest
    BY <1>3, <1>t, HeightFacts DEF GetStaleStatus, Height
  <2>2. TypeOK' /\ ScannerInv'
    BY <1>3, <1>t, <2>1, FaultAssumption
       DEF GetStaleStatus, Fault, TypeOK, PC, ScannerInv, InLoop
  <2>3. QED
    BY <1>3, <2>2, ScannerStep DEF GetStaleStatus
<1>4. CASE FindCursor
  <2>1. CASE cursor = NoCursor
    <3>1. TypeOK' /\ ScannerInv'
      BY <1>4, <2>1, <1>t DEF FindCursor, TypeOK, PC, ScannerInv, InLoop
    <3>2. QED
      BY <1>4, <3>1, ScannerStep DEF FindCursor
  <2>2. CASE cursor # NoCursor
    <3>1. cursor \in Height /\ CopiedBelow(cursor) /\ cursor \in Genesis..(MaxHeight + 1)
      BY <2>2, <1>t, HeightFacts DEF IInv, TypeOK
    <3>2. Loop(cursor) /\ pc = "findCursor" /\ UNCHANGED <<latest, rows, cursor, late, faults>>
      BY <1>4, <2>2 DEF FindCursor
    <3>3. \A n \in Height : CopiedBelow(n) => CopiedBelow(n)'
      BY <3>2 DEF CopiedBelow, Copied
    <3>4. PICK c \in Genesis..(MaxHeight + 1) : c = cursor
      BY <3>1
    <3>5. ScannerInv' /\ TypeOK'
      <4>1. Loop(c) /\ CopiedBelow(c)'
        BY <3>1, <3>2, <3>3, <3>4
      <4>2. QED
        BY <3>2, <4>1, <1>t, LoopIsSafe DEF TypeOK
    <3>6. QED
      BY <3>2, <3>5, ScannerStep
  <2>3. QED
    BY <2>1, <2>2
<1>w. ASSUME Writing PROVE Pending \in Statement /\ StatementInv(Pending)
  BY <1>w, PendingSound
<1>5. CASE InsertCursor
  <2>1. CASE Accepts(Pending)
    <3>1. /\ pc = "insertCursor" /\ Apply(Pending) /\ Loop(Genesis)
          /\ UNCHANGED <<latest, late, faults>>
      BY <1>5, <2>1 DEF InsertCursor
    <3>2. Pending \in Statement /\ StatementInv(Pending)
      BY <3>1, <1>w DEF Writing
    <3>3. CopiedBelow(Genesis)' /\ Genesis \in Genesis..(MaxHeight + 1)
      BY HeightFacts DEF CopiedBelow
    <3>4. rows' \in [Event -> Nat] /\ cursor' \in Height \cup {NoCursor}
      BY <2>1, <3>1, <3>2, ApplyKeeps
    <3>5. ScannerInv' /\ TypeOK'
      BY <3>1, <3>3, <3>4, <1>t, LoopIsSafe DEF TypeOK
    <3>6. QED
      BY <2>1, <3>1, <3>2, <3>5, StatementStep
  <2>2. CASE ~Accepts(Pending)
    BY <1>5, <2>2, <1>r, <1>t DEF InsertCursor, TypeOK
  <2>3. QED
    BY <2>1, <2>2
<1>6. CASE GetEvents
  <2>1. /\ pc = "getEvents" /\ NextEvent(0) /\ InLoop
        /\ UNCHANGED <<latest, rows, cursor, late, faults>>
    BY <1>6 DEF GetEvents, InLoop
  <2>2. CopiedBelow(scanHeight) /\ \A e \in Event : ~(e[2] < 0)
    BY <2>1, <1>h, EventFacts
  <2>3. CopiedBelow(scanHeight)'
    BY <2>1, <2>2 DEF CopiedBelow, Copied, NextEvent
  <2>4. ScannerInv' /\ TypeOK'
    BY <2>1, <2>2, <2>3, <1>t, NextEventIsSafe DEF TypeOK
  <2>5. QED
    BY <2>1, <2>4, ScannerStep
<1>7. CASE FindEvent
  <2>1. /\ pc = "findEvent" /\ InLoop /\ position < EventCount[scanHeight]
        /\ UNCHANGED <<latest, rows, cursor, late, faults>>
        /\ \A e \in Event : e[1] = scanHeight /\ e[2] < position => rows[e] > 0
    BY <1>7, <1>t DEF FindEvent, InLoop, ScannerInv
  <2>2. CASE rows[<<scanHeight, position>>] = 0
    <3>1. TypeOK' /\ ScannerInv'
      BY <1>7, <2>1, <2>2, <1>t
         DEF FindEvent, TypeOK, PC, ScannerInv, InLoop, CopiedBelow, Copied
    <3>2. QED
      BY <2>1, <3>1, ScannerStep
  <2>3. CASE rows[<<scanHeight, position>>] # 0
    <3>1. NextEvent(position + 1) /\ position \in Nat
      BY <1>7, <2>3, <1>t DEF FindEvent, TypeOK
    <3>2. CopiedBelow(scanHeight)'
      BY <2>1, <3>1, <1>h DEF CopiedBelow, Copied, NextEvent
    <3>3. <<scanHeight, position>> \in Event
      BY <2>1, <3>1, <1>h, EventFacts
    <3>4. rows[<<scanHeight, position>>] > 0
      BY <2>3, <3>3, <1>t DEF TypeOK
    <3>5. ASSUME NEW e \in Event, e[1] = scanHeight, e[2] < position + 1
          PROVE  rows'[e] > 0
      <4>1. CASE e[2] < position
        BY <4>1, <3>5, <2>1
      <4>2. CASE e[2] = position
        BY <4>2, <3>4, <3>5, <2>1, EventFacts
      <4>3. QED
        BY <4>1, <4>2, <3>1, <3>5, EventFacts
    <3>6. PICK i \in Nat : i = position + 1
      BY <3>1
    <3>7. ScannerInv' /\ TypeOK'
      BY <2>1, <3>1, <3>2, <3>5, <3>6, <1>t, NextEventIsSafe DEF TypeOK
    <3>8. QED
      BY <2>1, <3>7, ScannerStep
  <2>4. QED
    BY <2>2, <2>3
<1>8. CASE InsertEvent
  <2>1. CASE Accepts(Pending)
    <3>1. /\ pc = "insertEvent" /\ Apply(Pending) /\ NextEvent(position + 1) /\ InLoop
          /\ UNCHANGED <<latest, late, faults>>
          /\ \A e \in Event : e[1] = scanHeight /\ e[2] < position => rows[e] > 0
      BY <1>8, <2>1, <1>t DEF InsertEvent, InLoop, ScannerInv
    <3>2. Pending \in Statement /\ StatementInv(Pending)
      BY <3>1, <1>w DEF Writing
    <3>3. /\ rows' \in [Event -> Nat] /\ cursor' \in Height \cup {NoCursor}
          /\ \A e \in Event : rows[e] > 0 => rows'[e] > 0
          /\ \A n \in Height : CopiedBelow(n) => CopiedBelow(n)'
      BY <2>1, <3>1, <3>2, ApplyKeeps
    <3>4. Pending.kind = "insertEvent" /\ Pending.event = <<scanHeight, position>>
      BY <3>1 DEF Pending
    <3>5. <<scanHeight, position>> \in Event /\ rows'[<<scanHeight, position>>] > 0
      BY <2>1, <3>1, <3>2, <3>4, <1>t, StatementFacts DEF Apply, Accepts, TypeOK
    <3>6. position \in Nat /\ scanHeight \in Height
      BY <3>1, <1>t, <1>h DEF TypeOK
    <3>7. ASSUME NEW e \in Event, e[1] = scanHeight, e[2] < position + 1
          PROVE  rows'[e] > 0
      <4>1. CASE e[2] < position
        BY <4>1, <3>7, <3>1, <3>3
      <4>2. CASE e[2] = position
        BY <4>2, <3>5, <3>7, EventFacts
      <4>3. QED
        BY <4>1, <4>2, <3>6, <3>7, EventFacts
    <3>8. CopiedBelow(scanHeight)'
      <4>1. PICK n \in Height : n = scanHeight
        BY <3>6
      <4>2. scanHeight' = n /\ CopiedBelow(n)'
        BY <4>1, <3>1, <3>3, <1>h DEF NextEvent
      <4>3. QED
        BY <4>2 DEF CopiedBelow
    <3>9. PICK i \in Nat : i = position + 1
      BY <3>6
    <3>10. ScannerInv' /\ TypeOK'
      BY <3>1, <3>3, <3>7, <3>8, <3>9, <1>t, NextEventIsSafe DEF TypeOK
    <3>11. QED
      BY <2>1, <3>1, <3>2, <3>10, StatementStep
  <2>2. CASE ~Accepts(Pending)
    BY <1>8, <2>2, <1>r, <1>t DEF InsertEvent, TypeOK
  <2>3. QED
    BY <2>1, <2>2
<1>9. CASE UpdateCursor
  <2>1. /\ pc = "updateCursor" /\ Apply(Pending) /\ Loop(scanHeight + 1) /\ InLoop
        /\ UNCHANGED <<latest, late, faults>> /\ Copied(scanHeight)
    BY <1>9, <1>t DEF UpdateCursor, InLoop, ScannerInv
  <2>2. Pending \in Statement /\ StatementInv(Pending) /\ Accepts(Pending)
    BY <2>1, <1>w DEF Writing, Accepts, Pending
  <2>3. /\ rows' \in [Event -> Nat] /\ cursor' \in Height \cup {NoCursor}
        /\ \A h \in Height : Copied(h) => Copied(h)'
    BY <2>1, <2>2, ApplyKeeps
  <2>h. scanHeight \in Height /\ CopiedBelow(scanHeight)
    BY <2>1, <1>h
  <2>4. PICK n \in Genesis..(MaxHeight + 1) : n = scanHeight + 1
    BY <2>h, HeightFacts
  <2>5. CopiedBelow(n)'
    <3> SUFFICES ASSUME NEW h \in Height, h < n PROVE Copied(h)'
      BY DEF CopiedBelow
    <3>1. h < scanHeight \/ h = scanHeight
      BY <2>4, <2>h, HeightFacts
    <3>2. Copied(h)
      BY <2>1, <3>1, <2>h DEF CopiedBelow
    <3>3. QED
      BY <2>3, <3>2
  <2>6. ScannerInv' /\ TypeOK'
    BY <2>1, <2>3, <2>4, <2>5, <1>t, LoopIsSafe DEF TypeOK
  <2>7. QED
    BY <2>1, <2>2, <2>6, StatementStep
<1>10. CASE Fail
  <2>1. faults' \in 0..MaxFaults
    BY <1>10, <1>t, FaultAssumption DEF Fail, Fault, TypeOK
  <2>2. QED
    BY <1>10, <2>1, <1>r DEF Fail
<1>11. CASE LoseAnswer
  <2>1. faults' \in 0..MaxFaults
    BY <1>11, <1>t, FaultAssumption DEF LoseAnswer, Fault, TypeOK
  <2>2. \A s \in late' : s \in late \/ (s \in Statement /\ StatementInv(s))
    BY <1>11, <1>w DEF LoseAnswer
  <2>3. QED
    BY <1>11, <2>1, <2>2, <1>r DEF LoseAnswer
<1>u. ASSUME UNCHANGED scanner, UNCHANGED <<latest, faults>>, late' \subseteq late,
             rows' \in [Event -> Nat], cursor' \in Height \cup {NoCursor},
             \A e \in Event : rows[e] > 0 => rows'[e] > 0
      PROVE  TypeOK' /\ ScannerInv'
  <2>1. \A h \in Height : Copied(h) => Copied(h)'
    BY <1>u DEF Copied
  <2>2. TypeOK'
    BY <1>u, <1>t DEF TypeOK, scanner
  <2>3. InLoop => CopiedBelow(scanHeight)'
    BY <1>u, <1>h, <2>1 DEF CopiedBelow, scanner
  <2>4. pc = "updateCursor" => Copied(scanHeight)'
    BY <1>u, <1>t DEF ScannerInv, Copied, scanner
  <2>5. ScannerInv'
    BY <1>u, <1>t, <2>3, <2>4 DEF ScannerInv, InLoop, scanner
  <2>6. QED
    BY <2>2, <2>5
<1>12. CASE Decide
  <2> PICK s \in late : Execute(s) \/ Drop(s)
    BY <1>12 DEF Decide
  <2>1. s \in Statement /\ StatementInv(s)
    BY <1>l
  <2>2. CASE Execute(s) /\ Accepts(s)
    <3>1. Apply(s) /\ late' \subseteq late /\ UNCHANGED scanner /\ UNCHANGED <<latest, faults>>
      BY <2>2 DEF Execute
    <3>2. /\ rows' \in [Event -> Nat] /\ cursor' \in Height \cup {NoCursor}
          /\ \A e \in Event : rows[e] > 0 => rows'[e] > 0
      BY <2>1, <2>2, <3>1, ApplyKeeps
    <3>3. QED
      BY <2>1, <2>2, <3>1, <3>2, <1>u, StatementStep
  <2>3. CASE Drop(s) \/ ~Accepts(s)
    <3>1. /\ late' \subseteq late /\ UNCHANGED scanner /\ UNCHANGED <<latest, faults>>
          /\ rows' = rows /\ cursor' = cursor
      BY <2>3 DEF Execute, Drop
    <3>2. TypeOK' /\ ScannerInv'
      BY <3>1, <1>t, <1>u DEF TypeOK
    <3>3. QED
      BY <3>1, <3>2, ScannerStep
  <2>4. QED
    BY <2>2, <2>3
<1>13. CASE UNCHANGED vars
  <2>1. TypeOK' /\ ScannerInv'
    BY <1>13, <1>t DEF vars, TypeOK, ScannerInv, InLoop, CopiedBelow, Copied
  <2>2. QED
    BY <1>13, <2>1, ScannerStep DEF vars
<1>14. QED
  BY <1>1, <1>2, <1>3, <1>4, <1>5, <1>6, <1>7, <1>8, <1>9, <1>10, <1>11, <1>12, <1>13
     DEF Next, Scan

(* The inductive invariant holds throughout. *)
THEOREM Invariance == Spec => []IInv
<1>1. QED
  BY InitEstablishes, NextPreserves, PTL DEF Spec
-----------------------------------------------------------------------------
(* Every state is well typed: the position stays an index, a row count is  *)
(* never negative, a statement names an event of the chain.                *)
THEOREM TypeCorrect == Spec => []TypeOK
<1>1. IInv => TypeOK
  BY DEF IInv
<1>2. QED
  BY <1>1, Invariance, PTL

(* The cursor never passes an event that is not stored.                    *)
THEOREM CursorCorrect == Spec => []NothingSkipped
<1>1. IInv => NothingSkipped
  BY DEF IInv, NothingSkipped, CopiedBelow
<1>2. QED
  BY <1>1, Invariance, PTL

(* No event is stored twice.                                               *)
THEOREM UniqueCorrect == Spec => []NoDuplicates
<1>1. IInv => NoDuplicates
  BY DEF IInv
<1>2. QED
  BY <1>1, Invariance, PTL

Done == {h \in Height : h <= latest /\ Copied(h)}
Resume == IF cursor = NoCursor THEN Genesis ELSE cursor

LEMMA CursorInit == Init => Cursor!Init
<1> SUFFICES ASSUME Init PROVE Cursor!Init
  OBVIOUS
<1>1. \A h \in Height : h <= Genesis => h = Genesis
  BY HeightFacts
<1>2. {h \in Height : h <= latest /\ Copied(h)} \in SUBSET {Genesis}
  BY <1>1 DEF Init
<1>3. QED
  BY <1>2 DEF Init, Cursor!Init

(* Executing a sound statement completes a height, or moves the cursor to  *)
(* a height below which everything is done.                                *)
LEMMA ApplyIsCheckpointStep ==
  ASSUME IInv, NEW s \in Statement, StatementInv(s), Accepts(s), Apply(s), latest' = latest
  PROVE  [Cursor!Next]_(Cursor!vars)
<1>t. TypeOK /\ NoDuplicates /\ latest \in Height
  BY DEF IInv, TypeOK
<1>1. CASE s.kind = "insertEvent"
  <2>1. /\ s.event \in Event /\ rows[s.event] = 0 /\ cursor' = cursor
        /\ rows' = [rows EXCEPT ![s.event] = @ + 1]
        /\ s.event[1] <= latest /\ s.event[1] \in Height
    BY <1>1, StatementFacts, EventFacts DEF Accepts, Apply, StatementInv
  <2>2. /\ \A h \in Height : Copied(h) => Copied(h)'
        /\ \A h \in Height : h # s.event[1] => (Copied(h)' <=> Copied(h))
    BY <2>1, <1>t, InsertKeeps
  <2>3. Resume' = Resume
    BY <2>1 DEF Resume
  <2>4. CASE Copied(s.event[1])'
    <3>1. Done' = Done \cup {s.event[1]}
      BY <2>1, <2>2, <2>4 DEF Done
    <3>h. \A h \in Height : h <= latest => h \in Genesis..latest
      BY <1>t DEF Height
    <3>2. s.event[1] \in Genesis..latest
      BY <2>1, <3>h
    <3>3. Cursor!Complete
      BY <2>3, <3>1, <3>2 DEF Cursor!Complete, Done, Resume
    <3>4. QED
      BY <3>3 DEF Cursor!Next
  <2>5. CASE ~Copied(s.event[1])'
    <3>1. Done' = Done
      BY <2>2, <2>5 DEF Done
    <3>2. QED
      BY <2>3, <3>1 DEF Cursor!vars, Done, Resume
  <2>6. QED
    BY <2>4, <2>5
<1>2. CASE s.kind # "insertEvent"
  <2>1. rows' = rows
    BY <1>2 DEF Apply
  <2>2. Done' = Done /\ \A h \in Height : Copied(h)' <=> Copied(h)
    BY <2>1 DEF Done, Copied
  <2>3. /\ cursor' \in Height \cup {NoCursor}
        /\ cursor' # NoCursor => cursor' <= latest' /\ CopiedBelow(cursor)'
    BY ApplyKeeps
  <2>4. Resume' \in Height /\ Resume' <= latest /\ CopiedBelow(Resume)'
    <3>1. CASE cursor' = NoCursor
      BY <3>1, <1>t, HeightFacts DEF Resume, CopiedBelow
    <3>2. CASE cursor' # NoCursor
      BY <3>2, <2>3 DEF Resume, CopiedBelow
    <3>3. QED
      BY <3>1, <3>2
  <2>5. Resume' \in Genesis..(latest + 1)
    BY <2>4, <1>t, HeightFacts
  <2>6. \A h \in Height : h < Resume' => h \in Done
    BY <2>2, <2>4, <1>t, HeightFacts DEF CopiedBelow, Done
  <2>7. QED
    BY <2>2, <2>5, <2>6
       DEF Cursor!Next, Cursor!SetCursor, Cursor!Height, Height, Done, Resume
<1>3. QED
  BY <1>1, <1>2

LEMMA CursorNext == IInv /\ [Next]_vars => [Cursor!Next]_(Cursor!vars)
<1> SUFFICES ASSUME IInv, [Next]_vars PROVE [Cursor!Next]_(Cursor!vars)
  OBVIOUS
<1>s. ASSUME UNCHANGED <<latest, rows, cursor>> PROVE UNCHANGED Cursor!vars
  BY <1>s DEF Cursor!vars, Copied
<1>w. ASSUME Writing PROVE Pending \in Statement /\ StatementInv(Pending)
  BY <1>w, PendingSound
<1>p. ASSUME Writing, Accepts(Pending), Apply(Pending), UNCHANGED latest
      PROVE  [Cursor!Next]_(Cursor!vars)
  <2> PICK s \in Statement : s = Pending
    BY <1>p, <1>w
  <2>1. StatementInv(s)
    BY <1>p, <1>w
  <2>2. QED
    BY <1>p, <2>1, ApplyIsCheckpointStep
<1>1. CASE Grow
  <2>1. /\ latest < MaxHeight /\ latest' = latest + 1
        /\ rows' = rows /\ cursor' = cursor
    BY <1>1 DEF Grow
  <2>2. latest \in Int /\ Height \subseteq Int
    BY HeightFacts DEF IInv, TypeOK
  <2>a. \A h \in Height : Copied(h)' <=> Copied(h)
    BY <2>1 DEF Copied
  <2>b. \A h \in Height : h <= latest' <=> (h <= latest \/ h = latest')
    BY <2>1, <2>2
  <2>3. \A h \in Height : (Copied(h)' <=> Copied(h)) /\ (h <= latest' <=> (h <= latest \/ h = latest'))
    BY <2>a, <2>b
  <2>4. latest' \in Height
    BY <2>1, <2>2, HeightFacts DEF IInv, TypeOK, Height
  <2>5. CASE Copied(latest')
    <3>1. Done' = Done \cup {latest'}
      BY <2>3, <2>4, <2>5 DEF Done
    <3>2. QED
      BY <2>1, <3>1 DEF Cursor!Next, Cursor!Grow, Done
  <2>6. CASE ~Copied(latest')
    <3>1. Done' = Done
      BY <2>3, <2>4, <2>6 DEF Done
    <3>2. QED
      BY <2>1, <3>1 DEF Cursor!Next, Cursor!Grow, Done
  <2>7. QED
    BY <2>5, <2>6
<1>2. CASE InsertCursor \/ InsertEvent
  <2>1. Writing /\ UNCHANGED latest
    BY <1>2 DEF InsertCursor, InsertEvent, Writing
  <2>2. CASE Accepts(Pending)
    BY <1>2, <2>1, <2>2, <1>p DEF InsertCursor, InsertEvent
  <2>3. CASE ~Accepts(Pending)
    BY <1>2, <2>1, <2>3, <1>s DEF InsertCursor, InsertEvent
  <2>4. QED
    BY <2>2, <2>3
<1>3. CASE UpdateCursor
  <2>1. Writing /\ Accepts(Pending) /\ Apply(Pending) /\ UNCHANGED latest
    BY <1>3 DEF UpdateCursor, Writing, Accepts, Pending
  <2>2. QED
    BY <2>1, <1>p
<1>4. CASE Decide
  <2> PICK s \in late : Execute(s) \/ Drop(s)
    BY <1>4 DEF Decide
  <2>1. s \in Statement /\ StatementInv(s) /\ UNCHANGED latest
    BY DEF IInv, TypeOK, Execute, Drop
  <2>2. CASE Execute(s) /\ Accepts(s)
    BY <2>1, <2>2, ApplyIsCheckpointStep DEF Execute
  <2>3. CASE Drop(s) \/ ~Accepts(s)
    BY <2>1, <2>3, <1>s DEF Execute, Drop
  <2>4. QED
    BY <2>2, <2>3
<1>5. CASE UNCHANGED <<latest, rows, cursor>>
  BY <1>5, <1>s
<1>6. QED
  BY <1>1, <1>2, <1>3, <1>4, <1>5
     DEF Next, Scan, GetStatus, GetStaleStatus, FindCursor, GetEvents, FindEvent,
         Fail, LoseAnswer, vars

(* The job implements the promise of its cursor: what is behind it is done,*)
(* and stays done.                                                         *)
THEOREM ImplementsCheckpoint == Spec => CursorSpec
<1>1. QED
  BY CursorInit, CursorNext, Invariance, PTL DEF Spec, CursorSpec, Cursor!Spec
=============================================================================
