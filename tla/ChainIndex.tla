----------------------------- MODULE ChainIndex -----------------------------
(***************************************************************************)
(* What the block tables promise their readers: a copy of the consensus    *)
(* chain that grows by one whole block at a time, in height order, with    *)
(* nothing missing below its tip and nothing ever rewritten.  A reader of  *)
(* the API never sees a block without its signatures and transactions.     *)
(***************************************************************************)
EXTENDS Integers

CONSTANTS
  Genesis,    \* height of the first block
  MaxHeight,  \* bound: the chain stops growing here
  Content,    \* Content[h]: the rows block h amounts to
  NoRows      \* the rows of a height that is not indexed

Height == Genesis..MaxHeight

VARIABLES
  latest,     \* height of the last block of the chain
  db          \* db[h]: the rows stored for height h

vars == <<latest, db>>

Init ==
  /\ latest = Genesis
  /\ db = [h \in Height |-> NoRows]

(* The chain produces a block. *)
Grow ==
  /\ latest < MaxHeight
  /\ latest' = latest + 1
  /\ UNCHANGED db

(* The lowest height that is not indexed appears, complete. *)
Index(h) ==
  /\ h <= latest
  /\ db[h] = NoRows
  /\ \A g \in Height : g < h => db[g] = Content[g]
  /\ db' = [db EXCEPT ![h] = Content[h]]
  /\ UNCHANGED latest

Next == Grow \/ \E h \in Height : Index(h)

Spec == Init /\ [][Next]_vars
=============================================================================
