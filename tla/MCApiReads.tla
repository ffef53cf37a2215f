----------------------------- MODULE MCApiReads -----------------------------
EXTENDS ApiReads

CONSTANTS a1, a2, v0, v1, n1, n2, c1, c2

Row(name, at, key, from, to, method, good) ==
  [table |-> name, at |-> at, key |-> key, from |-> from, to |-> to, method |-> method, good |-> good]

(* Transactions of two heights and methods, one of them failed, and of a   *)
(* runtime in both directions, before, at and after the time of the first  *)
(* height; rows with and without a reward or a proposer; an event from an  *)
(* account to itself.  Rows that can be stored twice share their key.      *)
MCRows ==
  {Row("transaction", at, at, a1, a2, "transfer", TRUE) : at \in 1..2} \cup
  {Row("transaction", at, at, a2, a1, "escrow", TRUE) : at \in 1..2} \cup
  {Row("transaction", 2, 2, a2, a1, "escrow", FALSE)} \cup
  {Row("runtime_transaction", 1, key, a1, a2, "call", TRUE) : key \in 0..2} \cup
  {Row("runtime_transaction", 1, 1, a2, a1, "call", TRUE)} \cup
  {Row("runtime_round", at, at, None, None, None, TRUE) : at \in 1..3} \cup
  {Row("staking_event", at, at, f, t, None, TRUE) : at \in 1..2, f, t \in {a1, a2}} \cup
  {Row("reward", 1, 10, a1, None, None, FALSE)} \cup
  {Row("reward", e, 10 * e + n, a1, None, None, TRUE) : e \in 1..2, n \in 1..2} \cup
  {Row("vote", p, p, a1, None, None, TRUE) : p \in 1..2} \cup
  {Row("block", h, h, a1, None, None, g) : h \in 1..3, g \in BOOLEAN} \cup
  {Row("delegation", 1, n, a1, None, None, TRUE) : n \in 1..2} \cup
  {Row("debonding", 1, n, a1, None, None, g) : n \in 1..2, g \in BOOLEAN}

Wants(of, at, address, method, runtime, size) ==
  [of |-> of, at |-> at, address |-> address, method |-> method, runtime |-> runtime, size |-> size]

MCRequests ==
  {Wants("transactions", None, None, None, FALSE, 2),
   Wants("transactions", None, a1, None, TRUE, 1),
   Wants("transactions", None, a1, "escrow", FALSE, 1),
   Wants("transactions", 1, None, "transfer", TRUE, 1),
   Wants("escrowEvents", None, a1, None, FALSE, 1),
   Wants("runtimeTransactions", None, a1, None, FALSE, 1),
   Wants("rounds", None, None, None, FALSE, 2),
   Wants("stakingEvents", None, a1, None, FALSE, 2),
   Wants("rewards", None, a1, None, FALSE, 1),
   Wants("votes", 1, None, None, FALSE, 1),
   Wants("blocks", None, None, None, FALSE, 2),
   Wants("proposedBlocks", None, a1, None, FALSE, 1),
   Wants("delegations", None, a1, None, FALSE, 2),
   Wants("debonding", None, a1, None, FALSE, 1)}

SignedBlock(day, signers) == [day |-> day, signers |-> signers]

(* Two blocks on one day; a day without a block.                           *)
MCChains ==
  {<<SignedBlock(1, {n1, n2}), SignedBlock(2, {n1}), SignedBlock(3, {n1, n2}),
     SignedBlock(3, {n2}), SignedBlock(4, {n1})>>,
   <<SignedBlock(1, {n1}), SignedBlock(1, {n2}), SignedBlock(2, {n1, n2}), SignedBlock(4, {n1})>>}

MCValidators == <<v0, v1>>

MCNodesOf == v0 :> {} @@ v1 :> {n1, n2}
=============================================================================
