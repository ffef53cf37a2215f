-------------------------------- MODULE Pages --------------------------------
(***************************************************************************)
(* The lists of the API.  A request for a page makes two queries, one for  *)
(* the rows of the page and one for the number of all rows, in no          *)
(* transaction and from conditions that are written twice; the jobs add    *)
(* rows meanwhile.  A client walks a list from page 1 until a reply says   *)
(* that there is no further page.                                          *)
(***************************************************************************)
EXTENDS Faults, Integers, Sequences, FiniteSets, SequencesExt, FiniteSetsExt

CONSTANTS
  Rows,          \* bound: the rows the jobs may store
  Requests,      \* bound: what the client may ask for
  MaxRows,       \* bound: rows that are stored
  Window,        \* 10000 (transactions), 100000 (proposed blocks): recent heights
  MaxSizeLimit   \* 200000: total of runtime transactions that is admitted to

ASSUME PageAssumption == MaxRows \in Nat /\ Window \in Nat \ {0} /\ MaxSizeLimit \in Nat

(* The key of a row is what its list is ordered by: the time of its block  *)
(* or round, the round, the height and position, the epoch and reward, the *)
(* proposal and percent, the amount.  A later block has a later time, a    *)
(* later epoch comes before any reward; within one they may be equal.      *)
ASSUME RowAssumption ==
  \A r, s \in Rows :
    /\ r.at \in Nat /\ r.key \in Nat
    /\ r.table = s.table /\ r.table \in {"transaction", "reward"} /\ r.at < s.at => r.key < s.key

(* No client asks for pages of no rows: the total is divided by the size.  *)
ASSUME RequestAssumption == \A q \in Requests : q.size \in Nat \ {0}

VARIABLES
  table,    \* database: the rows, in the order they were stored
  deleted,  \* database: positions of the rows that were deleted
  reader    \* the client and its request

pageVars == <<table, deleted, reader, faults>>

PageInit ==
  /\ table = <<>>
  /\ deleted = {}
  /\ \E q \in Requests :
       reader = [pc |-> "done", q |-> q, page |-> 0, list |-> <<>>, total |-> 0,
                 seen |-> {}, start |-> {}]
-----------------------------------------------------------------------------
(* The conditions of the queries.  A row has its table, the height or      *)
(* round it belongs to (at), the addresses from and to, its method, and    *)
(* whether it is good: a transaction that succeeded, a reward above zero,  *)
(* a proposer or a validator that is known.  None in a request filters     *)
(* nothing.                                                                *)

Is(wanted, value)    == wanted = None \/ wanted = value
Touches(r, address)  == address = None \/ address \in {r.from, r.to}
Heights(name)        == {table[i].at : i \in {j \in DOMAIN table : table[j].table = name}}
Recent(name, r)      == r.at > Max(Heights(name)) - Window
Unfiltered(q)        == q.at = None /\ q.address = None /\ q.method = None

SignedOrPaid(r, address) ==
  address = None \/ r.from = address \/ (r.method = "transfer" /\ r.to = address)

Transaction(q, r) ==
  /\ r.table = "transaction"
  /\ Is(q.at, r.at) /\ SignedOrPaid(r, q.address) /\ Is(q.method, r.method)
  /\ Unfiltered(q) => Recent("transaction", r)

FindTxs(q, r) ==
  \/ Transaction(q, r)
  \/ q.runtime /\ r.table = "runtime_transaction" /\ Touches(r, q.address)

(* Mutant of CountTxs: without the runtime transactions.                   *)
CountConsensusTxs(q, r) == Transaction(q, r)

(* The count of runtime transactions filters the method as well, and takes *)
(* its addresses from the two parameters before the last: the address and  *)
(* the method when there is one.                                           *)
CountTxs(q, r) ==
  \/ Transaction(q, r)
  \/ /\ q.runtime /\ r.table = "runtime_transaction"
     /\ Is(q.method, r.method)
     /\ \/ q.address = None
        \/ r.from = q.address
        \/ r.to = (IF q.method = None THEN q.address ELSE q.method)

FindEscrowEvents(q, r) ==
  r.table = "transaction" /\ r.to = q.address /\ r.method = "escrow" /\ r.good

RuntimeTransaction(q, r) ==
  r.table = "runtime_transaction" /\ Is(q.at, r.at) /\ Touches(r, q.address)

FindByRuntimeId(q, r) == r.table = "runtime_round"

FindByAddress(q, r) == r.table = "staking_event" /\ Touches(r, q.address)

FindByDelegator(q, r) == r.table = "reward" /\ r.from = q.address /\ r.good

FindByValidator(q, r) == r.table = "vote" /\ Is(q.address, r.from) /\ Is(q.at, r.at)

FindBlocks(q, r) == r.table = "block"

FindBlocksByValidator(q, r) ==
  r.table = "block" /\ r.good /\ r.from = q.address /\ Recent("block", r)

DelegationsFor(q, r) == r.table = "delegation" /\ r.from = q.address

(* The list leaves out what is debonding from a validator without a row. *)
DebondingDelegationsFor(q, r) == r.table = "debonding" /\ r.from = q.address /\ r.good

Found(q, r) ==
  \/ q.of = "transactions"        /\ FindTxs(q, r)
  \/ q.of = "escrowEvents"        /\ FindEscrowEvents(q, r)
  \/ q.of = "runtimeTransactions" /\ RuntimeTransaction(q, r)
  \/ q.of = "rounds"              /\ FindByRuntimeId(q, r)
  \/ q.of = "stakingEvents"       /\ FindByAddress(q, r)
  \/ q.of = "rewards"             /\ FindByDelegator(q, r)
  \/ q.of = "votes"               /\ FindByValidator(q, r)
  \/ q.of = "blocks"              /\ FindBlocks(q, r)
  \/ q.of = "proposedBlocks"      /\ FindBlocksByValidator(q, r)
  \/ q.of = "delegations"         /\ DelegationsFor(q, r)
  \/ q.of = "debonding"           /\ DebondingDelegationsFor(q, r)

Live == DOMAIN table \ deleted

Matching(q) == {i \in Live : Found(q, table[i])}

(* ORDER BY key DESC: rows with equal keys come in any order, another one  *)
(* in every query.                                                         *)
OrderBy(S) ==
  {list \in SetToSeqs(S) :
     \A i, j \in DOMAIN list : i < j => table[list[i]].key >= table[list[j]].key}
-----------------------------------------------------------------------------
(* Pages.                                                                  *)

MaxPage(size, total) == IF total % size = 0 THEN total \div size ELSE total \div size + 1

(* LIMIT size OFFSET (page - 1) * size, as PageLimit does in memory. *)
PageLimit(list, page, size) ==
  LET start == (page - 1) * size
      end   == Min({start + size, Len(list)})
  IN  [k \in 1..(end - start) |-> list[start + k]]

(* Events from and to the account are looked up apart, the first page of   *)
(* each, and put together; whatever the page, no other event is looked at. *)
EventsFrom(q) == {i \in Matching(q) : table[i].from = q.address}
EventsTo(q)   == {i \in Matching(q) : table[i].to = q.address}

FirstPage(S, size) == {ToSet(PageLimit(list, 1, size)) : list \in OrderBy(S)}

StakingEvents(q) ==
  UNION {OrderBy(f \cup t) : f \in FirstPage(EventsFrom(q), q.size), t \in FirstPage(EventsTo(q), q.size)}

(* The lists a query may make of its rows, and a page of them. *)
Listings(q) == IF q.of = "stakingEvents" THEN StakingEvents(q) ELSE OrderBy(Matching(q))

PagesOf(q, page) == {PageLimit(list, page, q.size) : list \in Listings(q)}

CountAll(q) ==
  CASE q.of = "transactions"        -> Cardinality({i \in Live : CountTxs(q, table[i])})
    [] q.of = "runtimeTransactions" -> Min({Cardinality(Matching(q)), MaxSizeLimit})
    [] OTHER                        -> Cardinality(Matching(q))
-----------------------------------------------------------------------------
(* The jobs.                                                               *)

Asked == reader.q

TablesOf(q) ==
  CASE q.of = "transactions"        -> {"transaction", "runtime_transaction"}
    [] q.of = "escrowEvents"        -> {"transaction"}
    [] q.of = "runtimeTransactions" -> {"runtime_transaction"}
    [] q.of = "rounds"              -> {"runtime_round"}
    [] q.of = "stakingEvents"       -> {"staking_event"}
    [] q.of = "rewards"             -> {"reward"}
    [] q.of = "votes"               -> {"vote"}
    [] q.of = "delegations"         -> {"delegation"}
    [] q.of = "debonding"           -> {"debonding"}
    [] OTHER                        -> {"block"}

(* What is stored in the order of its heights, rounds or epochs, and what  *)
(* a unique index keeps from being stored twice.                           *)
Ordered == {"transaction", "block", "staking_event", "runtime_round", "reward"}
Unique  == {"block", "staking_event", "runtime_round"}

(* A job stores a row. *)
Store(r) ==
  /\ Len(table) < MaxRows
  /\ r.table \in TablesOf(Asked)
  /\ r.table \in Ordered => \A h \in Heights(r.table) : h <= r.at
  /\ r.table \in Unique =>
       \A i \in DOMAIN table : table[i].table = r.table => table[i].key # r.key
  /\ table' = Append(table, r)
  /\ UNCHANGED <<deleted, reader, faults>>

(* DelegatorRewardSync deletes the rewards up to an epoch. *)
DeleteBeforeEpoch ==
  /\ Asked.of = "rewards"
  /\ \E h \in Heights("reward") :
       deleted' = deleted \cup {i \in Live : table[i].table = "reward" /\ table[i].at <= h}
  /\ UNCHANGED <<table, reader, faults>>

(* An account withdraws a delegation, or its debonding ends. *)
Withdraw ==
  /\ Asked.of \in {"delegations", "debonding"}
  /\ \E i \in Live : deleted' = deleted \cup {i}
  /\ UNCHANGED <<table, reader, faults>>
-----------------------------------------------------------------------------
(* The client.                                                             *)

Begin ==
  /\ reader.pc = "done"
  /\ reader' = [reader EXCEPT !.pc = "ask", !.page = 1, !.list = <<>>, !.total = 0,
                              !.seen = {}, !.start = Matching(Asked)]
  /\ UNCHANGED <<table, deleted, faults>>

FindPage ==
  /\ reader.pc = "ask"
  /\ \E list \in PagesOf(Asked, reader.page) :
       reader' = [reader EXCEPT !.pc = "count", !.list = list]
  /\ UNCHANGED <<table, deleted, faults>>

CountAfter ==
  /\ reader.pc = "count"
  /\ reader' = [reader EXCEPT !.pc = "reply", !.total = CountAll(Asked)]
  /\ UNCHANGED <<table, deleted, faults>>

CountBefore ==
  /\ reader.pc = "ask"
  /\ reader' = IF CountAll(Asked) = 0
               THEN [reader EXCEPT !.pc = "reply", !.total = 0]
               ELSE [reader EXCEPT !.pc = "find", !.total = CountAll(Asked)]
  /\ UNCHANGED <<table, deleted, faults>>

(* A block whose proposer has no row in table node or validator has no     *)
(* name to read: the request fails, and the client gives up.               *)
FindAfter ==
  /\ reader.pc = "find"
  /\ \E list \in PagesOf(Asked, reader.page) :
         reader' = IF Asked.of = "blocks" /\ \E i \in ToSet(list) : ~table[i].good
                   THEN [reader EXCEPT !.pc = "done", !.list = <<>>, !.seen = {}, !.start = {}]
                   ELSE [reader EXCEPT !.pc = "reply", !.list = list]
  /\ UNCHANGED <<table, deleted, faults>>

(* The node returns the whole list, and it is paged in memory. *)
FindAndCount ==
  /\ reader.pc = "ask"
  /\ \E list \in PagesOf(Asked, reader.page) :
       reader' = [reader EXCEPT !.pc = "reply", !.list = list, !.total = CountAll(Asked)]
  /\ UNCHANGED <<table, deleted, faults>>

(* The client reads the reply and asks for the next page, if there is one. *)
ReadReply ==
  /\ reader.pc = "reply"
  /\ LET more == reader.page < MaxPage(Asked.size, reader.total)
     IN  reader' = [reader EXCEPT !.pc   = IF more THEN "ask" ELSE "done",
                                  !.page = IF more THEN @ + 1 ELSE @,
                                  !.seen = @ \cup ToSet(reader.list),
                                  !.list = <<>>, !.total = 0]
  /\ UNCHANGED <<table, deleted, faults>>

(* A query fails and the client asks for the same page again. *)
ReadFails ==
  /\ Fault
  /\ reader.pc \in {"count", "find", "reply"}
  /\ reader' = [reader EXCEPT !.pc = "ask", !.list = <<>>, !.total = 0]
  /\ UNCHANGED <<table, deleted>>

(* The endpoints: some read the page first, some the total, some both.     *)

CountThenPage(of) == Asked.of = of /\ (CountBefore \/ FindAfter)

PageThenCount(of) == Asked.of = of /\ (FindPage \/ CountAfter)

ChainTransactions      == PageThenCount("transactions")
ValidatorEscrowEvent   == PageThenCount("escrowEvents")
RuntimeTransactionList == PageThenCount("runtimeTransactions")
RuntimeRoundList       == PageThenCount("rounds")
AccountStakingEvents   == PageThenCount("stakingEvents")
AccountReward          == PageThenCount("rewards")
GovernanceVotes        == PageThenCount("votes")
ChainBlocks            == CountThenPage("blocks")
ChainProposedBlocks    == CountThenPage("proposedBlocks")
AccountDelegations     == Asked.of = "delegations" /\ FindAndCount
AccountDebonding       == Asked.of = "debonding" /\ FindAndCount

PageNext ==
  \/ \E r \in Rows : Store(r)
  \/ DeleteBeforeEpoch
  \/ Withdraw
  \/ Begin
  \/ ChainTransactions \/ ValidatorEscrowEvent
  \/ RuntimeTransactionList \/ RuntimeRoundList
  \/ AccountStakingEvents \/ AccountReward \/ AccountDelegations \/ AccountDebonding
  \/ GovernanceVotes
  \/ ChainBlocks \/ ChainProposedBlocks
  \/ ReadReply
  \/ ReadFails
-----------------------------------------------------------------------------
(* Properties.                                                             *)

(* A method given together with the runtime transactions is where the two  *)
(* queries for transactions part (transactionmodel.go:177-183, 238-243).   *)
Parted(q) == q.of = "transactions" /\ q.runtime /\ q.method # None

(* The recent transactions together with all of the runtimes: rows that    *)
(* are too old leave from the middle of the list (transactionmodel.go:145).*)
Mixed(q) == q.of = "transactions" /\ q.runtime /\ Unfiltered(q)

(* The conditions of a list are written once for the page and once for the *)
(* total: no reply shows more rows than its total accounts for, and none   *)
(* shows a row twice, whatever is stored between the two queries.  Left    *)
(* out are lists that are counted first, or whose rows leave before they   *)
(* are counted, and a list whose conditions do differ.                     *)
CountCoversPage ==
  reader.pc = "reply" /\ Asked.of \notin {"rewards", "blocks", "proposedBlocks"} /\ ~Parted(Asked) =>
    /\ IsInjective(reader.list)
    /\ Asked.of = "runtimeTransactions" => reader.total <= MaxSizeLimit
    /\ \/ reader.list = <<>>
       \/ (reader.page - 1) * Asked.size + Len(reader.list) <= reader.total
       \/ Asked.of = "transactions" /\ Unfiltered(Asked)
       \/ reader.total = MaxSizeLimit

(* No other row of the list has the key of this one. *)
Alone(i) == \A j \in Matching(Asked) : table[j].key = table[i].key => j = i

(* A client that walks a list to its end has seen every row that was there *)
(* when it began and still is, although rows are added at the head of the  *)
(* list and push others to later pages: the total is read after the page.  *)
(* Rows that share their key, as the transactions of a block do and those  *)
(* of a round, come in any order, another one for every page, and may be   *)
(* on none although nothing is stored (transactionmodel.go:186, 317;       *)
(* runtimetransactionmodel.go:65; rewardmodel.go:57): nothing is claimed   *)
(* of them; the rounds of a ParaTime are unique.  Left out are lists that  *)
(* are not ordered by age, that end at the limit, that lose rows other     *)
(* than their oldest, or whose later pages miss rows                       *)
(* (stakingeventmodel.go:42-56).                                           *)
WalkSeesAll ==
  reader.pc = "done" /\ Asked.of \in {"transactions", "escrowEvents", "rounds", "rewards", "runtimeTransactions"}
    /\ ~Parted(Asked) /\ ~Mixed(Asked)
    /\ (Asked.of = "runtimeTransactions" => Cardinality(Matching(Asked)) <= MaxSizeLimit)
  => \A i \in reader.start \cap Matching(Asked) :
       Asked.of = "rounds" \/ Alone(i) => i \in reader.seen
=============================================================================
