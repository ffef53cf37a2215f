-------------------------------- MODULE Take --------------------------------
(***************************************************************************)
(* The answers the API keeps in LocalCache.  An endpoint asks the cache    *)
(* for its key with Take and hands over a function that makes the answer   *)
(* from several queries.  Take returns what the cache holds; if it holds   *)
(* nothing, one request makes the answer and the others wait for it.  The  *)
(* answer of one endpoint is made from that of another one.                *)
(***************************************************************************)
EXTENDS Faults, Sequences, SequencesExt, FiniteSetsExt

CONSTANTS
  Client,      \* requests under way at the same time
  MaxChanges   \* bound: changes of the data

ASSUME TakeAssumption == MaxChanges \in Nat /\ None \notin Client

(* Mutant of ChartKey: both endpoints of MarketCache use one key. *)
InfoKey == "info"

ChartKey == "chart"

(* The queries an answer is made from, in their order; "chart" is the      *)
(* answer to another request.  Queries that are repeated for each entity,  *)
(* or for each vote, stand here once.                                      *)
ValidatorList  == <<"escrow", "validator", "delegator">>
MarketInfo     == <<"coingecko", "chart">>
MarketChart    == <<"coingecko">>
NetworkStatus  == <<"status", "transaction", "escrow", "active", "delegator">>
RuntimeStats   == <<"runtime_node", "status", "registry", "validator", "runtime_stats">>
FindDays       == <<"reward">>
ProposalVotes  == <<"proposal", "status", "votes", "epoch", "account", "validator">>

Queries ==
  [validators |-> ValidatorList, info |-> MarketInfo, chart |-> MarketChart, status |-> NetworkStatus,
   runtimeStats |-> RuntimeStats, days |-> FindDays, votes |-> ProposalVotes]

Key == DOMAIN Queries

(* No entities, or no nodes: the answer is empty, and made without the     *)
(* queries that are left.                                                  *)
Early == {<<"runtimeStats", 1>>, <<"runtimeStats", 3>>}

(* An answer that cannot be computed panics: a chart with one volume has   *)
(* none of the day before, a coin without market data no price, a voter    *)
(* whose account cannot be read no weight.                                 *)
MayPanic == {"info", "votes"}

(* These endpoints do not look at the error of Take. *)
IgnoreError == {"validators", "info"}

VARIABLES
  topic,    \* the keys that are asked for in this behaviour
  version,  \* how often the data behind the queries has changed
  held,     \* LocalCache: by key, the oldest version its answer is made from, or None
  leader,   \* by key, the request that makes the answer, or None
  client,   \* the requests
  served    \* by key, the newest answer a request got

takeVars == <<topic, version, held, leader, client, served, faults>>

(* The result of a call: an answer, and the oldest version it is made      *)
(* from, or "error", or "nil", which is neither.                           *)
Answer(since) == [is |-> "answer", since |-> since]
Failed(how)   == [is |-> how, since |-> 0]

(* A request and what it does on the way: a frame for its own key and,     *)
(* above it, one for the key its answer needs.                             *)
Frame(k) == [key |-> k, pc |-> "take", done |-> 0, since |-> MaxChanges, result |-> Failed("none")]

Idle == [calls |-> <<>>, floor |-> 0, reply |-> Failed("none")]

TakeInit ==
  /\ topic \in {{"validators"}, {"info", "chart"}, {"status"}, {"runtimeStats"}, {"days"}, {"votes"}}
  /\ version = 0
  /\ held = [k \in Key |-> None]
  /\ leader = [k \in Key |-> None]
  /\ client = [c \in Client |-> Idle]
  /\ served = [k \in Key |-> 0]

Busy(c) == client[c].calls # <<>>
Top(c)  == Last(client[c].calls)

Put(calls, frame)     == Append(Front(calls), frame)
Return(calls, result) == Put(calls, [Last(calls) EXCEPT !.pc = "return", !.result = result])
-----------------------------------------------------------------------------
(* The data and the clock.                                                 *)

(* A job, the chain or the market changes what a query returns. *)
Change ==
  /\ version < MaxChanges
  /\ version' = version + 1
  /\ UNCHANGED <<topic, held, leader, client, served, faults>>

ExpireAnswer(k) ==
  /\ held[k] # None
  /\ held' = [held EXCEPT ![k] = None]
  /\ UNCHANGED <<topic, version, leader, client, served, faults>>
-----------------------------------------------------------------------------
(* Take, of go-zero.                                                       *)

(* Mutant of InFlight: every request that finds nothing makes the answer.  *)
NeverInFlight(k) == FALSE

InFlight(k) == leader[k] # None

(* The cache holds an answer. *)
Hit(c) ==
  /\ Busy(c) /\ Top(c).pc = "take" /\ held[Top(c).key] # None
  /\ client' = [client EXCEPT ![c].calls =
                  Return(@, Answer(held[Top(c).key]))]
  /\ UNCHANGED <<topic, version, held, leader, served, faults>>

Miss(c) ==
  /\ Busy(c) /\ Top(c).pc = "take" /\ held[Top(c).key] = None
  /\ client' = [client EXCEPT ![c].calls = Put(@, [Top(c) EXCEPT !.pc = "barrier"])]
  /\ UNCHANGED <<topic, version, held, leader, served, faults>>

(* One request at a time goes on; the others wait for its result. *)
Barrier(c) ==
  /\ Busy(c) /\ Top(c).pc = "barrier"
  /\ LET k == Top(c).key
     IN  IF InFlight(k)
         THEN /\ client' = [client EXCEPT ![c].calls = Put(@, [Top(c) EXCEPT !.pc = "wait"])]
              /\ UNCHANGED leader
         ELSE /\ client' = [client EXCEPT ![c].calls = Put(@, [Top(c) EXCEPT !.pc = "check"])]
              /\ leader' = [leader EXCEPT ![k] = c]
  /\ UNCHANGED <<topic, version, held, served, faults>>

(* The call of c for key k ends, also for those who wait for it. *)
Waits(d, k) == Busy(d) /\ Top(d).pc = "wait" /\ Top(d).key = k

Finish(c, k, calls, result) ==
  /\ client' = [d \in Client |->
                  IF d = c THEN [client[d] EXCEPT !.calls = Return(calls, result)]
                  ELSE IF Waits(d, k) THEN [client[d] EXCEPT !.calls = Return(@, result)]
                  ELSE client[d]]
  /\ leader' = [leader EXCEPT ![k] = None]

(* The request that goes on looks at the cache again. *)
DoubleCheck(c) ==
  /\ Busy(c) /\ Top(c).pc = "check"
  /\ LET k == Top(c).key
     IN  IF held[k] # None
         THEN Finish(c, k, client[c].calls, Answer(held[k]))
         ELSE /\ client' = [client EXCEPT ![c].calls = Put(@, [Top(c) EXCEPT !.pc = "fetch"])]
              /\ UNCHANGED leader
  /\ UNCHANGED <<topic, version, held, served, faults>>
-----------------------------------------------------------------------------
(* The functions that make the answers.                                    *)

Fetches(c)   == Busy(c) /\ Top(c).pc = "fetch"
Left(c)      == Top(c).done < Len(Queries[Top(c).key])
NextQuery(c) == Queries[Top(c).key][Top(c).done + 1]
Made(c)      == ~Left(c) \/ <<Top(c).key, Top(c).done>> \in Early

Got(frame, since) == [frame EXCEPT !.done = @ + 1, !.since = Min({@, since})]

Query(c) ==
  /\ Fetches(c) /\ Left(c)
  /\ LET calls == client[c].calls
     IN  client' = [client EXCEPT ![c].calls =
                      IF NextQuery(c) = "chart" THEN Append(calls, Frame(ChartKey))
                      ELSE Put(calls, Got(Top(c), version))]
  /\ UNCHANGED <<topic, version, held, leader, served, faults>>

(* The answer is stored, for as long as the cache keeps it. *)
SetAnswer(c) ==
  /\ Fetches(c) /\ Made(c)
  /\ held' = [held EXCEPT ![Top(c).key] = Top(c).since]
  /\ Finish(c, Top(c).key, client[c].calls, Answer(Top(c).since))
  /\ UNCHANGED <<topic, version, served, faults>>

(* An error is not stored. *)
QueryFails(c) ==
  /\ Fault
  /\ Fetches(c)
  /\ Finish(c, Top(c).key, client[c].calls, Failed("error"))
  /\ UNCHANGED <<topic, version, held, served>>

(* A panic ends the request; those who wait for it get neither an answer   *)
(* nor an error.                                                           *)
Panics(c, k) ==
  /\ client' = [d \in Client |->
                  IF d = c THEN [Idle EXCEPT !.reply = Failed("panic")]
                  ELSE IF Waits(d, k)
                  THEN [client[d] EXCEPT !.calls = Return(@, Failed("nil"))]
                  ELSE client[d]]
  /\ leader' = [leader EXCEPT ![k] = None]

FetchPanics(c) ==
  /\ Fault
  /\ Fetches(c) /\ Made(c) /\ Top(c).key \in MayPanic
  /\ Panics(c, Top(c).key)
  /\ UNCHANGED <<topic, version, held, served>>
-----------------------------------------------------------------------------
(* The endpoints.                                                          *)

Ask(c, k) ==
  /\ ~Busy(c)
  /\ k \in topic
  /\ client' = [client EXCEPT ![c] = [calls |-> <<Frame(k)>>, floor |-> served[k], reply |-> Failed("none")]]
  /\ UNCHANGED <<topic, version, held, leader, served, faults>>

Returns(c) == Busy(c) /\ Top(c).pc = "return"

(* The request is answered.  What is no answer is asserted to be one by an *)
(* endpoint that does not look at the error, or had none to look at.       *)
Reply(c) ==
  /\ Returns(c) /\ Len(client[c].calls) = 1
  /\ LET k == Top(c).key
         r == Top(c).result
         asserted == r.is = "nil" \/ (r.is = "error" /\ k \in IgnoreError)
     IN  /\ client' = [client EXCEPT ![c].calls = <<>>,
                                     ![c].reply = IF asserted THEN Failed("panic") ELSE r]
         /\ served' = [served EXCEPT ![k] = Max({@, r.since})]
  /\ UNCHANGED <<topic, version, held, leader, faults>>

(* MarketInfo goes on with the chart it asked for, or ends without it. *)
UseChart(c) ==
  /\ Returns(c) /\ Len(client[c].calls) > 1
  /\ LET calls == Front(client[c].calls)
         outer == Last(calls)
         r     == Top(c).result
     IN  \/ /\ r.is = "answer"
            /\ client' = [client EXCEPT ![c].calls = Put(calls, Got(outer, r.since))]
            /\ UNCHANGED leader
         \/ r.is = "error" /\ Finish(c, outer.key, calls, r)
  /\ UNCHANGED <<topic, version, held, served, faults>>

Serve(c) ==
  \/ Hit(c) \/ Miss(c) \/ Barrier(c) \/ DoubleCheck(c)
  \/ Query(c) \/ SetAnswer(c) \/ Reply(c) \/ UseChart(c)

TakeNext ==
  \/ Change
  \/ \E k \in Key : ExpireAnswer(k)
  \/ \E c \in Client : Serve(c) \/ QueryFails(c) \/ FetchPanics(c)
  \/ \E c \in Client, k \in Key : Ask(c, k)
-----------------------------------------------------------------------------
(* Properties.                                                             *)

(* No request is answered from data older than that of an answer somebody  *)
(* had before it came in, whichever of them made the answer, waited for it *)
(* or found it in the cache, and whenever that expired (cache.go:19-57).   *)
TakenNeverGoesBack ==
  \A c \in Client :
    client[c].reply.is = "answer" => client[c].reply.since >= client[c].floor

(* Every request is answered, be it with an error: nobody waits for an     *)
(* answer that itself waits, although MarketInfo asks its own cache for    *)
(* the chart in the middle of its answer (marketinfologic.go:29-39).       *)
EveryRequestAnswered == \A c \in Client : []<>~Busy(c)
=============================================================================
