------------------------------ MODULE ApiReads ------------------------------
(***************************************************************************)
(* The requests to the API and the caches they are answered from, put      *)
(* together.  They share the database and its failures, but none of them   *)
(* changes what another one reads: a behaviour is about one subject, the   *)
(* state of the others rests.                                              *)
(***************************************************************************)
EXTENDS Pages, SignStats, Take

VARIABLE subject  \* the requests this behaviour is about

vars == <<pageVars, signVars, takeVars, subject>>

Init ==
  /\ PageInit /\ SignInit /\ TakeInit
  /\ faults = 0
  /\ subject \in {"lists", "signatures", "uptime", "answers"}
  /\ subject # "lists" => reader.q = CHOOSE q \in Requests : TRUE
  /\ subject \notin {"signatures", "uptime"} => chain = CHOOSE b \in Chains : TRUE
  /\ subject # "answers" => topic = {"days"}

PagesRest   == UNCHANGED <<table, deleted, reader>>
SignsRest   == UNCHANGED <<chainVars, database, view, uptime, sync, cache, job>>
AnswersRest == UNCHANGED <<topic, version, held, leader, client, served>>

Lists(A)      == subject = "lists" /\ A /\ SignsRest /\ AnswersRest /\ UNCHANGED subject
Signs(A)      == subject = "signatures" /\ A /\ PagesRest /\ AnswersRest /\ UNCHANGED subject
Uptimes(A)    == subject = "uptime" /\ A /\ PagesRest /\ AnswersRest /\ UNCHANGED subject
Answers(A)    == subject = "answers" /\ A /\ PagesRest /\ SignsRest /\ UNCHANGED subject

Next == Lists(PageNext) \/ Signs(SignNext) \/ Uptimes(UptimeNext) \/ Answers(TakeNext)

(* A job that runs goes on, cron starts it again and again, and a request  *)
(* that is under way goes on.  Nothing makes a client ask, the chain move  *)
(* or an answer expire.                                                    *)
Fairness ==
  /\ \A r \in Refresher : WF_vars(Signs(SignStatsCacheJob(r)))
  /\ \A c \in Client : WF_vars(Answers(Serve(c)))

Spec == Init /\ [][Next]_vars /\ Fairness
-----------------------------------------------------------------------------
(* A validator that signs, and one that has no node, is in the cache again *)
(* and again, whatever the validators before it and however often its      *)
(* entry expires; one that is in neither case is skipped                   *)
(* (cacherefresh.go:30-63).                                                *)
EveryValidatorRefreshed ==
  subject = "signatures" => \A v \in ToSet(Validators) : []<>(cache[v] # None \/ Skipped(v))
=============================================================================
