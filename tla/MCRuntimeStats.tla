--------------------------- MODULE MCRuntimeStats ---------------------------
(* Two ParaTimes.  Entity e1 runs nodes m and n, entity e2 runs node o.    *)
EXTENDS RuntimeStats, TLC

CONSTANTS p, q, m, n, o, e1, e2

MCEntityOf == m :> e1 @@ n :> e1 @@ o :> e2

W(node) == [node |-> node, role |-> "worker"]
B(node) == [node |-> node, role |-> "backup"]
Normal(round, committee, proposer) ==
  [round |-> round, type |-> "normal", committee |-> committee, proposer |-> proposer]
Without(round, type) == [round |-> round, type |-> type, committee |-> <<>>, proposer |-> None]

(* p: a node with both roles, a round that lasts two heights.  q: does not *)
(* exist yet, starts, is suspended, goes on.                               *)
MCBlock ==
  p :> <<Normal(7, <<W(m), B(m), W(o)>>, o),
         Normal(8, <<W(m), W(n), B(o)>>, m),
         Normal(8, <<W(m), W(n), B(o)>>, m),
         Normal(9, <<W(o), B(n)>>, o)>>
  @@ q :> <<Without(0, "missing"),
            Normal(3, <<W(n), B(o)>>, n),
            Without(4, "suspended"),
            Normal(5, <<W(o), B(n)>>, o)>>

MCRegistered == p :> <<{m}, {m, o}, {m, n, o}, {n, o}>> @@ q :> <<{}, {n}, {o}, {n, o}>>

(* p: a header type the job does not know at height 4. *)
MCBadHeight == [MCBlock EXCEPT ![p][4] = Without(9, "unknown")]

MCAllRows == [r \in Runtime |-> Entities]
MCNewRow  == [r \in Runtime |-> {e1}]
=============================================================================
