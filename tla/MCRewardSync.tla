---------------------------- MODULE MCRewardSync ----------------------------
EXTENDS RewardSync, TLC

CONSTANTS v1, v2, d1, d2

P(balance, x, y) == [balance |-> balance, total |-> x + y, shares |-> d1 :> x @@ d2 :> y]

(* v1 earns and d2 comes and goes; v2 is known late. *)
MCPools ==
  [e \in Epoch |->
     CASE e % 3 = 0 -> {v1 :> P(10, 5, 5) @@ v2 :> P(4, 4, 0)}
       [] e % 3 = 1 -> {v1 :> P(20, 5, 5) @@ v2 :> P(8, 4, 0),
                        v1 :> P(10, 5, 0) @@ v2 :> P(12, 4, 2)}
       [] e % 3 = 2 -> {v1 :> P(32, 6, 5) @@ v2 :> P(15, 4, 1)}]

(* The balance grows, the delegation is partly reclaimed. *)
MCReclaim ==
  [e \in Epoch |-> IF e = 0 THEN {v1 :> P(10, 5, 0)} ELSE {v1 :> P(b, x, 0) : b \in {16, 30}, x \in {4, 5}}]
=============================================================================
