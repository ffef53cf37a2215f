--------------------------- MODULE MCRuntimeSync ----------------------------
EXTENDS RuntimeSync, TLC

CONSTANTS p, q

MCFirst     == p :> 0 @@ q :> 1
(* The rounds of p have one item each, those of q one, none or two. *)
MCItemCount == p :> [n \in Round |-> 1] @@ q :> [n \in Round |-> n % 3]
MCUnreadable == {<<p, 2, 1>>}
MCAnyOrder  == {<<p, q>>, <<q, p>>}
=============================================================================
