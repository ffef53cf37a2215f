--------------------------- MODULE MCNodeScanner ----------------------------
(* Entity e1 runs validator a, whose consensus key changes, and for a time *)
(* a compute node b; entity e2 takes over node b as a validator.           *)
EXTENDS NodeScanner

CONSTANTS e1, e2, a, b, c1, c2, c3

D(e, n, c, v) == [entity |-> e, node |-> n, consensus |-> c, validator |-> v]

MCLists ==
  {<<>>,
   <<D(e1, a, c1, TRUE)>>,
   <<D(e1, a, c2, TRUE), D(e2, b, c3, TRUE)>>,
   <<D(e1, b, c3, FALSE), D(e1, a, c1, TRUE)>>}
=============================================================================
