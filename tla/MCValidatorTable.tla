-------------------------- MODULE MCValidatorTable --------------------------
(* Entity e1 is registered at first, e2 may come.  The second file of e1   *)
(* cannot be decoded.  A validator may have little stake and sign, or more *)
(* and not sign.                                                           *)
EXTENDS ValidatorTable, TLC

CONSTANTS e1, e2

MCRoster  == <<e1, e2>>
MCBroken  == {<<e1, 2>>}
Idle     == [nodes |-> 0, escrow |-> 3]
Signs(x) == [nodes |-> 1, escrow |-> x]

MCStanding == {Idle, Signs(1), Signs(2)}
MCInitial  == e1 :> Idle @@ e2 :> Signs(1)
=============================================================================
