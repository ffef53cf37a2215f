--------------------------- MODULE MCBlockScanner ---------------------------
(* A five-block chain: the first commit is empty as after genesis, the     *)
(* later ones have absent validators, one block has no transaction, and a  *)
(* transaction appears at two heights (a failed one is retried).  The      *)
(* fourth block has a transaction that cannot be decoded.                  *)
EXTENDS BlockScanner

CONSTANTS v1, v2, t1, t2, t3

MCChain ==
  <<[commit |-> <<>>, txs |-> <<t1>>],
    [commit |-> <<v1, NoAddress, NoAddress>>, txs |-> <<>>],
    [commit |-> <<v1, v2>>, txs |-> <<t1, t2>>],
    [commit |-> <<NoAddress, v2>>, txs |-> <<t2, t3>>],
    [commit |-> <<v1>>, txs |-> <<t1>>]>>
=============================================================================
