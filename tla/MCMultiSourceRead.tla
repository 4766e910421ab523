-------------------------- MODULE MCMultiSourceRead --------------------------
(* Two stores with up to two workers each.                                 *)
EXTENDS MultiSourceRead

CONSTANTS A, B, a1, a2, b1, b2

TwoStores == [w \in Workers |-> IF w \in {a1, a2} THEN A ELSE B]
==============================================================================
