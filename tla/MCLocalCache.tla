---------------------------- MODULE MCLocalCache ----------------------------
(* Sizes for the model-checking runs of LocalCache: two-byte blocks, so a  *)
(* three-byte version ends in a short block.                               *)
EXTENDS LocalCache, TLC

CONSTANTS a, b, c

SizeTwo       == a :> 3 @@ b :> 2
SizeWithEmpty == a :> 3 @@ b :> 2 @@ c :> 0

FillSymmetry == Permutations(Fills)

\* At most two uploads, fills or reads at a time.
FewTasks ==
    Cardinality({f \in Fills : fill[f] # NoTask}) + Cardinality({w \in Writers : writer[w] # NoTask})
        + Cardinality({r \in Readers : reader[r] # NoTask}) <= 2
=============================================================================
