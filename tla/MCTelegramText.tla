---------------------------- MODULE MCTelegramText ----------------------------
(***************************************************************************)
(* Instances of TelegramText for TLC: a short message and a long one that *)
(* an earlier process wrote.                                               *)
(***************************************************************************)
EXTENDS TelegramText, TLC

Written == [m \in Ids |-> CASE m = 1 -> Text(1) [] m = 2 -> Marker(3)
                            [] m \in {3, 4} -> Document(2) [] OTHER -> Unknown]
Symmetry == Permutations(Tasks)
==============================================================================
