-------------------------- MODULE MCTelegramDownload --------------------------
(***************************************************************************)
(* Instances of TelegramDownload for TLC: a document of 5 bytes, and one   *)
(* of 3 that replaces it, in blocks of 2, pieces of 2 and requests of 3.   *)
(***************************************************************************)
EXTENDS TelegramDownload

Sizes == <<5, 3>>
Scene(budget, readers, ranges, calls, edits, faults) ==
    [budget |-> budget, readers |-> readers, ranges |-> ranges, calls |-> calls, edits |-> edits,
     faults |-> faults]

CONSTANTS r1, r2
Scenes ==
    {Scene(4, {r1}, {<<0, -1>>, <<1, 2>>, <<3, 4>>}, 2, 0, {}),
     Scene(4, {r1}, {<<1, 3>>}, 1, 0, {"break", "abandon"}),
     Scene(4, {r1, r2}, {<<0, 1>>, <<3, 4>>}, 2, 0, {}),
     Scene(4, {r1, r2}, {<<2, 4>>}, 2, 0, {}),
     Scene(4, {r1}, {<<1, 3>>}, 1, 1, {}),
     Scene(4, {r1}, {<<0, 1>>}, 2, 1, {"refuse"}),
     Scene(4, {r1}, {<<2, 4>>}, 1, 1, {"expire"}),
     Scene(0, {r1}, {<<0, -1>>, <<1, 3>>}, 1, 1, {"expire", "break", "abandon"})}
==============================================================================
