--------------------------- MODULE MCVersionCopies ---------------------------
(***************************************************************************)
(* Two Telegram channels A and B and a smaller-parted Discord channel D,   *)
(* one or two files of three bytes: two parts in A and B, three in D.      *)
(***************************************************************************)
EXTENDS VersionCopies

CONSTANTS A, B, D, f1, f2

None == [write |-> 0, backfill |-> 0, copy |-> 0, remove |-> 0, read |-> 0,
         fault |-> 0, restart |-> 0, hand |-> 0, lose |-> 0]

Config(p, mirrors) == [primary |-> p, group |-> mirrors]

Base == [start |-> Config(A, <<B, D>>), configs |-> {Config(A, <<B, D>>)},
         limit |-> (A :> 2 @@ B :> 2 @@ D :> 1), blob |-> 1,
         mode |-> "auto", strict |-> TRUE, inline |-> TRUE, stage |-> FALSE,
         files |-> {f1}, ranges |-> {<<0, -1>>, <<1, 1>>, <<2, 7>>},
         byhand |-> {"doc"}, left |-> None]

\* strict writes, interrupted or failing anywhere
Strict == [Base EXCEPT !.left = [None EXCEPT !.write = 2, !.fault = 1, !.restart = 1]]

\* mirrors filled in the background, then either of them promoted
Promoted == [Base EXCEPT !.strict = FALSE, !.inline = FALSE, !.stage = TRUE,
               !.configs = {Config(D, <<A, B>>), Config(B, <<A, D>>)},
               !.left = [None EXCEPT !.write = 2, !.backfill = 2, !.restart = 1, !.read = 1]]

\* a promotion there and back, with a write on each side
Back == [Base EXCEPT !.start = Config(A, <<D>>), !.strict = FALSE,
               !.configs = {Config(D, <<A>>), Config(A, <<D>>)},
               !.left = [None EXCEPT !.write = 3, !.backfill = 1, !.restart = 2]]

\* parts and descriptors deleted by hand, a mirror lost, reads meanwhile
Holes == [Base EXCEPT !.strict = FALSE, !.byhand = {"doc", "text"}, !.ranges = {<<0, -1>>},
               !.left = [None EXCEPT !.write = 1, !.backfill = 1, !.read = 1, !.hand = 2]]

Losses == [Base EXCEPT !.configs = {Config(B, <<D>>), Config(D, <<B>>)}, !.mode = "reupload",
               !.left = [None EXCEPT !.write = 1, !.backfill = 1, !.read = 1, !.lose = 1, !.restart = 1]]

\* two files, a copy and a removal
Pair == [Base EXCEPT !.start = Config(A, <<D>>), !.configs = {Config(D, <<A>>)},
               !.left = [None EXCEPT !.write = 2, !.copy = 1, !.remove = 1, !.fault = 1]]

PairPromoted == [Base EXCEPT !.files = {f1, f2}, !.start = Config(A, <<D>>), !.configs = {Config(D, <<A>>)},
               !.left = [None EXCEPT !.write = 3, !.remove = 1, !.restart = 1]]

\* a copy after a promotion, of versions the new primary has or has not
CopyPromoted == [Base EXCEPT !.start = Config(A, <<B>>), !.configs = {Config(B, <<A>>)}, !.strict = FALSE,
               !.inline = FALSE, !.ranges = {<<0, -1>>},
               !.left = [None EXCEPT !.write = 2, !.backfill = 1, !.copy = 1, !.restart = 1, !.read = 1]]

\* a copy of a file whose parts were deleted, a removal with a store lost
Gaps == [Base EXCEPT !.start = Config(A, <<D>>), !.strict = FALSE,
               !.left = [None EXCEPT !.write = 1, !.copy = 1, !.remove = 1, !.hand = 1, !.lose = 1]]

\* a mirror promoted that the version never reached, with and without the old primary
Stranded == [Base EXCEPT !.strict = FALSE, !.configs = {Config(D, <<B>>), Config(D, <<A, B>>)},
               !.left = [None EXCEPT !.write = 1, !.backfill = 1, !.fault = 2, !.restart = 1]]

\* the modes that insist, a blob Discord cannot hold
Forward == [Base EXCEPT !.mode = "forward", !.strict = FALSE,
               !.left = [None EXCEPT !.write = 1, !.backfill = 1, !.fault = 1]]

Reupload == [Base EXCEPT !.mode = "reupload", !.strict = FALSE, !.blob = 2,
               !.left = [None EXCEPT !.write = 1, !.backfill = 1, !.read = 1]]

Scenes == {Strict, Promoted, Back, Holes, Losses, Pair, PairPromoted, CopyPromoted, Gaps, Stranded, Forward, Reupload}
=============================================================================
