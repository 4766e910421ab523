---------------------------- MODULE MCDiscordStore ----------------------------
(***************************************************************************)
(* Instances of DiscordStore for TLC: a channel of texts (one long, one of *)
(* a bot that has left), a channel of file parts, and one part that is     *)
(* replaced while it is copied.                                            *)
(***************************************************************************)
EXTENDS DiscordStore

Channel(ms) == [m \in Ids |-> IF m \in DOMAIN ms THEN ms[m] ELSE Blank]

TextScene ==
    [server |-> Channel(<<TextOf(1, 1), TextOf(2, 2), TextOf(1, 0)>>),
     ops |-> {"send", "edit", "get", "delete"}, calls |-> 2, bots |-> Bots,
     texts |-> {2, 3}, targets |-> {1, 2, 3}, sizes |-> {}, gets |-> {{1, 2}},
     sources |-> {}, copies |-> {}]

Size(s, h) == [size |-> s, have |-> h]
EdgeScene ==
    [server |-> Channel(<<DocOf(0, 2, 1), DocOf(0, 1, 2)>>),
     ops |-> {"upload", "copy"}, calls |-> 1, bots |-> {2},
     texts |-> {}, targets |-> {}, sizes |-> {}, gets |-> {},
     sources |-> {Size(0, 0), Size(3, 3), Size(4, 4), Size(4, 3), Size(-1, 4)},
     copies |-> {<<1, 2>>}]
UploadScene  == [EdgeScene EXCEPT !.ops = {"upload"}, !.calls = 2, !.sources = {Size(3, 3)}]
CopyScene    == [EdgeScene EXCEPT !.calls = 2, !.sources = {Size(2, 2)}, !.copies = {<<1, 2>>}]
ReplaceScene ==
    [EdgeScene EXCEPT !.ops = {"replace", "copy", "get", "delete"}, !.targets = {1}, !.sizes = {1},
                      !.copies = {<<1>>}, !.gets = {{1}}, !.calls = 2]

AllScenes == {TextScene, EdgeScene, UploadScene, CopyScene, ReplaceScene}
==============================================================================
