------------------------------- MODULE MCSftpServer -------------------------------
(***************************************************************************)
(* Small sessions for TLC.                                                 *)
(***************************************************************************)
EXTENDS SftpServer

Letters(s) == [i \in 1 .. Len(s) |-> <<"byte", s[i]>>]
R(o, n) == [off |-> o, len |-> n]
W(o, s) == [off |-> o, data |-> Letters(s)]

\* A version that was there before: encrypted under salt 100, or from before
\* encryption was turned on.
Sealed(s, c) == [bytes |-> Encrypted(Letters(s), [salt |-> 100, chunk |-> c]),
                 plain |-> Letters(s), owner |-> 0]
Bare(s) == [bytes |-> Letters(s), plain |-> Letters(s), owner |-> 0]

Base == [cipher |-> TRUE, chunk |-> 2, exists |-> TRUE, store |-> <<>>,
         readers |-> {}, writers |-> {}, reads |-> {}, writes |-> {}, flags |-> {{}},
         asks |-> 2, end |-> -1, pieces |-> {3}, faults |-> {}, cuts |-> FALSE, lists |-> FALSE,
         listers |-> {}, others |-> {FALSE}, moves |-> FALSE, stops |-> FALSE, fair |-> FALSE]

\* Random access in an encrypted file whose last chunk is short, in one that
\* ends with a full chunk and was written with another chunk size, and in
\* files from before encryption, one of them shorter than the magic.
Seeks == {[Base EXCEPT !.store = <<v>>, !.readers = {11}, !.asks = 3, !.pieces = {1, 4},
                       !.faults = {"desc", "stream", "probe"},
                       !.reads = {R(0, 2), R(1, 3), R(4, 2), R(3, 1), R(6, 1)}] :
            v \in {Sealed(<<1, 2, 3, 4, 5>>, 2), Sealed(<<1, 2, 3, 4, 5, 6>>, 3),
                   Bare(<<1, 2, 3, 4, 5>>), Bare(<<1>>)}}

\* Range requests that end inside the file, in and at the end of a chunk.
Ranges == {[Base EXCEPT !.store = <<v>>, !.readers = {11}, !.asks = 1, !.pieces = {1, 4},
                        !.reads = {R(from, e - from + 1)}, !.end = e] :
             v \in {Sealed(<<1, 2, 3, 4, 5>>, 2), Bare(<<1, 2, 3, 4, 5>>)}, from \in {0, 1}, e \in {2, 3, 4}}

\* Files that are no whole encrypted file: cut in the header, with another
\* header, cut in the nonce or tag of a chunk.
Damaged(bytes) == [bytes |-> bytes, plain |-> <<>>, owner |-> 0]
Whole == Sealed(<<1, 2, 3>>, 2).bytes
Wrecks == {[Base EXCEPT !.store = <<v>>, !.readers = {11}, !.asks = 1, !.reads = {R(0, 1)}] :
             v \in {Damaged(SubSeq(Whole, 1, 2)),
                    Damaged(SubSeq(Whole, 1, 2) \o Letters(<<1, 2>>)),
                    Damaged(SubSeq(Whole, 1, 8))}}

\* The same file read on two handles while a third one writes it anew; the
\* header cache holds one version.
Rewrites == {[Base EXCEPT !.store = <<Bare(<<7, 8, 9>>)>>, !.readers = r, !.writers = {1},
                          !.asks = IF r = {11} THEN 2 ELSE 1, !.pieces = {9},
                          !.reads = {R(1, 2)}, !.writes = {W(0, <<1, 2, 3>>)}] :
               r \in {{11}, {11, 12}}}

\* Writes in any order, with gaps and past each other, and an upload that
\* fails or is cut short.
Spools == {[Base EXCEPT !.writers = {1}, !.cipher = c, !.asks = 3,
                        !.writes = {W(0, <<1, 2>>), W(1, <<3>>), W(3, <<4>>), W(2, <<>>)},
                        !.pieces = {2, 5}, !.cuts = TRUE, !.faults = {"upload"}] : c \in BOOLEAN}

\* Two handles that create the file or replace it, and the end of the session.
Rivals == {[Base EXCEPT !.writers = {1, 2}, !.exists = e, !.asks = 1,
                        !.flags = {{"creat"}, {"creat", "excl"}, {}},
                        !.cipher = FALSE, !.writes = {W(0, <<1>>)},
                        !.cuts = TRUE, !.faults = {"upload"}] : e \in BOOLEAN}

\* A file that is written, moved and listed, or read until the session ends.
Short == [Base EXCEPT !.store = <<Bare(<<7>>)>>, !.writers = {1}, !.asks = 1, !.cipher = FALSE,
                      !.writes = {W(0, <<1>>)}, !.reads = {R(0, 2)}]
Listed == [Short EXCEPT !.lists = TRUE, !.listers = {"l"}]
Listings == {[Listed EXCEPT !.others = {TRUE}, !.moves = TRUE, !.fair = TRUE],
             [Listed EXCEPT !.others = BOOLEAN, !.faults = {"upload"}, !.stops = TRUE, !.fair = TRUE],
             [Listed EXCEPT !.moves = TRUE, !.stops = TRUE],
             [Listed EXCEPT !.listers = {"k", "l"}],
             [Short EXCEPT !.faults = {"upload", "stream", "desc"}, !.readers = {11},
                           !.cuts = TRUE, !.fair = TRUE]}

Cases == Seeks \cup Ranges \cup Wrecks \cup Rewrites \cup Spools \cup Rivals \cup Listings
=============================================================================
