--------------------------- MODULE TelegramDownload ---------------------------
(***************************************************************************)
(* Reading a document from a Telegram store: download_file of backends/    *)
(* telegram/store.py, with the block cache of utils/chunk_cache.py, the    *)
(* split download over utils/prefetching_chain.py and the clients' streams *)
(* (impl/telethon.py, impl/pyrogram.py).                                   *)
(*                                                                         *)
(* A range is served from cached blocks where they are there; the blocks   *)
(* between them are fetched in runs.  A long run is cut into pieces that   *)
(* are pumped into queues side by side and read in order.  The blocks      *)
(* after a range are fetched ahead.  Meanwhile the document of the message *)
(* may be replaced or deleted: the client forgets what it has cached and   *)
(* then asks Telegram.                                                     *)
(*                                                                         *)
(* A byte is its version of the document and its position.  One message is *)
(* enough: cache keys of different messages never meet.  A run too short   *)
(* to be split is read as a single piece.                                  *)
(* History: raced says that the document changed while old bytes, or an    *)
(* old size, were on their way to a cache.                                 *)
(***************************************************************************)
EXTENDS Integers, Sequences, FiniteSets, SequencesExt

CONSTANTS
    SizeOf,       \* size of every version, numbered from 1; version 0 is gone
    BlockSize,    \* chunk_cache_block_bytes
    PieceSize,    \* download_piece_size_bytes
    Threshold,    \* parallel_download_threshold_bytes
    RequestSize,  \* DOWNLOAD_REQUEST_SIZE, GET_FILE_CHUNK_SIZE
    InFlight,     \* download_pieces_in_flight
    QueueDepth,
    Ahead,        \* chunk_cache_readahead
    MaxAhead,     \* MAX_READAHEAD_TASKS
    Readers,
    Scenarios     \* the budget of the cache, the ranges asked for as <<begin,
                  \* end>>, the numbers of requests and replacements, and faults

FaultKinds == {"expire", "break", "abandon", "refuse"}

ASSUME TelegramDownloadAssumption ==
    /\ {BlockSize, PieceSize, RequestSize, InFlight, QueueDepth} \subseteq Nat \ {0}
    /\ {Threshold, Ahead, MaxAhead} \subseteq Nat
    /\ \A s \in Scenarios : s.faults \subseteq FaultKinds /\ s.readers \subseteq Readers
                           /\ \A q \in s.ranges : q[1] \in Nat /\ q[2] >= -1

VARIABLES
    doc,      \* the version Telegram has
    known,    \* the version the message cache has, 0 for none
    blocks,   \* ChunkCache._blocks, least recently used first
    held,     \* ChunkCache._size
    rd,       \* the readers
    ahead,    \* the read-ahead tasks
    edit,     \* the version that is replacing the document, -1 for none
    scene,
    raced

vars == <<doc, known, blocks, held, rd, ahead, edit, scene, raced>>

Idle == [pc |-> "idle"]
Least(a, b) == IF a <= b THEN a ELSE b
Most(a, b)  == IF a >= b THEN a ELSE b

-----------------------------------------------------------------------------
(* The block cache.                                                        *)

Enabled == scene.budget > 0
Block(bs, i) == SelectSeq(bs, LAMBDA b : b.i = i)
Holds(i)  == Block(blocks, i) # <<>>
Others(bs, i) == SelectSeq(bs, LAMBDA b : b.i # i)
RECURSIVE Bytes(_)
Bytes(bs) == IF bs = <<>> THEN 0 ELSE Len(Head(bs).data) + Bytes(Tail(bs))

\* block_bounds and block_length
BlockEnd(i, size) == Least((i + 1) * BlockSize, size) - 1
BlockLength(i, size) == Most(0, BlockEnd(i, size) - i * BlockSize + 1)

\* The number of oldest blocks that go before the budget holds.
Drops(bs, n) == CHOOSE k \in 0..Len(bs) :
    /\ n - Bytes(SubSeq(bs, 1, k)) <= scene.budget
    /\ \A j \in 0..(k - 1) : n - Bytes(SubSeq(bs, 1, j)) > scene.budget

Evicted(bs, n) ==
    LET k == Drops(bs, n) IN [bs |-> SubSeq(bs, k + 1, Len(bs)), n |-> n - Bytes(SubSeq(bs, 1, k))]

\* put: the blocks and their counted size afterwards.
PutBlock(bs, n, b) ==
    IF Len(b.data) = 0 \/ Len(b.data) > scene.budget THEN [bs |-> bs, n |-> n]
    ELSE Evicted(Append(Others(bs, b.i), b), n - Bytes(Block(bs, b.i)) + Len(b.data))

RECURSIVE PutAll(_, _)
PutAll(c, new) == IF new = <<>> THEN c ELSE PutAll(PutBlock(c.bs, c.n, Head(new)), Tail(new))

-----------------------------------------------------------------------------
(* A fetch: the pieces of a range, their queues, and the blocks they give. *)

\* split_download_pieces, only above the threshold
Pieces(from, to) ==
    IF to - from + 1 > Threshold
    THEN [k \in 1..((to - from) \div PieceSize + 1) |->
             <<from + (k - 1) * PieceSize, Least(from + k * PieceSize - 1, to)>>]
    ELSE <<<<from, to>>>>

Fetch(from, to) ==
    [cur |-> 1, buf |-> <<>>,
     seg |-> [k \in 1..Len(Pieces(from, to)) |->
        [off |-> Pieces(from, to)[k][1], to |-> Pieces(from, to)[k][2],
         q |-> <<>>, v |-> 0, fresh |-> FALSE, st |-> "run"]]]
NoFetch == [cur |-> 0]

\* start_window
Started(f, k) == k <= Least(Len(f.seg), f.cur - 1 + InFlight)

Chunk(v, a, b) == [end |-> "no", bytes |-> [k \in 1..(b - a + 1) |-> <<v, a + k - 1>>]]
End(why)       == [end |-> why, bytes |-> <<>>]

\* One item for the queue of a piece: a chunk up to the next boundary, cut to
\* the range, or the end; a document that stops early is an error.
NextItem(s) ==
    LET stop == Least(s.to, (s.off \div RequestSize + 1) * RequestSize - 1)
    IN  IF s.off > s.to THEN End("ok")
        ELSE IF s.v = 0 \/ s.off >= SizeOf[s.v] THEN End("error")
        ELSE Chunk(s.v, s.off, Least(stop, SizeOf[s.v] - 1))

\* Variant: an error ends the task without a word in the queue.
Pumped_Silent(s, item) ==
    [s EXCEPT !.q = IF item.end = "error" THEN @ ELSE Append(@, item), !.off = @ + Len(item.bytes),
              !.st = IF item.end = "no" THEN @ ELSE "over"]

\* _pump: errors travel through the queue.
Pumped(s, item) ==
    [s EXCEPT !.q = Append(@, item), !.off = @ + Len(item.bytes),
              !.st = IF item.end = "no" THEN @ ELSE "over"]

\* Can piece k of the fetch f produce?
Pumps(f, k) ==
    Started(f, k) /\ f.seg[k].st = "run" /\ Len(f.seg[k].q) < QueueDepth

\* _document_for: the piece starts with the cached message, or a new one.
Resolve(f, k, v) == [f EXCEPT !.seg[k].v = v, !.seg[k].st = IF v = 0 THEN "over" ELSE @,
                              !.seg[k].q = IF v = 0 THEN <<End("error")>> ELSE @]

-----------------------------------------------------------------------------
(* Owners of a fetch: readers and read-ahead tasks.                        *)

Owners == [kind : {"rd"}, id : Readers] \cup [kind : {"ahead"}, id : DOMAIN ahead]
Of(o)  == IF o.kind = "rd" THEN rd[o.id] ELSE ahead[o.id]
Fetching(o) == IF o.kind = "rd" THEN rd[o.id].pc = "read" /\ rd[o.id].f # NoFetch ELSE TRUE

Running(o) == IF Fetching(o) THEN DOMAIN Of(o).f.seg ELSE {}

Own(o, r) ==
    IF o.kind = "rd" THEN rd' = [rd EXCEPT ![o.id] = r] /\ ahead' = ahead
    ELSE ahead' = [ahead EXCEPT ![o.id] = r] /\ rd' = rd

Drop(o) ==
    IF o.kind = "rd" THEN rd' = [rd EXCEPT ![o.id] = [pc |-> "failed"]] /\ ahead' = ahead
    ELSE ahead' = [j \in DOMAIN ahead \ {o.id} |-> ahead[j]] /\ rd' = rd

ResolvePiece(o, k) ==
    /\ Pumps(Of(o).f, k) /\ Of(o).f.seg[k].v = 0
    /\ LET v == IF known # 0 THEN known ELSE doc
       IN  /\ known' = v
           /\ Own(o, [Of(o) EXCEPT !.f = Resolve(@, k, v)])
    /\ UNCHANGED <<doc, blocks, held, edit, scene, raced>>

Pump(o, k) ==
    /\ Pumps(Of(o).f, k) /\ Of(o).f.seg[k].v # 0
    /\ \E item \in {NextItem(Of(o).f.seg[k])} : Own(o, [Of(o) EXCEPT !.f.seg[k] = Pumped(@, item)])
    /\ UNCHANGED <<doc, known, blocks, held, edit, scene, raced>>

\* An expired file reference: the message is read again once, and the stream
\* goes on where it stopped.
Expired(o, k) ==
    /\ "expire" \in scene.faults /\ Pumps(Of(o).f, k) /\ Of(o).f.seg[k].v # 0
    /\ LET s == Of(o).f.seg[k]
       IN  IF s.fresh \/ doc = 0
           THEN Own(o, [Of(o) EXCEPT !.f.seg[k] = Pumped(s, End("error"))]) /\ known' = IF s.fresh THEN known ELSE 0
           ELSE Own(o, [Of(o) EXCEPT !.f.seg[k].v = doc, !.f.seg[k].fresh = TRUE]) /\ known' = doc
    /\ UNCHANGED <<doc, blocks, held, edit, scene, raced>>

\* Any other failure ends the piece.
Breaks(o, k) ==
    /\ "break" \in scene.faults /\ Pumps(Of(o).f, k) /\ Of(o).f.seg[k].v # 0
    /\ Own(o, [Of(o) EXCEPT !.f.seg[k] = Pumped(@, End("error"))])
    /\ UNCHANGED <<doc, known, blocks, held, edit, scene, raced>>

\* _fetch_blocks: the whole blocks at the front of the buffer.
Cut(buf, i, last, size) ==
    LET n == Cardinality({j \in i..last : Len(buf) >= BlockEnd(j, size) - i * BlockSize + 1})
    IN  [k \in 1..n |-> [i    |-> i + k - 1,
                         data |-> SubSeq(buf, (k - 1) * BlockSize + 1,
                                         (k - 1) * BlockSize + BlockLength(i + k - 1, size))]]

\* Variant: the end of the range is not applied.
Slice_Open(b, begin, end) == SubSeq(b.data, Most(0, begin - b.i * BlockSize) + 1, Len(b.data))

\* _slice
Slice(b, begin, end) ==
    SubSeq(b.data, Most(0, begin - b.i * BlockSize) + 1, Least(Len(b.data), end - b.i * BlockSize + 1))

RECURSIVE Slices(_, _, _)
Slices(bs, begin, end) ==
    IF bs = <<>> THEN <<>> ELSE Slice(Head(bs), begin, end) \o Slices(Tail(bs), begin, end)

\* What arrives is cut into blocks, which are cached; a reader gets its slices.
TakeBlocks(o, r, f1, item) ==
    \E buf \in {r.f.buf \o item.bytes} :
    \E bs \in {Cut(buf, r.i, r.last, r.size)} :
    \E c \in {PutAll([bs |-> blocks, n |-> held], bs)} :
        /\ blocks' = c.bs /\ held' = c.n
        /\ Own(o, [r EXCEPT !.f = [f1 EXCEPT !.buf = SubSeq(buf, Bytes(bs) + 1, Len(buf))], !.i = @ + Len(bs),
                            !.out = IF o.kind = "rd" THEN @ \o Slices(bs, r.begin, r.end) ELSE @])

\* The consumer takes the next item of the current piece.  An error comes up
\* only here, after the bytes of the pieces before it.
Take(o) ==
    /\ Fetching(o)
    /\ \E r \in {Of(o)} :
        /\ r.f.cur <= Len(r.f.seg) /\ r.f.seg[r.f.cur].q # <<>>
        /\ \E item \in {Head(r.f.seg[r.f.cur].q)}, f1 \in {[r.f EXCEPT !.seg[r.f.cur].q = Tail(@)]} :
            \/ item.end = "error" /\ Drop(o) /\ UNCHANGED <<blocks, held>>
            \/ item.end = "ok" /\ Own(o, [r EXCEPT !.f = [f1 EXCEPT !.cur = @ + 1]]) /\ UNCHANGED <<blocks, held>>
            \/ item.end = "no" /\ ~r.cached
               /\ Own(o, [r EXCEPT !.f = f1, !.out = @ \o item.bytes]) /\ UNCHANGED <<blocks, held>>
            \/ item.end = "no" /\ r.cached /\ TakeBlocks(o, r, f1, item)
    /\ raced' = (raced \/ (edit # -1 /\ blocks' # blocks))
    /\ UNCHANGED <<doc, known, edit, scene>>

\* The pieces are through; a reader goes on with the next block.
FetchDone(o) ==
    LET r == Of(o)
    IN  /\ Fetching(o) /\ r.f.cur > Len(r.f.seg)
        /\ IF o.kind = "ahead" THEN Drop(o)
           ELSE Own(o, [r EXCEPT !.f = NoFetch, !.i = IF r.cached THEN r.last + 1 ELSE r.stop + 1])
        /\ UNCHANGED <<doc, known, blocks, held, edit, scene, raced>>

-----------------------------------------------------------------------------
(* Requests.                                                               *)

\* _schedule_readahead: the next blocks that are not cached, once.
Wanted(after, size) ==
    {i \in (after + 1)..Least(after + Ahead, (size - 1) \div BlockSize) : ~Holds(i)}
Smallest(S) == CHOOSE i \in S : \A j \in S : i <= j
Largest(S)  == CHOOSE i \in S : \A j \in S : i >= j

Schedules(w) ==
    /\ Cardinality(DOMAIN ahead) < MaxAhead /\ w # {}
    /\ <<Smallest(w), Largest(w)>> \notin DOMAIN ahead

AheadTask(w, size) ==
    [f |-> Fetch(Smallest(w) * BlockSize, BlockEnd(Largest(w), size)),
     i |-> Smallest(w), last |-> Largest(w), size |-> size, cached |-> TRUE, out |-> <<>>]

\* _document_size: of the cached message, or of a new one; none is 0.
Seen == IF known # 0 THEN known ELSE doc
DocumentSize == IF Seen = 0 THEN 0 ELSE SizeOf[Seen]

Reading(q, to, cached) ==
    [pc |-> "read", begin |-> q[1], end |-> to, size |-> DocumentSize, cached |-> cached, out |-> <<>>,
     f |-> NoFetch, i |-> q[1] \div BlockSize, last |-> 0, stop |-> to \div BlockSize]

LastByte(q) == IF q[2] < 0 \/ q[2] > DocumentSize - 1 THEN DocumentSize - 1 ELSE q[2]
Cacheable(q) == Enabled /\ q[1] <= LastByte(q)

\* _download_cached, with the blocks after the range read ahead
OpenCached(r, q) ==
    LET w == Wanted(LastByte(q) \div BlockSize, DocumentSize)
    IN  /\ Cacheable(q)
        /\ rd' = [rd EXCEPT ![r] = Reading(q, LastByte(q), TRUE)]
        /\ known' = Seen
        /\ ahead' = IF Schedules(w)
                    THEN [j \in DOMAIN ahead \cup {<<Smallest(w), Largest(w)>>} |->
                             IF j \in DOMAIN ahead THEN ahead[j] ELSE AheadTask(w, DocumentSize)]
                    ELSE ahead

\* _download_uncached: an open end is that of the document.
OpenUncached(r, q) ==
    LET to == IF q[2] < 0 THEN DocumentSize - 1 ELSE q[2]
    IN  /\ ~Cacheable(q)
        /\ rd' = [rd EXCEPT ![r] = IF to < q[1] THEN [pc |-> "failed"]
                                   ELSE [Reading(q, to, FALSE) EXCEPT !.f = Fetch(q[1], to), !.i = 0, !.stop = 0]]
        /\ known' = IF Enabled \/ q[2] < 0 THEN Seen ELSE known
        /\ ahead' = ahead

\* download_file
Open(r, q) ==
    /\ rd[r] = Idle /\ r \in scene.readers /\ scene.calls > 0
    /\ scene' = [scene EXCEPT !.calls = @ - 1]
    /\ OpenCached(r, q) \/ OpenUncached(r, q)
    /\ UNCHANGED <<doc, blocks, held, edit, raced>>

\* The next block from the cache, which makes it the most recent ...
Hit(r) ==
    LET k == rd[r]
    IN  /\ k.pc = "read" /\ k.f = NoFetch /\ k.cached /\ k.i <= k.stop /\ Holds(k.i)
        /\ blocks' = Others(blocks, k.i) \o Block(blocks, k.i)
        /\ rd' = [rd EXCEPT ![r] = [k EXCEPT !.out = @ \o Slices(Block(blocks, k.i), k.begin, k.end), !.i = @ + 1]]
        /\ UNCHANGED <<doc, known, held, ahead, edit, scene, raced>>

\* Everything up to the next cached block.
RunEnd(k) ==
    LET cached == {i \in (k.i + 1)..k.stop : Holds(i)}
    IN  IF cached = {} THEN k.stop ELSE Smallest(cached) - 1

\* ... or a run of blocks that are missing.
Miss(r) ==
    LET k == rd[r]
    IN  /\ k.pc = "read" /\ k.f = NoFetch /\ k.cached /\ k.i <= k.stop /\ ~Holds(k.i)
        /\ rd' = [rd EXCEPT ![r] = [k EXCEPT !.last = RunEnd(k),
                                            !.f = Fetch(k.i * BlockSize, BlockEnd(RunEnd(k), k.size))]]
        /\ UNCHANGED <<doc, known, blocks, held, ahead, edit, scene, raced>>

Done(r) ==
    /\ rd[r].pc = "read" /\ rd[r].f = NoFetch /\ rd[r].i > rd[r].stop
    /\ rd' = [rd EXCEPT ![r] = [@ EXCEPT !.pc = "done"]]
    /\ UNCHANGED <<doc, known, blocks, held, ahead, edit, scene, raced>>

Leave(r) ==
    /\ rd[r].pc \in {"done", "failed"}
    /\ rd' = [rd EXCEPT ![r] = Idle]
    /\ UNCHANGED <<doc, known, blocks, held, ahead, edit, scene, raced>>

\* The client hangs up; the chain cancels its pumps.
Abandon(r) ==
    /\ "abandon" \in scene.faults /\ rd[r].pc = "read"
    /\ rd' = [rd EXCEPT ![r] = Idle]
    /\ UNCHANGED <<doc, known, blocks, held, ahead, edit, scene, raced>>

\* Variant: the blocks stay.
Invalidated_Not == [bs |-> blocks, n |-> held]

Invalidated == [bs |-> <<>>, n |-> 0]

Forget(v) ==
    /\ edit = -1 /\ scene.edits > 0 /\ doc # 0
    /\ scene' = [scene EXCEPT !.edits = @ - 1]
    /\ edit' = v /\ known' = 0
    /\ blocks' = Invalidated.bs /\ held' = Invalidated.n
    /\ UNCHANGED <<doc, rd, ahead, raced>>

\* edit_message_media and delete_messages forget the message first ...
ReplaceBegin(v) == Forget(v)
DeleteBegin == Forget(0)

\* ... and whoever reads in between still sees, and caches, the old document.
ReplaceLands ==
    /\ edit # -1
    /\ doc' = edit /\ edit' = -1
    /\ raced' = (raced \/ known # 0 \/ DOMAIN ahead # {} \/ \E r \in Readers : rd[r] # Idle)
    /\ UNCHANGED <<known, blocks, held, rd, ahead, scene>>

\* A replacement or a delete that fails leaves the document as it was.
ReplaceFails ==
    /\ "refuse" \in scene.faults /\ edit # -1
    /\ edit' = -1
    /\ UNCHANGED <<doc, known, blocks, held, rd, ahead, scene, raced>>

-----------------------------------------------------------------------------
Init ==
    /\ scene \in Scenarios
    /\ doc = 1 /\ known = 0 /\ blocks = <<>> /\ held = 0
    /\ rd = [r \in Readers |-> Idle] /\ ahead = <<>>
    /\ edit = -1 /\ raced = FALSE

Progress(o) ==
    \/ Take(o) \/ FetchDone(o)
    \/ \E k \in Running(o) : ResolvePiece(o, k) \/ Pump(o, k)

Next ==
    \/ \E r \in Readers : \/ \E q \in scene.ranges : Open(r, q)
                          \/ Hit(r) \/ Miss(r) \/ Done(r) \/ Leave(r) \/ Abandon(r)
    \/ \E o \in Owners : Progress(o) \/ \E k \in Running(o) : Expired(o, k) \/ Breaks(o, k)
    \/ \E v \in 2..Len(SizeOf) : ReplaceBegin(v)
    \/ DeleteBegin \/ ReplaceLands \/ ReplaceFails

Spec == Init /\ [][Next]_vars

ReaderSteps(r) == Hit(r) \/ Miss(r) \/ Done(r) \/ Leave(r) \/ Progress([kind |-> "rd", id |-> r])
AheadSteps == \E j \in DOMAIN ahead : Progress([kind |-> "ahead", id |-> j])

\* Clients go on reading, Telegram answers, and the event loop runs.
FairSpec == Spec /\ (\A r \in Readers : WF_vars(ReaderSteps(r))) /\ WF_vars(AheadSteps)

-----------------------------------------------------------------------------
\* Queues, downloads and read-ahead stay within their bounds: the block cache
\* within its budget, with a count of bytes that is what it holds
\* (ChunkCache.put, invalidate); a queue within its depth, a split download
\* within the pieces configured, read-ahead within MAX_READAHEAD_TASKS.
BudgetHolds ==
    /\ held = Bytes(blocks) /\ held <= scene.budget
    /\ Cardinality(DOMAIN ahead) <= MaxAhead
    /\ \A o \in Owners : Fetching(o) =>
          LET f == Of(o).f
          IN  /\ \A k \in DOMAIN f.seg : Len(f.seg[k].q) <= QueueDepth
              /\ Cardinality({k \in DOMAIN f.seg : k >= f.cur /\ f.seg[k].v # 0}) <= InFlight

Whole(data, v, from, to) == data = [k \in 1..(to - from + 1) |-> <<v, from + k - 1>>]

\* A cached block is a whole block of the document as it is, unless the
\* document changed under a read (_fetch_blocks, ChunkCache.invalidate).
BlocksAreWhole ==
    \A n \in DOMAIN blocks :
        \/ raced
        \/ edit # -1
        \/ LET b == blocks[n] IN Whole(b.data, doc, b.i * BlockSize, BlockEnd(b.i, SizeOf[doc]))

\* The cache holds what it should, and no more than it may.
CacheIsSound == BudgetHolds /\ BlocksAreWhole

\* What a reader has been given is the beginning of its range, byte by byte
\* and in order, however cached blocks, runs and pieces were put together;
\* all of the range when the stream ends; and of one version of the document
\* unless that changed meanwhile (_cached_download, prefetching_chain).
RangeDelivered ==
    \A r \in Readers : rd[r].pc \in {"read", "done"} =>
        LET k == rd[r]
        IN  /\ \A n \in DOMAIN k.out : k.out[n][2] = k.begin + n - 1
            /\ Len(k.out) <= k.end - k.begin + 1
            /\ k.pc = "done" => Len(k.out) = k.end - k.begin + 1
            /\ raced \/ \A n \in DOMAIN k.out : k.out[n][1] = doc \/ edit # -1

\* Every download ends, and so does every read-ahead.
DownloadsEnd ==
    /\ \A r \in Readers : rd[r] # Idle ~> rd[r] = Idle
    /\ DOMAIN ahead # {} ~> DOMAIN ahead = {}
=============================================================================
