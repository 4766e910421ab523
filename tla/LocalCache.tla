----------------------------- MODULE LocalCache -----------------------------
(***************************************************************************)
(* The local disk cache (tgdcfs/core/local_cache.py): staged uploads,      *)
(* block-wise read-cache fills, reads, pins, eviction, the background      *)
(* sweep and the reload after a crash.                                     *)
(*                                                                         *)
(* The cache object lives on one event loop, so every stretch of code      *)
(* between two awaits is one atomic step here.  Disk I/O runs in worker    *)
(* threads (asyncio.to_thread): the thread's write, and the continuation   *)
(* on the loop that follows it, are separate steps, and anything may       *)
(* happen between them.                                                    *)
(*                                                                         *)
(* A version's content is abstracted to which of its blocks are really in  *)
(* the data file.  An entry object is identified by the pair (version id,  *)
(* still registered): a task that started on an entry keeps own = TRUE     *)
(* until that object leaves _entries, which is what the code tests with    *)
(* "self._entries.get(id) is entry".                                       *)
(***************************************************************************)
EXTENDS Naturals, FiniteSets

CONSTANTS
    Versions,      \* version ids
    Size,          \* [Versions -> Nat]: the bytes of each version
    BlockSize,     \* config block_bytes
    MaxSize,       \* config max_size_bytes, 0 = unlimited
    TargetSize,    \* config target_bytes, where a sweep evicts down to
    MaxFiles,      \* config max_files, 0 = unlimited
    MaxFileSize,   \* config max_file_size_bytes, 0 = unlimited
    MinFree,       \* is min_free configured (the free disk is arbitrary)
    MaxAge,        \* is max_age configured (the age of an entry is arbitrary)
    KeepForReads,  \* config keep_for_reads
    WriteAck,      \* config write_ack: "primary" or "cache"
    Writers,       \* slots for StagingWriter objects alive at a time
    Fills,         \* slots for write_blocks calls alive at a time
    Readers,       \* slots for LocalCache.read streams alive at a time
    Faults         \* disk operations that may fail, a subset of FaultKinds

FaultKinds == {"write", "read", "map", "index", "create", "unlink"}

ASSUME CacheAssumption ==
    /\ IsFiniteSet(Versions) /\ IsFiniteSet(Fills)
    /\ Size \in [Versions -> Nat]
    /\ BlockSize \in Nat \ {0}
    /\ MaxSize \in Nat /\ TargetSize \in Nat
    /\ MaxFiles \in Nat /\ MaxFileSize \in Nat
    /\ MinFree \in BOOLEAN /\ MaxAge \in BOOLEAN /\ KeepForReads \in BOOLEAN
    /\ WriteAck \in {"primary", "cache"}
    /\ Faults \subseteq FaultKinds

VARIABLES
    entries,  \* the keys of LocalCache._entries
    present,  \* CacheEntry.present: the blocks an entry vouches for
    pins,     \* CacheEntry.pins
    writing,  \* CacheEntry.writing
    older,    \* the order of CacheEntry.last_access: <<u, v>>, u before v
    files,    \* versions whose <id>.bin and <id>.map exist
    data,     \* the blocks whose bytes really are in <id>.bin
    map,      \* the blocks marked in <id>.map
    index,    \* what index.json says of each version
    fill,     \* the write_blocks calls in progress
    writer,   \* the StagingWriter objects in use
    reader,   \* the LocalCache.read streams in progress
    fate      \* where the bytes of a version stand in the file system

disk  == <<files, data, map, index>>
tasks == <<fill, writer, reader>>
vars  == <<entries, present, pins, writing, older, disk, tasks, fate>>

-----------------------------------------------------------------------------
(* Sizes and blocks.                                                       *)

Bytes(v)   == 0 .. Size[v] - 1
BlockOf(i) == i \div BlockSize
Blocks(v)  == {BlockOf(i) : i \in Bytes(v)}
BlockBytes(v, b) == {i \in Bytes(v) : BlockOf(i) = b}

\* The blocks a sequential writer at offset o has filled completely: every
\* block below it, and the short last one once the offset reaches the size.
Whole(v, o) == {b \in Blocks(v) : \A i \in BlockBytes(v, b) : i < o}

-----------------------------------------------------------------------------
(* Tasks.  own: the entry object the task works on is still registered.    *)

NoTask == [st |-> "idle"]

FillTask == [st : {"begun", "written", "failed", "leaking", "leaked"},
             v : Versions, b : Nat, claim : SUBSET Nat, own : BOOLEAN]

WriterTask == [st : {"open", "written", "closing", "failing", "aborting"},
               v : Versions, role : {"save", "stage", "fill"},
               off : Nat, fd : BOOLEAN, own : BOOLEAN]

ReaderTask == [st : {"reading", "zeros", "error"},
               v : Versions, todo : SUBSET Nat, own : BOOLEAN]

\* The claims of the fills on the registered entry v: CacheEntry.inflight.
Holders(v) == {f \in Fills : fill[f] # NoTask /\ fill[f].own
                                /\ fill[f].v = v /\ fill[f].claim # {}}

-----------------------------------------------------------------------------
(* The budget.                                                             *)

PresentBytes(v) == {i \in Bytes(v) : BlockOf(i) \in present[v]}
ChargedBytes(v) == IF writing[v] THEN Bytes(v) ELSE PresentBytes(v)

Charged(S) == UNION {{v} \X ChargedBytes(v) : v \in S}
Claimed(S) == UNION {{f} \X fill[f].claim :
                       f \in UNION {Holders(v) : v \in {u \in S : ~writing[u]}}}

\* used_bytes over the entries S: a staged entry counts its whole size, any
\* other the blocks it holds plus the bytes its fills have claimed.
Used(S) == Cardinality(Charged(S)) + Cardinality(Claimed(S))

\* Variant: pins are ignored.
EvictableWith_Pinned(p) == {v \in entries : ~writing[v] /\ Holders(v) = {}}

\* CacheEntry.evictable, with the pin counts given.
EvictableWith(p) == {v \in entries : p[v] = 0 /\ ~writing[v] /\ Holders(v) = {}}

\* What an eviction run can have popped off its snapshot of candidates C:
\* the least recently read ones first.
Oldest(E, C) == E \subseteq C /\ \A e \in E, c \in C : <<c, e>> \in older => c \in E

FitsBytes(E, size) == MaxSize # 0 => Used(entries \ E) + size <= MaxSize

FitsFiles(E, new)  == (new /\ MaxFiles # 0) => Cardinality(entries \ E) + 1 <= MaxFiles
FitsBudget(E, size, new) == FitsBytes(E, size) /\ FitsFiles(E, new)

\* _make_room returned None after evicting E: it stops at the first prefix
\* that fits; the free disk it looks at may make it go on.
MakeRoom(E, size, new, keep) ==
    LET C == EvictableWith(pins) \ keep
    IN  /\ Oldest(E, C)
        /\ FitsBudget(E, size, new)
        /\ ~MinFree => \A D \in SUBSET E :
                          (D # E /\ Oldest(D, C)) => ~FitsBudget(D, size, new)

\* _make_room gave up: everything it could evict is gone and stays gone.
NoRoom(E, size, new, keep) ==
    /\ E = EvictableWith(pins) \ keep
    /\ MinFree \/ ~FitsBudget(E, size, new)

-----------------------------------------------------------------------------
(* Effects shared by the operations.                                       *)

Reset(f, D, x) == [v \in Versions |-> IF v \in D THEN x ELSE f[v]]

\* The set of files a round of _unlink really removes.
Unlinks(D) == IF "unlink" \in Faults THEN SUBSET D ELSE {D}

Touched(v) == {p \in older : p[1] # v /\ p[2] # v} \cup ((entries \ {v}) \X {v})

\* Entries D leave _entries (their files are unlinked) and, when N = {v}, a
\* fresh entry for v with new, empty files is registered.
Register(D, N, wr) ==
    \E gone \in Unlinks(D) :
        /\ entries' = (entries \ D) \cup N
        /\ present' = Reset(present, D \cup N, {})
        /\ writing' = Reset(Reset(writing, D, FALSE), N, wr)
        /\ older'   = {p \in older : p[1] \notin D \cup N /\ p[2] \notin D \cup N}
                        \cup ((entries \ (D \cup N)) \X N)
        /\ files'   = (files \ gone) \cup N
        /\ data'    = Reset(data, gone \cup N, {})
        /\ map'     = Reset(map, gone \cup N, {})

Drop(D) == Register(D, {}, FALSE)

\* Tasks on an entry that leaves _entries now hold an unregistered object;
\* the claim of a cancelled fill goes with the object.
Orphan(t, D) ==
    IF t = NoTask \/ t.v \notin D THEN t
    ELSE IF t.st = "leaked" THEN NoTask
    ELSE [t EXCEPT !.own = FALSE]

Detach(D, fs, ws, rs) ==
    /\ fill'   = [f \in Fills |-> Orphan(fs[f], D)]
    /\ writer' = [w \in Writers |-> Orphan(ws[w], D)]
    /\ reader' = [r \in Readers |-> Orphan(rs[r], D)]

Snapshot == [v \in Versions |->
               IF v \notin entries THEN "absent"
               ELSE IF writing[v] THEN "writing"
               ELSE IF pins[v] > 0 THEN "pinned" ELSE "free"]

\* _save_index writes a temporary file and renames it; an OSError is logged
\* and swallowed, which leaves the previous index in place.
SaveIndex == \/ index' = Snapshot'
             \/ "index" \in Faults /\ index' = index

SaveIndexIf(c) == IF c THEN SaveIndex ELSE UNCHANGED index

\* remove(version_id): by id, whatever object is registered under it.
Remove(v, fs, ws) ==
    LET D == {v} \cap entries
    IN  /\ Drop(D)
        /\ pins' = Reset(pins, D, 0)
        /\ Detach(D, fs, ws, reader)
        /\ SaveIndexIf(D # {})

-----------------------------------------------------------------------------
(* Staging: open_staging with the pin its callers take in the same step,   *)
(* then StagingWriter.write / close / abort.                               *)
(*   role "save":  StoreFileContentRepository.save, a write-through upload *)
(*   role "stage": StoreFileContentRepository.stage, a write-back upload   *)
(*   role "fill":  VersionCache.filler, a mirror's download                *)

MayStage(v, role) ==
    /\ v \notin entries
    /\ CASE role = "fill"  -> fate[v] = "stored" /\ KeepForReads /\ Size[v] > 0
         [] role = "save"  -> fate[v] = "new" /\ WriteAck = "primary"
         [] role = "stage" -> fate[v] = "new" /\ WriteAck = "cache"
    /\ MaxFileSize = 0 \/ Size[v] <= MaxFileSize

OpenStaging(w, v, role, E) ==
    /\ writer[w] = NoTask
    /\ MayStage(v, role)
    /\ MakeRoom(E, Size[v], TRUE, {})
    /\ Register(E, {v}, TRUE)
    /\ pins' = Reset(Reset(pins, E, 0), {v}, 1)
    /\ Detach(E, fill,
              [writer EXCEPT ![w] = [st |-> "open", v |-> v, role |-> role,
                                     off |-> 0, fd |-> FALSE, own |-> TRUE]],
              reader)
    /\ SaveIndex
    /\ fate' = IF role = "fill" THEN fate ELSE [fate EXCEPT ![v] = "staging"]

\* open_staging or reserve returned None: no room for the bytes (or for one
\* more file), or the files could not be created.  What was evicted for the
\* entry is gone.
Refused(v, size, E) ==
    /\ \/ NoRoom(E, size, TRUE, {})
       \/ "create" \in Faults /\ MakeRoom(E, size, TRUE, {})
    /\ E # {}
    /\ Drop(E)
    /\ pins' = Reset(pins, E, 0)
    /\ Detach(E, fill, writer, reader)
    /\ SaveIndex
    /\ UNCHANGED fate

RefuseStaging(v, role, E) == MayStage(v, role) /\ Refused(v, Size[v], E)

\* The thread of StagingWriter.write: the file is opened on the first write
\* and kept open, so a writer whose entry was dropped afterwards writes into
\* an unlinked file, or into the file under the path if unlinking it failed.
WriterPwrite(w, n) ==
    LET t == writer[w]
        off == t.off + n
        reach == IF ~t.fd THEN {t.v \in files}
                 ELSE {t.own} \cup (IF "unlink" \in Faults /\ ~t.own
                                    THEN {t.v \in files} ELSE {})
    IN  /\ t # NoTask
        /\ t.st = "open"
        /\ off <= Size[t.v]
        /\ t.fd \/ t.v \in files
        /\ writer' = [writer EXCEPT ![w].st = "written", ![w].off = off, ![w].fd = TRUE]
        /\ \E lands \in reach :
              data' = IF lands THEN [data EXCEPT ![t.v] = @ \cup Whole(t.v, off)] ELSE data
        /\ UNCHANGED <<entries, present, pins, writing, older, files, map, index,
                       fill, reader, fate>>

\* The thread fails: a disk error, or the file is gone before it was opened.
WriterError(w) ==
    LET t == writer[w]
    IN  /\ t # NoTask
        /\ t.st = "open"
        /\ t.off < Size[t.v]
        /\ "write" \in Faults \/ (~t.fd /\ t.v \notin files)
        /\ writer' = [writer EXCEPT ![w].st = "failing"]
        /\ UNCHANGED <<entries, present, pins, writing, older, disk, fill, reader, fate>>

\* Variant: the entry is looked up by id, not by identity.
MarkPresent_ById(t, bs) ==
    IF t.v \in entries
    THEN /\ present' = [present EXCEPT ![t.v] = @ \cup bs]
         /\ map' = [map EXCEPT ![t.v] = @ \cup bs]
    ELSE UNCHANGED <<present, map>>

\* _mark_present: ignored for an unregistered entry; the map file may fail.
MarkPresent(t, bs) ==
    IF t.own
    THEN /\ present' = [present EXCEPT ![t.v] = @ \cup bs]
         /\ \/ map' = [map EXCEPT ![t.v] = @ \cup (bs \ present[t.v])]
            \/ "map" \in Faults /\ map' = map
    ELSE UNCHANGED <<present, map>>

\* The continuation of StagingWriter.write, up to the close of a full file.
WriterMark(w) ==
    LET t == writer[w]
    IN  /\ t # NoTask
        /\ t.st = "written"
        /\ MarkPresent(t, Whole(t.v, t.off))
        /\ writer' = [writer EXCEPT ![w].st = IF t.off >= Size[t.v] THEN "closing"
                                              ELSE "open"]
        /\ UNCHANGED <<entries, pins, writing, older, files, data, index, fill,
                       reader, fate>>

\* What an upload that got all its bytes leaves behind.
Uploaded(t) ==
    CASE t.role = "fill"  -> fate
      [] t.role = "save"  -> [fate EXCEPT ![t.v] = "stored"]
      [] t.role = "stage" -> [fate EXCEPT ![t.v] = "pending"]

\* StagingWriter._finish, after the file was closed.
WriterFinish(w) ==
    LET t == writer[w]
    IN  /\ t # NoTask
        /\ t.st = "closing"
        /\ writing' = IF t.own THEN [writing EXCEPT ![t.v] = FALSE] ELSE writing
        /\ writer' = [writer EXCEPT ![w] = NoTask]
        /\ fate' = Uploaded(t)
        /\ UNCHANGED <<entries, present, pins, older, files, data, map, fill, reader>>
        /\ SaveIndex

\* StagingWriter.close on a writer that never wrote: nothing to close, so
\* _finish does not run.
WriterCloseEmpty(w) ==
    LET t == writer[w]
    IN  /\ t # NoTask
        /\ t.st = "open"
        /\ Size[t.v] = 0
        /\ writer' = [writer EXCEPT ![w] = NoTask]
        /\ fate' = Uploaded(t)
        /\ UNCHANGED <<entries, present, pins, writing, older, disk, fill, reader>>

\* The source ended early or the upload failed: close() or abort().
WriterGiveUp(w) ==
    LET t == writer[w]
    IN  /\ t # NoTask
        /\ t.st = "open"
        /\ Size[t.v] > 0
        /\ writer' = [writer EXCEPT ![w].st = "aborting"]
        /\ UNCHANGED <<entries, present, pins, writing, older, disk, fill, reader, fate>>

\* Variant: the failure of a write does not lead to abort().
WriterAbort_NotOnError(w) ==
    LET t == writer[w]
    IN  /\ t # NoTask
        /\ t.st = "aborting"
        /\ Remove(t.v, fill, [writer EXCEPT ![w] = NoTask])
        /\ fate' = IF t.role = "fill" THEN fate ELSE [fate EXCEPT ![t.v] = "gone"]

\* The end of StagingWriter.abort.  A write-through upload whose cache copy
\* hit a disk error goes on without it; a write-back one fails.
WriterAbort(w) ==
    LET t == writer[w]
    IN  /\ t # NoTask
        /\ t.st \in {"failing", "aborting"}
        /\ Remove(t.v, fill, [writer EXCEPT ![w] = NoTask])
        /\ fate' = CASE t.role = "fill" -> fate
                     [] t.role = "save" /\ t.st = "failing" -> [fate EXCEPT ![t.v] = "stored"]
                     [] OTHER -> [fate EXCEPT ![t.v] = "gone"]

-----------------------------------------------------------------------------
(* Read-cache fills: reserve, then write_blocks for one block at a time,   *)
(* as _stream_through_cache and _fetch_run call them.                      *)

Reserve(v, E) ==
    /\ v \notin entries
    /\ fate[v] = "stored"
    /\ KeepForReads
    /\ MakeRoom(E, 0, TRUE, {})
    /\ Register(E, {v}, FALSE)
    /\ pins' = Reset(pins, E \cup {v}, 0)
    /\ Detach(E, fill, writer, reader)
    /\ SaveIndex
    /\ UNCHANGED fate

RefuseReserve(v, E) ==
    /\ v \notin entries
    /\ fate[v] = "stored"
    /\ KeepForReads
    /\ Refused(v, 0, E)

\* Variant: nothing is claimed before the write.
Added_Unclaimed(v, b) == {}

\* The bytes of block b that are not charged yet.
Added(v, b) == IF b \in present[v] THEN {} ELSE BlockBytes(v, b)

MayFill(v, b) ==
    /\ v \in entries /\ ~writing[v]
    /\ fate[v] = "stored"
    /\ b \in Blocks(v)

\* write_blocks up to its await: room is made and claimed first.
FillBegin(f, v, b, E) ==
    /\ fill[f] = NoTask
    /\ MayFill(v, b)
    /\ IF Added(v, b) = {} THEN E = {}
       ELSE MakeRoom(E, Cardinality(Added(v, b)), FALSE, {v})
    /\ Drop(E)
    /\ pins' = Reset(pins, E, 0)
    /\ Detach(E,
              [fill EXCEPT ![f] = [st |-> "begun", v |-> v, b |-> b,
                                   claim |-> Added(v, b), own |-> TRUE]],
              writer, reader)
    /\ SaveIndexIf(E # {})
    /\ UNCHANGED fate

RefuseFill(v, b, E) ==
    /\ MayFill(v, b)
    /\ Added(v, b) # {}
    /\ NoRoom(E, Cardinality(Added(v, b)), FALSE, {v})
    /\ E # {}
    /\ Drop(E)
    /\ pins' = Reset(pins, E, 0)
    /\ Detach(E, fill, writer, reader)
    /\ SaveIndex
    /\ UNCHANGED fate

\* A cancelled call is over; what it claimed stays claimed on its entry.
Leak(t) == IF t.own /\ t.claim # {} THEN [t EXCEPT !.st = "leaked"] ELSE NoTask

\* The thread of write_blocks: it opens the path anew, whatever file is there.
FillPwrite(f) ==
    LET t == fill[f]
    IN  /\ t # NoTask
        /\ t.st \in {"begun", "leaking"}
        /\ t.v \in files
        /\ data' = [data EXCEPT ![t.v] = @ \cup {t.b}]
        /\ fill' = [fill EXCEPT ![f] =
                      IF t.st = "begun" THEN [t EXCEPT !.st = "written"]
                      ELSE Leak(t)]
        /\ UNCHANGED <<entries, present, pins, writing, older, files, map, index,
                       writer, reader, fate>>

FillError(f) ==
    LET t == fill[f]
    IN  /\ t # NoTask
        /\ t.st \in {"begun", "leaking"}
        /\ "write" \in Faults \/ t.v \notin files
        /\ fill' = [fill EXCEPT ![f] =
                      IF t.st = "begun" THEN [t EXCEPT !.st = "failed"]
                      ELSE Leak(t)]
        /\ UNCHANGED <<entries, present, pins, writing, older, disk, writer, reader, fate>>

\* The continuation of write_blocks: the claim turns into a present block.
FillEnd(f) ==
    LET t == fill[f]
    IN  /\ t # NoTask
        /\ t.st = "written"
        /\ MarkPresent(t, {t.b})
        /\ older' = IF t.own THEN Touched(t.v) ELSE older
        /\ fill' = [fill EXCEPT ![f] = NoTask]
        /\ UNCHANGED <<entries, pins, writing, files, data, index, writer, reader, fate>>

\* The except OSError branch of write_blocks.
FillFail(f) ==
    LET t == fill[f]
    IN  /\ t # NoTask
        /\ t.st = "failed"
        /\ Remove(t.v, [fill EXCEPT ![f] = NoTask], writer)
        /\ UNCHANGED fate

\* The client goes away while write_blocks waits for its thread: the
\* CancelledError passes both "inflight -= added" lines.
FillCancel(f) ==
    LET t == fill[f]
    IN  /\ t # NoTask
        /\ t.st \in {"begun", "written", "failed"}
        /\ fill' = [fill EXCEPT ![f] =
                      IF t.st = "begun" THEN [t EXCEPT !.st = "leaking"]
                      ELSE Leak(t)]
        /\ UNCHANGED <<entries, present, pins, writing, older, disk, writer, reader, fate>>

-----------------------------------------------------------------------------
(* LocalCache.read: the range is checked once, then one pread per chunk,   *)
(* each opening the path anew.                                             *)

\* Variant: the range is not checked against the blocks the entry has.
ReadBegin_Unchecked(r, v, bs) ==
    /\ reader[r] = NoTask
    /\ v \in entries
    /\ bs # {}
    /\ fate[v] = "stored"
    /\ reader' = [reader EXCEPT ![r] = [st |-> "reading", v |-> v, todo |-> bs,
                                        own |-> TRUE]]
    /\ older' = Touched(v)
    /\ UNCHANGED <<entries, present, pins, writing, disk, fill, writer, fate>>

ReadBegin(r, v, bs) ==
    /\ reader[r] = NoTask
    /\ v \in entries
    /\ bs # {} /\ bs \subseteq present[v]
    /\ \A a, c \in bs : a .. c \subseteq bs
    /\ \/ fate[v] = "stored"
       \/ fate[v] = "pending" /\ ~writing[v] /\ Blocks(v) \subseteq present[v]
    /\ reader' = [reader EXCEPT ![r] = [st |-> "reading", v |-> v, todo |-> bs,
                                        own |-> TRUE]]
    /\ older' = Touched(v)
    /\ UNCHANGED <<entries, present, pins, writing, disk, fill, writer, fate>>

\* One chunk, modelled as one block, the lowest still to come; zeros where
\* the sparse file has a hole.
ReadChunk(r, b) ==
    LET t == reader[r]
    IN  /\ t # NoTask
        /\ t.st = "reading"
        /\ b \in t.todo /\ \A c \in t.todo : b <= c
        /\ t.v \in files
        /\ reader' = [reader EXCEPT ![r] =
                        IF b \notin data[t.v] THEN [t EXCEPT !.st = "zeros"]
                        ELSE IF t.todo = {b} THEN NoTask
                        ELSE [t EXCEPT !.todo = @ \ {b}]]
        /\ UNCHANGED <<entries, present, pins, writing, older, disk, fill, writer, fate>>

\* The path is gone or the disk fails: the error leaves the stream.
ReadError(r) ==
    LET t == reader[r]
    IN  /\ t # NoTask
        /\ t.st = "reading"
        /\ "read" \in Faults \/ t.v \notin files
        /\ reader' = [reader EXCEPT ![r] = [t EXCEPT !.st = "error"]]
        /\ UNCHANGED <<entries, present, pins, writing, older, disk, fill, writer, fate>>

\* The stream is closed, by its consumer or by its error.
ReadStop(r) ==
    /\ reader[r] # NoTask
    /\ reader' = [reader EXCEPT ![r] = NoTask]
    /\ UNCHANGED <<entries, present, pins, writing, older, disk, fill, writer, fate>>

-----------------------------------------------------------------------------
(* Release, deletion, eviction on request and the sweep.                   *)

\* Variant: the index is not saved after the pin is dropped.
Release_Unsaved(v) ==
    /\ v \in entries
    /\ fate[v] = "stored"
    /\ LET D == IF KeepForReads THEN {} ELSE {v}
       IN  Drop(D) /\ Detach(D, fill, writer, reader)
    /\ pins' = Reset(pins, {v}, 0)
    /\ UNCHANGED <<index, fate>>

\* release(): every mirror has the version.
Release(v) ==
    /\ v \in entries
    /\ fate[v] = "stored"
    /\ LET D == IF KeepForReads THEN {} ELSE {v}
       IN  Drop(D) /\ Detach(D, fill, writer, reader)
    /\ pins' = Reset(pins, {v}, 0)
    /\ SaveIndex
    /\ UNCHANGED fate

\* forget(): the version is deleted from its descriptor.
Forget(v) ==
    /\ fate[v] \in {"stored", "pending"}
    /\ Remove(v, fill, writer)
    /\ fate' = [fate EXCEPT ![v] = "gone"]

\* evict_unpinned(): asked for through the manager API.
EvictUnpinned ==
    LET D == EvictableWith(pins)
    IN  /\ D # {}
        /\ Drop(D)
        /\ pins' = Reset(pins, D, 0)
        /\ Detach(D, fill, writer, reader)
        /\ SaveIndex
        /\ UNCHANGED fate

HasTarget == MaxSize # 0 /\ TargetSize < MaxSize

\* The eviction loops of a sweep popped E off the candidates C, S being the
\* entries that were left: down to the target, then as far as the free disk
\* asks for.
SweptTo(E, C, S) ==
    LET done(D) == HasTarget => Used(S \ D) <= TargetSize
    IN  /\ Oldest(E, C)
        /\ done(E) \/ E = C
        /\ ~MinFree => \A D \in SUBSET E : (D # E /\ Oldest(D, C)) => ~done(D)

\* sweep(): stale are the pins a day old, cut the entries unread for max_age.
\* The queue is empty only when no version waits for its distribution.
Sweep(stale, cut, E) ==
    LET unpinned == Reset(pins, stale, 0)
        released == IF KeepForReads THEN {} ELSE stale
        expired  == cut \cap (EvictableWith(unpinned) \ released)
        left     == EvictableWith(unpinned) \ (released \cup expired)
        D        == released \cup expired \cup E
    IN  /\ stale \subseteq {v \in entries : pins[v] > 0 /\ ~writing[v]}
        /\ stale # {} => \A v \in Versions : fate[v] # "pending"
        /\ Oldest(cut, entries) /\ (cut # {} => MaxAge)
        /\ SweptTo(E, left, entries \ (released \cup expired))
        /\ entries' = entries \ D
        /\ present' = Reset(present, D, {})
        /\ writing' = writing
        /\ older'   = {p \in older : p[1] \notin D /\ p[2] \notin D}
        /\ \E gone \in Unlinks(D \cup (files \ entries)) :
              /\ files' = files \ gone
              /\ data'  = Reset(data, gone, {})
              /\ map'   = Reset(map, gone, {})
        /\ pins' = Reset(unpinned, D, 0)
        /\ Detach(D, fill, writer, reader)
        /\ SaveIndex
        /\ UNCHANGED fate

-----------------------------------------------------------------------------
(* The world around the cache.                                             *)

\* An upload the cache took no part in.
UploadUncached(v) ==
    /\ fate[v] = "new"
    /\ fate' = [fate EXCEPT ![v] = "stored"]
    /\ UNCHANGED <<entries, present, pins, writing, older, disk, tasks>>

Complete(v) == v \in entries /\ ~writing[v] /\ Blocks(v) \subseteq present[v]

\* The distribution worker moved a write-back version into the stores, or
\* found that its bytes are lost and deleted the version.
Distribute(v) ==
    /\ fate[v] = "pending"
    /\ fate' = [fate EXCEPT ![v] = IF Complete(v) THEN "stored" ELSE "lost"]
    /\ UNCHANGED <<entries, present, pins, writing, older, disk, tasks>>

\* The process dies and load() rebuilds the cache from the index, the maps
\* and the data files.  An upload in progress fails with the process.  The
\* access times in the index may be behind the last reads.
Restart(order) ==
    LET kept == {v \in Versions : index[v] \in {"pinned", "free"} /\ v \in files}
    IN  /\ entries' = kept
        /\ present' = [v \in Versions |-> IF v \in kept THEN map[v] ELSE {}]
        /\ pins'    = [v \in Versions |->
                         IF v \in kept /\ index[v] = "pinned" THEN 1 ELSE 0]
        /\ writing' = [v \in Versions |-> FALSE]
        /\ older'   = order
        /\ \E gone \in Unlinks(files \ kept) :
              /\ files' = files \ gone
              /\ data'  = Reset(data, gone, {})
              /\ map'   = Reset(map, gone, {})
        /\ fill'   = [f \in Fills |-> NoTask]
        /\ writer' = [w \in Writers |-> NoTask]
        /\ reader' = [r \in Readers |-> NoTask]
        /\ fate'   = [v \in Versions |->
                        IF fate[v] = "staging" THEN "gone" ELSE fate[v]]
        /\ SaveIndex

IsOrder(o, S) ==
    /\ o \subseteq S \X S
    /\ \A u, v \in S : u # v => (<<u, v>> \in o <=> <<v, u>> \notin o)
    /\ \A u \in S : <<u, u>> \notin o
    /\ \A t, u, v \in S : <<t, u>> \in o /\ <<u, v>> \in o => <<t, v>> \in o

-----------------------------------------------------------------------------
Init ==
    /\ entries = {} /\ files = {} /\ older = {}
    /\ present = [v \in Versions |-> {}]
    /\ data    = [v \in Versions |-> {}]
    /\ map     = [v \in Versions |-> {}]
    /\ pins    = [v \in Versions |-> 0]
    /\ writing = [v \in Versions |-> FALSE]
    /\ index   = [v \in Versions |-> "absent"]
    /\ fill    = [f \in Fills |-> NoTask]
    /\ writer  = [w \in Writers |-> NoTask]
    /\ reader  = [r \in Readers |-> NoTask]
    /\ fate    = [v \in Versions |-> "new"]

WriterStep(w) ==
    \/ \E n \in 1 .. Size[writer[w].v] : WriterPwrite(w, n)
    \/ WriterError(w)
    \/ WriterMark(w)
    \/ WriterFinish(w)
    \/ WriterCloseEmpty(w)
    \/ WriterGiveUp(w)
    \/ WriterAbort(w)

FillStep(f) ==
    FillPwrite(f) \/ FillError(f) \/ FillEnd(f) \/ FillFail(f)

Next ==
    \/ \E v \in Versions, E \in SUBSET entries, role \in {"save", "stage", "fill"} :
          \/ \E w \in Writers : OpenStaging(w, v, role, E)
          \/ RefuseStaging(v, role, E)
    \/ \E w \in Writers : writer[w] # NoTask /\ WriterStep(w)
    \/ \E v \in Versions, E \in SUBSET entries : Reserve(v, E) \/ RefuseReserve(v, E)
    \/ \E v \in Versions, E \in SUBSET entries : \E b \in Blocks(v) :
          \/ \E f \in Fills : FillBegin(f, v, b, E)
          \/ RefuseFill(v, b, E)
    \/ \E f \in Fills : FillStep(f) \/ FillCancel(f)
    \/ \E r \in Readers, v \in Versions : \E bs \in SUBSET Blocks(v) : ReadBegin(r, v, bs)
    \/ \E r \in Readers : ReadError(r) \/ ReadStop(r)
    \/ \E r \in Readers : reader[r] # NoTask /\ \E b \in reader[r].todo : ReadChunk(r, b)
    \/ \E v \in Versions : Release(v) \/ Forget(v) \/ UploadUncached(v) \/ Distribute(v)
    \/ EvictUnpinned
    \/ \E stale, cut, E \in SUBSET entries : Sweep(stale, cut, E)
    \/ \E order \in SUBSET (Versions \X Versions) :
          /\ IsOrder(order, {v \in Versions : index[v] \in {"pinned", "free"} /\ v \in files})
          /\ Restart(order)

Spec == Init /\ [][Next]_vars

\* Threads finish, the loop resumes their tasks, and a source that feeds a
\* staging writer delivers, ends or fails.
FairSpec == /\ Spec
            /\ \A w \in Writers : WF_vars(writer[w] # NoTask /\ WriterStep(w))

-----------------------------------------------------------------------------
(* Properties.                                                             *)

Fates == {"new", "staging", "pending", "stored", "gone", "lost"}

\* Every variable has its type: pin counts never go below zero, and the
\* blocks an entry, a map file or a data file can have are naturals.
TypeOK ==
    /\ entries \subseteq Versions /\ files \subseteq Versions
    /\ present \in [Versions -> SUBSET Nat]
    /\ data \in [Versions -> SUBSET Nat] /\ map \in [Versions -> SUBSET Nat]
    /\ pins \in [Versions -> Nat]
    /\ writing \in [Versions -> BOOLEAN]
    /\ older \subseteq Versions \X Versions
    /\ index \in [Versions -> {"absent", "writing", "pinned", "free"}]
    /\ fill \in [Fills -> FillTask \cup {NoTask}]
    /\ writer \in [Writers -> WriterTask \cup {NoTask}]
    /\ reader \in [Readers -> ReaderTask \cup {NoTask}]
    /\ fate \in [Versions -> Fates]

\* local_cache.py, "max_size is a hard ceiling": whatever staging, fills,
\* failures and cancellations overlap, used_bytes() never exceeds it.
BudgetHolds == MaxSize # 0 => Used(entries) <= MaxSize

\* max_files bounds the registered entries.
FilesBounded == MaxFiles # 0 => Cardinality(entries) <= MaxFiles

\* A block the cache vouches for, in memory or in the map file a restart
\* will load, really is in the data file under the version's path, however
\* entries were dropped and recreated while writes were in flight.
TrustedBlocksAreReal ==
    /\ \A v \in entries : v \in files /\ present[v] \subseteq data[v]
    /\ \A v \in files : map[v] \subseteq data[v]

\* A write-back version (acknowledged to the client, in no store yet) stays
\* complete in the cache until it is distributed or deleted: no eviction,
\* sweep, failure of another task or restart takes it away.  Empty versions
\* are excepted, whose entries are never finished.
PendingIsSafe == \A v \in Versions : fate[v] = "pending" /\ Size[v] # 0 => Complete(v)

\* While the entry a read started on stays registered, the read gets the
\* version's own bytes: neither a hole nor a missing file.
LiveReadsAreReal ==
    \A r \in Readers : reader[r] # NoTask /\ reader[r].own => reader[r].st = "reading"

\* Staging ends: an entry that is being written, which nothing may evict,
\* is finished or dropped, unless it is the entry of an empty version.
StagingEnds == \A v \in Versions :
    (Size[v] # 0 /\ v \in entries /\ writing[v]) ~> ~(v \in entries /\ writing[v])

\* A restart between any two steps changes nothing that was finished: every
\* entry that is not being written is there again with the same blocks and
\* as pinned as before, and nothing else is.  What was released, evicted or
\* deleted does not come back, and no upload that died half-way is taken
\* for a copy.  Each operation owes this to the writes of the index and of
\* the maps at its end.
RestartIsExact ==
    [][Restart(older') => \A v \in Versions :
          IF v \in entries /\ ~writing[v]
          THEN /\ v \in entries' /\ ~writing'[v]
               /\ present'[v] = present[v]
               /\ pins'[v] > 0 <=> pins[v] > 0
          ELSE v \notin entries']_vars
=============================================================================
