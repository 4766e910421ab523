# TLA+ models of tgdcfs

tgdcfs is a virtual file system whose bytes live in chat channels (Telegram,
Discord). Clients reach it over WebDAV, SFTP and a manager API; a file version
is cut into parts, each part is a message in a store, a descriptor names the
parts, and a metadata tree names the descriptors. Versions can be mirrored to
several stores and kept in a local disk cache, which may also acknowledge a
write before any store has it (write-back).

This directory holds TLA+ modules for the parts of that system where
interleavings, failures and restarts decide correctness, TLC configurations
that check them on small instances, and TLAPS proofs of what matters most.

1. The parts and how they interact
2. The modules
3. The runs, their bounds and the fairness they assume
4. The proofs
5. What is only model-checked
6. What the models show beside the properties
7. What is not modelled

## 1. The parts and how they interact

A client's request (SFTP handle, WebDAV, manager) becomes an operation on the
directory tree (`core/ops.py`, `core/api`). A write streams its bytes into the
content repository, which encrypts them if asked to, stages them in the local
cache or hands them to the primary store, and may feed the mirrors from the
same stream (tee). The version it returns is appended to the file's descriptor,
a text message of the primary; the tree, a pinned document, points at the
descriptor. What the mirrors lack is queued: the replication worker distributes
write-back versions and fills the gaps of the mirrors, and a backfill does the
same for a whole tree. A read goes through the local cache, over one store or
several at once, and from there to the chunk cache and the message cache of a
store. Removing a file deletes its messages; promoting a mirror re-reads the
same records with another primary.

Everything runs on one event loop: what stands between two awaits is atomic,
everything else interleaves. Disk I/O runs in threads. Nothing locks a file, a
descriptor or the tree.

| Part | Source (under `src/tgdcfs`) | Module |
|---|---|---|
| Local disk cache | `core/local_cache.py` | `LocalCache` |
| Read shared by stores | `core/multisource.py` | `MultiSourceRead` |
| Tee upload | `core/tee.py` | `TeeUpload` |
| Queue, worker, descriptors under concurrent requests | `core/replication.py`, `core/backfill.py`, `core/api/file_desc.py` | `Replication` |
| Version records, ranges over parts | `core/model/file.py` | `VersionRecord` |
| Copies across stores, promotion, backfill | `core/mirror.py`, `core/backfill.py`, `fd/store_msg.py`, `file_content` | `VersionCopies` (on `VersionRecord`) |
| Directory tree, batches, removal of messages | `core/model/directory.py`, `core/api/*`, `metadata/pinned_message.py` | `Namespace` |
| Sizes and dates in listings | `core/api/stat.py` | `FileStats` |
| Encrypted format and range reads | `crypto/*` | `Encryption` |
| SFTP handles on one file | `app/sftp/*`, `crypto/repository.py` | `SftpHandles` (on `Encryption`) |
| SFTP session with listings | the two above | `SftpServer` (composes `SftpHandles` and `FileStats`) |
| Telegram texts, broker, message cache | `backends/telegram/{store,broker}.py`, `utils/message_cache.py` | `TelegramText` |
| Telegram uploads | `backends/telegram/uploader.py`, `store.py`, `tasks/task_store.py` | `TelegramUpload` |
| Telegram downloads, chunk cache, prefetching | `store.py`, `utils/{chunk_cache,prefetching_chain}.py` | `TelegramDownload` |
| Discord store | `backends/discord/{store,client}.py` | `DiscordStore` |

An `MC` module per component holds the instances for TLC; the modules ending in
`Proofs` and `LocalCacheBudget` hold the theorems and their lemmas.
`PROJECT.json` maps every definition to its source lines, and lists the hazards
of the code with the properties that cover them.

## 2. The modules

Conventions. One action per stretch of code between two awaits; a thread's disk
operation and a remote call's effect are actions of their own, before the
continuation that learns about them. A task that waits on a condition runs
again only after a `notify_all`, so a missing notification shows. Failures are
named in a set (`Faults`, or a field of a scenario). Definitions called
`X_Something` next to `X` are variants with a plausible mistake, against which
the properties are tested; no specification uses them.

History variables (`excused`, `raced`, `lost`, `torn`, `broken`, `crossed`,
`stopped`, ...) record the events after which the code promises less. A
property stated "except for those" claims that there are no other ways; section
6 describes the ways.

**LocalCache.** `entries`, `present`, `pins`, `writing` are the `CacheEntry`
objects in `_entries`; `older` is the order of `last_access`; `files`, `data`,
`map`, `index` are what the disk holds (`data` is the set of blocks whose bytes
are really there: the rest are holes of the sparse file); `fill`, `writer`,
`reader` are the `write_blocks` calls, staging writers and read streams in
progress; `fate` is where a version stands for the rest of the system. A task's
field `own` says that the entry object it started on is still the one
registered, the code's `_entries.get(id) is entry`. Left out: throttling and
statistics, the bytes themselves, a cancelled staging write whose thread
outlives `abort`. A fill or reserve for a version deleted meanwhile is not
started. The sweep's `queue_empty` is taken at its word: false while a version
waits for its distribution; `Replication` shows when that word is not good.

**MultiSourceRead.** The pieces of one read, stores with a few workers each,
and the consumer; `pending`, `results`, `tried`, `failures`, `benched`, `fatal`
and `next` are the fields of the code's object. Data are piece numbers.

**TeeUpload.** The producer is the read call inside the primary's upload; it
feeds one bounded branch per mirror and sleeps on a full one; a mirror's task
takes chunks and ends well, fails, hangs or is cancelled. `collect` and `abort`
are the two ways out. Chunks are intervals of the source.

**Replication.** Descriptors (per version: not there, in the cache only, in the
primary, invalid; and the mirrors with a copy), refs (`path`), requests, the
queue with its file, the worker. Reading a descriptor, writing it back and
telling the queue are three steps of a request, and the request may raise before
the first write and after it (`WriteRaises`). A read can come back crippled
or empty while the primary is out of reach (`BadReads`), as `_validate_fv` and
`_point_at_readable` have it. `scene` is the configuration: mode (`sync:
background`, `sync: tee`, `write_ack: cache`), mirrors, faults and events;
chosen in the initial state and never changed. Left out: attempt counters and
the length of a delay, the verification pass, `update_file_version`.

**VersionRecord, VersionCopies.** The record of a version as pure functions
(layouts, relocation on promotion, ranges over parts), and the operations that
write, copy, promote, backfill, remove and read with several stores. Message
ids are positions in a store's history, so the same id names different messages
in different stores, which is the hazard of a promotion. One operation runs at
a time (two at once are the subject of `Replication` and `Namespace`); a failing
call, a crash, a restart under another configuration, a message deleted by hand
or a lost store may come between any two of its steps. A copy made after a
promotion is marked (`stray`) where it was read through ids of another store.
Stores of one backend have the same part limit, which does not change; messages
are deleted when a file is removed; the copy of a file whose source is
unreadable is left out; a read may try layouts and sources in any order.

**Namespace.** The tree in memory, the requests on it, the metadata document
and its batches, and the messages a removal deletes. A descriptor and its
content are one message. The pushes of a move are one step.

**FileStats, Encryption, SftpHandles, SftpServer.** The encrypted format is
symbolic: a cell of a header or chunk names its salt, index and content, so
decryption succeeds exactly under the key and index it was made with; sizes and
offsets are the code's arithmetic. `SftpHandles` has read handles over one-shot
streams, write handles that spool, the lock they queue on, and the end of the
session; `scene.end` bounds a stream the way a range request does, and a file
may be damaged in its header or cut in a chunk. A write, with its wait for the
lock, is one step in the order of the lock's queue. `SftpServer` adds the
listings that show the file, which share descriptor reads and may give up on
them, moves of the file, whose push may fail, and restarts, and composes both.

**TelegramText, TelegramUpload, TelegramDownload, DiscordStore.** Requests to a
store. The client libraries are external: what is modelled is how the code here
uses them. Which remote calls may fail is named in `FaultKinds`:

- `TelegramText`: reads of messages and of a bot's name, edits (before and after
  they land), deletions (each batch on its own), downloads of documents, and the
  cancellation of a reader. Sends and uploads of documents succeed; senders,
  editors and deleters are not cancelled. The message cache is the LRU
  dictionary: answers, the None that an edit or a deletion leaves, and messages
  read by downloads all take room and evict others.
- `TelegramUpload`: reads of the source, saves of chunks, sends, cancellation and
  removal of the task record; a source may end early. A failed or lost send is
  tried for ever, as in `_send_uploaded`.
- `TelegramDownload`: transfers that break off, expired references, readers that
  leave, replacements and deletions that fail and leave the document as it was.
- `DiscordStore`: sends, edits, deletions, fetches, parts and downloads may fail
  and are retried, or be refused; a send and an edit may land without an answer;
  the source of an upload may fail. Every request may be cancelled, a transfer
  also a second time, while it unwinds.

## 3. The runs

Every `.cfg` is named after its run. A scenario (`Scenarios`, `Uploads`) is
chosen in the initial state, so that one run covers several configurations, each
small enough to be explored in full; the `MC` module lists them.

| Run | Checks | Bounds and why they are enough |
|---|---|---|
| `cache_uploads` | `PendingIsSafe`, `RestartIsExact`, `StagingEnds` | two writers, three versions (two blocks, one, empty), room for two files and four bytes: uploads evict each other's versions and are refused, sweeps release pins, and a restart may come between any two steps |
| `cache_reads` | `BudgetHolds`, `TrustedBlocksAreReal`, `LiveReadsAreReal` | an upload, two fills and a read on two versions that do not fit together, at most two tasks at a time (`FewTasks`): claims compete, are cancelled, and find their entry dropped and created again; create and write errors, short free space. Map, index and unlink errors are in the model and covered by the theorems only |
| `read_shared` | `PiecesInPlace`, `FailsOnlyUnservable`, `ReadCompletes` | two stores with two workers, three pieces, window two: a piece fails at one store, is taken by the other, both can be benched, also while a piece is back in the queue |
| `tee_save` | `BranchesAreSound`, `OutcomesAreSound`, `SaveEnds` | two mirrors, capacity two, reads of one and three bytes: smaller and larger than a branch; a source that ends short |
| `repl` | `QueueCovers`, `AcknowledgedHeld`, `HistoryKept`, `Replicated` | two files taking turns at two paths, or one file with two versions, in all modes, with each group of faults and events; requests that raise after their commit |
| `copies` | `RecordsHold`, `SelfSufficient`, `RangeRead`, `UpkeepIsSafe` | two Telegram channels and a Discord channel with smaller parts; files of three bytes: two parts in one, three in the other; promotions there and back, copies after them, pushes that fail once |
| `tree` | `TreeIsSound`, `NothingDangles`, `ChangesRecorded` | two requests of any kind on three levels in which two files share a descriptor; three requests on a root with one file |
| `sftp` | `ReadsAreExact`, `CommitsAreWhole`, `ListingsAreCurrent`, `SessionSettles` | files that end in a short and in a full chunk, written with another chunk size, or from before encryption and shorter than the magic; ranges that end inside a file; damaged files; a header cache of one entry; rival handles; two listings, one of which may give up |
| `tg_text` | `MarkersHaveDocuments`, `ReadsAreRecent`, `ReadsEnd` | three requests, two at a time, on short and long texts, and downloads; a cache smaller than the channel; a deletion of two batches |
| `tg_upload` | `PartsAreRight`, `FileIsWhole`, `UploadEnds` | sizes around the part and chunk limits, sources that end early, two workers, two parts in flight; each upload with its own faults |
| `tg_download` | `CacheIsSound`, `RangeDelivered`, `DownloadsEnd` | a document of three blocks, the last one short, replaced by a smaller one; two readers; a cache of two blocks or none |
| `discord` | `CacheIsRecent`, `SlotsConserved`, `FilesAreWhole`, `RequestsEnd` | two requests at a time, two slots of each kind; texts, uploads around the part limits, copies, replacement during a copy. Two copies of two messages fill the download slots |

Composite properties: `PiecesInPlace` (every piece not handed out is in exactly
one place; memory within the window), `BranchesAreSound` (a mirror's bytes are
the primary's, in order; bounded buffer), `OutcomesAreSound` (only whole
replicas are recorded; no task survives the save), `TreeIsSound` (unique names;
a tree), `NothingDangles` (neither the tree nor the written document names a
deleted message), `CacheIsSound` (budget; whole blocks), `PartsAreRight`
(chunks where they belong; parts sent complete), `RecordsHold` (a record names
only messages with those bytes, also after a promotion), `UpkeepIsSafe` (no
operation deletes what is referred to; a backfill that reports no gap left
none), `SessionSettles` (every request ends; the metadata catches up).

Pools of versions, ids and calls bound the number of operations. Symmetry is
used only in safety runs, over model values that the specification does not
order. `CHECK_DEADLOCK FALSE` stands where an instance may have used up its
pools.

Fairness. asyncio runs every ready task, threads of the pool make progress and
remote calls end, well or not: weak fairness of each task's steps. Timers run
out. A store that is tried again and again takes the bytes in the end (strong
fairness of the successful outcome, `Replication`), which is what a retry is
for; likewise the write of the stats (`FlushOk` in `SftpServer`) and the send of
a complete document (`Sent` in `TelegramUpload`), which `_send_uploaded` tries
for ever: a channel that refuses every send keeps the upload waiting. In
`Replication` fairness is conditional on `Steady`, a process that is not
restarted for ever, and in `SftpServer` on `scene.fair`, the scenarios looked at
for liveness. A mirror may hang in a request for ever: `SaveEnds` assumes the
contrary inside the property for the save as a whole, but not for the end of a
save whose primary has failed.
`ReadCompletes` states its one healthy store within the property and names the
one way to hang without it; `RequestsEnd` and `UploadEnds` name theirs.

## 4. The proofs

The theorems hold for every value of the constants that satisfies the named
assumption of the module; TLAPS checks them to the last leaf. Each is an
inductive invariant, the proof that Init establishes it and each action keeps
it (one lemma per action or group of actions), and what follows from it.

**LocalCache** (`LocalCacheProofs`, `LocalCacheBudget`).
`TypeCorrect`, and one invariant in layers, each proved with the lower ones:

- `Attached`: a task whose entry is still registered works on that entry's
  file, and what entries and maps list is in the data file. It gives
  `BlocksReal` and, on a disk that reads without error, `LiveReads`. The
  properties alone are not inductive: whether the block a thread has just
  written may be marked depends on the file not having been replaced under it.
- `Ledger`: a fill's claim covers all of its block that is not present, and a
  staged entry has one live writer. `Journal`: the index and map files follow
  memory unless the disk operation behind them fails.
- `BudgetKept`, `FilesKeptBounded`: charged bytes and claims are sets of
  (version, byte) and (fill, byte) pairs; each step shrinks both, moves bytes
  from the claim to the charge (`Ledger`), or was admitted against the sum; a
  restart loads what the journal holds. Assumption: the disk does not both keep
  unlinked files and lose index saves.
- `Uploads`: who may work on a version that is not in the stores yet. It gives
  `PendingKept`: a write-back version stays complete and pinned until it is
  distributed or deleted. Assumptions: index and map writes are kept, and the
  version is not empty.
- `RestartsExact`, the action property `RestartIsExact`, follows from `Journal`
  and `Attached`: what load() reads is what memory held of the finished
  entries. Assumption: index and map writes are kept.

**MultiSourceRead** (`MultiSourceReadProofs`). `PiecesKept` and
`FailureJustified`. Beside the properties the invariant says where pieces can
be at all and why a worker is gone or the read is given up: the consumer raises
on what the workers left behind, so what it may conclude depends on why they
left.

**TeeUpload** (`TeeUploadProofs`). `BranchesKept` and `OutcomesKept`, for any
number of mirrors, chunk sizes and capacity. `Flows`: what a mirror took and
what waits for it are consecutive intervals, and the counters agree with them;
`Fed`: an attached branch has been fed up to where the producer is, branch by
branch within a read; `Settled`: what `collect` and `abort` know of the tasks
they have passed. A replica is whole because its task saw the end of a branch
that was never detached, which `Fed` ties to the source.

**Replication** (`ReplicationProofs`).
`NothingDropped`, `AcknowledgedKept` and `HistoriesKept` (the last an action
property), the failure between the commit of a descriptor and the enqueue
included, for any number of files, paths, versions, clients and mirrors and
every mix of modes, faults and events. The invariant adds to the properties:
`Owned` (a version is known to one file), `Rooted` (one path leads to one file,
and a file without a ref is untouched), `Modal` (only write-back leaves
versions in the cache), `Exact` (for a file that is not excused, whoever is
between reading and writing its descriptor is alone there and holds what the
store has), `Concluded` (when the worker ends without a failure, nothing is
left to do for its file) and `Crossed` (another file that came to the worker's
path meanwhile is still to be announced). Without `Exact` a write-back of an
old descriptor would undo the worker's copies; without `Concluded` the removal
from the queue would not be justified.

**TelegramText** (`TelegramTextProofs`). `MarkersKept`: the marker of a message
nobody asked to delete has its document, for any number of messages, requests,
bots and texts, any size of batches and whatever calls fail. Who may delete a
document decides it. The invariant follows everything that knows a document as a
message's own (`Refers`: the marker, the cache, the broker's answer, the noted
id, an edit under way): there is one such message per document (`Single`), a document not yet shown is known to nobody
else (`Held`), an id not yet given out to nobody at all (`Real`), a landed edit's
superseded document is shown by no message (`Superseded`), and a document is
deleted, in this batch or a later one, only with the message that shows it
(`Doomed`). Assumption: the channel at the start satisfies the property, with a document per marker.
`ReadsKept` is `ReadsAreRecent` for any cache size. Its invariant (`Recent`)
follows a message on its way to the reader: an entry of the cache is what
Telegram has and nobody is changing it (`Fresh`), so is the answer that has not
reached the cache yet, or every reader of the batch has seen the message missing
(`Fetched`), what a fetch did not ask for is still cached or was seen missing
when it was changed or evicted (`Missed`), a request stands for a reader that still waits (`Waiting`), and the document of an unresolved
marker has the text the message had during the read (`Sourced`, `Remembered`;
here `MarkersKept` is used). Assumption: `Nobody` is not a request.

## 5. What is only model-checked

- Liveness: `StagingEnds`, `ReadCompletes`, `SaveEnds`, `Replicated`,
  `SessionSettles`, `ReadsEnd`, `UploadEnds`, `DownloadsEnd`, `RequestsEnd`.
  Fairness and ENABLED are outside the prover's reach.
- `TelegramDownload` cuts ranges with recursive operators, and the arithmetic
  of `Encryption`, `SftpHandles`, `VersionRecord` and `TelegramUpload` is about
  sequences built by recursion or folds. What such a definition computes for
  every input needs an induction over data that the prover cannot do here.
- All properties of `Namespace`, `VersionCopies`, `SftpServer` (with `FileStats`,
  `SftpHandles` and `Encryption`), `TelegramUpload`, `TelegramDownload` and
  `DiscordStore` are model-checked only.

## 6. What the models show beside the properties

Behaviours of the code that the exceptions of the properties stand for, or that
the scenarios avoid. They are described, not judged.

Local cache and reads
- Each chunk of a cached read opens the file anew. When the entry is dropped
  and created again between two chunks the rest of the read is the zeros of the
  new sparse file; when it is dropped only, the read ends with
  `FileNotFoundError` although the stores have the version
  (`local_cache.py:25`, `:46`). `LiveReadsAreReal` is about entries that stay.
- A cancelled `write_blocks` leaves its claim on the entry (`Leak`).
- An empty upload with `write_ack: cache` is staged and acknowledged, but
  `close()` does not finish the entry of a writer that wrote nothing, so the
  distribution finds no local copy (`WriterCloseEmpty`; `file_desc.py:42` says
  the usual path runs for empty files).
- A piece that failed at A waits for B, and B is benched because of another
  piece: `fatal` is set only for the piece that has just failed
  (`multisource.py:173-182`), nobody looks at the queued one again, and the
  read waits for ever. `ReadCompletes` has this as its one exception.
- A failed write of the index or of a map is logged only. A restart then loads
  what was written last, and a write-back version whose entry never got into
  the index is gone; `PendingIsSafe` and `RestartIsExact` are about disks that
  keep those writes, `TrustedBlocksAreReal` is not.

Replication
- A descriptor that cannot be read for a moment looks empty to the worker, which
  takes the file off the queue (`replication.py:13` says nothing is dropped).
- Two read-modify-writes of a descriptor that overlap lose a version or its
  copies.
- A file moved while it is queued is not found under its old path; one whose
  process ends between the metadata push and the enqueue is not queued, and
  neither is one whose write raises after the descriptor has changed, at the
  metadata push or at a strict mirror (`WriteRaises`; `file.py:377` knows the
  case for the stats). With `write_ack: cache` the bytes are then in the cache only, and the sweep may
  release them once the queue is empty.
- An append that reads while the primary is out of reach writes the crippled
  descriptor back. A pending version whose cache entry is gone and which is the
  only readable one is neither dropped nor reported.
- `sync: tee` queues files with gaps, and no worker runs in that mode.

Copies
- After a promotion `_duplicate_versions` (`api/file.py:233-274`) passes ids of
  the former primary to `copy_within` of the current one, so that the copy of
  the file holds other messages (`Stray`);
  `_descriptors_referenced_elsewhere` compares ids across stores.
- A push of the metadata that fails leaves the new ref in memory. A second write
  sees no change of the ref, is acknowledged without a push, and the file is
  gone after a restart (`Unpushed`; `_sync_file_ref`). A strict write that fails
  in the middle of its pushes and is tried again is acknowledged likewise
  (`pinned_message.py:66-69`).
- A backfill takes an unreadable descriptor for one without versions and reports
  no failure (`backfill.py:205-209`).
- A forwarded copy of the pinned metadata cannot be edited after a promotion
  (`mirror.py:19-21`); two overlapping `adopt_pinned` can orphan a copy.
- After a promotion to a replica's layout the old copies become replicas
  without sizes. A backfill copies only from the primary, and a re-upload that
  fails and is retried leaves its first messages behind.

Tree
- A removal racing a move away and back leaves an index entry; `cp_dir`
  iterates a live list and may skip a file; overlapping pushes may land out of
  order; a removal during another request's batch deletes messages before the
  tree is persisted; a recursive removal racing a move out deletes the moved
  file's messages.

Telegram
- An edit clears the cache before it lands, so a read in between caches the old
  text; a batch answers None for a message that was cleared while it was
  fetched, or that the cache lost to another message, to the None of an edit or
  a deletion, or to the message of a download while the batch was fetched.
- A deletion of more than a hundred messages goes in batches that fail on their
  own: a message may survive the document it points at (`deleted`).
- After the removal of a task record the workers stop and the full size is
  reported; the send with missing parts is then tried for ever, although the
  comment at `store.py:90-91` says the bytes are on the servers. A source that
  ends early is counted in full (`uploader.py:143-144`), and the document is
  short. After a failed read the next waiter saves the wrong bytes,
  in a part that is never sent. `_partition(0, p)` yields one part.
- A replacement racing a read may put old blocks back into the cache; a
  refreshed reference may continue in the replaced document.

Discord
- An edit or a deletion whose answer is lost or whose caller goes away leaves
  the old text cached (`Dropped`); so may overlapping edits and reads. An
  overflow that cannot be fetched raises.
- An upload that is cancelled a second time while it gathers its cancelled
  tasks (`store.py:392`) does not release the slots of those that never started:
  they are lost until the process ends (`CancelAgain`, `lost`).
- `copy_within` keeps only the first message when the stored one exceeds a
  lowered `max_part_bytes`; copying an empty document fails; the
  stream of a copied message keeps its slot while the next download asks for one
  (`store.py:447-462`), so one copy of two messages hangs with
  `max_concurrent_downloads: 1`, and as many copies as there are slots hang each
  other (`Stuck`; two of them in the run).

SFTP and listings
- After a stream error the next read at the same offset may answer short
  (`broken`); a reopened stream reads the latest version while the size stays
  as at open; an empty write past the end counts in `_size` only, so the close
  fails; two overlapping commits keep one of the versions; a handle opened
  while `exit()` runs is not cleaned up.
- A listing that asks after a write was answered may join the descriptor read of
  an earlier one, which holds the old descriptor, and show the old stat
  (`stat.py:84-92`; the docstring promises that "the next listing reads it
  again"). What such a read returns is not kept.
- A file moved away while a handle writes it is created anew under the old name
  by the close (`api/file.py:429-433`).
- A move during a write leaves a stale stat (`crossed`); a crash before the
  flush loses the drop of a stat (`stopped`); with `stat_in_metadata` off the
  tree is asked whether it carries stats only after the last one was dropped, so
  an old stat stays in the document (`alone`).

## 7. What is not modelled

GitHub metadata (commits through a remote API whose conflict rules are outside
the repository), `delete_version`, `update_version` and `set_last_modified` in
the tree (in part in `Replication`), the dictionaries in front of the file
system objects, key derivation and name encodings, SFTP paths and attributes,
WebDAV and the manager API (requests map one to one to file operations),
configuration, authentication and client factories. Of the SFTP library its
cancellation, and of the encryption a stream that ends early at a chunk boundary
and an old plain file that starts with the magic, are left out. `PROJECT.json`
lists every part with its reason.
