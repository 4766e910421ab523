----------------------------- MODULE Replication -----------------------------
(***************************************************************************)
(* One file system with "sync: background", "sync: tee" or "write_ack:     *)
(* cache": the descriptors of its files, the clients that append, re-date  *)
(* and delete versions (core/api), the replication queue with its file     *)
(* (core/replication.py) and the worker that distributes and mirrors       *)
(* (core/backfill.py).                                                     *)
(*                                                                         *)
(* Everyone works on a descriptor the same way: read the whole of it,      *)
(* await stores, write the whole of it back.  The reading and the writing  *)
(* are steps of their own and nothing locks the file in between.           *)
(*                                                                         *)
(* excused is a history variable: the files on which something happened    *)
(* that the queue does not survive.  What is claimed for the other files   *)
(* says that there are no more such ways.                                  *)
(***************************************************************************)
EXTENDS Integers, FiniteSets

CONSTANTS
    Files,       \* numbered in the order in which they are created
    Paths,
    Versions,    \* numbered in the order in which they are appended
    Writers,
    Scenarios    \* the configurations looked at

ModeKinds  == {"background", "tee", "cache"}
FaultKinds == {"store", "unreadable", "push", "queue file", "cache"}
EventKinds == {"move", "remove", "overlap", "crash", "retry", "edit"}

\* A scenario: the mode, the mirror stores, how many files and versions are
\* made, what may fail and what may happen besides writes.
ASSUME ReplicationAssumption ==
    /\ Files \subseteq Nat /\ Versions \subseteq Nat
    /\ {"new", "gone"} \cap Paths = {}
    /\ \A s \in Scenarios :
          /\ s.mode \in ModeKinds
          /\ s.mirrors # {} \/ s.mode = "cache"
          /\ s.files \subseteq Files /\ s.versions \subseteq Versions
          /\ s.faults \subseteq FaultKinds /\ s.events \subseteq EventKinds

VARIABLES
    desc,     \* the descriptor message of each file
    path,     \* where its ref is: a path, "new" before, "gone" after
    cached,   \* the versions the local cache must keep or still has
    deleted,  \* the versions a client has deleted
    writer,   \* what each client request is doing
    items,    \* ReplicationQueue._items
    backoff,  \* the paths whose not_before lies ahead
    saved,    \* the queue file
    wakeup,   \* the worker's event
    worker,   \* where the worker is, with its descriptor
    batch,    \* the ready items run_once has not come to yet
    excused,
    scene     \* the scenario, which stays as it is

Mirrors == scene.mirrors
Faults  == scene.faults
Events  == scene.events

files == <<desc, path, cached, deleted>>
queue == <<items, backoff, saved, wakeup>>
vars  == <<files, writer, queue, worker, batch, excused, scene>>

\* Where a version's bytes are: not in the descriptor, in the local cache
\* only (pending), in the primary store, or in no store the descriptor knows.
Where   == {"none", "cache", "primary", "invalid"}
Entries == [at : Where, copies : SUBSET Mirrors]
Absent  == [at |-> "none", copies |-> {}]
Blank   == [v \in Versions |-> Absent]

WriteBack == scene.mode = "cache"
Tee       == scene.mode = "tee"

\* One background worker runs only for these modes.
HasWorker == ~Tee

Idle   == [pc |-> "idle"]
Busy   == {"distribute", "mirror", "finish"}

\* The worker or a client is between reading and writing f's descriptor.
WorkedOn(f)   == worker.pc \in Busy /\ worker.f = f
WrittenBy(f)  == {w \in Writers : writer[w].pc = "upload" /\ writer[w].f = f}
CommittedBy(f) == {w \in Writers : writer[w].pc = "enqueue" /\ writer[w].f = f}

-----------------------------------------------------------------------------
\* _point_at_readable: without a version that a store or this cache can
\* serve, the descriptor comes back empty.
Readable(d) ==
    IF \E v \in Versions : d[v].at = "primary" \/ (d[v].at = "cache" /\ v \in cached)
    THEN d ELSE Blank

\* _validate_fv counts the versions in bad as invalid: with the primary out
\* of reach and no copy in a mirror.
Invalidated(d, bad) == [v \in Versions |->
    IF v \in bad THEN [at |-> "invalid", copies |-> {}] ELSE d[v]]

OnlyPrimary(d) == {v \in Versions : d[v].at = "primary" /\ d[v].copies = {}}

\* What fd_repo.get returns while the primary cannot be reached: nothing, or
\* what the mirrors hold.  With all versions asked for (all), every version
\* is validated; otherwise the validation stops at the first good one.
BadReads(d, all) ==
    {Blank} \cup
    {Readable(Invalidated(d, bad)) : bad \in
        IF Mirrors = {} THEN {} ELSE {b \in SUBSET OnlyPrimary(d) : all => b = OnlyPrimary(d)}}

\* A read of f's descriptor gives fd, and whether it was a bad one.
Reads(f, all) ==
    {[fd |-> Readable(desc[f]), bad |-> FALSE]} \cup
    IF "unreadable" \in Faults THEN [fd : BadReads(desc[f], all), bad : {TRUE}] ELSE {}

\* _save: the queue file gets the items, or stays as it was.
SaveQueue == \/ saved' = items'
             \/ "queue file" \in Faults /\ saved' = saved

\* Variant: the worker is not woken.
Enqueue_Quiet(p) ==
    /\ items' = items \cup {p}
    /\ IF p \in items THEN saved' = saved ELSE SaveQueue
    /\ UNCHANGED <<backoff, wakeup>>

Enqueue(p) ==
    /\ items' = items \cup {p}
    /\ IF p \in items THEN saved' = saved ELSE SaveQueue
    /\ wakeup' = TRUE
    /\ UNCHANGED backoff

Done(p) ==
    /\ items' = items \ {p}
    /\ backoff' = backoff \ {p}
    /\ IF p \in items THEN SaveQueue ELSE saved' = saved
    /\ UNCHANGED wakeup

\* Variant: a failed item is given up.
Failed_GivesUp(p) == Done(p)

Failed(p) ==
    /\ backoff' = IF p \in items THEN backoff \cup {p} ELSE backoff
    /\ IF p \in items THEN items' = items /\ SaveQueue ELSE UNCHANGED <<items, saved>>
    /\ UNCHANGED wakeup

-----------------------------------------------------------------------------
(* Clients.                                                                *)

\* The descriptors in the stores and in memory.
InFlight == {writer[w].fd : w \in {x \in Writers : writer[x].pc = "upload"}}
            \cup {worker.fd : x \in {worker.pc} \cap Busy}
Unused == {v \in scene.versions \ (deleted \cup cached) :
              /\ \A f \in Files : desc[f][v] = Absent
              /\ \A d \in InFlight : d[v] = Absent}

\* The new version: its id is one that nobody knows.
Fresh == {v \in Unused : \A u \in Unused : v <= u}

Overlaps(f) == WorkedOn(f) \/ WrittenBy(f) # {}
MayTouch(f) == ~Overlaps(f) \/ "overlap" \in Events

\* append_file_version, set_last_modified, delete_file_version on a file:
\* the descriptor is read first.
WriteBegin(w, f, op) ==
    /\ writer[w] = Idle /\ path[f] \in Paths /\ MayTouch(f)
    /\ op = "append" \/ "edit" \in Events
    /\ \E r \in Reads(f, FALSE) :
          /\ writer' = [writer EXCEPT ![w] =
                [pc |-> "upload", op |-> op, f |-> f, p |-> path[f], fd |-> r.fd]]
          /\ excused' = IF r.bad \/ Overlaps(f) THEN excused \cup {f} ELSE excused
    /\ UNCHANGED <<files, queue, worker, batch, scene>>

\* The upload of a new file.
CreateBegin(w, f, p) ==
    /\ writer[w] = Idle /\ path[f] = "new" /\ WrittenBy(f) = {}
    /\ f \in scene.files /\ \A g \in scene.files : g < f => path[g] # "new" \/ WrittenBy(g) # {}
    /\ \A g \in Files : path[g] # p
    /\ writer' = [writer EXCEPT ![w] =
          [pc |-> "upload", op |-> "append", f |-> f, p |-> p, fd |-> Blank]]
    /\ UNCHANGED <<files, queue, worker, batch, excused, scene>>

\* What the upload made of the new version: with tee, whichever mirrors took
\* it; otherwise the primary or the cache alone.
Uploaded == IF WriteBack THEN {[at |-> "cache", copies |-> {}]}
            ELSE [at : {"primary"}, copies : IF Tee THEN SUBSET Mirrors ELSE {{}}]

\* _written: the queue is told, with tee only about gaps.
Tells(d) == Tee => \E v \in Versions : d[v].at = "primary" /\ d[v].copies # Mirrors

\* A write-back upload that the cache refuses goes to the primary.
Appended(d, v, e) ==
    /\ v \in Fresh
    /\ e \in Uploaded \cup IF WriteBack THEN {[at |-> "primary", copies |-> {}]} ELSE {}

WithVersion(d, v, e) == [d EXCEPT ![v] = e]

\* The bytes are stored and the descriptor is written; a new file gets its
\* ref, unless the name was taken meanwhile.
AppendCommit(w) ==
    LET t == writer[w]
    IN  /\ t.pc = "upload" /\ t.op = "append"
        /\ path[t.f] = "new" => \A g \in Files : path[g] # t.p
        /\ \E v \in Versions, e \in Entries :
              /\ Appended(t.fd, v, e)
              /\ desc' = [desc EXCEPT ![t.f] = WithVersion(t.fd, v, e)]
              /\ cached' = IF e.at = "cache" THEN cached \cup {v} ELSE cached
              /\ path' = IF path[t.f] = "new" THEN [path EXCEPT ![t.f] = t.p] ELSE path
              /\ writer' = [writer EXCEPT ![w] = IF Tells(WithVersion(t.fd, v, e))
                               THEN [pc |-> "enqueue", f |-> t.f, p |-> t.p] ELSE Idle]
        /\ UNCHANGED <<deleted, queue, worker, batch, excused, scene>>

\* set_last_modified writes back what it read.
RedateCommit(w) ==
    LET t == writer[w]
    IN  /\ t.pc = "upload" /\ t.op = "redate" /\ t.fd # Blank
        /\ desc' = [desc EXCEPT ![t.f] = t.fd]
        /\ writer' = [writer EXCEPT ![w] = Idle]
        /\ UNCHANGED <<path, cached, deleted, queue, worker, batch, excused, scene>>

\* delete_file_version writes the rest and forgets the version's bytes.
DeleteCommit(w) ==
    LET t == writer[w]
    IN  /\ t.pc = "upload" /\ t.op = "delete"
        /\ \E v \in Versions :
              /\ t.fd[v] # Absent
              /\ desc' = [desc EXCEPT ![t.f] = [t.fd EXCEPT ![v] = Absent]]
              /\ deleted' = deleted \cup {v} /\ cached' = cached \ {v}
        /\ writer' = [writer EXCEPT ![w] = Idle]
        /\ UNCHANGED <<path, queue, worker, batch, excused, scene>>

\* The request fails before it has changed the descriptor.
WriteFails(w) ==
    /\ writer[w].pc = "upload"
    /\ writer' = [writer EXCEPT ![w] = Idle]
    /\ UNCHANGED <<files, queue, worker, batch, excused, scene>>

\* on_written, after the metadata push.  For a path the worker has under
\* way with an earlier file this leaves no trace.
WriteEnqueue(w) ==
    /\ writer[w].pc = "enqueue"
    /\ Enqueue(writer[w].p)
    /\ writer' = [writer EXCEPT ![w] = Idle]
    /\ excused' = IF worker.pc \in Busy /\ worker.p = writer[w].p /\ worker.f # writer[w].f
                  THEN excused \cup {writer[w].f} ELSE excused
    /\ UNCHANGED <<files, worker, batch, scene>>

\* The path is queued, and not for an earlier file the worker has under way.
Covered(p, f) == p \in items /\ ~(worker.pc \in Busy /\ worker.p = p /\ worker.f # f)

\* The descriptor is written, and the request raises before on_written: a
\* strict mirror refuses the copy of the descriptor, the metadata push fails,
\* or the client goes away.  Only an item that is queued already covers it.
WriteRaises(w) ==
    /\ writer[w].pc = "enqueue"
    /\ writer' = [writer EXCEPT ![w] = Idle]
    /\ excused' = IF Covered(writer[w].p, writer[w].f) THEN excused ELSE excused \cup {writer[w].f}
    /\ UNCHANGED <<files, queue, worker, batch, scene>>

Touched(f) == WorkedOn(f) \/ WrittenBy(f) \cup CommittedBy(f) # {}

\* FileApi.move: a new ref under a new path; queue and requests know the old.
Move(f, p) ==
    /\ "move" \in Events
    /\ path[f] \in Paths /\ \A g \in Files : path[g] # p
    /\ path' = [path EXCEPT ![f] = p]
    /\ excused' = IF path[f] \in items \/ Touched(f) THEN excused \cup {f} ELSE excused
    /\ UNCHANGED <<desc, cached, deleted, writer, queue, worker, batch, scene>>

\* FileApi.rm: the ref, and the local bytes of all versions.
Remove(f) ==
    /\ "remove" \in Events
    /\ path[f] \in Paths
    /\ path' = [path EXCEPT ![f] = "gone"]
    /\ cached' = cached \ {v \in Versions : desc[f][v] # Absent}
    /\ UNCHANGED <<desc, deleted, writer, queue, worker, batch, excused, scene>>

-----------------------------------------------------------------------------
(* The worker.                                                             *)

Ready == items \ backoff

RunOnce ==
    /\ worker.pc = "start"
    /\ wakeup' = FALSE
    /\ batch' = Ready
    /\ worker' = [pc |-> "next"]
    /\ UNCHANGED <<files, writer, items, backoff, saved, excused, scene>>

\* process_one: the file is gone, or its descriptor is read.
ProcessGone(p) ==
    /\ worker.pc = "next" /\ p \in batch
    /\ \A f \in Files : path[f] # p
    /\ Done(p)
    /\ batch' = batch \ {p}
    /\ UNCHANGED <<files, writer, worker, excused, scene>>

ProcessBegin(p, f) ==
    /\ worker.pc = "next" /\ p \in batch /\ path[f] = p
    /\ WrittenBy(f) = {} \/ "overlap" \in Events
    /\ \E r \in Reads(f, TRUE) :
          /\ worker' = [pc |-> IF r.fd = Blank THEN "finish" ELSE "distribute",
                        p |-> p, f |-> f, fd |-> r.fd, bad |-> FALSE]
          /\ excused' = IF r.bad \/ WrittenBy(f) # {} THEN excused \cup {f} ELSE excused
    /\ batch' = batch \ {p}
    /\ UNCHANGED <<files, writer, queue, scene>>

Pending(d) == {v \in Versions : d[v].at = "cache"}

\* Variant: a version the primary refused is given up.
Distributed_GivesUp(d, ok, r) == [v \in Versions |->
    IF v \notin Pending(d) THEN d[v]
    ELSE IF v \notin cached \cap ok THEN Absent
    ELSE [at |-> "primary", copies |-> d[v].copies \cup r[v]]]

\* _distribute_pending for every pending version: into the primary (ok) and
\* into mirrors (r); bytes that are no longer here are given up.  Failing
\* stores are failures of the report.
Distributed(d, ok, r) == [v \in Versions |->
    IF v \notin Pending(d) THEN d[v]
    ELSE IF v \notin cached THEN Absent
    ELSE [at |-> IF v \in ok THEN "primary" ELSE "cache", copies |-> d[v].copies \cup r[v]]]

Failures(d, ok) == ok # Pending(d) \cap cached

NothingPending ==
    /\ worker.pc = "distribute" /\ Pending(worker.fd) = {}
    /\ worker' = [worker EXCEPT !.pc = IF Mirrors = {} THEN "finish" ELSE "mirror"]
    /\ UNCHANGED <<files, writer, queue, batch, excused, scene>>

\* The ids are committed as soon as they exist.  Without mirrors the cache
\* entry is released.
Distribute(ok, r, bad) ==
    LET fd == Distributed(worker.fd, ok, r)
    IN  /\ worker.pc = "distribute" /\ Pending(worker.fd) # {}
        /\ ok \subseteq Pending(worker.fd) \cap cached
        /\ bad \/ ~Failures(worker.fd, ok)
        /\ desc' = IF fd # worker.fd THEN [desc EXCEPT ![worker.f] = fd] ELSE desc
        /\ cached' = IF Mirrors = {} THEN cached \ ok ELSE cached
        /\ worker' = [worker EXCEPT !.pc = IF Mirrors = {} THEN "finish" ELSE "mirror",
                                    !.fd = fd, !.bad = bad]
        /\ UNCHANGED <<path, deleted, writer, queue, batch, excused, scene>>

ToMirror(d) == {v \in Versions : d[v].at = "primary" /\ d[v].copies # Mirrors}
Mirrored(d, r) == [v \in Versions |->
    IF v \in ToMirror(d) THEN [d[v] EXCEPT !.copies = @ \cup r[v]] ELSE d[v]]

\* The versions every store has: their local bytes are released.
Released(d) == {v \in Versions : d[v].at = "primary" /\ d[v].copies = Mirrors}

StillMissing(d) == ToMirror(d) # {}

\* mirror_parts for every version that lacks a copy, then the commit; also
\* when only a copy of the descriptor itself was missing (refresh).
Mirror(r, refresh) ==
    LET fd == Mirrored(worker.fd, r)
    IN  /\ worker.pc = "mirror"
        /\ desc' = IF fd # worker.fd \/ refresh THEN [desc EXCEPT ![worker.f] = fd] ELSE desc
        /\ cached' = cached \ Released(fd)
        /\ worker' = [worker EXCEPT !.pc = "finish", !.fd = fd,
                                    !.bad = @ \/ StillMissing(fd)]
        /\ UNCHANGED <<path, deleted, writer, queue, batch, excused, scene>>

\* The read of the descriptor, a call in between or a commit raises: nothing
\* is written, though local bytes may have been released already.
ProcessRaises ==
    /\ "store" \in Faults
    /\ worker.pc \in {"distribute", "mirror"}
    /\ \E V \in SUBSET {v \in Versions : worker.fd[v].at = "primary"} :
          /\ worker.pc = "distribute" => V = {}
          /\ cached' = cached \ V
    /\ worker' = [worker EXCEPT !.pc = "finish", !.bad = TRUE]
    /\ UNCHANGED <<desc, path, deleted, writer, queue, batch, excused, scene>>

ProcessFailed ==
    /\ worker.pc = "finish"
    /\ worker.bad \/ "push" \in Faults
    /\ Failed(worker.p)
    /\ worker' = [pc |-> "next"]
    /\ UNCHANGED <<files, writer, batch, excused, scene>>

ProcessDone ==
    /\ worker.pc = "finish" /\ ~worker.bad
    /\ Done(worker.p)
    /\ worker' = [pc |-> "next"]
    /\ UNCHANGED <<files, writer, batch, excused, scene>>

RunEnds ==
    /\ worker.pc = "next" /\ batch = {}
    /\ worker' = [pc |-> IF items = {} THEN "wait" ELSE "timer"]
    /\ UNCHANGED <<files, writer, queue, batch, excused, scene>>

\* The event; or the timeout of the earliest item, if there was one.
Wake ==
    /\ worker.pc \in {"wait", "timer"}
    /\ wakeup \/ (worker.pc = "timer" /\ Ready # {})
    /\ worker' = [pc |-> "start"]
    /\ UNCHANGED <<files, writer, queue, batch, excused, scene>>

\* An item's not_before has come.
Elapse(p) ==
    /\ p \in backoff
    /\ backoff' = backoff \ {p}
    /\ UNCHANGED <<files, writer, items, saved, wakeup, worker, batch, excused, scene>>

RetryNow ==
    /\ "retry" \in Events
    /\ backoff' = {} /\ wakeup' = TRUE
    /\ UNCHANGED <<files, writer, items, saved, worker, batch, excused, scene>>

-----------------------------------------------------------------------------
(* Restart and the local cache.                                            *)

Boot == [pc |-> IF HasWorker THEN "start" ELSE "off"]

\* _load: what the queue file holds.
Loaded == saved

\* The process dies and comes back with the queue file.  A request that had
\* written the descriptor and not the queue is forgotten.
Crash ==
    /\ "crash" \in Events
    /\ items' = Loaded /\ backoff' = {} /\ wakeup' = FALSE
    /\ writer' = [w \in Writers |-> Idle] /\ worker' = Boot /\ batch' = {}
    /\ excused' = excused \cup {f \in Files : CommittedBy(f) # {} \/ path[f] \in items \ saved}
    /\ UNCHANGED <<files, saved, scene>>

\* Variant: the sweep does not ask for the queue.
Sweep_AnyQueue(v) ==
    /\ v \in cached
    /\ cached' = cached \ {v}
    /\ UNCHANGED <<desc, path, deleted, writer, queue, worker, batch, excused, scene>>

\* The sweep takes a day-old pin of a file system with an empty queue for
\* forgotten; the entry may then be evicted.
Sweep(v) ==
    /\ v \in cached /\ items = {}
    /\ \A w \in Writers : writer[w].pc # "enqueue"
    /\ cached' = cached \ {v}
    /\ UNCHANGED <<desc, path, deleted, writer, queue, worker, batch, excused, scene>>

\* The disk loses an entry.
CacheLoses(v) ==
    /\ "cache" \in Faults
    /\ v \in cached
    /\ cached' = cached \ {v}
    /\ UNCHANGED <<desc, path, deleted, writer, queue, worker, batch, excused, scene>>

-----------------------------------------------------------------------------
Init ==
    /\ desc = [f \in Files |-> Blank] /\ path = [f \in Files |-> "new"]
    /\ cached = {} /\ deleted = {}
    /\ writer = [w \in Writers |-> Idle]
    /\ items = {} /\ backoff = {} /\ saved = {} /\ wakeup = FALSE
    /\ scene \in Scenarios
    /\ worker = Boot /\ batch = {}
    /\ excused = {}

Copies == [Versions -> SUBSET Mirrors]
AllCopies == [v \in Versions |-> Mirrors]

Request(w) == \/ \E f \in Files, op \in {"append", "redate", "delete"} : WriteBegin(w, f, op)
              \/ \E f \in Files, p \in Paths : CreateBegin(w, f, p)
              \/ AppendCommit(w) \/ RedateCommit(w) \/ DeleteCommit(w) \/ WriteFails(w)

\* Without store faults every copy succeeds.
DistributeSome ==
    \E ok \in SUBSET Versions, r \in Copies, bad \in BOOLEAN :
        /\ worker.pc = "distribute"
        /\ \A v \in Versions : v \notin Pending(worker.fd) \cap cached => r[v] = {}
        /\ "store" \notin Faults => ok = Pending(worker.fd) \cap cached /\ ~bad
        /\ Distribute(ok, r, bad)

MirrorSome ==
    \E r \in Copies, refresh \in BOOLEAN :
        /\ "store" \notin Faults => r = AllCopies
        /\ Mirror(r, refresh)

Work == \/ RunOnce \/ RunEnds \/ Wake
        \/ \E p \in Paths : ProcessGone(p) \/ \E f \in Files : ProcessBegin(p, f)
        \/ NothingPending \/ DistributeSome \/ MirrorSome
        \/ ProcessRaises \/ ProcessFailed \/ ProcessDone

Next == \/ \E w \in Writers : Request(w) \/ WriteEnqueue(w) \/ WriteRaises(w)
        \/ Work
        \/ \E f \in Files : Remove(f) \/ \E p \in Paths : Move(f, p)
        \/ \E p \in Paths : Elapse(p)
        \/ RetryNow \/ Crash
        \/ \E v \in Versions : Sweep(v) \/ CacheLoses(v)

Spec == Init /\ [][Next]_vars

\* A store that is tried again and again takes the bytes in the end.
DistributeAll == \E r \in Copies : Distribute(Pending(worker.fd) \cap cached, r, FALSE)
MirrorAll     == \E refresh \in BOOLEAN : Mirror(AllCopies, refresh)

\* The process runs on without a restart.
Steady == "crash" \notin Events

\* As long as it does, the event loop gets to the worker and to committed
\* requests, timers run out, and stores do not refuse for ever.
FairSpec ==
    /\ Spec
    /\ WF_vars(Steady /\ Work)
    /\ \A w \in Writers : WF_vars(Steady /\ WriteEnqueue(w))
    /\ \A p \in Paths : WF_vars(Steady /\ Elapse(p))
    /\ SF_vars(Steady /\ \E p \in Paths, f \in Files : ProcessBegin(p, f))
    /\ SF_vars(Steady /\ NothingPending)
    /\ SF_vars(Steady /\ DistributeAll)
    /\ SF_vars(Steady /\ MirrorAll)

-----------------------------------------------------------------------------
\* Some store still has to get bytes that are there to be given.
Lacks(f) == \E v \in Versions :
    \/ desc[f][v].at = "cache" /\ v \in cached
    \/ desc[f][v].at = "primary" /\ desc[f][v].copies # Mirrors

Queued(f) == path[f] \in items \/ CommittedBy(f) # {}

\* replication.py: "nothing is ever dropped silently".  A file that lacks a
\* copy is in the queue, or its writer is just about to put it there, unless
\* the file was moved while queued, written while it was worked on, read
\* while its primary was out of reach, cut off from the queue by a crash, or
\* written by a request that raised after it had changed the descriptor:
\* those are all the ways to fall out of the queue.
QueueCovers ==
    \A f \in Files \ excused : path[f] \in Paths /\ Lacks(f) => Queued(f)

\* An acknowledged write-back version of such a file keeps its local bytes
\* until the descriptor names a store that has them: neither the release
\* after a distribution nor the sweep comes too early, and only a disk that
\* loses entries takes them away.
AcknowledgedHeld == "cache" \notin Faults =>
    \A f \in Files \ excused, v \in Versions :
        path[f] \in Paths /\ desc[f][v].at = "cache" => v \in cached

\* A step keeps what f's descriptor knows: a stored version stays stored,
\* with all its copies, and a pending version stays until its bytes are
\* gone, unless a client deletes it.
Keeps(f) == \A v \in Versions \ deleted' :
    /\ desc[f][v].at = "primary" =>
          desc'[f][v].at = "primary" /\ desc[f][v].copies \subseteq desc'[f][v].copies
    /\ desc[f][v].at = "cache" /\ v \in cached => desc'[f][v].at \in {"cache", "primary"}

\* README: "Infinite versioning of files and folders".  No step loses a
\* version or a copy from the descriptor of a file on which no two
\* read-modify-writes overlapped and no read went wrong: appending, dating,
\* deleting, distributing and mirroring one after the other loses nothing,
\* whatever fails in between.
HistoryKept == [][\A f \in Files \ excused' : path[f] \in Paths => Keeps(f)]_vars

\* A file that lacks a copy gets it, in the modes that run a worker and with
\* stores that do not refuse for ever; failures, retries and further writes
\* included.
Replicated == \A f \in Files :
    HasWorker /\ Steady /\ path[f] \in Paths /\ Lacks(f) /\ f \notin excused
        ~> ~Lacks(f) \/ f \in excused \/ path[f] \notin Paths
=============================================================================
