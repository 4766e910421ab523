---------------------------- MODULE VersionCopies ----------------------------
(***************************************************************************)
(* The copies of a file system's files across its stores: content parts,   *)
(* descriptors and the pinned metadata document in the primary and in the  *)
(* mirrors (core/mirror.py, StoreFDRepository, the pinned-message metadata *)
(* repository, backfill and promotion), and the reads that fail over       *)
(* between them.                                                           *)
(*                                                                         *)
(* Message ids are positions in a store's history, so the same id names    *)
(* different messages in different stores.  One operation runs at a time   *)
(* (two at once are the subject of Replication and Namespace); a crash, a  *)
(* restart under another configuration, a message deleted by hand, a store *)
(* lost for good or a failed copy may come between any two of its steps.   *)
(* A look-up in a store that is not lost succeeds; every version here is   *)
(* written straight to the primary (write-back is in Replication).  Stores *)
(* of one backend have the same part limit, and it does not change.        *)
(***************************************************************************)
EXTENDS VersionRecord, FiniteSets, SequencesExt

CONSTANTS Files,
          Telegram,   \* the stores that are Telegram channels; the others are Discord's
          Size,       \* bytes of every version
          MaxVersion, \* versions ever written
          Scenarios   \* what may happen: see MCVersionCopies

VARIABLES scene,   \* one scenario
          primary, \* the configured primary and
          group,   \* its mirrors, in order
          lost,    \* stores that answer nothing any more
          msgs,    \* each store's messages
          pins,    \* the pinned ones
          refs,    \* the tree in memory: one file ref per file
          meta,    \* the metadata message, and its copies in the mirrors
          staged,  \* versions in the local cache
          op,      \* the operation under way
          rd,      \* the read under way
          acked,   \* acked[s][f]: the newest version promised to be in s
          last,    \* the newest version number
          left,    \* operations and faults the scenario still allows
          hurt,    \* stores that lost messages other than through the program
          stale    \* stores whose pinned metadata is not the tree in memory

vars == <<scene, primary, group, lost, msgs, pins, refs, meta, staged, op, rd,
          acked, last, left, hurt, stale>>
stores == <<lost, msgs, pins, hurt, stale>>

NoRef == [id |-> 0, mirrors |-> [s \in Stores |-> 0], store |-> NoStore]
NoMeta == [id |-> 0, copies |-> [s \in Stores |-> 0]]
Idle == [kind |-> "idle", pc |-> "idle"]
Down == [kind |-> "mount", pc |-> "down"]
Dead == [kind |-> "mount", pc |-> "dead"]
NoRead == [pc |-> "idle"]
Configured == {primary} \cup ToSet(group)
Content(k) == [i \in 1..Size |-> 10 * k + i]
Same(s, t) == (s \in Telegram) <=> (t \in Telegram)
(* A message; stray marks one that was copied through ids of another store. *)
Message(kind, body, fwd) == [kind |-> kind, body |-> body, fwd |-> fwd, stray |-> FALSE]
Doc(bytes, fwd) == Message("doc", bytes, fwd)
Text(fd) == Message("text", [i \in DOMAIN fd |-> ToDict(fd[i])], FALSE)
Blob(tree, fwd) == Message("meta", tree, fwd)

-----------------------------------------------------------------------------
(* What a store answers. *)

Is(s, id, kinds) == s \notin lost /\ id \in DOMAIN msgs[s] /\ msgs[s][id].kind \in kinds
HasDoc(s, id) == Is(s, id, {"doc", "meta"})
BytesOf(m) == IF m.kind = "doc" THEN m.body ELSE [i \in 1..scene.blob |-> 0]
Bytes(s, id) == BytesOf(msgs[s][id])
Joined(parts) == FlattenSeq(parts)

(* The tree in the newest pinned document. *)
Pinned(s) == {id \in pins[s] : Is(s, id, {"meta"})}
Newest(ids) == CHOOSE i \in ids : \A j \in ids : j <= i

Tree(s) == IF Pinned(s) = {} THEN [f \in Files |-> NoRef] ELSE msgs[s][Newest(Pinned(s))].body

(* IStore.upload cuts a stream at the store's part limit. *)
Cut(s, bytes) ==
  LET limit == scene.limit[s]
      n == IF bytes = <<>> THEN 1 ELSE (Len(bytes) + limit - 1) \div limit
  IN  [i \in 1..n |-> SubSeq(bytes, (i - 1) * limit + 1,
                             IF i * limit < Len(bytes) THEN i * limit ELSE Len(bytes))]

Lens(parts) == [i \in DOMAIN parts |-> Len(parts[i])]
NewIds(s, n) == [i \in 1..n |-> Len(msgs[s]) + i]
Added(s, new) == [msgs EXCEPT ![s] = @ \o new]
AddedDocs(s, parts, fwd) == Added(s, [i \in DOMAIN parts |-> Doc(parts[i], fwd)])
Erased(s, ids) == [i \in DOMAIN msgs[s] |-> IF i \in ids THEN [msgs[s][i] EXCEPT !.kind = "gone"]
                                                         ELSE msgs[s][i]]

-----------------------------------------------------------------------------
(* StoreFDRepository.get: relocate the ref, find the descriptor, relocate  *)
(* its versions and check them against the stores.  The operators take the *)
(* primary, the configured stores and the unreachable ones, so that they   *)
(* also say what another configuration would serve.                        *)

RelocatedRef(r, p) ==
  IF OwnedBy(r, p) THEN r
  ELSE LET kept == IF r.mirrors[r.store] > 0 THEN r ELSE [r EXCEPT !.mirrors[r.store] = r.id]
       IN  IF r.mirrors[p] > 0
             THEN [kept EXCEPT !.mirrors[p] = 0, !.id = r.mirrors[p], !.store = p]
             ELSE kept

Answers(s, id, kinds, down) == s \notin down /\ Is(s, id, kinds)

(* The descriptor text, from the primary or else from a mirror. *)
FdText(r, p, conf, down) ==
  LET copies == {<<s, r.mirrors[s]>> : s \in conf}
      texts == {c \in copies : Answers(c[1], c[2], {"text"}, down)}
  IN  IF OwnedBy(r, p) /\ Answers(p, r.id, {"text"}, down) THEN {msgs[p][r.id].body}
      ELSE {msgs[c[1]][c[2]].body : c \in texts}

(* Where part j of a version is: its own store, or an aligned mirror. *)
Holders(v, j, p, conf, down) ==
  {c \in (IF OwnedBy(v, p) THEN {<<p, v.ids[j]>>} ELSE {})
         \cup {<<s, v.mirrors[s][j]>> : s \in {t \in conf : j \in DOMAIN v.mirrors[t]}} :
     Answers(c[1], c[2], {"doc", "meta"}, down)}

Verified(v, s, down) ==
  /\ v.replicas[s].ids # <<>>
  /\ \A i \in DOMAIN v.replicas[s].ids : Answers(s, v.replicas[s].ids[i], {"doc", "meta"}, down)

(* One version in _validate_fv. *)
Checked(v, p, conf, down) ==
  LET held == \A j \in DOMAIN v.ids : Holders(v, j, p, conf, down) # {}
      size(j) == LET c == CHOOSE c \in Holders(v, j, p, conf, down) : TRUE IN Len(Bytes(c[1], c[2]))
      sized(s) == [v.replicas[s] EXCEPT !.sizes = [i \in DOMAIN v.replicas[s].ids |->
                                                     Len(Bytes(s, v.replicas[s].ids[i]))]]
  IN  IF ~IsValid(v) THEN v
      ELSE IF held THEN [v EXCEPT !.sizes = [j \in DOMAIN v.ids |-> size(j)]]
      ELSE IF \E s \in conf : Verified(v, s, down)
        THEN [v EXCEPT !.sizes = <<>>,
                       !.replicas = [s \in Stores |-> IF s \in conf /\ Verified(v, s, down)
                                                        THEN sized(s) ELSE v.replicas[s]]]
      ELSE SetInvalid(v)

(* The checked descriptor, newest version first; empty when no version can *)
(* be read.  Without `all' the check stops at the first readable version.  *)
Validated(fd, p, conf, down, all) ==
  LET checked == [i \in DOMAIN fd |-> Checked(fd[i], p, conf, down)]
      valid == {i \in DOMAIN fd : IsValid(checked[i])}
  IN  IF valid = {} THEN <<>>
      ELSE [i \in DOMAIN fd |-> IF all \/ \A j \in valid : i <= j THEN checked[i] ELSE fd[i]]

Get(r, p, conf, down, all) ==
  LET texts == FdText(RelocatedRef(r, p), p, conf, down)
      parsed(t) == [i \in DOMAIN t |-> Relocated(FromDict(t[i]), p)]
  IN  {Validated(parsed(t), p, conf, down, all) : t \in texts}

(* What the instance reads now; an unreadable descriptor is an empty one. *)
Fds(f, all) ==
  LET found == Get(refs[f], primary, Configured, lost, all)
  IN  IF found = {} THEN {<<>>} ELSE found

Latest(fd) == fd[CHOOSE i \in DOMAIN fd : IsValid(fd[i]) /\ \A j \in 1..(i - 1) : ~IsValid(fd[j])]
-----------------------------------------------------------------------------
(* Copying one version from `src' into `s'.  `local' is the version in the *)
(* local cache, or empty.                                                  *)

FitsAligned(s, src, sizes) ==
  Same(s, src) \/ \A i \in DOMAIN sizes : sizes[i] <= scene.limit[s]

(* MirrorGroup._part_sizes, for sizes that are not recorded. *)
Sizes(v, src) ==
  IF Len(v.sizes) = Len(v.ids) \/ \E i \in DOMAIN v.ids : ~HasDoc(src, v.ids[i]) THEN v.sizes
  ELSE [i \in DOMAIN v.ids |-> Len(Bytes(src, v.ids[i]))]

Part(v, src, sizes, local, i) ==
  IF local # <<>> THEN SubSeq(local, Offsets(sizes)[i] + 1, Offsets(sizes)[i] + sizes[i])
                  ELSE Bytes(src, v.ids[i])

(* copy_from works between Telegram channels only. *)
Forwards(s, src) == scene.mode # "reupload" /\ {s, src} \subseteq Telegram

(* The ways mirror_parts and _copy_to may go: a replica when the parts do  *)
(* not fit, else the server-side copy, with the re-upload as its fallback. *)
Ways(v, s, src, faulty) ==
  LET live == \A i \in DOMAIN v.ids : HasDoc(src, v.ids[i])
  IN  IF ~FitsAligned(s, src, Sizes(v, src)) THEN {"replica"}
      ELSE IF ~Forwards(s, src) THEN IF scene.mode = "forward" THEN {"refused"} ELSE {"reupload"}
      ELSE IF scene.mode = "forward" THEN {"forward"}
      ELSE (IF live THEN {"forward"} ELSE {}) \cup (IF faulty \/ ~live THEN {"reupload"} ELSE {})

(* The parts of `v' that can be read, up to the first one that is gone. *)
Readable(v, src, sizes, local) ==
  LET n == CHOOSE n \in 0..Len(v.ids) :
             /\ local # <<>> \/ \A i \in 1..n : HasDoc(src, v.ids[i])
             /\ n = Len(v.ids) \/ (local = <<>> /\ ~HasDoc(src, v.ids[n + 1]))
  IN  [i \in 1..n |-> Part(v, src, sizes, local, i)]

(* An attempt: the way taken, the documents that reach `s', and whether    *)
(* they are a complete copy.  One that fails, because a part is gone or    *)
(* for a reason of its own (`faulty'), leaves what it had sent behind.     *)
Attempts(v, s, src, local, faulty) ==
  LET sizes == Sizes(v, src)
      known == s \notin lost /\ Len(sizes) = Len(v.ids)
      parts == Readable(v, src, sizes, local)
      docs(way) == IF way = "replica" THEN Cut(s, Joined(parts)) ELSE parts
      whole(way) == /\ way # "refused" /\ Len(parts) = Len(v.ids)
                    /\ way = "forward" => \A i \in DOMAIN v.ids : HasDoc(src, v.ids[i])
      ways == Ways(v, s, src, faulty)
      failed(sent) == [how |-> "failed", parts |-> sent, done |-> FALSE]
  IN  IF ~known THEN {failed(<<>>)}
      ELSE {[how |-> way, parts |-> docs(way), done |-> TRUE] : way \in {w \in ways : whole(w)}}
           \cup {failed(IF way = "reupload" THEN parts ELSE <<>>) : way \in {w \in ways : ~whole(w)}}
           \cup (IF faulty THEN {failed(<<>>)} \cup {failed(Front(docs(way))) :
                     way \in {w \in ways \cap {"reupload", "replica"} : whole(w)}}
                           ELSE {})

(* The version with the copy recorded. *)
Recorded(v, s, how, ids, parts) ==
  IF how = "replica" THEN [v EXCEPT !.replicas[s] = [ids |-> ids, sizes |-> Lens(parts)]]
                     ELSE [v EXCEPT !.mirrors[s] = ids]
-----------------------------------------------------------------------------
(* Operations.  Each begins by reading the descriptor, which relocates the *)
(* ref in memory.                                                          *)

Begun(kind, pc, f, fd) ==
  [kind |-> kind, pc |-> pc, file |-> f, fd |-> fd, i |-> 1, todo |-> <<>>, k |-> 0,
   ref |-> RelocatedRef(refs[f], primary), failed |-> FALSE, changed |-> FALSE,
   verify |-> FALSE, raced |-> FALSE, del |-> [s \in Stores |-> {}]]

Allowed(kind) == op.kind = "idle" /\ left[kind] > 0
Took(kind) == left' = [left EXCEPT ![kind] = @ - 1]
Faulty == left.fault > 0
Blamed(n) == left' = [left EXCEPT !.fault = @ - n]
Goto(pc) == op' = [op EXCEPT !.pc = pc]
Local(v) == IF <<op.file, v.id>> \in staged THEN Content(v.id) ELSE <<>>
Ended(clean) == [kind |-> "idle", pc |-> "idle", clean |-> clean]
\* an exception at start-up ends the process
Raises == op' = IF op.kind = "mount" THEN Dead ELSE Ended(FALSE)

\* a read, or a backfill, that a deletion overtook
Raced(r) == IF "raced" \in DOMAIN r THEN [r EXCEPT !.raced = TRUE] ELSE r

(* FileDescApi.append_file_version up to the upload. *)
WriteBegin(f) ==
  /\ Allowed("write") /\ last < MaxVersion /\ f \in scene.files
  /\ \E fd \in IF refs[f] = NoRef THEN {<<>>} ELSE Fds(f, FALSE) :
       op' = [Begun("write", "upload", f, fd) EXCEPT !.k = last + 1]
  /\ refs' = [refs EXCEPT ![f] = RelocatedRef(@, primary)]
  /\ last' = last + 1
  /\ Took("write")
  /\ UNCHANGED <<scene, primary, group, stores, meta, staged, rd, acked>>

(* StoreFileContentRepository.save: the primary first, then the mirrors. *)
Upload ==
  /\ op.pc = "upload" /\ primary \notin lost
  /\ \E parts \in {Cut(primary, Content(op.k))} :
       /\ msgs' = AddedDocs(primary, parts, FALSE)
       /\ op' = [op EXCEPT !.pc = "mirror", !.todo = IF scene.inline THEN group ELSE <<>>,
                           !.fd = <<FromSent(op.k, NewIds(primary, Len(parts)), Lens(parts))>> \o @]
  /\ staged' = IF scene.stage THEN staged \cup {<<op.file, op.k>>} ELSE staged
  /\ UNCHANGED <<scene, primary, group, lost, pins, hurt, stale, refs, meta, rd, acked, last, left>>

UploadFails ==
  /\ op.pc = "upload" /\ (primary \in lost \/ Faulty)
  /\ Raises
  /\ Blamed(IF primary \in lost THEN 0 ELSE 1)
  /\ UNCHANGED <<scene, primary, group, stores, refs, meta, staged, rd, acked, last>>

(* mirror_parts, one store at a time, for the version op.fd[op.i].  A copy *)
(* that fails is skipped, or with `strict' fails the operation.            *)
MirrorStore ==
  /\ op.pc = "mirror" /\ op.todo # <<>>
  /\ \E s \in {Head(op.todo)}, v \in {op.fd[op.i]} :
       \E a \in Attempts(v, s, primary, Local(v), Faulty) :
         /\ msgs' = AddedDocs(s, a.parts, a.how = "forward")
         /\ Blamed(IF a \in Attempts(v, s, primary, Local(v), FALSE) THEN 0 ELSE 1)
         /\ IF a.done
              THEN op' = [op EXCEPT !.todo = Tail(@), !.changed = TRUE,
                     !.fd[op.i] = Recorded(@, s, a.how, NewIds(s, Len(a.parts)), a.parts)]
              ELSE IF scene.strict THEN Raises
                                   ELSE op' = [op EXCEPT !.todo = Tail(@), !.failed = TRUE]
  /\ UNCHANGED <<scene, primary, group, lost, pins, hurt, stale, refs, meta, staged, rd, acked, last>>

(* All mirrors were tried.  Bytes staged for a backfill are released once  *)
(* nothing is missing, those of an upload in any case.                     *)
MirrorDone ==
  /\ op.pc = "mirror" /\ op.todo = <<>>
  /\ op' = [op EXCEPT !.pc = IF op.kind = "write" THEN "save" ELSE "version",
                      !.i = IF op.kind = "write" THEN @ ELSE @ + 1]
  /\ staged' = IF scene.inline \/ \A s \in ToSet(group) : HasCopyIn(op.fd[op.i], s)
                 THEN staged \ {<<op.file, op.fd[op.i].id>>} ELSE staged
  /\ UNCHANGED <<scene, primary, group, stores, refs, meta, rd, acked, last, left>>

-----------------------------------------------------------------------------
(* StoreFDRepository.save and mirror_fd. *)

\* mutant: versions of a former primary are claimed as well
Stamped_All(fd) == [i \in DOMAIN fd |-> IF IsValid(fd[i]) THEN [fd[i] EXCEPT !.store = primary] ELSE fd[i]]

Stamped(fd) ==
  [i \in DOMAIN fd |-> IF fd[i].store = NoStore /\ IsValid(fd[i])
                         THEN [fd[i] EXCEPT !.store = primary] ELSE fd[i]]

Edited(s, id, fd) == [msgs EXCEPT ![s][id] = Text(fd)]
Sent(s, fd) == Added(s, <<Text(fd)>>)

(* An owned descriptor is edited in place; one that is gone, new, or still *)
(* in a former primary is sent afresh.                                     *)
SaveFd ==
  /\ op.pc = "save" /\ primary \notin lost
  /\ \E fd \in {Stamped(op.fd)}, r \in {op.ref} :
       LET owned == r # NoRef /\ OwnedBy(r, primary)
           edit == owned /\ Is(primary, r.id, {"text"})
           kept == IF owned /\ ~edit THEN NoRef ELSE r
       IN  /\ msgs' = IF edit THEN Edited(primary, r.id, fd) ELSE Sent(primary, fd)
           /\ op' = [op EXCEPT !.pc = "savemirrors", !.todo = group, !.fd = fd,
                               !.ref = [id |-> IF edit THEN r.id ELSE Len(msgs[primary]) + 1,
                                        mirrors |-> kept.mirrors, store |-> primary]]
  /\ UNCHANGED <<scene, primary, group, lost, pins, hurt, stale, refs, meta, staged, rd, acked, last, left>>

VersionIds(v, s) ==
  (IF v.store = s THEN ToSet(v.ids) ELSE {}) \cup ToSet(v.mirrors[s]) \cup ToSet(v.replicas[s].ids)

(* A copy of a version that was not in the primary when it was copied. *)
Stray(v) == \E s \in Stores : \E i \in VersionIds(v, s) \cap DOMAIN msgs[s] : msgs[s][i].stray

FdIds(fd, s) == UNION {VersionIds(fd[i], s) : i \in DOMAIN fd} \ {0}

(* A failed send: a copy of a file that never got its ref is dropped again *)
(* (_discard_orphans), anything else stays as it is.                       *)
SaveFails ==
  /\ op.pc = "save" /\ (primary \in lost \/ Faulty)
  /\ msgs' = IF op.kind # "copy" THEN msgs
             ELSE [s \in Stores |-> IF s \in lost THEN msgs[s] ELSE Erased(s, FdIds(op.fd, s))]
  /\ Raises
  /\ Blamed(IF primary \in lost THEN 0 ELSE 1)
  /\ UNCHANGED <<scene, primary, group, lost, pins, hurt, stale, refs, meta, staged, rd, acked, last>>

SaveMirror ==
  /\ op.pc = "savemirrors" /\ op.todo # <<>>
  /\ \E s \in {Head(op.todo)} :
       \/ /\ s \notin lost
          /\ \E edit \in {Is(s, op.ref.mirrors[s], {"text"})} :
               /\ msgs' = IF edit THEN Edited(s, op.ref.mirrors[s], op.fd) ELSE Sent(s, op.fd)
               /\ op' = [op EXCEPT !.todo = Tail(@),
                                   !.ref.mirrors[s] = IF edit THEN @ ELSE Len(msgs[s]) + 1]
          /\ UNCHANGED left
       \/ /\ s \in lost \/ Faulty
          /\ IF scene.strict
               THEN /\ Raises
                    /\ msgs' = IF op.kind # "copy" THEN msgs
                         ELSE [t \in Stores |-> IF t \in lost THEN msgs[t] ELSE Erased(t, FdIds(op.fd, t))]
               ELSE op' = [op EXCEPT !.todo = Tail(@)] /\ UNCHANGED msgs
          /\ Blamed(IF s \in lost THEN 0 ELSE 1)
  /\ UNCHANGED <<scene, primary, group, lost, pins, hurt, stale, refs, meta, staged, rd, acked, last>>

(* The ref follows the descriptor; the metadata is pushed when it changed. *)
Promised(s) ==
  s = primary \/ (/\ s \in ToSet(group) /\ scene.strict /\ scene.inline
                  /\ Same(s, primary) \/ scene.blob <= scene.limit[s])

(* An earlier push of the ref failed and nothing has repeated it: the ref  *)
(* in memory is as the write leaves it, so the write does not push either. *)
Unpushed(f) == primary \in stale /\ Tree(primary)[f] # refs[f]

Acked ==
  acked' = IF op.kind \notin {"write", "copy"} \/ Unpushed(op.file) THEN acked
           ELSE [s \in Stores |-> IF Promised(s) THEN [acked[s] EXCEPT ![op.file] = Latest(op.fd).id]
                                                 ELSE acked[s]]

Finishes == op' = Ended(op.kind = "backfill" /\ ~op.failed /\ ~op.raced) /\ Acked

Synced ==
  /\ op.pc = "savemirrors" /\ op.todo = <<>>
  /\ refs' = [refs EXCEPT ![op.file] = op.ref]
  /\ IF refs[op.file] = op.ref THEN Finishes ELSE Goto("push") /\ UNCHANGED acked
  /\ UNCHANGED <<scene, primary, group, stores, meta, staged, rd, last, left>>
-----------------------------------------------------------------------------
(* The pinned metadata document: PinnedMessageMetadataRepository.push. *)

BlobFits(s) == scene.blob <= scene.limit[s]

(* The document is replaced in place.  Telegram refuses to edit a message  *)
(* that was forwarded, and replace_document then retries without end.      *)
PushEdit ==
  /\ op.pc = "push" /\ meta.id > 0 /\ BlobFits(primary)
  /\ Is(primary, meta.id, {"meta"}) /\ ~msgs[primary][meta.id].fwd
  /\ msgs' = [msgs EXCEPT ![primary][meta.id] = Blob(refs, FALSE)]
  /\ op' = [op EXCEPT !.pc = "pinned", !.todo = group]
  /\ stale' = ToSet(group)
  /\ UNCHANGED <<scene, primary, group, lost, pins, hurt, refs, meta, staged, rd, acked, last, left>>

(* The document does not fit, its store is lost, or replace_document, the  *)
(* upload or the pinning fails: the tree in memory keeps the change.       *)
PushFails ==
  /\ op.pc = "push" /\ (~BlobFits(primary) \/ primary \in lost \/ Faulty)
  /\ Raises
  /\ stale' = Configured
  /\ Blamed(IF BlobFits(primary) /\ primary \notin lost THEN 1 ELSE 0)
  /\ UNCHANGED <<scene, primary, group, lost, msgs, pins, hurt, refs, meta, staged, rd, acked, last>>

(* A new file system: the document is saved like any content, mirrored     *)
(* along with it, pinned, and its copies are adopted.                      *)
PushNew ==
  /\ op.pc = "push" /\ meta.id = 0 /\ BlobFits(primary) /\ primary \notin lost
  /\ msgs' = Added(primary, <<Blob(refs, FALSE)>>)
  /\ op' = [op EXCEPT !.pc = "blobcopies", !.todo = IF scene.inline THEN group ELSE <<>>,
                      !.k = Len(msgs[primary]) + 1]
  /\ stale' = ToSet(group)
  /\ UNCHANGED <<scene, primary, group, lost, pins, hurt, refs, meta, staged, rd, acked, last, left>>

(* A copy of the blob in `s', by the server or by re-upload; a blob that   *)
(* does not fit becomes a replica nobody reads.                            *)
BlobCopy(s, id) ==
  IF Same(s, primary) \/ BlobFits(s)
    THEN <<Blob(msgs[primary][id].body, Forwards(s, primary))>>
    ELSE [i \in DOMAIN Cut(s, Bytes(primary, id)) |-> Doc(Cut(s, Bytes(primary, id))[i], FALSE)]

Copyable(s) ==
  /\ s \notin lost
  /\ scene.mode = "forward" => Forwards(s, primary) \/ ~(Same(s, primary) \/ BlobFits(s))

BlobMirror ==
  /\ op.pc = "blobcopies" /\ op.todo # <<>>
  /\ \E s \in {Head(op.todo)} :
       \/ /\ Copyable(s)
          /\ msgs' = Added(s, BlobCopy(s, op.k))
          /\ op' = [op EXCEPT !.todo = Tail(@),
                 !.ref.mirrors[s] = IF Same(s, primary) \/ BlobFits(s) THEN Len(msgs[s]) + 1 ELSE 0]
          /\ UNCHANGED left
       \/ /\ ~Copyable(s) \/ Faulty
          /\ IF scene.strict THEN Raises ELSE op' = [op EXCEPT !.todo = Tail(@)]
          /\ Blamed(IF Copyable(s) THEN 1 ELSE 0)
          /\ UNCHANGED msgs
  /\ UNCHANGED <<scene, primary, group, lost, pins, hurt, stale, refs, meta, staged, rd, acked, last>>

PinNew ==
  /\ op.pc = "blobcopies" /\ op.todo = <<>>
  /\ pins' = [pins EXCEPT ![primary] = @ \cup {op.k}]
  /\ meta' = [meta EXCEPT !.id = op.k]
  /\ op' = [op EXCEPT !.pc = "adopt",
                      !.todo = SelectSeq(group, LAMBDA s : op.ref.mirrors[s] > 0)]
  /\ UNCHANGED <<scene, primary, group, lost, msgs, hurt, stale, refs, staged, rd, acked, last, left>>

\* mutant: the old copy is unpinned and the new one forgotten
PinIn_Unpinned(s, id) ==
  LET old == meta.copies[s]
  IN  /\ pins' = [pins EXCEPT ![s] = @ \ {old}]
      /\ msgs' = [msgs EXCEPT ![s] = Erased(s, {old})]
      /\ meta' = [meta EXCEPT !.copies[s] = id]
      /\ stale' = stale \ {s}

(* The new copy is pinned and the one before it deleted. *)
PinIn(s, id) ==
  LET old == meta.copies[s]
  IN  /\ pins' = [pins EXCEPT ![s] = (@ \cup {id}) \ {old}]
      /\ msgs' = [msgs EXCEPT ![s] = Erased(s, {old})]
      /\ meta' = [meta EXCEPT !.copies[s] = id]
      /\ stale' = stale \ {s}

PinFails(s, pc) ==
  /\ s \in lost \/ Faulty
  /\ IF scene.strict THEN Raises ELSE op' = [op EXCEPT !.pc = pc, !.todo = Tail(@)]
  /\ Blamed(IF s \in lost THEN 0 ELSE 1)
  /\ UNCHANGED <<pins, msgs, meta, stale>>

Adopt ==
  /\ op.pc = "adopt" /\ op.todo # <<>>
  /\ \E s \in {Head(op.todo)} :
       \/ /\ s \notin lost /\ PinIn(s, op.ref.mirrors[s])
          /\ op' = [op EXCEPT !.todo = Tail(@)]
          /\ UNCHANGED left
       \/ PinFails(s, "adopt")
  /\ UNCHANGED <<scene, primary, group, lost, hurt, refs, staged, rd, acked, last>>

(* mirror_pinned: a fresh copy of the edited blob for every mirror that    *)
(* can hold it in one message, pinned in the place of the last one.        *)
PinCopy ==
  /\ op.pc = "pinned" /\ op.todo # <<>>
  /\ \E s \in {Head(op.todo)} :
       \/ /\ ~Same(s, primary) /\ ~BlobFits(s)
          /\ op' = [op EXCEPT !.todo = Tail(@)]
          /\ UNCHANGED <<msgs, left, pins, meta>>
       \/ /\ Same(s, primary) \/ BlobFits(s)
          /\ Copyable(s) /\ primary \notin lost
          /\ msgs' = Added(s, BlobCopy(s, meta.id))
          /\ op' = [op EXCEPT !.pc = "pin", !.k = Len(msgs[s]) + 1]
          /\ UNCHANGED <<left, pins, meta>>
       \/ /\ Same(s, primary) \/ BlobFits(s)
          /\ ~Copyable(s) \/ primary \in lost
          /\ IF scene.strict THEN Raises ELSE op' = [op EXCEPT !.todo = Tail(@)]
          /\ UNCHANGED <<msgs, left, pins, meta>>
  /\ UNCHANGED <<scene, primary, group, lost, hurt, stale, refs, staged, rd, acked, last>>

Pin ==
  /\ op.pc = "pin"
  /\ \E s \in {Head(op.todo)} :
       \/ /\ s \notin lost /\ PinIn(s, op.k)
          /\ op' = [op EXCEPT !.pc = "pinned", !.todo = Tail(@)]
          /\ UNCHANGED left
       \/ PinFails(s, "pinned")
  /\ UNCHANGED <<scene, primary, group, lost, hurt, refs, staged, rd, acked, last>>

(* The push is over: a removal goes on to delete the file's messages. *)
Pushed ==
  /\ op.pc \in {"pinned", "adopt"} /\ op.todo = <<>>
  /\ IF op.kind = "remove"
       THEN /\ op' = [op EXCEPT !.pc = "delete",
                                !.todo = SelectSeq(<<primary>> \o group, LAMBDA s : op.del[s] # {})]
            /\ UNCHANGED acked
       ELSE Finishes
  /\ UNCHANGED <<scene, primary, group, stores, refs, meta, staged, rd, last, left>>

-----------------------------------------------------------------------------
(* FileApi.rm. *)

Shared(f) == \E g \in Files \ {f} : refs[g].id = refs[f].id

\* mutant: the primary's id is deleted in every store
RefIds_Everywhere(r, s) == {r.id, r.mirrors[s]} \ {0}

(* _collect_ref_ids and _collect_version_ids: an id goes to the store it   *)
(* belongs to.                                                             *)
RefIds(r, s) == ((IF r.store = s THEN {r.id} ELSE {}) \cup {r.mirrors[s]}) \ {0}

RemoveBegin(f) ==
  /\ Allowed("remove") /\ refs[f] # NoRef
  /\ \E fd \in Fds(f, FALSE), r \in {RelocatedRef(refs[f], primary)} :
       op' = [Begun("remove", "push", f, <<>>) EXCEPT !.del =
                [s \in Stores |-> IF Shared(f) THEN {} ELSE FdIds(fd, s) \cup RefIds(r, s)]]
  /\ refs' = [refs EXCEPT ![f] = NoRef]
  /\ acked' = [s \in Stores |-> [acked[s] EXCEPT ![f] = 0]]
  /\ Took("remove")
  /\ UNCHANGED <<scene, primary, group, stores, meta, staged, rd, last>>

Delete ==
  /\ op.pc = "delete" /\ op.todo # <<>>
  /\ \E s \in {Head(op.todo)} :
       \/ s \notin lost /\ msgs' = [msgs EXCEPT ![s] = Erased(s, op.del[s])] /\ UNCHANGED left
       \/ s \in lost /\ UNCHANGED <<msgs, left>>
       \/ s \notin lost /\ Faulty /\ Blamed(1) /\ UNCHANGED msgs
  /\ op' = [op EXCEPT !.todo = Tail(@)]
  /\ rd' = Raced(rd)
  /\ UNCHANGED <<scene, primary, group, lost, pins, hurt, stale, refs, meta, staged, acked, last>>

Deleted ==
  /\ op.pc = "delete" /\ op.todo = <<>>
  /\ op' = Ended(FALSE)
  /\ staged' = {e \in staged : e[1] # op.file}
  /\ UNCHANGED <<scene, primary, group, stores, refs, meta, rd, acked, last, left>>
-----------------------------------------------------------------------------
(* FileApi.copy: _duplicate_versions copies every part inside the primary. *)
(* The copied versions keep their numbers here, which name their content.  *)

CopyBegin(f, g) ==
  /\ Allowed("copy") /\ refs[f] # NoRef /\ refs[g] = NoRef
  /\ \E fd \in Fds(f, TRUE) \ {<<>>} :
       op' = [Begun("copy", "duplicate", g, fd) EXCEPT !.ref = NoRef]
  /\ refs' = [refs EXCEPT ![f] = RelocatedRef(@, primary)]
  /\ Took("copy")
  /\ UNCHANGED <<scene, primary, group, stores, meta, staged, rd, acked, last>>

(* copy_within: forwarding takes any message there is, the re-upload only  *)
(* documents.                                                              *)
Duplicates(ids) ==
  LET live == \A i \in DOMAIN ids : Is(primary, ids[i], {"doc", "meta", "text"})
      docs == \A i \in DOMAIN ids : HasDoc(primary, ids[i])
      forward == primary \in Telegram /\ live
  IN  (IF forward THEN {[i \in DOMAIN ids |-> [msgs[primary][ids[i]] EXCEPT !.fwd = TRUE]]} ELSE {})
      \cup (IF docs /\ (Faulty \/ ~forward) THEN {[i \in DOMAIN ids |-> Doc(Bytes(primary, ids[i]), FALSE)]}
                                            ELSE {})

(* The duplicates of a version that is still in a former primary: its ids  *)
(* name other messages here.                                               *)
Marked(new, offset) ==
  [j \in DOMAIN new |-> [new[j] EXCEPT !.stray = \E i \in DOMAIN op.fd :
      j \in (offset[i] + 1)..offset[i + 1] /\ ~OwnedBy(op.fd[i], primary)]]

Duplicate ==
  /\ op.pc = "duplicate"
  /\ \E ids \in {Joined([i \in DOMAIN op.fd |-> op.fd[i].ids])} :
     \E offset \in {Offsets([i \in DOMAIN op.fd |-> Len(op.fd[i].ids)])} :
       \/ \E new \in Duplicates(ids) :
            /\ msgs' = Added(primary, Marked(new, offset))
            /\ op' = [op EXCEPT !.pc = "version", !.fd = [i \in DOMAIN op.fd |->
                 [FromSent(op.fd[i].id, SubSeq(NewIds(primary, Len(ids)), offset[i] + 1, offset[i + 1]),
                           op.fd[i].sizes) EXCEPT !.store = primary]]]
            /\ Blamed(IF primary \in Telegram /\ ~new[1].fwd /\ Faulty THEN 1 ELSE 0)
       \/ /\ Duplicates(ids) = {}
          /\ Raises
          /\ UNCHANGED <<msgs, left>>
  /\ UNCHANGED <<scene, primary, group, lost, pins, hurt, stale, refs, meta, staged, rd, acked, last>>

-----------------------------------------------------------------------------
(* backfill_file. *)

(* _verify_mirrors drops the copies that are no longer all there. *)
Broken(v, s) ==
  /\ s \in Configured \ (lost \cup {v.store})
  /\ \E i \in VersionIds(v, s) \ {0} : ~HasDoc(s, i)

Dropped(v) ==
  IF ~IsValid(v) THEN v
  ELSE [v EXCEPT !.mirrors = [s \in Stores |-> IF Broken(v, s) THEN <<>> ELSE @[s]],
                 !.replicas = [s \in Stores |-> IF Broken(v, s) THEN NoReplica ELSE @[s]]]

(* A descriptor that cannot be read is left alone, and counts as no        *)
(* failure.                                                                *)
BackfillBegin(f, verify) ==
  /\ Allowed("backfill") /\ refs[f] # NoRef /\ group # <<>>
  /\ \E fd \in Fds(f, TRUE) :
       op' = IF fd = <<>> THEN Ended(TRUE)
             ELSE [Begun("backfill", "version", f,
                         IF verify THEN [i \in DOMAIN fd |-> Dropped(fd[i])] ELSE fd)
                     EXCEPT !.verify = verify]
  /\ refs' = [refs EXCEPT ![f] = RelocatedRef(@, primary)]
  /\ Took("backfill")
  /\ UNCHANGED <<scene, primary, group, stores, meta, staged, rd, acked, last>>

Missing(v) == SelectSeq(group, LAMBDA s : ~HasCopyIn(v, s))

(* The next version: an invalid one is passed over, one in a former        *)
(* primary is copied into the primary first, then its mirrors follow.      *)
NextVersion ==
  /\ op.pc = "version" /\ op.i <= Len(op.fd)
  /\ \E v \in {op.fd[op.i]} :
       op' = IF ~IsValid(v) \/ (op.kind = "copy" /\ ~scene.inline) THEN [op EXCEPT !.i = @ + 1]
             ELSE IF op.kind = "copy" THEN [op EXCEPT !.pc = "mirror", !.todo = group]
             ELSE IF OwnedBy(v, primary) THEN [op EXCEPT !.pc = "mirror", !.todo = Missing(v)]
             ELSE [op EXCEPT !.pc = "promote"]
  /\ UNCHANGED <<scene, primary, group, stores, refs, meta, staged, rd, acked, last, left>>

(* copy_into_primary: the copy becomes the version's primary layout.  When *)
(* there is none yet, nothing is mirrored either: the next run retries.    *)
CopyIntoPrimary ==
  /\ op.pc = "promote"
  /\ \E v \in {op.fd[op.i]} :
       \/ /\ v.store \in Configured
          /\ \E a \in Attempts(v, primary, v.store, <<>>, Faulty) :
               /\ msgs' = AddedDocs(primary, a.parts, a.how = "forward")
               /\ Blamed(IF a \in Attempts(v, primary, v.store, <<>>, FALSE) THEN 0 ELSE 1)
               /\ IF a.done
                    THEN \E new \in {Relocated([Recorded(v, primary, a.how, NewIds(primary, Len(a.parts)), a.parts)
                                                  EXCEPT !.sizes = Sizes(v, v.store)], primary)} :
                           op' = [op EXCEPT !.pc = "mirror", !.fd[op.i] = new, !.todo = Missing(new),
                                            !.changed = TRUE]
                    ELSE op' = [op EXCEPT !.pc = "mirror", !.todo = <<>>, !.failed = TRUE]
       \/ /\ v.store \notin Configured
          /\ op' = [op EXCEPT !.pc = "mirror", !.todo = <<>>, !.failed = TRUE]
          /\ UNCHANGED <<msgs, left>>
  /\ UNCHANGED <<scene, primary, group, lost, pins, hurt, stale, refs, meta, staged, rd, acked, last>>

(* The commit point: changed records, or a mirror without the descriptor. *)
VersionsDone ==
  /\ op.pc = "version" /\ op.i > Len(op.fd)
  /\ IF op.kind = "copy" \/ op.changed \/ \E s \in ToSet(group) : op.ref.mirrors[s] = 0
       THEN Goto("save") /\ UNCHANGED acked
       ELSE Finishes
  /\ UNCHANGED <<scene, primary, group, stores, refs, meta, staged, rd, last, left>>

-----------------------------------------------------------------------------
(* Starting, restarting under another configuration, and what befalls the  *)
(* stores.                                                                 *)

Mount ==
  /\ op = Down /\ primary \notin lost
  /\ IF Pinned(primary) # {}
       THEN /\ meta' = [NoMeta EXCEPT !.id = Newest(Pinned(primary))]
            /\ refs' = Tree(primary)
            /\ op' = Ended(FALSE)
       ELSE /\ op' = [Begun("mount", "push", CHOOSE f \in Files : TRUE, <<>>) EXCEPT !.ref = NoRef]
            /\ UNCHANGED <<meta, refs>>
  /\ stale' = {s \in ToSet(group) : Tree(s) # Tree(primary)}
  /\ UNCHANGED <<scene, primary, group, lost, msgs, pins, hurt, staged, rd, acked, last, left>>

(* A crash, or a promotion: a store is made the primary only when it has   *)
(* the metadata.  What it was never promised is given up with it: its tree *)
(* replaces the other stores' from here on.                                *)
Restart(c) ==
  /\ left.restart > 0
  /\ c.primary = primary \/ Pinned(c.primary) # {}
  /\ primary' = c.primary /\ group' = c.group
  /\ op' = Down /\ rd' = NoRead
  /\ refs' = [f \in Files |-> NoRef] /\ meta' = NoMeta
  /\ acked' = [s \in Stores |-> [f \in Files |-> IF acked[c.primary][f] < acked[s][f]
                                                   THEN acked[c.primary][f] ELSE acked[s][f]]]
  /\ Took("restart")
  /\ UNCHANGED <<scene, stores, staged, last>>

HandDelete(s, id) ==
  /\ left.hand > 0 /\ Is(s, id, scene.byhand)
  /\ msgs' = [msgs EXCEPT ![s] = Erased(s, {id})]
  /\ hurt' = hurt \cup {s}
  /\ op' = Raced(op) /\ rd' = Raced(rd)
  /\ Took("hand")
  /\ UNCHANGED <<scene, primary, group, lost, pins, stale, refs, meta, staged, acked, last>>

Lose(s) ==
  /\ left.lose > 0 /\ s \notin lost
  /\ lost' = lost \cup {s} /\ hurt' = hurt \cup {s}
  /\ op' = Raced(op) /\ rd' = Raced(rd)
  /\ Took("lose")
  /\ UNCHANGED <<scene, primary, group, msgs, pins, stale, refs, meta, staged, acked, last>>

-----------------------------------------------------------------------------
(* Reads: StoreFileContentRepository.get, _stream_layouts, _download_part. *)

ReadBegin(f, range) ==
  /\ left.read > 0 /\ rd.pc # "reading" /\ op.kind # "mount" /\ refs[f] # NoRef
  /\ \E fd \in Fds(f, FALSE) \ {<<>>} :
     \E layouts \in {Layouts(Latest(fd), primary, Configured)} :
     \E l \in layouts :
       rd' = [pc |-> "reading", id |-> Latest(fd).id, begin |-> range[1], end |-> range[2],
              layout |-> l, rest |-> layouts \ {l}, out |-> <<>>, raced |-> FALSE,
              stray |-> Stray(Latest(fd))]
  /\ refs' = [refs EXCEPT ![f] = RelocatedRef(@, primary)]
  /\ Took("read")
  /\ UNCHANGED <<scene, primary, group, stores, meta, staged, op, acked, last>>

(* What is left of the range, on the current layout. *)
Slices == MapRange(rd.layout.sizes, rd.begin + Len(rd.out), rd.end)
Slice == CHOOSE s \in Slices : \A t \in Slices : s.part <= t.part
Serving == {c \in rd.layout.from[Slice.part] : HasDoc(c[1], c[2]) /\ Len(Bytes(c[1], c[2])) > Slice.end}

ReadChunk ==
  /\ rd.pc = "reading" /\ Slices # {}
  /\ \E c \in Serving : rd' = [rd EXCEPT !.out = Append(@, Bytes(c[1], c[2])[Slice.begin + 1])]
  /\ UNCHANGED <<scene, primary, group, stores, refs, meta, staged, op, acked, last, left>>

(* No message serves the next part: another layout goes on from there. *)
ReadFailsOver ==
  /\ rd.pc = "reading" /\ Slices # {} /\ Serving = {}
  /\ \/ \E l \in rd.rest : rd' = [rd EXCEPT !.layout = l, !.rest = @ \ {l}]
     \/ rd.rest = {} /\ rd' = [rd EXCEPT !.pc = "failed"]
  /\ UNCHANGED <<scene, primary, group, stores, refs, meta, staged, op, acked, last, left>>

ReadEnds ==
  /\ rd.pc = "reading" /\ Slices = {}
  /\ rd' = [rd EXCEPT !.pc = "done"]
  /\ UNCHANGED <<scene, primary, group, stores, refs, meta, staged, op, acked, last, left>>

-----------------------------------------------------------------------------
Init ==
  /\ scene \in Scenarios
  /\ primary = scene.start.primary /\ group = scene.start.group
  /\ lost = {} /\ hurt = {} /\ stale = {}
  /\ msgs = [s \in Stores |-> <<>>] /\ pins = [s \in Stores |-> {}]
  /\ refs = [f \in Files |-> NoRef] /\ meta = NoMeta /\ staged = {}
  /\ op = Down /\ rd = NoRead
  /\ acked = [s \in Stores |-> [f \in Files |-> 0]] /\ last = 0
  /\ left = scene.left

Request ==
  \/ \E f \in Files : WriteBegin(f) \/ RemoveBegin(f)
  \/ \E f, g \in Files : CopyBegin(f, g)
  \/ \E f \in Files, verify \in BOOLEAN : BackfillBegin(f, verify)
  \/ \E f \in Files, range \in scene.ranges : ReadBegin(f, range)

Proceed ==
  \/ Mount \/ Upload \/ UploadFails \/ MirrorStore \/ MirrorDone
  \/ SaveFd \/ SaveFails \/ SaveMirror \/ Synced
  \/ PushEdit \/ PushFails \/ PushNew \/ BlobMirror \/ PinNew \/ Adopt \/ PinCopy \/ Pin \/ Pushed
  \/ Delete \/ Deleted \/ Duplicate \/ NextVersion \/ CopyIntoPrimary \/ VersionsDone

Read == ReadChunk \/ ReadFailsOver \/ ReadEnds

Fault ==
  \/ \E c \in scene.configs : Restart(c)
  \/ \E s \in Stores : Lose(s) \/ \E id \in DOMAIN msgs[s] : HandDelete(s, id)

Next == Request \/ Proceed \/ Read \/ Fault

Spec == Init /\ [][Next]_vars
-----------------------------------------------------------------------------
(* Properties. *)

Texts == UNION {{msgs[s][i].body : i \in {j \in DOMAIN msgs[s] : msgs[s][j].kind = "text"}} : s \in Stores}
OnRecord == UNION {{FromDict(t[i]) : i \in DOMAIN t} : t \in Texts}

There(s, id) == id \in DOMAIN msgs[s] /\ msgs[s][id].kind # "gone"

(* The messages `ids' of `s', recorded as a copy of version k: those that  *)
(* still exist hold bytes of that version, and all of them the version.    *)
IsCopyOf(s, ids, k) ==
  LET kept == {i \in DOMAIN ids : There(s, ids[i])}
  IN  /\ \A i \in kept : msgs[s][ids[i]].kind = "doc" /\ ToSet(msgs[s][ids[i]].body) \subseteq ToSet(Content(k))
      /\ ids # <<>> /\ kept = DOMAIN ids =>
           Joined([i \in DOMAIN ids |-> msgs[s][ids[i]].body]) = Content(k)

(* Whatever promotions, failures and repairs came before, every copy a     *)
(* descriptor names in any store is that version and no other message, and *)
(* the part sizes it records for a replica are the parts'.  The exception  *)
(* is a file copied while one of its versions was still in a former        *)
(* primary: _duplicate_versions takes that version's ids for ids of the    *)
(* current one.                                                            *)
RecordsAreTrue ==
  \A v \in {u \in OnRecord : ~Stray(u)}, s \in Stores :
    /\ v.store = s => IsCopyOf(s, v.ids, v.id)
    /\ IsCopyOf(s, v.mirrors[s], v.id) /\ IsCopyOf(s, v.replicas[s].ids, v.id)
    /\ \A i \in DOMAIN v.replicas[s].ids :
         v.replicas[s].sizes # <<>> /\ There(s, v.replicas[s].ids[i])
           => v.replicas[s].sizes[i] = Len(msgs[s][v.replicas[s].ids[i]].body)

(* Making any store the primary loses sight of no complete copy a          *)
(* descriptor names (TGFSFileVersion.relocate).                            *)
CopiesKept(v, p) == \A s \in Stores : HasCopyIn(v, s) => HasCopyIn(Relocated(v, p), s)
PromotionKeepsCopies == \A v \in OnRecord, p \in Stores : CopiesKept(v, p)

(* Descriptors are true now and lose no copy when a store is promoted.     *)
RecordsHold == RecordsAreTrue /\ PromotionKeepsCopies

(* A store on its own serves what was acknowledged to be in it: made the   *)
(* primary with all others gone, its pinned metadata, descriptors and      *)
(* parts lead to that version or a newer one.                              *)
Alone(s, f) ==
  LET found == Get(Tree(s)[f], s, Stores, Stores \ {s}, FALSE)
  IN  found # {} /\ \A fd \in found : fd # <<>> /\ Latest(fd).id >= acked[s][f]

(* The primary alone serves every finished write, and with `strict' so     *)
(* does every mirror that can hold the metadata, unless a push that was    *)
(* interrupted left its copy of the tree without the file.  A write is not *)
(* counted when the push of its file's ref had failed before and was not   *)
(* repeated: _sync_file_ref sees no change in memory and acknowledges it.  *)
SelfSufficient ==
  \A s \in Stores \ hurt, f \in Files :
    acked[s][f] > 0 => Alone(s, f) \/ (s \in stale /\ Tree(s)[f] = NoRef)

(* A read delivers the bytes of the range asked for, in order, from one    *)
(* version, across parts, layouts and failovers; it ends early only when   *)
(* messages were deleted or a store was lost while it ran (a stray copy    *)
(* apart, see RecordsAreTrue).                                             *)
RangeRead ==
  rd.pc \in {"reading", "done", "failed"} /\ ~rd.stray =>
    LET want == SubSeq(Content(rd.id), rd.begin + 1, Clamped(Size, rd.end) + 1)
    IN  /\ IsPrefix(rd.out, want)
        /\ rd.pc = "done" => rd.out = want
        /\ rd.pc = "failed" => rd.raced

(* The messages a file in the tree stands on: its descriptors, and every   *)
(* copy of every version in them.                                          *)
Named(f, s) ==
  IF refs[f] = NoRef THEN {}
  ELSE RefIds(refs[f], s) \cup UNION {FdIds([i \in DOMAIN t |-> FromDict(t[i])], s) :
                                        t \in FdText(refs[f], primary, Stores, {})}

(* No operation deletes a message that a file in the tree stands on: only  *)
(* people do, or the removal of that file.                                 *)
DeletesOnlyGarbage ==
  [][hurt' = hurt /\ left'.hand = left.hand =>
       \A f \in Files, s \in Stores : refs[f] # NoRef /\ refs'[f] # NoRef =>
         \A id \in Named(f, s) : There(s, id) => There(s, id)']_vars

(* A backfill that reports no failure, and that no deletion overtook, has  *)
(* left every readable version with a recorded complete copy in every      *)
(* mirror, and with --verify the copy is really there.                     *)
AllThere(s, ids) == \A i \in DOMAIN ids : HasDoc(s, ids[i])
WholeIn(v, s) ==
  \/ Complete(v.mirrors[s], Len(v.ids)) /\ AllThere(s, v.mirrors[s])
  \/ v.replicas[s].ids # <<>> /\ AllThere(s, v.replicas[s].ids)

CleanBackfillCovers ==
  [][op.kind = "backfill" /\ op'.kind = "idle" /\ op'.clean =>
       \A i \in DOMAIN op.fd, s \in ToSet(group) : IsValid(op.fd[i]) =>
         HasCopyIn(op.fd[i], s) /\ (op.verify /\ s \notin lost => WholeIn(op.fd[i], s))]_vars

(* Removals and backfills together: the one deletes nothing in use, the    *)
(* other leaves nothing uncopied.                                          *)
UpkeepIsSafe == DeletesOnlyGarbage /\ CleanBackfillCovers

=============================================================================
