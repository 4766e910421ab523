------------------------------- MODULE SftpHandles -------------------------------
(***************************************************************************)
(* One SFTP session on one file (tgdcfs/app/sftp), down to the encrypting  *)
(* content repository (tgdcfs/crypto/repository.py): random-access reads   *)
(* served from a one-shot stream, writes spooled until the handle is       *)
(* closed, and the end of the session.  Requests on a handle are pipelined *)
(* and wait for its lock in order.  Several handles are open at once, and  *)
(* a file can get a new version while it is read.                          *)
(***************************************************************************)
EXTENDS Encryption, SequencesExt

CONSTANTS
  Scenarios,         \* the sessions that are considered, see below
  SeekForward,       \* SEEK_FORWARD_THRESHOLD
  HeaderCapacity,    \* _HEADER_CACHE_CAPACITY
  MaxQueue           \* bound on the requests a client has waiting per handle

\* A scenario: encryption on or off and its chunk size, the versions the file
\* has already, the requests a client may make and how many per handle, the
\* inclusive end of a range request (-1 for SFTP, whose streams run to the end
\* of the file), the sizes in which bytes travel, and what may go wrong.
VARIABLES
  scene,     \* the scenario, chosen once
  store,     \* stored versions: bytes, and the plaintext they stand for
  file,      \* the file's descriptor: the versions it lists
  known,     \* _HeaderCache: <<version, key>> in the order of arrival
  rd,        \* read handles
  wr,        \* write handles
  listed,    \* _handles: those exit() will clean up
  leaving,   \* those it still has to
  cut,       \* the session has ended
  answer     \* what the last step answered to a read

fileVars == <<scene, store, file, known, rd, wr, listed, leaving, cut, answer>>

NoAnswer == [by |-> 0]
NoStream == [Ended EXCEPT !.st = "none"]

Readers == scene.readers
Writers == scene.writers

Latest == IF file.versions = <<>> THEN 0 ELSE Last(file.versions)
Size(v) == IF v = 0 THEN 0 ELSE Len(store[v].bytes)

HandlesInit ==
  /\ scene \in Scenarios
  /\ store = scene.store
  /\ file = [exists |-> scene.exists, versions |-> [v \in 1 .. Len(scene.store) |-> v]]
  /\ known = <<>>
  /\ rd = [h \in Readers |->
             [st |-> "new", size |-> 0, pos |-> 0, buf |-> <<>>, stream |-> NoStream,
              v |-> 0, opened |-> 0, q |-> <<>>, phase |-> "idle", left |-> scene.asks,
              broken |-> FALSE]]
  /\ wr = [h \in Writers |->
             [st |-> "new", spool |-> <<>>, size |-> 0, dirty |-> FALSE, closed |-> FALSE,
              q |-> <<>>, left |-> scene.asks, base |-> <<>>, up |-> Wrapped(NoKey),
              want |-> 0, sent |-> <<>>, made |-> 0, there |-> TRUE, acked |-> <<>>, asked |-> FALSE]]
  /\ listed = <<>>
  /\ leaving = <<>>
  /\ cut = FALSE
  /\ answer = NoAnswer

(***************************************************************************)
(* The header cache and _detect().                                         *)
(***************************************************************************)

Cached(v) == \E i \in DOMAIN known : known[i][1] = v
KeyOf(v) == known[CHOOSE i \in DOMAIN known : known[i][1] = v][2]

\* The first one in is the first one out.
Put(v, k) ==
  known' = IF Cached(v) THEN known
           ELSE Append(IF Len(known) >= HeaderCapacity THEN Tail(known) ELSE known, <<v, k>>)

\* What is known without asking the store: no encryption, an entry of the
\* cache, or a file shorter than the magic.
NeedsProbe(v) == scene.cipher /\ ~Cached(v) /\ Size(v) >= MagicSize
KeyAtHand(v) == IF scene.cipher /\ Cached(v) THEN KeyOf(v) ELSE NoKey
NotedAtHand(v) == IF scene.cipher /\ Size(v) > 0 THEN Put(v, KeyAtHand(v)) ELSE UNCHANGED known

\* The header as the probe reads it.
Probed(v) == Detected(SubSeq(store[v].bytes, 1, LesserOf(HeaderSize, Size(v))))

ContentLength(v, k) ==
  IF k = NoKey THEN Size(v) ELSE plaintext_size_from_ciphertext(Size(v), k.chunk)

(***************************************************************************)
(* Read handles.                                                           *)
(***************************************************************************)

\* The handle, unless the content length raises.
OpenedRead(h, v, k) ==
  IF ContentLength(v, k) = NoSize
    THEN rd' = [rd EXCEPT ![h].st = "failed"] /\ UNCHANGED listed
    ELSE /\ rd' = [rd EXCEPT ![h].st = "open", ![h].opened = v, ![h].size = ContentLength(v, k)]
         /\ listed' = Append(listed, h)

\* _open_for_read(), up to the probe for the content length.
OpenRead(h) ==
  /\ rd[h].st = "new"
  /\ ~cut
  /\ IF ~file.exists
       THEN rd' = [rd EXCEPT ![h].st = "failed"] /\ UNCHANGED <<known, listed>>
     ELSE IF NeedsProbe(Latest)
       THEN rd' = [rd EXCEPT ![h].st = "probing", ![h].opened = Latest] /\ UNCHANGED <<known, listed>>
     ELSE OpenedRead(h, Latest, KeyAtHand(Latest)) /\ NotedAtHand(Latest)
  /\ answer' = NoAnswer
  /\ UNCHANGED <<scene, store, file, wr, leaving, cut>>

OpenReadProbed(h) ==
  /\ rd[h].st = "probing"
  /\ LET v == rd[h].opened
     IN \/ Probed(v) # Refused /\ OpenedRead(h, v, Probed(v)) /\ Put(v, Probed(v))
        \/ /\ "probe" \in scene.faults \/ Probed(v) = Refused
           /\ rd' = [rd EXCEPT ![h].st = "failed"]
           /\ UNCHANGED <<known, listed>>
  /\ answer' = NoAnswer
  /\ UNCHANGED <<scene, store, file, wr, leaving, cut>>

Told(h, r, got) ==
  answer' = [by |-> h, off |-> r.off, len |-> r.len, got |-> got, v |-> rd[h].v,
             opened |-> rd[h].opened, broken |-> rd[h].broken]

\* A read request arrives: past the end it is answered at once, otherwise it
\* waits for the lock.
AskRead(h, r) ==
  /\ rd[h].st = "open" /\ ~cut
  /\ rd[h].left > 0 /\ Len(rd[h].q) < MaxQueue
  /\ IF r.off >= rd[h].size
       THEN rd' = [rd EXCEPT ![h].left = @ - 1] /\ Told(h, r, <<>>)
       ELSE /\ rd' = [rd EXCEPT ![h].left = @ - 1, ![h].q = Append(@, [op |-> "read"] @@ r)]
            /\ answer' = NoAnswer
  /\ UNCHANGED <<scene, store, file, known, wr, listed, leaving, cut>>

NextRead(h) == rd[h].phase = "idle" /\ rd[h].q # <<>> /\ Head(rd[h].q).op = "read"

Reopens(h, off) ==
  \/ rd[h].stream.st = "none"
  \/ off < rd[h].pos
  \/ off - rd[h].pos > SeekForward

\* The head request gets the lock: go on with the stream, read through a gap,
\* or reopen, which asks the descriptor for the latest version and may fail.
BeginRead(h) ==
  /\ NextRead(h)
  /\ LET off == Head(rd[h].q).off
     IN IF Reopens(h, off)
          THEN \/ rd' = [rd EXCEPT ![h].buf = <<>>, ![h].pos = off, ![h].v = Latest,
                                   ![h].stream = [Ended EXCEPT !.st = "new"],
                                   ![h].phase = "data", ![h].broken = FALSE]
               \/ /\ "desc" \in scene.faults
                  /\ rd' = [rd EXCEPT ![h].buf = <<>>, ![h].pos = off,
                                      ![h].stream = NoStream, ![h].q = Tail(@)]
          ELSE rd' = [rd EXCEPT ![h].phase = IF off > rd[h].pos THEN "gap" ELSE "data"]
  /\ answer' = NoAnswer
  /\ UNCHANGED <<scene, store, file, known, wr, listed, leaving, cut>>

Need(h) == IF rd[h].phase = "gap" THEN Head(rd[h].q).off - rd[h].pos ELSE Head(rd[h].q).len
Hungry(h) == rd[h].phase # "idle" /\ Len(rd[h].buf) < Need(h)

\* An exception out of the stream: the generator is finished, the request
\* fails, what was buffered stays.
StreamBroken(h) ==
  rd' = [rd EXCEPT ![h].stream = Ended, ![h].phase = "idle", ![h].q = Tail(@), ![h].broken = TRUE]

\* get(): the range is translated and the inner stream opened.
StreamOpened(h, k) ==
  LET v == rd[h].v
      s == IF k = NoKey THEN PlainRange(Size(v), rd[h].pos, scene.end)
           ELSE CipherRange(Size(v), rd[h].pos, scene.end, k)
  IN IF s.st = "invalid" THEN StreamBroken(h) ELSE rd' = [rd EXCEPT ![h].stream = s]

\* The first chunk is asked for, and only then the version is looked at.
StreamStart(h) ==
  /\ Hungry(h) /\ rd[h].stream.st = "new"
  /\ LET v == rd[h].v
     IN IF Size(v) = 0 THEN rd' = [rd EXCEPT ![h].stream = Ended] /\ UNCHANGED known
        ELSE IF NeedsProbe(v)
          THEN rd' = [rd EXCEPT ![h].stream.st = "probing"] /\ UNCHANGED known
        ELSE StreamOpened(h, KeyAtHand(v)) /\ NotedAtHand(v)
  /\ answer' = NoAnswer
  /\ UNCHANGED <<scene, store, file, wr, listed, leaving, cut>>

StreamProbed(h) ==
  /\ rd[h].stream.st = "probing"
  /\ LET v == rd[h].v
     IN IF Probed(v) = Refused THEN StreamBroken(h) /\ UNCHANGED known
        ELSE Put(v, Probed(v)) /\ StreamOpened(h, Probed(v))
  /\ answer' = NoAnswer
  /\ UNCHANGED <<scene, store, file, wr, listed, leaving, cut>>

InnerLeft(s) == s.last - s.at + 1

\* A piece of the stored bytes arrives: plaintext goes to the handle's
\* buffer, ciphertext to the decrypting stream's.
Pull(h, n) ==
  /\ Hungry(h) /\ rd[h].stream.st = "open"
  /\ LET s == rd[h].stream
         k == LesserOf(n, InnerLeft(s))
         piece == SubSeq(store[rd[h].v].bytes, s.at + 1, s.at + k)
     IN /\ k > 0
        /\ ~WholeChunk(s)
        /\ rd' = IF s.key = NoKey
                   THEN [rd EXCEPT ![h].buf = @ \o piece, ![h].stream.at = @ + k]
                   ELSE [rd EXCEPT ![h].stream.cbuf = @ \o piece, ![h].stream.at = @ + k]
  /\ answer' = NoAnswer
  /\ UNCHANGED <<scene, store, file, known, wr, listed, leaving, cut>>

LastChunk(s) == InnerLeft(s) = 0 /\ s.todo > 0 /\ s.cbuf # <<>> /\ s.total > 0

\* A whole chunk, or what is left once the inner stream is exhausted.
Decrypt(h) ==
  /\ Hungry(h) /\ rd[h].stream.st = "open"
  /\ LET s == rd[h].stream
         n == IF WholeChunk(s) THEN Stride(s.key.chunk) ELSE Len(s.cbuf)
     IN /\ WholeChunk(s) \/ LastChunk(s)
        /\ \E d \in {DecryptedFront(s, n)} :
             IF d.ok THEN rd' = [rd EXCEPT ![h].buf = @ \o d.out, ![h].stream = d.rest]
                     ELSE StreamBroken(h)
  /\ answer' = NoAnswer
  /\ UNCHANGED <<scene, store, file, known, wr, listed, leaving, cut>>

StreamEnds(h) ==
  /\ Hungry(h) /\ rd[h].stream.st = "open"
  /\ InnerLeft(rd[h].stream) = 0
  /\ ~WholeChunk(rd[h].stream) /\ ~LastChunk(rd[h].stream)
  /\ rd' = [rd EXCEPT ![h].stream = Ended]
  /\ answer' = NoAnswer
  /\ UNCHANGED <<scene, store, file, known, wr, listed, leaving, cut>>

\* The store fails under the stream, or under the probe for its header.
StreamFails(h) ==
  /\ "stream" \in scene.faults
  /\ Hungry(h) /\ rd[h].stream.st \in {"new", "probing", "open"}
  /\ StreamBroken(h)
  /\ answer' = NoAnswer
  /\ UNCHANGED <<scene, store, file, known, wr, listed, leaving, cut>>

\* _consume() is done with the gap or with the data.  A gap that runs past
\* the end answers the request.
AnswerRead(h) ==
  /\ rd[h].phase # "idle"
  /\ ~Hungry(h) \/ rd[h].stream.st = "done"
  /\ LET n == LesserOf(Need(h), Len(rd[h].buf))
         got == SubSeq(rd[h].buf, 1, n)
         taken == [rd EXCEPT ![h].buf = SubSeq(@, n + 1, Len(@)), ![h].pos = @ + n]
     IN IF rd[h].phase = "gap" /\ n = Need(h)
          THEN rd' = [taken EXCEPT ![h].phase = "data"] /\ answer' = NoAnswer
          ELSE /\ rd' = [taken EXCEPT ![h].phase = "idle", ![h].q = Tail(@)]
               /\ Told(h, Head(rd[h].q), IF rd[h].phase = "gap" THEN <<>> ELSE got)
  /\ UNCHANGED <<scene, store, file, known, wr, listed, leaving, cut>>

(***************************************************************************)
(* Write handles.                                                          *)
(***************************************************************************)

OpenedWrite(h) == wr' = [wr EXCEPT ![h].st = "open"] /\ listed' = Append(listed, h)

\* _open_for_write(): the flags are checked, and a name that is not there yet
\* is reserved with an empty file.
OpenWrite(h, flags) ==
  /\ wr[h].st = "new"
  /\ ~cut
  /\ IF (file.exists /\ "excl" \in flags) \/ (~file.exists /\ "creat" \notin flags)
       THEN wr' = [wr EXCEPT ![h].st = "failed"] /\ UNCHANGED listed
     ELSE IF file.exists THEN OpenedWrite(h)
     ELSE wr' = [wr EXCEPT ![h].st = "touching"] /\ UNCHANGED listed
  /\ answer' = NoAnswer
  /\ UNCHANGED <<scene, store, file, known, rd, leaving, cut>>

\* The descriptor of the empty file is there; somebody else may have made the
\* file meanwhile.
Touched(h) ==
  /\ wr[h].st = "touching"
  /\ IF file.exists
       THEN wr' = [wr EXCEPT ![h].st = "failed"] /\ UNCHANGED <<file, listed>>
       ELSE OpenedWrite(h) /\ file' = [file EXCEPT !.exists = TRUE]
  /\ answer' = NoAnswer
  /\ UNCHANGED <<scene, store, known, rd, leaving, cut>>

AskWrite(h, w) ==
  /\ wr[h].st = "open" /\ ~cut /\ ~wr[h].asked
  /\ wr[h].left > 0 /\ Len(wr[h].q) < MaxQueue
  /\ wr' = [wr EXCEPT ![h].left = @ - 1, ![h].q = Append(@, [op |-> "write"] @@ w)]
  /\ answer' = NoAnswer
  /\ UNCHANGED <<scene, store, file, known, rd, listed, leaving, cut>>

Zero == <<"byte", 0>>

\* Data at an offset of a file: a gap before it reads as zeros, and nothing
\* at all leaves the file as it is.
Overlaid(f, off, data) ==
  IF data = <<>> THEN f
  ELSE [i \in 1 .. (IF off + Len(data) > Len(f) THEN off + Len(data) ELSE Len(f)) |->
          IF i > off /\ i <= off + Len(data) THEN data[i - off]
          ELSE IF i <= Len(f) THEN f[i] ELSE Zero]

WriteSync(w, r) ==
  [w EXCEPT !.spool = Overlaid(@, r.off, r.data),
            !.size = IF r.off + Len(r.data) > @ THEN r.off + Len(r.data) ELSE @,
            !.dirty = TRUE]

LockFree(h) == wr[h].st \in {"open", "closed"} /\ wr[h].q # <<>>

\* write() has the lock: refused on a closed handle, acknowledged otherwise.
DoWrite(h) ==
  /\ LockFree(h) /\ Head(wr[h].q).op = "write"
  /\ wr' = [wr EXCEPT ![h] =
              IF wr[h].closed THEN [wr[h] EXCEPT !.q = Tail(@)]
              ELSE [WriteSync(wr[h], Head(wr[h].q)) EXCEPT
                      !.q = Tail(@), !.acked = Append(@, Head(wr[h].q))]]
  /\ answer' = NoAnswer
  /\ UNCHANGED <<scene, store, file, known, rd, listed, leaving, cut>>

Without(s, h) == SelectSeq(s, LAMBDA x : x # h)

\* The handle's request is answered and the server forgets the handle.
Ends(h, w) ==
  /\ wr' = [wr EXCEPT ![h] = [w EXCEPT !.st = "closed", !.q = Tail(@)]]
  /\ listed' = Without(listed, h)

\* close(): a handle nobody wrote to leaves the file alone.
DoClose(h) ==
  /\ LockFree(h) /\ Head(wr[h].q).op = "close"
  /\ IF wr[h].closed \/ ~wr[h].dirty
       THEN Ends(h, [wr[h] EXCEPT !.closed = TRUE])
       ELSE /\ wr' = [wr EXCEPT ![h].closed = TRUE, ![h].st = "committing"]
            /\ UNCHANGED listed
  /\ answer' = NoAnswer
  /\ UNCHANGED <<scene, store, file, known, rd, leaving, cut>>

\* abort(): what was spooled is dropped.
DoAbort(h) ==
  /\ LockFree(h) /\ Head(wr[h].q).op = "abort"
  /\ wr' = [wr EXCEPT ![h].closed = TRUE, ![h].st = "closed", ![h].q = Tail(@)]
  /\ leaving' = Tail(leaving)
  /\ answer' = NoAnswer
  /\ UNCHANGED <<scene, store, file, known, rd, listed, cut>>

(***************************************************************************)
(* The commit: append_file_version() reads the descriptor, uploads what    *)
(* the (encrypting) message yields, and writes the descriptor back.        *)
(***************************************************************************)

KeyFor(h) == IF scene.cipher THEN [salt |-> h, chunk |-> scene.chunk] ELSE NoKey

Declared(h) ==
  IF scene.cipher THEN encrypted_size_for(wr[h].size, scene.chunk) ELSE wr[h].size

\* The path still leads to the file (there), or a new file is made.
CommitStart(h, there) ==
  /\ wr[h].st = "committing"
  /\ wr' = [wr EXCEPT ![h].st = "uploading", ![h].base = file.versions, ![h].there = there,
                      ![h].up = Wrapped(KeyFor(h))]
  /\ answer' = NoAnswer
  /\ UNCHANGED <<scene, store, file, known, rd, listed, leaving, cut>>

\* The uploader asks the message for n bytes.
UploadAsk(h, n) ==
  /\ wr[h].st = "uploading" /\ wr[h].want = 0
  /\ Len(wr[h].sent) < Declared(h)
  /\ wr' = [wr EXCEPT ![h].want = LesserOf(n, Declared(h) - Len(wr[h].sent))]
  /\ answer' = NoAnswer
  /\ UNCHANGED <<scene, store, file, known, rd, listed, leaving, cut>>

\* One turn of read(): bytes of the header or of the last chunk, or the next
\* chunk; without encryption the bytes of the spool themselves.
UploadTurn(h) ==
  /\ wr[h].st = "uploading" /\ wr[h].want > 0
  /\ LET u == wr[h].up
         n == LesserOf(wr[h].want, Len(u.pending))
     IN IF ~scene.cipher
          THEN /\ Len(wr[h].sent) + wr[h].want <= Len(wr[h].spool)
               /\ wr' = [wr EXCEPT ![h].want = 0,
                            ![h].sent = SubSeq(wr[h].spool, 1, Len(@) + wr[h].want)]
          ELSE IF n > 0
          THEN wr' = [wr EXCEPT ![h].want = @ - n, ![h].up = Drained(u, n),
                                ![h].sent = @ \o SubSeq(u.pending, 1, n)]
          ELSE /\ u.taken + LesserOf(u.key.chunk, wr[h].size - u.taken) <= Len(wr[h].spool)
               /\ wr' = [wr EXCEPT ![h].up = Refilled(u, wr[h].spool)]
  /\ answer' = NoAnswer
  /\ UNCHANGED <<scene, store, file, known, rd, listed, leaving, cut>>

\* The descriptor with the new version reaches the store.
Landed(h) ==
  /\ wr[h].st = "uploading" /\ wr[h].want = 0 /\ Len(wr[h].sent) = Declared(h)
  /\ store' = Append(store, [bytes |-> wr[h].sent, owner |-> h,
                             plain |-> FoldLeft(LAMBDA f, r : Overlaid(f, r.off, r.data),
                                                <<>>, wr[h].acked)])
  /\ file' = IF wr[h].there THEN [file EXCEPT !.versions = Append(wr[h].base, Len(store) + 1)]
             ELSE [file EXCEPT !.exists = TRUE]
  /\ wr' = [wr EXCEPT ![h].st = "landed", ![h].sent = <<>>, ![h].made = Len(store) + 1]
  /\ answer' = NoAnswer
  /\ UNCHANGED <<scene, known, rd, listed, leaving, cut>>

\* close() returns or raises; the spool is gone either way.
Committed(h) ==
  /\ wr[h].st = "landed"
  /\ Ends(h, wr[h])
  /\ answer' = NoAnswer
  /\ UNCHANGED <<scene, store, file, known, rd, leaving, cut>>

\* A store that fails, perhaps after the descriptor changed, or a spool that is
\* shorter than the size: an empty write past the end counts towards the size
\* only.
SpoolShort(h) ==
  /\ wr[h].want > 0
  /\ wr[h].up.pending = <<>> \/ ~scene.cipher
  /\ wr[h].size > Len(wr[h].spool)
  /\ IF scene.cipher
       THEN wr[h].up.taken + LesserOf(scene.chunk, wr[h].size - wr[h].up.taken) > Len(wr[h].spool)
       ELSE Len(wr[h].sent) + wr[h].want > Len(wr[h].spool)

CommitFails(h) ==
  /\ wr[h].st \in {"committing", "uploading", "landed"}
  /\ "upload" \in scene.faults \/ SpoolShort(h)
  /\ Ends(h, [wr[h] EXCEPT !.sent = <<>>, !.want = 0])
  /\ answer' = NoAnswer
  /\ UNCHANGED <<scene, store, file, known, rd, leaving, cut>>

(***************************************************************************)
(* Closing and the end of the session.                                     *)
(***************************************************************************)

\* The client closes a handle, after the requests it has waiting.
AskClose(h) ==
  /\ ~cut
  /\ \/ /\ h \in Readers /\ rd[h].st = "open"
        /\ \A i \in DOMAIN rd[h].q : rd[h].q[i].op = "read"
        /\ rd' = [rd EXCEPT ![h].q = Append(@, [op |-> "close"]), ![h].left = 0]
        /\ UNCHANGED wr
     \/ /\ h \in Writers /\ wr[h].st = "open" /\ ~wr[h].asked
        /\ wr' = [wr EXCEPT ![h].q = Append(@, [op |-> "close"]), ![h].asked = TRUE]
        /\ UNCHANGED rd
  /\ answer' = NoAnswer
  /\ UNCHANGED <<scene, store, file, known, listed, leaving, cut>>

\* ReadHandle.close(), for the client or for exit().
CloseRead(h) ==
  /\ rd[h].phase = "idle" /\ rd[h].q # <<>> /\ Head(rd[h].q).op \in {"close", "abort"}
  /\ rd' = [rd EXCEPT ![h].stream = NoStream, ![h].buf = <<>>, ![h].q = Tail(@),
                      ![h].st = "closed"]
  /\ listed' = Without(listed, h)
  /\ leaving' = IF Head(rd[h].q).op = "abort" THEN Tail(leaving) ELSE leaving
  /\ answer' = NoAnswer
  /\ UNCHANGED <<scene, store, file, known, wr, cut>>

\* exit(): the connection is gone; the open handles are taken off the list
\* and cleaned up one after the other.
Exit ==
  /\ ~cut
  /\ scene.cuts
  /\ cut' = TRUE
  /\ leaving' = listed
  /\ listed' = <<>>
  /\ answer' = NoAnswer
  /\ UNCHANGED <<scene, store, file, known, rd, wr>>

Aborting(q) == \E i \in DOMAIN q : q[i].op = "abort"

\* The next handle's abort() or close() queues for its lock.
LeaveNext ==
  /\ leaving # <<>>
  /\ LET h == Head(leaving)
     IN IF h \in Readers
          THEN /\ ~Aborting(rd[h].q)
               /\ rd' = [rd EXCEPT ![h].q = Append(@, [op |-> "abort"])]
               /\ UNCHANGED wr
          ELSE /\ ~Aborting(wr[h].q)
               /\ wr' = [wr EXCEPT ![h].q = Append(@, [op |-> "abort"])]
               /\ UNCHANGED rd
  /\ answer' = NoAnswer
  /\ UNCHANGED <<scene, store, file, known, listed, leaving, cut>>

=============================================================================
