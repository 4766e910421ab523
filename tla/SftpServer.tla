-------------------------------- MODULE SftpServer --------------------------------
(***************************************************************************)
(* The SFTP session of SftpHandles together with the listings of FileStats *)
(* that show the file it writes: a commit ends by dropping the file's      *)
(* stat, whether it succeeded or not.                                      *)
(***************************************************************************)
EXTENDS SftpHandles, FileStats

CONSTANT Handles   \* the handles of all scenarios, numbers

VARIABLES
  written,   \* the newest version whose write has been answered
  refOf      \* the ref each commit under way looked up

vars == <<fileVars, statVars, written, refOf>>

Init ==
  /\ HandlesInit
  /\ StatInit
  /\ scene.lists \/ ~persist
  /\ others \in scene.others
  /\ written = Latest
  /\ refOf = [h \in Writers |-> 1]

\* The handles' path is that of the first ref: a move takes the file away.
There == ref = 1

\* FileApi.upload(): the name is looked up once, when the commit starts.
Commit(h) ==
  /\ CommitStart(h, There)
  /\ refOf' = [refOf EXCEPT ![h] = ref]
  /\ UNCHANGED <<statVars, written>>

\* _update_existing_file(): the stat goes when the write has ended, however
\* it ended.  _create_new_file() leaves the file that was moved away alone.
CommitEnds(h) ==
  /\ \/ Committed(h) /\ written' = IF wr[h].there /\ wr[h].made > written THEN wr[h].made ELSE written
     \/ CommitFails(h) /\ UNCHANGED written
  /\ IF wr[h].there THEN Invalidated(refOf[h]) ELSE UNCHANGED statVars
  /\ UNCHANGED refOf

ReaderStep(h) ==
  \/ OpenReadProbed(h)
  \/ BeginRead(h)
  \/ StreamStart(h)
  \/ StreamProbed(h)
  \/ \E n \in scene.pieces : Pull(h, n)
  \/ Decrypt(h)
  \/ StreamEnds(h)
  \/ StreamFails(h)
  \/ AnswerRead(h)
  \/ CloseRead(h)

WriterStep(h) ==
  \/ Touched(h)
  \/ DoWrite(h)
  \/ DoClose(h)
  \/ DoAbort(h)
  \/ \E n \in scene.pieces : UploadAsk(h, n)
  \/ UploadTurn(h)
  \/ Landed(h)

ClientStep ==
  \/ \E h \in Readers : OpenRead(h) \/ AskClose(h) \/ \E r \in scene.reads : AskRead(h, r)
  \/ \E h \in Writers :
       \/ \E f \in scene.flags : OpenWrite(h, f)
       \/ \E w \in scene.writes : AskWrite(h, w)
       \/ AskClose(h)
  \/ Exit

ListingStep ==
  \/ \E l \in scene.listers : AskStat(l, written) \/ ReadStat(l, Latest) \/ GiveUp(l)
  \/ \E r \in Refs : FillRead(r, Latest) \/ FillEnd(r) \/ FillFail(r)
  \/ FlushBegin \/ FlushOk \/ FlushFail \/ FlushRetry
  \/ scene.stops /\ CloseStats

MoveAway ==
  /\ scene.lists /\ scene.moves
  /\ Move
  /\ file' = [file EXCEPT !.exists = FALSE]
  /\ UNCHANGED <<scene, store, known, rd, wr, listed, leaving, cut, answer, written, refOf>>

\* The process ends with everything it has in memory: a move, or a new file
\* in the old place, that no push has written.
Restart ==
  /\ scene.lists /\ scene.stops
  /\ RestartStats(Latest)
  /\ rd' = [h \in Readers |-> [rd[h] EXCEPT !.st = "failed", !.q = <<>>, !.phase = "idle"]]
  /\ wr' = [h \in Writers |->
              IF wr[h].st = "new" THEN wr[h]
              ELSE [wr[h] EXCEPT !.st = "failed", !.q = <<>>, !.sent = <<>>]]
  /\ known' = <<>>
  /\ listed' = <<>>
  /\ leaving' = <<>>
  /\ answer' = NoAnswer
  /\ \E e \in IF saved.ref = 1 THEN {TRUE} ELSE {FALSE, file.exists} :
       file' = [file EXCEPT !.exists = e]
  /\ UNCHANGED <<scene, store, cut, written, refOf>>

\* What the server does for a handle without being asked again.
Serves(h) ==
  \/ h \in Readers /\ ReaderStep(h) /\ UNCHANGED <<statVars, written, refOf>>
  \/ h \in Writers /\ WriterStep(h) /\ UNCHANGED <<statVars, written, refOf>>
  \/ h \in Writers /\ (Commit(h) \/ CommitEnds(h))

Leaves == LeaveNext /\ UNCHANGED <<statVars, written, refOf>>
Lists(A) == scene.lists /\ A /\ UNCHANGED <<fileVars, written, refOf>>

Next ==
  \/ ClientStep /\ UNCHANGED <<statVars, written, refOf>>
  \/ \E h \in Handles : Serves(h)
  \/ Leaves
  \/ Lists(ListingStep)
  \/ MoveAway
  \/ Restart

\* Every request that can go on does, and a metadata write that is tried
\* again and again succeeds in the end.
Fairness ==
  /\ \A h \in Handles : WF_vars(scene.fair /\ Serves(h))
  /\ WF_vars(scene.fair /\ Leaves)
  /\ \A l \in Listers : WF_vars(scene.fair /\ Lists(ReadStat(l, Latest)))
  /\ \A r \in Refs : WF_vars(scene.fair /\ Lists(FillRead(r, Latest) \/ FillEnd(r)))
  /\ WF_vars(scene.fair /\ Lists(FlushBegin \/ FlushRetry))
  /\ SF_vars(scene.fair /\ Lists(FlushOk))

Spec == Init /\ [][Next]_vars /\ Fairness

(***************************************************************************)
(* Properties.                                                             *)
(***************************************************************************)

Plain(v) == IF v = 0 THEN <<>> ELSE store[v].plain

\* A read is answered with the bytes at its offset of the one version the
\* handle's stream is open on (ReadHandle.read over the decrypting stream),
\* and with fewer than asked for only at the end of that version or past the
\* size the handle was opened with, unless the stream broke under an earlier
\* request and has not been reopened since.  It breaks only when a store fails
\* or the new version ends before the offset: what is stored decrypts, also
\* where a range ends inside the file.
ReadsAreExact ==
  /\ \A h \in Readers : rd[h].broken => "stream" \in scene.faults \/ rd[h].pos >= Len(Plain(rd[h].v))
  /\ answer # NoAnswer =>
    LET p == Plain(answer.v)
        end == answer.off + Len(answer.got)
    IN \/ answer.got = <<>> /\ answer.off >= Len(Plain(answer.opened))
       \/ /\ Len(answer.got) <= answer.len
          /\ answer.got = SubSeq(p, answer.off + 1, end)
          /\ Len(answer.got) < answer.len => answer.broken \/ end >= Len(p)

\* A version that reaches the store is the writes acknowledged on its handle,
\* applied in their order and encrypted as a whole, and only of a handle the
\* client closed: exit() drops an upload that was cut short.
CommitsAreWhole ==
  \A v \in DOMAIN store :
    LET by == store[v].owner
    IN by \in Writers =>
         /\ wr[by].asked
         /\ store[v].bytes = IF scene.cipher THEN Encrypted(store[v].plain, KeyFor(by))
                             ELSE store[v].plain

\* A listing never shows a file older than it was when the listing asked, or
\* when the descriptor read began that it found under way and joined
\* (FileStatApi.get, whose docstring promises the next listing a new read):
\* nothing older is kept, whoever gave up on it, so that a listing that finds
\* no read under way shows every write answered before, unless the process
\* stopped before the metadata was written, or the file was moved while it was
\* written.
ListingsAreCurrent ==
  \A l \in Listers :
    asks[l].st = "answered" /\ asks[l].shown # NoStat =>
      asks[l].shown >= asks[l].since \/ outdated # {}

\* A request on a handle that is not answered yet.
Asked(h) == (h \in Readers /\ rd[h].q # <<>>) \/ (h \in Writers /\ wr[h].q # <<>>)

\* Every request on a handle is answered, exit() gets through its handles, and
\* every listing ends, whatever fails.
RequestsEnd ==
  /\ \A h \in Handles : (scene.fair /\ Asked(h)) ~> ~Asked(h)
  /\ (scene.fair /\ leaving # <<>>) ~> (leaving = <<>>)
  /\ \A l \in Listers :
       (scene.fair /\ asks[l].st \in {"waiting", "reading"}) ~> asks[l].st \in {"idle", "answered"}

\* The stored metadata stops showing a size from before the last write: what
\* was marked is written in the end, however often the write fails.
StatsSettle ==
  scene.fair =>
    <>[](closing \/ outdated # {} \/ saved.mine = NoStat \/ saved.mine >= written)

\* Requests end and the metadata catches up.
SessionSettles == RequestsEnd /\ StatsSettle

=============================================================================
