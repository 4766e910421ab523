---------------------------- MODULE TelegramUpload ----------------------------
(***************************************************************************)
(* One upload to a Telegram store: TelegramStore.upload and                *)
(* replace_document (backends/telegram/store.py), FileUploader (backends/  *)
(* telegram/uploader.py) and the task record behind the upload             *)
(* (tasks/task_store.py).                                                  *)
(*                                                                         *)
(* A file is cut into parts, each a document of its own.  A part goes up   *)
(* in chunks: workers take the next index, read the next bytes under a     *)
(* lock and save them under that index.  A part that is up is sent as a    *)
(* message, over and over until it works.  A stream is read part by part   *)
(* while finished parts are being sent; a seekable source has several      *)
(* parts in flight.  Removing the task record stops the workers.           *)
(*                                                                         *)
(* Bytes of the source are numbered from 0; a chunk is where it starts and *)
(* how long it is.  A source may have fewer bytes than it announced, as a  *)
(* file that shrank since its size was taken.                              *)
(***************************************************************************)
EXTENDS Integers, Sequences, FiniteSets, SequencesExt

CONSTANTS
    PartDefault,   \* PART_SIZE_DEFAULT
    PartPremium,   \* PART_SIZE_PREMIUM
    ChunkSize,     \* upload_part_size_bytes
    Workers,       \* of one part
    InFlight,      \* upload_parts_in_flight
    MaxAttempts,   \* MAX_PART_ATTEMPTS
    Uploads        \* the uploads looked at: mode, size, premium, the bytes there
                   \* are, and what may go wrong

Modes      == {"stream", "seek", "replace"}
FaultKinds == {"save", "read", "send", "cancel", "remove"}

ASSUME TelegramUploadAssumption ==
    /\ {PartDefault, PartPremium, ChunkSize, InFlight, MaxAttempts} \subseteq Nat \ {0}
    /\ \A u \in Uploads : /\ u.mode \in Modes /\ u.premium \in BOOLEAN
                          /\ u.size \in Nat \ {0} /\ u.has \in 0..u.size
                          /\ u.faults \subseteq FaultKinds

VARIABLES
    job,       \* the upload, and whether it runs, returned or raised
    part,      \* its parts
    pos,       \* bytes read from a stream
    progress,  \* size_processed of the task record
    removed    \* the record is gone

vars == <<job, part, pos, progress, removed>>

-----------------------------------------------------------------------------
(* The plan.                                                               *)

Ceil(a, b) == (a + b - 1) \div b

\* Variant: a remainder is dropped.
Partition_Full(size, p) == [i \in 1..(IF size < p THEN 1 ELSE size \div p) |-> IF size < p THEN size ELSE p]

\* _partition
Partition(size, p) ==
    [i \in 1..Ceil(size, p) |-> IF i < Ceil(size, p) THEN p ELSE size - (Ceil(size, p) - 1) * p]

\* _part_size_for; a replaced document is one part whatever its size.
PlanParts(u) ==
    IF u.mode = "replace" THEN <<u.size>>
    ELSE Partition(u.size, IF u.premium /\ u.size > PartDefault THEN PartPremium ELSE PartDefault)

Plan      == PlanParts(job.what)
Nth       == DOMAIN Plan
Offset(i) == FoldLeft(+, 0, SubSeq(Plan, 1, i - 1))
Chunks(i) == Ceil(Plan[i], ChunkSize)

\* part_of is used for more than one part only.
Seeks == job.what.mode = "seek" /\ Len(Plan) > 1 /\ InFlight > 1

-----------------------------------------------------------------------------
(* One part: FileUploader.                                                 *)

Fresh == [pc |-> "wait", next |-> 0, read |-> 0, queue |-> <<>>, saved |-> <<>>, msg |-> <<>>,
          w |-> [v \in Workers |-> [pc |-> "loop"]]]

Set(i, p) == part' = [part EXCEPT ![i] = p]
Works(i, v, pc) == job.st = "run" /\ part[i].pc = "up" /\ part[i].w[v].pc = pc

\* The next index, unless the task is gone or there is none; the index is
\* taken before the lock, whose waiters are served in order.
TakeIndex(i, v) ==
    LET p == part[i]
    IN  /\ Works(i, v, "loop")
        /\ Set(i, IF removed THEN [p EXCEPT !.w[v] = [pc |-> "stopped"]]
                  ELSE IF p.next = Chunks(i) THEN [p EXCEPT !.w[v] = [pc |-> "out"]]
                  ELSE [p EXCEPT !.w[v] = [pc |-> "lock", c |-> p.next],
                                 !.next = @ + 1, !.queue = Append(@, v)])
        /\ UNCHANGED <<job, pos, progress, removed>>

\* Variant: whoever waits may read.
MayRead_Any(p, v) == TRUE

\* The lock is held by the first in line until its read is over.
MayRead(p, v) == Head(p.queue) = v

\* The source gives what it has from there on.
Given(from, len) ==
    IF from >= job.what.has THEN 0 ELSE IF job.what.has - from < len THEN job.what.has - from ELSE len

\* A stream goes on where the last read ended, a part of a seekable source
\* has its own place.  The length asked for is counted as read, whatever the
\* source gave.
ReadChunk(i, v) ==
    LET p    == part[i]
        len  == IF Plan[i] - p.read < ChunkSize THEN Plan[i] - p.read ELSE ChunkSize
        from == IF Seeks THEN Offset(i) + p.read ELSE pos
        got  == Given(from, len)
        q    == [p EXCEPT !.queue = Remove(@, v)]
    IN  /\ Works(i, v, "lock") /\ MayRead(p, v)
        /\ IF p.read >= Plan[i]
           THEN Set(i, [q EXCEPT !.w[v] = [pc |-> "loop"]]) /\ pos' = pos
           ELSE /\ Set(i, [q EXCEPT !.read = @ + len,
                                    !.w[v] = [pc |-> "save", c |-> p.w[v].c, asked |-> len,
                                               data |-> <<from, got>>, n |-> 1]])
                /\ pos' = IF Seeks THEN pos ELSE pos + got
        /\ UNCHANGED <<job, progress, removed>>

ReadFails(i, v) ==
    /\ "read" \in job.what.faults /\ Works(i, v, "lock") /\ MayRead(part[i], v)
    /\ Set(i, [part[i] EXCEPT !.queue = Remove(@, v), !.w[v] = [pc |-> "failed"]])
    /\ UNCHANGED <<job, pos, progress, removed>>

\* save_file_part
SaveChunk(i, v) ==
    LET p == part[i]
        k == p.w[v]
    IN  /\ Works(i, v, "save")
        /\ Set(i, [p EXCEPT !.saved = [c \in DOMAIN @ \cup {k.c} |-> IF c = k.c THEN k.data ELSE @[c]],
                            !.w[v] = [pc |-> "note", len |-> k.asked]])
        /\ UNCHANGED <<job, pos, progress, removed>>

\* _upload_chunk after its last attempt
GivesUp(k) == [pc |-> "failed"]

SaveFails(i, v) ==
    LET k == part[i].w[v]
    IN  /\ "save" \in job.what.faults /\ Works(i, v, "save")
        /\ Set(i, [part[i] EXCEPT !.w[v] = IF k.n < MaxAttempts THEN [k EXCEPT !.n = @ + 1] ELSE GivesUp(k)])
        /\ UNCHANGED <<job, pos, progress, removed>>

\* update_task_progress: a record that is gone is left alone.
Noted(len) == IF removed THEN progress ELSE progress + len

NoteProgress(i, v) ==
    /\ Works(i, v, "note")
    /\ progress' = Noted(part[i].w[v].len)
    /\ Set(i, [part[i] EXCEPT !.w[v] = [pc |-> "loop"]])
    /\ UNCHANGED <<job, pos, removed>>

\* upload(): all workers are out, or one failed and takes the others along.
Uploaded(i) ==
    /\ job.st = "run" /\ part[i].pc = "up"
    /\ \A v \in Workers : part[i].w[v].pc \in {"out", "stopped"}
    /\ Set(i, [part[i] EXCEPT !.pc = "send"])
    /\ UNCHANGED <<job, pos, progress, removed>>

\* Variant: a failure is noticed when every worker has failed.
UploadFails_All(i) ==
    /\ job.st = "run" /\ part[i].pc = "up"
    /\ \A v \in Workers : part[i].w[v].pc = "failed"
    /\ Set(i, [part[i] EXCEPT !.pc = "failed", !.w = Fresh.w, !.queue = <<>>])
    /\ UNCHANGED <<job, pos, progress, removed>>

UploadFails(i) ==
    /\ job.st = "run" /\ part[i].pc = "up"
    /\ \E v \in Workers : part[i].w[v].pc = "failed"
    /\ Set(i, [part[i] EXCEPT !.pc = "failed", !.w = Fresh.w, !.queue = <<>>])
    /\ UNCHANGED <<job, pos, progress, removed>>

-----------------------------------------------------------------------------
(* The parts together: TelegramStore.upload.                               *)

\* A stream begins a part when the one before it is up; a seekable source
\* keeps InFlight of them between beginning and message.
Starts(i) ==
    IF Seeks
    THEN /\ Cardinality({j \in Nth : part[j].pc \in {"up", "send", "pause"}}) < InFlight
         /\ \A j \in 1..(i - 1) : part[j].pc # "wait"
    ELSE \A j \in 1..(i - 1) : part[j].pc \in {"send", "pause", "sent"}

StartPart(i) ==
    /\ job.st = "run" /\ part[i].pc = "wait" /\ Starts(i)
    /\ Set(i, [part[i] EXCEPT !.pc = "up"])
    /\ UNCHANGED <<job, pos, progress, removed>>

\* Telegram makes a document of the chunks 0 to parts - 1, if it has them.
Complete(i) == DOMAIN part[i].saved = 0..(Chunks(i) - 1)

Sent(i) ==
    /\ job.st = "run" /\ part[i].pc = "send" /\ Complete(i)
    /\ Set(i, [part[i] EXCEPT !.pc = "sent", !.msg = [c \in 1..Chunks(i) |-> part[i].saved[c - 1]]])
    /\ UNCHANGED <<job, pos, progress, removed>>

\* _send_uploaded: a send that fails, or whose answer is lost, is tried again
\* after SEND_RETRY_INTERVAL, for ever.
SendFails(i) ==
    /\ job.st = "run" /\ part[i].pc = "send"
    /\ "send" \in job.what.faults \/ ~Complete(i)
    /\ Set(i, [part[i] EXCEPT !.pc = "pause"])
    /\ UNCHANGED <<job, pos, progress, removed>>

SendAgain(i) ==
    /\ job.st = "run" /\ part[i].pc = "pause"
    /\ Set(i, [part[i] EXCEPT !.pc = "send"])
    /\ UNCHANGED <<job, pos, progress, removed>>

Return ==
    /\ job.st = "run" /\ \A i \in Nth : part[i].pc = "sent"
    /\ job' = [job EXCEPT !.st = "done"]
    /\ UNCHANGED <<part, pos, progress, removed>>

\* The first part that fails, or the caller, cancels the others.
Raise ==
    /\ job.st = "run"
    /\ (\E i \in Nth : part[i].pc = "failed") \/ "cancel" \in job.what.faults
    /\ job' = [job EXCEPT !.st = "raised"]
    /\ part' = [i \in Nth |-> IF part[i].pc = "sent" THEN part[i] ELSE [part[i] EXCEPT !.pc = "off", !.w = Fresh.w, !.queue = <<>>]]
    /\ UNCHANGED <<pos, progress, removed>>

\* remove_task, from the manager's interface.
RemoveTask ==
    /\ "remove" \in job.what.faults /\ ~removed /\ job.st = "run"
    /\ removed' = TRUE
    /\ UNCHANGED <<job, part, pos, progress>>

-----------------------------------------------------------------------------
Init ==
    /\ job \in [what : Uploads, st : {"run"}]
    /\ part = [i \in Nth |-> Fresh]
    /\ pos = 0 /\ progress = 0 /\ removed = FALSE

Progress(i) ==
    \/ StartPart(i) \/ Uploaded(i) \/ UploadFails(i) \/ Sent(i) \/ SendAgain(i)
    \/ \E v \in Workers : TakeIndex(i, v) \/ ReadChunk(i, v) \/ SaveChunk(i, v) \/ NoteProgress(i, v)

Trouble(i) == SendFails(i) \/ \E v \in Workers : ReadFails(i, v) \/ SaveFails(i, v)

Failing == \E i \in Nth : part[i].pc = "failed"

Next == (\E i \in Nth : Progress(i) \/ Trouble(i)) \/ Return \/ Raise \/ RemoveTask

Spec == Init /\ [][Next]_vars

\* The event loop runs whatever can run, Telegram answers in the end, and of
\* the sends of one complete document that are tried for ever one works.
AllNth == UNION {DOMAIN PlanParts(u) : u \in Uploads}
FairSpec == /\ Spec /\ WF_vars(Return) /\ WF_vars(Failing /\ Raise)
            /\ \A i \in AllNth : WF_vars(i \in Nth /\ Progress(i)) /\ SF_vars(i \in Nth /\ Sent(i))

-----------------------------------------------------------------------------
Bytes(d) == d[1]..(d[1] + d[2] - 1)

\* Every chunk is saved under the index its bytes belong to, as far as the
\* source has them, although workers take the index before they wait for the
\* lock under which they read (_upload_next_part), and parts read one shared
\* stream.  After a failed read the next in line may still save the wrong
\* bytes; that part is lost anyway.
ChunksInPlace ==
    \A i \in {j \in Nth : part[j].pc \notin {"failed", "off"} /\ \A v \in Workers : part[j].w[v].pc # "failed"} :
    \A c \in DOMAIN part[i].saved :
        LET from == Offset(i) + c * ChunkSize
            len  == IF c < Chunks(i) - 1 THEN ChunkSize ELSE Plan[i] - c * ChunkSize
        IN  Bytes(part[i].saved[c]) = Bytes(<<from, len>>) \cap Bytes(<<0, job.what.has>>)

\* A part is sent, once or many times, only when all its chunks are on
\* Telegram's servers, unless the task record was removed: then its workers
\* stop and what there is is sent, which Telegram refuses, although the
\* comment at SEND_RETRY_INTERVAL says that only the message is missing.
SendsAreComplete ==
    \A i \in Nth : part[i].pc \in {"send", "pause"} => Complete(i) \/ removed

\* A part is sent with all its chunks, each in its place.
PartsAreRight == ChunksInPlace /\ SendsAreComplete

\* What an upload returns is the file: the documents of its messages, one
\* after the other, have every byte of the source once and in order (upload,
\* _partition).  A source that ends early makes the documents short and
\* nobody is told: the uploader counts what it asked for.
FileIsWhole ==
    job.st = "done" =>
        LET chunks == SelectSeq(FlattenSeq([i \in Nth |-> part[i].msg]), LAMBDA d : d[2] > 0)
            Ends(n) == IF n = 0 THEN 0 ELSE chunks[n][1] + chunks[n][2]
        IN  /\ \A n \in 1..Len(chunks) : chunks[n][1] = Ends(n - 1)
            /\ Ends(Len(chunks)) = job.what.has

\* An upload returns or raises, however its reads and saves go and however
\* often a send fails before one works, unless its task record was removed
\* (upload, _upload_chunk, _send_uploaded).
UploadEnds == job.st = "run" ~> (job.st # "run" \/ removed)
=============================================================================
