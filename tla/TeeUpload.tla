------------------------------ MODULE TeeUpload ------------------------------
(***************************************************************************)
(* An upload with "sync: tee" (tgdcfs/core/tee.py): what the primary store *)
(* reads is handed to one bounded branch per mirror, whose upload runs at  *)
(* the same time.                                                          *)
(*                                                                         *)
(* A step ends where the code may be suspended: each branch is fed,        *)
(* finished and detached in a step of its own.  A task that waits on a     *)
(* branch's condition runs again only after a notify_all of that branch.   *)
(* The source may end before Total bytes; the primary does not notice.     *)
(***************************************************************************)
EXTENDS Integers, Sequences

CONSTANTS
    M,          \* the number of mirrors that are fed from the stream
    Total,      \* the size of the upload
    Capacity,   \* the capacity of a branch
    ReadSizes   \* the lengths the primary may ask for

ASSUME TeeAssumption ==
    /\ M \in Nat \ {0} /\ Total \in Nat \ {0} /\ Capacity \in Nat \ {0}
    /\ ReadSizes \subseteq Nat \ {0}

VARIABLES
    prod,      \* where the save is
    at,        \* the branch or task it is at
    pos,       \* TeeFileMessage._fed
    chunk,     \* what the last read returned
    queue,     \* TeeBranch._chunks
    buffered,  \* TeeBranch._buffered
    eof,       \* TeeBranch._eof
    detached,  \* TeeBranch._detached
    task,      \* where each mirror's upload task is
    outcome,   \* what it returned
    taken,     \* how many bytes a mirror's uploader has read
    got        \* the chunks they came in

branch == <<queue, buffered, eof, detached>>
mirror == <<task, outcome, taken, got>>
vars   == <<prod, at, pos, chunk, branch, mirror>>

Mirrors == 1 .. M

\* The bytes from .. to of the upload.
Chunks == [from : 1 .. Total, to : 1 .. Total]
Length(c) == c.to - c.from + 1

Over == prod \in {"done", "failed"}

-----------------------------------------------------------------------------
\* notify_all on branch m, for the producer and for the consumer.
WokenProducer(m) == IF prod = "asleep" /\ at = m THEN "feed" ELSE prod
WokenTask(m) == [task EXCEPT ![m] = IF @ = "asleep" THEN "run" ELSE @]

ReadTo(l) == IF pos + l <= Total THEN pos + l ELSE Total

Read(l) ==
    /\ prod = "idle" /\ pos < Total
    /\ chunk' = [from |-> pos + 1, to |-> ReadTo(l)]
    /\ pos' = ReadTo(l)
    /\ prod' = "feed" /\ at' = 1
    /\ UNCHANGED <<branch, mirror>>

\* After branch at: the next one; after the last one the read returns, and
\* the read that took the last byte finishes all branches first.
FeedOn ==
    IF at < M THEN at' = at + 1 /\ prod' = "feed"
    ELSE at' = 1 /\ prod' = IF pos >= Total THEN "finish" ELSE "idle"

\* The loop condition of feed.
Full(m) == buffered[m] # 0 /\ buffered[m] + Length(chunk) > Capacity

FeedSkips ==
    /\ prod = "feed" /\ detached[at]
    /\ FeedOn
    /\ UNCHANGED <<pos, chunk, branch, mirror>>

\* Variant: a full branch is passed over.
FeedWaits_Not ==
    /\ prod = "feed" /\ ~detached[at] /\ Full(at)
    /\ FeedOn
    /\ UNCHANGED <<pos, chunk, branch, mirror>>

FeedWaits ==
    /\ prod = "feed" /\ ~detached[at] /\ Full(at)
    /\ prod' = "asleep"
    /\ UNCHANGED <<at, pos, chunk, branch, mirror>>

FeedQueues ==
    /\ prod = "feed" /\ ~detached[at] /\ ~Full(at)
    /\ queue' = [queue EXCEPT ![at] = Append(@, chunk)]
    /\ buffered' = [buffered EXCEPT ![at] = @ + Length(chunk)]
    /\ task' = WokenTask(at)
    /\ FeedOn
    /\ UNCHANGED <<pos, chunk, eof, detached, outcome, taken, got>>

\* finish(), at the last byte of the read ("finish") and again in collect()
\* ("close").
Finish ==
    /\ prod \in {"finish", "close"}
    /\ eof' = [eof EXCEPT ![at] = TRUE]
    /\ task' = WokenTask(at)
    /\ IF at < M THEN at' = at + 1 /\ prod' = prod
       ELSE at' = 1 /\ prod' = IF prod = "finish" THEN "idle" ELSE "collect"
    /\ UNCHANGED <<pos, chunk, queue, buffered, detached, outcome, taken, got>>

\* The primary's upload returns: collect() begins.
PrimaryUploaded ==
    /\ prod = "idle"
    /\ prod' = "close" /\ at' = 1
    /\ UNCHANGED <<pos, chunk, branch, mirror>>

\* It raises or is cancelled, also inside a read: abort() begins.
PrimaryFails ==
    /\ prod \in {"idle", "feed", "asleep", "finish"}
    /\ prod' = "abort" /\ at' = 1
    /\ UNCHANGED <<pos, chunk, branch, mirror>>

-----------------------------------------------------------------------------
\* collect() awaits the tasks one after the other.
Collect ==
    /\ prod = "collect" /\ task[at] = "ended"
    /\ IF at < M THEN at' = at + 1 /\ prod' = prod ELSE at' = at /\ prod' = "done"
    /\ UNCHANGED <<pos, chunk, branch, mirror>>

\* The write is cancelled while it awaits a task: the task is cancelled in
\* its place, and collect goes on with the next.
CollectCancelled ==
    /\ prod = "collect" /\ task[at] \in {"run", "asleep"}
    /\ task' = [task EXCEPT ![at] = "closing"]
    /\ outcome' = [outcome EXCEPT ![at] = "failed"]
    /\ UNCHANGED <<prod, at, pos, chunk, branch, taken, got>>

Detach(m) ==
    /\ detached' = [detached EXCEPT ![m] = TRUE]
    /\ queue' = [queue EXCEPT ![m] = <<>>]
    /\ buffered' = [buffered EXCEPT ![m] = 0]
    /\ UNCHANGED eof

AbortDetach ==
    /\ prod = "abort"
    /\ Detach(at)
    /\ task' = WokenTask(at)
    /\ IF at < M THEN at' = at + 1 /\ prod' = prod ELSE at' = 1 /\ prod' = "cancel"
    /\ UNCHANGED <<pos, chunk, outcome, taken, got>>

AbortCancel ==
    /\ prod = "cancel"
    /\ task' = [m \in Mirrors |-> IF task[m] = "ended" THEN "ended" ELSE "closing"]
    /\ outcome' = [m \in Mirrors |-> IF task[m] = "ended" THEN outcome[m] ELSE "failed"]
    /\ prod' = "gather"
    /\ UNCHANGED <<at, pos, chunk, branch, taken, got>>

AbortGather ==
    /\ prod = "gather" /\ \A m \in Mirrors : task[m] = "ended"
    /\ prod' = "failed"
    /\ UNCHANGED <<at, pos, chunk, branch, mirror>>

-----------------------------------------------------------------------------
Ends(m, how) ==
    /\ task' = [task EXCEPT ![m] = "closing"]
    /\ outcome' = [outcome EXCEPT ![m] = how]
    /\ UNCHANGED <<prod, at, pos, chunk, branch, taken, got>>

\* The mirror's uploader wants more bytes and the branch has a chunk.
Take(m) ==
    /\ task[m] = "run" /\ taken[m] < Total
    /\ ~detached[m] /\ queue[m] # <<>>
    /\ queue' = [queue EXCEPT ![m] = Tail(@)]
    /\ buffered' = [buffered EXCEPT ![m] = @ - Length(Head(queue[m]))]
    /\ got' = [got EXCEPT ![m] = Append(@, Head(queue[m]))]
    /\ taken' = [taken EXCEPT ![m] = @ + Length(Head(queue[m]))]
    /\ prod' = WokenProducer(m)
    /\ UNCHANGED <<at, pos, chunk, eof, detached, task, outcome>>

Sleep(m) ==
    /\ task[m] = "run" /\ taken[m] < Total
    /\ ~detached[m] /\ queue[m] = <<>> /\ ~eof[m]
    /\ task' = [task EXCEPT ![m] = "asleep"]
    /\ UNCHANGED <<prod, at, pos, chunk, branch, outcome, taken, got>>

\* Variant: the end of the stream is the end of the upload.
StreamEnds_Ok(m) ==
    /\ task[m] = "run" /\ taken[m] < Total
    /\ detached[m] \/ (queue[m] = <<>> /\ eof[m])
    /\ Ends(m, "ok")

\* The stream ends before all bytes came, or the branch was detached.
StreamEnds(m) ==
    /\ task[m] = "run" /\ taken[m] < Total
    /\ detached[m] \/ (queue[m] = <<>> /\ eof[m])
    /\ Ends(m, "failed")

Uploaded(m) ==
    /\ task[m] = "run" /\ taken[m] >= Total
    /\ Ends(m, "ok")

\* The mirror's store refuses, also while its uploader waits for bytes.
MirrorFails(m) ==
    /\ task[m] \in {"run", "asleep"}
    /\ Ends(m, "failed")

\* Variant: the branch is detached without a notification.
Closes_Silent(m) ==
    /\ task[m] = "closing"
    /\ Detach(m)
    /\ task' = [task EXCEPT ![m] = "ended"]
    /\ UNCHANGED <<prod, at, pos, chunk, outcome, taken, got>>

\* The finally of _run.
Closes(m) ==
    /\ task[m] = "closing"
    /\ Detach(m)
    /\ task' = [task EXCEPT ![m] = "ended"]
    /\ prod' = WokenProducer(m)
    /\ UNCHANGED <<at, pos, chunk, outcome, taken, got>>

-----------------------------------------------------------------------------
Init ==
    /\ prod = "idle" /\ at = 1 /\ pos = 0 /\ chunk = [from |-> 1, to |-> 1]
    /\ queue = [m \in Mirrors |-> <<>>] /\ buffered = [m \in Mirrors |-> 0]
    /\ eof = [m \in Mirrors |-> FALSE] /\ detached = [m \in Mirrors |-> FALSE]
    /\ task = [m \in Mirrors |-> "run"] /\ outcome = [m \in Mirrors |-> "none"]
    /\ taken = [m \in Mirrors |-> 0] /\ got = [m \in Mirrors |-> <<>>]

Produce == \/ \E l \in ReadSizes : Read(l)
           \/ FeedSkips \/ FeedWaits \/ FeedQueues \/ Finish
           \/ pos >= Total /\ PrimaryUploaded
           \/ Collect \/ AbortDetach \/ AbortCancel \/ AbortGather

Stream(m) == Take(m) \/ Sleep(m) \/ StreamEnds(m) \/ Uploaded(m)

Next == \/ Produce \/ PrimaryUploaded \/ PrimaryFails \/ CollectCancelled
        \/ \E m \in Mirrors : Stream(m) \/ MirrorFails(m) \/ Closes(m)
        \/ Over /\ UNCHANGED vars

Spec == Init /\ [][Next]_vars

\* The loop runs what is ready; a cancelled or finished task gets to its
\* finally block.  Mirrors may hang in a request for ever.
FairSpec == Spec /\ WF_vars(Produce) /\ \A m \in Mirrors : WF_vars(Closes(m))

\* Requests to the mirrors end, one way or the other.
MirrorsAnswer == \A m \in Mirrors : WF_vars(Stream(m))

-----------------------------------------------------------------------------
(* Properties.                                                             *)

Consecutive(s) == \A i \in 1 .. Len(s) :
    s[i].from = IF i = 1 THEN 1 ELSE s[i - 1].to + 1

\* Up to where branch m has been fed.
FedTo(m) == IF prod \in {"feed", "asleep"} /\ at <= m THEN chunk.from - 1 ELSE pos

\* "the branches carry exactly what the primary receives": while a mirror is
\* attached, what it took and what waits for it are the bytes read so far,
\* in order, without gap or repetition, whatever happens to the others.
BranchesCarryAll == \A m \in Mirrors :
    LET all == got[m] \o queue[m]
    IN  /\ Consecutive(all)
        /\ ~detached[m] /\ prod \notin {"abort", "cancel", "gather", "failed"} =>
              FedTo(m) = IF all = <<>> THEN 0 ELSE all[Len(all)].to

\* "waits while the branch holds capacity bytes", and "A chunk larger than
\* the whole capacity is admitted into an empty branch": memory is bounded
\* by the capacity or one chunk, and _buffered is what is queued.
BranchBounded == \A m \in Mirrors :
    /\ buffered[m] <= Capacity \/ Len(queue[m]) = 1
    /\ buffered[m] = IF queue[m] = <<>> THEN 0
                     ELSE queue[m][Len(queue[m])].to - queue[m][1].from + 1

\* The branches lose nothing and hold no more than they may.
BranchesAreSound == BranchesCarryAll /\ BranchBounded

\* A replica is recorded only for a mirror that received every byte, also
\* when the source ended short or the branch was detached.
ReplicasWhole == \A m \in Mirrors : outcome[m] = "ok" =>
    /\ got[m] # <<>> /\ Consecutive(got[m]) /\ got[m][Len(got[m])].to = Total

\* save() neither returns nor raises while a mirror's task is still running.
NoTaskLeft == Over => \A m \in Mirrors : task[m] = "ended"

\* What save() leaves behind: whole replicas and no task.
OutcomesAreSound == ReplicasWhole /\ NoTaskLeft

\* "the producer must never wait for this branch again": as long as the
\* requests end, the save does, whichever mirrors fail and whenever; and a
\* failed primary ends it even when a mirror hangs in a request.
SaveEnds == (MirrorsAnswer => <>Over) /\ (prod = "abort" ~> prod = "failed")

=============================================================================
