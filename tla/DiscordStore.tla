----------------------------- MODULE DiscordStore -----------------------------
(***************************************************************************)
(* A Discord store: one channel behind a pool of bots                      *)
(* (backends/discord/store.py and client.py).                              *)
(*                                                                         *)
(* Texts are cached after they are sent, edited or read; a text that is    *)
(* too long travels as an attachment under a caption and is fetched a      *)
(* second time to be read.  Only the bot that sent a message may edit it.  *)
(* Files are cut into parts; a part is read only once an upload slot is    *)
(* free for it.  A copy is a download into an upload, and a download holds *)
(* a slot of its own for as long as its stream is open.                    *)
(*                                                                         *)
(* Texts, sizes and ids are numbers.  The cache is taken to be larger than *)
(* the channel: TelegramText models its evictions.  A part or a copy is    *)
(* described by the bytes of its source: v of them from off on.            *)
(* History: raced holds the messages whose cache entry two overlapping     *)
(* requests, a lost answer or a cancelled change left behind; out the      *)
(* finished transfers; lost counts the upload slots nobody will release.   *)
(***************************************************************************)
EXTENDS Integers, Sequences, FiniteSets

CONSTANTS
    MaxId,      \* messages of the channel
    Bots,       \* the pool, positive numbers; 0 is a bot that has left it
    LongTexts,  \* texts of more than MAX_TEXT_CHARS characters
    Old,        \* messages too old to be deleted in bulk
    MaxPart,    \* max_part_bytes
    MaxParts,   \* parts of a file
    MaxTries,   \* max_retries
    MaxUp,      \* max_concurrent_uploads
    MaxDown,    \* max_concurrent_downloads
    Tasks,
    Faults,
    Scenarios   \* a channel, the requests made of it, and how many

FaultKinds == {"fail", "refuse", "lost", "read", "cancel"}

ASSUME DiscordAssumption ==
    /\ {MaxId, MaxPart, MaxParts, MaxTries, MaxUp, MaxDown} \subseteq Nat \ {0}
    /\ Bots \subseteq Nat \ {0} /\ Bots # {} /\ Old \subseteq 1..MaxId
    /\ Faults \subseteq FaultKinds /\ IsFiniteSet(Tasks)

VARIABLES
    server,    \* what Discord has
    cache,     \* channel_cache(channel).id
    authors,   \* DiscordStore._authors
    upFree,    \* _upload_slots, and who waits for one
    upQ,
    downFree,  \* _download_slots, and who waits for one
    downQ,
    task,
    scene,     \* the scenario, with the requests still to come
    raced,
    lost,
    out

vars  == <<server, cache, authors, upFree, upQ, downFree, downQ, task, scene, raced, lost, out>>
slots == <<upFree, upQ, downFree, downQ>>

Ids     == 1..MaxId
Unknown == [kind |-> "unknown"]
Gone    == [kind |-> "gone", v |-> 0, off |-> 0, by |-> 0]
Blank   == [kind |-> "blank", v |-> 0, off |-> 0, by |-> 0]
Idle    == [pc |-> "idle"]
Least(a, b) == IF a <= b THEN a ELSE b

\* Messages: a text, an attachment under a caption or a document, sent by a bot.
Contents == [kind : {"text", "over", "doc"}, v : Nat, off : Nat, by : Nat] \cup {Gone, Blank}

\* Edits, reads and deletions address messages the channel began with.
Scenes ==
    {s \in [server : [Ids -> Contents], ops : SUBSET STRING, calls : Nat, bots : SUBSET Bots,
            texts : SUBSET Nat, targets : SUBSET Ids, sizes : SUBSET Nat, gets : SUBSET SUBSET Ids,
            sources : SUBSET [size : Int, have : Nat], copies : SUBSET Seq(Ids)] :
        /\ \A m \in s.targets \cup UNION s.gets : s.server[m] # Blank
        /\ <<>> \notin s.copies}

ASSUME SceneAssumption == \A s \in Scenarios : s \in Scenes

-----------------------------------------------------------------------------
(* Messages.                                                               *)

Alive(m) == server[m].kind \in {"text", "over", "doc"}
FreeIds  == {m \in Ids : server[m] = Blank}
NewId    == CHOOSE m \in FreeIds : \A n \in FreeIds : m <= n

\* send_text and edit_message_text choose between a text and an attachment.
TextOf(x, b) == [kind |-> IF x \in LongTexts THEN "over" ELSE "text", v |-> x, off |-> 0, by |-> b]
DocOf(o, n, b) == [kind |-> "doc", v |-> n, off |-> o, by |-> b]

\* What a reader makes of a message.
Read(c) == IF c.kind = "over" THEN [kind |-> "text", v |-> c.v]
           ELSE [kind |-> c.kind, v |-> c.v]

Got(k)  == IF k.pc \in {"get", "put", "looked"} THEN DOMAIN k.got ELSE {}
Changing(k) == IF k.pc = "edited" THEN {k.m} ELSE IF k.pc = "delete" THEN k.ids ELSE {}

\* A message changes while somebody holds an older answer about it.
Races(t, ms) ==
    raced' = raced \cup {m \in ms : \E u \in Tasks \ {t} : m \in Got(task[u]) \cup Changing(task[u])}

Starts(t, op) ==
    /\ task[t] = Idle /\ scene.calls > 0 /\ op \in scene.ops
    /\ scene' = [scene EXCEPT !.calls = @ - 1]

Goto(t, k) == task' = [task EXCEPT ![t] = k]

\* _retry: another attempt, or the error to the caller.
Again(k) == IF k.n < MaxTries THEN [k EXCEPT !.n = @ + 1] ELSE Idle

-----------------------------------------------------------------------------
(* Sending and editing.                                                    *)

SendBegin(t, x) ==
    /\ Starts(t, "send")
    /\ Goto(t, [pc |-> "send", x |-> x, n |-> 1])
    /\ UNCHANGED <<server, cache, authors, slots, raced, lost, out>>

\* _send: each attempt takes the next bot, and the last one is the author.
Sender(b) == b

Sent(t, b) ==
    /\ task[t].pc = "send" /\ FreeIds # {}
    /\ server'  = [server EXCEPT ![NewId] = TextOf(task[t].x, b)]
    /\ authors' = [authors EXCEPT ![NewId] = Sender(b)]
    /\ cache'   = [cache EXCEPT ![NewId] = [kind |-> "text", v |-> task[t].x]]
    /\ Goto(t, Idle)
    /\ UNCHANGED <<slots, scene, raced, lost, out>>

\* Bound: the channel keeps a message for every request still to be sent.
IdsToSpare == Cardinality(FreeIds) > scene.calls + Cardinality({u \in Tasks : task[u].pc = "send"})

\* The message is there, its answer is not: the next attempt sends another.
SendLost(t, b) ==
    /\ "lost" \in Faults /\ task[t].pc = "send" /\ IdsToSpare
    /\ server' = [server EXCEPT ![NewId] = TextOf(task[t].x, b)]
    /\ Goto(t, Again(task[t]))
    /\ UNCHANGED <<cache, authors, slots, scene, raced, lost, out>>

\* edit_message_text, and replace_document with the content of a document.
EditBegin(t, m, c) ==
    /\ Starts(t, IF c.kind = "doc" THEN "replace" ELSE "edit")
    /\ c.kind = "doc" => c.v <= MaxPart /\ server[m].kind = "doc"
    /\ c.kind # "doc" => server[m].kind # "doc"
    /\ Goto(t, [pc |-> IF authors[m] = 0 THEN "author" ELSE "edit",
                m |-> m, c |-> c, bot |-> authors[m], n |-> 1])
    /\ UNCHANGED <<server, cache, authors, slots, raced, lost, out>>

\* _author_bot: a message nobody of the pool sent counts as missing.
AuthorFound(t) ==
    LET k == task[t]
        b == server[k.m].by
    IN  /\ k.pc = "author"
        /\ IF Alive(k.m) /\ b \in Bots
           THEN /\ authors' = [authors EXCEPT ![k.m] = b]
                /\ Goto(t, [k EXCEPT !.pc = "edit", !.bot = b, !.n = 1])
           ELSE authors' = authors /\ Goto(t, Idle)
        /\ UNCHANGED <<server, cache, slots, scene, raced, lost, out>>

\* Discord takes the edit of the sender; the answer is under way.  Of another
\* bot it refuses it, and the sender is looked up again.
EditLands(t) ==
    LET k == task[t]
    IN  /\ k.pc = "edit" /\ Alive(k.m)
        /\ IF k.bot = server[k.m].by
           THEN /\ server' = [server EXCEPT ![k.m] = [k.c EXCEPT !.by = k.bot]]
                /\ Races(t, {k.m})
                /\ Goto(t, [k EXCEPT !.pc = "edited"])
           ELSE /\ UNCHANGED <<server, raced>>
                /\ Goto(t, [k EXCEPT !.pc = "author", !.n = 1])
        /\ UNCHANGED <<cache, authors, slots, scene, lost, out>>

EditMissing(t) ==
    /\ task[t].pc = "edit" /\ ~Alive(task[t].m)
    /\ Goto(t, Idle)
    /\ UNCHANGED <<server, cache, authors, slots, scene, raced, lost, out>>

\* A replaced document is noted only where the old one was cached.
Remembers(m, c) ==
    IF c.kind # "doc" \/ cache[m].kind = "doc" THEN Read(c) ELSE cache[m]

EditDone(t) ==
    /\ task[t].pc = "edited"
    /\ cache' = [cache EXCEPT ![task[t].m] = Remembers(task[t].m, task[t].c)]
    /\ Goto(t, Idle)
    /\ UNCHANGED <<server, authors, slots, scene, raced, lost, out>>

EditLost(t) ==
    /\ "lost" \in Faults /\ task[t].pc = "edited"
    /\ raced' = raced \cup {task[t].m}
    /\ Goto(t, Again([task[t] EXCEPT !.pc = "edit"]))
    /\ UNCHANGED <<server, cache, authors, slots, scene, lost, out>>

\* A request that fails is tried again; one that is refused raises.
Fails(t) ==
    /\ "fail" \in Faults /\ task[t].pc \in {"send", "author", "edit"}
    /\ Goto(t, Again(task[t]))
    /\ UNCHANGED <<server, cache, authors, slots, scene, raced, lost, out>>

Refused(t) ==
    /\ "refuse" \in Faults /\ task[t].pc \in {"send", "author", "edit", "get", "put"}
    /\ Goto(t, Idle)
    /\ UNCHANGED <<server, cache, authors, slots, scene, raced, lost, out>>

-----------------------------------------------------------------------------
(* Reading and deleting.                                                   *)

Missing(ids) == {m \in ids : cache[m] = Unknown}

GetBegin(t, ids) ==
    /\ Starts(t, "get") /\ Missing(ids) # {}
    /\ Goto(t, [pc |-> "get", want |-> Missing(ids), got |-> <<>>, n |-> 1])
    /\ UNCHANGED <<server, cache, authors, slots, raced, lost, out>>

\* Every message is a request of its own.
Fetched(t, m) ==
    /\ task[t].pc = "get" /\ m \in task[t].want \ DOMAIN task[t].got
    /\ LET got == [i \in DOMAIN task[t].got \cup {m} |-> IF i = m THEN server[m] ELSE task[t].got[i]]
       IN  Goto(t, [task[t] EXCEPT !.got = got,
                                   !.pc = IF DOMAIN got = task[t].want THEN "put" ELSE "get"])
    /\ UNCHANGED <<server, cache, authors, slots, scene, raced, lost, out>>

FetchFails(t) ==
    /\ "fail" \in Faults /\ task[t].pc = "get"
    /\ Goto(t, IF Again(task[t]) = Idle THEN Idle ELSE [Again(task[t]) EXCEPT !.got = <<>>])
    /\ UNCHANGED <<server, cache, authors, slots, scene, raced, lost, out>>

First(k)    == CHOOSE m \in DOMAIN k.got : \A n \in DOMAIN k.got : m <= n
Without(f, m) == [i \in DOMAIN f \ {m} |-> f[i]]

\* _resolve_overflow fetches the message again for its attachment, and raises
\* when it has none by now.
Download(t) ==
    LET k == task[t]
        m == First(k)
    IN  /\ k.pc = "put" /\ k.got[m].kind = "over"
        /\ Goto(t, IF server[m].kind = "over"
                   THEN [k EXCEPT !.got[m] = [server[m] EXCEPT !.kind = "text"]] ELSE Idle)
        /\ UNCHANGED <<server, cache, authors, slots, scene, raced, lost, out>>

Put(t) ==
    LET k == task[t]
        m == First(k)
    IN  /\ k.pc = "put" /\ k.got[m].kind # "over"
        /\ cache' = [cache EXCEPT ![m] = IF k.got[m].kind \in {"gone", "blank"} THEN @ ELSE Read(k.got[m])]
        /\ Goto(t, IF DOMAIN k.got = {m} THEN Idle ELSE [k EXCEPT !.got = Without(@, m)])
        /\ UNCHANGED <<server, authors, slots, scene, raced, lost, out>>

DeleteBegin(t, ids) ==
    /\ Starts(t, "delete")
    /\ Goto(t, [pc |-> "delete", ids |-> ids, left |-> ids, n |-> 1])
    /\ UNCHANGED <<server, cache, authors, slots, raced, lost, out>>

\* Recent messages go together, or one by one when some are gone already;
\* old ones follow one by one.
Batches(left) ==
    LET recent == left \ Old
    IN  IF recent = {} THEN {{m} : m \in left}
        ELSE IF \A m \in recent : Alive(m) THEN {recent} ELSE {{m} : m \in recent}

Deleted(t) ==
    /\ task[t].pc = "delete"
    /\ \E ms \in Batches(task[t].left) :
          /\ server' = [m \in Ids |-> IF m \in ms /\ Alive(m) THEN Gone ELSE server[m]]
          /\ Races(t, ms)
          /\ Goto(t, [task[t] EXCEPT !.left = @ \ ms])
    /\ UNCHANGED <<cache, authors, slots, scene, lost, out>>

\* Variant: a failed delete leaves the cache alone.
Forgotten_Deleted(k) == [m \in Ids |-> IF m \in k.ids /\ k.left = {} THEN Unknown ELSE cache[m]]

\* The cache forgets the messages whether or not they could be deleted.
Forgotten(k) == [m \in Ids |-> IF m \in k.ids THEN Unknown ELSE cache[m]]

DeleteDone(t) ==
    /\ task[t].pc = "delete" /\ task[t].left = {}
    /\ cache' = Forgotten(task[t])
    /\ Goto(t, Idle)
    /\ UNCHANGED <<server, authors, slots, scene, raced, lost, out>>

DeleteFails(t) ==
    LET k == task[t]
    IN  /\ k.pc = "delete" /\ k.left # {}
        /\ \/ /\ "fail" \in Faults /\ k.n < MaxTries
              /\ cache' = cache /\ Goto(t, [k EXCEPT !.n = @ + 1, !.left = k.ids])
           \/ /\ "refuse" \in Faults
              /\ cache' = Forgotten(k) /\ Goto(t, Idle)
        /\ UNCHANGED <<server, authors, slots, scene, raced, lost, out>>

-----------------------------------------------------------------------------
(* Uploads.                                                                *)

\* What a transfer leaves alone.
aside == <<cache, raced, lost>>
Transfers == {"look", "looked", "dslot", "open", "uslot", "rslot", "read", "gather", "unwind"}
Transfer(t) == task[t].pc \in Transfers

\* A transfer: the messages still to copy, the one being copied, its size as
\* announced (-1: unknown) and as the source has it, what is read so far, the
\* parts, and whether the stream of a download holds a slot.
Job(pc, left) ==
    [pc |-> pc, left |-> left, size |-> 0, have |-> 0, off |-> 0, parts |-> <<>>,
     stream |-> "none", got |-> <<>>, res |-> <<>>, n |-> 1]

Copying(k) == k.left # <<>>
Part(o, len) == [off |-> o, len |-> len, st |-> "new", mid |-> 0, n |-> 1]
Parts(k, st) == {i \in DOMAIN k.parts : k.parts[i].st = st}

UploadBegin(t, s) ==
    /\ Starts(t, "upload")
    /\ Goto(t, [Job("uslot", <<>>) EXCEPT !.size = s.size, !.have = s.have])
    /\ upQ' = Append(upQ, t)
    /\ UNCHANGED <<server, aside, authors, upFree, downFree, downQ, out>>

\* Slots are handed out in the order they were asked for.
UploadSlot(t) ==
    /\ task[t].pc = "uslot" /\ upFree > 0 /\ Head(upQ) = t
    /\ upFree' = upFree - 1 /\ upQ' = Tail(upQ)
    /\ IF task[t].stream = "new"
       THEN Goto(t, [task[t] EXCEPT !.pc = "rslot"]) /\ downQ' = Append(downQ, t)
       ELSE Goto(t, [task[t] EXCEPT !.pc = "read"]) /\ downQ' = downQ
    /\ UNCHANGED <<server, aside, authors, downFree, scene, out>>

\* The first read from a download waits for a slot of its own.
StreamSlot(t) ==
    /\ task[t].pc = "rslot" /\ downFree > 0 /\ Head(downQ) = t
    /\ downFree' = downFree - 1 /\ downQ' = Tail(downQ)
    /\ Goto(t, [task[t] EXCEPT !.pc = "read", !.stream = "held"])
    /\ UNCHANGED <<server, aside, authors, upFree, upQ, scene, out>>

Limit(k) == IF k.size >= 0 THEN Least(MaxPart, k.size - k.off) ELSE MaxPart

\* The last part: the announced size is reached, or the source ran dry.
Ends(k, len) == (k.size >= 0 /\ k.size - k.off - len <= 0) \/ len < MaxPart

\* _read_part and the rest of the loop.  A stream that ends early raises, and
\* is then closed; any other source just gives less.
ReadPart(t) ==
    LET k   == task[t]
        len == Least(Limit(k), k.have - k.off)
        k1  == [k EXCEPT !.parts = Append(@, Part(k.off, len)), !.off = @ + len]
    IN  /\ k.pc = "read"
        /\ IF Copying(k) /\ len < Limit(k)
           THEN /\ Goto(t, [k EXCEPT !.pc = "unwind", !.stream = "none"])
                /\ upFree' = upFree + 1 /\ upQ' = upQ /\ downFree' = downFree + 1
           ELSE IF len = 0 /\ k.parts # <<>>
           THEN /\ Goto(t, [k EXCEPT !.pc = "gather"])
                /\ upFree' = upFree + 1 /\ UNCHANGED <<upQ, downFree>>
           ELSE /\ IF Ends(k, len) THEN Goto(t, [k1 EXCEPT !.pc = "gather"]) /\ upQ' = upQ
                   ELSE Goto(t, [k1 EXCEPT !.pc = "uslot"]) /\ upQ' = Append(upQ, t)
                /\ UNCHANGED <<upFree, downFree>>
        /\ UNCHANGED <<server, aside, authors, downQ, scene, out>>

ReadFails(t) ==
    /\ "read" \in Faults /\ task[t].pc = "read"
    /\ Goto(t, [task[t] EXCEPT !.pc = "unwind"])
    /\ upFree' = upFree + 1
    /\ UNCHANGED <<server, aside, authors, upQ, downFree, downQ, scene, out>>

\* _send_part_with_slot, a task of its own for every part.
PartStarts(t, i) ==
    /\ Transfer(t) /\ task[t].pc # "unwind" /\ i \in Parts(task[t], "new")
    /\ Goto(t, [task[t] EXCEPT !.parts[i].st = "run"])
    /\ UNCHANGED <<server, aside, authors, slots, scene, out>>

Running(t, i) == Transfer(t) /\ i \in Parts(task[t], "run")

PartSent(t, i, b) ==
    LET p == task[t].parts[i]
    IN  /\ Running(t, i) /\ task[t].pc # "unwind" /\ FreeIds # {}
        /\ server'  = [server EXCEPT ![NewId] = DocOf(p.off, p.len, b)]
        /\ authors' = [authors EXCEPT ![NewId] = Sender(b)]
        /\ Goto(t, [task[t] EXCEPT !.parts[i].st = "sent", !.parts[i].mid = NewId])
        /\ upFree' = upFree + 1
        /\ UNCHANGED <<aside, upQ, downFree, downQ, scene, out>>

PartFails(t, i) ==
    /\ Running(t, i) /\ task[t].pc # "unwind"
    /\ \/ /\ "fail" \in Faults /\ task[t].parts[i].n < MaxTries
          /\ Goto(t, [task[t] EXCEPT !.parts[i].n = @ + 1]) /\ upFree' = upFree
       \/ /\ "refuse" \in Faults
          /\ Goto(t, [task[t] EXCEPT !.parts[i].st = "failed"]) /\ upFree' = upFree + 1
    /\ UNCHANGED <<server, aside, authors, upQ, downFree, downQ, scene, out>>

PartCancelled(t, i) ==
    /\ Running(t, i) /\ task[t].pc = "unwind"
    /\ Goto(t, [task[t] EXCEPT !.parts[i].st = "failed"])
    /\ upFree' = upFree + 1
    /\ UNCHANGED <<server, aside, authors, upQ, downFree, downQ, scene, out>>

\* Variant: only the first part is looked at.
GatherFails_First(t) ==
    /\ task[t].pc = "gather" /\ 1 \in Parts(task[t], "failed")
    /\ Goto(t, [task[t] EXCEPT !.pc = "unwind"])
    /\ UNCHANGED <<server, aside, authors, slots, scene, out>>

GatherFails(t) ==
    /\ task[t].pc = "gather" /\ Parts(task[t], "failed") # {}
    /\ Goto(t, [task[t] EXCEPT !.pc = "unwind"])
    /\ UNCHANGED <<server, aside, authors, slots, scene, out>>

\* Variant: the parts in the order they arrived.
Result_Arrival(k) ==
    CHOOSE s \in [DOMAIN k.parts -> {k.parts[i].mid : i \in DOMAIN k.parts}] :
        \A i, j \in DOMAIN s : i < j => s[i] < s[j]

\* gather answers in the order of the parts.
Result(k) == [i \in DOMAIN k.parts |-> k.parts[i].mid]

Holds(k) == IF k.stream = "held" THEN 1 ELSE 0

\* The upload returns.  A copy takes its first message and looks at the next
\* one, with the stream of the last one still in its variable.
Gathered(t) ==
    LET k == task[t]
    IN  /\ k.pc = "gather" /\ Parts(k, "sent") = DOMAIN k.parts
        /\ out' = out \cup {[of |-> IF Copying(k) THEN Head(k.left) ELSE 0, size |-> k.off, ids |-> Result(k)]}
        /\ IF Len(k.left) > 1
           THEN /\ Goto(t, [Job("look", Tail(k.left)) EXCEPT !.stream = k.stream, !.res = Append(k.res, Result(k)[1])])
                /\ downFree' = downFree
           ELSE Goto(t, Idle) /\ downFree' = downFree + Holds(k)
        /\ UNCHANGED <<server, aside, authors, upFree, upQ, downQ, scene>>

\* Variant: nothing is released for the parts that never ran.
Unstarted_None(k) == 0

\* A part cancelled before its first step never releases its slot itself.
Unstarted(k) == Cardinality(Parts(k, "new"))

\* The tasks are gone: the slots of those that never ran are released.
Unwound(t) ==
    /\ task[t].pc = "unwind" /\ Parts(task[t], "run") = {}
    /\ upFree' = upFree + Unstarted(task[t]) /\ downFree' = downFree + Holds(task[t])
    /\ Goto(t, Idle)
    /\ UNCHANGED <<server, aside, authors, upQ, downQ, scene, out>>

Leaves(queue, t) == SelectSeq(queue, LAMBDA u : u # t)

\* The caller of a transfer goes away, wherever it waits.
Cancel(t) ==
    LET k == task[t]
    IN  /\ "cancel" \in Faults /\ Transfer(t) /\ k.pc # "unwind"
        /\ upQ' = Leaves(upQ, t) /\ downQ' = Leaves(downQ, t)
        /\ upFree' = upFree + IF k.pc \in {"rslot", "read"} THEN 1 ELSE 0
        /\ downFree' = downFree + IF k.pc = "open" THEN 1 ELSE 0
        /\ Goto(t, [k EXCEPT !.pc = "unwind"])
        /\ UNCHANGED <<server, aside, authors, scene, out>>

\* ... and once more, while upload gathers the tasks it has cancelled: the
\* release for those that never ran is not reached.
CancelAgain(t) ==
    LET k == task[t]
    IN  /\ "cancel" \in Faults /\ k.pc = "unwind" /\ Parts(k, "new") # {}
        /\ lost' = lost + Unstarted(k)
        /\ Goto(t, [k EXCEPT !.parts = [i \in DOMAIN @ |-> IF @[i].st = "new" THEN [@[i] EXCEPT !.st = "failed"] ELSE @[i]]])
        /\ UNCHANGED <<server, cache, raced, authors, slots, scene, out>>

\* The caller of any other request goes away.  A change that has reached
\* Discord by then is not noted in the cache: delete_messages catches
\* exceptions, and a cancellation is none.
Dropped(t) ==
    /\ "cancel" \in Faults /\ task[t] # Idle /\ ~Transfer(t)
    /\ raced' = raced \cup Changing(task[t])
    /\ Goto(t, Idle)
    /\ UNCHANGED <<server, cache, authors, slots, scene, lost, out>>

-----------------------------------------------------------------------------
(* Copies.                                                                 *)

CopyBegin(t, ids) ==
    /\ Starts(t, "copy")
    /\ Goto(t, Job("look", ids))
    /\ UNCHANGED <<server, aside, authors, slots, out>>

\* copy_within with the answer of get_messages.
Found(t, d) ==
    IF d.kind = "doc"
    THEN Goto(t, [task[t] EXCEPT !.pc = "dslot", !.size = d.v, !.got = <<>>]) /\ downQ' = Append(downQ, t)
    ELSE Goto(t, [task[t] EXCEPT !.pc = "unwind", !.got = <<>>]) /\ downQ' = downQ

Look(t) ==
    LET m == Head(task[t].left)
    IN  /\ task[t].pc = "look"
        /\ IF cache[m] # Unknown THEN Found(t, cache[m])
           ELSE Goto(t, [task[t] EXCEPT !.pc = "looked", !.got = [i \in {m} |-> server[m]]]) /\ downQ' = downQ
        /\ UNCHANGED <<server, aside, authors, upFree, upQ, downFree, scene, out>>

Looked(t) ==
    LET m == Head(task[t].left)
        d == task[t].got[m]
    IN  /\ task[t].pc = "looked"
        /\ cache' = [cache EXCEPT ![m] = IF d.kind = "doc" THEN Read(d) ELSE @]
        /\ Found(t, d)
        /\ UNCHANGED <<server, raced, lost, authors, upFree, upQ, downFree, scene, out>>

\* download_file: one slot for the request ...
DownloadSlot(t) ==
    /\ task[t].pc = "dslot" /\ downFree > 0 /\ Head(downQ) = t
    /\ downFree' = downFree - 1 /\ downQ' = Tail(downQ)
    /\ Goto(t, [task[t] EXCEPT !.pc = "open"])
    /\ UNCHANGED <<server, aside, authors, upFree, upQ, scene, out>>

\* DiscordBotAPI.download: what the attachment has of bytes 0 to end.
Available(size, att) ==
    LET end == IF size - 1 < 0 \/ size - 1 >= att THEN att - 1 ELSE size - 1 IN end + 1

\* ... returned with the stream, which takes the place of the previous one.
Opened(t) ==
    LET k == task[t]
        d == server[Head(k.left)]
    IN  /\ k.pc = "open"
        /\ IF d.kind = "doc" /\ Available(k.size, d.v) > 0
           THEN /\ Goto(t, [k EXCEPT !.pc = "uslot", !.stream = "new", !.have = Available(k.size, d.v)])
                /\ upQ' = Append(upQ, t) /\ downFree' = downFree + 1 + Holds(k)
           ELSE Goto(t, [k EXCEPT !.pc = "unwind"]) /\ upQ' = upQ /\ downFree' = downFree + 1
        /\ UNCHANGED <<server, aside, authors, upFree, downQ, scene, out>>

OpenFails(t) ==
    LET k == task[t]
    IN  /\ k.pc = "open"
        /\ \/ /\ "fail" \in Faults /\ k.n < MaxTries
              /\ Goto(t, [k EXCEPT !.n = @ + 1]) /\ downFree' = downFree
           \/ /\ "refuse" \in Faults
              /\ Goto(t, [k EXCEPT !.pc = "unwind"]) /\ downFree' = downFree + 1
        /\ UNCHANGED <<server, aside, authors, upFree, upQ, downQ, scene, out>>

-----------------------------------------------------------------------------
Init ==
    /\ scene \in Scenarios
    /\ server = scene.server
    /\ cache = [m \in Ids |-> Unknown] /\ authors = [m \in Ids |-> 0]
    /\ upFree = MaxUp /\ upQ = <<>> /\ downFree = MaxDown /\ downQ = <<>>
    /\ task = [t \in Tasks |-> Idle]
    /\ raced = {} /\ lost = 0 /\ out = {}

\* What the store does by itself once asked.
Progress(t) ==
    \/ \E b \in Bots : Sent(t, b)
    \/ AuthorFound(t) \/ EditLands(t) \/ EditMissing(t) \/ EditDone(t)
    \/ \E m \in Ids : Fetched(t, m)
    \/ Download(t) \/ Put(t)
    \/ Deleted(t) \/ DeleteDone(t)
    \/ UploadSlot(t) \/ StreamSlot(t) \/ ReadPart(t)
    \/ \E i \in 1..MaxParts : \/ PartStarts(t, i)
                           \/ \E b \in scene.bots : PartSent(t, i, b)
                           \/ PartCancelled(t, i)
    \/ GatherFails(t) \/ Gathered(t) \/ Unwound(t)
    \/ Look(t) \/ Looked(t) \/ DownloadSlot(t) \/ Opened(t)

Request(t) ==
    \/ \E x \in scene.texts : SendBegin(t, x)
    \/ \E m \in scene.targets : \/ \E x \in scene.texts : EditBegin(t, m, TextOf(x, 0))
                                \/ \E n \in scene.sizes : EditBegin(t, m, DocOf(0, n, 0))
    \/ \E ids \in scene.gets : GetBegin(t, ids) \/ DeleteBegin(t, ids)
    \/ \E s \in scene.sources : UploadBegin(t, s)
    \/ \E ids \in scene.copies : CopyBegin(t, ids)

Trouble(t) ==
    \/ \E b \in Bots : SendLost(t, b)
    \/ EditLost(t) \/ Fails(t) \/ Refused(t) \/ FetchFails(t) \/ DeleteFails(t)
    \/ ReadFails(t) \/ OpenFails(t)
    \/ Cancel(t) \/ CancelAgain(t) \/ Dropped(t)
    \/ \E i \in 1..MaxParts : PartFails(t, i)

Next == \E t \in Tasks : Request(t) \/ Progress(t) \/ Trouble(t)

Spec == Init /\ [][Next]_vars

\* The event loop runs every task that can run, and Discord answers.
FairSpec == Spec /\ \A t \in Tasks : WF_vars(Progress(t))

-----------------------------------------------------------------------------

\* What the cache says of a message is what Discord has, except while a change
\* of it is under way, and after two overlapping requests, a lost answer or a
\* change whose caller went away (edit_message_text, replace_document,
\* get_messages, delete_messages).
CacheIsRecent ==
    \A m \in Ids \ raced :
        \/ cache[m] = Unknown
        \/ \E t \in Tasks : m \in Changing(task[t])
        \/ Alive(m) /\ cache[m] = Read(server[m])

\* The slots a request holds: an upload slot for every part in memory and for
\* the one being read (0), a download slot for its stream and for opening one.
UpHeld(k) ==
    IF k.pc \notin Transfers THEN {}
    ELSE Parts(k, "new") \cup Parts(k, "run") \cup IF k.pc \in {"rslot", "read"} THEN {0} ELSE {}
DownHeld(k) ==
    IF k.pc \notin Transfers THEN {}
    ELSE (IF k.stream = "held" THEN {"stream"} ELSE {}) \cup IF k.pc = "open" THEN {"request"} ELSE {}

Holders(held) == UNION {{t} \X held[t] : t \in Tasks}

\* Every slot is free or with the one part or stream that holds it, through
\* failures and a cancellation: no more than max_concurrent_uploads parts are
\* in memory.  The one way to lose a slot is to cancel an upload again while
\* it unwinds (upload, _send_part_with_slot, download_file).
SlotsConserved ==
    /\ upFree + lost + Cardinality(Holders([t \in Tasks |-> UpHeld(task[t])])) = MaxUp
    /\ downFree + Cardinality(Holders([t \in Tasks |-> DownHeld(task[t])])) = MaxDown

\* The messages an upload returns hold its bytes: in order, without a gap,
\* none above the part size, and one even for an empty file (upload).
FilesAreWhole ==
    \A r \in out : r.of = 0 =>
        /\ r.ids # <<>>
        /\ \A i \in DOMAIN r.ids :
              LET d == server[r.ids[i]]
              IN  /\ d.kind = "doc" /\ d.v <= MaxPart
                  /\ d.off = IF i = 1 THEN 0 ELSE server[r.ids[i - 1]].off + server[r.ids[i - 1]].v
                  /\ i = Len(r.ids) => d.off + d.v = r.size

\* Nobody gets a slot any more: the upload slots are lost, or every download
\* slot is with the last stream of a copy that waits for the next one.
Stuck ==
    \/ lost = MaxUp
    \/ downFree = 0 /\ \A t \in Tasks : DownHeld(task[t]) # {} => task[t].pc = "dslot"

\* A request to the store ends, unless the slots it needs are stuck: as many
\* copies of several messages at once as there are download slots block each
\* other and every later download (copy_within, download_file).
RequestsEnd == \A t \in Tasks : task[t] # Idle ~> (task[t] = Idle \/ Stuck)
=============================================================================
