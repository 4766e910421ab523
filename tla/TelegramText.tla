----------------------------- MODULE TelegramText -----------------------------
(***************************************************************************)
(* Text messages of a Telegram store (backends/telegram/store.py, with the *)
(* broker of broker.py, the client of impl/telethon.py and impl/           *)
(* pyrogram.py, and the message cache of utils/message_cache.py).  File    *)
(* descriptors are such messages.                                          *)
(*                                                                         *)
(* A text that is too long becomes a document, and the message a marker    *)
(* with the document's id.  Reads go through a cache of messages and a     *)
(* broker that collects the requests of half a second into one call, tried *)
(* with every bot in turn.  A client forgets a cached message before it    *)
(* asks Telegram to edit or delete it: it puts None in the cache, an entry *)
(* that takes room like any other.  So does the message of a document that *)
(* is downloaded.                                                          *)
(*                                                                         *)
(* Texts and ids are numbers; 0 is no text, and None where code says None. *)
(* History: raced holds the messages whose cache entry may be out of date  *)
(* because a read met an edit, deleted those delete_messages was asked to  *)
(* delete, seen what each message said during a read.                      *)
(***************************************************************************)
EXTENDS Integers, FiniteSets

CONSTANTS
    MaxId,       \* messages of the channel, documents included
    Texts,       \* the texts written, positive numbers
    LongTexts,   \* those of more than MAX_TEXT_CHARS characters
    Server0,     \* the channel at the start
    Tasks,       \* requests to the store at one time
    Reads,       \* the sets of ids asked for
    Targets,     \* the messages edited and deleted
    Files,       \* documents with the content of files
    Bots,        \* number of bots, and of attempts
    CacheSize,   \* entries of the message cache
    DeleteSize,  \* DELETE_BATCH_SIZE, the messages of one call
    Faults,
    Calls        \* requests looked at

FaultKinds == {"get", "me", "edit", "delete", "download", "cancel"}

Ids     == 1..MaxId
Gone    == [kind |-> "gone", v |-> 0]
Unknown == [kind |-> "unknown", v |-> 0]
Text(x) == [kind |-> "text", v |-> x]
Marker(d)   == [kind |-> "marker", v |-> d]
Document(x) == [kind |-> "doc", v |-> x]

ASSUME TelegramTextAssumption ==
    /\ {MaxId, Bots, CacheSize, DeleteSize, Calls} \subseteq Nat /\ Bots > 0
    /\ CacheSize > 0 /\ DeleteSize > 0
    /\ Texts \subseteq Nat \ {0} /\ LongTexts \subseteq Texts
    /\ Reads \subseteq SUBSET Ids /\ Targets \subseteq Ids /\ Files \subseteq Ids
    /\ Faults \subseteq FaultKinds

\* A message, and the channel as an earlier process left it: every long text
\* has a document of its own.
Said == {Gone, Unknown} \cup [kind : {"text", "doc"}, v : Nat] \cup [kind : {"marker"}, v : Ids]

ASSUME ChannelAssumption ==
    /\ Server0 \in [Ids -> Said]
    /\ \A m, n \in Ids : Server0[m].kind = "marker" =>
          /\ Server0[Server0[m].v].kind = "doc"
          /\ Server0[n] = Server0[m] => n = m

VARIABLES
    server,     \* what Telegram has
    cache,      \* channel_cache(channel).id
    overflowOf, \* TelegramStore._overflow_of
    known,      \* TelegramStore._overflow_text
    requests,   \* MessageBroker.__requests: ids, and who waits
    col,        \* the collector, MessageBroker.__task
    task,
    calls,
    raced,
    deleted,
    seen

vars == <<server, cache, overflowOf, known, requests, col, task, calls, raced, deleted, seen>>

Idle   == [pc |-> "idle"]
Nobody == "nobody"
NoCol  == [pc |-> "none"]

\* Nobody is not a request.
ASSUME NobodyAssumption == Nobody \notin Tasks

-----------------------------------------------------------------------------
\* What a message says to a reader.
Says(s, m) ==
    CASE s[m].kind = "text"   -> s[m].v
      [] s[m].kind = "marker" -> IF s[s[m].v].kind = "doc" THEN s[s[m].v].v ELSE 0
      [] OTHER -> 0

\* Whoever changes a message now; a reader may find it missing.
Changes(k) == IF k.pc \in {"edit", "edited"} THEN {k.m}
              ELSE IF k.pc = "delete" THEN k.ids ELSE {}
Reading(k) == k.pc \in {"get", "got"}

\* The cache c has message m; an entry may also be None.
Has(c, m) == c[m].kind \notin {"gone", "unknown"}

\* A reader may also miss a message that leaves the cache while it reads.
Missing(m) ==
    \/ \E u \in Tasks : m \in Changes(task'[u])
    \/ Has(cache, m) /\ ~Has(cache', m)

\* Every step adds to what the readers may say.
Observe ==
    seen' = [t \in Tasks |-> [m \in Ids |->
        IF ~Reading(task'[t]) THEN {}
        ELSE seen[t][m] \cup {Says(server', m)} \cup IF Missing(m) THEN {0} ELSE {}]]

\* The entries the cache keeps when new ones come: the new ones first; any of
\* the others may be the least recently used.
Kept(old, new) ==
    IF Cardinality(old \cup new) <= CacheSize THEN {old \cup new}
    ELSE IF Cardinality(new) >= CacheSize THEN {K \in SUBSET new : Cardinality(K) = CacheSize}
    ELSE {new \cup K : K \in {L \in SUBSET (old \ new) : Cardinality(L) = CacheSize - Cardinality(new)}}

\* What the cache c can be after the entries new were put into it.
Stored(c, new) ==
    {[m \in Ids |-> IF m \notin K THEN Unknown ELSE IF m \in DOMAIN new THEN new[m] ELSE c[m]] :
        K \in Kept({m \in Ids : c[m] # Unknown}, DOMAIN new)}

\* A client forgets messages.
Forget(ms) == cache' \in Stored(cache, [m \in ms |-> Gone])

\* A message that changes between Telegram's read of it and the answer, or is
\* read between the client forgetting it and the change, stays in the cache
\* as it was.
Changing == UNION {Changes(task[t]) : t \in Tasks}
Race(ms, torn) == raced' = raced \cup torn \cup IF col.pc = "read" THEN ms \cap DOMAIN col.got ELSE {}

FreeIds == {m \in Ids : server[m] = Unknown}
NewId   == CHOOSE m \in FreeIds : \A n \in FreeIds : m <= n

Starts(t) == task[t] = Idle /\ calls > 0 /\ calls' = calls - 1
Goto(t, k) == task' = [task EXCEPT ![t] = k]

-----------------------------------------------------------------------------
(* Writing.                                                                *)

\* send_text and edit_message_text: the document of a long text first.  An
\* edit remembers the document it supersedes.
SendBegin(t, x) ==
    /\ Starts(t)
    /\ Goto(t, [pc |-> IF x \in LongTexts THEN "upload" ELSE "send", m |-> 0, x |-> x, doc |-> 0, old |-> 0])
    /\ UNCHANGED <<server, cache, overflowOf, known, requests, col, raced, deleted>>
    /\ Observe

\* Variant: the client does not forget the message.
EditRequest_Keeps(t, k) ==
    /\ Goto(t, [k EXCEPT !.pc = "edit"])
    /\ cache' = cache

\* The request forgets the message before it is sent.
EditRequest(t, k) ==
    /\ Goto(t, [k EXCEPT !.pc = "edit"])
    /\ Forget({k.m})

EditBegin(t, m, x) ==
    LET k == [pc |-> "upload", m |-> m, x |-> x, doc |-> 0, old |-> overflowOf[m]]
    IN  /\ Starts(t)
        /\ IF x \in LongTexts THEN Goto(t, k) /\ cache' = cache ELSE EditRequest(t, k)
        /\ UNCHANGED <<server, overflowOf, known, requests, col, raced, deleted>>
        /\ Observe

\* _send_overflow
Uploaded(t) ==
    /\ task[t].pc = "upload" /\ FreeIds # {}
    /\ server' = [server EXCEPT ![NewId] = Document(task[t].x)]
    /\ known'  = [known EXCEPT ![NewId] = task[t].x]
    /\ LET k == [task[t] EXCEPT !.doc = NewId]
       IN  IF k.m = 0 THEN Goto(t, [k EXCEPT !.pc = "send"]) /\ cache' = cache
           ELSE EditRequest(t, k)
    /\ UNCHANGED <<overflowOf, requests, col, calls, raced, deleted>>
    /\ Observe

Content(k) == IF k.doc = 0 THEN Text(k.x) ELSE Marker(k.doc)

Sent(t) ==
    /\ task[t].pc = "send" /\ FreeIds # {}
    /\ server' = [server EXCEPT ![NewId] = Content(task[t])]
    /\ overflowOf' = [overflowOf EXCEPT ![NewId] = task[t].doc]
    /\ Goto(t, Idle)
    /\ UNCHANGED <<cache, known, requests, col, calls, raced, deleted>>
    /\ Observe

\* Telegram takes the edit; the answer is under way.
EditLands(t) ==
    /\ task[t].pc = "edit" /\ server[task[t].m].kind \in {"text", "marker"}
    /\ server' = [server EXCEPT ![task[t].m] = Content(task[t])]
    /\ Race({task[t].m}, {})
    /\ Goto(t, [task[t] EXCEPT !.pc = "edited"])
    /\ UNCHANGED <<cache, overflowOf, known, requests, col, calls, deleted>>
    /\ Observe

\* "Message to edit not found", another error, or an answer that is lost: the
\* edit raises, and the new document stays behind.
EditFails(t) ==
    /\ \/ task[t].pc = "edit" /\ server[task[t].m].kind = "gone"
       \/ task[t].pc \in {"edit", "edited"} /\ "edit" \in Faults
    /\ Goto(t, Idle)
    /\ UNCHANGED <<server, cache, overflowOf, known, requests, col, calls, raced, deleted>>
    /\ Observe

\* The next call for the messages still to be deleted: the client forgets
\* its batch before it is sent.
DeleteNext(t, all) ==
    \/ all = {} /\ Goto(t, Idle) /\ cache' = cache
    \/ all # {} /\ \E B \in SUBSET all :
          /\ IF Cardinality(all) < DeleteSize THEN B = all ELSE Cardinality(B) = DeleteSize
          /\ Goto(t, [pc |-> "delete", ids |-> B, rest |-> all \ B])
          /\ Forget(B)

\* delete_messages from its first statement to the first call: the overflow
\* documents go along.
DeleteRequest(t, ids, doc) ==
    /\ overflowOf' = [m \in Ids |-> IF m \in ids THEN 0 ELSE doc[m]]
    /\ deleted' = deleted \cup ids
    /\ DeleteNext(t, ids \cup ({overflowOf[m] : m \in ids} \ {0}))

\* Variant: the superseded document goes although the edit may have failed.
EditDone_Early(t) ==
    /\ task[t].pc \in {"edit", "edited"}
    /\ LET after == [overflowOf EXCEPT ![task[t].m] = task[t].doc]
       IN  IF task[t].old # 0 THEN DeleteRequest(t, {task[t].old}, after)
           ELSE overflowOf' = after /\ UNCHANGED <<cache, deleted>> /\ Goto(t, Idle)
    /\ UNCHANGED <<server, known, requests, col, calls, raced>>
    /\ Observe

\* The edit has succeeded: the document it superseded is deleted.
EditDone(t) ==
    /\ task[t].pc = "edited"
    /\ LET after == [overflowOf EXCEPT ![task[t].m] = task[t].doc]
       IN  IF task[t].old # 0 THEN DeleteRequest(t, {task[t].old}, after)
           ELSE overflowOf' = after /\ UNCHANGED <<cache, deleted>> /\ Goto(t, Idle)
    /\ UNCHANGED <<server, known, requests, col, calls, raced>>
    /\ Observe

DeleteBegin(t, ids) ==
    /\ Starts(t)
    /\ DeleteRequest(t, ids, overflowOf)
    /\ UNCHANGED <<server, known, requests, col, raced>>
    /\ Observe

\* The call of a batch ends, and the next one begins.  A failure is logged,
\* and the messages stay.  A marker may lose its document to a batch of its
\* own: what it said is then known to whoever has read it, and to nobody else.
DeleteDone(t) ==
    /\ task[t].pc = "delete"
    /\ LET ids  == task[t].ids
           torn == {m \in Ids \ ids : server[m].kind = "marker" /\ server[m].v \in ids}
       IN  \/ /\ server' = [m \in Ids |-> IF m \in ids THEN Gone ELSE server[m]]
              /\ Race(ids, torn)
           \/ "delete" \in Faults /\ UNCHANGED <<server, raced>>
    /\ DeleteNext(t, task[t].rest)
    /\ UNCHANGED <<overflowOf, known, requests, col, calls, deleted>>
    /\ Observe

-----------------------------------------------------------------------------
(* Reading.                                                                *)

\* The answer for ids: what the cache has, None where it has nothing.  A
\* marker is still to be resolved.
Found(ids, c) ==
    [pc |-> "got", todo |-> {m \in ids : c[m].kind = "marker"}, lossy |-> FALSE,
     out |-> [m \in ids |-> IF c[m].kind = "text" THEN c[m].v ELSE 0],
     doc |-> [m \in ids |-> IF c[m].kind = "marker" THEN c[m].v ELSE 0]]

GetBegin(t, ids) ==
    /\ Starts(t)
    /\ IF \A m \in ids : Has(cache, m)
       THEN Goto(t, Found(ids, cache)) /\ UNCHANGED <<requests, col>>
       ELSE /\ Goto(t, [pc |-> "get"])
            /\ requests' = requests \cup {[ids |-> ids, t |-> t]}
            /\ col' = IF col = NoCol THEN [pc |-> "sleep"] ELSE col
    /\ UNCHANGED <<server, cache, overflowOf, known, raced, deleted>>
    /\ Observe

Wanted(batch) == UNION {r.ids : r \in batch}

\* Variant: the collector retires when its batch is done.
Answer_Retires(batch, c, evicted) ==
    /\ task' = [t \in Tasks |->
          IF \E r \in batch : r.t = t
          THEN [Found((CHOOSE r \in batch : r.t = t).ids, c)
                   EXCEPT !.lossy = Wanted(batch) \cap evicted # {}]
          ELSE task[t]]
    /\ col' = NoCol

\* The waiting requests of a batch are answered from the cache c, and the
\* collector goes on when more have come.
Answer(batch, c, evicted) ==
    /\ task' = [t \in Tasks |->
          IF \E r \in batch : r.t = t
          THEN [Found((CHOOSE r \in batch : r.t = t).ids, c)
                   EXCEPT !.lossy = Wanted(batch) \cap evicted # {}]
          ELSE task[t]]
    /\ col' = IF requests' = {} THEN NoCol ELSE [pc |-> "sleep"]

\* An attempt: ask Telegram for what the cache has not.
Attempt(batch, n) ==
    LET missing == {m \in Wanted(batch) : ~Has(cache, m)}
    IN  IF missing = {} THEN Answer(batch, cache, {})
        ELSE /\ col' = [pc |-> "fetch", batch |-> batch, n |-> n, want |-> missing]
             /\ task' = task

Flush ==
    /\ col.pc = "sleep"
    /\ requests' = {}
    /\ Attempt(requests, 1)
    /\ UNCHANGED <<server, cache, overflowOf, known, calls, raced, deleted>>
    /\ Observe

\* Telegram reads the messages.
ServerReads ==
    /\ col.pc = "fetch"
    /\ col' = [pc |-> "read", batch |-> col.batch, n |-> col.n,
               got |-> [m \in col.want |-> server[m]]]
    /\ UNCHANGED <<server, cache, overflowOf, known, requests, task, calls, raced, deleted>>
    /\ Observe

\* The answer goes through the cache.
FetchReply ==
    LET new == {m \in DOMAIN col.got : Has(col.got, m)}
    IN  /\ col.pc = "read"
        /\ UNCHANGED <<server, overflowOf, known, requests, calls, deleted>>
        /\ raced' = raced \cup (new \cap Changing)
        /\ cache' \in Stored(cache, [m \in new |-> col.got[m]])
        /\ Answer(col.batch, cache', {m \in new : ~Has(cache', m)})
        /\ Observe

FetchFails ==
    /\ "get" \in Faults
    /\ col.pc \in {"fetch", "read"}
    /\ col' = [pc |-> "me", batch |-> col.batch, n |-> col.n]
    /\ UNCHANGED <<server, cache, overflowOf, known, requests, task, calls, raced, deleted>>
    /\ Observe

Raise(batch) == task' = [t \in Tasks |-> IF \E r \in batch : r.t = t THEN Idle ELSE task[t]]

\* The name of the failing bot is known: the next bot, or the failure for all.
NextBot ==
    /\ col.pc = "me"
    /\ IF col.n < Bots THEN Attempt(col.batch, col.n + 1)
       ELSE Raise(col.batch) /\ col' = IF requests = {} THEN NoCol ELSE [pc |-> "sleep"]
    /\ UNCHANGED <<server, cache, overflowOf, known, requests, calls, raced, deleted>>
    /\ Observe

\* get_me raises: the collector dies, and hands that to everyone who waits.
CollectorDies ==
    /\ "me" \in Faults /\ col.pc = "me"
    /\ Raise(col.batch \cup requests)
    /\ requests' = {} /\ col' = NoCol
    /\ UNCHANGED <<server, cache, overflowOf, known, calls, raced, deleted>>
    /\ Observe

\* A reader is cancelled; its request stays, with a future that is done.
Cancel(t) ==
    LET drop(rs) == {[r EXCEPT !.t = IF @ = t THEN Nobody ELSE @] : r \in rs}
    IN  /\ "cancel" \in Faults /\ task[t].pc = "get"
        /\ Goto(t, Idle)
        /\ requests' = drop(requests)
        /\ col' = IF col.pc \in {"none", "sleep"} THEN col ELSE [col EXCEPT !.batch = drop(@)]
        /\ UNCHANGED <<server, cache, overflowOf, known, calls, raced, deleted>>
        /\ Observe

\* _document_for: the message of a document is read through the cache.
ReadDocument(d) ==
    \/ /\ server[d].kind = "doc" /\ ~Has(cache, d)
       /\ cache' \in Stored(cache, [m \in {d} |-> server[d]])
       /\ raced' = raced \cup ({d} \cap Changing)
    \/ (server[d].kind # "doc" \/ Has(cache, d)) /\ UNCHANGED <<cache, raced>>

\* A download of a file's content, anywhere in the process.
Download(d) ==
    /\ calls > 0 /\ calls' = calls - 1
    /\ ReadDocument(d)
    /\ UNCHANGED <<server, overflowOf, known, requests, col, task, deleted>>
    /\ Observe

\* The text of document d, from memory or from Telegram; 0 when it cannot be
\* read, before its message has been or after.
TextOf(d, x) ==
    \/ known[d] # 0 /\ x = known[d] /\ UNCHANGED <<cache, raced>>
    \/ known[d] = 0 /\ x = (IF server[d].kind = "doc" THEN server[d].v ELSE 0) /\ ReadDocument(d)
    \/ known[d] = 0 /\ "download" \in Faults /\ x = 0 /\ (ReadDocument(d) \/ UNCHANGED <<cache, raced>>)

\* _resolve_overflow of the next message: the id of the document is noted,
\* and its text read; one that cannot be read is a message that is gone.
Resolve(t) ==
    /\ task[t].pc = "got" /\ task[t].todo # {}
    /\ LET m == CHOOSE m \in task[t].todo : TRUE
           d == task[t].doc[m]
       IN  /\ overflowOf' = [overflowOf EXCEPT ![m] = d]
           /\ \E x \in {known[d], server[d].v, 0} :
                 /\ TextOf(d, x)
                 /\ known' = [known EXCEPT ![d] = x]
                 /\ Goto(t, [task[t] EXCEPT !.out[m] = x, !.todo = @ \ {m},
                                            !.lossy = @ \/ x = 0])
    /\ UNCHANGED <<server, requests, col, calls, deleted>>
    /\ Observe

Return(t) ==
    /\ task[t].pc = "got" /\ task[t].todo = {}
    /\ Goto(t, Idle)
    /\ UNCHANGED <<server, cache, overflowOf, known, requests, col, calls, raced, deleted>>
    /\ Observe

-----------------------------------------------------------------------------
Init ==
    /\ server = Server0
    /\ cache = [m \in Ids |-> Unknown]
    /\ overflowOf = [m \in Ids |-> 0] /\ known = [m \in Ids |-> 0]
    /\ requests = {} /\ col = NoCol
    /\ task = [t \in Tasks |-> Idle] /\ calls = Calls
    /\ raced = {} /\ deleted = {} /\ seen = [t \in Tasks |-> [m \in Ids |-> {}]]

\* The messages the metadata refers to.
Messages == {m \in Targets : server[m].kind \in {"text", "marker", "gone"}}

Collector == Flush \/ ServerReads \/ FetchReply \/ FetchFails \/ NextBot \/ CollectorDies

Request(t) ==
    \/ \E x \in Texts : SendBegin(t, x) \/ \E m \in Messages : EditBegin(t, m, x)
    \/ \E ids \in SUBSET Messages \ {{}} : DeleteBegin(t, ids)
    \/ \E ids \in Reads : GetBegin(t, ids)

Continue(t) ==
    \/ Uploaded(t) \/ Sent(t) \/ EditLands(t) \/ EditFails(t) \/ EditDone(t)
    \/ DeleteDone(t) \/ Resolve(t) \/ Return(t) \/ Cancel(t)

Next ==
    \/ Collector
    \/ \E t \in Tasks : Request(t) \/ Continue(t)
    \/ \E d \in Files : Download(d)
Spec == Init /\ [][Next]_vars

\* The event loop runs what is ready and Telegram answers or fails.
FairSpec == Spec /\ WF_vars(Collector)

-----------------------------------------------------------------------------
(* Properties.                                                             *)

\* A marker on Telegram has its document, whatever edits, deletions,
\* failures and reads of the same message were under way: an edit deletes
\* the superseded document only once it has taken effect.  The exception is
\* a message that delete_messages was asked to delete: its document may be
\* gone with another batch than its own.
MarkersHaveDocuments ==
    \A m \in Ids \ deleted : server[m].kind = "marker" => server[server[m].v].kind = "doc"

\* A read answers what the message said at some moment of the read, or None
\* when the message was missing at such a moment: because somebody was
\* editing or deleting it, or because the cache let go of it to make room
\* for another one, for the None of a change or for the message of a
\* download.  The exceptions: a text that was cached while a change of it
\* was under way, or whose document was deleted and not the message; and
\* None for a batch that the cache has not the room for, or for a document
\* that could not be read.
ReadsAreRecent ==
    \A t \in Tasks : task[t].pc = "got" /\ task[t].todo = {} =>
        \A m \in DOMAIN task[t].out \ raced :
            task[t].out[m] \in seen[t][m] \/ (task[t].lossy /\ task[t].out[m] = 0)

\* Every read ends, with messages or with an exception: no request is left
\* in a queue that no collector will flush.
ReadsEnd == \A t \in Tasks : task[t].pc = "get" ~> task[t].pc # "get"

==============================================================================
