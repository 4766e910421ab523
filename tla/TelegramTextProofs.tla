-------------------------- MODULE TelegramTextProofs --------------------------
(***************************************************************************)
(* Proofs about TelegramText for any number of messages, texts, requests   *)
(* and bots.                                                               *)
(*                                                                         *)
(* That a marker has its document depends on who may delete a document:    *)
(* a message that refers to it in some way, of which there is one          *)
(* (Single), once its marker says something else (Superseded), and nobody  *)
(* before the marker is written (Held).                                    *)
(*                                                                         *)
(* That a read is recent follows the message on its way: the cache has     *)
(* what Telegram has (Fresh), so does the answer on its way to the cache   *)
(* (Fetched), what was not asked for is cached or was missed (Missed), and *)
(* the document of a marker has the text the message had (Sourced,         *)
(* Remembered).                                                            *)
(***************************************************************************)
EXTENDS TelegramText, WellFoundedInduction, NaturalsInduction, TLAPS

Ids0    == Ids \cup {0}
Orders  == [ids : SUBSET Ids, t : Tasks \cup {Nobody}]
Replies == UNION {[W -> Said] : W \in SUBSET Ids}

Cols == {NoCol} \cup [pc : {"sleep"}]
        \cup [pc : {"fetch"}, batch : SUBSET Orders, n : Nat, want : SUBSET Ids]
        \cup [pc : {"read"}, batch : SUBSET Orders, n : Nat, got : Replies]
        \cup [pc : {"me"}, batch : SUBSET Orders, n : Nat]

Uploads == [pc : {"upload", "send"}, m : Ids0, x : Texts, doc : Ids0, old : Ids0]
Edits   == [pc : {"edit", "edited"}, m : Ids, x : Texts, doc : Ids0, old : Ids0]
Deletes == [pc : {"delete"}, ids : SUBSET Ids, rest : SUBSET Ids]
Gots    == UNION {{g \in [pc : {"got"}, todo : SUBSET W, lossy : BOOLEAN, out : [W -> Nat], doc : [W -> Ids0]] :
                      \A m \in g.todo : g.doc[m] \in Ids} : W \in SUBSET Ids}
Works   == {Idle} \cup [pc : {"get"}] \cup Uploads \cup Edits \cup Deletes \cup Gots

Typed ==
    /\ server \in [Ids -> Said] /\ cache \in [Ids -> Said]
    /\ overflowOf \in [Ids -> Ids0] /\ known \in [Ids -> Nat]
    /\ requests \in SUBSET Orders /\ col \in Cols /\ task \in [Tasks -> Works]

\* A request, the collector's answer, or anything else knows d as the
\* document of m.
TaskRefers(k, m, d) ==
    \/ k.pc = "got" /\ m \in k.todo /\ k.doc[m] = d
    \/ k.pc \in {"upload", "edit", "edited"} /\ k.m = m /\ k.old = d
    \/ k.pc = "edited" /\ k.m = m /\ k.doc = d
ColRefers(c, m, d) == c.pc = "read" /\ m \in DOMAIN c.got /\ c.got[m] = Marker(d)
Refers(m, d) ==
    \/ server[m] = Marker(d) \/ cache[m] = Marker(d) \/ overflowOf[m] = d
    \/ ColRefers(col, m, d)
    \/ \E t \in Tasks : TaskRefers(task[t], m, d)

\* What a request deletes, now or in a later batch.
Doom(k) == k.ids \cup k.rest

\* d is the document of a text that t is about to write.
Holds(k, d) == k.pc \in {"send", "edit"} /\ k.doc = d

Single == \A m, n, d \in Ids : Refers(m, d) /\ Refers(n, d) => m = n

\* Whatever is known as a document, or is to be deleted, has been sent.
Real == \A d \in Ids : server[d].kind = "unknown" =>
    /\ \A m \in Ids : ~Refers(m, d)
    /\ \A t \in Tasks : task[t].pc = "delete" => d \notin Doom(task[t])

Held == \A t \in Tasks, d \in Ids : Holds(task[t], d) =>
    /\ server[d].kind = "doc"
    /\ \A m \in Ids : ~Refers(m, d)
    /\ \A u \in Tasks : Holds(task[u], d) => u = t
    /\ \A u \in Tasks : task[u].pc = "delete" => d \notin Doom(task[u])

\* Once an edit has landed no message shows the document it superseded.
Superseded == \A t \in Tasks, m \in Ids :
    task[t].pc = "edited" /\ task[t].old \in Ids => server[m] # Marker(task[t].old)

\* A document is deleted only with the message that shows it.
Doomed == \A t \in Tasks, m, d \in Ids :
    task[t].pc = "delete" /\ d \in Doom(task[t]) /\ server[m] = Marker(d) => m \in deleted

\* A marker without its document was to be deleted, and readers know that
\* what the cache has of it may be out of date.
Whole == \A m \in Ids : server[m].kind = "marker" /\ ~(m \in deleted /\ m \in raced) =>
    server[server[m].v].kind = "doc"

Inv == Typed /\ Single /\ Real /\ Held /\ Superseded /\ Doomed /\ Whole

\* What was deleted and what was raced is never forgotten.
Grown == raced \subseteq raced' /\ deleted \subseteq deleted'

\* A request that neither deletes, nor has edited, nor is about to write a
\* marker, and that knows of documents only what something else knew.
Plain(k) ==
    /\ k \in Works /\ k.pc \notin {"delete", "edited"}
    /\ \A d \in Ids : ~Holds(k, d)
    /\ \A m, d \in Ids : TaskRefers(k, m, d) => Refers(m, d)

-----------------------------------------------------------------------------
(* Ids and messages.                                                       *)

\* A set of naturals with a member has a least one.
LEMMA Least ==
    ASSUME NEW S \in SUBSET Nat, S # {}
    PROVE  \E m \in S : \A n \in S : m <= n
<1>1. IsWellFoundedOn(OpToRel(<, Nat), Nat)
  BY Zenon, NatLessThanWellFounded
<1>2. PICK m \in S : \A n \in S : <<n, m>> \notin OpToRel(<, Nat)
  BY Zenon, <1>1, WFMin
<1>3. \A n \in S : ~(n < m)
  BY Zenon, <1>2 DEF OpToRel
<1> QED BY SMTT(60), Z3T(60), <1>3

\* Telegram gives a new message an id that no message has had (NewId).
LEMMA FreshId ==
    ASSUME FreeIds # {}
    PROVE  NewId \in Ids /\ server[NewId] = Unknown
<1>1. FreeIds \in SUBSET Nat
  BY SMTT(60), Z3T(60), TelegramTextAssumption DEF FreeIds, Ids
<1>2. \E m \in FreeIds : \A n \in FreeIds : m <= n
  BY Zenon, <1>1, Least
<1>3. NewId \in FreeIds
  BY Zenon, <1>2 DEF NewId
<1> QED BY Zenon, <1>3 DEF FreeIds

\* A message with a marker's kind is the marker of a document, and the kinds
\* are told apart.
LEMMA Kinds ==
    ASSUME NEW s \in Said
    PROVE  /\ s.kind = "marker" => s.v \in Ids /\ s = Marker(s.v)
           /\ s.kind \in {"text", "doc"} => s.v \in Nat
           /\ s.kind = "unknown" <=> s = Unknown
BY SMTT(60), Z3T(60) DEF Said, Marker, Gone, Unknown

\* Markers differ from everything else, and from one another by their
\* documents.
LEMMA Marked ==
    ASSUME NEW d, NEW x
    PROVE  /\ Marker(d).kind = "marker" /\ Marker(d).v = d
           /\ Marker(d) # Unknown /\ Marker(d) # Gone /\ Marker(d) # Document(x) /\ Marker(d) # Text(x)
           /\ Marker(d) = Marker(x) => d = x
           /\ Unknown.kind = "unknown" /\ Gone.kind = "gone"
           /\ Document(x).kind = "doc" /\ Text(x).kind = "text"
BY Zenon DEF Marker, Unknown, Gone, Document, Text

\* What a message can be made to say is a message.
LEMMA SaidFacts ==
    /\ Unknown \in Said /\ Gone \in Said
    /\ \A x \in Texts : Document(x) \in Said /\ Text(x) \in Said
    /\ \A d \in Ids : Marker(d) \in Said
BY Zenon, TelegramTextAssumption DEF Said, Unknown, Gone, Document, Text, Marker

\* The fields of a request at each of its stages.
LEMMA Stages ==
    ASSUME NEW k \in Works
    PROVE  /\ k.pc \in {"upload", "send"} => k \in Uploads
           /\ k.pc \in {"edit", "edited"} => k \in Edits
           /\ k.pc = "delete" => k \in Deletes
           /\ k.pc = "got" => k \in Gots
BY SMTT(60), Z3T(60) DEF Works, Uploads, Edits, Deletes, Gots, Idle

\* The fields of the collector at each of its stages.
LEMMA ColStages ==
    ASSUME NEW c \in Cols
    PROVE  /\ c.pc = "fetch" => c \in [pc : {"fetch"}, batch : SUBSET Orders, n : Nat, want : SUBSET Ids]
           /\ c.pc = "read" => c \in [pc : {"read"}, batch : SUBSET Orders, n : Nat, got : Replies]
           /\ c.pc = "me" => c \in [pc : {"me"}, batch : SUBSET Orders, n : Nat]
BY SMTT(60), Z3T(60) DEF Cols, NoCol

\* Telegram answers with messages.
LEMMA ReplyIds ==
    ASSUME NEW c \in Cols, c.pc = "read", NEW m \in DOMAIN c.got
    PROVE  m \in Ids
<1>1. c.got \in Replies
  BY Zenon, ColStages
<1> QED BY Zenon, <1>1 DEF Replies

\* The cache keeps its entries and the new ones, or loses them (Stored).
LEMMA StoredFacts ==
    ASSUME NEW c, NEW S, NEW new, NEW e,
           c \in [Ids -> Said], S \in SUBSET Ids, new \in [S -> Said], e \in Stored(c, new)
    PROVE  /\ e \in [Ids -> Said]
           /\ \A m \in Ids : \/ e[m] = Unknown
                             \/ m \in S /\ e[m] = new[m]
                             \/ m \notin S /\ e[m] = c[m]
<1>1. PICK K : e = [m \in Ids |-> IF m \notin K THEN Unknown ELSE IF m \in DOMAIN new THEN new[m] ELSE c[m]]
  BY Zenon DEF Stored
<1>2. \A m \in Ids : \/ e[m] = Unknown
                     \/ m \in S /\ e[m] = new[m]
                     \/ m \notin S /\ e[m] = c[m]
  BY Zenon, <1>1
<1>3. \A m \in Ids : e[m] \in Said
  BY Zenon, <1>2, SaidFacts
<1>4. e \in [Ids -> Said]
  BY Zenon, <1>1, <1>3
<1> QED BY Zenon, <1>2, <1>4

\* A client that forgets messages has None or nothing for them (Forget).
LEMMA ForgetFacts ==
    ASSUME cache \in [Ids -> Said], NEW ms \in SUBSET Ids, Forget(ms)
    PROVE  /\ cache' \in [Ids -> Said]
           /\ \A m \in Ids : cache'[m] \in {Unknown, Gone} \/ (m \notin ms /\ cache'[m] = cache[m])
<1>1. PICK new : new = [m \in ms |-> Gone]
  BY Zenon
<1>2. new \in [ms -> Said]
  BY Zenon, <1>1, SaidFacts
<1>3. cache' \in Stored(cache, new)
  BY Zenon, <1>1 DEF Forget
<1>4. PICK e : e = cache'
  BY Zenon
<1>5. /\ e \in [Ids -> Said]
      /\ \A m \in Ids : \/ e[m] = Unknown
                        \/ m \in ms /\ e[m] = new[m]
                        \/ m \notin ms /\ e[m] = cache[m]
  <2>1. cache \in [Ids -> Said] /\ ms \in SUBSET Ids
    OBVIOUS
  <2>2. e \in Stored(cache, new)
    BY Zenon, <1>3, <1>4
  <2> QED BY SMTT(60), Z3T(60), ZenonT(60), <2>1, <2>2, <1>2, StoredFacts
<1>6. \A m \in ms : new[m] = Gone
  BY Zenon, <1>1
<1> QED BY Zenon, <1>4, <1>5, <1>6

-----------------------------------------------------------------------------
(* Steps that leave Telegram alone and delete nothing.                     *)

\* Steps that learn nothing new about documents keep the invariant.
LEMMA Quiet ==
    ASSUME Inv, Grown, Typed', server' = server,
           \A m, d \in Ids : cache'[m] = Marker(d) => Refers(m, d),
           \A m, d \in Ids : overflowOf'[m] = d => Refers(m, d),
           \A m, d \in Ids : ColRefers(col', m, d) => Refers(m, d),
           \A u \in Tasks : task'[u] = task[u] \/ Plain(task'[u])
    PROVE  Inv'
<1>1. \A m, d \in Ids : Refers(m, d)' => Refers(m, d)
  <2> SUFFICES ASSUME NEW m \in Ids, NEW d \in Ids, Refers(m, d)'
               PROVE  Refers(m, d)
    BY Zenon
  <2>1. CASE server'[m] = Marker(d)
    BY Zenon, <2>1 DEF Refers
  <2>2. CASE \E u \in Tasks : TaskRefers(task'[u], m, d)
    BY Zenon, <2>2 DEF Plain, Refers
  <2> QED BY Zenon, <2>1, <2>2 DEF Refers
<1>2. \A u \in Tasks, d \in Ids : Holds(task'[u], d) => Holds(task[u], d)
  BY Zenon DEF Plain
<1>3. \A u \in Tasks : task'[u].pc \in {"delete", "edited"} => task'[u] = task[u]
  BY Zenon DEF Plain
<1>4. Single'
  BY Zenon, <1>1 DEF Inv, Single
<1>5. Real'
  BY Zenon, <1>1, <1>3 DEF Inv, Real
<1>6. Held'
  BY Zenon, <1>1, <1>2, <1>3 DEF Inv, Held
<1>7. Superseded'
  BY Zenon, <1>3 DEF Inv, Superseded
<1>8. Doomed'
  BY Zenon, <1>3 DEF Inv, Doomed, Grown
<1>9. Whole'
  BY Zenon DEF Inv, Whole, Grown
<1> QED BY Zenon, <1>4, <1>5, <1>6, <1>7, <1>8, <1>9 DEF Inv

\* A request that moves to a plain stage, and a client that may forget a
\* message on the way.
LEMMA OneTask ==
    ASSUME Inv, Grown, NEW t \in Tasks, NEW k, Plain(k), Goto(t, k),
           cache' \in [Ids -> Said], \A m \in Ids : cache'[m] \in {cache[m], Unknown, Gone},
           requests' \in SUBSET Orders, col' \in Cols,
           \A m, d \in Ids : ColRefers(col', m, d) => Refers(m, d),
           UNCHANGED <<server, overflowOf, known>>
    PROVE  Inv'
<1>1. Typed'
  BY Zenon DEF Inv, Typed, Goto, Plain
<1>2. \A m, d \in Ids : cache'[m] = Marker(d) => Refers(m, d)
  BY SMTT(60), Z3T(60), Marked DEF Refers
<1>3. \A m, d \in Ids : overflowOf'[m] = d => Refers(m, d)
  BY Zenon DEF Refers
<1>4. \A u \in Tasks : task'[u] = task[u] \/ Plain(task'[u])
  BY Zenon DEF Goto, Inv, Typed
<1> QED BY Zenon, <1>1, <1>2, <1>3, <1>4, Quiet

\* Being idle or waiting for the collector is plain.
LEMMA IdlePlain == Plain(Idle) /\ Plain([pc |-> "get"])
BY Zenon DEF Plain, Works, Idle, Holds, TaskRefers

\* send_text and edit_message_text begin with a document or a request that
\* refers to nothing but the document noted for the message.
LEMMA SendBeginKept ==
    ASSUME Inv, Grown, NEW t \in Tasks, NEW x \in Texts, SendBegin(t, x)
    PROVE  Inv'
<1>1. PICK k : k = [pc |-> IF x \in LongTexts THEN "upload" ELSE "send", m |-> 0, x |-> x, doc |-> 0, old |-> 0]
  BY Zenon
<1>2. k \in Uploads
  BY Zenon, <1>1 DEF Uploads, Ids0
<1>3. Plain(k)
  BY SMTT(60), Z3T(60), <1>1, <1>2, TelegramTextAssumption DEF Plain, Works, Holds, TaskRefers, Ids
<1>4. Goto(t, k)
  BY Zenon, <1>1 DEF SendBegin
<1>5. UNCHANGED <<server, cache, overflowOf, known, requests, col>>
  BY Zenon DEF SendBegin
<1>6. \A m, d \in Ids : ColRefers(col', m, d) => Refers(m, d)
  BY Zenon, <1>5 DEF Refers
<1>7. cache' \in [Ids -> Said] /\ requests' \in SUBSET Orders /\ col' \in Cols
  BY Zenon, <1>5 DEF Inv, Typed
<1>8. \A m \in Ids : cache'[m] \in {cache[m], Unknown, Gone}
  BY Zenon, <1>5
<1> QED BY Zenon, <1>3, <1>4, <1>5, <1>6, <1>7, <1>8, OneTask

\* An edit begins: of the message it knows the document the store has noted.
LEMMA EditBeginKept ==
    ASSUME Inv, Grown, NEW t \in Tasks, NEW m \in Ids, NEW x \in Texts, EditBegin(t, m, x)
    PROVE  Inv'
<1>1. PICK k : k = [pc |-> "upload", m |-> m, x |-> x, doc |-> 0, old |-> overflowOf[m]]
  BY Zenon
<1>2. PICK e : e = [k EXCEPT !.pc = "edit"]
  BY Zenon
<1>3. e = [pc |-> "edit", m |-> m, x |-> x, doc |-> 0, old |-> overflowOf[m]]
  BY Zenon, <1>1, <1>2
<1>4. k \in Works /\ e \in Works
  BY Zenon, <1>1, <1>3 DEF Works, Uploads, Edits, Ids0, Inv, Typed
<1>5. Plain(k)
  <2>1. \A n, d \in Ids : TaskRefers(k, n, d) => overflowOf[n] = d
    BY Zenon, <1>1 DEF TaskRefers
  <2> QED BY Zenon, <1>1, <1>4, <2>1 DEF Plain, Holds, Refers
<1>6. Plain(e)
  <2>1. \A n, d \in Ids : TaskRefers(e, n, d) => overflowOf[n] = d
    BY Zenon, <1>3 DEF TaskRefers
  <2>2. \A d \in Ids : ~Holds(e, d)
    BY SMTT(60), Z3T(60), <1>3, TelegramTextAssumption DEF Holds, Ids
  <2> QED BY Zenon, <1>3, <1>4, <2>1, <2>2 DEF Plain, Refers
<1>7. \/ Goto(t, k) /\ cache' = cache
      \/ Goto(t, e) /\ Forget({m})
  BY Zenon, <1>1, <1>2, <1>3 DEF EditBegin, EditRequest
<1>8. UNCHANGED <<server, overflowOf, known, requests, col>>
  BY Zenon DEF EditBegin
<1>9. \A n, d \in Ids : ColRefers(col', n, d) => Refers(n, d)
  BY Zenon, <1>8 DEF Refers
<1>10. requests' \in SUBSET Orders /\ col' \in Cols
  BY Zenon, <1>8 DEF Inv, Typed
<1>11. cache' \in [Ids -> Said] /\ \A n \in Ids : cache'[n] \in {cache[n], Unknown, Gone}
  <2>1. cache \in [Ids -> Said] /\ {m} \in SUBSET Ids
    BY Zenon DEF Inv, Typed
  <2>2. CASE cache' = cache
    BY Zenon, <2>1, <2>2
  <2>3. CASE Forget({m})
    BY Zenon, <2>1, <2>3, ForgetFacts
  <2> QED BY Zenon, <1>7, <2>2, <2>3
<1>12. Goto(t, k) \/ Goto(t, e)
  BY Zenon, <1>7
<1> QED BY Zenon, <1>5, <1>6, <1>12, <1>8, <1>9, <1>10, <1>11, OneTask

\* The end of a request leaves everything else alone.
LEMMA IdleKept ==
    ASSUME Inv, Grown, NEW t \in Tasks, Goto(t, Idle),
           UNCHANGED <<server, cache, overflowOf, known, requests, col>>
    PROVE  Inv'
<1>1. \A m, d \in Ids : ColRefers(col', m, d) => Refers(m, d)
  BY Zenon DEF Refers
<1>2. cache' \in [Ids -> Said] /\ requests' \in SUBSET Orders /\ col' \in Cols
  BY Zenon DEF Inv, Typed
<1> QED BY ZenonT(60), <1>1, <1>2, IdlePlain, OneTask

-----------------------------------------------------------------------------
(* Reading.                                                                *)

\* An answer knows the documents of the cache it is taken from (Found).
LEMMA FoundPlain ==
    ASSUME NEW ids \in SUBSET Ids, NEW c \in [Ids -> Said], NEW l \in BOOLEAN,
           \A m, d \in Ids : c[m] = Marker(d) => Refers(m, d)
    PROVE  Plain(Found(ids, c)) /\ Plain([Found(ids, c) EXCEPT !.lossy = l])
<1>1. ASSUME NEW b \in BOOLEAN, NEW g,
             \/ g = [Found(ids, c) EXCEPT !.lossy = b]
             \/ g = Found(ids, c) /\ b = FALSE
      PROVE  Plain(g)
  <2>1. /\ g.pc = "got" /\ g.todo = {m \in ids : c[m].kind = "marker"} /\ g.lossy = b
        /\ g.out = [m \in ids |-> IF c[m].kind = "text" THEN c[m].v ELSE 0]
        /\ g.doc = [m \in ids |-> IF c[m].kind = "marker" THEN c[m].v ELSE 0]
        /\ g = [pc |-> g.pc, todo |-> g.todo, lossy |-> g.lossy, out |-> g.out, doc |-> g.doc]
    <3>1. CASE g = [Found(ids, c) EXCEPT !.lossy = b]
      BY Zenon, <3>1 DEF Found
    <3>2. CASE g = Found(ids, c) /\ b = FALSE
      BY Zenon, <3>2 DEF Found
    <3> QED BY Zenon, <1>1, <3>1, <3>2
  <2>2. \A m \in ids : /\ c[m].kind = "marker" => c[m].v \in Ids /\ c[m] = Marker(c[m].v)
                       /\ c[m].kind = "text" => c[m].v \in Nat
    BY Zenon, Kinds
  <2>3. g.out \in [ids -> Nat]
    BY SMTT(60), Z3T(60), <2>1, <2>2
  <2>4. g.doc \in [ids -> Ids0]
    BY Zenon, <2>1, <2>2 DEF Ids0
  <2>5. \A m \in g.todo : m \in ids /\ g.doc[m] \in Ids /\ c[m] = Marker(g.doc[m])
    BY Zenon, <2>1, <2>2
  <2>6. g \in [pc : {"got"}, todo : SUBSET ids, lossy : BOOLEAN, out : [ids -> Nat], doc : [ids -> Ids0]]
    BY Zenon, <2>1, <2>3, <2>4, <2>5
  <2>7. g \in Gots
    BY SMTT(60), Z3T(60), <2>5, <2>6 DEF Gots
  <2>8. \A m, d \in Ids : TaskRefers(g, m, d) => c[m] = Marker(d)
    BY SMTT(60), ZenonT(60), <2>1, <2>5 DEF TaskRefers
  <2> QED BY Zenon, <2>1, <2>7, <2>8 DEF Plain, Works, Holds
<1> QED BY Zenon, <1>1

\* The requests of a batch get plain answers (Answer), or an exception
\* (Raise).
LEMMA AnswerFacts ==
    ASSUME Inv, NEW batch \in SUBSET Orders, NEW c \in [Ids -> Said], NEW evicted,
           \A m, d \in Ids : c[m] = Marker(d) => Refers(m, d),
           Answer(batch, c, evicted)
    PROVE  /\ task' \in [Tasks -> Works]
           /\ \A u \in Tasks : task'[u] = task[u] \/ Plain(task'[u])
           /\ col' \in {NoCol, [pc |-> "sleep"]}
<1>1. \A u \in Tasks : task'[u] = task[u] \/ Plain(task'[u])
  <2> SUFFICES ASSUME NEW u \in Tasks, \E r \in batch : r.t = u
               PROVE  Plain(task'[u])
    BY Zenon DEF Answer
  <2>1. PICK r : r = CHOOSE q \in batch : q.t = u
    BY Zenon
  <2>2. r \in batch
    BY Zenon, <2>1
  <2>3. r.ids \in SUBSET Ids
    BY Zenon, <2>2 DEF Orders
  <2>4. PICK l : l = (Wanted(batch) \cap evicted # {})
    BY Zenon
  <2>5. l \in BOOLEAN
    BY Zenon, <2>4
  <2>6. task'[u] = [Found(r.ids, c) EXCEPT !.lossy = l]
    BY Zenon, <2>1, <2>4 DEF Answer
  <2> QED BY SMTT(60), Z3T(60), <2>3, <2>5, <2>6, FoundPlain
<1>2. \A u \in Tasks : task'[u] \in Works
  BY Zenon, <1>1 DEF Inv, Typed, Plain
<1>3. DOMAIN task' = Tasks /\ task' = [u \in Tasks |-> task'[u]]
  BY Zenon DEF Answer
<1>4. task' \in [Tasks -> Works]
  BY Zenon, <1>2, <1>3
<1> QED BY Zenon, <1>1, <1>4 DEF Answer

\* An exception leaves everyone who waited idle (Raise).
LEMMA RaiseFacts ==
    ASSUME Inv, NEW batch, Raise(batch)
    PROVE  /\ task' \in [Tasks -> Works]
           /\ \A u \in Tasks : task'[u] = task[u] \/ Plain(task'[u])
<1>1. \A u \in Tasks : task'[u] = task[u] \/ task'[u] = Idle
  BY Zenon DEF Raise
<1>2. Idle \in Works
  BY Zenon DEF Works
<1>3. task' \in [Tasks -> Works]
  BY Zenon, <1>2 DEF Raise, Inv, Typed
<1> QED BY Zenon, <1>1, <1>3, IdlePlain

\* A collector that only sleeps, or asks, knows no document.
LEMMA ColQuiet ==
    ASSUME NEW c, c.pc # "read"
    PROVE  \A m, d \in Ids : ColRefers(c, m, d) => Refers(m, d)
BY Zenon DEF ColRefers

\* An attempt answers from the cache or asks Telegram (Attempt).
LEMMA AttemptKept ==
    ASSUME Inv, Grown, NEW batch \in SUBSET Orders, NEW n \in Nat, Attempt(batch, n),
           requests' \in SUBSET Orders, UNCHANGED <<server, cache, overflowOf, known>>
    PROVE  Inv'
<1>1. \A m, d \in Ids : cache[m] = Marker(d) => Refers(m, d)
  BY Zenon DEF Refers
<1>2. cache \in [Ids -> Said]
  BY Zenon DEF Inv, Typed
<1>3. PICK missing : missing = {m \in Wanted(batch) : ~Has(cache, m)}
  BY Zenon
<1>4. missing \in SUBSET Ids
  BY ZenonT(60), <1>3 DEF Wanted, Orders
<1>5. \/ Answer(batch, cache, {})
      \/ col' = [pc |-> "fetch", batch |-> batch, n |-> n, want |-> missing] /\ task' = task
  BY Zenon, <1>3 DEF Attempt
<1>6. /\ task' \in [Tasks -> Works]
      /\ \A u \in Tasks : task'[u] = task[u] \/ Plain(task'[u])
  <2>1. CASE task' = task
    BY Zenon, <2>1 DEF Inv, Typed
  <2>2. CASE Answer(batch, cache, {})
    BY Zenon, <2>2, <1>1, <1>2, AnswerFacts
  <2> QED BY Zenon, <1>5, <2>1, <2>2
<1>7. col' \in Cols /\ col'.pc # "read"
  <2>1. CASE col' = [pc |-> "fetch", batch |-> batch, n |-> n, want |-> missing]
    BY Zenon, <2>1, <1>4 DEF Cols
  <2>2. CASE Answer(batch, cache, {})
    <3>1. col' \in {NoCol, [pc |-> "sleep"]}
      BY Zenon, <2>2, <1>1, <1>2, AnswerFacts
    <3> QED BY SMTT(60), Z3T(60), <3>1 DEF Cols, NoCol
  <2> QED BY Zenon, <1>5, <2>1, <2>2
<1>8. Typed'
  BY Zenon, <1>6, <1>7 DEF Inv, Typed
<1>9. \A m, d \in Ids : ColRefers(col', m, d) => Refers(m, d)
  BY Zenon, <1>7, ColQuiet
<1>10. /\ \A m, d \in Ids : cache'[m] = Marker(d) => Refers(m, d)
       /\ \A m, d \in Ids : overflowOf'[m] = d => Refers(m, d)
  BY Zenon DEF Refers
<1> QED BY Zenon, <1>6, <1>8, <1>9, <1>10, Quiet

\* A read begins: answered from the cache, or queued for the collector.
LEMMA GetBeginKept ==
    ASSUME Inv, Grown, NEW t \in Tasks, NEW ids \in SUBSET Ids, GetBegin(t, ids)
    PROVE  Inv'
<1>1. UNCHANGED <<server, cache, overflowOf, known>>
  BY ZenonT(60) DEF GetBegin
<1>2. \A m, d \in Ids : cache[m] = Marker(d) => Refers(m, d)
  BY Zenon DEF Refers
<1>3. cache \in [Ids -> Said] /\ requests \in SUBSET Orders /\ col \in Cols
  BY Zenon DEF Inv, Typed
<1>4. \A m \in Ids : cache'[m] \in {cache[m], Unknown, Gone}
  BY Zenon, <1>1
<1>5. CASE Goto(t, Found(ids, cache)) /\ UNCHANGED <<requests, col>>
  <2>1. Plain(Found(ids, cache))
    BY ZenonT(60), <1>2, <1>3, FoundPlain
  <2>2. \A m, d \in Ids : ColRefers(col', m, d) => Refers(m, d)
    BY Zenon, <1>5 DEF Refers
  <2> QED BY Zenon, <1>1, <1>3, <1>4, <1>5, <2>1, <2>2, OneTask
<1>6. CASE /\ Goto(t, [pc |-> "get"])
           /\ requests' = requests \cup {[ids |-> ids, t |-> t]}
           /\ col' = IF col = NoCol THEN [pc |-> "sleep"] ELSE col
  <2>1. requests' \in SUBSET Orders
    BY SMTT(60), Z3T(60), <1>3, <1>6 DEF Orders
  <2>2. col' \in Cols
    BY Zenon, <1>3, <1>6 DEF Cols
  <2>3. \A m, d \in Ids : ColRefers(col', m, d) => Refers(m, d)
    BY ZenonT(60), <1>6 DEF ColRefers, Refers
  <2> QED BY ZenonT(60), <1>1, <1>3, <1>4, <1>6, <2>1, <2>2, <2>3, IdlePlain, OneTask
<1> QED BY Zenon, <1>5, <1>6 DEF GetBegin

\* Steps of the collector that answer nobody.
LEMMA ColKept ==
    ASSUME Inv, Grown, col' \in Cols, \A m, d \in Ids : ColRefers(col', m, d) => Refers(m, d),
           UNCHANGED <<server, cache, overflowOf, known, requests, task>>
    PROVE  Inv'
<1>1. Typed'
  BY ZenonT(60) DEF Inv, Typed
<1>2. /\ \A m, d \in Ids : cache'[m] = Marker(d) => Refers(m, d)
      /\ \A m, d \in Ids : overflowOf'[m] = d => Refers(m, d)
  BY Zenon DEF Refers
<1> QED BY Zenon, <1>1, <1>2, Quiet

\* Telegram reads the messages; the answer knows the documents their markers name.
LEMMA ServerReadsKept ==
    ASSUME Inv, Grown, ServerReads
    PROVE  Inv'
<1>1. col \in [pc : {"fetch"}, batch : SUBSET Orders, n : Nat, want : SUBSET Ids]
  BY Zenon, ColStages DEF Inv, Typed, ServerReads
<1>2. PICK got : got = [m \in col.want |-> server[m]]
  BY Zenon
<1>3. col' = [pc |-> "read", batch |-> col.batch, n |-> col.n, got |-> got]
  BY Zenon, <1>2 DEF ServerReads
<1>4. got \in [col.want -> Said]
  BY Zenon, <1>1, <1>2 DEF Inv, Typed
<1>5. got \in Replies
  BY Zenon, <1>1, <1>4 DEF Replies
<1>6. col' \in Cols
  BY Zenon, <1>1, <1>3, <1>5 DEF Cols
<1>7. \A m, d \in Ids : ColRefers(col', m, d) => server[m] = Marker(d)
  BY Zenon, <1>2, <1>3 DEF ColRefers
<1>8. UNCHANGED <<server, cache, overflowOf, known, requests, task>>
  BY Zenon DEF ServerReads
<1>9. \A m, d \in Ids : ColRefers(col', m, d) => Refers(m, d)
  BY Zenon, <1>7 DEF Refers
<1> QED BY ZenonT(60), <1>6, <1>8, <1>9, ColKept

\* A call for messages fails, and its answer is lost.
LEMMA FetchFailsKept ==
    ASSUME Inv, Grown, FetchFails
    PROVE  Inv'
<1>1. col.batch \in SUBSET Orders /\ col.n \in Nat
  BY Zenon, ColStages DEF Inv, Typed, FetchFails
<1>2. col' = [pc |-> "me", batch |-> col.batch, n |-> col.n]
  BY Zenon DEF FetchFails
<1>3. col' \in Cols /\ col'.pc # "read"
  BY Zenon, <1>1, <1>2 DEF Cols
<1>4. UNCHANGED <<server, cache, overflowOf, known, requests, task>>
  BY Zenon DEF FetchFails
<1>5. \A m, d \in Ids : ColRefers(col', m, d) => Refers(m, d)
  BY Zenon, <1>3, ColQuiet
<1> QED BY ZenonT(60), <1>3, <1>4, <1>5, ColKept

\* The collector takes the queue for its batch.
LEMMA FlushKept ==
    ASSUME Inv, Grown, Flush
    PROVE  Inv'
<1>1. requests \in SUBSET Orders /\ requests' \in SUBSET Orders
  BY Zenon DEF Inv, Typed, Flush
<1>2. Attempt(requests, 1) /\ UNCHANGED <<server, cache, overflowOf, known>>
  BY Zenon DEF Flush
<1> QED BY Zenon, <1>1, <1>2, AttemptKept

\* The answer of Telegram goes through the cache to the readers.
LEMMA FetchReplyKept ==
    ASSUME Inv, Grown, FetchReply
    PROVE  Inv'
<1>1. col \in [pc : {"read"}, batch : SUBSET Orders, n : Nat, got : Replies]
  BY Zenon, ColStages DEF Inv, Typed, FetchReply
<1>2. PICK new : new = {m \in DOMAIN col.got : Has(col.got, m)}
  BY Zenon
<1>3. PICK g : g = [m \in new |-> col.got[m]]
  BY Zenon
<1>4. PICK c, lost : /\ c = cache' /\ lost = {m \in new : ~Has(cache', m)}
                    /\ c \in Stored(cache, g) /\ Answer(col.batch, c, lost)
  BY Zenon, <1>2, <1>3 DEF FetchReply
<1>5. UNCHANGED <<server, overflowOf, known, requests>>
  BY Zenon DEF FetchReply
<1>6. new \in SUBSET Ids /\ \A m \in new : m \in DOMAIN col.got /\ col.got[m] \in Said
  BY SMTT(60), Z3T(60), <1>1, <1>2 DEF Replies
<1>7. g \in [new -> Said]
  BY Zenon, <1>3, <1>6
<1>8. /\ c \in [Ids -> Said]
      /\ \A m \in Ids : c[m] = Unknown \/ (m \in new /\ c[m] = g[m]) \/ (m \notin new /\ c[m] = cache[m])
  <2>1. cache \in [Ids -> Said]
    BY Zenon DEF Inv, Typed
  <2>2. c \in Stored(cache, g)
    BY Zenon, <1>4
  <2>3. new \in SUBSET Ids
    BY Zenon, <1>6
  <2> QED BY SMTT(60), Z3T(60), ZenonT(60), <1>7, <2>1, <2>2, <2>3, StoredFacts
<1>9. \A m, d \in Ids : c[m] = Marker(d) => Refers(m, d)
  <2> SUFFICES ASSUME NEW m \in Ids, NEW d \in Ids, c[m] = Marker(d)
               PROVE  Refers(m, d)
    BY Zenon
  <2>1. Marker(d) # Unknown
    BY Zenon, Marked
  <2>2. CASE m \in new /\ c[m] = g[m]
    <3>1. col.got[m] = Marker(d)
      BY Zenon, <1>3, <2>2
    <3> QED BY Zenon, <1>1, <1>6, <2>2, <3>1 DEF Refers, ColRefers
  <2>3. CASE cache[m] = Marker(d)
    BY Zenon, <2>3 DEF Refers
  <2> QED BY Zenon, <1>8, <2>1, <2>2, <2>3
<1>10. /\ task' \in [Tasks -> Works]
       /\ \A u \in Tasks : task'[u] = task[u] \/ Plain(task'[u])
       /\ col' \in {NoCol, [pc |-> "sleep"]}
  <2>1. c \in [Ids -> Said] /\ col.batch \in SUBSET Orders /\ Answer(col.batch, c, lost)
    BY Zenon, <1>1, <1>4, <1>8
  <2> QED BY Zenon, <2>1, <1>9, AnswerFacts
<1>11. col' \in Cols /\ col'.pc # "read"
  BY SMTT(60), Z3T(60), <1>10 DEF Cols, NoCol
<1>12. Typed'
  BY Zenon, <1>4, <1>5, <1>8, <1>10, <1>11 DEF Inv, Typed
<1>13. \A m, d \in Ids : ColRefers(col', m, d) => Refers(m, d)
  BY Zenon, <1>11, ColQuiet
<1>14. \A m, d \in Ids : overflowOf'[m] = d => Refers(m, d)
  BY ZenonT(60), <1>5 DEF Refers
<1>15. \A m, d \in Ids : cache'[m] = Marker(d) => Refers(m, d)
  BY Zenon, <1>4, <1>9
<1> QED BY ZenonT(60), <1>5, <1>15, <1>10, <1>12, <1>13, <1>14, Quiet

\* The collector gives up: whoever waited has an exception.
LEMMA RaiseKept ==
    ASSUME Inv, Grown, NEW batch, Raise(batch), col' \in {NoCol, [pc |-> "sleep"]},
           requests' \in SUBSET Orders, UNCHANGED <<server, cache, overflowOf, known>>
    PROVE  Inv'
<1>1. /\ task' \in [Tasks -> Works]
      /\ \A u \in Tasks : task'[u] = task[u] \/ Plain(task'[u])
  BY Zenon, RaiseFacts
<1>2. col' \in Cols /\ col'.pc # "read"
  BY SMTT(60), Z3T(60) DEF Cols, NoCol
<1>3. Typed'
  BY Zenon, <1>1, <1>2 DEF Inv, Typed
<1>4. \A m, d \in Ids : ColRefers(col', m, d) => Refers(m, d)
  BY ZenonT(60), <1>2, ColQuiet
<1>5. /\ \A m, d \in Ids : cache'[m] = Marker(d) => Refers(m, d)
      /\ \A m, d \in Ids : overflowOf'[m] = d => Refers(m, d)
  BY Zenon DEF Refers
<1> QED BY Zenon, <1>1, <1>3, <1>4, <1>5, Quiet

\* The next bot tries, or everyone gets the failure.
LEMMA NextBotKept ==
    ASSUME Inv, Grown, NextBot
    PROVE  Inv'
<1>1. col.batch \in SUBSET Orders /\ col.n \in Nat
  BY Zenon, ColStages DEF Inv, Typed, NextBot
<1>2. PICK n : n = col.n + 1
  BY Zenon
<1>3. n \in Nat
  BY SMTT(60), Z3T(60), <1>1, <1>2
<1>4. UNCHANGED <<server, cache, overflowOf, known>> /\ requests' \in SUBSET Orders
  BY Zenon DEF NextBot, Inv, Typed
<1>5. CASE Attempt(col.batch, n)
  BY Zenon, <1>1, <1>3, <1>4, <1>5, AttemptKept
<1>6. CASE Raise(col.batch) /\ col' \in {NoCol, [pc |-> "sleep"]}
  BY ZenonT(60), <1>4, <1>6, RaiseKept
<1> QED BY ZenonT(60), <1>2, <1>5, <1>6 DEF NextBot

\* The collector dies with everyone who waits.
LEMMA CollectorDiesKept ==
    ASSUME Inv, Grown, CollectorDies
    PROVE  Inv'
<1>1. UNCHANGED <<server, cache, overflowOf, known>> /\ requests' \in SUBSET Orders
  BY Zenon DEF CollectorDies
<1>2. Raise(col.batch \cup requests) /\ col' \in {NoCol, [pc |-> "sleep"]}
  BY ZenonT(60) DEF CollectorDies
<1> QED BY Zenon, <1>1, <1>2, RaiseKept

\* A cancelled reader leaves its request behind, in nobody's name.
LEMMA CancelKept ==
    ASSUME Inv, Grown, NEW t \in Tasks, Cancel(t)
    PROVE  Inv'
<1> DEFINE drop(rs) == {[r EXCEPT !.t = IF @ = t THEN Nobody ELSE @] : r \in rs}
<1>1. ASSUME NEW rs \in SUBSET Orders
      PROVE  drop(rs) \in SUBSET Orders
  BY Zenon DEF Orders
<1>2. requests' \in SUBSET Orders
  <2>1. requests' = drop(requests)
    BY Zenon DEF Cancel
  <2> QED BY Zenon, <1>1, <2>1 DEF Inv, Typed
<1>3. \/ col' = col
      \/ col.pc \in {"fetch", "read", "me"} /\ col' = [col EXCEPT !.batch = drop(col.batch)]
  BY Zenon DEF Cancel, Inv, Typed, Cols, NoCol
<1>4. col.pc \in {"fetch", "read", "me"} => drop(col.batch) \in SUBSET Orders
  BY Zenon, <1>1, ColStages DEF Inv, Typed
<1> HIDE DEF drop
<1>5. col' \in Cols
  <2>1. CASE col' = col
    BY Zenon, <2>1 DEF Inv, Typed
  <2>2. CASE col.pc = "fetch" /\ col' = [col EXCEPT !.batch = drop(col.batch)]
    BY Zenon, <2>2, <1>4, ColStages DEF Inv, Typed, Cols
  <2>3. CASE col.pc = "read" /\ col' = [col EXCEPT !.batch = drop(col.batch)]
    BY Zenon, <2>3, <1>4, ColStages DEF Inv, Typed, Cols
  <2>4. CASE col.pc = "me" /\ col' = [col EXCEPT !.batch = drop(col.batch)]
    BY Zenon, <2>4, <1>4, ColStages DEF Inv, Typed, Cols
  <2> QED BY Zenon, <1>3, <2>1, <2>2, <2>3, <2>4
<1>6. \A m, d \in Ids : ColRefers(col', m, d) => ColRefers(col, m, d)
  <2>1. CASE col' = col
    BY Zenon, <2>1
  <2>2. CASE col.pc = "fetch" /\ col' = [col EXCEPT !.batch = drop(col.batch)]
    BY Zenon, <2>2, ColStages DEF Inv, Typed, ColRefers
  <2>3. CASE col.pc = "read" /\ col' = [col EXCEPT !.batch = drop(col.batch)]
    BY Zenon, <2>3, ColStages DEF Inv, Typed, ColRefers
  <2>4. CASE col.pc = "me" /\ col' = [col EXCEPT !.batch = drop(col.batch)]
    BY ZenonT(60), <2>4, ColStages DEF Inv, Typed, ColRefers
  <2> QED BY Zenon, <1>3, <2>1, <2>2, <2>3, <2>4
<1>7. \A m, d \in Ids : ColRefers(col', m, d) => Refers(m, d)
  BY Zenon, <1>6 DEF Refers
<1>8. Goto(t, Idle) /\ UNCHANGED <<server, cache, overflowOf, known>>
  BY Zenon DEF Cancel
<1>9. cache' \in [Ids -> Said] /\ \A m \in Ids : cache'[m] \in {cache[m], Unknown, Gone}
  BY ZenonT(60), <1>8 DEF Inv, Typed
<1> QED BY Zenon, <1>2, <1>5, <1>7, <1>8, <1>9, IdlePlain, OneTask

\* Reading the message of a document puts no marker into the cache
\* (_document_for).
LEMMA ReadDocumentFacts ==
    ASSUME Inv, NEW d \in Ids, ReadDocument(d)
    PROVE  /\ cache' \in [Ids -> Said]
           /\ \A n \in Ids : \/ cache'[n] = cache[n] \/ cache'[n] = Unknown
                             \/ n = d /\ cache'[n] = server[d] /\ server[d].kind = "doc"
           /\ \A n, c \in Ids : cache'[n] = Marker(c) => cache[n] = Marker(c)
<1>1. cache \in [Ids -> Said] /\ server[d] \in Said
  BY Zenon DEF Inv, Typed
<1>2. /\ cache' \in [Ids -> Said]
      /\ \A n \in Ids : \/ cache'[n] = cache[n] \/ cache'[n] = Unknown
                        \/ n = d /\ cache'[n] = server[d] /\ server[d].kind = "doc"
  <2>1. CASE cache' = cache
    BY Zenon, <1>1, <2>1
  <2>2. CASE server[d].kind = "doc" /\ cache' \in Stored(cache, [m \in {d} |-> server[d]])
    <3>1. PICK new, S : new = [m \in {d} |-> server[d]] /\ S = {d}
      BY Zenon
    <3>2. PICK e : e = cache'
      BY Zenon
    <3>3. S \in SUBSET Ids /\ new \in [S -> Said] /\ \A m \in S : m = d /\ new[m] = server[d]
      BY Zenon, <1>1, <3>1
    <3>4. e \in Stored(cache, new)
      BY Zenon, <2>2, <3>1, <3>2
    <3>5. /\ e \in [Ids -> Said]
          /\ \A m \in Ids : \/ e[m] = Unknown
                            \/ m \in S /\ e[m] = new[m]
                            \/ m \notin S /\ e[m] = cache[m]
      BY SMTT(60), Z3T(60), ZenonT(60), <1>1, <3>3, <3>4, StoredFacts
    <3> QED BY Zenon, <2>2, <3>2, <3>3, <3>5
  <2> QED BY Zenon, <2>1, <2>2 DEF ReadDocument
<1>3. \A n, c \in Ids : cache'[n] = Marker(c) => cache[n] = Marker(c)
  <2> SUFFICES ASSUME NEW n \in Ids, NEW c \in Ids, cache'[n] = Marker(c)
               PROVE  cache[n] = Marker(c)
    BY Zenon
  <2>1. Marker(c) # Unknown /\ Marker(c).kind # "doc"
    BY ZenonT(30), SMTT(60), Marked
  <2> QED BY Zenon, <1>2, <2>1
<1> QED BY Zenon, <1>2, <1>3

\* A reader notes the document it found in a marker, and its text.
LEMMA ResolveKept ==
    ASSUME Inv, Grown, NEW t \in Tasks, Resolve(t)
    PROVE  Inv'
<1>1. PICK k : k = task[t]
  BY ZenonT(60)
<1>2. k \in Gots
  BY Zenon, <1>1, Stages DEF Inv, Typed, Resolve
<1>3. PICK W \in SUBSET Ids :
         /\ k \in [pc : {"got"}, todo : SUBSET W, lossy : BOOLEAN, out : [W -> Nat], doc : [W -> Ids0]]
         /\ \A m \in k.todo : k.doc[m] \in Ids
  BY Zenon, <1>2 DEF Gots
<1>4. PICK m : m = CHOOSE n \in k.todo : TRUE
  BY ZenonT(60)
<1>5. m \in k.todo
  BY Zenon, <1>1, <1>4 DEF Resolve
<1>6. PICK d : d = k.doc[m]
  BY Zenon
<1>7. m \in Ids /\ m \in W /\ d \in Ids
  BY Zenon, <1>3, <1>5, <1>6
<1>8. Refers(m, d)
  BY Zenon, <1>1, <1>3, <1>5, <1>6 DEF Refers, TaskRefers
<1>r. m = (CHOOSE n \in task[t].todo : TRUE) /\ d = task[t].doc[CHOOSE n \in task[t].todo : TRUE]
  BY ZenonT(60), <1>1, <1>4, <1>6
<1>9. overflowOf' = [overflowOf EXCEPT ![m] = d]
  BY Zenon, <1>1, <1>4, <1>6 DEF Resolve
<1>10. PICK x :
          /\ TextOf(d, x)
          /\ known' = [known EXCEPT ![d] = x]
          /\ Goto(t, [task[t] EXCEPT !.out[m] = x, !.todo = @ \ {m}, !.lossy = @ \/ x = 0])
  <2>1. \E x \in {known[d], server[d].v, 0} :
          /\ TextOf(d, x)
          /\ known' = [known EXCEPT ![d] = x]
          /\ Goto(t, [task[t] EXCEPT !.out[m] = x, !.todo = @ \ {m}, !.lossy = @ \/ x = 0])
    BY ZenonT(60), <1>r DEF Resolve
  <2> QED BY Zenon, <2>1
<1>11. x \in Nat
  <2>1. known[d] \in Nat /\ server[d] \in Said
    BY Zenon, <1>7 DEF Inv, Typed
  <2>2. server[d].kind = "doc" => server[d].v \in Nat
    BY Zenon, <2>1, Kinds
  <2>3. 0 \in Nat
    OBVIOUS
  <2> QED BY Zenon, <1>10, <2>1, <2>2, <2>3 DEF TextOf
<1>12. PICK e : e = [k EXCEPT !.out[m] = x, !.todo = @ \ {m}, !.lossy = @ \/ x = 0]
  BY Zenon
<1>13. /\ e.pc = "got" /\ e.todo = k.todo \ {m} /\ e.lossy = (k.lossy \/ x = 0)
       /\ e.out = [k.out EXCEPT ![m] = x] /\ e.doc = k.doc
       /\ e = [pc |-> e.pc, todo |-> e.todo, lossy |-> e.lossy, out |-> e.out, doc |-> e.doc]
  BY Zenon, <1>3, <1>12
<1>14. e.out \in [W -> Nat]
  BY ZenonT(60), <1>3, <1>11, <1>13
<1>15. e \in [pc : {"got"}, todo : SUBSET W, lossy : BOOLEAN, out : [W -> Nat], doc : [W -> Ids0]]
  BY ZenonT(60), <1>3, <1>13, <1>14
<1>16. e \in Gots
  BY SMTT(60), Z3T(60), <1>3, <1>13, <1>15 DEF Gots
<1>17. Goto(t, e)
  BY Zenon, <1>1, <1>10, <1>12
<1>18. \A n, c \in Ids : TaskRefers(e, n, c) => TaskRefers(k, n, c)
  BY Zenon, <1>3, <1>13 DEF TaskRefers
<1>19. Plain(e)
  <2>1. \A n, c \in Ids : TaskRefers(e, n, c) => Refers(n, c)
    BY Zenon, <1>1, <1>18 DEF Refers
  <2> QED BY Zenon, <1>13, <1>16, <2>1 DEF Plain, Works, Holds
<1>20. UNCHANGED <<server, requests, col>>
  BY Zenon DEF Resolve
<1>c. /\ cache' \in [Ids -> Said]
      /\ \A n, c \in Ids : cache'[n] = Marker(c) => cache[n] = Marker(c)
  <2>1. ReadDocument(d) \/ cache' = cache
    BY Zenon, <1>10 DEF TextOf
  <2>2. CASE cache' = cache
    BY Zenon, <2>2 DEF Inv, Typed
  <2>3. CASE ReadDocument(d)
    BY Zenon, <2>3, <1>7, ReadDocumentFacts
  <2> QED BY Zenon, <2>1, <2>2, <2>3
<1>21. Typed'
  <2>1. task' \in [Tasks -> Works]
    BY Zenon, <1>17, <1>19 DEF Goto, Plain, Inv, Typed
  <2>2. overflowOf' \in [Ids -> Ids0] /\ known' \in [Ids -> Nat]
    BY Zenon, <1>7, <1>9, <1>10, <1>11 DEF Inv, Typed, Ids0
  <2> QED BY ZenonT(60), <1>20, <1>c, <2>1, <2>2 DEF Inv, Typed
<1>22. \A n, c \in Ids : overflowOf'[n] = c => Refers(n, c)
  <2>1. \A n \in Ids : n # m => overflowOf'[n] = overflowOf[n]
    BY Zenon, <1>9 DEF Inv, Typed
  <2>2. overflowOf'[m] = d
    BY Zenon, <1>7, <1>9 DEF Inv, Typed
  <2>3. \A n, c \in Ids : overflowOf[n] = c => Refers(n, c)
    BY Zenon DEF Refers
  <2> QED BY Zenon, <1>8, <2>1, <2>2, <2>3
<1>23. /\ \A n, c \in Ids : cache'[n] = Marker(c) => Refers(n, c)
       /\ \A n, c \in Ids : ColRefers(col', n, c) => Refers(n, c)
  BY ZenonT(60), <1>20, <1>c DEF Refers
<1>24. \A u \in Tasks : task'[u] = task[u] \/ Plain(task'[u])
  BY Zenon, <1>17, <1>19 DEF Goto, Inv, Typed
<1> QED BY Zenon, <1>20, <1>21, <1>22, <1>23, <1>24, Quiet

\* So does a download of some file's content, anywhere in the process.
LEMMA DownloadKept ==
    ASSUME Inv, Grown, NEW d \in Ids, Download(d)
    PROVE  Inv'
<1>1. UNCHANGED <<server, overflowOf, known, requests, col, task>> /\ ReadDocument(d)
  BY Zenon DEF Download
<1>2. cache' \in [Ids -> Said] /\ \A n, c \in Ids : cache'[n] = Marker(c) => cache[n] = Marker(c)
  BY Zenon, <1>1, ReadDocumentFacts
<1>3. Typed'
  BY Zenon, <1>1, <1>2 DEF Inv, Typed
<1>4. /\ \A n, c \in Ids : cache'[n] = Marker(c) => Refers(n, c)
      /\ \A n, c \in Ids : overflowOf'[n] = c => Refers(n, c)
      /\ \A n, c \in Ids : ColRefers(col', n, c) => Refers(n, c)
      /\ \A u \in Tasks : task'[u] = task[u]
  BY ZenonT(60), <1>1, <1>2 DEF Refers
<1> QED BY ZenonT(60), <1>1, <1>3, <1>4, Quiet

-----------------------------------------------------------------------------
(* Steps that change what Telegram has, or ask it to delete.               *)

\* What a request becomes when its document is uploaded.
WithDoc(k, i, p) == [[k EXCEPT !.doc = i] EXCEPT !.pc = p]

\* The document is all that changes besides the stage.
LEMMA WithDocument ==
    ASSUME NEW k \in Uploads, NEW i \in Ids, NEW p, NEW e, e = WithDoc(k, i, p)
    PROVE  /\ e.pc = p /\ e.m = k.m /\ e.x = k.x /\ e.doc = i /\ e.old = k.old
           /\ e \in [pc : {p}, m : {k.m}, x : Texts, doc : Ids0, old : Ids0]
<1>1. PICK f : f = [k EXCEPT !.doc = i]
  BY Zenon
<1>2. f \in [pc : {"upload", "send"}, m : {k.m}, x : {k.x}, doc : {i}, old : {k.old}]
  BY Zenon, <1>1 DEF Uploads
<1>3. e = [f EXCEPT !.pc = p]
  BY Zenon, <1>1 DEF WithDoc
<1>4. e \in [pc : {p}, m : {k.m}, x : {k.x}, doc : {i}, old : {k.old}]
  BY Zenon, <1>2, <1>3
<1>5. i \in Ids0 /\ k.x \in Texts /\ k.old \in Ids0
  BY Zenon DEF Uploads, Ids0
<1> QED BY Zenon, <1>4, <1>5

\* A new document is nobody's: its id has not been known before (_send_overflow).
LEMMA UploadedKept ==
    ASSUME Inv, Grown, NEW t \in Tasks, Uploaded(t)
    PROVE  Inv'
<1>1. PICK i : i = NewId
  BY Zenon
<1>2. i \in Ids /\ server[i] = Unknown
  BY Zenon, <1>1, FreshId DEF Uploaded
<1>3. PICK k : k = task[t]
  BY Zenon
<1>4. k \in Uploads /\ k.pc = "upload"
  BY Zenon, <1>3, Stages DEF Inv, Typed, Uploaded
<1>5. server' = [server EXCEPT ![i] = Document(k.x)] /\ known' = [known EXCEPT ![i] = k.x]
  BY Zenon, <1>1, <1>3 DEF Uploaded
<1>p. PICK p : p = IF k.m = 0 THEN "send" ELSE "edit"
  BY Zenon
<1>e. PICK e : e = WithDoc(k, i, p)
  BY ZenonT(60)
<1>6. /\ e.pc = p /\ e.m = k.m /\ e.x = k.x /\ e.doc = i /\ e.old = k.old
      /\ e \in [pc : {p}, m : {k.m}, x : Texts, doc : Ids0, old : Ids0]
  BY SMTT(60), Z3T(60), <1>2, <1>4, <1>e, WithDocument
<1>7. Goto(t, e) /\ (cache' = cache \/ (k.m # 0 /\ Forget({k.m})))
  <2>1. [k EXCEPT !.doc = i].m = k.m
    BY Zenon, <1>4 DEF Uploads
  <2>2. CASE k.m = 0
    BY Zenon, <1>1, <1>3, <1>p, <1>e, <2>1, <2>2 DEF Uploaded, WithDoc
  <2>3. CASE k.m # 0
    BY Zenon, <1>1, <1>3, <1>p, <1>e, <2>1, <2>3 DEF Uploaded, EditRequest, WithDoc
  <2> QED BY Zenon, <2>2, <2>3
<1>c. cache' \in [Ids -> Said] /\ \A n \in Ids : cache'[n] \in {cache[n], Unknown, Gone}
  <2>1. cache \in [Ids -> Said]
    BY Zenon DEF Inv, Typed
  <2>2. CASE cache' = cache
    BY Zenon, <2>1, <2>2
  <2>3. CASE k.m # 0 /\ Forget({k.m})
    <3>1. {k.m} \in SUBSET Ids
      BY Zenon, <1>4, <2>3 DEF Uploads, Ids0
    <3> QED BY Zenon, <2>1, <2>3, <3>1, ForgetFacts
  <2> QED BY Zenon, <1>7, <2>2, <2>3
<1>8. UNCHANGED <<overflowOf, requests, col>>
  BY Zenon DEF Uploaded
<1>9. e \in Works
  <2>1. CASE k.m = 0
    BY Zenon, <1>4, <1>6, <1>p, <2>1 DEF Works, Uploads
  <2>2. CASE k.m # 0
    <3>1. k.m \in Ids
      BY Zenon, <1>4, <2>2 DEF Uploads, Ids0
    <3>2. e \in [pc : {"edit"}, m : Ids, x : Texts, doc : Ids0, old : Ids0]
      BY Zenon, <1>6, <1>p, <2>2, <3>1
    <3> QED BY Zenon, <3>2 DEF Works, Edits
  <2> QED BY ZenonT(60), <2>1, <2>2
<1>10. /\ \A u \in Tasks : u # t => task'[u] = task[u]
       /\ task'[t] = e
  BY Zenon, <1>7 DEF Goto, Inv, Typed
<1>11. /\ \A n \in Ids : n # i => server'[n] = server[n]
       /\ server'[i] = Document(k.x)
  BY ZenonT(60), <1>2, <1>5 DEF Inv, Typed
<1>12. server'[i].kind = "doc" /\ server[i].kind = "unknown"
  BY SMTT(60), Z3T(60), <1>2, <1>11, Marked
<1>13. \A n, d \in Ids : server'[n] = Marker(d) => n # i /\ server[n] = Marker(d)
  BY SMTT(60), Z3T(60), <1>11, Marked
<1>14. Typed'
  <2>1. server' \in [Ids -> Said] /\ cache' \in [Ids -> Said]
    BY ZenonT(60), <1>4, <1>5, <1>c, SaidFacts DEF Inv, Typed, Uploads
  <2>2. known' \in [Ids -> Nat]
    BY Zenon, <1>4, <1>5, TelegramTextAssumption DEF Inv, Typed, Uploads
  <2>3. task' \in [Tasks -> Works]
    BY Zenon, <1>7, <1>9 DEF Goto, Inv, Typed
  <2> QED BY Zenon, <1>8, <2>1, <2>2, <2>3 DEF Inv, Typed
<1>15. \A n, d \in Ids : Refers(n, d)' => Refers(n, d)
  <2> SUFFICES ASSUME NEW n \in Ids, NEW d \in Ids, Refers(n, d)'
               PROVE  Refers(n, d)
    BY Zenon
  <2>1. CASE server'[n] = Marker(d)
    BY Zenon, <2>1, <1>13 DEF Refers
  <2>2. CASE cache'[n] = Marker(d)
    <3>3. cache[n] = Marker(d)
      BY ZenonT(60), <2>2, <1>c, Marked
    <3> QED BY Zenon, <3>3 DEF Refers
  <2>3. CASE overflowOf'[n] = d \/ ColRefers(col', n, d)
    BY Zenon, <2>3, <1>8 DEF Refers
  <2>4. CASE TaskRefers(e, n, d)
    <3>1. TaskRefers(k, n, d)
      BY Zenon, <2>4, <1>4, <1>6, <1>p DEF TaskRefers
    <3> QED BY ZenonT(60), <3>1, <1>3 DEF Refers
  <2>5. CASE \E u \in Tasks : TaskRefers(task'[u], n, d)
    <3>1. PICK u \in Tasks : TaskRefers(task'[u], n, d)
      BY Zenon, <2>5
    <3>2. CASE u # t
      BY ZenonT(60), <3>1, <3>2, <1>10 DEF Refers
    <3> QED BY Zenon, <3>1, <3>2, <1>10, <2>4
  <2> QED BY Zenon, <2>1, <2>2, <2>3, <2>5 DEF Refers
<1>16. \A u \in Tasks, d \in Ids : Holds(task'[u], d) => Holds(task[u], d) \/ (u = t /\ d = i)
  BY Zenon, <1>6, <1>10, <1>p DEF Holds
<1>17. \A u \in Tasks : task'[u].pc \in {"delete", "edited"} => task'[u] = task[u]
  BY Zenon, <1>6, <1>10, <1>p
<1>18. Single'
  BY Zenon, <1>15 DEF Inv, Single
<1>19. Real'
  <2> SUFFICES ASSUME NEW d \in Ids, server'[d].kind = "unknown"
               PROVE  /\ \A m \in Ids : ~Refers(m, d)'
                      /\ \A u \in Tasks : task'[u].pc = "delete" => d \notin Doom(task'[u])
    BY Zenon DEF Real
  <2>1. server[d].kind = "unknown"
    BY Zenon, <1>11, <1>12
  <2> QED BY Zenon, <2>1, <1>15, <1>17 DEF Inv, Real
<1>20. /\ \A m \in Ids : ~Refers(m, i)
       /\ \A u \in Tasks : task[u].pc = "delete" => i \notin Doom(task[u])
       /\ \A u \in Tasks : ~Holds(task[u], i)
  BY Zenon, <1>2, <1>12 DEF Inv, Real, Held
<1>21. Held'
  <2> SUFFICES ASSUME NEW u \in Tasks, NEW d \in Ids, Holds(task'[u], d)
               PROVE  /\ server'[d].kind = "doc"
                      /\ \A m \in Ids : ~Refers(m, d)'
                      /\ \A w \in Tasks : Holds(task'[w], d) => w = u
                      /\ \A w \in Tasks : task'[w].pc = "delete" => d \notin Doom(task'[w])
    BY Zenon DEF Held
  <2>1. CASE d = i
    BY Zenon, <2>1, <1>12, <1>15, <1>16, <1>17, <1>20
  <2>2. CASE d # i
    <3>1. Holds(task[u], d)
      BY Zenon, <2>2, <1>16
    <3>2. \A w \in Tasks : Holds(task'[w], d) => Holds(task[w], d)
      BY Zenon, <2>2, <1>16
    <3>3. server'[d] = server[d]
      BY Zenon, <2>2, <1>11
    <3> QED BY Zenon, <3>1, <3>2, <3>3, <1>15, <1>17 DEF Inv, Held
  <2> QED BY Zenon, <2>1, <2>2
<1>22. Superseded'
  <2> SUFFICES ASSUME NEW u \in Tasks, NEW m \in Ids, task'[u].pc = "edited", task'[u].old \in Ids
               PROVE  server'[m] # Marker(task'[u].old)
    BY Zenon DEF Superseded
  <2>1. task'[u] = task[u]
    BY Zenon, <1>17
  <2> QED BY ZenonT(60), <2>1, <1>13 DEF Inv, Superseded
<1>23. Doomed'
  BY ZenonT(60), <1>13, <1>17 DEF Inv, Doomed, Grown
<1>24. Whole'
  <2> SUFFICES ASSUME NEW m \in Ids, server'[m].kind = "marker", ~(m \in deleted' /\ m \in raced')
               PROVE  server'[server'[m].v].kind = "doc"
    BY Zenon DEF Whole
  <2>1. m # i /\ server'[m] = server[m]
    BY Zenon, <1>11, <1>12
  <2>2. server[m].v \in Ids
    BY Zenon, <2>1, Kinds DEF Inv, Typed
  <2>3. server[server[m].v].kind = "doc"
    BY ZenonT(60), <2>1 DEF Inv, Whole, Grown
  <2>4. server[m].v # i
    BY Zenon, <2>3, <1>12
  <2> QED BY Zenon, <2>1, <2>2, <2>3, <2>4, <1>11
<1> QED BY Zenon, <1>14, <1>18, <1>19, <1>21, <1>22, <1>23, <1>24 DEF Inv

\* The text of a send or an edit becomes message i: the marker's document was
\* nobody else's, so i is the one message that shows it.
LEMMA WrittenKept ==
    ASSUME Inv, Grown, Typed', NEW t \in Tasks, NEW i \in Ids, server[i].kind # "doc",
           task[t].pc \in {"send", "edit"},
           server' = [server EXCEPT ![i] = Content(task[t])],
           \A n, d \in Ids : Refers(n, d)' => Refers(n, d) \/ (n = i /\ d = task[t].doc),
           \A u \in Tasks : u # t => task'[u] = task[u],
           task'[t].pc \notin {"send", "edit", "delete"},
           \A n \in Ids : task'[t].pc = "edited" /\ task'[t].old \in Ids =>
              server'[n] # Marker(task'[t].old)
    PROVE  Inv'
<1>1. PICK k : k = task[t]
  BY Zenon
<1>2. /\ \A n \in Ids : n # i => server'[n] = server[n]
      /\ server'[i] = Content(k)
  BY ZenonT(60), <1>1 DEF Inv, Typed
<1>3. k.doc \in Ids0 /\ k.pc \in {"send", "edit"}
  BY SMTT(60), Z3T(60), <1>1, Stages DEF Inv, Typed, Uploads, Edits
<1>4. server'[i].kind \in {"text", "marker"}
  BY SMTT(60), Z3T(60), <1>2, Marked DEF Content
<1>5. \A d \in Ids : server'[i] = Marker(d) => d = k.doc
  BY SMTT(60), Z3T(60), <1>2, Marked DEF Content
<1>6. \A n, d \in Ids : server'[n] = Marker(d) => server[n] = Marker(d) \/ (n = i /\ d = k.doc)
  BY Zenon, <1>2, <1>5
<1>7. k.doc \in Ids =>
         /\ server[k.doc].kind = "doc" /\ k.doc # i
         /\ \A m \in Ids : ~Refers(m, k.doc)
         /\ \A u \in Tasks : u # t => ~Holds(task[u], k.doc)
         /\ \A u \in Tasks : task[u].pc = "delete" => k.doc \notin Doom(task[u])
  <2> SUFFICES ASSUME k.doc \in Ids
               PROVE  /\ server[k.doc].kind = "doc" /\ k.doc # i
                      /\ \A m \in Ids : ~Refers(m, k.doc)
                      /\ \A u \in Tasks : u # t => ~Holds(task[u], k.doc)
                      /\ \A u \in Tasks : task[u].pc = "delete" => k.doc \notin Doom(task[u])
    BY Zenon
  <2>1. Holds(task[t], k.doc)
    BY Zenon, <1>1, <1>3 DEF Holds
  <2> QED BY ZenonT(60), <2>1 DEF Inv, Held
<1>8. \A u \in Tasks, d \in Ids : Holds(task'[u], d) => u # t /\ Holds(task[u], d) /\ d # k.doc
  BY ZenonT(60), <1>7 DEF Holds
<1>9. \A n, d \in Ids : d # k.doc => (Refers(n, d)' => Refers(n, d))
  BY Zenon, <1>1
<1>10. Single'
  <2> SUFFICES ASSUME NEW m \in Ids, NEW n \in Ids, NEW d \in Ids, Refers(m, d)', Refers(n, d)'
               PROVE  m = n
    BY Zenon DEF Single
  <2>1. CASE d = k.doc
    BY Zenon, <2>1, <1>1, <1>7
  <2>2. CASE d # k.doc
    BY Zenon, <2>2, <1>9 DEF Inv, Single
  <2> QED BY Zenon, <2>1, <2>2
<1>11. Real'
  <2> SUFFICES ASSUME NEW d \in Ids, server'[d].kind = "unknown"
               PROVE  /\ \A m \in Ids : ~Refers(m, d)'
                      /\ \A u \in Tasks : task'[u].pc = "delete" => d \notin Doom(task'[u])
    BY Zenon DEF Real
  <2>1. d # i /\ server[d].kind = "unknown"
    BY Zenon, <1>2, <1>4
  <2>2. d # k.doc
    BY Zenon, <2>1, <1>7
  <2> QED BY ZenonT(60), <2>1, <2>2, <1>9 DEF Inv, Real
<1>12. Held'
  <2> SUFFICES ASSUME NEW u \in Tasks, NEW d \in Ids, Holds(task'[u], d)
               PROVE  /\ server'[d].kind = "doc"
                      /\ \A m \in Ids : ~Refers(m, d)'
                      /\ \A w \in Tasks : Holds(task'[w], d) => w = u
                      /\ \A w \in Tasks : task'[w].pc = "delete" => d \notin Doom(task'[w])
    BY ZenonT(60) DEF Held
  <2>1. Holds(task[u], d) /\ d # k.doc
    BY Zenon, <1>8
  <2>2. /\ server[d].kind = "doc"
        /\ \A m \in Ids : ~Refers(m, d)
        /\ \A w \in Tasks : Holds(task[w], d) => w = u
        /\ \A w \in Tasks : task[w].pc = "delete" => d \notin Doom(task[w])
    BY Zenon, <2>1 DEF Inv, Held
  <2>3. server'[d] = server[d]
    BY Zenon, <2>2, <1>2
  <2> QED BY Zenon, <2>1, <2>2, <2>3, <1>8, <1>9
<1>13. Superseded'
  <2> SUFFICES ASSUME NEW u \in Tasks, NEW n \in Ids, u # t, task[u].pc = "edited", task[u].old \in Ids
               PROVE  server'[n] # Marker(task[u].old)
    BY SMTT(60), ZenonT(60) DEF Superseded
  <2>1. Refers(task[u].m, task[u].old) /\ task[u].m \in Ids
    <3>1. task[u] \in Works
      BY Zenon DEF Inv, Typed
    <3>2. task[u] \in Edits
      BY Zenon, <3>1, Stages
    <3>3. task[u].m \in Ids
      BY Zenon, <3>2 DEF Edits
    <3>4. TaskRefers(task[u], task[u].m, task[u].old)
      BY Zenon DEF TaskRefers
    <3> QED BY ZenonT(60), <3>3, <3>4 DEF Refers
  <2>2. task[u].old # k.doc
    BY Zenon, <2>1, <1>7
  <2>3. server[n] # Marker(task[u].old)
    BY Zenon DEF Inv, Superseded
  <2> QED BY ZenonT(60), <2>2, <2>3, <1>6
<1>14. Doomed'
  <2> SUFFICES ASSUME NEW u \in Tasks, NEW m \in Ids, NEW d \in Ids,
                      task'[u].pc = "delete", d \in Doom(task'[u]), server'[m] = Marker(d)
               PROVE  m \in deleted'
    BY ZenonT(60) DEF Doomed
  <2>1. u # t /\ task'[u] = task[u]
    BY Zenon
  <2>2. d # k.doc
    BY ZenonT(60), <2>1, <1>7
  <2>3. server[m] = Marker(d)
    BY Zenon, <2>2, <1>6
  <2> QED BY ZenonT(60), <2>1, <2>3 DEF Inv, Doomed, Grown
<1>15. Whole'
  <2> SUFFICES ASSUME NEW m \in Ids, server'[m].kind = "marker", ~(m \in deleted' /\ m \in raced')
               PROVE  server'[server'[m].v].kind = "doc"
    BY Zenon DEF Whole
  <2>1. PICK d : d = server'[m].v
    BY Zenon
  <2>2. d \in Ids /\ server'[m] = Marker(d)
    BY ZenonT(60), <2>1, Kinds DEF Typed
  <2>3. CASE server[m] = Marker(d)
    <3>1. server[d].kind = "doc"
      <4>1. server[m].kind = "marker" /\ server[m].v = d
        BY SMTT(60), Z3T(60), <2>3, Marked
      <4> QED BY Zenon, <4>1 DEF Inv, Whole, Grown
    <3> QED BY Zenon, <2>1, <2>2, <3>1, <1>2
  <2>4. CASE d = k.doc
    BY ZenonT(60), <2>1, <2>2, <2>4, <1>2, <1>7
  <2> QED BY Zenon, <2>2, <2>3, <2>4, <1>6
<1> QED BY Zenon, <1>10, <1>11, <1>12, <1>13, <1>14, <1>15 DEF Inv

\* send_text: the new message shows the document, and the store notes it.
LEMMA SentKept ==
    ASSUME Inv, Grown, NEW t \in Tasks, Sent(t)
    PROVE  Inv'
<1>1. PICK i : i = NewId
  BY Zenon
<1>2. i \in Ids /\ server[i] = Unknown
  BY ZenonT(60), <1>1, FreshId DEF Sent
<1>3. PICK k : k = task[t]
  BY Zenon
<1>4. k \in Uploads /\ k.pc = "send"
  BY Zenon, <1>3, Stages DEF Inv, Typed, Sent
<1>5. /\ server' = [server EXCEPT ![i] = Content(k)]
      /\ overflowOf' = [overflowOf EXCEPT ![i] = k.doc]
      /\ Goto(t, Idle) /\ UNCHANGED <<cache, known, requests, col>>
  BY Zenon, <1>1, <1>3 DEF Sent
<1>6. Content(k) \in Said /\ k.doc \in Ids0
  BY ZenonT(60), <1>4, SaidFacts DEF Content, Uploads, Ids0
<1>7. Typed'
  <2>1. Idle \in Works
    BY Zenon DEF Works
  <2>2. task' \in [Tasks -> Works]
    BY Zenon, <1>5, <2>1 DEF Goto, Inv, Typed
  <2>3. server' \in [Ids -> Said] /\ overflowOf' \in [Ids -> Ids0]
    BY Zenon, <1>5, <1>6 DEF Inv, Typed
  <2> QED BY Zenon, <1>5, <2>2, <2>3 DEF Inv, Typed
<1>8. /\ \A u \in Tasks : u # t => task'[u] = task[u]
      /\ task'[t] = Idle
  BY Zenon, <1>5 DEF Goto, Inv, Typed
<1>9. \A n, d \in Ids : Refers(n, d)' => Refers(n, d) \/ (n = i /\ d = k.doc)
  <2> SUFFICES ASSUME NEW n \in Ids, NEW d \in Ids, Refers(n, d)'
               PROVE  Refers(n, d) \/ (n = i /\ d = k.doc)
    BY Zenon
  <2>1. CASE server'[n] = Marker(d)
    <3>1. CASE n = i
      <4>1. Content(k) = Marker(d)
        BY Zenon, <2>1, <3>1, <1>2, <1>5 DEF Inv, Typed
      <4>2. Text(k.x) # Marker(d)
        BY Zenon, Marked
      <4>3. Marker(k.doc) = Marker(d)
        BY Zenon, <4>1, <4>2 DEF Content
      <4>4. k.doc = d
        BY ZenonT(60), <4>3, Marked
      <4> QED BY Zenon, <3>1, <4>4
    <3>2. CASE n # i
      BY Zenon, <2>1, <3>2, <1>5 DEF Refers, Inv, Typed
    <3> QED BY Zenon, <3>1, <3>2
  <2>2. CASE overflowOf'[n] = d
    BY Zenon, <2>2, <1>5 DEF Refers, Inv, Typed
  <2>3. CASE cache'[n] = Marker(d) \/ ColRefers(col', n, d)
    BY Zenon, <2>3, <1>5 DEF Refers
  <2>4. CASE \E u \in Tasks : TaskRefers(task'[u], n, d)
    <3>1. PICK u \in Tasks : TaskRefers(task'[u], n, d)
      BY Zenon, <2>4
    <3>2. u # t
      BY SMTT(60), Z3T(60), <3>1, <1>8 DEF TaskRefers, Idle
    <3> QED BY Zenon, <3>1, <3>2, <1>8 DEF Refers
  <2> QED BY Zenon, <2>1, <2>2, <2>3, <2>4 DEF Refers
<1>10. server[i].kind # "doc" /\ task'[t].pc \notin {"send", "edit", "delete", "edited"}
  BY SMTT(60), Z3T(60), <1>2, <1>8, Marked DEF Idle
<1>11. /\ server' = [server EXCEPT ![i] = Content(task[t])]
       /\ \A n, d \in Ids : Refers(n, d)' => Refers(n, d) \/ (n = i /\ d = task[t].doc)
       /\ task[t].pc \in {"send", "edit"}
  BY Zenon, <1>3, <1>4, <1>5, <1>9
<1> QED BY Zenon, <1>2, <1>7, <1>8, <1>10, <1>11, WrittenKept

\* edit_message_text: the message shows the new document, and only the edit
\* still knows the old one as superseded.
LEMMA EditLandsKept ==
    ASSUME Inv, Grown, NEW t \in Tasks, EditLands(t)
    PROVE  Inv'
<1>1. PICK k : k = task[t]
  BY Zenon
<1>2. k \in Edits /\ k.pc = "edit"
  BY Zenon, <1>1, Stages DEF Inv, Typed, EditLands
<1>3. PICK i : i = k.m
  BY Zenon
<1>4. i \in Ids /\ server[i].kind \in {"text", "marker"}
  BY Zenon, <1>1, <1>2, <1>3 DEF EditLands, Edits
<1>5. PICK e : e = [k EXCEPT !.pc = "edited"]
  BY Zenon
<1>6. e \in Edits /\ e.pc = "edited" /\ e.m = i /\ e.doc = k.doc /\ e.old = k.old
  BY Zenon, <1>2, <1>3, <1>5 DEF Edits
<1>7. /\ server' = [server EXCEPT ![i] = Content(k)]
      /\ Goto(t, e) /\ UNCHANGED <<cache, overflowOf, known, requests, col>>
  BY Zenon, <1>1, <1>3, <1>5 DEF EditLands
<1>8. Content(k) \in Said
  BY ZenonT(60), <1>2, SaidFacts DEF Content, Edits, Ids0
<1>9. Typed'
  <2>1. task' \in [Tasks -> Works]
    BY Zenon, <1>6, <1>7 DEF Goto, Inv, Typed, Works
  <2>2. server' \in [Ids -> Said]
    BY Zenon, <1>7, <1>8 DEF Inv, Typed
  <2> QED BY Zenon, <1>7, <2>1, <2>2 DEF Inv, Typed
<1>10. /\ \A u \in Tasks : u # t => task'[u] = task[u]
       /\ task'[t] = e
  BY Zenon, <1>7 DEF Goto, Inv, Typed
<1>11. /\ \A n \in Ids : n # i => server'[n] = server[n]
       /\ server'[i] = Content(k)
  BY ZenonT(60), <1>4, <1>7 DEF Inv, Typed
<1>12. \A d \in Ids : Content(k) = Marker(d) => d = k.doc
  BY SMTT(60), ZenonT(60), Marked DEF Content
<1>13. \A n, d \in Ids : Refers(n, d)' => Refers(n, d) \/ (n = i /\ d = k.doc)
  <2> SUFFICES ASSUME NEW n \in Ids, NEW d \in Ids, Refers(n, d)'
               PROVE  Refers(n, d) \/ (n = i /\ d = k.doc)
    BY Zenon
  <2>1. CASE server'[n] = Marker(d)
    BY Zenon, <2>1, <1>11, <1>12 DEF Refers
  <2>2. CASE cache'[n] = Marker(d) \/ overflowOf'[n] = d \/ ColRefers(col', n, d)
    BY Zenon, <2>2, <1>7 DEF Refers
  <2>3. CASE \E u \in Tasks : TaskRefers(task'[u], n, d)
    <3>1. PICK u \in Tasks : TaskRefers(task'[u], n, d)
      BY Zenon, <2>3
    <3>2. CASE u # t
      BY Zenon, <3>1, <3>2, <1>10 DEF Refers
    <3>3. CASE u = t
      <4>1. n = i /\ (d = k.doc \/ d = k.old)
        BY Zenon, <3>1, <3>3, <1>6, <1>10 DEF TaskRefers
      <4>2. d = k.old => TaskRefers(k, n, d)
        BY Zenon, <4>1, <1>2, <1>3 DEF TaskRefers
      <4> QED BY Zenon, <4>1, <4>2, <1>1 DEF Refers
    <3> QED BY Zenon, <3>2, <3>3
  <2> QED BY Zenon, <2>1, <2>2, <2>3 DEF Refers
<1>14. ASSUME NEW n \in Ids, k.old \in Ids
       PROVE  server'[n] # Marker(k.old)
  <2>1. Refers(i, k.old)
    <3>1. TaskRefers(k, i, k.old)
      BY Zenon, <1>2, <1>3 DEF TaskRefers
    <3> QED BY Zenon, <3>1, <1>1 DEF Refers
  <2>2. CASE n = i
    <3>1. k.old # k.doc
      <4>1. k.doc \in Ids => Holds(task[t], k.doc)
        BY Zenon, <1>1, <1>2 DEF Holds
      <4>2. k.doc \in Ids => ~Refers(i, k.doc)
        BY Zenon, <4>1, <1>4 DEF Inv, Held
      <4> QED BY Zenon, <4>2, <2>1, <1>14
    <3> QED BY Zenon, <2>2, <3>1, <1>11, <1>12, <1>14
  <2>3. CASE n # i
    <3>1. ~Refers(n, k.old)
      BY Zenon, <2>1, <2>3, <1>4, <1>14 DEF Inv, Single
    <3> QED BY Zenon, <2>3, <3>1, <1>11 DEF Refers
  <2> QED BY Zenon, <2>2, <2>3
<1>15. /\ server[i].kind # "doc" /\ task'[t].pc \notin {"send", "edit", "delete"}
       /\ \A n \in Ids : task'[t].pc = "edited" /\ task'[t].old \in Ids =>
             server'[n] # Marker(task'[t].old)
  BY ZenonT(60), <1>4, <1>6, <1>10, <1>14
<1>16. /\ server' = [server EXCEPT ![i] = Content(task[t])]
       /\ \A n, d \in Ids : Refers(n, d)' => Refers(n, d) \/ (n = i /\ d = task[t].doc)
       /\ task[t].pc \in {"send", "edit"}
  BY Zenon, <1>1, <1>2, <1>7, <1>13
<1> QED BY Zenon, <1>4, <1>9, <1>10, <1>15, <1>16, WrittenKept

\* The next call of a delete is for some of the messages that are left, and
\* the client has forgotten them (DELETE_BATCH_SIZE).
LEMMA DeleteNextFacts ==
    ASSUME Inv, NEW t \in Tasks, NEW all \in SUBSET Ids, DeleteNext(t, all)
    PROVE  \E e \in Works :
              /\ Goto(t, e)
              /\ e = Idle \/ (e.pc = "delete" /\ e.ids \subseteq all /\ Doom(e) = all)
              /\ cache' \in [Ids -> Said]
              /\ \A m \in Ids : cache'[m] \in {cache[m], Unknown, Gone}
              /\ \A m \in Ids : m \in Changes(e) => cache'[m] \in {Unknown, Gone}
<1>1. cache \in [Ids -> Said]
  BY Zenon DEF Inv, Typed
<1>2. CASE Goto(t, Idle) /\ cache' = cache
  <2>1. Idle \in Works /\ Changes(Idle) = {}
    BY Zenon, IdlePlain DEF Works, Changes, Idle
  <2> QED BY Zenon, <1>1, <1>2, <2>1
<1>3. CASE \E B \in SUBSET all : Goto(t, [pc |-> "delete", ids |-> B, rest |-> all \ B]) /\ Forget(B)
  <2>1. PICK B \in SUBSET all : Goto(t, [pc |-> "delete", ids |-> B, rest |-> all \ B]) /\ Forget(B)
    BY Zenon, <1>3
  <2>2. PICK e : e = [pc |-> "delete", ids |-> B, rest |-> all \ B]
    BY Zenon
  <2>3. B \in SUBSET Ids /\ all \ B \in SUBSET Ids
    BY Zenon
  <2>4. e.pc = "delete" /\ e.ids = B /\ e.rest = all \ B
    BY Zenon, <2>2
  <2>5. e \in Works
    BY Zenon, <2>2, <2>3 DEF Works, Deletes
  <2>6. e.ids \subseteq all /\ Doom(e) = all /\ Changes(e) = B
    BY Zenon, <2>4 DEF Doom, Changes
  <2>7. /\ cache' \in [Ids -> Said]
        /\ \A m \in Ids : cache'[m] \in {Unknown, Gone} \/ (m \notin B /\ cache'[m] = cache[m])
    BY Zenon, <1>1, <2>1, <2>3, ForgetFacts
  <2>8. /\ \A m \in Ids : cache'[m] \in {cache[m], Unknown, Gone}
        /\ \A m \in Ids : m \in Changes(e) => cache'[m] \in {Unknown, Gone}
    BY Zenon, <2>6, <2>7
  <2> QED BY Zenon, <2>1, <2>2, <2>4, <2>5, <2>6, <2>7, <2>8
<1> QED BY Zenon, <1>2, <1>3 DEF DeleteNext

\* Messages may go that have been sent, that no other marker shows and that
\* no request is about to show; their own documents go along (delete_messages).
LEMMA DeleteKept ==
    ASSUME Inv, Grown, NEW t \in Tasks, NEW ids \in SUBSET Ids, NEW doc \in [Ids -> Ids0],
           DeleteRequest(t, ids, doc), UNCHANGED <<server, known, requests, col>>,
           \A m, d \in Ids : doc[m] = d => Refers(m, d),
           \A d \in ids : /\ server[d].kind # "unknown"
                          /\ \A u \in Tasks : ~Holds(task[u], d)
                          /\ \A n \in Ids : server[n] = Marker(d) => n \in deleted
    PROVE  Inv'
<1>1. PICK all : all = ids \cup ({overflowOf[m] : m \in ids} \ {0})
  BY ZenonT(60)
<1>2. all \in SUBSET Ids
  BY SMTT(60), Z3T(60), <1>1 DEF Inv, Typed, Ids0
<1>3. \A d \in all : d \in ids \/ \E m \in ids : Refers(m, d)
  BY Zenon, <1>1 DEF Refers
<1>4. /\ overflowOf' = [m \in Ids |-> IF m \in ids THEN 0 ELSE doc[m]]
      /\ deleted' = deleted \cup ids /\ DeleteNext(t, all)
  BY ZenonT(60), <1>1 DEF DeleteRequest
<1>5. PICK e \in Works :
         /\ Goto(t, e)
         /\ e = Idle \/ (e.pc = "delete" /\ e.ids \subseteq all /\ Doom(e) = all)
         /\ cache' \in [Ids -> Said]
         /\ \A m \in Ids : cache'[m] \in {cache[m], Unknown, Gone}
         /\ \A m \in Ids : m \in Changes(e) => cache'[m] \in {Unknown, Gone}
  BY ZenonT(60), <1>2, <1>4, DeleteNextFacts
<1>d. e.pc \in {"idle", "delete"} /\ (e.pc = "delete" => Doom(e) = all)
  BY ZenonT(30), SMTT(60), <1>5 DEF Idle
<1>6. /\ \A u \in Tasks : u # t => task'[u] = task[u]
      /\ task'[t] = e
  BY Zenon, <1>5 DEF Goto, Inv, Typed
<1>7. Typed'
  <2>2. task' \in [Tasks -> Works]
    BY Zenon, <1>5 DEF Goto, Inv, Typed
  <2>3. overflowOf' \in [Ids -> Ids0]
    BY Zenon, <1>4 DEF Ids0
  <2>4. cache' \in [Ids -> Said]
    BY Zenon, <1>5
  <2> QED BY ZenonT(60), <2>2, <2>3, <2>4 DEF Inv, Typed
<1>8. \A n, d \in Ids : Refers(n, d)' => Refers(n, d)
  <2> SUFFICES ASSUME NEW n \in Ids, NEW d \in Ids, Refers(n, d)'
               PROVE  Refers(n, d)
    BY Zenon
  <2>1. CASE server'[n] = Marker(d) \/ ColRefers(col', n, d)
    BY Zenon, <2>1 DEF Refers
  <2>2. CASE cache'[n] = Marker(d)
    <3>1. cache'[n] \in {cache[n], Unknown, Gone} /\ Marker(d) # Unknown /\ Marker(d) # Gone
      BY Zenon, <1>5, Marked
    <3>2. cache[n] = Marker(d)
      BY Zenon, <2>2, <3>1
    <3> QED BY Zenon, <3>2 DEF Refers
  <2>3. CASE overflowOf'[n] = d
    <3>1. d # 0
      BY SMTT(60), Z3T(60), TelegramTextAssumption DEF Ids
    <3>2. doc[n] = d
      BY Zenon, <2>3, <3>1, <1>4
    <3> QED BY ZenonT(60), <3>2
  <2>4. CASE \E u \in Tasks : TaskRefers(task'[u], n, d)
    <3>1. PICK u \in Tasks : TaskRefers(task'[u], n, d)
      BY Zenon, <2>4
    <3>2. u # t
      BY Zenon, <3>1, <1>d, <1>6 DEF TaskRefers
    <3> QED BY Zenon, <3>1, <3>2, <1>6 DEF Refers
  <2> QED BY Zenon, <2>1, <2>2, <2>3, <2>4 DEF Refers
<1>9. \A u \in Tasks, d \in Ids : Holds(task'[u], d) => Holds(task[u], d)
  BY Zenon, <1>d, <1>6 DEF Holds
<1>10. \A u \in Tasks : task'[u].pc = "edited" => task'[u] = task[u]
  BY Zenon, <1>d, <1>6
<1>11. \A u \in Tasks : task'[u].pc = "delete" => task'[u] = task[u] \/ Doom(task'[u]) = all
  BY Zenon, <1>d, <1>6
<1>12. \A d \in all : server[d].kind # "unknown"
  BY Zenon, <1>2, <1>3 DEF Inv, Real
<1>13. \A d \in all, u \in Tasks : ~Holds(task[u], d)
  BY Zenon, <1>2, <1>3 DEF Inv, Held
<1>14. \A d \in all, m \in Ids : server[m] = Marker(d) => m \in deleted'
  <2> SUFFICES ASSUME NEW d \in all, NEW m \in Ids, server[m] = Marker(d)
               PROVE  m \in deleted'
    BY ZenonT(60)
  <2>4. CASE d \in ids
    BY Zenon, <2>4, <1>4
  <2>5. CASE \E n \in ids : Refers(n, d)
   <3>1. PICK n \in ids : Refers(n, d)
     BY Zenon, <2>5
   <3>2. Refers(m, d)
     BY Zenon DEF Refers
   <3>3. m = n
     BY Zenon, <3>1, <3>2, <1>2 DEF Inv, Single
   <3> QED BY Zenon, <3>3, <1>4
  <2> QED BY Zenon, <2>4, <2>5, <1>3
<1>15. Single'
  BY ZenonT(60), <1>8 DEF Inv, Single
<1>16. Real'
  <2>1. \A d \in Ids : server'[d].kind = "unknown" => \A m \in Ids : ~Refers(m, d)'
    BY Zenon, <1>8 DEF Inv, Real
  <2>2. ASSUME NEW d \in Ids, server'[d].kind = "unknown", NEW u \in Tasks, task'[u].pc = "delete"
        PROVE  d \notin Doom(task'[u])
    BY Zenon, <2>2, <1>11, <1>12 DEF Inv, Real
  <2> QED BY Zenon, <2>1, <2>2 DEF Real
<1>17. Held'
  <2> SUFFICES ASSUME NEW u \in Tasks, NEW d \in Ids, Holds(task'[u], d)
               PROVE  /\ server'[d].kind = "doc"
                      /\ \A m \in Ids : ~Refers(m, d)'
                      /\ \A w \in Tasks : Holds(task'[w], d) => w = u
                      /\ \A w \in Tasks : task'[w].pc = "delete" => d \notin Doom(task'[w])
    BY Zenon DEF Held
  <2>1. Holds(task[u], d)
    BY Zenon, <1>9
  <2>2. \A w \in Tasks : task'[w].pc = "delete" => d \notin Doom(task'[w])
    BY ZenonT(60), <2>1, <1>11, <1>13 DEF Inv, Held
  <2> QED BY Zenon, <2>1, <2>2, <1>8, <1>9 DEF Inv, Held
<1>18. Superseded'
  BY Zenon, <1>10 DEF Inv, Superseded
<1>19. Doomed'
  <2> SUFFICES ASSUME NEW u \in Tasks, NEW m \in Ids, NEW d \in Ids,
                      task'[u].pc = "delete", d \in Doom(task'[u]), server[m] = Marker(d)
               PROVE  m \in deleted'
    BY Zenon DEF Doomed
  <2> QED BY Zenon, <1>11, <1>14 DEF Inv, Doomed, Grown
<1>20. Whole'
  BY Zenon DEF Inv, Whole, Grown
<1> QED BY ZenonT(60), <1>7, <1>15, <1>16, <1>17, <1>18, <1>19, <1>20 DEF Inv

\* delete_messages of messages of the metadata, which are no documents.
LEMMA DeleteBeginKept ==
    ASSUME Inv, Grown, NEW t \in Tasks, NEW ids \in SUBSET Messages, DeleteBegin(t, ids)
    PROVE  Inv'
<1>1. \A m \in ids : m \in Ids /\ server[m].kind \in {"text", "marker", "gone"}
  BY Zenon, TelegramTextAssumption DEF Messages
<1>2. \A m \in ids, u \in Tasks : ~Holds(task[u], m)
  BY Zenon, <1>1 DEF Inv, Held
<1>3. ASSUME NEW m \in ids, NEW n \in Ids, server[n] = Marker(m)
      PROVE  n \in deleted
  <2>1. server[n].kind = "marker" /\ server[n].v = m
    BY SMTT(60), Z3T(60), <1>3, Marked
  <2>2. server[m].kind # "doc"
    BY Zenon, <1>1
  <2> QED BY Zenon, <2>1, <2>2 DEF Inv, Whole
<1>4. \A d \in ids : /\ server[d].kind # "unknown"
                     /\ \A u \in Tasks : ~Holds(task[u], d)
                     /\ \A n \in Ids : server[n] = Marker(d) => n \in deleted
  BY Zenon, <1>1, <1>2, <1>3
<1>5. \A n, d \in Ids : overflowOf[n] = d => Refers(n, d)
  BY Zenon DEF Refers
<1>6. overflowOf \in [Ids -> Ids0] /\ ids \in SUBSET Ids
  BY Zenon, <1>1 DEF Inv, Typed
<1>7. DeleteRequest(t, ids, overflowOf) /\ UNCHANGED <<server, known, requests, col>>
  BY Zenon DEF DeleteBegin
<1> QED BY Zenon, <1>4, <1>5, <1>6, <1>7, DeleteKept

\* After a successful edit the superseded document goes: no message shows it
\* any more, and none will again.
LEMMA EditDoneKept ==
    ASSUME Inv, Grown, NEW t \in Tasks, EditDone(t)
    PROVE  Inv'
<1>1. PICK k : k = task[t]
  BY Zenon
<1>2. k \in Edits /\ k.pc = "edited"
  BY Zenon, <1>1, Stages DEF Inv, Typed, EditDone
<1>3. k.m \in Ids /\ k.doc \in Ids0 /\ k.old \in Ids0
  BY Zenon, <1>2 DEF Edits
<1>4. PICK after : after = [overflowOf EXCEPT ![k.m] = k.doc]
  BY Zenon
<1>5. after \in [Ids -> Ids0]
  BY Zenon, <1>3, <1>4 DEF Inv, Typed
<1>6. \A n, d \in Ids : after[n] = d => Refers(n, d)
  <2> SUFFICES ASSUME NEW n \in Ids, NEW d \in Ids, after[n] = d
               PROVE  Refers(n, d)
    BY Zenon
  <2>1. CASE n = k.m
    <3>1. d = k.doc
      BY ZenonT(60), <2>1, <1>4 DEF Inv, Typed
    <3>2. TaskRefers(k, n, d)
      BY Zenon, <2>1, <3>1, <1>2 DEF TaskRefers
    <3> QED BY Zenon, <3>2, <1>1 DEF Refers
  <2>2. CASE n # k.m
    BY Zenon, <2>2, <1>4 DEF Refers, Inv, Typed
  <2> QED BY Zenon, <2>1, <2>2
<1>7. UNCHANGED <<server, known, requests, col>>
  BY Zenon DEF EditDone
<1>8. CASE k.old # 0
  <2>1. DeleteRequest(t, {k.old}, after)
    BY Zenon, <1>1, <1>4, <1>8 DEF EditDone
  <2>2. k.old \in Ids
    BY Zenon, <1>3, <1>8 DEF Ids0
  <2>3. Refers(k.m, k.old)
    <3>1. TaskRefers(k, k.m, k.old)
      BY Zenon, <1>2 DEF TaskRefers
    <3> QED BY Zenon, <3>1, <1>1 DEF Refers
  <2>4. server[k.old].kind # "unknown"
    BY Zenon, <2>2, <2>3, <1>3 DEF Inv, Real
  <2>5. \A u \in Tasks : ~Holds(task[u], k.old)
    BY ZenonT(60), <2>2, <2>3, <1>3 DEF Inv, Held
  <2>6. \A n \in Ids : server[n] # Marker(k.old)
    BY Zenon, <2>2, <1>1, <1>2 DEF Inv, Superseded
  <2>7. {k.old} \in SUBSET Ids
    BY Zenon, <2>2
  <2>8. \A d \in {k.old} : /\ server[d].kind # "unknown"
                           /\ \A u \in Tasks : ~Holds(task[u], d)
                           /\ \A n \in Ids : server[n] = Marker(d) => n \in deleted
    BY Zenon, <2>4, <2>5, <2>6
  <2> QED BY ZenonT(60), <2>1, <2>7, <2>8, <1>5, <1>6, <1>7, DeleteKept
<1>9. CASE k.old = 0
  <2>1. overflowOf' = after /\ cache' = cache /\ Goto(t, Idle)
    BY Zenon, <1>1, <1>4, <1>9 DEF EditDone
  <2>2. Idle \in Works
    BY Zenon DEF Works
  <2>3. Typed'
    BY ZenonT(60), <2>1, <2>2, <1>5, <1>7 DEF Inv, Typed, Goto
  <2>4. \A u \in Tasks : task'[u] = task[u] \/ Plain(task'[u])
    BY Zenon, <2>1, IdlePlain DEF Goto, Inv, Typed
  <2>5. /\ \A n, d \in Ids : cache'[n] = Marker(d) => Refers(n, d)
        /\ \A n, d \in Ids : ColRefers(col', n, d) => Refers(n, d)
    BY Zenon, <2>1, <1>7 DEF Refers
  <2>6. \A n, d \in Ids : overflowOf'[n] = d => Refers(n, d)
    BY ZenonT(60), <2>1, <1>6
  <2> QED BY Zenon, <2>3, <2>4, <2>5, <2>6, <1>7, Quiet
<1> QED BY Zenon, <1>8, <1>9

\* A batch takes no document away from a marker that is to stay.
LEMMA DeleteDoneKept ==
    ASSUME Inv, Grown, NEW t \in Tasks, DeleteDone(t)
    PROVE  Inv'
<1>1. PICK ids, rest : ids = task[t].ids /\ rest = task[t].rest
  BY ZenonT(60)
<1>2. ids \in SUBSET Ids /\ rest \in SUBSET Ids /\ task[t].pc = "delete" /\ Doom(task[t]) = ids \cup rest
  BY SMTT(60), Z3T(60), <1>1, Stages DEF Inv, Typed, DeleteDone, Deletes, Doom
<1>3. DeleteNext(t, rest) /\ UNCHANGED <<overflowOf, known, requests, col>>
  BY Zenon, <1>1 DEF DeleteDone
<1>4. PICK e \in Works :
         /\ Goto(t, e)
         /\ e = Idle \/ (e.pc = "delete" /\ e.ids \subseteq rest /\ Doom(e) = rest)
         /\ cache' \in [Ids -> Said]
         /\ \A m \in Ids : cache'[m] \in {cache[m], Unknown, Gone}
         /\ \A m \in Ids : m \in Changes(e) => cache'[m] \in {Unknown, Gone}
  BY ZenonT(60), <1>2, <1>3, DeleteNextFacts
<1>d. e.pc \in {"idle", "delete"} /\ (e.pc = "delete" => Doom(e) = rest)
  BY SMTT(60), SMTT(60), <1>4 DEF Idle
<1>5. /\ server' \in [Ids -> Said]
      /\ \A n \in Ids : server'[n] = server[n] \/ (n \in ids /\ server'[n] = Gone)
      /\ \A m \in Ids : server'[m] = server[m] /\ server[m].kind = "marker" /\ server[m].v \in ids =>
            server' = server \/ m \in raced'
  <2>1. CASE server' = server
    BY Zenon, <2>1 DEF Inv, Typed
  <2>2. CASE /\ server' = [m \in Ids |-> IF m \in ids THEN Gone ELSE server[m]]
             /\ Race(ids, {m \in Ids \ ids : server[m].kind = "marker" /\ server[m].v \in ids})
    <3>1. server' \in [Ids -> Said] /\ \A n \in Ids : server'[n] = server[n] \/ (n \in ids /\ server'[n] = Gone)
      BY Zenon, <2>2, SaidFacts DEF Inv, Typed
    <3>2. {m \in Ids \ ids : server[m].kind = "marker" /\ server[m].v \in ids} \subseteq raced'
      BY Zenon, <2>2 DEF Race
    <3>3. \A m \in Ids : m \in ids => server'[m].kind = "gone"
      BY Zenon, <2>2, Marked
    <3> QED BY ZenonT(60), <3>1, <3>2, <3>3
  <2> QED BY Zenon, <1>1, <2>1, <2>2 DEF DeleteDone
<1>6. /\ \A u \in Tasks : u # t => task'[u] = task[u]
      /\ task'[t] = e
  BY Zenon, <1>4 DEF Goto, Inv, Typed
<1>7. \A n, d \in Ids : server'[n] = Marker(d) => server'[n] = server[n] /\ server[n] = Marker(d)
  BY ZenonT(60), <1>5, Marked
<1>8. Typed'
  <2>1. task' \in [Tasks -> Works]
    BY ZenonT(60), <1>4 DEF Goto, Inv, Typed
  <2> QED BY Zenon, <2>1, <1>3, <1>4, <1>5 DEF Inv, Typed
<1>9. \A n, d \in Ids : Refers(n, d)' => Refers(n, d)
  <2> SUFFICES ASSUME NEW n \in Ids, NEW d \in Ids, Refers(n, d)'
               PROVE  Refers(n, d)
    BY Zenon
  <2>1. CASE server'[n] = Marker(d)
    BY Zenon, <2>1, <1>7 DEF Refers
  <2>2. CASE cache'[n] = Marker(d)
    <3>1. cache'[n] \in {cache[n], Unknown, Gone} /\ Marker(d) # Unknown /\ Marker(d) # Gone
      BY Zenon, <1>4, Marked
    <3>2. cache[n] = Marker(d)
      BY Zenon, <2>2, <3>1
    <3> QED BY Zenon, <3>2 DEF Refers
  <2>3. CASE overflowOf'[n] = d \/ ColRefers(col', n, d)
    BY Zenon, <2>3, <1>3 DEF Refers
  <2>4. CASE \E u \in Tasks : TaskRefers(task'[u], n, d)
    <3>1. PICK u \in Tasks : TaskRefers(task'[u], n, d)
      BY Zenon, <2>4
    <3>2. u # t
      BY Zenon, <3>1, <1>d, <1>6 DEF TaskRefers
    <3> QED BY ZenonT(60), <3>1, <3>2, <1>6 DEF Refers
  <2> QED BY Zenon, <2>1, <2>2, <2>3, <2>4 DEF Refers
<1>10. \A u \in Tasks : task'[u].pc \in {"send", "edit", "edited"} => task'[u] = task[u]
  BY Zenon, <1>d, <1>6
<1>11. \A u \in Tasks : task'[u].pc = "delete" => task[u].pc = "delete" /\ Doom(task'[u]) \subseteq Doom(task[u])
  BY Zenon, <1>2, <1>d, <1>6
<1>12. \A u \in Tasks, d \in Ids : Holds(task'[u], d) => Holds(task[u], d)
  BY Zenon, <1>10 DEF Holds
<1>13. Single'
  BY Zenon, <1>9 DEF Inv, Single
<1>14. Real'
  <2> SUFFICES ASSUME NEW d \in Ids, server'[d].kind = "unknown"
               PROVE  /\ \A m \in Ids : ~Refers(m, d)'
                      /\ \A u \in Tasks : task'[u].pc = "delete" => d \notin Doom(task'[u])
    BY Zenon DEF Real
  <2>1. server[d].kind = "unknown"
    BY ZenonT(60), <1>5, Marked
  <2> QED BY ZenonT(60), <2>1, <1>9, <1>11 DEF Inv, Real
<1>15. Held'
  <2> SUFFICES ASSUME NEW u \in Tasks, NEW d \in Ids, Holds(task'[u], d)
               PROVE  /\ server'[d].kind = "doc"
                      /\ \A m \in Ids : ~Refers(m, d)'
                      /\ \A w \in Tasks : Holds(task'[w], d) => w = u
                      /\ \A w \in Tasks : task'[w].pc = "delete" => d \notin Doom(task'[w])
    BY Zenon DEF Held
  <2>1. Holds(task[u], d)
    BY Zenon, <1>12
  <2>2. /\ server[d].kind = "doc"
        /\ \A m \in Ids : ~Refers(m, d)
        /\ \A w \in Tasks : Holds(task[w], d) => w = u
        /\ \A w \in Tasks : task[w].pc = "delete" => d \notin Doom(task[w])
    BY Zenon, <2>1 DEF Inv, Held
  <2>3. d \notin ids
    BY Zenon, <2>2, <1>2
  <2>4. server'[d] = server[d]
    BY Zenon, <2>3, <1>5
  <2> QED BY ZenonT(60), <2>2, <2>4, <1>9, <1>11, <1>12
<1>16. Superseded'
  <2> SUFFICES ASSUME NEW u \in Tasks, NEW m \in Ids, task'[u].pc = "edited", task'[u].old \in Ids
               PROVE  server'[m] # Marker(task'[u].old)
    BY Zenon DEF Superseded
  <2>1. task'[u] = task[u]
    BY Zenon, <1>10
  <2>2. PICK d : d = task[u].old
    BY Zenon
  <2>3. d \in Ids /\ task[u].pc = "edited"
    BY Zenon, <2>1, <2>2
  <2>4. Superseded
    BY Zenon DEF Inv
  <2>5. server[m] # Marker(d)
    BY Zenon, <2>2, <2>3, <2>4 DEF Superseded
  <2>6. server'[m] # Marker(d)
    BY Zenon, <1>7, <2>3, <2>5
  <2> QED BY ZenonT(60), <2>1, <2>2, <2>6
<1>17. Doomed'
  BY ZenonT(60), <1>7, <1>11 DEF Inv, Doomed, Grown
<1>18. Whole'
  <2> SUFFICES ASSUME NEW m \in Ids, server'[m].kind = "marker", ~(m \in deleted' /\ m \in raced')
               PROVE  server'[server'[m].v].kind = "doc"
    BY Zenon DEF Whole
  <2>1. server'[m] = server[m]
    BY Zenon, <1>5, Marked
  <2>2. PICK d : d = server[m].v
    BY Zenon
  <2>3. d \in Ids /\ server[m] = Marker(d)
    BY Zenon, <2>1, <2>2, Kinds DEF Inv, Typed
  <2>4. server[d].kind = "doc"
    BY Zenon, <2>1, <2>2 DEF Inv, Whole, Grown
  <2>5. d \in ids => m \in deleted'
    BY ZenonT(60), <2>3, <1>2 DEF Inv, Doomed, Grown
  <2>6. d \in ids => server' = server
    BY ZenonT(60), <2>1, <2>2, <2>5, <1>5
  <2>7. server'[d] = server[d]
    BY Zenon, <2>3, <2>6, <1>5
  <2> QED BY Zenon, <2>1, <2>2, <2>4, <2>7
<1> QED BY ZenonT(60), <1>8, <1>13, <1>14, <1>15, <1>16, <1>17, <1>18 DEF Inv

-----------------------------------------------------------------------------
\* The channel an earlier process left satisfies the invariant.
LEMMA InitInv == Init => Inv
<1> SUFFICES ASSUME Init
             PROVE  Inv
  BY Zenon
<1>1. server = Server0 /\ \A t \in Tasks : task[t] = Idle
  BY Zenon DEF Init
<1>2. Typed
  <2>1. server \in [Ids -> Said]
    BY Zenon, <1>1, ChannelAssumption
  <2>2. cache \in [Ids -> Said] /\ overflowOf \in [Ids -> Ids0] /\ known \in [Ids -> Nat]
    BY Zenon, SaidFacts DEF Init, Ids0
  <2>3. requests \in SUBSET Orders /\ col \in Cols /\ task \in [Tasks -> Works]
    BY ZenonT(60) DEF Init, Cols, Works
  <2> QED BY Zenon, <2>1, <2>2, <2>3 DEF Typed
<1>3. \A m, d \in Ids : Refers(m, d) => server[m] = Marker(d)
  <2> SUFFICES ASSUME NEW m \in Ids, NEW d \in Ids, Refers(m, d)
               PROVE  server[m] = Marker(d)
    BY Zenon
  <2>1. cache[m] # Marker(d)
    BY ZenonT(60), Marked DEF Init
  <2>2. overflowOf[m] # d
    BY SMTT(60), Z3T(60), TelegramTextAssumption DEF Init, Ids
  <2>3. ~ColRefers(col, m, d)
    BY ZenonT(60) DEF Init, NoCol, ColRefers
  <2>4. \A t \in Tasks : ~TaskRefers(task[t], m, d)
    BY SMTT(60), Z3T(60), <1>1 DEF TaskRefers, Idle
  <2> QED BY Zenon, <2>1, <2>2, <2>3, <2>4 DEF Refers
<1>4. \A m, d \in Ids : server[m] = Marker(d) => server[d].kind = "doc"
  BY SMTT(60), Z3T(60), <1>1, ChannelAssumption, Marked
<1>5. Single
  BY SMTT(60), Z3T(60), <1>1, <1>3, ChannelAssumption, Marked DEF Single
<1>6. \A t \in Tasks : task[t].pc \notin {"send", "edit", "edited", "delete"}
  BY SMTT(60), Z3T(60), <1>1 DEF Idle
<1>7. Real
  BY Zenon, <1>3, <1>4, <1>6 DEF Real
<1>8. Held /\ Superseded /\ Doomed
  BY Zenon, <1>6 DEF Held, Superseded, Doomed, Holds
<1>9. Whole
  BY Zenon, <1>1, ChannelAssumption DEF Whole
<1> QED BY Zenon, <1>2, <1>5, <1>7, <1>8, <1>9 DEF Inv

\* What is deleted or raced stays so in every step.
LEMMA Growing == [Next]_vars => Grown
<1> SUFFICES ASSUME [Next]_vars
             PROVE  Grown
  BY Zenon
<1>1. CASE UNCHANGED vars
  BY Zenon, <1>1 DEF vars, Grown
<1>2. CASE Collector
  BY Zenon, <1>2 DEF Collector, Flush, ServerReads, FetchReply, FetchFails, NextBot, CollectorDies, Grown
<1>3. ASSUME NEW t \in Tasks, Request(t)
      PROVE  Grown
  BY Zenon, <1>3 DEF Request, SendBegin, EditBegin, DeleteBegin, DeleteRequest, GetBegin, Grown
<1>4. ASSUME NEW t \in Tasks, Continue(t)
      PROVE  Grown
  <2>1. CASE Uploaded(t) \/ Sent(t) \/ EditLands(t) \/ EditFails(t) \/ EditDone(t)
    BY ZenonT(60), <2>1 DEF Uploaded, Sent, EditLands, EditFails, EditDone, DeleteRequest, Race, Grown
  <2>2. CASE DeleteDone(t) \/ Return(t) \/ Cancel(t)
    BY ZenonT(60), <2>2 DEF DeleteDone, Return, Cancel, Race, Grown
  <2>3. CASE Resolve(t)
    <3>1. UNCHANGED deleted
      BY Zenon, <2>3 DEF Resolve
    <3>2. \E d, x : TextOf(d, x)
      BY ZenonT(60), <2>3 DEF Resolve
    <3> QED BY Zenon, <3>1, <3>2 DEF TextOf, ReadDocument, Grown
  <2> QED BY Zenon, <1>4, <2>1, <2>2, <2>3 DEF Continue
<1>5. ASSUME NEW d \in Files, Download(d)
      PROVE  Grown
  BY Zenon, <1>5 DEF Download, ReadDocument, Grown
<1> QED BY Zenon, <1>1, <1>2, <1>3, <1>4, <1>5 DEF Next

\* No step of the store, the collector or Telegram breaks it.
LEMMA NextInv == Inv /\ [Next]_vars => Inv'
<1> SUFFICES ASSUME Inv, [Next]_vars
             PROVE  Inv'
  BY Zenon
<1>g. Grown
  BY Zenon, Growing
<1>1. CASE UNCHANGED vars
  <2>1. Typed' /\ server' = server
    BY Zenon, <1>1 DEF vars, Inv, Typed
  <2>2. /\ \A m, d \in Ids : cache'[m] = Marker(d) => Refers(m, d)
        /\ \A m, d \in Ids : overflowOf'[m] = d => Refers(m, d)
        /\ \A m, d \in Ids : ColRefers(col', m, d) => Refers(m, d)
        /\ \A u \in Tasks : task'[u] = task[u]
    BY Zenon, <1>1 DEF vars, Refers
  <2> QED BY ZenonT(60), <2>1, <2>2, <1>g, Quiet
<1>2. CASE Collector
  BY ZenonT(60), <1>2, <1>g, FlushKept, ServerReadsKept, FetchReplyKept, FetchFailsKept, NextBotKept,
     CollectorDiesKept DEF Collector
<1>3. ASSUME NEW t \in Tasks, Request(t)
      PROVE  Inv'
  <2>1. ASSUME NEW x \in Texts, SendBegin(t, x)
        PROVE  Inv'
    BY Zenon, <2>1, <1>g, SendBeginKept
  <2>2. ASSUME NEW x \in Texts, NEW m \in Messages, EditBegin(t, m, x)
        PROVE  Inv'
    <3>1. m \in Ids
      BY Zenon, TelegramTextAssumption DEF Messages
    <3> QED BY Zenon, <2>2, <3>1, <1>g, EditBeginKept
  <2>3. ASSUME NEW ids \in SUBSET Messages, DeleteBegin(t, ids)
        PROVE  Inv'
    BY Zenon, <2>3, <1>g, DeleteBeginKept
  <2>4. ASSUME NEW ids \in Reads, GetBegin(t, ids)
        PROVE  Inv'
    <3>1. ids \in SUBSET Ids
      BY Zenon, TelegramTextAssumption
    <3> QED BY Zenon, <2>4, <3>1, <1>g, GetBeginKept
  <2> QED BY Zenon, <1>3, <2>1, <2>2, <2>3, <2>4 DEF Request
<1>4. ASSUME NEW t \in Tasks, EditFails(t) \/ Return(t)
      PROVE  Inv'
  <2>1. Goto(t, Idle) /\ UNCHANGED <<server, cache, overflowOf, known, requests, col>>
    BY ZenonT(60), <1>4 DEF EditFails, Return
  <2> QED BY Zenon, <2>1, <1>g, IdleKept
<1>5. ASSUME NEW t \in Tasks, Continue(t)
      PROVE  Inv'
  BY ZenonT(60), <1>4, <1>5, <1>g, UploadedKept, SentKept, EditLandsKept, EditDoneKept, DeleteDoneKept,
     ResolveKept, CancelKept DEF Continue
<1>6. ASSUME NEW d \in Files, Download(d)
      PROVE  Inv'
  <2>1. d \in Ids
    BY Zenon, TelegramTextAssumption
  <2> QED BY Zenon, <1>6, <2>1, <1>g, DownloadKept
<1> QED BY Zenon, <1>1, <1>2, <1>3, <1>5, <1>6 DEF Next

\* The inductive invariant holds for any number of messages, requests, bots
\* and texts, whatever fails.
THEOREM Invariance == Spec => []Inv
BY InitInv, NextInv, PTL DEF Spec

\* A marker on Telegram has its document: edit_message_text uploads before it
\* edits and deletes the superseded document only after the edit, and
\* delete_messages takes the document along with its message.
THEOREM MarkersKept == Spec => []MarkersHaveDocuments
<1>1. Inv => MarkersHaveDocuments
  BY Zenon DEF Inv, Whole, MarkersHaveDocuments
<1> QED BY <1>1, Invariance, PTL

-----------------------------------------------------------------------------
(* What readers are told.                                                  *)

Batch == IF col.pc \in {"fetch", "read", "me"} THEN col.batch ELSE {}

\* Whoever a request stands for still waits, and is served once.
Waiting ==
    /\ \A r \in requests \cup Batch : r.t \in Tasks => task[r.t].pc = "get"
    /\ \A r \in requests, q \in Batch : r.t = q.t => r.t \notin Tasks

\* A cached message is what Telegram has, and nobody is changing it.
Fresh == \A m \in Ids \ raced : Has(cache, m) =>
    cache[m] = server[m] /\ \A t \in Tasks : m \notin Changes(task[t])

\* So is a message in Telegram's answer; one that was not there has been seen
\* missing by every reader.
Fetched == col.pc = "read" => \A m \in DOMAIN col.got \ raced :
    /\ Has(col.got, m) => col.got[m] = server[m]
    /\ ~Has(col.got, m) =>
          \A r \in col.batch : r.t \in Tasks => 0 \in seen[r.t][m]

\* A message that was not asked for is still cached, unless a change of it
\* has begun since or the cache has let it go.
Asked(c) == IF c.pc = "fetch" THEN c.want ELSE DOMAIN c.got
Missed == col.pc \in {"fetch", "read"} => \A r \in col.batch, m \in Ids :
    r.t \in Tasks /\ m \in r.ids \ Asked(col) => Has(cache, m) \/ 0 \in seen[r.t][m]

\* Message d is, or was until it was deleted, a document with the text v.
IsDoc(d, v) == server[d].kind = "gone" \/ (server[d].kind = "doc" /\ server[d].v = v)
Remembered == \A d \in Ids : known[d] # 0 => IsDoc(d, known[d])

\* The document of a marker still to be resolved holds what the message said.
Sourced(t, m) == \E v \in seen[t][m] : known[task[t].doc[m]] \in {0, v} /\ IsDoc(task[t].doc[m], v)
Right(t, m) == task[t].out[m] \in seen[t][m] \/ (task[t].lossy /\ task[t].out[m] = 0)
AnswerFor(t) == \A m \in Ids \ raced : m \in DOMAIN task[t].out =>
    /\ m \in task[t].todo => Sourced(t, m)
    /\ m \notin task[t].todo => Right(t, m)
Answered == \A t \in Tasks : task[t].pc = "got" => AnswerFor(t)

Recent == Waiting /\ Fresh /\ Fetched /\ Missed /\ Remembered /\ Answered

\* A step on which a document keeps its text, and the store what it knows.
Steady == \A d \in Ids : \A v :
    IsDoc(d, v) /\ known[d] \in {0, v} => IsDoc(d, v)' /\ known'[d] \in {0, v}

\* Every step shows a reader what the messages say (Observe).
LEMMA Observed ==
    ASSUME Observe, NEW t \in Tasks, NEW m \in Ids, Reading(task'[t])
    PROVE  /\ seen[t][m] \subseteq seen'[t][m]
           /\ Says(server', m) \in seen'[t][m]
           /\ Missing(m) => 0 \in seen'[t][m]
<1>1. PICK z : z = IF Missing(m) THEN {0} ELSE {}
  BY Zenon
<1>2. seen'[t][m] = seen[t][m] \cup {Says(server', m)} \cup z
  BY ZenonT(60), <1>1 DEF Observe
<1> QED BY Zenon, <1>1, <1>2

\* What a message says by its kind.
LEMMA SaysFacts ==
    ASSUME NEW s, NEW m
    PROVE  /\ s[m].kind = "text" => Says(s, m) = s[m].v
           /\ s[m].kind = "marker" /\ s[s[m].v].kind = "doc" => Says(s, m) = s[s[m].v].v
           /\ s[m].kind \notin {"text", "marker"} => Says(s, m) = 0
BY Zenon DEF Says

\* An answer that was right stays right.
LEMMA AnswerStays ==
    ASSUME Inv, Observe, raced \subseteq raced', Steady, NEW t \in Tasks,
           task[t].pc = "got", task'[t] = task[t], AnswerFor(t)
    PROVE  AnswerFor(t)'
<1> SUFFICES ASSUME NEW m \in Ids \ raced', m \in DOMAIN task'[t].out
             PROVE  /\ m \in task'[t].todo => Sourced(t, m)'
                    /\ m \notin task'[t].todo => Right(t, m)'
  BY Zenon DEF AnswerFor
<1>1. m \in Ids \ raced /\ m \in DOMAIN task[t].out
  BY Zenon
<1>2. seen[t][m] \subseteq seen'[t][m]
  BY Zenon, <1>1, Observed DEF Reading
<1>3. CASE m \in task[t].todo
  <2>d. PICK d : d = task[t].doc[m]
    BY Zenon
  <2>1. PICK v \in seen[t][m] : known[d] \in {0, v} /\ IsDoc(d, v)
    BY ZenonT(60), <1>1, <1>3, <2>d DEF AnswerFor, Sourced
  <2>2. d \in Ids
    <3>1. task[t] \in Gots
      BY Zenon, Stages DEF Inv, Typed
    <3> QED BY Zenon, <1>3, <2>d, <3>1 DEF Gots
  <2>3. IsDoc(d, v)' /\ known'[d] \in {0, v}
    BY Zenon, <2>1, <2>2 DEF Steady
  <2>4. v \in seen'[t][m] /\ task'[t].doc[m] = d
    BY Zenon, <2>1, <2>d, <1>2
  <2>5. IsDoc(task[t].doc[m], v)'
    BY Zenon, <2>3, <2>4 DEF IsDoc
  <2> QED BY ZenonT(60), <1>3, <2>3, <2>4, <2>5 DEF Sourced
<1>4. CASE m \notin task[t].todo
  BY Zenon, <1>1, <1>2, <1>4 DEF AnswerFor, Right
<1> QED BY Zenon, <1>3, <1>4

\* Steps of whoever writes: they change what they have announced, after the
\* client forgot it.
LEMMA ClientStep ==
    ASSUME Inv, Recent, Observe, raced \subseteq raced', UNCHANGED <<col, requests>>,
           NEW t \in Tasks, task[t].pc # "get", task'[t].pc \notin {"get", "got"},
           \A u \in Tasks : u # t => task'[u] = task[u],
           \A n \in Ids : cache'[n] = cache[n] \/ ~Has(cache', n),
           \A n \in Ids : n \in Changes(task'[t]) => ~Has(cache', n) \/ n \in Changes(task[t]),
           \A n \in Ids : server'[n] # server[n] => server[n].kind = "unknown" \/
              /\ n \in Changes(task[t])
              /\ server[n].kind \in {"doc", "gone"} => server'[n].kind = "gone"
              /\ col.pc = "read" /\ n \in DOMAIN col.got => n \in raced',
           \A d \in Ids : known'[d] = known[d] \/
              (server[d].kind = "unknown" /\ server'[d].kind = "doc" /\ server'[d].v = known'[d])
    PROVE  Recent'
<1>1. \A u \in Tasks : task[u].pc \in {"get", "got"} /\ u # t => task'[u] = task[u]
  BY Zenon
<1>2. Waiting'
  <2>1. Batch' = Batch /\ requests' = requests
    BY Zenon DEF Batch
  <2>2. \A u \in Tasks : task[u].pc = "get" => task'[u].pc = "get"
    BY Zenon
  <2> QED BY Zenon, <2>1, <2>2 DEF Recent, Waiting
<1>3. Fresh'
  <2> SUFFICES ASSUME NEW n \in Ids \ raced', Has(cache', n)
               PROVE  cache'[n] = server'[n] /\ \A u \in Tasks : n \notin Changes(task'[u])
    BY Zenon DEF Fresh
  <2>1. n \in Ids \ raced /\ cache'[n] = cache[n] /\ Has(cache, n)
    BY Zenon DEF Has
  <2>2. cache[n] = server[n] /\ \A u \in Tasks : n \notin Changes(task[u])
    BY Zenon, <2>1 DEF Recent, Fresh
  <2>3. server[n].kind # "unknown"
    BY ZenonT(60), <2>1, <2>2 DEF Has
  <2>4. server'[n] = server[n]
    BY Zenon, <2>2, <2>3
  <2>5. n \notin Changes(task'[t])
    BY Zenon, <2>2
  <2> QED BY ZenonT(60), <2>1, <2>2, <2>4, <2>5
<1>4. ASSUME NEW r \in Batch, r.t \in Tasks
      PROVE  task[r.t].pc = "get" /\ Reading(task'[r.t])
  BY ZenonT(60), <1>4, <1>1 DEF Recent, Waiting, Reading
<1>5. Fetched'
  <2> SUFFICES ASSUME col.pc = "read", NEW m \in DOMAIN col.got \ raced'
               PROVE  /\ Has(col.got, m) => col.got[m] = server'[m]
                      /\ ~Has(col.got, m) =>
                            \A r \in col.batch : r.t \in Tasks => 0 \in seen'[r.t][m]
    BY Zenon DEF Fetched
  <2>1. m \in Ids
    BY Zenon, ReplyIds DEF Inv, Typed
  <2>2. m \in DOMAIN col.got \ raced
    BY Zenon
  <2>3. CASE Has(col.got, m)
    <3>1. col.got[m] = server[m] /\ server[m].kind # "unknown"
      BY Zenon, <2>2, <2>3 DEF Recent, Fetched, Has
    <3> QED BY Zenon, <2>1, <2>3, <3>1
  <2>4. CASE ~Has(col.got, m)
    <3> SUFFICES ASSUME NEW r \in col.batch, r.t \in Tasks
                 PROVE  0 \in seen'[r.t][m]
      BY Zenon, <2>4
    <3>1. Reading(task'[r.t])
      BY Zenon, <1>4 DEF Batch
    <3>2. 0 \in seen[r.t][m]
      BY Zenon, <2>2, <2>4 DEF Recent, Fetched
    <3> QED BY ZenonT(60), <2>1, <3>1, <3>2, Observed
  <2> QED BY Zenon, <2>3, <2>4
<1>6. Missed'
  <2> SUFFICES ASSUME col.pc \in {"fetch", "read"}, NEW r \in col.batch, NEW m \in Ids,
                      r.t \in Tasks, m \in r.ids \ Asked(col)
               PROVE  Has(cache', m) \/ 0 \in seen'[r.t][m]
    BY Zenon DEF Missed
  <2>1. Reading(task'[r.t])
    BY Zenon, <1>4 DEF Batch
  <2>2. Has(cache, m) \/ 0 \in seen[r.t][m]
    BY Zenon DEF Recent, Missed
  <2>3. CASE 0 \in seen[r.t][m]
    BY Zenon, <2>1, <2>3, Observed
  <2>4. CASE Has(cache, m) /\ ~Has(cache', m)
    <3>1. Missing(m)
      BY Zenon, <2>4 DEF Missing
    <3> QED BY Zenon, <2>1, <3>1, Observed
  <2> QED BY Zenon, <2>2, <2>3, <2>4
<1>7. ASSUME NEW d \in Ids, NEW v, IsDoc(d, v)
      PROVE  IsDoc(d, v)'
  <2>1. server'[d] = server[d] \/ server'[d].kind = "gone"
    BY Zenon, <1>7 DEF IsDoc
  <2> QED BY Zenon, <1>7, <2>1 DEF IsDoc
<1>8. Remembered'
  <2> SUFFICES ASSUME NEW d \in Ids, known'[d] # 0
               PROVE  IsDoc(d, known[d])'
    BY Zenon DEF Remembered
  <2>1. CASE known'[d] = known[d]
    BY Zenon, <2>1, <1>7 DEF Recent, Remembered
  <2>2. CASE server'[d].kind = "doc" /\ server'[d].v = known'[d]
    BY Zenon, <2>2 DEF IsDoc
  <2> QED BY Zenon, <2>1, <2>2
<1>9. Steady
  <2> SUFFICES ASSUME NEW d \in Ids, NEW v, IsDoc(d, v), known[d] \in {0, v}
               PROVE  IsDoc(d, v)' /\ known'[d] \in {0, v}
    BY Zenon DEF Steady
  <2>1. known'[d] = known[d]
    BY Zenon DEF IsDoc
  <2> QED BY Zenon, <2>1, <1>7
<1>10. Answered'
  <2> SUFFICES ASSUME NEW u \in Tasks, task'[u].pc = "got"
               PROVE  AnswerFor(u)'
    BY Zenon DEF Answered
  <2>1. task'[u] = task[u]
    BY Zenon
  <2>2. AnswerFor(u)
    BY Zenon, <2>1 DEF Recent, Answered
  <2> QED BY ZenonT(60), <2>1, <2>2, <1>9, AnswerStays
<1> QED BY ZenonT(60), <1>2, <1>3, <1>5, <1>6, <1>8, <1>10 DEF Recent

\* What a request changes, by its stage.
LEMMA ChangesFacts ==
    ASSUME NEW k
    PROVE  /\ k.pc \notin {"edit", "edited", "delete"} => Changes(k) = {}
           /\ k.pc \in {"edit", "edited"} => Changes(k) = {k.m}
           /\ k.pc = "delete" => Changes(k) = k.ids
BY Zenon DEF Changes

\* The steps among them that change nothing on Telegram yet.
LEMMA ClientAsks ==
    ASSUME Inv, Recent, Observe, UNCHANGED <<server, known, raced, col, requests>>,
           NEW t \in Tasks, task[t].pc # "get", NEW e, e.pc \notin {"get", "got"}, Goto(t, e),
           \A n \in Ids : cache'[n] = cache[n] \/ ~Has(cache', n),
           \A n \in Ids : n \in Changes(e) => ~Has(cache', n) \/ n \in Changes(task[t])
    PROVE  Recent'
<1>1. /\ \A u \in Tasks : u # t => task'[u] = task[u]
      /\ task'[t] = e
  BY Zenon DEF Goto, Inv, Typed
<1>2. /\ \A n \in Ids : server'[n] = server[n]
      /\ \A d \in Ids : known'[d] = known[d]
      /\ raced \subseteq raced'
  BY Zenon
<1> QED BY Zenon, <1>1, <1>2, ClientStep

\* A request ends.
LEMMA IdleRecent ==
    ASSUME Inv, Recent, Observe, UNCHANGED <<server, cache, known, raced, col, requests>>,
           NEW t \in Tasks, task[t].pc # "get", Goto(t, Idle)
    PROVE  Recent'
<1>1. Idle.pc \notin {"get", "got"} /\ Changes(Idle) = {}
  BY Zenon DEF Idle, Changes
<1> QED BY ZenonT(60), <1>1, ClientAsks

\* A send begins: it changes no message there is.
LEMMA SendBeginRecent ==
    ASSUME Inv, Recent, NEW t \in Tasks, NEW x \in Texts, SendBegin(t, x)
    PROVE  Recent'
<1>1. PICK k : k = [pc |-> IF x \in LongTexts THEN "upload" ELSE "send", m |-> 0, x |-> x, doc |-> 0, old |-> 0]
  BY ZenonT(60)
<1>2. k.pc \in {"upload", "send"}
  BY Zenon, <1>1
<1>3. Goto(t, k) /\ UNCHANGED <<server, cache, known, raced, col, requests>> /\ Observe /\ task[t] = Idle
  BY ZenonT(60), <1>1 DEF SendBegin, Starts
<1>4. Changes(k) = {} /\ k.pc \notin {"get", "got"} /\ task[t].pc # "get"
  BY SMTT(60), Z3T(60), <1>2, <1>3, ChangesFacts DEF Idle
<1> QED BY Zenon, <1>3, <1>4, ClientAsks

\* A message the client forgot is not cached (Forget).
LEMMA Forgotten ==
    ASSUME Inv, NEW ms \in SUBSET Ids, Forget(ms)
    PROVE  \A n \in Ids : (cache'[n] = cache[n] \/ ~Has(cache', n)) /\ (n \in ms => ~Has(cache', n))
<1>1. cache \in [Ids -> Said]
  BY Zenon DEF Inv, Typed
<1>2. \A m \in Ids : cache'[m] \in {Unknown, Gone} \/ (m \notin ms /\ cache'[m] = cache[m])
  BY Zenon, <1>1, ForgetFacts
<1>3. \A m \in Ids : cache'[m] \in {Unknown, Gone} => ~Has(cache', m)
  BY Zenon, Marked DEF Has
<1> QED BY Zenon, <1>2, <1>3

\* An edit begins: a short text's request forgets the message first.
LEMMA EditBeginRecent ==
    ASSUME Inv, Recent, NEW t \in Tasks, NEW m \in Ids, NEW x \in Texts, EditBegin(t, m, x)
    PROVE  Recent'
<1>1. PICK k : k = [pc |-> "upload", m |-> m, x |-> x, doc |-> 0, old |-> overflowOf[m]]
  BY Zenon
<1>2. PICK e : e = [k EXCEPT !.pc = "edit"]
  BY Zenon
<1>3. k.pc = "upload" /\ e.pc = "edit" /\ e.m = m /\ k.m = m
  BY Zenon, <1>1, <1>2
<1>4. Changes(k) = {} /\ Changes(e) = {m}
  BY Zenon, <1>3, ChangesFacts
<1>5. UNCHANGED <<server, known, raced, col, requests>> /\ Observe /\ task[t] = Idle
  BY ZenonT(60) DEF EditBegin, Starts
<1>6. task[t].pc # "get"
  BY SMTT(60), Z3T(60), <1>5 DEF Idle
<1>7. \/ Goto(t, k) /\ cache' = cache
      \/ Goto(t, e) /\ Forget({m})
  BY Zenon, <1>1, <1>2, <1>3 DEF EditBegin, EditRequest
<1>8. CASE Goto(t, k) /\ cache' = cache
  <2>1. k.pc \notin {"get", "got"}
    BY Zenon, <1>3
  <2> QED BY ZenonT(60), <1>4, <1>5, <1>6, <1>8, <2>1, ClientAsks
<1>9. CASE Goto(t, e) /\ Forget({m})
  <2>1. e.pc \notin {"get", "got"}
    BY Zenon, <1>3
  <2>2. \A n \in Ids : (cache'[n] = cache[n] \/ ~Has(cache', n)) /\ (n \in {m} => ~Has(cache', n))
    BY Zenon, <1>9, Forgotten
  <2>3. /\ \A n \in Ids : cache'[n] = cache[n] \/ ~Has(cache', n)
        /\ \A n \in Ids : n \in Changes(e) => ~Has(cache', n)
    BY Zenon, <1>4, <2>2
  <2> QED BY ZenonT(60), <1>5, <1>6, <1>9, <2>1, <2>3, ClientAsks
<1> QED BY Zenon, <1>7, <1>8, <1>9

\* A new document is nobody's message yet.
LEMMA UploadedRecent ==
    ASSUME Inv, Recent, NEW t \in Tasks, Uploaded(t)
    PROVE  Recent'
<1>1. PICK i : i = NewId
  BY Zenon
<1>2. i \in Ids /\ server[i] = Unknown
  BY ZenonT(60), <1>1, FreshId DEF Uploaded
<1>3. PICK k : k = task[t]
  BY Zenon
<1>4. k \in Uploads /\ k.pc = "upload"
  BY ZenonT(60), <1>3, Stages DEF Inv, Typed, Uploaded
<1>5. server' = [server EXCEPT ![i] = Document(k.x)] /\ known' = [known EXCEPT ![i] = k.x]
  BY Zenon, <1>1, <1>3 DEF Uploaded
<1>p. PICK p : p = IF k.m = 0 THEN "send" ELSE "edit"
  BY Zenon
<1>e. PICK e : e = WithDoc(k, i, p)
  BY ZenonT(60)
<1>6. e.pc = p /\ e.m = k.m
  BY SMTT(60), Z3T(60), <1>2, <1>4, <1>e, WithDocument
<1>7. Goto(t, e) /\ IF k.m = 0 THEN cache' = cache ELSE Forget({k.m})
  <2>1. [k EXCEPT !.doc = i].m = k.m
    BY Zenon, <1>4 DEF Uploads
  <2>2. CASE k.m = 0
    BY ZenonT(60), <1>1, <1>3, <1>p, <1>e, <2>1, <2>2 DEF Uploaded, WithDoc
  <2>3. CASE k.m # 0
    BY ZenonT(60), <1>1, <1>3, <1>p, <1>e, <2>1, <2>3 DEF Uploaded, EditRequest, WithDoc
  <2> QED BY Zenon, <2>2, <2>3
<1>8. UNCHANGED <<raced, requests, col>> /\ Observe
  BY Zenon DEF Uploaded
<1>9. /\ \A u \in Tasks : u # t => task'[u] = task[u]
      /\ task'[t] = e
  BY Zenon, <1>7 DEF Goto, Inv, Typed
<1>10. Changes(e) = IF k.m = 0 THEN {} ELSE {k.m}
  <2>1. CASE k.m = 0
    <3>1. e.pc \notin {"edit", "edited", "delete"}
      BY Zenon, <2>1, <1>6, <1>p
    <3> QED BY Zenon, <2>1, <3>1, ChangesFacts
  <2>2. CASE k.m # 0
    <3>1. e.pc \in {"edit", "edited"}
      BY Zenon, <2>2, <1>6, <1>p
    <3> QED BY Zenon, <2>2, <3>1, <1>6, ChangesFacts
  <2> QED BY Zenon, <2>1, <2>2
<1>11. \A n \in Ids : /\ cache'[n] = cache[n] \/ ~Has(cache', n)
                      /\ n \in Changes(e) => ~Has(cache', n)
  <2>1. CASE k.m = 0
    BY Zenon, <2>1, <1>7, <1>10
  <2>2. CASE k.m # 0
    <3>1. k.m \in Ids
      BY Zenon, <1>4, <2>2 DEF Uploads, Ids0
    <3>2. Forget({k.m}) /\ Changes(e) = {k.m} /\ {k.m} \in SUBSET Ids
      BY Zenon, <2>2, <3>1, <1>7, <1>10
    <3>3. \A n \in Ids : (cache'[n] = cache[n] \/ ~Has(cache', n)) /\ (n \in {k.m} => ~Has(cache', n))
      BY ZenonT(60), <3>2, Forgotten
    <3> QED BY ZenonT(60), <3>2, <3>3
  <2> QED BY Zenon, <2>1, <2>2
<1>12. server[i].kind = "unknown" /\ server'[i].kind = "doc" /\ server'[i].v = k.x /\ known'[i] = k.x
  <2>1. server'[i] = Document(k.x) /\ known'[i] = k.x
    BY Zenon, <1>2, <1>5 DEF Inv, Typed
  <2> QED BY SMTT(60), Z3T(60), <1>2, <2>1 DEF Document, Unknown
<1>13. \A n \in Ids : n # i => server'[n] = server[n] /\ known'[n] = known[n]
  BY ZenonT(60), <1>5 DEF Inv, Typed
<1>14. task[t].pc # "get" /\ task'[t].pc \notin {"get", "got"} /\ raced \subseteq raced'
  BY ZenonT(60), <1>3, <1>4, <1>6, <1>8, <1>9, <1>p
<1>15. /\ \A n \in Ids : cache'[n] = cache[n] \/ ~Has(cache', n)
       /\ \A n \in Ids : n \in Changes(task'[t]) => ~Has(cache', n)
  BY Zenon, <1>9, <1>11
<1>16. /\ \A n \in Ids : server'[n] # server[n] => server[n].kind = "unknown"
       /\ \A d \in Ids : known'[d] = known[d] \/
             (server[d].kind = "unknown" /\ server'[d].kind = "doc" /\ server'[d].v = known'[d])
  BY ZenonT(60), <1>12, <1>13
<1> QED BY ZenonT(60), <1>8, <1>9, <1>14, <1>15, <1>16, ClientStep

\* Neither is the message that is sent.
LEMMA SentRecent ==
    ASSUME Inv, Recent, NEW t \in Tasks, Sent(t)
    PROVE  Recent'
<1>1. PICK i : i = NewId
  BY Zenon
<1>2. i \in Ids /\ server[i] = Unknown
  BY Zenon, <1>1, FreshId DEF Sent
<1>3. /\ server' = [server EXCEPT ![i] = Content(task[t])]
      /\ Goto(t, Idle) /\ UNCHANGED <<cache, known, requests, col, raced>> /\ Observe /\ task[t].pc = "send"
  BY Zenon, <1>1 DEF Sent
<1>4. /\ \A u \in Tasks : u # t => task'[u] = task[u]
      /\ task'[t] = Idle
  BY Zenon, <1>3 DEF Goto, Inv, Typed
<1>5. \A n \in Ids : n # i => server'[n] = server[n]
  BY Zenon, <1>3 DEF Inv, Typed
<1>6. server[i].kind = "unknown"
  BY ZenonT(60), <1>2, Marked
<1>7. /\ task[t].pc # "get" /\ task'[t].pc \notin {"get", "got"} /\ raced \subseteq raced'
      /\ Changes(task'[t]) = {}
  BY SMTT(60), Z3T(60), <1>3, <1>4 DEF Idle, Changes
<1>8. /\ \A n \in Ids : server'[n] # server[n] => server[n].kind = "unknown"
      /\ \A n \in Ids : cache'[n] = cache[n] /\ known'[n] = known[n]
  BY ZenonT(60), <1>3, <1>5, <1>6
<1> QED BY ZenonT(60), <1>3, <1>4, <1>7, <1>8, ClientStep

\* An edit lands on a message that is being changed; an answer under way is
\* noted as raced.
LEMMA EditLandsRecent ==
    ASSUME Inv, Recent, NEW t \in Tasks, EditLands(t)
    PROVE  Recent'
<1>1. PICK k : k = task[t]
  BY Zenon
<1>2. k \in Edits /\ k.pc = "edit"
  BY Zenon, <1>1, Stages DEF Inv, Typed, EditLands
<1>3. PICK e : e = [k EXCEPT !.pc = "edited"]
  BY Zenon
<1>4. e.pc = "edited" /\ e.m = k.m
  BY Zenon, <1>2, <1>3 DEF Edits
<1>5. /\ server' = [server EXCEPT ![k.m] = Content(k)] /\ server[k.m].kind \in {"text", "marker"}
      /\ Goto(t, e) /\ UNCHANGED <<cache, known, requests, col>> /\ Observe /\ Race({k.m}, {})
  BY Zenon, <1>1, <1>3 DEF EditLands
<1>6. /\ \A u \in Tasks : u # t => task'[u] = task[u]
      /\ task'[t] = e
  BY Zenon, <1>5 DEF Goto, Inv, Typed
<1>7. Changes(e) = {k.m} /\ Changes(task[t]) = {k.m}
  BY ZenonT(60), <1>1, <1>2, <1>4, ChangesFacts
<1>8. \A n \in Ids : n # k.m => server'[n] = server[n]
  BY ZenonT(60), <1>5 DEF Inv, Typed
<1>9. raced \subseteq raced' /\ (col.pc = "read" /\ k.m \in DOMAIN col.got => k.m \in raced')
  BY Zenon, <1>5 DEF Race
<1>10. server[k.m].kind \notin {"doc", "gone"}
  BY Zenon, <1>5
<1>11. \A n \in Ids : server'[n] # server[n] =>
          /\ n \in Changes(task[t])
          /\ server[n].kind \in {"doc", "gone"} => server'[n].kind = "gone"
          /\ col.pc = "read" /\ n \in DOMAIN col.got => n \in raced'
  BY ZenonT(60), <1>7, <1>8, <1>9, <1>10
<1>12. task[t].pc # "get" /\ task'[t].pc \notin {"get", "got"}
  BY Zenon, <1>1, <1>2, <1>4, <1>6
<1>13. /\ \A n \in Ids : cache'[n] = cache[n] /\ known'[n] = known[n]
       /\ \A n \in Ids : n \in Changes(task'[t]) => n \in Changes(task[t])
  BY ZenonT(60), <1>5, <1>6, <1>7
<1> QED BY ZenonT(60), <1>5, <1>6, <1>9, <1>11, <1>12, <1>13, ClientStep

\* A batch of a delete is forgotten before its call.
LEMMA DeleteNextRecent ==
    ASSUME Inv, NEW t \in Tasks, NEW all \in SUBSET Ids, DeleteNext(t, all)
    PROVE  \E e : /\ Goto(t, e) /\ e.pc \notin {"get", "got"}
                  /\ \A n \in Ids : cache'[n] = cache[n] \/ ~Has(cache', n)
                  /\ \A n \in Ids : n \in Changes(e) => ~Has(cache', n)
<1>1. PICK e \in Works :
         /\ Goto(t, e)
         /\ e = Idle \/ (e.pc = "delete" /\ e.ids \subseteq all /\ Doom(e) = all)
         /\ cache' \in [Ids -> Said]
         /\ \A m \in Ids : cache'[m] \in {cache[m], Unknown, Gone}
         /\ \A m \in Ids : m \in Changes(e) => cache'[m] \in {Unknown, Gone}
  BY ZenonT(60), DeleteNextFacts
<1>2. \A m \in Ids : cache'[m] \in {Unknown, Gone} => ~Has(cache', m)
  BY Zenon, Marked DEF Has
<1>3. e.pc \notin {"get", "got"}
  BY SMTT(60), SMTT(60), <1>1 DEF Idle
<1> QED BY Zenon, <1>1, <1>2, <1>3

\* The client forgets what it asks Telegram to delete.
LEMMA DeleteRecent ==
    ASSUME Inv, Recent, Observe, UNCHANGED <<server, known, requests, col, raced>>,
           NEW t \in Tasks, task[t].pc # "get", NEW ids \in SUBSET Ids, NEW doc, DeleteRequest(t, ids, doc)
    PROVE  Recent'
<1>1. PICK all : all = ids \cup ({overflowOf[m] : m \in ids} \ {0})
  BY Zenon
<1>2. all \in SUBSET Ids
  BY SMTT(60), Z3T(60), <1>1 DEF Inv, Typed, Ids0
<1>3. DeleteNext(t, all)
  BY ZenonT(60), <1>1 DEF DeleteRequest
<1>4. PICK e : /\ Goto(t, e) /\ e.pc \notin {"get", "got"}
               /\ \A n \in Ids : cache'[n] = cache[n] \/ ~Has(cache', n)
               /\ \A n \in Ids : n \in Changes(e) => ~Has(cache', n)
  BY Zenon, <1>2, <1>3, DeleteNextRecent
<1> QED BY Zenon, <1>4, ClientAsks

\* An edit ends, with the request to delete what it superseded or without.
LEMMA EditDoneRecent ==
    ASSUME Inv, Recent, NEW t \in Tasks, EditDone(t)
    PROVE  Recent'
<1>1. PICK after : after = [overflowOf EXCEPT ![task[t].m] = task[t].doc]
  BY Zenon
<1>2. UNCHANGED <<server, known, requests, col, raced>> /\ Observe /\ task[t].pc = "edited"
  BY ZenonT(60) DEF EditDone
<1>3. task[t].pc # "get"
  BY Zenon, <1>2
<1>4. CASE DeleteRequest(t, {task[t].old}, after) /\ task[t].old # 0
  <2>1. task[t] \in Edits
    BY Zenon, <1>2, Stages DEF Inv, Typed
  <2>2. {task[t].old} \in SUBSET Ids
    BY Zenon, <1>4, <2>1 DEF Edits, Ids0
  <2> QED BY ZenonT(60), <1>2, <1>3, <1>4, <2>2, DeleteRecent
<1>5. CASE cache' = cache /\ Goto(t, Idle)
  BY Zenon, <1>2, <1>3, <1>5, IdleRecent
<1> QED BY Zenon, <1>1, <1>4, <1>5 DEF EditDone

\* A deletion begins.
LEMMA DeleteBeginRecent ==
    ASSUME Inv, Recent, NEW t \in Tasks, NEW ids \in SUBSET Messages, DeleteBegin(t, ids)
    PROVE  Recent'
<1>1. /\ UNCHANGED <<server, known, requests, col, raced>> /\ Observe
      /\ DeleteRequest(t, ids, overflowOf) /\ task[t] = Idle
  BY ZenonT(60) DEF DeleteBegin, Starts
<1>2. task[t].pc # "get"
  BY SMTT(60), Z3T(60), <1>1 DEF Idle
<1>3. ids \in SUBSET Ids
  BY Zenon, TelegramTextAssumption DEF Messages
<1> QED BY Zenon, <1>1, <1>2, <1>3, DeleteRecent

\* A deletion ends; an answer under way with what it deleted is noted as raced.
LEMMA DeleteDoneRecent ==
    ASSUME Inv, Recent, NEW t \in Tasks, DeleteDone(t)
    PROVE  Recent'
<1>1. PICK ids, rest : ids = task[t].ids /\ rest = task[t].rest
  BY Zenon
<1>2. task[t].pc = "delete" /\ task[t].pc # "get" /\ DeleteNext(t, rest) /\ UNCHANGED <<known, requests, col>> /\ Observe
  BY ZenonT(60), <1>1 DEF DeleteDone
<1>3. rest \in SUBSET Ids
  BY SMTT(60), Z3T(60), <1>1, <1>2, Stages DEF Inv, Typed, Deletes
<1>4. PICK e : /\ Goto(t, e) /\ e.pc \notin {"get", "got"}
               /\ \A n \in Ids : cache'[n] = cache[n] \/ ~Has(cache', n)
               /\ \A n \in Ids : n \in Changes(e) => ~Has(cache', n)
  BY Zenon, <1>2, <1>3, DeleteNextRecent
<1>5. CASE UNCHANGED <<server, raced>>
  BY ZenonT(60), <1>2, <1>4, <1>5, ClientAsks
<1>6. CASE /\ server' = [m \in Ids |-> IF m \in ids THEN Gone ELSE server[m]]
           /\ Race(ids, {m \in Ids \ ids : server[m].kind = "marker" /\ server[m].v \in ids})
  <2>1. /\ \A u \in Tasks : u # t => task'[u] = task[u]
        /\ task'[t] = e
    BY Zenon, <1>4 DEF Goto, Inv, Typed
  <2>2. Changes(task[t]) = ids
    BY ZenonT(60), <1>1, <1>2, ChangesFacts
  <2>3. /\ \A n \in Ids : n \notin ids => server'[n] = server[n]
        /\ \A n \in Ids : n \in ids => server'[n].kind = "gone"
    BY ZenonT(60), <1>6, Marked
  <2>4. /\ raced \subseteq raced'
        /\ \A n \in ids : col.pc = "read" /\ n \in DOMAIN col.got => n \in raced'
    BY Zenon, <1>6 DEF Race
  <2>5. \A n \in Ids : server'[n] # server[n] =>
          /\ n \in Changes(task[t])
          /\ server[n].kind \in {"doc", "gone"} => server'[n].kind = "gone"
          /\ col.pc = "read" /\ n \in DOMAIN col.got => n \in raced'
    BY ZenonT(60), <2>2, <2>3, <2>4
  <2>6. task'[t].pc \notin {"get", "got"} /\ \A n \in Ids : n \in Changes(task'[t]) => ~Has(cache', n)
    BY Zenon, <1>4, <2>1
  <2>7. \A n \in Ids : known'[n] = known[n] /\ (cache'[n] = cache[n] \/ ~Has(cache', n))
    BY Zenon, <1>2, <1>4
  <2> QED BY ZenonT(60), <1>2, <2>1, <2>4, <2>5, <2>6, <2>7, ClientStep
<1> QED BY ZenonT(60), <1>1, <1>5, <1>6 DEF DeleteDone

\* An answer, with what is known of its loss, and its fields.
Told(ids, c, b) == [Found(ids, c) EXCEPT !.lossy = b]
Answers(g, ids, c, b) ==
    /\ g.pc = "got" /\ g.todo = {m \in ids : c[m].kind = "marker"} /\ g.lossy = b
    /\ g.out = [m \in ids |-> IF c[m].kind = "text" THEN c[m].v ELSE 0]
    /\ g.doc = [m \in ids |-> IF c[m].kind = "marker" THEN c[m].v ELSE 0]

\* What an answer from the cache c says (Found).
LEMMA FoundFields ==
    ASSUME NEW ids, NEW c, NEW b
    PROVE  Answers(Told(ids, c, b), ids, c, b) /\ Answers(Found(ids, c), ids, c, FALSE)
<1>1. Answers(Told(ids, c, b), ids, c, b)
  BY Zenon DEF Answers, Told, Found
<1>2. Answers(Found(ids, c), ids, c, FALSE)
  BY Zenon DEF Answers, Found
<1> QED BY Zenon, <1>1, <1>2

\* An answer from a cache that is fresh says what the messages say; what the
\* cache has not is missing, or was lost on the way.
LEMMA FoundRight ==
    ASSUME Inv', Fresh', Remembered', Observe, NEW t \in Tasks, NEW ids \in SUBSET Ids, NEW l \in BOOLEAN,
           \/ task'[t] = Told(ids, cache', l)
           \/ task'[t] = Found(ids, cache') /\ l = FALSE,
           \A m \in ids \ raced' : ~Has(cache', m) => l \/ 0 \in seen'[t][m]
    PROVE  AnswerFor(t)'
<1>1. PICK g : g = task'[t]
  BY Zenon
<1>c. PICK c : c = cache'
  BY Zenon
<1>2. /\ g.pc = "got" /\ g.todo = {m \in ids : c[m].kind = "marker"} /\ g.lossy = l
      /\ g.out = [m \in ids |-> IF c[m].kind = "text" THEN c[m].v ELSE 0]
      /\ g.doc = [m \in ids |-> IF c[m].kind = "marker" THEN c[m].v ELSE 0]
  <2>1. g = Told(ids, c, l) \/ (g = Found(ids, c) /\ l = FALSE)
    BY Zenon, <1>1, <1>c
  <2>2. Answers(g, ids, c, l)
    BY Zenon, <2>1, FoundFields
  <2> QED BY Zenon, <2>2 DEF Answers
<1> SUFFICES ASSUME NEW m \in Ids \ raced', m \in DOMAIN g.out
             PROVE  /\ m \in g.todo => Sourced(t, m)'
                    /\ m \notin g.todo => Right(t, m)'
  BY Zenon, <1>1 DEF AnswerFor
<1>3. m \in ids /\ m \in Ids
  BY Zenon, <1>2
<1>4. Says(server', m) \in seen'[t][m]
  BY Zenon, <1>1, <1>2, Observed DEF Reading
<1>5. /\ m \in g.todo <=> c[m].kind = "marker"
      /\ g.out[m] = IF c[m].kind = "text" THEN c[m].v ELSE 0
      /\ g.doc[m] = IF c[m].kind = "marker" THEN c[m].v ELSE 0
  BY Zenon, <1>2, <1>3
<1>6. CASE ~Has(c, m)
  <2>1. c[m].kind \notin {"text", "marker"}
    BY Zenon, <1>6 DEF Has
  <2>2. m \notin g.todo /\ g.out[m] = 0
    BY Zenon, <1>5, <2>1
  <2>3. l \/ 0 \in seen'[t][m]
    BY Zenon, <1>3, <1>6, <1>c
  <2> QED BY ZenonT(60), <1>1, <1>2, <2>2, <2>3 DEF Right
<1>7. CASE Has(c, m)
  <2>1. c[m] = server'[m]
    BY Zenon, <1>7, <1>c DEF Fresh
  <2>s. PICK s : s = server'
    BY Zenon
  <2>2. CASE c[m].kind = "text"
    <3>0. Says(s, m) = s[m].v
      BY ZenonT(60), <2>1, <2>2, <2>s, SaysFacts
    <3>1. Says(server', m) = c[m].v
      BY Zenon, <2>1, <2>s, <3>0
    <3>2. m \notin g.todo /\ g.out[m] = c[m].v
      BY Zenon, <1>5, <2>2
    <3> QED BY ZenonT(60), <1>1, <1>4, <3>1, <3>2 DEF Right
  <2>3. CASE c[m].kind = "marker"
    <3>1. PICK d : d = c[m].v
      BY Zenon
    <3>2. d \in Ids /\ server'[d].kind = "doc"
      BY ZenonT(60), <1>3, <2>1, <2>3, <3>1, Kinds DEF Inv, Typed, Whole
    <3>a. s[m].kind = "marker" /\ s[m].v = d /\ s[d].kind = "doc"
      BY ZenonT(60), <2>1, <2>3, <2>s, <3>1, <3>2
    <3>b. Says(s, m) = s[s[m].v].v
      BY ZenonT(60), <3>a, SaysFacts
    <3>3. Says(server', m) = server'[d].v
      BY Zenon, <2>s, <3>a, <3>b
    <3>4. known'[d] # 0 => known'[d] = server'[d].v
      <4>1. ASSUME known'[d] # 0
            PROVE  known'[d] = server'[d].v
        <5>1. IsDoc(d, known[d])'
          BY ZenonT(60), <3>2, <4>1 DEF Remembered
        <5>2. server'[d].kind # "gone"
          BY Zenon, <3>2
        <5> QED BY ZenonT(60), <5>1, <5>2 DEF IsDoc
      <4> QED BY Zenon, <4>1
    <3>5. g.doc[m] = d /\ m \in g.todo
      BY ZenonT(60), <1>5, <2>3, <3>1
    <3>6. PICK v : v = server'[d].v
      BY Zenon
    <3>7. v \in seen'[t][m] /\ known'[d] \in {0, v}
      BY ZenonT(60), <1>4, <3>3, <3>4, <3>6
    <3>8. IsDoc(d, v)'
      BY Zenon, <3>2, <3>6 DEF IsDoc
    <3>9. Sourced(t, m)'
      BY ZenonT(60), <1>1, <3>5, <3>7, <3>8 DEF Sourced
    <3> QED BY Zenon, <3>5, <3>9
  <2>4. CASE c[m].kind \notin {"text", "marker"}
    <3>1. Says(server', m) = 0
      BY ZenonT(60), <2>1, <2>4, SaysFacts
    <3>2. m \notin g.todo /\ g.out[m] = 0
      BY ZenonT(60), <1>5, <2>4
    <3> QED BY ZenonT(60), <1>1, <1>4, <3>1, <3>2 DEF Right
  <2> QED BY ZenonT(60), <2>2, <2>3, <2>4
<1> QED BY Zenon, <1>6, <1>7

\* What the cache has not after a step, it lost, or the readers saw missing.
Accounted(batch, lost) == \A r \in batch, m \in Ids \ raced' :
    r.t \in Tasks /\ m \in r.ids /\ ~Has(cache', m) => m \in lost \/ 0 \in seen'[r.t][m]

\* The answers to a batch, from the cache as it is then.
LEMMA AnswerRight ==
    ASSUME Inv', Fresh', Remembered', Observe, NEW batch \in SUBSET Orders, NEW evicted,
           Answer(batch, cache', evicted), NEW u \in Tasks, \E r \in batch : r.t = u,
           Accounted(batch, evicted)
    PROVE  AnswerFor(u)'
<1>1. PICK r : r = CHOOSE q \in batch : q.t = u
  BY Zenon
<1>2. r \in batch /\ r.t = u
  BY ZenonT(60), <1>1
<1>3. r.ids \in SUBSET Ids
  BY Zenon, <1>2 DEF Orders
<1>4. PICK l : l = (Wanted(batch) \cap evicted # {})
  BY ZenonT(60)
<1>5. l \in BOOLEAN
  BY Zenon, <1>4
<1>6. task'[u] = Told(r.ids, cache', l)
  BY Zenon, <1>1, <1>4 DEF Answer, Told
<1>7. ASSUME NEW m \in r.ids \ raced', ~Has(cache', m)
      PROVE  l \/ 0 \in seen'[u][m]
  <2>1. m \in evicted \/ 0 \in seen'[u][m]
    BY ZenonT(60), <1>2, <1>3, <1>7 DEF Accounted
  <2>2. m \in Wanted(batch)
    BY Zenon, <1>2, <1>7 DEF Wanted
  <2> QED BY ZenonT(60), <1>4, <2>1, <2>2
<1> QED BY ZenonT(60), <1>3, <1>5, <1>6, <1>7, FoundRight

\* Steps of the readers and of the collector that fetch no message of theirs
\* keep the invariant when the cache stays fresh.
LEMMA ReaderMoves ==
    ASSUME Inv, Recent, Observe, Waiting', Remembered', Steady, Fresh', server' = server, raced \subseteq raced',
           col'.pc \in {"fetch", "read"} =>
              /\ col'.pc = col.pc
              /\ col.pc = "fetch" => col'.want = col.want
              /\ col.pc = "read" => col'.got = col.got
              /\ \A q \in col'.batch : q.t \in Tasks => \E r \in col.batch : r.t = q.t /\ r.ids = q.ids,
           \A u \in Tasks : task'[u].pc = "got" => task'[u] = task[u] \/ AnswerFor(u)'
    PROVE  Recent'
<1>2. ASSUME col'.pc \in {"fetch", "read"}, NEW q \in col'.batch, q.t \in Tasks
      PROVE  Reading(task'[q.t])
  BY Zenon, <1>2 DEF Waiting, Batch, Reading
<1>3. Fetched'
  <2> SUFFICES ASSUME col'.pc = "read", NEW m \in DOMAIN col'.got \ raced'
               PROVE  /\ Has(col'.got, m) => col'.got[m] = server[m]
                      /\ ~Has(col'.got, m) =>
                            \A q \in col'.batch : q.t \in Tasks => 0 \in seen'[q.t][m]
    BY Zenon DEF Fetched
  <2>1. col.pc = "read" /\ col'.got = col.got
    BY Zenon
  <2>2. m \in Ids
    BY Zenon, <2>1, ReplyIds DEF Inv, Typed
  <2>3. ASSUME NEW q \in col'.batch, q.t \in Tasks, ~Has(col.got, m)
        PROVE  0 \in seen'[q.t][m]
    <3>1. PICK r \in col.batch : r.t = q.t
      BY Zenon, <2>3
    <3>2. 0 \in seen[q.t][m]
      BY Zenon, <2>1, <2>3, <3>1 DEF Recent, Fetched
    <3>3. Reading(task'[q.t])
      BY ZenonT(60), <1>2, <2>3
    <3> QED BY ZenonT(60), <2>2, <2>3, <3>2, <3>3, Observed
  <2>4. Has(col.got, m) => col.got[m] = server[m]
    BY Zenon, <2>1 DEF Recent, Fetched
  <2> QED BY Zenon, <2>1, <2>3, <2>4
<1>4. Missed'
  <2> SUFFICES ASSUME col'.pc \in {"fetch", "read"}, NEW q \in col'.batch, NEW m \in Ids,
                      q.t \in Tasks, m \in q.ids \ Asked(col')
               PROVE  Has(cache', m) \/ 0 \in seen'[q.t][m]
    BY Zenon DEF Missed
  <2>1. PICK r \in col.batch : r.t = q.t /\ r.ids = q.ids
    BY Zenon
  <2>2. Asked(col') = Asked(col) /\ col.pc \in {"fetch", "read"}
    BY Zenon DEF Asked
  <2>3. Has(cache, m) \/ 0 \in seen[q.t][m]
    BY Zenon, <2>1, <2>2 DEF Recent, Missed
  <2>4. Reading(task'[q.t])
    BY ZenonT(60), <1>2
  <2>5. CASE 0 \in seen[q.t][m]
    BY Zenon, <2>4, <2>5, Observed
  <2>6. CASE Has(cache, m) /\ ~Has(cache', m)
    <3>1. Missing(m)
      BY Zenon, <2>6 DEF Missing
    <3> QED BY Zenon, <2>4, <3>1, Observed
  <2> QED BY Zenon, <2>3, <2>5, <2>6
<1>5. Answered'
  <2> SUFFICES ASSUME NEW u \in Tasks, task'[u].pc = "got"
               PROVE  AnswerFor(u)'
    BY Zenon DEF Answered
  <2>1. CASE task'[u] = task[u]
    <3>1. AnswerFor(u) /\ task[u].pc = "got"
      BY Zenon, <2>1 DEF Recent, Answered
    <3> QED BY ZenonT(60), <2>1, <3>1, AnswerStays
  <2> QED BY Zenon, <2>1
<1> QED BY ZenonT(60), <1>3, <1>4, <1>5 DEF Recent

\* A cache that stays as it is stays fresh.
LEMMA FreshIf ==
    ASSUME Recent, UNCHANGED <<server, cache, raced>>,
           \A u \in Tasks : task'[u] = task[u] \/ Changes(task'[u]) = {}
    PROVE  Fresh'
<1> SUFFICES ASSUME NEW n \in Ids \ raced, Has(cache, n)
             PROVE  cache[n] = server[n] /\ \A u \in Tasks : n \notin Changes(task'[u])
  BY Zenon DEF Fresh, Has
<1> QED BY Zenon DEF Recent, Fresh

\* So they do when they leave the cache alone.
LEMMA ReaderStep ==
    ASSUME Inv, Recent, Observe, Waiting', Remembered', Steady, UNCHANGED <<server, cache, raced>>,
           \A u \in Tasks : task'[u] = task[u] \/ Changes(task'[u]) = {},
           col'.pc \in {"fetch", "read"} =>
              /\ col'.pc = col.pc
              /\ col.pc = "fetch" => col'.want = col.want
              /\ col.pc = "read" => col'.got = col.got
              /\ \A q \in col'.batch : q.t \in Tasks => \E r \in col.batch : r.t = q.t /\ r.ids = q.ids,
           \A u \in Tasks : task'[u].pc = "got" => task'[u] = task[u] \/ AnswerFor(u)'
    PROVE  Recent'
<1>1. Fresh'
  BY ZenonT(60), FreshIf
<1>2. server' = server /\ raced \subseteq raced'
  BY Zenon
<1> QED BY ZenonT(60), <1>1, <1>2, ReaderMoves

\* On a step that changes neither Telegram nor the memory of documents.
LEMMA SteadyIf ==
    ASSUME UNCHANGED <<server, known>>, Remembered
    PROVE  Remembered' /\ Steady
<1>1. \A d, v : IsDoc(d, v)' <=> IsDoc(d, v)
  BY Zenon DEF IsDoc
<1>2. Remembered'
  BY Zenon, <1>1 DEF Remembered
<1>3. Steady
  BY Zenon, <1>1 DEF Steady
<1> QED BY Zenon, <1>2, <1>3

\* A read begins: answered from a cache that is fresh, or queued.
LEMMA GetBeginRecent ==
    ASSUME Inv, Inv', Recent, NEW t \in Tasks, NEW ids \in SUBSET Ids, GetBegin(t, ids)
    PROVE  Recent'
<1>1. UNCHANGED <<server, cache, known, raced>> /\ Observe /\ task[t] = Idle
  BY Zenon DEF GetBegin, Starts
<1>2. Remembered' /\ Steady
  BY ZenonT(60), <1>1, SteadyIf DEF Recent
<1>3. Idle.pc # "get" /\ Idle.pc # "got"
  BY Zenon DEF Idle
<1>4. CASE Goto(t, Found(ids, cache)) /\ UNCHANGED <<requests, col>> /\ \A m \in ids : Has(cache, m)
  <2>1. PICK g : g = Found(ids, cache)
    BY Zenon
  <2>2. g.pc = "got"
    <3>1. Answers(g, ids, cache, FALSE)
      BY Zenon, <2>1, FoundFields
    <3> QED BY Zenon, <3>1 DEF Answers
  <2>3. /\ \A u \in Tasks : u # t => task'[u] = task[u]
        /\ task'[t] = g
    BY ZenonT(60), <1>4, <2>1 DEF Goto, Inv, Typed
  <2>4. Changes(g) = {}
    BY Zenon, <2>2, ChangesFacts
  <2>5. Fresh'
    <3>1. \A u \in Tasks : task'[u] = task[u] \/ Changes(task'[u]) = {}
      BY Zenon, <2>3, <2>4
    <3> QED BY ZenonT(60), <1>1, <3>1, FreshIf
  <2>6. AnswerFor(t)'
    <3>1. task'[t] = Found(ids, cache')
      BY ZenonT(60), <1>1, <2>1, <2>3
    <3>2. \A m \in ids \ raced' : Has(cache', m)
      BY Zenon, <1>1, <1>4 DEF Has
    <3> QED BY ZenonT(60), <1>1, <1>2, <2>5, <3>1, <3>2, FoundRight
  <2>7. Waiting'
    <3>1. Batch' = Batch /\ requests' = requests
      BY Zenon, <1>4 DEF Batch
    <3>2. \A u \in Tasks : task[u].pc = "get" => task'[u].pc = "get"
      BY ZenonT(60), <1>1, <1>3, <2>3
    <3> QED BY Zenon, <3>1, <3>2 DEF Recent, Waiting
  <2>8. \A u \in Tasks : task'[u] = task[u] \/ Changes(task'[u]) = {}
    BY Zenon, <2>3, <2>4
  <2>9. \A u \in Tasks : task'[u].pc = "got" => task'[u] = task[u] \/ AnswerFor(u)'
    BY ZenonT(60), <2>3, <2>6
  <2>10. col' = col
    BY Zenon, <1>4
  <2> QED BY ZenonT(60), <1>1, <1>2, <2>7, <2>8, <2>9, <2>10, ReaderStep
<1>5. CASE /\ Goto(t, [pc |-> "get"])
           /\ requests' = requests \cup {[ids |-> ids, t |-> t]}
           /\ col' = IF col = NoCol THEN [pc |-> "sleep"] ELSE col
  <2>1. PICK g : g = [pc |-> "get"]
    BY ZenonT(60)
  <2>2. g.pc = "get"
    BY Zenon, <2>1
  <2>3. /\ \A u \in Tasks : u # t => task'[u] = task[u]
        /\ task'[t] = g
    BY ZenonT(60), <1>5, <2>1 DEF Goto, Inv, Typed
  <2>4. Changes(g) = {} /\ g.pc # "got"
    BY Zenon, <2>2, ChangesFacts
  <2>5. PICK o : o = [ids |-> ids, t |-> t]
    BY ZenonT(60)
  <2>6. o.t = t /\ requests' = requests \cup {o}
    BY ZenonT(60), <1>5, <2>5
  <2>7. Batch' = Batch
    BY SMTT(60), Z3T(60), <1>5 DEF Batch, NoCol
  <2>8. \A r \in requests \cup Batch : r.t # t
    BY ZenonT(60), <1>1, <1>3 DEF Recent, Waiting
  <2>9. Waiting'
    <3>1. ASSUME NEW r \in requests' \cup Batch', r.t \in Tasks
          PROVE  task'[r.t].pc = "get"
      <4>1. CASE r = o
        BY ZenonT(60), <4>1, <2>2, <2>3, <2>6
      <4>2. CASE r \in requests \cup Batch
        BY ZenonT(60), <4>2, <3>1, <2>3, <2>8 DEF Recent, Waiting
      <4> QED BY ZenonT(60), <3>1, <4>1, <4>2, <2>6, <2>7
    <3>2. ASSUME NEW r \in requests', NEW q \in Batch', r.t = q.t
          PROVE  r.t \notin Tasks
      <4>1. q \in Batch /\ q.t # t
        BY ZenonT(60), <3>2, <2>7, <2>8
      <4>2. r \in requests
        BY ZenonT(60), <3>2, <4>1, <2>6
      <4> QED BY ZenonT(60), <3>2, <4>1, <4>2 DEF Recent, Waiting
    <3> QED BY ZenonT(60), <3>1, <3>2 DEF Waiting
  <2>10. \A u \in Tasks : task'[u] = task[u] \/ Changes(task'[u]) = {}
    BY ZenonT(60), <2>3, <2>4
  <2>11. \A u \in Tasks : task'[u].pc = "got" => task'[u] = task[u]
    BY ZenonT(60), <2>3, <2>4
  <2>12. col'.pc \in {"fetch", "read"} => col' = col
    BY Zenon, <1>5
  <2> QED BY ZenonT(60), <1>1, <1>2, <2>9, <2>10, <2>11, <2>12, ReaderStep
<1> QED BY Zenon, <1>4, <1>5 DEF GetBegin

\* An attempt for a batch of which everyone still waits.
LEMMA AttemptRecent ==
    ASSUME Inv, Inv', Recent, Observe, UNCHANGED <<server, cache, known, raced>>,
           NEW batch \in SUBSET Orders, NEW n, Attempt(batch, n),
           \A r \in requests' \cup batch : r.t \in Tasks => task[r.t].pc = "get",
           \A r \in requests', q \in batch : r.t = q.t => r.t \notin Tasks
    PROVE  Recent'
<1>1. Remembered' /\ Steady
  BY Zenon, SteadyIf DEF Recent
<1>2. CASE Answer(batch, cache, {}) /\ {m \in Wanted(batch) : ~Has(cache, m)} = {}
  <2>1. \A u \in Tasks : task'[u] = task[u] \/ ((\E r \in batch : r.t = u) /\ task'[u].pc = "got")
    <3> SUFFICES ASSUME NEW u \in Tasks, \E r \in batch : r.t = u
                 PROVE  task'[u].pc = "got"
      BY Zenon, <1>2 DEF Answer
    <3>1. PICK c, l, ids : task'[u] = Told(ids, c, l)
      BY ZenonT(60), <1>2 DEF Answer, Told
    <3>2. Answers(task'[u], ids, c, l)
      BY ZenonT(60), <3>1, FoundFields
    <3> QED BY Zenon, <3>2 DEF Answers
  <2>2. \A u \in Tasks : task'[u] = task[u] \/ Changes(task'[u]) = {}
    <3>1. \A k : k.pc = "got" => Changes(k) = {}
      BY ZenonT(60), ChangesFacts
    <3> QED BY ZenonT(60), <2>1, <3>1
  <2>3. Fresh'
    BY ZenonT(60), <2>2, FreshIf
  <2>4. Accounted(batch, {})
    BY Zenon, <1>2 DEF Wanted, Accounted, Has
  <2>5. Answer(batch, cache', {})
    BY Zenon, <1>2
  <2>6. \A u \in Tasks : (\E r \in batch : r.t = u) => AnswerFor(u)'
    BY ZenonT(60), <1>1, <2>3, <2>4, <2>5, AnswerRight
  <2>7. col' \in {NoCol, [pc |-> "sleep"]}
    BY ZenonT(60), <1>2 DEF Answer
  <2>8. col'.pc \notin {"fetch", "read", "me"}
    BY SMTT(60), Z3T(60), <2>7 DEF NoCol
  <2>9. Waiting'
    <3>1. Batch' = {}
      BY Zenon, <2>8 DEF Batch
    <3>2. ASSUME NEW r \in requests', r.t \in Tasks
          PROVE  task'[r.t].pc = "get"
      <4>1. task'[r.t] = task[r.t]
        BY ZenonT(60), <3>2, <2>1
      <4> QED BY ZenonT(60), <3>2, <4>1
    <3> QED BY ZenonT(60), <3>1, <3>2 DEF Waiting
  <2>10. \A u \in Tasks : task'[u].pc = "got" => task'[u] = task[u] \/ AnswerFor(u)'
    BY ZenonT(60), <2>1, <2>6
  <2>11. col'.pc \notin {"fetch", "read"}
    BY ZenonT(60), <2>8
  <2> QED BY ZenonT(60), <1>1, <2>2, <2>9, <2>10, <2>11, ReaderStep
<1>3. ASSUME NEW missing, missing = {m \in Wanted(batch) : ~Has(cache, m)},
             col' = [pc |-> "fetch", batch |-> batch, n |-> n, want |-> missing], task' = task
      PROVE  Recent'
  <2>1. col'.pc = "fetch" /\ col'.batch = batch /\ col'.want = missing /\ col'.pc # "read"
    BY Zenon, <1>3
  <2>2. Waiting'
    <3>1. Batch' = batch
      BY Zenon, <2>1 DEF Batch
    <3> QED BY Zenon, <1>3, <3>1 DEF Waiting
  <2>3. Fresh'
    BY ZenonT(60), <1>3 DEF Recent, Fresh
  <2>4. Fetched'
    BY Zenon, <2>1 DEF Fetched
  <2>5. Missed'
    <3> SUFFICES ASSUME NEW r \in batch, NEW m \in Ids, m \in r.ids \ missing
                 PROVE  Has(cache, m)
      BY ZenonT(60), <2>1 DEF Missed, Asked
    <3> QED BY Zenon, <1>3 DEF Wanted
  <2>6. Answered'
    <3> SUFFICES ASSUME NEW u \in Tasks, task'[u].pc = "got"
                 PROVE  AnswerFor(u)'
      BY Zenon DEF Answered
    <3>1. task'[u] = task[u] /\ task[u].pc = "got" /\ raced \subseteq raced'
      BY ZenonT(60), <1>3
    <3>2. AnswerFor(u)
      BY Zenon, <3>1 DEF Recent, Answered
    <3> QED BY ZenonT(60), <1>1, <3>1, <3>2, AnswerStays
  <2> QED BY ZenonT(60), <1>1, <2>2, <2>3, <2>4, <2>5, <2>6 DEF Recent
<1> QED BY ZenonT(60), <1>2, <1>3 DEF Attempt

\* The collector takes the queue for its batch: everyone in it waits.
LEMMA FlushRecent ==
    ASSUME Inv, Inv', Recent, Flush
    PROVE  Recent'
<1>1. /\ Attempt(requests, 1) /\ requests' = {} /\ UNCHANGED <<server, cache, known, raced>> /\ Observe
  BY Zenon DEF Flush
<1>2. requests \in SUBSET Orders
  BY Zenon DEF Inv, Typed
<1>3. /\ \A r \in requests' \cup requests : r.t \in Tasks => task[r.t].pc = "get"
      /\ \A r \in requests', q \in requests : r.t = q.t => r.t \notin Tasks
  BY ZenonT(60), <1>1 DEF Recent, Waiting
<1> QED BY ZenonT(60), <1>1, <1>2, <1>3, AttemptRecent

\* Telegram reads the messages: everyone who waits sees what they say.
LEMMA ServerReadsRecent ==
    ASSUME Inv, Inv', Recent, ServerReads
    PROVE  Recent'
<1>1. /\ col.pc = "fetch" /\ UNCHANGED <<server, cache, known, requests, task, raced>> /\ Observe
  BY Zenon DEF ServerReads
<1>2. PICK got : got = [m \in col.want |-> server[m]]
  BY ZenonT(60)
<1>3. col' = [pc |-> "read", batch |-> col.batch, n |-> col.n, got |-> got]
  BY ZenonT(60), <1>2 DEF ServerReads
<1>4. col'.pc = "read" /\ col'.batch = col.batch /\ col'.got = got /\ DOMAIN got = col.want
  BY ZenonT(60), <1>2, <1>3
<1>5. Remembered' /\ Steady
  BY ZenonT(60), <1>1, SteadyIf DEF Recent
<1>6. Batch' = Batch
  BY ZenonT(60), <1>1, <1>4 DEF Batch
<1>7. Waiting'
  BY ZenonT(60), <1>1, <1>6 DEF Recent, Waiting
<1>8. Fresh'
  BY ZenonT(60), <1>1 DEF Recent, Fresh, Has
<1>9. ASSUME NEW r \in col.batch, r.t \in Tasks
      PROVE  Reading(task'[r.t])
  BY ZenonT(60), <1>1, <1>9 DEF Recent, Waiting, Batch, Reading
<1>10. Fetched'
  <2> SUFFICES ASSUME NEW m \in col.want
               PROVE  /\ got[m] = server[m]
                      /\ ~Has(server, m) =>
                            \A r \in col.batch : r.t \in Tasks => 0 \in seen'[r.t][m]
    BY Zenon, <1>1, <1>4 DEF Fetched, Has
  <2>1. got[m] = server[m]
    BY ZenonT(60), <1>2
  <2>2. m \in Ids
    BY ZenonT(60), <1>1, ColStages DEF Inv, Typed
  <2>3. ASSUME ~Has(server, m), NEW r \in col.batch, r.t \in Tasks
        PROVE  0 \in seen'[r.t][m]
    <3>1. Says(server', m) \in seen'[r.t][m]
      BY ZenonT(60), <1>1, <1>9, <2>2, <2>3, Observed
    <3>2. server[m].kind \notin {"text", "marker"}
      BY Zenon, <2>3 DEF Has
    <3>3. Says(server, m) = 0
      BY Zenon, <3>2, SaysFacts
    <3> QED BY ZenonT(60), <1>1, <3>1, <3>3
  <2> QED BY ZenonT(60), <2>1, <2>3
<1>11. Missed'
  <2> SUFFICES ASSUME NEW r \in col.batch, NEW m \in Ids, r.t \in Tasks, m \in r.ids \ col.want
               PROVE  Has(cache, m) \/ 0 \in seen'[r.t][m]
    <3>1. Asked(col') = col.want
      BY Zenon, <1>4 DEF Asked
    <3> QED BY ZenonT(60), <1>1, <1>4, <3>1 DEF Missed, Has
  <2>1. Has(cache, m) \/ 0 \in seen[r.t][m]
    BY Zenon, <1>1 DEF Recent, Missed, Asked
  <2>2. Reading(task'[r.t])
    BY Zenon, <1>9
  <2> QED BY ZenonT(60), <1>1, <2>1, <2>2, Observed
<1>12. Answered'
  <2> SUFFICES ASSUME NEW u \in Tasks, task'[u].pc = "got"
               PROVE  AnswerFor(u)'
    BY Zenon DEF Answered
  <2>1. task'[u] = task[u] /\ task[u].pc = "got" /\ raced \subseteq raced'
    BY Zenon, <1>1
  <2>2. AnswerFor(u)
    BY ZenonT(60), <2>1 DEF Recent, Answered
  <2> QED BY ZenonT(60), <1>1, <1>5, <2>1, <2>2, AnswerStays
<1> QED BY ZenonT(60), <1>5, <1>7, <1>8, <1>10, <1>11, <1>12 DEF Recent

\* The answer of Telegram enters the cache.  A message that changes just then
\* is noted as raced; one the cache loses leaves the readers a lossy answer.
LEMMA FetchReplyRecent ==
    ASSUME Inv, Inv', Recent, FetchReply
    PROVE  Recent'
<1>1. col.batch \in SUBSET Orders /\ col.got \in Replies /\ col.pc = "read"
  BY Zenon, ColStages DEF Inv, Typed, FetchReply
<1>2. PICK new : new = {m \in DOMAIN col.got : Has(col.got, m)}
  BY Zenon
<1>3. PICK g, lost : g = [m \in new |-> col.got[m]] /\ lost = {m \in new : ~Has(cache', m)}
  BY Zenon
<1>4. cache' \in Stored(cache, g) /\ Answer(col.batch, cache', lost)
  BY ZenonT(60), <1>2, <1>3 DEF FetchReply
<1>s. \A m \in Ids : \/ cache'[m] = Unknown
                     \/ m \in new /\ cache'[m] = col.got[m]
                     \/ m \notin new /\ cache'[m] = cache[m]
  <2>1. new \in SUBSET Ids /\ \A m \in new : m \in DOMAIN col.got /\ col.got[m] \in Said
    BY SMTT(60), Z3T(60), <1>1, <1>2 DEF Replies
  <2>2. g \in [new -> Said] /\ \A m \in new : g[m] = col.got[m]
    BY Zenon, <1>3, <2>1
  <2>3. PICK e : e = cache'
    BY Zenon
  <2>4. e \in Stored(cache, g) /\ cache \in [Ids -> Said] /\ new \in SUBSET Ids
    BY ZenonT(60), <1>4, <2>1, <2>3 DEF Inv, Typed
  <2>5. \A m \in Ids : e[m] = Unknown \/ (m \in new /\ e[m] = g[m]) \/ (m \notin new /\ e[m] = cache[m])
    BY SMTT(60), Z3T(60), ZenonT(60), <2>2, <2>4, StoredFacts
  <2> QED BY ZenonT(60), <2>2, <2>3, <2>5
<1>5. UNCHANGED <<server, known, requests>> /\ Observe /\ raced' = raced \cup (new \cap Changing)
  BY Zenon, <1>2 DEF FetchReply
<1>6. Remembered' /\ Steady /\ raced \subseteq raced'
  <2>1. raced \subseteq raced'
    BY Zenon, <1>5
  <2> QED BY ZenonT(60), <2>1, <1>5, SteadyIf DEF Recent
<1>7. \A u \in Tasks : task'[u] = task[u] \/ ((\E r \in col.batch : r.t = u) /\ task'[u].pc = "got")
  <2> SUFFICES ASSUME NEW u \in Tasks, \E r \in col.batch : r.t = u
               PROVE  task'[u].pc = "got"
    BY Zenon, <1>4 DEF Answer
  <2>1. PICK c, l, ids : task'[u] = Told(ids, c, l)
    BY Zenon, <1>4 DEF Answer, Told
  <2>2. Answers(task'[u], ids, c, l)
    BY ZenonT(60), <2>1, FoundFields
  <2> QED BY ZenonT(60), <2>2 DEF Answers
<1>8. \A u \in Tasks : task'[u] = task[u] \/ Changes(task'[u]) = {}
  <2>1. \A k : k.pc = "got" => Changes(k) = {}
    BY Zenon, ChangesFacts
  <2> QED BY ZenonT(60), <1>7, <2>1
<1>9. ASSUME NEW m \in Ids, m \in new, m \notin raced
      PROVE  col.got[m] = server[m]
  BY ZenonT(60), <1>1, <1>2, <1>9 DEF Recent, Fetched
<1>10. Fresh'
  <2> SUFFICES ASSUME NEW m \in Ids \ raced', Has(cache', m)
               PROVE  cache'[m] = server'[m] /\ \A u \in Tasks : m \notin Changes(task'[u])
    BY Zenon DEF Fresh
  <2>1. m \notin raced /\ m \notin new \cap Changing
    BY Zenon, <1>5
  <2>2. CASE m \in new /\ cache'[m] = col.got[m]
    <3>1. cache'[m] = server'[m]
      BY ZenonT(60), <2>1, <2>2, <1>5, <1>9
    <3>2. \A u \in Tasks : m \notin Changes(task[u])
      BY ZenonT(60), <2>1, <2>2 DEF Changing
    <3> QED BY ZenonT(60), <3>1, <3>2, <1>8
  <2>3. CASE cache'[m] = cache[m]
    <3>1. Has(cache, m)
      BY Zenon, <2>3 DEF Has
    <3>2. cache[m] = server[m] /\ \A u \in Tasks : m \notin Changes(task[u])
      BY ZenonT(60), <2>1, <3>1 DEF Recent, Fresh
    <3> QED BY ZenonT(60), <2>3, <3>2, <1>5, <1>8
  <2>4. cache'[m] # Unknown
    BY Zenon, Marked DEF Has
  <2> QED BY ZenonT(60), <2>2, <2>3, <2>4, <1>s
<1>11. ASSUME NEW r \in col.batch, NEW m \in Ids \ raced', r.t \in Tasks, m \in r.ids, ~Has(cache', m)
       PROVE  m \in lost \/ 0 \in seen'[r.t][m]
  <2>1. Reading(task'[r.t])
    <3>1. task'[r.t].pc = "got" \/ task'[r.t].pc = task[r.t].pc
      BY Zenon, <1>7, <1>11
    <3>2. task[r.t].pc = "get"
      BY ZenonT(60), <1>1, <1>11 DEF Recent, Waiting, Batch
    <3> QED BY Zenon, <3>1, <3>2 DEF Reading
  <2>2. CASE m \in new
    BY Zenon, <2>2, <1>3, <1>11
  <2>3. CASE Has(cache, m)
    <3>1. Missing(m)
      BY Zenon, <2>3, <1>11 DEF Missing
    <3> QED BY ZenonT(60), <2>1, <3>1, <1>5, <1>11, Observed
  <2>4. CASE m \notin new /\ ~Has(cache, m)
    <3>1. m \notin raced
      BY ZenonT(60), <1>6
    <3>2. CASE m \in DOMAIN col.got
      <4>1. ~Has(col.got, m)
        BY ZenonT(60), <2>4, <3>2, <1>2
      <4>2. 0 \in seen[r.t][m]
        BY ZenonT(60), <3>1, <3>2, <4>1, <1>1, <1>11 DEF Recent, Fetched
      <4> QED BY ZenonT(60), <4>2, <2>1, <1>5, <1>11, Observed
    <3>3. CASE m \notin DOMAIN col.got
      <4>1. Asked(col) = DOMAIN col.got
        BY Zenon, <1>1 DEF Asked
      <4>2. 0 \in seen[r.t][m]
        BY ZenonT(60), <2>4, <3>3, <4>1, <1>1, <1>11 DEF Recent, Missed
      <4> QED BY Zenon, <4>2, <2>1, <1>5, <1>11, Observed
    <3> QED BY ZenonT(60), <3>2, <3>3
  <2> QED BY ZenonT(60), <2>2, <2>3, <2>4
<1>12. \A u \in Tasks : (\E r \in col.batch : r.t = u) => AnswerFor(u)'
  <2>1. Accounted(col.batch, lost)
    BY ZenonT(60), <1>11 DEF Accounted
  <2> QED BY ZenonT(60), <2>1, <1>1, <1>4, <1>5, <1>6, <1>10, AnswerRight
<1>13. col' \in {NoCol, [pc |-> "sleep"]}
  BY ZenonT(60), <1>4 DEF Answer
<1>14. col'.pc \notin {"fetch", "read", "me"}
  BY SMTT(60), Z3T(60), <1>13 DEF NoCol
<1>15. Waiting'
  <2>1. Batch' = {}
    BY Zenon, <1>14 DEF Batch
  <2>2. ASSUME NEW r \in requests', r.t \in Tasks
        PROVE  task'[r.t].pc = "get"
    <3>1. r \in requests /\ Batch = col.batch
      BY ZenonT(60), <2>2, <1>1, <1>5 DEF Batch
    <3>2. task'[r.t] = task[r.t]
      BY ZenonT(60), <2>2, <3>1, <1>7 DEF Recent, Waiting
    <3> QED BY ZenonT(60), <2>2, <3>1, <3>2 DEF Recent, Waiting
  <2> QED BY Zenon, <2>1, <2>2 DEF Waiting
<1>16. Fetched' /\ Missed'
  BY Zenon, <1>14 DEF Fetched, Missed
<1>17. Answered'
  <2> SUFFICES ASSUME NEW u \in Tasks, task'[u].pc = "got"
               PROVE  AnswerFor(u)'
    BY Zenon DEF Answered
  <2>1. CASE task'[u] = task[u]
    <3>1. AnswerFor(u) /\ task[u].pc = "got"
      BY Zenon, <2>1 DEF Recent, Answered
    <3> QED BY ZenonT(60), <2>1, <3>1, <1>5, <1>6, AnswerStays
  <2>2. CASE \E r \in col.batch : r.t = u
    BY Zenon, <2>2, <1>12
  <2> QED BY ZenonT(60), <2>1, <2>2, <1>7
<1> QED BY ZenonT(60), <1>6, <1>10, <1>15, <1>16, <1>17 DEF Recent

\* Everyone who waits for a batch gets an exception.
LEMMA RaiseRecent ==
    ASSUME Inv, Recent, Observe, UNCHANGED <<server, cache, known, raced>>, NEW batch, Raise(batch),
           col'.pc \notin {"fetch", "read", "me"},
           requests' \subseteq requests, \A r \in requests', q \in batch : r.t = q.t => r.t \notin Tasks
    PROVE  Recent'
<1>1. Remembered' /\ Steady
  BY Zenon, SteadyIf DEF Recent
<1>2. \A u \in Tasks : task'[u] = task[u] \/ task'[u] = Idle
  BY ZenonT(60) DEF Raise
<1>3. Idle.pc # "got" /\ Changes(Idle) = {}
  BY Zenon DEF Idle, Changes
<1>4. Waiting'
  <2>1. Batch' = {}
    BY ZenonT(60) DEF Batch
  <2>2. ASSUME NEW r \in requests', r.t \in Tasks
        PROVE  task'[r.t].pc = "get"
    <3>1. task'[r.t] = task[r.t]
      BY Zenon, <2>2 DEF Raise
    <3> QED BY Zenon, <2>2, <3>1 DEF Recent, Waiting
  <2> QED BY Zenon, <2>1, <2>2 DEF Waiting
<1>5. /\ \A u \in Tasks : task'[u] = task[u] \/ Changes(task'[u]) = {}
      /\ \A u \in Tasks : task'[u].pc = "got" => task'[u] = task[u]
  BY ZenonT(60), <1>2, <1>3
<1>6. col'.pc \notin {"fetch", "read"}
  BY Zenon
<1> QED BY ZenonT(60), <1>1, <1>4, <1>5, <1>6, ReaderStep

\* A call for messages fails; its readers go on waiting.
LEMMA FetchFailsRecent ==
    ASSUME Inv, Recent, FetchFails
    PROVE  Recent'
<1>1. /\ col.pc \in {"fetch", "read"} /\ UNCHANGED <<server, cache, known, requests, task, raced>> /\ Observe
      /\ col' = [pc |-> "me", batch |-> col.batch, n |-> col.n]
  BY Zenon DEF FetchFails
<1>2. Remembered' /\ Steady
  BY ZenonT(60), <1>1, SteadyIf DEF Recent
<1>3. col'.pc = "me" /\ col'.batch = col.batch
  BY Zenon, <1>1
<1>4. Batch' = Batch
  BY Zenon, <1>1, <1>3 DEF Batch
<1>5. Waiting'
  BY ZenonT(60), <1>1, <1>4 DEF Recent, Waiting
<1>6. col'.pc \notin {"fetch", "read"} /\ \A u \in Tasks : task'[u] = task[u]
  BY Zenon, <1>1, <1>3
<1> QED BY ZenonT(60), <1>1, <1>2, <1>5, <1>6, ReaderStep

\* The next bot tries, or everyone gets the failure.
LEMMA NextBotRecent ==
    ASSUME Inv, Inv', Recent, NextBot
    PROVE  Recent'
<1>1. col.pc = "me" /\ UNCHANGED <<server, cache, known, requests, raced>> /\ Observe
  BY ZenonT(60) DEF NextBot
<1>2. col.batch \in SUBSET Orders /\ Batch = col.batch
  BY ZenonT(60), <1>1, ColStages DEF Inv, Typed, Batch
<1>3. /\ \A r \in requests' \cup col.batch : r.t \in Tasks => task[r.t].pc = "get"
      /\ \A r \in requests', q \in col.batch : r.t = q.t => r.t \notin Tasks
  BY ZenonT(60), <1>1, <1>2 DEF Recent, Waiting
<1>4. CASE Attempt(col.batch, col.n + 1)
  BY ZenonT(60), <1>1, <1>2, <1>3, <1>4, AttemptRecent
<1>5. CASE Raise(col.batch) /\ col' = IF requests = {} THEN NoCol ELSE [pc |-> "sleep"]
  <2>1. col'.pc \notin {"fetch", "read", "me"} /\ requests' \subseteq requests
    BY Zenon, <1>1, <1>5 DEF NoCol
  <2> QED BY ZenonT(60), <1>1, <1>3, <1>5, <2>1, RaiseRecent
<1> QED BY Zenon, <1>4, <1>5 DEF NextBot

\* The collector dies, and everyone who waits gets the exception.
LEMMA CollectorDiesRecent ==
    ASSUME Inv, Recent, CollectorDies
    PROVE  Recent'
<1>1. /\ UNCHANGED <<server, cache, known, raced>> /\ Observe
      /\ Raise(col.batch \cup requests) /\ requests' = {} /\ col' = NoCol
  BY ZenonT(60) DEF CollectorDies
<1>2. col'.pc \notin {"fetch", "read", "me"} /\ requests' \subseteq requests
  BY Zenon, <1>1 DEF NoCol
<1> QED BY ZenonT(60), <1>1, <1>2, RaiseRecent

\* A cancelled reader's request stands for nobody.
LEMMA CancelRecent ==
    ASSUME Inv, Recent, NEW t \in Tasks, Cancel(t)
    PROVE  Recent'
<1> DEFINE drop(rs) == {[r EXCEPT !.t = IF @ = t THEN Nobody ELSE @] : r \in rs}
<1>1. ASSUME NEW rs \in SUBSET Orders, NEW q \in drop(rs), q.t \in Tasks
      PROVE  \E r \in rs : r.t = q.t /\ r.ids = q.ids /\ r.t # t
  <2>1. PICK r \in rs : q = [r EXCEPT !.t = IF @ = t THEN Nobody ELSE @]
    BY Zenon, <1>1
  <2>2. r \in [ids : SUBSET Ids, t : Tasks \cup {Nobody}]
    BY Zenon, <2>1 DEF Orders
  <2>3. q.ids = r.ids /\ q.t = IF r.t = t THEN Nobody ELSE r.t
    BY Zenon, <2>1, <2>2
  <2> QED BY ZenonT(60), <1>1, <2>3, NobodyAssumption
<1>2. /\ UNCHANGED <<server, cache, known, raced>> /\ Observe /\ Goto(t, Idle) /\ task[t].pc = "get"
      /\ requests' = drop(requests)
      /\ col' = IF col.pc \in {"none", "sleep"} THEN col ELSE [col EXCEPT !.batch = drop(@)]
  BY Zenon DEF Cancel
<1>3. requests \in SUBSET Orders /\ col \in Cols
  BY ZenonT(60) DEF Inv, Typed
<1> HIDE DEF drop
<1>4. \/ col' = col /\ col.pc \notin {"fetch", "read", "me"}
      \/ col.pc \in {"fetch", "read", "me"} /\ col' = [col EXCEPT !.batch = drop(col.batch)]
  BY Zenon, <1>2, <1>3 DEF Cols, NoCol
<1>5. ASSUME col.pc \in {"fetch", "read", "me"}, col' = [col EXCEPT !.batch = drop(col.batch)]
      PROVE  /\ col'.pc = col.pc /\ col'.batch = drop(col.batch) /\ col.batch \in SUBSET Orders
             /\ col.pc = "fetch" => col'.want = col.want
             /\ col.pc = "read" => col'.got = col.got
  <2>1. CASE col.pc = "fetch"
    BY ZenonT(60), <1>5, <2>1, <1>3, ColStages
  <2>2. CASE col.pc = "read"
    BY ZenonT(60), <1>5, <2>2, <1>3, ColStages
  <2>3. CASE col.pc = "me"
    BY ZenonT(60), <1>5, <2>3, <1>3, ColStages
  <2> QED BY ZenonT(60), <1>5, <2>1, <2>2, <2>3
<1>6. ASSUME NEW q \in Batch', q.t \in Tasks
      PROVE  \E r \in Batch : r.t = q.t /\ r.ids = q.ids /\ r.t # t
  <2>1. q \in drop(col.batch) /\ col.batch \in SUBSET Orders /\ Batch = col.batch
    BY ZenonT(60), <1>4, <1>5, <1>6 DEF Batch
  <2> QED BY Zenon, <1>1, <1>6, <2>1
<1>7. ASSUME NEW q \in requests', q.t \in Tasks
      PROVE  \E r \in requests : r.t = q.t /\ r.t # t
  <2>1. \E r \in requests : r.t = q.t /\ r.ids = q.ids /\ r.t # t
    BY ZenonT(60), <1>1, <1>2, <1>3, <1>7
  <2> QED BY Zenon, <2>1
<1>8. /\ \A u \in Tasks : u # t => task'[u] = task[u]
      /\ task'[t] = Idle
  BY ZenonT(60), <1>2 DEF Goto, Inv, Typed
<1>9. Waiting'
  <2>1. ASSUME NEW q \in requests' \cup Batch', q.t \in Tasks
        PROVE  task'[q.t].pc = "get"
    <3>1. PICK r \in requests \cup Batch : r.t = q.t /\ r.t # t
      BY ZenonT(60), <1>6, <1>7, <2>1
    <3>2. task[q.t].pc = "get"
      BY Zenon, <2>1, <3>1 DEF Recent, Waiting
    <3> QED BY ZenonT(60), <1>8, <2>1, <3>1, <3>2
  <2>2. ASSUME NEW p \in requests', NEW q \in Batch', p.t = q.t, p.t \in Tasks
        PROVE  FALSE
    <3>1. PICK r \in requests : r.t = p.t
      BY ZenonT(60), <1>7, <2>2
    <3>2. PICK o \in Batch : o.t = q.t
      BY ZenonT(60), <1>6, <2>2
    <3> QED BY ZenonT(60), <2>2, <3>1, <3>2 DEF Recent, Waiting
  <2> QED BY Zenon, <2>1, <2>2 DEF Waiting
<1>10. Remembered' /\ Steady
  BY ZenonT(60), <1>2, SteadyIf DEF Recent
<1>11. Idle.pc # "got" /\ Changes(Idle) = {}
  BY Zenon DEF Idle, Changes
<1>12. /\ \A u \in Tasks : task'[u] = task[u] \/ Changes(task'[u]) = {}
       /\ \A u \in Tasks : task'[u].pc = "got" => task'[u] = task[u]
  BY Zenon, <1>8, <1>11
<1>13. ASSUME col'.pc \in {"fetch", "read"}
       PROVE  /\ col'.pc = col.pc
              /\ col.pc = "fetch" => col'.want = col.want
              /\ col.pc = "read" => col'.got = col.got
              /\ \A q \in col'.batch : q.t \in Tasks => \E r \in col.batch : r.t = q.t /\ r.ids = q.ids
  <2>1. col' = [col EXCEPT !.batch = drop(col.batch)] /\ col.pc \in {"fetch", "read", "me"}
    BY ZenonT(60), <1>4, <1>13
  <2>2. Batch' = col'.batch /\ Batch = col.batch
    BY Zenon, <1>13, <2>1 DEF Batch
  <2>3. \A q \in col'.batch : q.t \in Tasks => \E r \in col.batch : r.t = q.t /\ r.ids = q.ids
    BY Zenon, <1>6, <2>2
  <2> QED BY ZenonT(60), <1>5, <2>1, <2>3
<1> QED BY ZenonT(60), <1>2, <1>9, <1>10, <1>12, <1>13, ReaderStep

\* The message of a document enters a cache that stays fresh.
LEMMA ReadFresh ==
    ASSUME Inv, Recent, server' = server, NEW d \in Ids, ReadDocument(d) \/ UNCHANGED <<cache, raced>>,
           \A u \in Tasks : task'[u] = task[u] \/ Changes(task'[u]) = {}
    PROVE  Fresh' /\ raced \subseteq raced'
<1>1. CASE UNCHANGED <<cache, raced>>
  BY ZenonT(60), <1>1, FreshIf
<1>2. CASE /\ cache' \in Stored(cache, [m \in {d} |-> server[d]])
           /\ raced' = raced \cup ({d} \cap Changing) /\ ReadDocument(d)
  <2> SUFFICES ASSUME NEW m \in Ids \ raced', Has(cache', m)
               PROVE  cache'[m] = server'[m] /\ \A u \in Tasks : m \notin Changes(task'[u])
    BY Zenon, <1>2 DEF Fresh
  <2>1. m \notin raced /\ m \notin {d} \cap Changing
    BY Zenon, <1>2
  <2>2. \/ cache'[m] = cache[m] \/ cache'[m] = Unknown
        \/ m = d /\ cache'[m] = server[d]
    BY Zenon, <1>2, ReadDocumentFacts
  <2>3. CASE m = d /\ cache'[m] = server[d]
    <3>1. \A u \in Tasks : m \notin Changes(task[u])
      BY ZenonT(60), <2>1, <2>3 DEF Changing
    <3> QED BY ZenonT(60), <2>3, <3>1
  <2>4. CASE cache'[m] = cache[m]
    <3>1. Has(cache, m)
      BY Zenon, <2>4 DEF Has
    <3>2. cache[m] = server[m] /\ \A u \in Tasks : m \notin Changes(task[u])
      BY ZenonT(60), <2>1, <3>1 DEF Recent, Fresh
    <3> QED BY ZenonT(60), <2>4, <3>2
  <2>5. cache'[m] # Unknown
    BY Zenon, Marked DEF Has
  <2> QED BY Zenon, <2>2, <2>3, <2>4, <2>5
<1> QED BY ZenonT(60), <1>1, <1>2 DEF ReadDocument

\* A download of a file's content tells no reader anything.
LEMMA DownloadRecent ==
    ASSUME Inv, Recent, NEW d \in Ids, Download(d)
    PROVE  Recent'
<1>1. UNCHANGED <<server, known, requests, col, task>> /\ Observe /\ ReadDocument(d)
  BY Zenon DEF Download
<1>2. Remembered' /\ Steady
  BY ZenonT(60), <1>1, SteadyIf DEF Recent
<1>3. Waiting'
  BY ZenonT(60), <1>1 DEF Recent, Waiting, Batch
<1>4. \A u \in Tasks : task'[u] = task[u]
  BY Zenon, <1>1
<1>5. Fresh' /\ raced \subseteq raced'
  BY ZenonT(60), <1>1, <1>4, ReadFresh
<1>6. col' = col
  BY Zenon, <1>1
<1> QED BY ZenonT(60), <1>1, <1>2, <1>3, <1>4, <1>5, <1>6, ReaderMoves

\* The text of a marker's document, from memory or from Telegram, is what the
\* message said; a document that cannot be read makes the answer lossy.
LEMMA ResolveRecent ==
    ASSUME Inv, Recent, NEW t \in Tasks, Resolve(t)
    PROVE  Recent'
<1>1. PICK k : k = task[t]
  BY Zenon
<1>2. k \in Gots /\ k.pc = "got"
  BY ZenonT(60), <1>1, Stages DEF Inv, Typed, Resolve
<1>3. PICK W \in SUBSET Ids :
         /\ k \in [pc : {"got"}, todo : SUBSET W, lossy : BOOLEAN, out : [W -> Nat], doc : [W -> Ids0]]
         /\ \A m \in k.todo : k.doc[m] \in Ids
  BY ZenonT(60), <1>2 DEF Gots
<1>4. PICK m : m = CHOOSE n \in k.todo : TRUE
  BY ZenonT(60)
<1>5. m \in k.todo
  BY Zenon, <1>1, <1>4 DEF Resolve
<1>6. PICK d : d = k.doc[m]
  BY Zenon
<1>7. m \in Ids /\ m \in W /\ d \in Ids
  BY ZenonT(60), <1>3, <1>5, <1>6
<1>8. m = (CHOOSE n \in task[t].todo : TRUE) /\ d = task[t].doc[CHOOSE n \in task[t].todo : TRUE]
  BY ZenonT(60), <1>1, <1>4, <1>6
<1>9. PICK x :
          /\ TextOf(d, x)
          /\ known' = [known EXCEPT ![d] = x]
          /\ Goto(t, [task[t] EXCEPT !.out[m] = x, !.todo = @ \ {m}, !.lossy = @ \/ x = 0])
  <2>1. \E x \in {known[d], server[d].v, 0} :
          /\ TextOf(d, x)
          /\ known' = [known EXCEPT ![d] = x]
          /\ Goto(t, [task[t] EXCEPT !.out[m] = x, !.todo = @ \ {m}, !.lossy = @ \/ x = 0])
    BY ZenonT(60), <1>8 DEF Resolve
  <2> QED BY Zenon, <2>1
<1>10. PICK e : e = [k EXCEPT !.out[m] = x, !.todo = @ \ {m}, !.lossy = @ \/ x = 0]
  BY Zenon
<1>11. /\ e.pc = "got" /\ e.todo = k.todo \ {m} /\ e.lossy = (k.lossy \/ x = 0)
       /\ e.out = [k.out EXCEPT ![m] = x] /\ e.doc = k.doc
  BY Zenon, <1>3, <1>10
<1>12. /\ \A u \in Tasks : u # t => task'[u] = task[u]
       /\ task'[t] = e
  BY ZenonT(60), <1>1, <1>9, <1>10 DEF Goto, Inv, Typed
<1>13. UNCHANGED <<server, requests, col>> /\ Observe
  BY Zenon DEF Resolve
<1>14. known'[d] = x /\ \A c \in Ids : c # d => known'[c] = known[c]
  BY ZenonT(60), <1>7, <1>9 DEF Inv, Typed
<1>15. /\ known[d] # 0 => x = known[d]
       /\ known[d] = 0 => x = 0 \/ (server[d].kind = "doc" /\ x = server[d].v)
  BY Zenon, <1>9 DEF TextOf
<1>16. \A c, v : IsDoc(c, v)' <=> IsDoc(c, v)
  BY ZenonT(60), <1>13 DEF IsDoc
<1>17. ASSUME NEW v, IsDoc(d, v), known[d] \in {0, v}
       PROVE  x \in {0, v}
  <2>1. CASE known[d] # 0
    BY Zenon, <1>15, <1>17, <2>1
  <2>2. CASE server[d].kind = "doc" /\ x = server[d].v
    BY Zenon, <1>17, <2>2 DEF IsDoc
  <2> QED BY Zenon, <1>15, <2>1, <2>2
<1>f. Fresh' /\ raced \subseteq raced'
  <2>1. ReadDocument(d) \/ UNCHANGED <<cache, raced>>
    BY Zenon, <1>9 DEF TextOf
  <2>2. \A u \in Tasks : task'[u] = task[u] \/ Changes(task'[u]) = {}
    BY ZenonT(60), <1>11, <1>12, ChangesFacts
  <2> QED BY ZenonT(60), <1>7, <1>13, <2>1, <2>2, ReadFresh
<1>18. Remembered'
  <2> SUFFICES ASSUME NEW c \in Ids, known'[c] # 0
               PROVE  IsDoc(c, known'[c])
    BY Zenon, <1>16 DEF Remembered
  <2>1. CASE c # d \/ known[d] # 0
    <3>1. known'[c] = known[c]
      BY ZenonT(60), <1>14, <1>15, <2>1
    <3> QED BY Zenon, <3>1 DEF Recent, Remembered
  <2>2. CASE c = d /\ known[d] = 0
    BY ZenonT(60), <1>14, <1>15, <2>2 DEF IsDoc
  <2> QED BY Zenon, <2>1, <2>2
<1>19. Steady
  <2> SUFFICES ASSUME NEW c \in Ids, NEW v, IsDoc(c, v), known[c] \in {0, v}
               PROVE  known'[c] \in {0, v}
    BY Zenon, <1>16 DEF Steady
  <2>1. CASE c # d
    BY ZenonT(60), <1>14, <2>1
  <2>2. CASE c = d
    BY ZenonT(60), <1>14, <1>17, <2>2
  <2> QED BY ZenonT(60), <2>1, <2>2
<1>20. AnswerFor(t)
  BY ZenonT(60), <1>1, <1>2 DEF Recent, Answered
<1>21. AnswerFor(t)'
  <2> SUFFICES ASSUME NEW n \in Ids \ raced', n \in DOMAIN e.out
               PROVE  /\ n \in e.todo => Sourced(t, n)'
                      /\ n \notin e.todo => Right(t, n)'
    BY ZenonT(60), <1>12 DEF AnswerFor
  <2>0. n \in Ids \ raced
    BY Zenon, <1>f
  <2>1. n \in W /\ n \in DOMAIN k.out
    BY Zenon, <1>3, <1>11
  <2>2. seen[t][n] \subseteq seen'[t][n]
    BY ZenonT(60), <1>11, <1>12, <1>13, Observed DEF Reading
  <2>3. CASE n = m
    <3>1. PICK v \in seen[t][m] : known[d] \in {0, v} /\ IsDoc(d, v)
      BY ZenonT(60), <1>1, <1>5, <1>6, <1>20, <2>0, <2>1, <2>3 DEF AnswerFor, Sourced
    <3>2. x \in {0, v} /\ v \in seen'[t][m]
      BY ZenonT(60), <1>17, <2>2, <2>3, <3>1
    <3>3. e.out[m] = x /\ m \notin e.todo
      BY ZenonT(60), <1>3, <1>7, <1>11
    <3>4. x = 0 => e.lossy
      BY Zenon, <1>11
    <3> QED BY ZenonT(60), <1>12, <2>3, <3>2, <3>3, <3>4 DEF Right
  <2>4. CASE n # m /\ n \in k.todo
    <3>1. PICK v \in seen[t][n] : known[k.doc[n]] \in {0, v} /\ IsDoc(k.doc[n], v)
      BY ZenonT(60), <1>1, <1>20, <2>0, <2>1, <2>4 DEF AnswerFor, Sourced
    <3>2. k.doc[n] \in Ids
      BY ZenonT(60), <1>3, <2>4
    <3>3. known'[k.doc[n]] \in {0, v} /\ IsDoc(k.doc[n], v)'
      BY ZenonT(60), <1>19, <3>1, <3>2 DEF Steady, IsDoc
    <3>4. task'[t].doc[n] = k.doc[n] /\ n \in e.todo /\ v \in seen'[t][n]
      BY ZenonT(60), <1>11, <1>12, <2>2, <2>4, <3>1
    <3>5. IsDoc(task[t].doc[n], v)'
      BY ZenonT(60), <3>3, <3>4 DEF IsDoc
    <3> QED BY ZenonT(60), <3>3, <3>4, <3>5 DEF Sourced
  <2>5. CASE n # m /\ n \notin k.todo
    <3>1. k.out[n] \in seen[t][n] \/ (k.lossy /\ k.out[n] = 0)
      BY ZenonT(60), <1>1, <1>20, <2>0, <2>1, <2>5 DEF AnswerFor, Right
    <3>2. e.out[n] = k.out[n] /\ (k.lossy => e.lossy) /\ n \notin e.todo
      BY ZenonT(60), <1>3, <1>11, <2>1, <2>5
    <3> QED BY ZenonT(60), <1>12, <2>2, <3>1, <3>2 DEF Right
  <2> QED BY ZenonT(60), <2>3, <2>4, <2>5
<1>22. k.pc # "get" /\ Changes(e) = {}
  BY ZenonT(60), <1>2, <1>11, ChangesFacts
<1>23. Waiting'
  <2>1. Batch' = Batch /\ requests' = requests
    BY Zenon, <1>13 DEF Batch
  <2>2. \A u \in Tasks : task[u].pc = "get" => task'[u].pc = "get"
    BY ZenonT(60), <1>1, <1>12, <1>22
  <2> QED BY Zenon, <2>1, <2>2 DEF Recent, Waiting
<1>24. /\ \A u \in Tasks : task'[u].pc = "got" => task'[u] = task[u] \/ AnswerFor(u)'
       /\ col' = col
  BY ZenonT(60), <1>12, <1>13, <1>21, <1>22
<1> QED BY ZenonT(60), <1>13, <1>f, <1>18, <1>19, <1>23, <1>24, ReaderMoves

\* At the start the cache is empty and nobody reads.
LEMMA InitRecent == Init => Recent
<1> SUFFICES ASSUME Init
             PROVE  Recent
  BY Zenon
<1>1. requests = {} /\ col = NoCol /\ \A t \in Tasks : task[t] = Idle
  BY ZenonT(60) DEF Init
<1>2. col.pc \notin {"fetch", "read", "me"} /\ Idle.pc # "got"
  BY Zenon, <1>1 DEF NoCol, Idle
<1>3. Batch = {}
  BY Zenon, <1>2 DEF Batch
<1>4. \A m \in Ids : cache[m] = Unknown /\ known[m] = 0
  BY Zenon DEF Init
<1>f. \A m \in Ids : ~Has(cache, m)
  BY Zenon, <1>4, Marked DEF Has
<1>5. Waiting /\ Fresh /\ Remembered
  BY ZenonT(60), <1>1, <1>3, <1>4, <1>f DEF Waiting, Fresh, Remembered
<1>6. Fetched /\ Missed /\ Answered
  BY Zenon, <1>1, <1>2 DEF Fetched, Missed, Answered
<1> QED BY Zenon, <1>5, <1>6 DEF Recent

\* No step tells a reader what the message did not say.
LEMMA NextRecent == Inv /\ Inv' /\ Recent /\ [Next]_vars => Recent'
<1> SUFFICES ASSUME Inv, Inv', Recent, [Next]_vars
             PROVE  Recent'
  BY Zenon
<1>1. CASE UNCHANGED vars
  <2>1. Waiting' /\ Fresh'
    BY ZenonT(60), <1>1 DEF vars, Recent, Waiting, Batch, Fresh, Has
  <2>2. Fetched' /\ Missed'
    BY Zenon, <1>1 DEF vars, Recent, Fetched, Missed, Has
  <2>3. Remembered'
    BY Zenon, <1>1, SteadyIf DEF vars, Recent
  <2>4. Answered'
    <3> SUFFICES ASSUME NEW u \in Tasks, task'[u].pc = "got"
                 PROVE  AnswerFor(u)'
      BY Zenon DEF Answered
    <3>1. AnswerFor(u)
      BY ZenonT(60), <1>1 DEF vars, Recent, Answered
    <3>2. \A m : (Sourced(u, m)' <=> Sourced(u, m)) /\ (Right(u, m)' <=> Right(u, m))
      BY ZenonT(60), <1>1 DEF vars, Sourced, Right, IsDoc
    <3> QED BY Zenon, <1>1, <3>1, <3>2 DEF vars, AnswerFor
  <2> QED BY ZenonT(60), <2>1, <2>2, <2>3, <2>4 DEF Recent
<1>2. CASE Collector
  BY ZenonT(60), <1>2, FlushRecent, ServerReadsRecent, FetchReplyRecent, FetchFailsRecent, NextBotRecent,
     CollectorDiesRecent DEF Collector
<1>3. ASSUME NEW t \in Tasks, Request(t)
      PROVE  Recent'
  <2>1. ASSUME NEW x \in Texts, NEW m \in Messages, EditBegin(t, m, x)
        PROVE  Recent'
    <3>1. m \in Ids
      BY Zenon, TelegramTextAssumption DEF Messages
    <3> QED BY ZenonT(60), <2>1, <3>1, EditBeginRecent
  <2>2. ASSUME NEW ids \in Reads, GetBegin(t, ids)
        PROVE  Recent'
    <3>1. ids \in SUBSET Ids
      BY Zenon, TelegramTextAssumption
    <3> QED BY Zenon, <2>2, <3>1, GetBeginRecent
  <2> QED BY ZenonT(60), <1>3, <2>1, <2>2, SendBeginRecent, DeleteBeginRecent DEF Request
<1>4. ASSUME NEW t \in Tasks, EditFails(t) \/ Return(t)
      PROVE  Recent'
  <2>1. /\ Goto(t, Idle) /\ UNCHANGED <<server, cache, known, raced, col, requests>> /\ Observe
        /\ task[t].pc \in {"edit", "edited", "got"}
    BY ZenonT(60), <1>4 DEF EditFails, Return
  <2>2. task[t].pc # "get"
    BY Zenon, <2>1
  <2> QED BY ZenonT(60), <2>1, <2>2, IdleRecent
<1>5. ASSUME NEW t \in Tasks, Continue(t)
      PROVE  Recent'
  BY ZenonT(60), <1>4, <1>5, UploadedRecent, SentRecent, EditLandsRecent, EditDoneRecent, DeleteDoneRecent,
     ResolveRecent, CancelRecent DEF Continue
<1>6. ASSUME NEW d \in Files, Download(d)
      PROVE  Recent'
  <2>1. d \in Ids
    BY Zenon, TelegramTextAssumption
  <2> QED BY Zenon, <1>6, <2>1, DownloadRecent
<1> QED BY ZenonT(60), <1>1, <1>2, <1>3, <1>5, <1>6 DEF Next

\* A read answers what the message said at some moment of the read, but for
\* the races and losses ReadsAreRecent names: the client forgets a message
\* before it asks Telegram to change it, and the broker answers a batch from
\* the cache that the batch's own fetch has filled.
THEOREM ReadsKept == Spec => []ReadsAreRecent
<1>1. Inv /\ Recent => ReadsAreRecent
  <2> SUFFICES ASSUME Inv, Recent, NEW t \in Tasks, task[t].pc = "got", task[t].todo = {},
                      NEW m \in DOMAIN task[t].out \ raced
               PROVE  Right(t, m)
    BY Zenon DEF ReadsAreRecent, Right
  <2>1. task[t] \in Gots
    BY ZenonT(60), Stages DEF Inv, Typed
  <2>2. m \in Ids
    BY SMTT(60), Z3T(60), <2>1 DEF Gots
  <2> QED BY Zenon, <2>2 DEF Recent, Answered, AnswerFor
<1> QED BY <1>1, InitRecent, NextRecent, Invariance, PTL DEF Spec

=============================================================================
