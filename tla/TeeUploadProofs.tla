--------------------------- MODULE TeeUploadProofs ---------------------------
(***************************************************************************)
(* Proofs about TeeUpload for any number of mirrors, any size of the       *)
(* upload and of the branches, and any sizes of the primary's reads.       *)
(*                                                                         *)
(* The inductive invariant has three parts.  Flow: the chunks a mirror     *)
(* took and those that wait for it follow each other, and the counters     *)
(* agree with them.  Fed: an attached branch has been fed up to where the  *)
(* producer is.  Settled: what collect() and abort() know about the tasks  *)
(* they have passed.                                                       *)
(***************************************************************************)
EXTENDS TeeUpload, SequenceTheorems, TLAPS

\* The chunks of s follow each other and the byte e.
Follows(s, e) == \A i \in 1 .. Len(s) :
    /\ s[i].from = IF i = 1 THEN e + 1 ELSE s[i - 1].to + 1
    /\ s[i].from <= s[i].to /\ s[i].to <= s[Len(s)].to

EndOf(s, e) == IF s = <<>> THEN e ELSE s[Len(s)].to

\* What mirror m got (g, t bytes) and what waits for it (q, b bytes).
Flow(g, t, q, b) ==
    /\ Follows(g, 0) /\ t = EndOf(g, 0)
    /\ Follows(q, t) /\ b = EndOf(q, t) - t
    /\ b <= Capacity \/ Len(q) = 1

Aborted == prod \in {"abort", "cancel", "gather", "failed"}

Typed ==
    /\ prod \in {"idle", "feed", "asleep", "finish", "close", "collect", "abort",
                 "cancel", "gather", "done", "failed"}
    /\ at \in Mirrors /\ pos \in 0 .. Total /\ chunk \in Chunks
    /\ queue \in [Mirrors -> Seq(Chunks)] /\ buffered \in [Mirrors -> Int]
    /\ eof \in [Mirrors -> BOOLEAN] /\ detached \in [Mirrors -> BOOLEAN]
    /\ task \in [Mirrors -> {"run", "asleep", "closing", "ended"}]
    /\ outcome \in [Mirrors -> {"none", "ok", "failed"}]
    /\ taken \in [Mirrors -> Int] /\ got \in [Mirrors -> Seq(Chunks)]

Flows == \A m \in Mirrors : Flow(got[m], taken[m], queue[m], buffered[m])

Fed ==
    /\ prod \in {"feed", "asleep"} => chunk.to = pos /\ chunk.from <= chunk.to
    /\ \A m \in Mirrors : detached[m] => queue[m] = <<>>
    /\ \A m \in Mirrors : ~detached[m] /\ ~Aborted => EndOf(queue[m], taken[m]) = FedTo(m)

Settled ==
    /\ \A m \in Mirrors : outcome[m] = "ok" => taken[m] >= Total
    /\ prod = "collect" => \A m \in Mirrors : m < at => task[m] = "ended"
    /\ prod \in {"done", "failed"} => \A m \in Mirrors : task[m] = "ended"

IInv == Typed /\ Flows /\ Fed /\ Settled

-----------------------------------------------------------------------------
(* Sequences of chunks.                                                    *)

\* The end of a sequence of chunks is one of their ends.
LEMMA EndType ==
    ASSUME NEW s \in Seq(Chunks), NEW e \in 0 .. Total
    PROVE  EndOf(s, e) \in 0 .. Total
<1>1. CASE s = <<>>
  BY Zenon, <1>1 DEF EndOf
<1>2. CASE s # <<>>
  <2>1. Len(s) \in 1 .. Len(s)
    BY SMTT(60), Z3T(60), <1>2, EmptySeq
  <2>2. s[Len(s)] \in Chunks
    BY Zenon, <2>1, ElementOfSeq
  <2> QED BY SMTT(60), Z3T(60), <1>2, <2>2, TeeAssumption DEF EndOf, Chunks
<1> QED BY Zenon, <1>1, <1>2

\* It is an integer when the byte before them is.
LEMMA EndInt ==
    ASSUME NEW s \in Seq(Chunks), NEW e \in Int
    PROVE  EndOf(s, e) \in Int
<1>1. CASE s = <<>>
  BY Zenon, <1>1 DEF EndOf
<1>2. CASE s # <<>>
  <2>1. Len(s) \in 1 .. Len(s)
    BY SMTT(60), Z3T(60), <1>2, EmptySeq
  <2>2. s[Len(s)] \in Chunks
    BY Zenon, <2>1, ElementOfSeq
  <2> QED BY SMTT(60), Z3T(60), <1>2, <2>2, TeeAssumption DEF EndOf, Chunks
<1> QED BY Zenon, <1>1, <1>2

\* The bounds of a chunk and its length are integers.
LEMMA ChunkInts ==
    ASSUME NEW c \in Chunks
    PROVE  /\ c.from \in Int /\ c.to \in Int
           /\ Length(c) \in Int /\ Length(c) = (c.to - c.from) + 1
BY SMTT(60), Z3T(60), TeeAssumption DEF Chunks, Length

\* One more chunk in the right place.
LEMMA FollowsAppend ==
    ASSUME NEW s \in Seq(Chunks), NEW e \in Int, NEW c \in Chunks,
           Follows(s, e), c.from = EndOf(s, e) + 1, c.from <= c.to
    PROVE  Follows(Append(s, c), e) /\ EndOf(Append(s, c), e) = c.to
<1> DEFINE a == Append(s, c)
<1>1. /\ Len(a) = Len(s) + 1 /\ Len(s) \in Nat /\ a # <<>>
      /\ \A i \in 1 .. Len(s) : a[i] = s[i]
      /\ a[Len(s) + 1] = c
  BY SMTT(60), Z3T(60), AppendProperties, LenProperties
<1>2. EndOf(a, e) = c.to
  BY Zenon, <1>1 DEF EndOf
<1>3. ASSUME NEW i \in 1 .. Len(a)
      PROVE  /\ a[i].from = IF i = 1 THEN e + 1 ELSE a[i - 1].to + 1
             /\ a[i].from <= a[i].to /\ a[i].to <= c.to
  <2>1. CASE i <= Len(s)
    <3>1. i \in 1 .. Len(s) /\ (i # 1 => i - 1 \in 1 .. Len(s))
      BY SMTT(60), Z3T(60), <1>1, <1>3, <2>1
    <3>2. a[i].to <= c.to
      <4>1. s # <<>> /\ EndOf(s, e) = s[Len(s)].to
        BY SMTT(60), Z3T(60), <3>1 DEF EndOf
      <4>2. s[i] \in Chunks /\ s[Len(s)] \in Chunks
        BY SMTT(60), Z3T(60), <3>1, ElementOfSeq
      <4>3. s[i].to <= s[Len(s)].to
        BY Zenon, <3>1 DEF Follows
      <4>4. s[i].to \in Int /\ s[Len(s)].to \in Int /\ c.to \in Int /\ c.from \in Int
        BY Zenon, <4>2, ChunkInts
      <4>5. a[i] = s[i]
        BY Zenon, <1>1, <3>1
      <4>6. c.from = s[Len(s)].to + 1
        BY Zenon, <4>1
      <4> QED BY SMTT(60), Z3T(60), <4>3, <4>4, <4>5, <4>6
    <3> QED BY Zenon, <3>1, <3>2, <1>1 DEF Follows
  <2>2. CASE i = Len(s) + 1
    <3> c.to \in Int
      BY SMTT(60), Z3T(60), TeeAssumption DEF Chunks
    <3>1. CASE s = <<>>
      BY SMTT(60), Z3T(60), <1>1, <2>2, <3>1 DEF EndOf
    <3>2. CASE s # <<>>
      <4>1. Len(s) \in 1 .. Len(s) /\ i # 1 /\ i - 1 = Len(s)
        BY SMTT(60), Z3T(60), <2>2, <3>2, <1>1, EmptySeq
      <4> QED BY SMTT(60), Z3T(60), <1>1, <2>2, <3>2, <4>1 DEF EndOf
    <3> QED BY Zenon, <3>1, <3>2
  <2> QED BY SMTT(60), Z3T(60), <1>1, <1>3, <2>1, <2>2
<1> QED BY Zenon, <1>1, <1>2, <1>3 DEF Follows

\* The rest of a sequence follows its first chunk.
LEMMA FollowsTail ==
    ASSUME NEW s \in Seq(Chunks), NEW e \in Int, Follows(s, e), s # <<>>
    PROVE  /\ Head(s) \in Chunks /\ Tail(s) \in Seq(Chunks)
           /\ Head(s).from = e + 1 /\ Head(s).from <= Head(s).to
           /\ Head(s).to <= EndOf(s, e)
           /\ Follows(Tail(s), Head(s).to)
           /\ EndOf(Tail(s), Head(s).to) = EndOf(s, e)
           /\ Len(Tail(s)) = Len(s) - 1 /\ (Len(s) = 1 => Tail(s) = <<>>)
<1> DEFINE t == Tail(s)
<1>1. /\ Len(s) \in Nat \ {0} /\ Len(t) = Len(s) - 1 /\ t \in Seq(Chunks)
      /\ \A i \in 1 .. Len(t) : t[i] = s[i + 1]
      /\ Head(s) = s[1] /\ s[1] \in Chunks
  BY SMTT(60), Z3T(60), HeadTailProperties, EmptySeq, ElementOfSeq
<1> HIDE DEF t
<1>2. Head(s).from = e + 1 /\ Head(s).from <= Head(s).to /\ Head(s).to <= EndOf(s, e)
  BY SMTT(60), Z3T(60), <1>1 DEF Follows, EndOf
<1>3. ASSUME NEW i \in 1 .. Len(t)
      PROVE  /\ t[i].from = IF i = 1 THEN Head(s).to + 1 ELSE t[i - 1].to + 1
             /\ t[i].from <= t[i].to /\ t[i].to <= t[Len(t)].to
  <2>1. /\ i + 1 \in 1 .. Len(s) /\ i + 1 # 1 /\ (i + 1) - 1 = i
        /\ (i # 1 => i - 1 \in 1 .. Len(t) /\ (i - 1) + 1 = i)
        /\ Len(t) \in 1 .. Len(t) /\ Len(t) + 1 = Len(s)
    BY SMTT(60), Z3T(60), <1>1, <1>3
  <2>2. /\ s[i + 1].from = s[i].to + 1 /\ s[i + 1].from <= s[i + 1].to
        /\ s[i + 1].to <= s[Len(s)].to
    BY Zenon, <2>1 DEF Follows
  <2> QED BY Zenon, <1>1, <2>1, <2>2
<1>4. t # <<>> => Len(t) \in Nat \ {0}
  BY Zenon, <1>1, EmptySeq
<1>5. EndOf(t, Head(s).to) = EndOf(s, e)
  <2>1. CASE t = <<>>
    <3>1. Len(t) = 0
      BY Zenon, <2>1
    <3>2. Len(s) = 1
      BY SMTT(60), Z3T(60), <1>1, <3>1
    <3> QED BY Zenon, <1>1, <2>1, <3>2 DEF EndOf
  <2>2. CASE t # <<>>
    <3>1. Len(t) \in 1 .. Len(t) /\ Len(t) + 1 = Len(s)
      BY SMTT(60), Z3T(60), <1>1, <2>2, EmptySeq
    <3> QED BY Zenon, <1>1, <2>2, <3>1 DEF EndOf
  <2> QED BY Zenon, <2>1, <2>2
<1>6. Follows(t, Head(s).to)
  BY Zenon, <1>3 DEF Follows
<1> QED BY SMTT(60), Z3T(60), <1>1, <1>2, <1>4, <1>5, <1>6 DEF t

\* Two sequences that follow each other have no gap between them.
LEMMA FollowsConsecutive ==
    ASSUME NEW g \in Seq(Chunks), NEW q \in Seq(Chunks),
           Follows(g, 0), Follows(q, EndOf(g, 0))
    PROVE  Consecutive(g \o q) /\ EndOf(g \o q, 0) = EndOf(q, EndOf(g, 0))
<1> DEFINE a == g \o q
<1>1. /\ a \in Seq(Chunks) /\ Len(a) = Len(g) + Len(q) /\ Len(g) \in Nat /\ Len(q) \in Nat
      /\ \A i \in 1 .. Len(a) : a[i] = IF i <= Len(g) THEN g[i] ELSE q[i - Len(g)]
  BY ZenonT(60), ConcatProperties, LenProperties
<1>2. ASSUME NEW i \in 1 .. Len(a)
      PROVE  a[i].from = IF i = 1 THEN 1 ELSE a[i - 1].to + 1
  <2>1. CASE i <= Len(g)
    <3>1. i \in 1 .. Len(g) /\ (i # 1 => i - 1 \in 1 .. Len(g) /\ i - 1 \in 1 .. Len(a))
      BY SMTT(60), Z3T(60), <1>1, <1>2, <2>1
    <3> QED BY SMTT(60), Z3T(60), <1>1, <2>1, <3>1 DEF Follows
  <2>2. CASE i = Len(g) + 1
    <3>1. 1 \in 1 .. Len(q) /\ a[i] = q[1]
      BY SMTT(60), Z3T(60), <1>1, <1>2, <2>2
    <3>2. q[1].from = EndOf(g, 0) + 1
      BY Zenon, <3>1 DEF Follows
    <3>3. CASE g = <<>>
      BY SMTT(60), Z3T(60), <1>1, <2>2, <3>1, <3>2, <3>3 DEF EndOf
    <3>4. CASE g # <<>>
      <4>1. i # 1 /\ i - 1 = Len(g) /\ Len(g) \in 1 .. Len(a)
        BY SMTT(60), Z3T(60), <1>1, <2>2, <3>4, EmptySeq
      <4>2. a[i - 1] = g[Len(g)]
        BY SMTT(60), Z3T(60), <4>1, <1>1
      <4> QED BY Zenon, <3>1, <3>2, <3>4, <4>1, <4>2 DEF EndOf
    <3> QED BY Zenon, <3>3, <3>4
  <2>3. CASE i > Len(g) + 1
    <3>1. /\ i - Len(g) \in 1 .. Len(q) /\ i - Len(g) # 1
          /\ i - 1 \in 1 .. Len(a) /\ i # 1 /\ (i - 1) - Len(g) = (i - Len(g)) - 1
          /\ ~(i <= Len(g)) /\ ~(i - 1 <= Len(g))
      BY SMTT(60), Z3T(60), <1>1, <1>2, <2>3
    <3>2. a[i] = q[i - Len(g)] /\ a[i - 1] = q[(i - Len(g)) - 1]
      BY Zenon, <1>1, <1>2, <3>1
    <3>3. q[i - Len(g)].from = q[(i - Len(g)) - 1].to + 1
      BY Zenon, <3>1 DEF Follows
    <3> QED BY Zenon, <3>1, <3>2, <3>3
  <2>4. i <= Len(g) \/ i = Len(g) + 1 \/ i > Len(g) + 1
    BY SMTT(60), Z3T(60), <1>1, <1>2
  <2> QED BY Zenon, <2>1, <2>2, <2>3, <2>4
<1>3. EndOf(a, 0) = EndOf(q, EndOf(g, 0))
  <2>1. CASE q = <<>>
    BY Zenon, <2>1, ConcatEmptySeq DEF EndOf
  <2>2. CASE q # <<>>
    <3>1. Len(q) \in Nat \ {0} /\ Len(a) \in 1 .. Len(a) /\ a # <<>>
      BY SMTT(60), Z3T(60), <1>1, <2>2, EmptySeq
    <3>2. a[Len(a)] = q[Len(q)]
      BY SMTT(60), Z3T(60), <1>1, <3>1
    <3> QED BY Zenon, <2>2, <3>1, <3>2 DEF EndOf
  <2> QED BY Zenon, <2>1, <2>2
<1> QED BY Zenon, <1>2, <1>3 DEF Consecutive

\* A chunk is queued.
LEMMA FlowAppend ==
    ASSUME NEW g \in Seq(Chunks), NEW t \in Int, NEW q \in Seq(Chunks), NEW b \in Int,
           NEW c \in Chunks, Flow(g, t, q, b),
           c.from = EndOf(q, t) + 1, c.from <= c.to,
           b = 0 \/ b + Length(c) <= Capacity
    PROVE  /\ Flow(g, t, Append(q, c), b + Length(c))
           /\ EndOf(Append(q, c), t) = c.to
<1>1. Follows(q, t) /\ b = EndOf(q, t) - t
  BY Zenon DEF Flow
<1>2. Follows(Append(q, c), t) /\ EndOf(Append(q, c), t) = c.to
  BY Zenon, <1>1, FollowsAppend
<1>3. /\ EndOf(q, t) \in Int /\ c.from \in Int /\ c.to \in Int
      /\ Length(c) \in Int /\ Length(c) = (c.to - c.from) + 1
  BY Zenon, EndInt, ChunkInts
<1>4. b + Length(c) = c.to - t
  <2> DEFINE e == EndOf(q, t)
             n == Length(c)
             f == c.from
             u == c.to
  <2>1. e \in Int /\ f \in Int /\ u \in Int /\ n \in Int
    BY Zenon, <1>3
  <2>2. n = (u - f) + 1 /\ f = e + 1 /\ b = e - t
    BY Zenon, <1>1, <1>3
  <2> HIDE DEF e, n, f, u
  <2>3. b + n = u - t
    BY SMTT(60), Z3T(60), <2>1, <2>2
  <2> QED BY Zenon, <2>3 DEF n, u
<1>5. b + Length(c) <= Capacity \/ Len(Append(q, c)) = 1
  <2>1. CASE b + Length(c) <= Capacity
    BY Zenon, <2>1
  <2>2. CASE b = 0
    <3>1. q = <<>>
      <4>1. SUFFICES ASSUME q # <<>> PROVE FALSE
        BY Zenon
      <4>2. /\ Head(q).from = t + 1 /\ Head(q).from <= Head(q).to
            /\ Head(q) \in Chunks /\ Head(q).to <= EndOf(q, t)
        BY Zenon, <1>1, <4>1, FollowsTail
      <4>3. Head(q).from \in Int /\ Head(q).to \in Int
        BY Zenon, <4>2, ChunkInts
      <4> DEFINE e == EndOf(q, t)
                 u == Head(q).to
      <4>4. e \in Int /\ u \in Int /\ t + 1 <= u /\ u <= e /\ 0 = e - t
        BY Zenon, <1>1, <1>3, <2>2, <4>2, <4>3
      <4> HIDE DEF e, u
      <4> QED BY SMTT(60), Z3T(60), <4>4
    <3> QED BY SMTT(60), Z3T(60), <3>1, AppendProperties
  <2> QED BY Zenon, <2>1, <2>2
<1> QED BY Zenon, <1>1, <1>2, <1>4, <1>5 DEF Flow

\* A chunk is taken.
LEMMA FlowTake ==
    ASSUME NEW g \in Seq(Chunks), NEW t \in Int, NEW q \in Seq(Chunks), NEW b \in Int,
           Flow(g, t, q, b), q # <<>>
    PROVE  /\ Head(q) \in Chunks /\ Tail(q) \in Seq(Chunks)
           /\ t + Length(Head(q)) = Head(q).to
           /\ Flow(Append(g, Head(q)), t + Length(Head(q)), Tail(q), b - Length(Head(q)))
           /\ EndOf(Tail(q), t + Length(Head(q))) = EndOf(q, t)
<1>1. Follows(g, 0) /\ t = EndOf(g, 0) /\ Follows(q, t) /\ b = EndOf(q, t) - t
  BY Zenon DEF Flow
<1>2. /\ Head(q) \in Chunks /\ Tail(q) \in Seq(Chunks)
      /\ Head(q).from = t + 1 /\ Head(q).from <= Head(q).to
      /\ Follows(Tail(q), Head(q).to)
      /\ EndOf(Tail(q), Head(q).to) = EndOf(q, t)
      /\ Len(Tail(q)) = Len(q) - 1 /\ (Len(q) = 1 => Tail(q) = <<>>)
  BY Zenon, <1>1, FollowsTail
<1>c. /\ Head(q).from \in Int /\ Head(q).to \in Int
      /\ Length(Head(q)) \in Int /\ Length(Head(q)) = (Head(q).to - Head(q).from) + 1
  BY Zenon, <1>2, ChunkInts
<1>d. Head(q).from = t + 1
  BY Zenon, <1>2
<1>3. t + Length(Head(q)) = Head(q).to
  BY SMTT(60), Z3T(60), <1>c, <1>d
<1>4. Follows(Append(g, Head(q)), 0) /\ EndOf(Append(g, Head(q)), 0) = Head(q).to
  BY SMTT(60), Z3T(60), <1>1, <1>2, FollowsAppend
<1>5. EndOf(q, t) \in Int
  BY Zenon, EndInt
<1>6. b - Length(Head(q)) = EndOf(Tail(q), Head(q).to) - Head(q).to
  <2>1. b - Length(Head(q)) = EndOf(q, t) - Head(q).to
    <3> DEFINE e == EndOf(q, t)
               n == Length(Head(q))
               f == Head(q).from
               u == Head(q).to
    <3>1. e \in Int /\ f \in Int /\ u \in Int /\ n \in Int
      BY Zenon, <1>c, <1>5
    <3>2. n = (u - f) + 1 /\ f = t + 1 /\ b = e - t
      BY Zenon, <1>1, <1>2, <1>c
    <3> HIDE DEF e, n, f, u
    <3>3. b - n = e - u
      BY SMTT(60), Z3T(60), <3>1, <3>2
    <3> QED BY Zenon, <3>3 DEF e, n, u
  <2> QED BY <1>2, <2>1, Zenon
<1>7. b - Length(Head(q)) <= Capacity \/ Len(Tail(q)) = 1
  <2>1. CASE b <= Capacity
    BY SMTT(60), Z3T(60), <1>2, <1>c, <2>1, TeeAssumption
  <2>2. CASE Len(q) = 1
    <3>1. EndOf(Tail(q), Head(q).to) = Head(q).to
      BY Zenon, <1>2, <2>2 DEF EndOf
    <3> QED BY SMTT(60), Z3T(60), <1>c, <1>6, <3>1, TeeAssumption
  <2> QED BY Zenon, <2>1, <2>2 DEF Flow
<1> QED BY Zenon, <1>2, <1>3, <1>4, <1>6, <1>7 DEF Flow

\* A branch is cleared.
LEMMA FlowDetach ==
    ASSUME NEW g \in Seq(Chunks), NEW t \in Int, NEW q, NEW b, Flow(g, t, q, b)
    PROVE  Flow(g, t, <<>>, 0)
<1>1. Follows(<<>>, t) /\ EndOf(<<>>, t) = t
  BY SMTT(60), Z3T(60), EmptySeq DEF Follows, EndOf
<1> QED BY SMTT(60), Z3T(60), <1>1, TeeAssumption DEF Flow

-----------------------------------------------------------------------------
(* Every step keeps the invariant.                                         *)

\* An upload task ends as it may.
MayEnd(m, how) ==
    /\ task[m] \in {"run", "asleep"} /\ how \in {"ok", "failed"}
    /\ how = "ok" => taken[m] >= Total
    /\ Ends(m, how)

\* The steps, with the ways a task ends taken together.
LEMMA Steps ==
    ASSUME Next
    PROVE  \/ \E l \in ReadSizes : Read(l)
           \/ FeedSkips \/ FeedWaits \/ FeedQueues \/ Finish
           \/ PrimaryUploaded \/ PrimaryFails
           \/ Collect \/ CollectCancelled \/ AbortDetach \/ AbortCancel \/ AbortGather
           \/ \E m \in Mirrors : Take(m) \/ Sleep(m) \/ Closes(m)
           \/ \E m \in Mirrors : \E how \in {"ok", "failed"} : MayEnd(m, how)
           \/ UNCHANGED vars
<1>1. ASSUME NEW m \in Mirrors, StreamEnds(m)
      PROVE  MayEnd(m, "failed")
  BY Zenon, <1>1 DEF StreamEnds, MayEnd
<1>2. ASSUME NEW m \in Mirrors, Uploaded(m)
      PROVE  MayEnd(m, "ok")
  BY Zenon, <1>2 DEF Uploaded, MayEnd
<1>3. ASSUME NEW m \in Mirrors, MirrorFails(m)
      PROVE  MayEnd(m, "failed")
  BY Zenon, <1>3 DEF MirrorFails, MayEnd
<1> QED BY <1>1, <1>2, <1>3, Zenon DEF Next, Produce, Stream

\* Every step keeps the types.
LEMMA TypedKept ==
    ASSUME IInv, [Next]_vars
    PROVE  Typed'
<1> USE TeeAssumption
<1>t. Typed
  BY Zenon DEF IInv
<1>m. M \in Int /\ 1 \in Mirrors /\ at \in Int /\ (at < M => at + 1 \in Mirrors)
  BY SMTT(60), Z3T(60), <1>t DEF Typed, Mirrors
<1>1. ASSUME NEW l \in ReadSizes, Read(l)
      PROVE  Typed'
  <2>1. ReadTo(l) \in 1 .. Total /\ pos + 1 \in 1 .. Total
    BY SMTT(60), Z3T(60), <1>t, <1>1 DEF Typed, Read, ReadTo
  <2>2. chunk' \in Chunks
    BY Zenon, <1>1, <2>1 DEF Read, Chunks
  <2>3. pos' \in 0 .. Total /\ prod' = "feed" /\ at' \in Mirrors
    BY SMTT(60), Z3T(60), <1>m, <1>1, <2>1 DEF Read
  <2> QED BY Zenon, <1>t, <1>1, <2>2, <2>3 DEF Typed, Read, branch, mirror
<1>2. CASE FeedSkips
  BY Zenon, <1>t, <1>m, <1>2 DEF Typed, FeedSkips, FeedOn, branch, mirror
<1>3. CASE FeedWaits
  BY Zenon, <1>t, <1>3 DEF Typed, FeedWaits, branch, mirror
<1>4. CASE FeedQueues
  <2>1. prod' \in {"idle", "feed", "finish"} /\ at' \in Mirrors
    BY Zenon, <1>m, <1>4 DEF FeedQueues, FeedOn
  <2>2. Append(queue[at], chunk) \in Seq(Chunks) /\ Length(chunk) \in Int
    BY ZenonT(60), <1>t, AppendProperties, ChunkInts DEF Typed
  <2>3. queue' \in [Mirrors -> Seq(Chunks)] /\ buffered' \in [Mirrors -> Int]
    BY SMTT(60), Z3T(60), <1>t, <1>4, <2>2 DEF Typed, FeedQueues
  <2>4. task' \in [Mirrors -> {"run", "asleep", "closing", "ended"}]
    BY Zenon, <1>t, <1>4 DEF Typed, FeedQueues, WokenTask
  <2> QED BY Zenon, <1>t, <1>4, <2>1, <2>3, <2>4 DEF Typed, FeedQueues
<1>5. CASE Finish
  <2>1. prod' \in {"idle", "collect", "finish", "close"} /\ at' \in Mirrors
    BY Zenon, <1>m, <1>5 DEF Finish
  <2>4. task' \in [Mirrors -> {"run", "asleep", "closing", "ended"}]
    BY Zenon, <1>t, <1>5 DEF Typed, Finish, WokenTask
  <2>5. eof' \in [Mirrors -> BOOLEAN]
    BY Zenon, <1>t, <1>5 DEF Typed, Finish
  <2> QED BY Zenon, <1>t, <1>5, <2>1, <2>4, <2>5 DEF Typed, Finish
<1>6. CASE PrimaryUploaded \/ PrimaryFails
  BY Zenon, <1>t, <1>m, <1>6 DEF Typed, PrimaryUploaded, PrimaryFails, branch, mirror
<1>7. CASE Collect \/ CollectCancelled
  BY ZenonT(60), <1>t, <1>m, <1>7 DEF Typed, Collect, CollectCancelled, branch, mirror
<1>8. CASE AbortDetach
  <2>1. prod' \in {"abort", "cancel"} /\ at' \in Mirrors
    BY Zenon, <1>m, <1>8 DEF AbortDetach
  <2>3. /\ queue' \in [Mirrors -> Seq(Chunks)] /\ buffered' \in [Mirrors -> Int]
        /\ detached' \in [Mirrors -> BOOLEAN]
    BY SMTT(60), Z3T(60), <1>t, <1>8, EmptySeq DEF Typed, AbortDetach, Detach
  <2>4. task' \in [Mirrors -> {"run", "asleep", "closing", "ended"}]
    BY Zenon, <1>t, <1>8 DEF Typed, AbortDetach, WokenTask
  <2> QED BY Zenon, <1>t, <1>8, <2>1, <2>3, <2>4 DEF Typed, AbortDetach, Detach
<1>9. CASE AbortCancel
  BY Zenon, <1>t, <1>9 DEF Typed, AbortCancel, branch
<1>10. CASE AbortGather
  BY Zenon, <1>t, <1>10 DEF Typed, AbortGather, branch, mirror
<1>11. ASSUME NEW m \in Mirrors, Take(m)
       PROVE  Typed'
  <2>1. queue[m] \in Seq(Chunks) /\ queue[m] # <<>> /\ got[m] \in Seq(Chunks)
    BY Zenon, <1>t, <1>11 DEF Typed, Take
  <2>2. Head(queue[m]) \in Chunks /\ Tail(queue[m]) \in Seq(Chunks)
    BY Zenon, <2>1, HeadTailProperties
  <2>3. Append(got[m], Head(queue[m])) \in Seq(Chunks) /\ Length(Head(queue[m])) \in Int
    BY Zenon, <2>1, <2>2, AppendProperties, ChunkInts
  <2>4. prod' \in {prod, "feed"}
    BY Zenon, <1>11 DEF Take, WokenProducer
  <2>5. queue' \in [Mirrors -> Seq(Chunks)] /\ got' \in [Mirrors -> Seq(Chunks)]
    BY Zenon, <1>t, <1>11, <2>2, <2>3 DEF Typed, Take
  <2>6. buffered' \in [Mirrors -> Int] /\ taken' \in [Mirrors -> Int]
    <3>1. PICK n : n = Length(Head(queue[m]))
      BY Zenon
    <3>2. /\ buffered' = [buffered EXCEPT ![m] = @ - n] /\ buffered \in [Mirrors -> Int]
          /\ taken' = [taken EXCEPT ![m] = @ + n] /\ taken \in [Mirrors -> Int]
      BY ZenonT(60), <1>t, <1>11, <3>1 DEF Typed, Take
    <3>3. n \in Int
      BY Zenon, <2>3, <3>1
    <3>4. buffered[m] - n \in Int /\ taken[m] + n \in Int
      BY SMTT(60), Z3T(60), <3>2, <3>3
    <3> QED BY Zenon, <3>2, <3>4
  <2> QED BY Zenon, <1>t, <1>11, <2>4, <2>5, <2>6 DEF Typed, Take
<1>12. ASSUME NEW m \in Mirrors, Sleep(m)
       PROVE  Typed'
  BY Zenon, <1>t, <1>12 DEF Typed, Sleep, branch
<1>13. ASSUME NEW m \in Mirrors, Closes(m)
       PROVE  Typed'
  <2>1. prod' \in {prod, "feed"}
    BY Zenon, <1>13 DEF Closes, WokenProducer
  <2>2. /\ queue' \in [Mirrors -> Seq(Chunks)] /\ buffered' \in [Mirrors -> Int]
        /\ detached' \in [Mirrors -> BOOLEAN]
    BY SMTT(60), Z3T(60), <1>t, <1>13, EmptySeq DEF Typed, Closes, Detach
  <2> QED BY Zenon, <1>t, <1>13, <2>1, <2>2 DEF Typed, Closes, Detach
<1>14. ASSUME NEW m \in Mirrors, NEW how \in {"ok", "failed"}, MayEnd(m, how)
       PROVE  Typed'
  BY Zenon, <1>t, <1>14 DEF Typed, MayEnd, Ends, branch
<1>15. CASE UNCHANGED vars
  BY Zenon, <1>t, <1>15 DEF Typed, vars, branch, mirror
<1> QED BY <1>1, <1>2, <1>3, <1>4, <1>5, <1>6, <1>7, <1>8, <1>9, <1>10, <1>11, <1>12,
           <1>13, <1>14, <1>15, Steps, Zenon

\* An attached branch that is fed ends where the chunk begins.
LEMMA FedAt ==
    ASSUME IInv, prod = "feed", ~detached[at]
    PROVE  chunk.from = EndOf(queue[at], taken[at]) + 1 /\ chunk.from <= chunk.to
<1>1. EndOf(queue[at], taken[at]) = chunk.from - 1 /\ chunk.from <= chunk.to
  BY SMTT(60), Z3T(60), TeeAssumption DEF IInv, Typed, Mirrors, Fed, Aborted, FedTo
<1>2. chunk.from \in Int
  BY Zenon, ChunkInts DEF IInv, Typed
<1> QED BY SMTT(60), Z3T(60), <1>1, <1>2

\* feed(), read() and detach() keep each branch's chunks and counters in step.
LEMMA FlowsKept ==
    ASSUME IInv, [Next]_vars
    PROVE  Flows'
<1>t. /\ queue \in [Mirrors -> Seq(Chunks)] /\ buffered \in [Mirrors -> Int]
      /\ taken \in [Mirrors -> Int] /\ got \in [Mirrors -> Seq(Chunks)]
      /\ at \in Mirrors /\ chunk \in Chunks
  BY Zenon DEF IInv, Typed
<1>f. ASSUME NEW m \in Mirrors
      PROVE  Flow(got[m], taken[m], queue[m], buffered[m])
  BY Zenon DEF IInv, Flows
<1>u. ASSUME UNCHANGED <<queue, buffered, taken, got>>
      PROVE  Flows'
  BY Zenon, <1>f, <1>u DEF Flows
<1>d. ASSUME NEW m \in Mirrors, Detach(m), UNCHANGED <<taken, got>>
      PROVE  Flows'
  <2>1. ASSUME NEW n \in Mirrors
        PROVE  Flow(got'[n], taken'[n], queue'[n], buffered'[n])
    <3>1. CASE n = m
      <4>1. queue'[n] = <<>> /\ buffered'[n] = 0 /\ got'[n] = got[n] /\ taken'[n] = taken[n]
        BY Zenon, <1>t, <1>d, <3>1 DEF Detach
      <4>2. got[n] \in Seq(Chunks) /\ taken[n] \in Int
        BY Zenon, <1>t
      <4>3. Flow(got[n], taken[n], <<>>, 0)
        BY Zenon, <1>f, <4>2, FlowDetach
      <4> QED BY Zenon, <4>1, <4>3
    <3>2. CASE n # m
      <4>1. /\ queue'[n] = queue[n] /\ buffered'[n] = buffered[n]
            /\ got'[n] = got[n] /\ taken'[n] = taken[n]
        BY Zenon, <1>t, <1>d, <3>2 DEF Detach
      <4> QED BY Zenon, <1>f, <4>1
    <3> QED BY Zenon, <3>1, <3>2
  <2> QED BY Zenon, <2>1 DEF Flows
<1>1. CASE FeedQueues
  <2>1. /\ queue[at] \in Seq(Chunks) /\ buffered[at] \in Int
        /\ taken[at] \in Int /\ got[at] \in Seq(Chunks)
    BY Zenon, <1>t
  <2>2. chunk.from = EndOf(queue[at], taken[at]) + 1 /\ chunk.from <= chunk.to
    BY Zenon, <1>1, FedAt DEF FeedQueues
  <2>3. buffered[at] = 0 \/ buffered[at] + Length(chunk) <= Capacity
    <3>1. Length(chunk) \in Int
      BY Zenon, <1>t, ChunkInts
    <3> QED BY SMTT(60), Z3T(60), <1>1, <2>1, <3>1, TeeAssumption DEF FeedQueues, Full
  <2>4. Flow(got[at], taken[at], Append(queue[at], chunk), buffered[at] + Length(chunk))
    BY Zenon, <1>t, <1>f, <2>1, <2>2, <2>3, FlowAppend
  <2>5. ASSUME NEW n \in Mirrors
        PROVE  Flow(got'[n], taken'[n], queue'[n], buffered'[n])
    <3>1. CASE n = at
      <4>1. /\ queue'[n] = Append(queue[at], chunk)
            /\ buffered'[n] = buffered[at] + Length(chunk)
            /\ got'[n] = got[at] /\ taken'[n] = taken[at]
        BY Zenon, <1>t, <1>1, <3>1 DEF FeedQueues
      <4> QED BY Zenon, <2>4, <4>1
    <3>2. CASE n # at
      <4>1. /\ queue'[n] = queue[n] /\ buffered'[n] = buffered[n]
            /\ got'[n] = got[n] /\ taken'[n] = taken[n]
        BY Zenon, <1>t, <1>1, <3>2 DEF FeedQueues
      <4> QED BY Zenon, <1>f, <4>1
    <3> QED BY Zenon, <3>1, <3>2
  <2> QED BY Zenon, <2>5 DEF Flows
<1>2. ASSUME NEW m \in Mirrors, Take(m)
      PROVE  Flows'
  <2> DEFINE h == Head(queue[m])
  <2>1. /\ queue[m] \in Seq(Chunks) /\ buffered[m] \in Int
        /\ taken[m] \in Int /\ got[m] \in Seq(Chunks) /\ queue[m] # <<>>
    BY Zenon, <1>t, <1>2 DEF Take
  <2>2. Flow(Append(got[m], h), taken[m] + Length(h), Tail(queue[m]), buffered[m] - Length(h))
    BY Zenon, <1>f, <2>1, FlowTake
  <2>3. ASSUME NEW n \in Mirrors
        PROVE  Flow(got'[n], taken'[n], queue'[n], buffered'[n])
    <3>1. CASE n = m
      <4>1. /\ queue'[n] = Tail(queue[m]) /\ buffered'[n] = buffered[m] - Length(h)
            /\ got'[n] = Append(got[m], h) /\ taken'[n] = taken[m] + Length(h)
        BY Zenon, <1>t, <1>2, <3>1 DEF Take
      <4> HIDE DEF h
      <4> QED BY Zenon, <2>2, <4>1
    <3>2. CASE n # m
      <4>1. /\ queue'[n] = queue[n] /\ buffered'[n] = buffered[n]
            /\ got'[n] = got[n] /\ taken'[n] = taken[n]
        BY Zenon, <1>t, <1>2, <3>2 DEF Take
      <4> QED BY Zenon, <1>f, <4>1
    <3> QED BY Zenon, <3>1, <3>2
  <2> QED BY Zenon, <2>3 DEF Flows
<1>3. CASE AbortDetach
  BY Zenon, <1>t, <1>d, <1>3 DEF AbortDetach
<1>4. ASSUME NEW m \in Mirrors, Closes(m)
      PROVE  Flows'
  BY Zenon, <1>d, <1>4 DEF Closes
<1>5. ASSUME NEW l \in ReadSizes, Read(l)
      PROVE  Flows'
  BY Zenon, <1>5, <1>u DEF Read, branch, mirror
<1>6. CASE FeedSkips \/ FeedWaits \/ Finish
  BY Zenon, <1>6, <1>u DEF FeedSkips, FeedWaits, Finish, branch, mirror
<1>7. CASE PrimaryUploaded \/ PrimaryFails \/ Collect \/ CollectCancelled
  BY Zenon, <1>7, <1>u DEF PrimaryUploaded, PrimaryFails, Collect, CollectCancelled, branch, mirror
<1>8. CASE AbortCancel \/ AbortGather
  BY Zenon, <1>8, <1>u DEF AbortCancel, AbortGather, branch, mirror
<1>9. ASSUME NEW m \in Mirrors, Sleep(m)
      PROVE  Flows'
  BY Zenon, <1>9, <1>u DEF Sleep, branch
<1>10. ASSUME NEW m \in Mirrors, NEW how \in {"ok", "failed"}, MayEnd(m, how)
       PROVE  Flows'
  BY Zenon, <1>10, <1>u DEF MayEnd, Ends, branch
<1>11. CASE UNCHANGED vars
  BY Zenon, <1>11, <1>u DEF vars, branch, mirror
<1> QED BY <1>1, <1>2, <1>3, <1>4, <1>5, <1>6, <1>7, <1>8, <1>9, <1>10, <1>11, Steps, Zenon

\* Every step keeps the attached branches fed up to where the producer is.
LEMMA FedKept ==
    ASSUME IInv, [Next]_vars
    PROVE  Fed'
<1>t. /\ queue \in [Mirrors -> Seq(Chunks)] /\ buffered \in [Mirrors -> Int]
      /\ taken \in [Mirrors -> Int] /\ got \in [Mirrors -> Seq(Chunks)]
      /\ detached \in [Mirrors -> BOOLEAN] /\ at \in Mirrors /\ chunk \in Chunks
      /\ pos \in 0 .. Total
  BY Zenon DEF IInv, Typed
<1>m. M \in Int /\ Total \in Int /\ Mirrors = 1 .. M /\ at \in Int
  BY SMTT(60), Z3T(60), <1>t, TeeAssumption DEF Mirrors
<1>c. chunk.from \in Int /\ chunk.to \in Int
  BY Zenon, <1>t, ChunkInts
<1>f. /\ prod \in {"feed", "asleep"} => chunk.to = pos /\ chunk.from <= chunk.to
      /\ \A m \in Mirrors : detached[m] => queue[m] = <<>>
      /\ \A m \in Mirrors : ~detached[m] /\ ~Aborted => EndOf(queue[m], taken[m]) = FedTo(m)
  BY Zenon DEF IInv, Fed
<1>u. ASSUME UNCHANGED <<pos, chunk, queue, detached, taken>>,
             Aborted' \/ (~Aborted /\ \A m \in Mirrors : ~detached[m] => FedTo(m)' = FedTo(m)),
             prod' \in {"feed", "asleep"} => prod \in {"feed", "asleep"}
      PROVE  Fed'
  BY Zenon, <1>f, <1>u DEF Fed
<1>o. ASSUME NEW m \in Mirrors, m # at, prod = "feed", FeedOn, UNCHANGED <<pos, chunk>>
      PROVE  FedTo(m)' = FedTo(m)
  <2>1. m \in Int /\ m <= M /\ at <= M
    BY SMTT(60), Z3T(60), <1>t, <1>m
  <2>2. CASE at < M
    <3>1. prod' = "feed" /\ at' = at + 1
      BY Zenon, <1>o, <2>2 DEF FeedOn
    <3>2. (at <= m) <=> (at' <= m)
      BY SMTT(60), Z3T(60), <1>m, <1>o, <2>1, <3>1
    <3> QED BY Zenon, <1>o, <3>1, <3>2 DEF FedTo
  <2>3. CASE ~(at < M)
    <3>1. prod' \in {"finish", "idle"} /\ ~(at <= m)
      BY SMTT(60), Z3T(60), <1>m, <1>o, <2>1, <2>3 DEF FeedOn
    <3> QED BY Zenon, <1>o, <3>1 DEF FedTo
  <2> QED BY Zenon, <2>2, <2>3
<1>d. ASSUME NEW n \in Mirrors, Detach(n), UNCHANGED <<at, pos, chunk, taken>>,
             Aborted' \/ (prod = "asleep" /\ prod' = "feed") \/ prod' = prod
      PROVE  Fed'
  <2>1. \A m \in Mirrors : m # n => detached'[m] = detached[m] /\ queue'[m] = queue[m]
    BY Zenon, <1>t, <1>d DEF Detach
  <2>2. detached'[n] /\ queue'[n] = <<>>
    BY Zenon, <1>t, <1>d DEF Detach
  <2>3. ASSUME NEW m \in Mirrors, ~detached'[m], ~Aborted'
        PROVE  EndOf(queue'[m], taken'[m]) = FedTo(m)'
    <3>1. m # n /\ ~detached[m] /\ queue'[m] = queue[m] /\ taken'[m] = taken[m]
      BY Zenon, <1>d, <2>1, <2>2, <2>3
    <3>2. ~Aborted /\ FedTo(m)' = FedTo(m)
      BY Zenon, <1>d, <2>3 DEF Aborted, FedTo
    <3> QED BY Zenon, <1>f, <3>1, <3>2
  <2>4. prod' \in {"feed", "asleep"} => chunk'.to = pos' /\ chunk'.from <= chunk'.to
    BY Zenon, <1>d, <1>f DEF Aborted
  <2>5. \A m \in Mirrors : detached'[m] => queue'[m] = <<>>
    BY ZenonT(60), <1>f, <2>1, <2>2
  <2> QED BY Zenon, <2>3, <2>4, <2>5 DEF Fed
<1>1. ASSUME NEW l \in ReadSizes, Read(l)
      PROVE  Fed'
  <2>1. /\ UNCHANGED <<queue, detached, taken>> /\ prod = "idle" /\ prod' = "feed" /\ at' = 1
        /\ chunk' = [from |-> pos + 1, to |-> ReadTo(l)] /\ pos' = ReadTo(l)
    BY Zenon, <1>1 DEF Read, branch, mirror
  <2>2. pos + 1 <= ReadTo(l)
    BY SMTT(60), Z3T(60), <1>t, <1>1, TeeAssumption DEF Read, ReadTo
  <2>3. ASSUME NEW m \in Mirrors, ~detached[m]
        PROVE  EndOf(queue[m], taken[m]) = FedTo(m)'
    <3>1. EndOf(queue[m], taken[m]) = pos
      BY Zenon, <1>f, <2>1, <2>3 DEF FedTo, Aborted
    <3>2. FedTo(m)' = (pos + 1) - 1
      BY SMTT(60), Z3T(60), <1>m, <2>1 DEF FedTo
    <3> QED BY SMTT(60), Z3T(60), <1>t, <3>1, <3>2, TeeAssumption
  <2> QED BY Zenon, <1>f, <2>1, <2>2, <2>3 DEF Fed
<1>2. CASE FeedSkips
  <2>1. /\ prod = "feed" /\ detached[at] /\ FeedOn
        /\ UNCHANGED <<pos, chunk, queue, detached, taken>>
    BY Zenon, <1>2 DEF FeedSkips, branch, mirror
  <2>2. ~Aborted
    BY Zenon, <2>1 DEF Aborted
  <2>3. ASSUME NEW m \in Mirrors, ~detached[m]
        PROVE  FedTo(m)' = FedTo(m)
    <3>1. m # at
      BY Zenon, <2>1, <2>3
    <3> QED BY Zenon, <1>o, <2>1, <3>1
  <2> QED BY Zenon, <1>u, <2>1, <2>2, <2>3
<1>3. CASE FeedWaits
  BY ZenonT(60), <1>u, <1>3 DEF FeedWaits, branch, mirror, Aborted, FedTo
<1>4. CASE FeedQueues
  <2>1. /\ prod = "feed" /\ ~detached[at] /\ FeedOn /\ UNCHANGED <<pos, chunk, detached, taken>>
        /\ queue' = [queue EXCEPT ![at] = Append(@, chunk)]
    BY Zenon, <1>4 DEF FeedQueues
  <2>2. chunk.from = EndOf(queue[at], taken[at]) + 1 /\ chunk.from <= chunk.to
    BY Zenon, <2>1, FedAt
  <2>3. EndOf(Append(queue[at], chunk), taken[at]) = chunk.to
    <3>1. /\ queue[at] \in Seq(Chunks) /\ buffered[at] \in Int
          /\ taken[at] \in Int /\ got[at] \in Seq(Chunks)
      BY Zenon, <1>t
    <3>2. Follows(queue[at], taken[at])
      BY Zenon, <1>t DEF IInv, Flows, Flow
    <3> QED BY Zenon, <1>t, <2>2, <3>1, <3>2, FollowsAppend
  <2>4. ASSUME NEW m \in Mirrors, ~detached'[m]
        PROVE  EndOf(queue'[m], taken'[m]) = FedTo(m)'
    <3>1. CASE m = at
      <4>1. queue'[m] = Append(queue[at], chunk) /\ taken'[m] = taken[at]
        BY Zenon, <1>t, <2>1, <3>1
      <4>2. FedTo(m)' = pos
        BY SMTT(60), Z3T(60), <1>m, <2>1, <3>1 DEF FeedOn, FedTo
      <4> QED BY Zenon, <1>f, <2>1, <2>3, <4>1, <4>2
    <3>2. CASE m # at
      <4>1. queue'[m] = queue[m] /\ taken'[m] = taken[m] /\ ~detached[m]
        BY Zenon, <1>t, <2>1, <2>4, <3>2
      <4>2. FedTo(m)' = FedTo(m)
        BY Zenon, <1>o, <2>1, <3>2
      <4>3. ~Aborted
        BY Zenon, <2>1 DEF Aborted
      <4> QED BY Zenon, <1>f, <4>1, <4>2, <4>3
    <3> QED BY Zenon, <3>1, <3>2
  <2>5. \A m \in Mirrors : detached'[m] => queue'[m] = <<>>
    BY Zenon, <1>t, <1>f, <2>1
  <2>6. prod' \in {"feed", "asleep"} => chunk'.to = pos' /\ chunk'.from <= chunk'.to
    BY Zenon, <1>f, <2>1
  <2> QED BY Zenon, <2>4, <2>5, <2>6 DEF Fed
<1>5. CASE Finish
  BY Zenon, <1>u, <1>5 DEF Finish, Aborted, FedTo
<1>6. CASE PrimaryUploaded
  BY Zenon, <1>u, <1>6 DEF PrimaryUploaded, branch, mirror, Aborted, FedTo
<1>7. CASE PrimaryFails
  BY Zenon, <1>u, <1>7 DEF PrimaryFails, branch, mirror, Aborted, FedTo
<1>8. CASE Collect
  BY Zenon, <1>u, <1>8 DEF Collect, branch, mirror, Aborted, FedTo
<1>9. CASE CollectCancelled
  BY Zenon, <1>u, <1>9 DEF CollectCancelled, branch, Aborted, FedTo
<1>10. CASE AbortDetach
  <2>1. prod' \in {"abort", "cancel"}
    BY Zenon, <1>10 DEF AbortDetach
  <2>2. ~(prod' \in {"feed", "asleep"}) /\ Aborted'
    BY Zenon, <2>1 DEF Aborted
  <2>3. \A m \in Mirrors : detached'[m] => queue'[m] = <<>>
    BY Zenon, <1>t, <1>f, <1>10 DEF AbortDetach, Detach
  <2> QED BY Zenon, <2>2, <2>3 DEF Fed
<1>11. CASE AbortCancel
  BY Zenon, <1>u, <1>11 DEF AbortCancel, branch, Aborted, FedTo
<1>12. CASE AbortGather
  BY Zenon, <1>u, <1>12 DEF AbortGather, branch, mirror, Aborted, FedTo
<1>13. ASSUME NEW n \in Mirrors, Take(n)
       PROVE  Fed'
  <2> DEFINE h == Head(queue[n])
  <2>1. /\ queue[n] \in Seq(Chunks) /\ buffered[n] \in Int
        /\ taken[n] \in Int /\ got[n] \in Seq(Chunks) /\ queue[n] # <<>>
    BY Zenon, <1>t, <1>13 DEF Take
  <2>2. EndOf(Tail(queue[n]), taken[n] + Length(h)) = EndOf(queue[n], taken[n])
    BY ZenonT(60), <2>1, FlowTake DEF IInv, Flows
  <2>3. /\ queue' = [queue EXCEPT ![n] = Tail(@)] /\ taken' = [taken EXCEPT ![n] = @ + Length(h)]
        /\ prod' = WokenProducer(n) /\ UNCHANGED <<at, pos, chunk, detached>> /\ ~detached[n]
    BY Zenon, <1>13 DEF Take
  <2> HIDE DEF h
  <2>4. ASSUME NEW m \in Mirrors
        PROVE  EndOf(queue'[m], taken'[m]) = EndOf(queue[m], taken[m])
    <3>1. CASE m = n
      BY Zenon, <1>t, <2>2, <2>3, <3>1
    <3>2. CASE m # n
      BY Zenon, <1>t, <2>3, <3>2
    <3> QED BY Zenon, <3>1, <3>2
  <2>5. (Aborted' <=> Aborted) /\ (prod' \in {"feed", "asleep"} <=> prod \in {"feed", "asleep"})
    BY Zenon, <2>3 DEF WokenProducer, Aborted
  <2>6. \A m \in Mirrors : FedTo(m)' = FedTo(m)
    BY Zenon, <2>3, <2>5 DEF FedTo
  <2>7. \A m \in Mirrors : detached'[m] => queue'[m] = <<>>
    BY Zenon, <1>t, <1>f, <2>3
  <2> QED BY Zenon, <1>f, <2>3, <2>4, <2>5, <2>6, <2>7 DEF Fed
<1>14. ASSUME NEW n \in Mirrors, Sleep(n)
       PROVE  Fed'
  BY Zenon, <1>f, <1>14 DEF Fed, Sleep, branch, Aborted, FedTo
<1>15. ASSUME NEW n \in Mirrors, Closes(n)
       PROVE  Fed'
  BY Zenon, <1>d, <1>15 DEF Closes, WokenProducer
<1>16. ASSUME NEW n \in Mirrors, NEW how \in {"ok", "failed"}, MayEnd(n, how)
       PROVE  Fed'
  BY Zenon, <1>f, <1>16 DEF Fed, MayEnd, Ends, branch, Aborted, FedTo
<1>17. CASE UNCHANGED vars
  BY Zenon, <1>f, <1>17 DEF Fed, vars, branch, mirror, Aborted, FedTo
<1> QED BY ZenonT(60), <1>1, <1>2, <1>3, <1>4, <1>5, <1>6, <1>7, <1>8, <1>9, <1>10, <1>11, <1>12,
           <1>13, <1>14, <1>15, <1>16, <1>17, Steps, Zenon

\* Every step keeps what is known of the tasks that ended.
LEMMA SettledKept ==
    ASSUME IInv, [Next]_vars
    PROVE  Settled'
<1>t. /\ task \in [Mirrors -> {"run", "asleep", "closing", "ended"}]
      /\ outcome \in [Mirrors -> {"none", "ok", "failed"}]
      /\ taken \in [Mirrors -> Int] /\ at \in Mirrors
  BY Zenon DEF IInv, Typed
<1>m. M \in Int /\ Total \in Int /\ Mirrors = 1 .. M /\ at \in Int
  BY SMTT(60), Z3T(60), <1>t, TeeAssumption DEF Mirrors
<1>s. /\ \A m \in Mirrors : outcome[m] = "ok" => taken[m] >= Total
      /\ prod = "collect" => \A m \in Mirrors : m < at => task[m] = "ended"
      /\ prod \in {"done", "failed"} => \A m \in Mirrors : task[m] = "ended"
  BY Zenon DEF IInv, Settled
<1>w. ASSUME NEW n \in Mirrors, NEW m \in Mirrors, task' = WokenTask(n), task[m] = "ended"
      PROVE  task'[m] = "ended"
  BY Zenon, <1>t, <1>w DEF WokenTask
<1>i. ASSUME prod' \notin {"collect", "done", "failed"}, UNCHANGED <<outcome, taken>>
      PROVE  Settled'
  BY Zenon, <1>s, <1>i DEF Settled
<1>1. ASSUME NEW l \in ReadSizes, Read(l)
      PROVE  Settled'
  BY Zenon, <1>i, <1>1 DEF Read, mirror
<1>2. CASE FeedSkips \/ FeedWaits \/ FeedQueues
  BY Zenon, <1>i, <1>2 DEF FeedSkips, FeedWaits, FeedQueues, FeedOn, mirror
<1>3. CASE Finish
  <2>1. UNCHANGED <<outcome, taken>> /\ prod' \notin {"done", "failed"}
    BY Zenon, <1>3 DEF Finish
  <2>2. prod' = "collect" => at' = 1
    BY Zenon, <1>3 DEF Finish
  <2>3. prod' = "collect" => \A m \in Mirrors : m < at' => task'[m] = "ended"
    BY SMTT(60), Z3T(60), <1>m, <2>2
  <2> QED BY Zenon, <1>s, <2>1, <2>3 DEF Settled
<1>4. CASE PrimaryUploaded \/ PrimaryFails
  BY Zenon, <1>i, <1>4 DEF PrimaryUploaded, PrimaryFails, mirror
<1>5. CASE Collect
  <2>1. /\ UNCHANGED <<task, outcome, taken>> /\ prod = "collect" /\ task[at] = "ended"
        /\ IF at < M THEN at' = at + 1 /\ prod' = prod ELSE at' = at /\ prod' = "done"
    BY Zenon, <1>5 DEF Collect, mirror
  <2>2. \A m \in Mirrors : m <= at => task[m] = "ended"
    BY SMTT(60), Z3T(60), <1>m, <1>s, <2>1
  <2>3. CASE at < M
    <3>1. \A m \in Mirrors : m < at' => task'[m] = "ended"
      BY SMTT(60), Z3T(60), <1>m, <2>1, <2>2, <2>3
    <3> QED BY Zenon, <1>s, <2>1, <2>3, <3>1 DEF Settled
  <2>4. CASE ~(at < M)
    <3>1. \A m \in Mirrors : task'[m] = "ended"
      BY SMTT(60), Z3T(60), <1>m, <2>1, <2>2, <2>4
    <3> QED BY Zenon, <1>s, <2>1, <2>4, <3>1 DEF Settled
  <2> QED BY Zenon, <2>3, <2>4
<1>6. CASE CollectCancelled
  <2>1. \A m \in Mirrors : outcome'[m] = "ok" => taken'[m] >= Total
    BY Zenon, <1>t, <1>s, <1>6 DEF CollectCancelled
  <2>2. \A m \in Mirrors : m < at' => task'[m] = "ended"
    <3>1. \A m \in Mirrors : m < at => m # at /\ task[m] = "ended"
      BY Zenon, <1>m, <1>s, <1>6 DEF CollectCancelled
    <3> QED BY Zenon, <1>t, <1>6, <3>1 DEF CollectCancelled
  <2>3. prod' = "collect"
    BY Zenon, <1>6 DEF CollectCancelled
  <2> QED BY Zenon, <2>1, <2>2, <2>3 DEF Settled
<1>7. CASE AbortDetach
  BY Zenon, <1>i, <1>7 DEF AbortDetach
<1>8. CASE AbortCancel
  BY Zenon, <1>t, <1>s, <1>8 DEF AbortCancel, Settled
<1>9. CASE AbortGather
  BY Zenon, <1>s, <1>9 DEF AbortGather, mirror, Settled
<1>10. ASSUME NEW n \in Mirrors, Take(n)
       PROVE  Settled'
  <2>1. /\ UNCHANGED <<at, task, outcome>> /\ task[n] = "run" /\ prod' = WokenProducer(n)
        /\ taken' = [taken EXCEPT ![n] = @ + Length(Head(queue[n]))]
    BY Zenon, <1>10 DEF Take
  <2>2. outcome[n] # "ok"
    BY SMTT(60), Z3T(60), <1>s, <1>10, <1>t, <1>m DEF Take
  <2>3. \A m \in Mirrors : outcome'[m] = "ok" => taken'[m] >= Total
    BY Zenon, <1>t, <1>s, <2>1, <2>2
  <2> QED BY Zenon, <1>s, <2>1, <2>3 DEF WokenProducer, Settled
<1>11. ASSUME NEW n \in Mirrors, Sleep(n)
       PROVE  Settled'
  <2>1. UNCHANGED <<prod, at, outcome, taken>>
    BY Zenon, <1>11 DEF Sleep
  <2>2. \A m \in Mirrors : task[m] = "ended" => task'[m] = "ended"
    BY Zenon, <1>t, <1>11 DEF Sleep
  <2> QED BY Zenon, <1>s, <2>1, <2>2 DEF Settled
<1>12. ASSUME NEW n \in Mirrors, Closes(n)
       PROVE  Settled'
  <2>1. UNCHANGED <<at, outcome, taken>> /\ prod' = WokenProducer(n)
    BY Zenon, <1>12 DEF Closes
  <2>2. \A m \in Mirrors : task[m] = "ended" => task'[m] = "ended"
    BY Zenon, <1>t, <1>12 DEF Closes
  <2> QED BY Zenon, <1>s, <2>1, <2>2 DEF WokenProducer, Settled
<1>13. ASSUME NEW n \in Mirrors, NEW how \in {"ok", "failed"}, MayEnd(n, how)
       PROVE  Settled'
  <2>1. UNCHANGED <<prod, at, taken>>
    BY Zenon, <1>13 DEF MayEnd, Ends
  <2>2. \A m \in Mirrors : task[m] = "ended" => task'[m] = "ended"
    BY Zenon, <1>t, <1>13 DEF MayEnd, Ends
  <2>3. \A m \in Mirrors : outcome'[m] = "ok" => taken'[m] >= Total
    BY Zenon, <1>t, <1>s, <1>13 DEF MayEnd, Ends
  <2> QED BY Zenon, <1>s, <2>1, <2>2, <2>3 DEF Settled
<1>14. CASE UNCHANGED vars
  BY Zenon, <1>s, <1>14 DEF vars, mirror, Settled
<1> QED BY ZenonT(60), <1>1, <1>2, <1>3, <1>4, <1>5, <1>6, <1>7, <1>8, <1>9, <1>10, <1>11, <1>12,
           <1>13, <1>14, Steps, Zenon

-----------------------------------------------------------------------------
(* The theorems.                                                           *)

\* The invariant holds when save() begins.
LEMMA InitInv == Init => IInv
<1> SUFFICES ASSUME Init PROVE IInv
  BY Zenon
<1>1. Typed
  BY SMTT(60), Z3T(60), TeeAssumption, EmptySeq DEF Init, Typed, Mirrors, Chunks
<1>2. Follows(<<>>, 0) /\ EndOf(<<>>, 0) = 0
  BY SMTT(60), Z3T(60), EmptySeq DEF Follows, EndOf
<1>3. Flow(<<>>, 0, <<>>, 0)
  BY SMTT(60), Z3T(60), <1>2, TeeAssumption DEF Flow
<1>4. Flows
  BY Zenon, <1>3 DEF Init, Flows
<1>5. Fed
  BY Zenon, <1>2 DEF Init, Fed, FedTo
<1>6. Settled
  BY Zenon DEF Init, Settled
<1> QED BY Zenon, <1>1, <1>4, <1>5, <1>6 DEF IInv

\* The inductive invariant holds throughout.
LEMMA Invariance == Spec => []IInv
<1>1. IInv /\ [Next]_vars => IInv'
  BY Zenon, TypedKept, FlowsKept, FedKept, SettledKept DEF IInv
<1> QED BY <1>1, InitInv, PTL DEF Spec

\* Whatever the sizes of the reads, whichever mirrors fail or are slow and
\* however feed(), the uploads and abort() interleave, each attached branch
\* carries exactly the bytes the primary received, and holds no more than
\* its capacity or one chunk.
THEOREM BranchesKept == Spec => []BranchesAreSound
<1>1. ASSUME IInv, NEW m \in Mirrors
      PROVE  LET all == got[m] \o queue[m]
             IN  /\ Consecutive(all)
                 /\ ~detached[m] /\ prod \notin {"abort", "cancel", "gather", "failed"} =>
                       FedTo(m) = IF all = <<>> THEN 0 ELSE all[Len(all)].to
  <2>1. got[m] \in Seq(Chunks) /\ queue[m] \in Seq(Chunks)
    BY Zenon, <1>1 DEF IInv, Typed
  <2>2. Follows(got[m], 0) /\ taken[m] = EndOf(got[m], 0) /\ Follows(queue[m], taken[m])
    BY Zenon, <1>1 DEF IInv, Flows, Flow
  <2>3. /\ Consecutive(got[m] \o queue[m])
        /\ EndOf(got[m] \o queue[m], 0) = EndOf(queue[m], taken[m])
    BY Zenon, <2>1, <2>2, FollowsConsecutive
  <2>4. ~detached[m] /\ ~Aborted => EndOf(queue[m], taken[m]) = FedTo(m)
    BY Zenon, <1>1 DEF IInv, Fed
  <2>5. ~detached[m] /\ ~Aborted => FedTo(m) = EndOf(got[m] \o queue[m], 0)
    BY Zenon, <2>3, <2>4
  <2> QED BY Zenon, <2>3, <2>5 DEF Aborted, EndOf
<1>2. ASSUME IInv, NEW m \in Mirrors
      PROVE  /\ buffered[m] <= Capacity \/ Len(queue[m]) = 1
             /\ buffered[m] = IF queue[m] = <<>> THEN 0
                              ELSE queue[m][Len(queue[m])].to - queue[m][1].from + 1
  <2>1. queue[m] \in Seq(Chunks) /\ taken[m] \in Int
    BY Zenon, <1>2 DEF IInv, Typed
  <2>2. /\ Follows(queue[m], taken[m]) /\ buffered[m] = EndOf(queue[m], taken[m]) - taken[m]
        /\ buffered[m] <= Capacity \/ Len(queue[m]) = 1
    BY Zenon, <1>2 DEF IInv, Flows, Flow
  <2>3. CASE queue[m] = <<>>
    BY SMTT(60), Z3T(60), <2>1, <2>2, <2>3 DEF EndOf
  <2>4. CASE queue[m] # <<>>
    <3>1. queue[m][1].from = taken[m] + 1
      BY SMTT(60), Z3T(60), <2>1, <2>2, <2>4, EmptySeq DEF Follows
    <3>2. EndOf(queue[m], taken[m]) = queue[m][Len(queue[m])].to
      BY Zenon, <2>4 DEF EndOf
    <3>3. EndOf(queue[m], taken[m]) \in Int
      BY Zenon, <2>1, EndInt
    <3> DEFINE e == queue[m][Len(queue[m])].to
               f == queue[m][1].from
    <3>4. e \in Int /\ f = taken[m] + 1 /\ buffered[m] = e - taken[m]
      BY Zenon, <2>2, <3>1, <3>2, <3>3
    <3> HIDE DEF e, f
    <3>5. buffered[m] = (e - f) + 1
      BY SMTT(60), Z3T(60), <2>1, <3>4
    <3> QED BY Zenon, <2>2, <2>4, <3>5 DEF e, f
  <2> QED BY Zenon, <2>3, <2>4
<1>3. IInv => BranchesAreSound
  BY Zenon, <1>1, <1>2 DEF BranchesAreSound, BranchesCarryAll, BranchBounded
<1> QED BY <1>3, Invariance, PTL

\* A mirror whose upload returned received all bytes in order, and save()
\* ends only after every mirror's task did, whatever was cancelled, cut
\* short or detached.
THEOREM OutcomesKept == Spec => []OutcomesAreSound
<1>1. ASSUME IInv, NEW m \in Mirrors, outcome[m] = "ok"
      PROVE  got[m] # <<>> /\ Consecutive(got[m]) /\ got[m][Len(got[m])].to = Total
  <2>1. got[m] \in Seq(Chunks) /\ Total \in Nat \ {0}
    BY Zenon, <1>1, TeeAssumption DEF IInv, Typed
  <2>2. Follows(got[m], 0) /\ taken[m] = EndOf(got[m], 0) /\ taken[m] >= Total
    BY Zenon, <1>1 DEF IInv, Flows, Flow, Settled
  <2>3. EndOf(got[m], 0) \in 0 .. Total
    BY SMTT(60), Z3T(60), <2>1, EndType
  <2>4. EndOf(got[m], 0) = Total
    BY SMTT(60), Z3T(60), <2>1, <2>2, <2>3
  <2>5. got[m] # <<>> /\ got[m][Len(got[m])].to = Total
    BY Zenon, <2>1, <2>4 DEF EndOf
  <2>6. Consecutive(got[m])
    BY SMTT(60), Z3T(60), <2>2 DEF Follows, Consecutive
  <2> QED BY Zenon, <2>5, <2>6
<1>2. IInv => NoTaskLeft
  BY Zenon DEF IInv, Settled, NoTaskLeft, Over
<1>3. IInv => OutcomesAreSound
  BY Zenon, <1>1, <1>2 DEF OutcomesAreSound, ReplicasWhole
<1> QED BY <1>3, Invariance, PTL
=============================================================================
