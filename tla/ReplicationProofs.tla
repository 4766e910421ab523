-------------------------- MODULE ReplicationProofs --------------------------
(***************************************************************************)
(* Proofs about Replication, for any number of files, paths, versions,     *)
(* clients and mirrors, every combination of faults and events.            *)
(*                                                                         *)
(* The inductive invariant says, besides the types, that no version is     *)
(* known to two files (Owned) and that for a file that is not excused      *)
(* whoever is between reading and writing its descriptor is alone there    *)
(* and holds what is in the store (Exact); then what the worker may        *)
(* conclude when it is done with a path (Concluded, Crossed).              *)
(***************************************************************************)
EXTENDS Replication, TLAPS

Requests == {Idle}
    \cup [pc : {"upload"}, op : {"append", "redate", "delete"}, f : Files, p : Paths,
          fd : [Versions -> Entries]]
    \cup [pc : {"enqueue"}, f : Files, p : Paths]

Typed ==
    /\ desc \in [Files -> [Versions -> Entries]]
    /\ path \in [Files -> Paths \cup {"new", "gone"}]
    /\ cached \subseteq Versions /\ deleted \subseteq Versions
    /\ writer \in [Writers -> Requests]
    /\ items \subseteq Paths /\ saved \subseteq Paths /\ batch \subseteq Paths
    /\ excused \subseteq Files /\ scene \in Scenarios
    /\ worker \in [pc : {"off", "start", "next", "wait", "timer"}]
                \cup [pc : Busy, p : Paths, f : Files, fd : [Versions -> Entries], bad : BOOLEAN]

\* f's descriptor, or one that is being written for f, knows v.
Knows(f, v) ==
    \/ desc[f][v] # Absent
    \/ \E w \in WrittenBy(f) : writer[w].fd[v] # Absent
    \/ WorkedOn(f) /\ worker.fd[v] # Absent

Owned == \A f, g \in Files, v \in Versions : Knows(f, v) /\ Knows(g, v) => f = g

\* One path leads to one file, and a file without a ref is untouched.
Rooted ==
    /\ \A f, g \in Files : path[f] \in Paths /\ path[f] = path[g] => f = g
    /\ \A f \in Files : path[f] = "new" =>
          /\ desc[f] = Blank /\ ~WorkedOn(f) /\ CommittedBy(f) = {}
          /\ \A w \in WrittenBy(f) : writer[w].fd = Blank

\* Only write-back leaves versions in the cache.
Modal == ~WriteBack => \A v \in Versions :
    /\ \A f \in Files : desc[f][v].at # "cache"
    /\ \A w \in Writers : writer[w].pc = "upload" => writer[w].fd[v].at # "cache"
    /\ worker.pc \in Busy => worker.fd[v].at # "cache"

Servable(f, v) == desc[f][v].at = "primary" \/ (desc[f][v].at = "cache" /\ v \in cached)

\* d is f's descriptor as a read that goes well returns it.
Held(d, f) == d = desc[f] \/ (d = Blank /\ \A v \in Versions : ~Servable(f, v))

\* A file that is not excused has one writer or the worker, who knows where
\* it is and what its descriptor says.
Exact == \A f \in Files \ excused :
    /\ \A w, x \in WrittenBy(f) : w = x
    /\ WorkedOn(f) => WrittenBy(f) = {}
    /\ \A w \in WrittenBy(f) : Held(writer[w].fd, f)
    /\ \A w \in WrittenBy(f) \cup CommittedBy(f) : path[f] \in Paths => path[f] = writer[w].p
    /\ WorkedOn(f) /\ worker.pc # "finish" => worker.fd = desc[f]

\* When process_one returns without a failure, nothing is left to do for the
\* file it worked on.
Concluded ==
    /\ worker.pc = "mirror" /\ ~worker.bad => Pending(worker.fd) = {}
    /\ worker.pc = "finish" /\ ~worker.bad /\ worker.f \notin excused => ~Lacks(worker.f)

\* Another file that came to the worker's path is still to be announced.
Crossed == worker.pc \in Busy => \A f \in Files \ excused :
    f # worker.f /\ path[f] = worker.p /\ Lacks(f) => CommittedBy(f) # {}

IInv == Typed /\ Owned /\ Rooted /\ Modal /\ Exact /\ Concluded /\ Crossed
        /\ QueueCovers /\ AcknowledgedHeld

-----------------------------------------------------------------------------
(* What the records hold.                                                  *)

\* A request by where it is.
LEMMA RequestFacts ==
    ASSUME Typed, NEW w \in Writers
    PROVE  /\ writer[w].pc \in {"idle", "upload", "enqueue"}
           /\ writer[w].pc = "idle" => writer[w] = Idle
           /\ writer[w].pc = "upload" =>
                 /\ writer[w].f \in Files /\ writer[w].p \in Paths
                 /\ writer[w].fd \in [Versions -> Entries]
                 /\ writer[w].op \in {"append", "redate", "delete"}
           /\ writer[w].pc = "enqueue" => writer[w].f \in Files /\ writer[w].p \in Paths
<1>1. writer[w] \in Requests
  BY Zenon DEF Typed
<1> QED BY SMTT(60), Z3T(60), <1>1 DEF Requests, Idle

\* The worker while it has a file under way.
LEMMA WorkerFacts ==
    ASSUME Typed, worker.pc \in Busy
    PROVE  /\ worker \in [pc : Busy, p : Paths, f : Files, fd : [Versions -> Entries], bad : BOOLEAN]
           /\ worker.f \in Files /\ worker.p \in Paths
           /\ worker.fd \in [Versions -> Entries] /\ worker.bad \in BOOLEAN
BY Zenon DEF Typed, Busy

\* The names of paths.
LEMMA PathFacts == "new" \notin Paths /\ "gone" \notin Paths
BY Zenon, ReplicationAssumption

\* The descriptor without versions.
LEMMA BlankFacts ==
    /\ Blank \in [Versions -> Entries] /\ Absent \in Entries
    /\ Absent.at = "none" /\ \A v \in Versions : Blank[v] = Absent
BY Zenon DEF Blank, Absent, Entries, Where

\* What a read of a descriptor returns.
LEMMA ReadFacts ==
    ASSUME Typed, NEW f \in Files, NEW all \in BOOLEAN, NEW r \in Reads(f, all)
    PROVE  /\ r.fd \in [Versions -> Entries]
           /\ \A v \in Versions : r.fd[v] # Absent => desc[f][v] # Absent
           /\ \A v \in Versions : r.fd[v].at = "cache" => desc[f][v].at = "cache"
           /\ ~r.bad => Held(r.fd, f) /\ (r.fd # Blank => r.fd = desc[f])
<1> DEFINE Sub(d) == /\ d \in [Versions -> Entries]
                     /\ \A v \in Versions : d[v] # Absent => desc[f][v] # Absent
                     /\ \A v \in Versions : d[v].at = "cache" => desc[f][v].at = "cache"
<1>1. desc[f] \in [Versions -> Entries] /\ Sub(desc[f])
  BY Zenon DEF Typed
<1>2. Sub(Blank)
  BY BlankFacts, Zenon
<1>3. ASSUME NEW d \in [Versions -> Entries]
      PROVE  Readable(d) \in {d, Blank}
  BY Zenon DEF Readable
<1>4. ASSUME NEW bad \in SUBSET OnlyPrimary(desc[f])
      PROVE  Sub(Invalidated(desc[f], bad))
  <2> DEFINE d == Invalidated(desc[f], bad)
  <2>1. [at |-> "invalid", copies |-> {}] \in Entries
    BY Zenon DEF Entries, Where
  <2>2. d \in [Versions -> Entries]
    BY Zenon, <1>1, <2>1 DEF Invalidated
  <2>3. ASSUME NEW v \in Versions
        PROVE  /\ d[v] # Absent => desc[f][v] # Absent
               /\ d[v].at = "cache" => desc[f][v].at = "cache"
    <3>1. CASE v \in bad
      <4>1. d[v] = [at |-> "invalid", copies |-> {}] /\ desc[f][v].at = "primary"
        BY Zenon, <3>1, <1>4 DEF Invalidated, OnlyPrimary
      <4> QED BY SMTT(60), Z3T(60), <4>1, BlankFacts
    <3>2. CASE v \notin bad
      BY Zenon, <3>2 DEF Invalidated
    <3> QED BY Zenon, <3>1, <3>2
  <2> QED BY Zenon, <2>2, <2>3
<1>5. ASSUME NEW d \in BadReads(desc[f], all)
      PROVE  Sub(d)
  <2>1. d = Blank \/ \E bad \in SUBSET OnlyPrimary(desc[f]) : d = Readable(Invalidated(desc[f], bad))
    BY Zenon, <1>5 DEF BadReads
  <2>2. ASSUME NEW bad \in SUBSET OnlyPrimary(desc[f]), d = Readable(Invalidated(desc[f], bad))
        PROVE  Sub(d)
    <3>1. d = Blank \/ d = Invalidated(desc[f], bad)
      BY Zenon, <2>2 DEF Readable
    <3> QED BY <1>2, <1>4, <2>2, <3>1, Zenon
  <2> QED BY Zenon, <1>2, <2>1, <2>2
<1>6. CASE r = [fd |-> Readable(desc[f]), bad |-> FALSE]
  <2>1. r.fd = Readable(desc[f])
    BY Zenon, <1>6
  <2>2. r.fd = desc[f] \/ (r.fd = Blank /\ \A v \in Versions : ~Servable(f, v))
    BY Zenon, <2>1 DEF Readable, Servable
  <2>3. Sub(r.fd)
    BY <1>1, <1>2, <2>2, Zenon
  <2> QED BY Zenon, <2>2, <2>3 DEF Held
<1>7. CASE r \in [fd : BadReads(desc[f], all), bad : {TRUE}]
  <2>1. r.fd \in BadReads(desc[f], all) /\ r.bad = TRUE
    BY Zenon, <1>7
  <2> QED BY Zenon, <1>5, <2>1
<1> QED BY Zenon, <1>6, <1>7 DEF Reads

\* A new version is unknown to everyone.
LEMMA FreshFacts ==
    ASSUME Typed, NEW v \in Fresh
    PROVE  /\ v \notin cached /\ v \notin deleted
           /\ \A f \in Files : ~Knows(f, v) /\ desc[f][v] = Absent
           /\ \A w \in Writers : writer[w].pc = "upload" => writer[w].fd[v] = Absent
           /\ worker.pc \in Busy => worker.fd[v] = Absent
<1>1. /\ v \notin cached /\ v \notin deleted /\ \A f \in Files : desc[f][v] = Absent
      /\ \A d \in InFlight : d[v] = Absent
  BY Zenon DEF Fresh, Unused
<1>2. ASSUME NEW w \in Writers, writer[w].pc = "upload"
      PROVE  writer[w].fd[v] = Absent
  BY Zenon, <1>1, <1>2 DEF InFlight
<1>3. ASSUME worker.pc \in Busy
      PROVE  worker.fd[v] = Absent
  BY Zenon, <1>1, <1>3 DEF InFlight
<1>4. ASSUME NEW f \in Files
      PROVE  ~Knows(f, v)
  BY Zenon, <1>1, <1>2, <1>3 DEF Knows, WrittenBy, WorkedOn
<1> QED BY Zenon, <1>1, <1>2, <1>3, <1>4

-----------------------------------------------------------------------------
(* Types.                                                                  *)

\* Requests: the types of the records a step puts into writer.
LEMMA RequestTypes ==
    /\ Idle \in Requests
    /\ \A f \in Files, p \in Paths : [pc |-> "enqueue", f |-> f, p |-> p] \in Requests
    /\ \A op \in {"append", "redate", "delete"}, f \in Files, p \in Paths,
          d \in [Versions -> Entries] :
          [pc |-> "upload", op |-> op, f |-> f, p |-> p, fd |-> d] \in Requests
BY Zenon DEF Requests

\* The queue's operations keep its types.
LEMMA QueueTypes ==
    ASSUME Typed, NEW p \in Paths, Enqueue(p) \/ Done(p) \/ Failed(p)
    PROVE  items' \subseteq Paths /\ saved' \subseteq Paths
BY ZenonT(60) DEF Typed, Enqueue, Done, Failed, SaveQueue

\* What distribution and mirroring make of a descriptor.
LEMMA CopyTypes ==
    ASSUME NEW d \in [Versions -> Entries], NEW ok \in SUBSET Versions, NEW r \in Copies
    PROVE  /\ Distributed(d, ok, r) \in [Versions -> Entries]
           /\ Mirrored(d, r) \in [Versions -> Entries]
<1>1. ASSUME NEW v \in Versions
      PROVE  /\ d[v].at \in Where /\ d[v].copies \in SUBSET Mirrors
             /\ d[v].copies \cup r[v] \in SUBSET Mirrors
             /\ [d[v] EXCEPT !.copies = @ \cup r[v]] \in Entries
             /\ \A a \in {"primary", "cache"} : [at |-> a, copies |-> d[v].copies \cup r[v]] \in Entries
  <2>1. d[v] \in Entries /\ r[v] \in SUBSET Mirrors
    BY Zenon DEF Copies
  <2> QED BY Zenon, <2>1 DEF Entries, Where
<1>2. Distributed(d, ok, r) \in [Versions -> Entries]
  BY Zenon, <1>1, BlankFacts DEF Distributed
<1>3. Mirrored(d, r) \in [Versions -> Entries]
  BY Zenon, <1>1 DEF Mirrored
<1> QED BY Zenon, <1>2, <1>3

\* No step changes the scenario or pardons a file.
LEMMA Constant ==
    ASSUME [Next]_vars
    PROVE  scene' = scene /\ excused \subseteq excused'
<1>1. CASE \E w \in Writers : Request(w) \/ WriteEnqueue(w) \/ WriteRaises(w)
  BY ZenonT(60), <1>1 DEF Request, WriteEnqueue, WriteRaises, WriteBegin, CreateBegin, AppendCommit, RedateCommit,
              DeleteCommit, WriteFails
<1>2. CASE Work
  BY ZenonT(60), <1>2 DEF Work, RunOnce, RunEnds, Wake, ProcessGone, ProcessBegin, NothingPending,
              DistributeSome, Distribute, MirrorSome, Mirror, ProcessRaises, ProcessFailed, ProcessDone
<1>3. CASE \E f \in Files : Remove(f) \/ \E p \in Paths : Move(f, p)
  BY Zenon, <1>3 DEF Remove, Move
<1>4. CASE (\E p \in Paths : Elapse(p)) \/ RetryNow \/ Crash
  BY Zenon, <1>4 DEF Elapse, RetryNow, Crash
<1>5. CASE \E v \in Versions : Sweep(v) \/ CacheLoses(v)
  BY Zenon, <1>5 DEF Sweep, CacheLoses
<1>6. CASE UNCHANGED vars
  BY Zenon, <1>6 DEF vars
<1> QED BY Zenon, <1>1, <1>2, <1>3, <1>4, <1>5, <1>6 DEF Next

\* Every step keeps the types.
LEMMA TypedKept ==
    ASSUME Typed, [Next]_vars
    PROVE  Typed'
<1>c. scene' = scene /\ Entries' = Entries /\ Requests' = Requests
  BY Zenon, Constant DEF Entries, Requests, Mirrors
<1>t. /\ desc \in [Files -> [Versions -> Entries]]
      /\ path \in [Files -> Paths \cup {"new", "gone"}]
      /\ cached \subseteq Versions /\ deleted \subseteq Versions
      /\ writer \in [Writers -> Requests]
      /\ items \subseteq Paths /\ saved \subseteq Paths /\ batch \subseteq Paths
      /\ excused \subseteq Files /\ scene \in Scenarios
      /\ worker \in [pc : {"off", "start", "next", "wait", "timer"}]
                \cup [pc : Busy, p : Paths, f : Files, fd : [Versions -> Entries], bad : BOOLEAN]
  BY Zenon DEF Typed
<1> DEFINE Rest == [pc : {"off", "start", "next", "wait", "timer"}]
           Full == [pc : Busy, p : Paths, f : Files, fd : [Versions -> Entries], bad : BOOLEAN]
<1>1. ASSUME NEW w \in Writers, NEW f \in Files, NEW op \in {"append", "redate", "delete"},
             WriteBegin(w, f, op)
      PROVE  Typed'
  <2>1. PICK r \in Reads(f, FALSE) :
           /\ writer' = [writer EXCEPT ![w] =
                [pc |-> "upload", op |-> op, f |-> f, p |-> path[f], fd |-> r.fd]]
           /\ excused' = IF r.bad \/ Overlaps(f) THEN excused \cup {f} ELSE excused
    BY Zenon, <1>1 DEF WriteBegin
  <2>2. r.fd \in [Versions -> Entries] /\ path[f] \in Paths
    BY ZenonT(60), <1>1, ReadFacts DEF WriteBegin
  <2>3. writer' \in [Writers -> Requests] /\ excused' \subseteq Files
    BY Zenon, <1>t, <2>1, <2>2, RequestTypes
  <2> QED BY Zenon, <1>t, <1>c, <1>1, <2>3 DEF Typed, WriteBegin, files, queue
<1>2. ASSUME NEW w \in Writers, NEW f \in Files, NEW p \in Paths, CreateBegin(w, f, p)
      PROVE  Typed'
  <2>1. writer' \in [Writers -> Requests]
    BY Zenon, <1>t, <1>2, RequestTypes, BlankFacts DEF CreateBegin
  <2> QED BY Zenon, <1>t, <1>c, <1>2, <2>1 DEF Typed, CreateBegin, files, queue
<1>3. ASSUME NEW w \in Writers, AppendCommit(w)
      PROVE  Typed'
  <2>1. /\ writer[w].pc = "upload" /\ writer[w].f \in Files /\ writer[w].p \in Paths
        /\ writer[w].fd \in [Versions -> Entries]
    BY Zenon, <1>3, RequestFacts DEF AppendCommit
  <2>2. PICK v \in Versions, e \in Entries :
           /\ desc' = [desc EXCEPT ![writer[w].f] = WithVersion(writer[w].fd, v, e)]
           /\ cached' = IF e.at = "cache" THEN cached \cup {v} ELSE cached
           /\ path' = IF path[writer[w].f] = "new" THEN [path EXCEPT ![writer[w].f] = writer[w].p]
                      ELSE path
           /\ writer' = [writer EXCEPT ![w] = IF Tells(WithVersion(writer[w].fd, v, e))
                           THEN [pc |-> "enqueue", f |-> writer[w].f, p |-> writer[w].p] ELSE Idle]
    BY Zenon, <1>3 DEF AppendCommit
  <2>3. WithVersion(writer[w].fd, v, e) \in [Versions -> Entries]
    BY Zenon, <2>1 DEF WithVersion
  <2>4. desc' \in [Files -> [Versions -> Entries]] /\ cached' \subseteq Versions
    BY Zenon, <1>t, <2>1, <2>2, <2>3
  <2>5. path' \in [Files -> Paths \cup {"new", "gone"}]
    BY Zenon, <1>t, <2>1, <2>2
  <2>6. writer' \in [Writers -> Requests]
    BY ZenonT(60), <1>t, <2>1, <2>2, RequestTypes
  <2> QED BY Zenon, <1>t, <1>c, <1>3, <2>4, <2>5, <2>6 DEF Typed, AppendCommit, queue
<1>4. ASSUME NEW w \in Writers, RedateCommit(w)
      PROVE  Typed'
  <2>1. writer[w].f \in Files /\ writer[w].fd \in [Versions -> Entries]
    BY Zenon, <1>4, RequestFacts DEF RedateCommit
  <2>2. desc' \in [Files -> [Versions -> Entries]] /\ writer' \in [Writers -> Requests]
    BY Zenon, <1>t, <1>4, <2>1, RequestTypes DEF RedateCommit
  <2> QED BY Zenon, <1>t, <1>c, <1>4, <2>2 DEF Typed, RedateCommit, queue
<1>5. ASSUME NEW w \in Writers, DeleteCommit(w)
      PROVE  Typed'
  <2>1. writer[w].f \in Files /\ writer[w].fd \in [Versions -> Entries]
    BY Zenon, <1>5, RequestFacts DEF DeleteCommit
  <2>2. PICK v \in Versions :
              /\ desc' = [desc EXCEPT ![writer[w].f] = [writer[w].fd EXCEPT ![v] = Absent]]
              /\ deleted' = deleted \cup {v} /\ cached' = cached \ {v}
    BY Zenon, <1>5 DEF DeleteCommit
  <2>3. [writer[w].fd EXCEPT ![v] = Absent] \in [Versions -> Entries]
    BY Zenon, <2>1, BlankFacts
  <2>4. /\ desc' \in [Files -> [Versions -> Entries]]
        /\ deleted' \subseteq Versions /\ cached' \subseteq Versions
    BY Zenon, <1>t, <2>1, <2>2, <2>3
  <2>5. writer' \in [Writers -> Requests]
    BY Zenon, <1>t, <1>5, RequestTypes DEF DeleteCommit
  <2> QED BY Zenon, <1>t, <1>c, <1>5, <2>4, <2>5 DEF Typed, DeleteCommit, queue
<1>6. ASSUME NEW w \in Writers, WriteFails(w)
      PROVE  Typed'
  <2>1. writer' \in [Writers -> Requests]
    BY ZenonT(60), <1>t, <1>6, RequestTypes DEF WriteFails
  <2> QED BY Zenon, <1>t, <1>c, <1>6, <2>1 DEF Typed, WriteFails, files, queue
<1>7. ASSUME NEW w \in Writers, WriteEnqueue(w)
      PROVE  Typed'
  <2>1. writer[w].f \in Files /\ writer[w].p \in Paths
    BY Zenon, <1>7, RequestFacts DEF WriteEnqueue
  <2>2. items' \subseteq Paths /\ saved' \subseteq Paths
    BY Zenon, <1>7, <2>1, QueueTypes DEF WriteEnqueue
  <2>3. writer' \in [Writers -> Requests] /\ excused' \subseteq Files
    BY Zenon, <1>t, <1>7, <2>1, RequestTypes DEF WriteEnqueue
  <2> QED BY Zenon, <1>t, <1>c, <1>7, <2>2, <2>3 DEF Typed, WriteEnqueue, files
<1>7a. ASSUME NEW w \in Writers, WriteRaises(w)
       PROVE  Typed'
  <2>1. writer[w].f \in Files /\ writer[w].p \in Paths
    BY Zenon, <1>7a, RequestFacts DEF WriteRaises
  <2>2. writer' \in [Writers -> Requests] /\ excused' \subseteq Files
    BY Zenon, <1>t, <1>7a, <2>1, RequestTypes DEF WriteRaises
  <2> QED BY Zenon, <1>t, <1>c, <1>7a, <2>2 DEF Typed, WriteRaises, files, queue
<1>8. ASSUME NEW f \in Files, NEW p \in Paths, Move(f, p)
      PROVE  Typed'
  <2>1. path' \in [Files -> Paths \cup {"new", "gone"}] /\ excused' \subseteq Files
    BY Zenon, <1>t, <1>8 DEF Move
  <2> QED BY Zenon, <1>t, <1>c, <1>8, <2>1 DEF Typed, Move, queue
<1>9. ASSUME NEW f \in Files, Remove(f)
      PROVE  Typed'
  <2>1. path' \in [Files -> Paths \cup {"new", "gone"}] /\ cached' \subseteq Versions
    BY Zenon, <1>t, <1>9 DEF Remove
  <2> QED BY Zenon, <1>t, <1>c, <1>9, <2>1 DEF Typed, Remove, queue
<1>10. CASE RunOnce
  <2>1. batch' \subseteq Paths /\ worker' \in Rest
    BY Zenon, <1>t, <1>10 DEF RunOnce, Ready
  <2> QED BY Zenon, <1>t, <1>c, <1>10, <2>1 DEF Typed, RunOnce, files
<1>11. ASSUME NEW p \in Paths, ProcessGone(p)
       PROVE  Typed'
  <2>1. items' \subseteq Paths /\ saved' \subseteq Paths
    BY ZenonT(60), <1>11, QueueTypes DEF ProcessGone
  <2> QED BY Zenon, <1>t, <1>c, <1>11, <2>1 DEF Typed, ProcessGone, files
<1>12. ASSUME NEW p \in Paths, NEW f \in Files, ProcessBegin(p, f)
       PROVE  Typed'
  <2>1. PICK r \in Reads(f, TRUE) :
          /\ worker' = [pc |-> IF r.fd = Blank THEN "finish" ELSE "distribute",
                        p |-> p, f |-> f, fd |-> r.fd, bad |-> FALSE]
          /\ excused' = IF r.bad \/ WrittenBy(f) # {} THEN excused \cup {f} ELSE excused
    BY Zenon, <1>12 DEF ProcessBegin
  <2>2. r.fd \in [Versions -> Entries]
    BY Zenon, ReadFacts
  <2>3. worker' \in Full /\ excused' \subseteq Files
    BY Zenon, <1>t, <2>1, <2>2 DEF Busy
  <2> QED BY Zenon, <1>t, <1>c, <1>12, <2>3 DEF Typed, ProcessBegin, files, queue
<1>13. CASE NothingPending
  <2>1. worker \in Full
    BY Zenon, <1>13, WorkerFacts DEF NothingPending, Busy
  <2>2. worker' \in Full
    BY Zenon, <1>13, <2>1 DEF NothingPending, Busy
  <2> QED BY Zenon, <1>t, <1>c, <1>13, <2>2 DEF Typed, NothingPending, files, queue
<1>14. CASE DistributeSome
  <2>1. PICK ok \in SUBSET Versions, r \in Copies, bad \in BOOLEAN : Distribute(ok, r, bad)
    BY Zenon, <1>14 DEF DistributeSome
  <2>2. worker \in Full /\ worker.f \in Files /\ worker.fd \in [Versions -> Entries]
    BY Zenon, <2>1, WorkerFacts DEF Distribute, Busy
  <2>3. Distributed(worker.fd, ok, r) \in [Versions -> Entries]
    BY Zenon, <2>2, CopyTypes
  <2>4. worker' \in Full
    BY Zenon, <2>1, <2>2, <2>3 DEF Distribute, Busy
  <2>5. desc' \in [Files -> [Versions -> Entries]] /\ cached' \subseteq Versions
    BY Zenon, <1>t, <2>1, <2>2, <2>3 DEF Distribute
  <2> QED BY Zenon, <1>t, <1>c, <2>1, <2>4, <2>5 DEF Typed, Distribute, queue
<1>15. CASE MirrorSome
  <2>1. PICK r \in Copies, refresh \in BOOLEAN : Mirror(r, refresh)
    BY Zenon, <1>15 DEF MirrorSome
  <2>2. worker \in Full /\ worker.f \in Files /\ worker.fd \in [Versions -> Entries]
    BY Zenon, <2>1, WorkerFacts DEF Mirror, Busy
  <2>3. Mirrored(worker.fd, r) \in [Versions -> Entries]
    BY Zenon, <2>2, CopyTypes
  <2>4. worker' \in Full
    <3>1. (worker.bad \/ StillMissing(Mirrored(worker.fd, r))) \in BOOLEAN
      BY Zenon DEF StillMissing
    <3> QED BY Zenon, <2>1, <2>2, <2>3, <3>1 DEF Mirror, Busy
  <2>5. desc' \in [Files -> [Versions -> Entries]] /\ cached' \subseteq Versions
    BY Zenon, <1>t, <2>1, <2>2, <2>3 DEF Mirror
  <2> QED BY Zenon, <1>t, <1>c, <2>1, <2>4, <2>5 DEF Typed, Mirror, queue
<1>16. CASE ProcessRaises
  <2>1. worker \in Full
    BY Zenon, <1>16, WorkerFacts DEF ProcessRaises, Busy
  <2>2. worker' \in Full /\ cached' \subseteq Versions
    BY ZenonT(60), <1>t, <1>16, <2>1 DEF ProcessRaises, Busy
  <2> QED BY Zenon, <1>t, <1>c, <1>16, <2>2 DEF Typed, ProcessRaises, queue
<1>17. CASE ProcessFailed \/ ProcessDone
  <2>1. worker.p \in Paths
    BY Zenon, <1>17, WorkerFacts DEF ProcessFailed, ProcessDone, Busy
  <2>2. items' \subseteq Paths /\ saved' \subseteq Paths
    BY Zenon, <1>17, <2>1, QueueTypes DEF ProcessFailed, ProcessDone
  <2>3. worker' \in Rest
    BY SMTT(60), Z3T(60), <1>17 DEF ProcessFailed, ProcessDone
  <2> QED BY Zenon, <1>t, <1>c, <1>17, <2>2, <2>3 DEF Typed, ProcessFailed, ProcessDone, files
<1>18. CASE RunEnds \/ Wake
  <2>1. worker' \in Rest
    BY SMTT(60), Z3T(60), <1>18 DEF RunEnds, Wake
  <2> QED BY Zenon, <1>t, <1>c, <1>18, <2>1 DEF Typed, RunEnds, Wake, files, queue
<1>19. CASE (\E p \in Paths : Elapse(p)) \/ RetryNow
  BY Zenon, <1>t, <1>c, <1>19 DEF Typed, Elapse, RetryNow, files
<1>20. CASE Crash
  <2>1. worker' \in Rest /\ writer' \in [Writers -> Requests]
    BY Zenon, <1>20, RequestTypes DEF Crash, Boot
  <2>2. excused' \subseteq Files /\ items' \subseteq Paths
    BY Zenon, <1>t, <1>20 DEF Crash, Loaded
  <2> QED BY Zenon, <1>t, <1>c, <1>20, <2>1, <2>2 DEF Typed, Crash, files
<1>21. ASSUME NEW v \in Versions, Sweep(v) \/ CacheLoses(v)
       PROVE  Typed'
  BY ZenonT(60), <1>t, <1>c, <1>21 DEF Typed, Sweep, CacheLoses, queue
<1>22. CASE UNCHANGED vars
  BY Zenon, <1>t, <1>c, <1>22 DEF Typed, vars, files, queue
<1> QED BY Zenon, <1>1, <1>2, <1>3, <1>4, <1>5, <1>6, <1>7, <1>7a, <1>8, <1>9, <1>10, <1>11, <1>12,
           <1>13, <1>14, <1>15, <1>16, <1>17, <1>18, <1>19, <1>20, <1>21, <1>22
        DEF Next, Request, Work

-----------------------------------------------------------------------------
(* Steps that leave the descriptors and the requests alone.                *)

\* The parts of the invariant about descriptors and requests survive a step
\* that changes neither and starts no work.
LEMMA Frame ==
    ASSUME IInv, scene' = scene, excused \subseteq excused', UNCHANGED <<desc, path, writer>>,
           cached' \subseteq cached, worker' = worker \/ worker'.pc \notin Busy
    PROVE  /\ Owned' /\ Rooted' /\ Modal' /\ Exact' /\ Concluded' /\ Crossed'
           /\ \A f \in Files : (Lacks(f)' => Lacks(f)) /\ CommittedBy(f)' = CommittedBy(f)
<1>1. ASSUME NEW f \in Files
      PROVE  /\ WrittenBy(f)' = WrittenBy(f) /\ CommittedBy(f)' = CommittedBy(f)
             /\ WorkedOn(f)' => WorkedOn(f) /\ worker' = worker
  BY Zenon DEF WrittenBy, CommittedBy, WorkedOn
<1>2. \A f \in Files : Lacks(f)' => Lacks(f)
  BY Zenon DEF Lacks, Mirrors
<1>3. \A f \in Files, v \in Versions : Knows(f, v)' => Knows(f, v)
  BY Zenon, <1>1 DEF Knows
<1>4. Owned'
  BY Zenon, <1>3 DEF IInv, Owned
<1>5. Rooted'
  BY Zenon, <1>1 DEF IInv, Rooted
<1>6. Modal'
  BY Zenon DEF IInv, Modal, WriteBack
<1>7. ASSUME NEW f \in Files, NEW w \in WrittenBy(f), Held(writer[w].fd, f)
      PROVE  Held(writer[w].fd, f)'
  BY Zenon, <1>7 DEF Held, Servable
<1>8. Exact'
  <2> SUFFICES ASSUME NEW f \in Files \ excused'
               PROVE  /\ \A w, x \in WrittenBy(f)' : w = x
                      /\ WorkedOn(f)' => WrittenBy(f)' = {}
                      /\ \A w \in WrittenBy(f)' : Held(writer[w].fd, f)'
                      /\ \A w \in WrittenBy(f)' \cup CommittedBy(f)' :
                            path'[f] \in Paths => path'[f] = writer'[w].p
                      /\ WorkedOn(f)' /\ worker'.pc # "finish" => worker'.fd = desc'[f]
    BY Zenon DEF Exact
  <2>1. f \in Files \ excused
    BY Zenon
  <2> QED BY ZenonT(60), <1>1, <1>7, <2>1 DEF IInv, Exact
<1>9. Concluded'
  BY ZenonT(60), <1>2 DEF IInv, Typed, Concluded, Busy, Pending
<1>10. Crossed'
  BY Zenon, <1>1, <1>2 DEF IInv, Crossed
<1> QED BY Zenon, <1>1, <1>2, <1>4, <1>5, <1>6, <1>8, <1>9, <1>10

\* A queue that keeps the paths of files that lack a copy covers as before.
LEMMA FrameQueue ==
    ASSUME IInv, excused \subseteq excused', UNCHANGED path,
           \A f \in Files \ excused' :
              /\ (Lacks(f)' => Lacks(f)) /\ CommittedBy(f)' = CommittedBy(f)
              /\ Lacks(f)' /\ path[f] \in items => path[f] \in items' \/ CommittedBy(f)' # {}
    PROVE  QueueCovers'
BY Zenon DEF IInv, QueueCovers, Queued

\* Local bytes that stay stay.
LEMMA FrameHeld ==
    ASSUME IInv, scene' = scene, excused \subseteq excused', UNCHANGED <<desc, path, cached>>
    PROVE  AcknowledgedHeld'
BY Zenon DEF IInv, AcknowledgedHeld, Faults

\* A step that leaves a file's descriptor alone, where clients at most end
\* their request for it, keeps what Exact says of the file.
LEMMA FrameExact ==
    ASSUME IInv, NEW f \in Files \ excused,
           path'[f] = path[f], desc'[f] = desc[f], worker' = worker,
           \A v \in Versions : Servable(f, v)' => Servable(f, v),
           WrittenBy(f)' \subseteq WrittenBy(f), CommittedBy(f)' \subseteq CommittedBy(f),
           WorkedOn(f)' <=> WorkedOn(f),
           \A x \in WrittenBy(f)' \cup CommittedBy(f)' : writer'[x] = writer[x]
    PROVE  /\ \A y, x \in WrittenBy(f)' : y = x
           /\ WorkedOn(f)' => WrittenBy(f)' = {}
           /\ \A x \in WrittenBy(f)' : Held(writer[x].fd, f)'
           /\ \A x \in WrittenBy(f)' \cup CommittedBy(f)' :
                 path'[f] \in Paths => path'[f] = writer'[x].p
           /\ WorkedOn(f)' /\ worker'.pc # "finish" => worker'.fd = desc'[f]
<1>1. /\ \A y, x \in WrittenBy(f) : y = x
      /\ WorkedOn(f) => WrittenBy(f) = {}
      /\ \A x \in WrittenBy(f) : Held(writer[x].fd, f)
      /\ \A x \in WrittenBy(f) \cup CommittedBy(f) : path[f] \in Paths => path[f] = writer[x].p
      /\ WorkedOn(f) /\ worker.pc # "finish" => worker.fd = desc[f]
  BY Zenon DEF IInv, Exact
<1>2. ASSUME NEW x \in WrittenBy(f)'
      PROVE  Held(writer[x].fd, f)'
  <2>1. Held(writer[x].fd, f) /\ writer'[x] = writer[x]
    BY Zenon, <1>1
  <2> QED BY Zenon, <2>1 DEF Held
<1>3. \A x \in WrittenBy(f)' \cup CommittedBy(f)' :
          path'[f] \in Paths => path'[f] = writer'[x].p
  BY Zenon, <1>1
<1> QED BY Zenon, <1>1, <1>2, <1>3

\* The worker's and the timers' own steps.
LEMMA QuietKept ==
    ASSUME IInv, Typed', scene' = scene, excused \subseteq excused',
           UNCHANGED <<desc, path, cached, writer, items>>,
           worker' = worker \/ worker'.pc \notin Busy
    PROVE  IInv'
<1>1. /\ Owned' /\ Rooted' /\ Modal' /\ Exact' /\ Concluded' /\ Crossed'
      /\ \A f \in Files : (Lacks(f)' => Lacks(f)) /\ CommittedBy(f)' = CommittedBy(f)
  BY Zenon, Frame
<1>2. QueueCovers'
  BY Zenon, <1>1, FrameQueue
<1>3. AcknowledgedHeld'
  BY Zenon, FrameHeld
<1> QED BY Zenon, <1>1, <1>2, <1>3 DEF IInv

\* process_one for a path that leads nowhere.
LEMMA ProcessGoneKept ==
    ASSUME IInv, Typed', scene' = scene, NEW p \in Paths, ProcessGone(p)
    PROVE  IInv'
<1>u. /\ UNCHANGED <<desc, path, cached, writer, worker, excused>> /\ items' = items \ {p}
      /\ \A f \in Files : path[f] # p
  BY Zenon DEF ProcessGone, Done, files
<1>1. /\ Owned' /\ Rooted' /\ Modal' /\ Exact' /\ Concluded' /\ Crossed'
      /\ \A f \in Files : (Lacks(f)' => Lacks(f)) /\ CommittedBy(f)' = CommittedBy(f)
  BY Zenon, <1>u, Frame
<1>2. QueueCovers'
  BY Zenon, <1>u, <1>1, FrameQueue
<1>3. AcknowledgedHeld'
  BY Zenon, <1>u, FrameHeld
<1> QED BY Zenon, <1>1, <1>2, <1>3 DEF IInv

\* process_one has returned without a failure: the path leaves the queue.
LEMMA ProcessDoneKept ==
    ASSUME IInv, Typed', scene' = scene, ProcessDone
    PROVE  IInv'
<1>u. /\ UNCHANGED <<desc, path, cached, writer, excused>> /\ items' = items \ {worker.p}
      /\ worker.pc = "finish" /\ ~worker.bad /\ worker'.pc = "next"
  BY Zenon DEF ProcessDone, Done, files
<1>b. worker.pc \in Busy /\ worker'.pc \notin Busy
  BY Zenon, <1>u DEF Busy
<1>1. /\ Owned' /\ Rooted' /\ Modal' /\ Exact' /\ Concluded' /\ Crossed'
      /\ \A f \in Files : (Lacks(f)' => Lacks(f)) /\ CommittedBy(f)' = CommittedBy(f)
  BY Zenon, <1>u, <1>b, Frame
<1>2. ASSUME NEW f \in Files \ excused, Lacks(f)', path[f] \in items
      PROVE  path[f] \in items' \/ CommittedBy(f)' # {}
  <2>1. Lacks(f)
    BY Zenon, <1>1, <1>2
  <2>2. f # worker.f
    BY Zenon, <1>u, <2>1 DEF IInv, Concluded
  <2>3. path[f] = worker.p => CommittedBy(f) # {}
    BY Zenon, <1>b, <2>1, <2>2 DEF IInv, Crossed
  <2> QED BY Zenon, <1>u, <1>1, <1>2, <2>3
<1>3. QueueCovers'
  BY Zenon, <1>u, <1>1, <1>2, FrameQueue
<1>4. AcknowledgedHeld'
  BY Zenon, <1>u, FrameHeld
<1> QED BY Zenon, <1>1, <1>3, <1>4 DEF IInv

\* The sweep, while the queue is empty; and a disk that loses an entry.
LEMMA SweepKept ==
    ASSUME IInv, Typed', scene' = scene, NEW v \in Versions, Sweep(v) \/ CacheLoses(v)
    PROVE  IInv'
<1>u. /\ UNCHANGED <<desc, path, writer, worker, items, excused>>
      /\ cached' = cached \ {v}
  BY Zenon DEF Sweep, CacheLoses, queue
<1>1. /\ Owned' /\ Rooted' /\ Modal' /\ Exact' /\ Concluded' /\ Crossed'
      /\ \A f \in Files : (Lacks(f)' => Lacks(f)) /\ CommittedBy(f)' = CommittedBy(f)
  BY Zenon, <1>u, Frame
<1>2. QueueCovers'
  BY Zenon, <1>u, <1>1, FrameQueue
<1>3. AcknowledgedHeld'
  <2>1. CASE "cache" \in Faults
    BY Zenon, <2>1 DEF AcknowledgedHeld, Faults
  <2>2. CASE "cache" \notin Faults
    <3>1. items = {} /\ \A w \in Writers : writer[w].pc # "enqueue"
      BY Zenon, <2>2 DEF Sweep, CacheLoses
    <3>2. \A f \in Files : ~Queued(f)
      BY Zenon, <3>1 DEF Queued, CommittedBy
    <3>3. ASSUME NEW f \in Files \ excused, path[f] \in Paths, NEW u \in Versions,
                 desc[f][u].at = "cache"
          PROVE  FALSE
      <4>1. u \in cached
        BY Zenon, <2>2, <3>3 DEF IInv, AcknowledgedHeld
      <4>2. Lacks(f)
        BY Zenon, <3>3, <4>1 DEF Lacks
      <4> QED BY Zenon, <3>2, <3>3, <4>2 DEF IInv, QueueCovers
    <3> QED BY ZenonT(60), <1>u, <3>3 DEF AcknowledgedHeld
  <2> QED BY Zenon, <2>1, <2>2
<1> QED BY Zenon, <1>1, <1>2, <1>3 DEF IInv

\* A restart.
LEMMA CrashKept ==
    ASSUME IInv, Typed', scene' = scene, Crash
    PROVE  IInv'
<1>u. /\ UNCHANGED <<desc, path, cached>> /\ items' = saved
      /\ writer' = [w \in Writers |-> Idle] /\ worker'.pc \notin Busy
      /\ excused' = excused \cup {f \in Files : CommittedBy(f) # {} \/ path[f] \in items \ saved}
  BY Zenon DEF Crash, files, Loaded, Boot, Busy
<1>1. ASSUME NEW f \in Files
      PROVE  /\ WrittenBy(f)' = {} /\ CommittedBy(f)' = {} /\ ~WorkedOn(f)'
             /\ Lacks(f)' => Lacks(f)
  BY ZenonT(60), <1>u DEF WrittenBy, CommittedBy, WorkedOn, Idle, Lacks, Mirrors
<1>2. \A f \in Files, v \in Versions : Knows(f, v)' => Knows(f, v)
  BY Zenon, <1>u, <1>1 DEF Knows
<1>3. Owned'
  BY Zenon, <1>2 DEF IInv, Owned
<1>4. Rooted'
  BY Zenon, <1>u, <1>1 DEF IInv, Rooted
<1>5. Modal'
  BY Zenon, <1>u DEF IInv, Modal, WriteBack, Idle
<1>6. Exact'
  BY Zenon, <1>u, <1>1 DEF Exact
<1>7. Concluded' /\ Crossed'
  BY Zenon, <1>u DEF Concluded, Crossed, Busy
<1>8. ASSUME NEW f \in Files \ excused', path'[f] \in Paths, Lacks(f)'
      PROVE  Queued(f)'
  <2>1. f \notin excused /\ CommittedBy(f) = {} /\ path[f] \notin items \ saved
    BY ZenonT(60), <1>u, <1>8
  <2>2. Queued(f)
    BY Zenon, <1>u, <1>1, <1>8, <2>1 DEF IInv, QueueCovers
  <2> QED BY Zenon, <1>u, <2>1, <2>2 DEF Queued
<1>9. QueueCovers'
  BY Zenon, <1>8 DEF QueueCovers
<1>10. AcknowledgedHeld'
  BY Zenon, <1>u, FrameHeld
<1> QED BY Zenon, <1>3, <1>4, <1>5, <1>6, <1>7, <1>9, <1>10 DEF IInv

-----------------------------------------------------------------------------
(* Steps on refs.                                                          *)

\* What no change of a ref disturbs.
LEMMA FrameRefs ==
    ASSUME IInv, scene' = scene, excused \subseteq excused', UNCHANGED <<desc, writer, worker>>,
           cached' \subseteq cached
    PROVE  /\ Owned' /\ Modal' /\ Concluded'
           /\ \A f \in Files :
                 /\ WrittenBy(f)' = WrittenBy(f) /\ CommittedBy(f)' = CommittedBy(f)
                 /\ (WorkedOn(f)' <=> WorkedOn(f)) /\ (Lacks(f)' => Lacks(f))
                 /\ \A w \in WrittenBy(f) : Held(writer[w].fd, f) => Held(writer[w].fd, f)'
<1>1. ASSUME NEW f \in Files
      PROVE  /\ WrittenBy(f)' = WrittenBy(f) /\ CommittedBy(f)' = CommittedBy(f)
             /\ (WorkedOn(f)' <=> WorkedOn(f))
  BY Zenon DEF WrittenBy, CommittedBy, WorkedOn
<1>2. \A f \in Files : Lacks(f)' => Lacks(f)
  BY ZenonT(60) DEF Lacks, Mirrors
<1>3. \A f \in Files, v \in Versions : Knows(f, v)' => Knows(f, v)
  BY Zenon, <1>1 DEF Knows
<1>4. Owned'
  BY Zenon, <1>3 DEF IInv, Owned
<1>5. Modal'
  BY Zenon DEF IInv, Modal, WriteBack
<1>6. ASSUME NEW f \in Files, NEW w \in WrittenBy(f), Held(writer[w].fd, f)
      PROVE  Held(writer[w].fd, f)'
  BY Zenon, <1>6 DEF Held, Servable
<1>7. Concluded'
  BY Zenon, <1>2 DEF IInv, Typed, Concluded, Busy, Pending
<1> QED BY Zenon, <1>1, <1>2, <1>4, <1>5, <1>6, <1>7

\* FileApi.move.
LEMMA MoveKept ==
    ASSUME IInv, Typed', scene' = scene, NEW g \in Files, NEW p \in Paths, Move(g, p)
    PROVE  IInv'
<1>u. /\ UNCHANGED <<desc, cached, writer, worker, items>>
      /\ path[g] \in Paths /\ (\A f \in Files : path[f] # p)
      /\ path' = [path EXCEPT ![g] = p]
      /\ excused' = IF path[g] \in items \/ Touched(g) THEN excused \cup {g} ELSE excused
  BY ZenonT(60) DEF Move, queue
<1>p. path'[g] = p /\ \A f \in Files : f # g => path'[f] = path[f]
  BY Zenon, <1>u DEF IInv, Typed
<1>e. /\ excused \subseteq excused'
      /\ g \notin excused' => path[g] \notin items /\ WrittenBy(g) = {} /\ CommittedBy(g) = {}
  BY ZenonT(60), <1>u DEF Touched
<1>1. /\ Owned' /\ Modal' /\ Concluded'
      /\ \A f \in Files :
             /\ WrittenBy(f)' = WrittenBy(f) /\ CommittedBy(f)' = CommittedBy(f)
             /\ (WorkedOn(f)' <=> WorkedOn(f)) /\ (Lacks(f)' => Lacks(f))
             /\ \A w \in WrittenBy(f) : Held(writer[w].fd, f) => Held(writer[w].fd, f)'
  BY Zenon, <1>u, <1>e, FrameRefs
<1>2. Rooted'
  <2>1. \A f, h \in Files : path'[f] \in Paths /\ path'[f] = path'[h] => f = h
    BY ZenonT(60), <1>u, <1>p DEF IInv, Rooted
  <2>2. \A f \in Files : path'[f] = "new" => f # g /\ path[f] = "new"
    BY Zenon, <1>p, PathFacts
  <2> QED BY ZenonT(60), <1>u, <1>1, <2>1, <2>2 DEF IInv, Rooted
<1>3. Exact'
  <2> SUFFICES ASSUME NEW f \in Files \ excused'
               PROVE  /\ \A w, x \in WrittenBy(f)' : w = x
                      /\ WorkedOn(f)' => WrittenBy(f)' = {}
                      /\ \A w \in WrittenBy(f)' : Held(writer[w].fd, f)'
                      /\ \A w \in WrittenBy(f)' \cup CommittedBy(f)' :
                            path'[f] \in Paths => path'[f] = writer'[w].p
                      /\ WorkedOn(f)' /\ worker'.pc # "finish" => worker'.fd = desc'[f]
    BY Zenon DEF Exact
  <2>1. f \in Files \ excused
    BY Zenon, <1>e
  <2>2. \A w \in WrittenBy(f)' \cup CommittedBy(f)' :
            path'[f] \in Paths => path'[f] = writer'[w].p
    BY ZenonT(60), <1>u, <1>p, <1>e, <1>1, <2>1 DEF IInv, Exact
  <2>3. /\ \A w, x \in WrittenBy(f) : w = x
        /\ WorkedOn(f) => WrittenBy(f) = {}
        /\ \A w \in WrittenBy(f) : Held(writer[w].fd, f)
        /\ WorkedOn(f) /\ worker.pc # "finish" => worker.fd = desc[f]
    BY Zenon, <2>1 DEF IInv, Exact
  <2>4. desc'[f] = desc[f] /\ worker' = worker
    BY Zenon, <1>u, <1>1
  <2> QED BY Zenon, <1>1, <2>2, <2>3, <2>4
<1>4. g \notin excused' => ~Lacks(g)'
  BY Zenon, <1>u, <1>e, <1>1 DEF IInv, QueueCovers, Queued
<1>5. Crossed'
  <2> SUFFICES ASSUME worker'.pc \in Busy, NEW f \in Files \ excused',
                      f # worker'.f, path'[f] = worker'.p, Lacks(f)'
               PROVE  CommittedBy(f)' # {}
    BY Zenon DEF Crossed
  <2>1. f # g /\ path[f] = worker.p /\ Lacks(f) /\ f \notin excused
    BY Zenon, <1>u, <1>p, <1>e, <1>1, <1>4
  <2> QED BY Zenon, <1>u, <1>1, <2>1 DEF IInv, Crossed
<1>6. QueueCovers'
  <2> SUFFICES ASSUME NEW f \in Files \ excused', path'[f] \in Paths, Lacks(f)'
               PROVE  Queued(f)'
    BY Zenon DEF QueueCovers
  <2>1. f # g /\ path'[f] = path[f] /\ Lacks(f) /\ f \notin excused
    BY Zenon, <1>p, <1>e, <1>1, <1>4
  <2> QED BY SMTT(60), Z3T(60), <1>u, <1>1, <2>1 DEF IInv, QueueCovers, Queued
<1>7. AcknowledgedHeld'
  BY Zenon, <1>u, <1>p, <1>e DEF IInv, AcknowledgedHeld, Faults
<1> QED BY Zenon, <1>1, <1>2, <1>3, <1>5, <1>6, <1>7 DEF IInv

\* FileApi.rm.
LEMMA RemoveKept ==
    ASSUME IInv, Typed', scene' = scene, NEW g \in Files, Remove(g)
    PROVE  IInv'
<1>u. /\ UNCHANGED <<desc, writer, worker, items, excused>>
      /\ path' = [path EXCEPT ![g] = "gone"]
      /\ cached' = cached \ {v \in Versions : desc[g][v] # Absent}
  BY ZenonT(60) DEF Remove, queue
<1>p. path'[g] = "gone" /\ \A f \in Files : f # g => path'[f] = path[f]
  BY Zenon, <1>u DEF IInv, Typed
<1>q. \A f \in Files : path'[f] \in Paths \/ path'[f] = "new" => f # g /\ path'[f] = path[f]
  BY ZenonT(60), <1>p, PathFacts
<1>1. /\ Owned' /\ Modal' /\ Concluded'
      /\ \A f \in Files :
             /\ WrittenBy(f)' = WrittenBy(f) /\ CommittedBy(f)' = CommittedBy(f)
             /\ (WorkedOn(f)' <=> WorkedOn(f)) /\ (Lacks(f)' => Lacks(f))
             /\ \A w \in WrittenBy(f) : Held(writer[w].fd, f) => Held(writer[w].fd, f)'
  BY Zenon, <1>u, FrameRefs
<1>2. Rooted'
  <2>1. \A f, h \in Files : path'[f] \in Paths /\ path'[f] = path'[h] => f = h
    BY Zenon, <1>q DEF IInv, Rooted
  <2> QED BY ZenonT(60), <1>u, <1>q, <1>1, <2>1 DEF IInv, Rooted
<1>3. Exact'
  <2> SUFFICES ASSUME NEW f \in Files \ excused'
               PROVE  /\ \A w, x \in WrittenBy(f)' : w = x
                      /\ WorkedOn(f)' => WrittenBy(f)' = {}
                      /\ \A w \in WrittenBy(f)' : Held(writer[w].fd, f)'
                      /\ \A w \in WrittenBy(f)' \cup CommittedBy(f)' :
                            path'[f] \in Paths => path'[f] = writer'[w].p
                      /\ WorkedOn(f)' /\ worker'.pc # "finish" => worker'.fd = desc'[f]
    BY Zenon DEF Exact
  <2>1. f \in Files \ excused
    BY Zenon, <1>u
  <2>2. \A w \in WrittenBy(f)' \cup CommittedBy(f)' :
            path'[f] \in Paths => path'[f] = writer'[w].p
    BY Zenon, <1>u, <1>q, <1>1, <2>1 DEF IInv, Exact
  <2> QED BY ZenonT(60), <1>u, <1>1, <2>1, <2>2 DEF IInv, Exact
<1>4. Crossed'
  <2> SUFFICES ASSUME worker'.pc \in Busy, NEW f \in Files \ excused',
                      f # worker'.f, path'[f] = worker'.p, Lacks(f)'
               PROVE  CommittedBy(f)' # {}
    BY Zenon DEF Crossed
  <2>1. worker.p \in Paths
    BY Zenon, <1>u, WorkerFacts DEF IInv
  <2>2. path[f] = worker.p /\ Lacks(f) /\ f \notin excused
    BY Zenon, <1>u, <1>q, <1>1, <2>1
  <2> QED BY Zenon, <1>u, <1>1, <2>2 DEF IInv, Crossed
<1>5. QueueCovers'
  <2> SUFFICES ASSUME NEW f \in Files \ excused', path'[f] \in Paths, Lacks(f)'
               PROVE  Queued(f)'
    BY Zenon DEF QueueCovers
  <2>1. path'[f] = path[f] /\ Lacks(f) /\ f \notin excused
    BY ZenonT(60), <1>u, <1>q, <1>1
  <2> QED BY SMTT(60), Z3T(60), <1>u, <1>1, <2>1 DEF IInv, QueueCovers, Queued
<1>6. AcknowledgedHeld'
  <2> SUFFICES ASSUME "cache" \notin Faults', NEW f \in Files \ excused', NEW v \in Versions,
                      path'[f] \in Paths, desc'[f][v].at = "cache"
               PROVE  v \in cached'
    BY Zenon DEF AcknowledgedHeld
  <2>1. f # g /\ path[f] \in Paths /\ desc[f][v].at = "cache" /\ v \in cached
    BY Zenon, <1>u, <1>q DEF IInv, AcknowledgedHeld, Faults
  <2>2. desc[f][v] # Absent
    BY Zenon, <2>1, BlankFacts
  <2>3. desc[g][v] = Absent
    BY Zenon, <2>1, <2>2 DEF IInv, Owned, Knows
  <2> QED BY Zenon, <1>u, <2>1, <2>3
<1> QED BY Zenon, <1>1, <1>2, <1>3, <1>4, <1>5, <1>6 DEF IInv

-----------------------------------------------------------------------------
(* Steps of requests.                                                      *)

\* A request begins with what it read of the file, or with nothing.
LEMMA BeginKept ==
    ASSUME IInv, Typed', scene' = scene, excused \subseteq excused',
           NEW w \in Writers, NEW g \in Files, writer[w] = Idle,
           writer'[w].pc = "upload", writer'[w].f = g,
           \A x \in Writers : x # w => writer'[x] = writer[x],
           UNCHANGED <<desc, path, cached, items, worker>>,
           \A v \in Versions : writer'[w].fd[v] # Absent => desc[g][v] # Absent,
           \A v \in Versions : writer'[w].fd[v].at = "cache" => desc[g][v].at = "cache",
           path[g] = "new" => writer'[w].fd = Blank,
           g \notin excused' => WrittenBy(g) = {} /\ ~WorkedOn(g) /\ Held(writer'[w].fd, g),
           path[g] \in Paths => path[g] = writer'[w].p
    PROVE  IInv'
<1>i. writer[w].pc = "idle"
  BY SMTT(60), Z3T(60) DEF Idle
<1>1. ASSUME NEW f \in Files
      PROVE  /\ CommittedBy(f)' = CommittedBy(f) /\ (WorkedOn(f)' <=> WorkedOn(f))
             /\ WrittenBy(f)' = IF f = g THEN WrittenBy(f) \cup {w} ELSE WrittenBy(f)
             /\ w \notin WrittenBy(f) /\ w \notin CommittedBy(f)
             /\ (Lacks(f)' <=> Lacks(f))
  BY ZenonT(60), <1>i DEF WrittenBy, CommittedBy, WorkedOn, Lacks, Mirrors
<1>m. \A f \in Files : \A x \in WrittenBy(f) \cup CommittedBy(f) : x # w /\ writer'[x] = writer[x]
  BY ZenonT(60), <1>1 DEF WrittenBy, CommittedBy
<1>2. Owned'
  <2>1. ASSUME NEW f \in Files, NEW v \in Versions, Knows(f, v)'
        PROVE  Knows(f, v)
    <3>1. CASE desc'[f][v] # Absent \/ (WorkedOn(f)' /\ worker'.fd[v] # Absent)
      BY Zenon, <1>1, <3>1 DEF Knows
    <3>2. ASSUME NEW x \in WrittenBy(f)', writer'[x].fd[v] # Absent
          PROVE  Knows(f, v)
      <4>1. CASE x \in WrittenBy(f)
        <5>1. writer'[x] = writer[x]
          BY Zenon, <1>m, <4>1
        <5>2. writer[x].fd[v] # Absent
          BY Zenon, <3>2, <5>1
        <5> QED BY ZenonT(60), <4>1, <5>2 DEF Knows
      <4>2. CASE x \notin WrittenBy(f)
        <5>1. f = g /\ x = w
          BY ZenonT(60), <1>1, <3>2, <4>2
        <5> QED BY Zenon, <3>2, <5>1 DEF Knows
      <4> QED BY Zenon, <4>1, <4>2
    <3> QED BY Zenon, <2>1, <3>1, <3>2 DEF Knows
  <2> QED BY Zenon, <2>1 DEF IInv, Owned
<1>3. Rooted'
  <2>1. ASSUME NEW f \in Files, path'[f] = "new"
        PROVE  /\ desc'[f] = Blank /\ ~WorkedOn(f)' /\ CommittedBy(f)' = {}
               /\ \A x \in WrittenBy(f)' : writer'[x].fd = Blank
    <3>1. /\ desc[f] = Blank /\ ~WorkedOn(f) /\ CommittedBy(f) = {}
          /\ \A x \in WrittenBy(f) : writer[x].fd = Blank
      BY Zenon, <2>1 DEF IInv, Rooted
    <3>2. ASSUME NEW x \in WrittenBy(f)'
          PROVE  writer'[x].fd = Blank
      <4>1. CASE x \in WrittenBy(f)
        BY ZenonT(60), <1>m, <3>1, <4>1
      <4>2. CASE x \notin WrittenBy(f)
        BY ZenonT(60), <1>1, <2>1, <4>2
      <4> QED BY Zenon, <4>1, <4>2
    <3> QED BY Zenon, <1>1, <3>1, <3>2
  <2> QED BY Zenon, <2>1 DEF IInv, Rooted
<1>4. Modal'
  <2> SUFFICES ASSUME ~WriteBack', NEW v \in Versions
               PROVE  /\ \A f \in Files : desc'[f][v].at # "cache"
                      /\ \A x \in Writers : writer'[x].pc = "upload" => writer'[x].fd[v].at # "cache"
                      /\ worker'.pc \in Busy => worker'.fd[v].at # "cache"
    BY Zenon DEF Modal
  <2>1. ~WriteBack
    BY Zenon DEF WriteBack
  <2> QED BY ZenonT(60), <2>1 DEF IInv, Modal
<1>5. Exact'
  <2> SUFFICES ASSUME NEW f \in Files \ excused'
               PROVE  /\ \A y, x \in WrittenBy(f)' : y = x
                      /\ WorkedOn(f)' => WrittenBy(f)' = {}
                      /\ \A x \in WrittenBy(f)' : Held(writer[x].fd, f)'
                      /\ \A x \in WrittenBy(f)' \cup CommittedBy(f)' :
                            path'[f] \in Paths => path'[f] = writer'[x].p
                      /\ WorkedOn(f)' /\ worker'.pc # "finish" => worker'.fd = desc'[f]
    BY Zenon DEF Exact
  <2>1. f \in Files \ excused
    BY Zenon
  <2>2. WorkedOn(f)' /\ worker'.pc # "finish" => worker'.fd = desc'[f]
    BY Zenon, <1>1, <2>1 DEF IInv, Exact
  <2>3. CASE f # g
    <3>1. WrittenBy(f)' = WrittenBy(f) /\ CommittedBy(f)' = CommittedBy(f)
      BY Zenon, <1>1, <2>3
    <3>2. \A v \in Versions : Servable(f, v)' => Servable(f, v)
      BY Zenon DEF Servable
    <3>3. /\ path'[f] = path[f] /\ desc'[f] = desc[f] /\ worker' = worker
          /\ WrittenBy(f)' \subseteq WrittenBy(f) /\ CommittedBy(f)' \subseteq CommittedBy(f)
          /\ WorkedOn(f)' <=> WorkedOn(f)
          /\ \A x \in WrittenBy(f)' \cup CommittedBy(f)' : writer'[x] = writer[x]
      BY ZenonT(60), <1>m, <1>1, <2>1, <3>1
    <3> QED BY ZenonT(60), <2>1, <3>2, <3>3, FrameExact
  <2>4. CASE f = g
    <3>1. WrittenBy(f)' = {w} /\ ~WorkedOn(f)'
      BY ZenonT(60), <1>1, <2>4
    <3>2. Held(writer[w].fd, f)'
      BY Zenon, <2>4 DEF Held, Servable
    <3>3. \A x \in CommittedBy(f)' : path'[f] \in Paths => path'[f] = writer'[x].p
      <4>1. \A x \in CommittedBy(f) : path[f] \in Paths => path[f] = writer[x].p
        BY Zenon, <2>1 DEF IInv, Exact
      <4>2. CommittedBy(f)' = CommittedBy(f)
        BY Zenon, <1>1
      <4> QED BY ZenonT(60), <1>m, <4>1, <4>2
    <3>4. path'[f] \in Paths => path'[f] = writer'[w].p
      BY Zenon, <2>4
    <3> QED BY Zenon, <3>1, <3>2, <3>3, <3>4
  <2> QED BY Zenon, <2>3, <2>4
<1>6. Concluded'
  BY ZenonT(60), <1>1 DEF IInv, Typed, Concluded, Busy, Pending
<1>7. Crossed'
  BY ZenonT(60), <1>1 DEF IInv, Crossed
<1>8. QueueCovers'
  BY Zenon, <1>1, FrameQueue
<1>9. AcknowledgedHeld'
  BY Zenon, FrameHeld
<1> QED BY ZenonT(60), <1>2, <1>3, <1>4, <1>5, <1>6, <1>7, <1>8, <1>9 DEF IInv

\* A client reads the descriptor of a file.
LEMMA WriteBeginKept ==
    ASSUME IInv, Typed', scene' = scene, NEW w \in Writers, NEW g \in Files, NEW op,
           WriteBegin(w, g, op)
    PROVE  IInv'
<1>1. PICK r \in Reads(g, FALSE) :
          /\ writer' = [writer EXCEPT ![w] =
                [pc |-> "upload", op |-> op, f |-> g, p |-> path[g], fd |-> r.fd]]
          /\ excused' = IF r.bad \/ Overlaps(g) THEN excused \cup {g} ELSE excused
  BY Zenon DEF WriteBegin
<1>u. writer[w] = Idle /\ path[g] \in Paths /\ UNCHANGED <<desc, path, cached, items, worker>>
  BY Zenon DEF WriteBegin, files, queue
<1>2. /\ \A v \in Versions : r.fd[v] # Absent => desc[g][v] # Absent
      /\ \A v \in Versions : r.fd[v].at = "cache" => desc[g][v].at = "cache"
      /\ ~r.bad => Held(r.fd, g)
  BY Zenon, ReadFacts DEF IInv
<1>3. /\ writer'[w].pc = "upload" /\ writer'[w].f = g /\ writer'[w].p = path[g]
      /\ writer'[w].fd = r.fd /\ \A x \in Writers : x # w => writer'[x] = writer[x]
  BY Zenon, <1>1 DEF IInv, Typed
<1>4. path[g] # "new"
  BY Zenon, <1>u, PathFacts
<1>5. excused \subseteq excused' /\
      (g \notin excused' => WrittenBy(g) = {} /\ ~WorkedOn(g) /\ Held(r.fd, g))
  BY Zenon, <1>1, <1>2 DEF Overlaps
<1>6. /\ \A v \in Versions : writer'[w].fd[v] # Absent => desc[g][v] # Absent
      /\ \A v \in Versions : writer'[w].fd[v].at = "cache" => desc[g][v].at = "cache"
      /\ path[g] = "new" => writer'[w].fd = Blank
      /\ g \notin excused' => WrittenBy(g) = {} /\ ~WorkedOn(g) /\ Held(writer'[w].fd, g)
  BY ZenonT(60), <1>2, <1>3, <1>4, <1>5
<1> QED BY Zenon, <1>u, <1>3, <1>5, <1>6, BeginKept

\* A client creates a file.
LEMMA CreateBeginKept ==
    ASSUME IInv, Typed', scene' = scene, NEW w \in Writers, NEW g \in Files, NEW p \in Paths,
           CreateBegin(w, g, p)
    PROVE  IInv'
<1>u. /\ writer[w] = Idle /\ path[g] = "new" /\ WrittenBy(g) = {}
      /\ UNCHANGED <<desc, path, cached, items, worker, excused>>
      /\ writer' = [writer EXCEPT ![w] =
            [pc |-> "upload", op |-> "append", f |-> g, p |-> p, fd |-> Blank]]
  BY Zenon DEF CreateBegin, files, queue
<1>1. /\ writer'[w].pc = "upload" /\ writer'[w].f = g /\ writer'[w].fd = Blank
      /\ \A x \in Writers : x # w => writer'[x] = writer[x]
  BY Zenon, <1>u DEF IInv, Typed
<1>2. \A v \in Versions : Blank[v] = Absent /\ Blank[v].at # "cache"
  BY Zenon, BlankFacts
<1>3. desc[g] = Blank /\ ~WorkedOn(g)
  BY Zenon, <1>u DEF IInv, Rooted
<1>4. Held(Blank, g) /\ path[g] \notin Paths
  BY Zenon, <1>u, <1>3, PathFacts DEF Held
<1> QED BY ZenonT(60), <1>u, <1>1, <1>2, <1>3, <1>4, BeginKept

\* A request that wrote nothing ends.
LEMMA WriteFailsKept ==
    ASSUME IInv, Typed', scene' = scene, NEW w \in Writers, WriteFails(w)
    PROVE  IInv'
<1>u. /\ UNCHANGED <<desc, path, cached, items, worker, excused>>
      /\ writer[w].pc = "upload" /\ writer' = [writer EXCEPT ![w] = Idle]
  BY Zenon DEF WriteFails, files, queue
<1>w. writer'[w].pc = "idle" /\ \A x \in Writers : x # w => writer'[x] = writer[x]
  BY Zenon, <1>u DEF IInv, Typed, Idle
<1>1. ASSUME NEW f \in Files
      PROVE  /\ CommittedBy(f)' = CommittedBy(f) /\ (WorkedOn(f)' <=> WorkedOn(f))
             /\ WrittenBy(f)' = WrittenBy(f) \ {w} /\ w \notin CommittedBy(f)
             /\ (Lacks(f)' <=> Lacks(f))
  BY ZenonT(60), <1>u, <1>w DEF WrittenBy, CommittedBy, WorkedOn, Lacks, Mirrors
<1>m. \A f \in Files : \A x \in WrittenBy(f)' \cup CommittedBy(f)' : writer'[x] = writer[x]
  BY Zenon, <1>w, <1>1 DEF WrittenBy, CommittedBy
<1>2. Owned'
  <2>1. \A f \in Files, v \in Versions : Knows(f, v)' => Knows(f, v)
    BY SMTT(60), ZenonT(60), <1>u, <1>m, <1>1 DEF Knows
  <2> QED BY ZenonT(60), <2>1 DEF IInv, Owned
<1>3. Rooted'
  <2>1. ASSUME NEW f \in Files, path'[f] = "new"
        PROVE  /\ desc'[f] = Blank /\ ~WorkedOn(f)' /\ CommittedBy(f)' = {}
               /\ \A x \in WrittenBy(f)' : writer'[x].fd = Blank
    <3>1. /\ desc[f] = Blank /\ ~WorkedOn(f) /\ CommittedBy(f) = {}
          /\ \A x \in WrittenBy(f) : writer[x].fd = Blank
      BY Zenon, <1>u, <2>1 DEF IInv, Rooted
    <3> QED BY Zenon, <1>u, <1>m, <1>1, <3>1
  <2> QED BY Zenon, <1>u, <2>1 DEF IInv, Rooted
<1>4. Modal'
  BY ZenonT(60), <1>u, <1>w DEF IInv, Modal, WriteBack
<1>5. Exact'
  <2> SUFFICES ASSUME NEW f \in Files \ excused'
               PROVE  /\ \A y, x \in WrittenBy(f)' : y = x
                      /\ WorkedOn(f)' => WrittenBy(f)' = {}
                      /\ \A x \in WrittenBy(f)' : Held(writer[x].fd, f)'
                      /\ \A x \in WrittenBy(f)' \cup CommittedBy(f)' :
                            path'[f] \in Paths => path'[f] = writer'[x].p
                      /\ WorkedOn(f)' /\ worker'.pc # "finish" => worker'.fd = desc'[f]
    BY Zenon DEF Exact
  <2>1. f \in Files \ excused
    BY Zenon, <1>u
  <2>2. \A v \in Versions : Servable(f, v)' => Servable(f, v)
    BY Zenon, <1>u DEF Servable
  <2> QED BY Zenon, <1>u, <1>m, <1>1, <2>1, <2>2, FrameExact
<1>6. Concluded'
  BY ZenonT(60), <1>u, <1>1 DEF IInv, Typed, Concluded, Busy, Pending
<1>7. Crossed'
  BY Zenon, <1>u, <1>1 DEF IInv, Crossed
<1>8. QueueCovers'
  BY Zenon, <1>u, <1>1, FrameQueue
<1>9. AcknowledgedHeld'
  BY Zenon, <1>u, FrameHeld
<1> QED BY Zenon, <1>2, <1>3, <1>4, <1>5, <1>6, <1>7, <1>8, <1>9 DEF IInv

\* A request that has written its descriptor ends: its path is in the queue,
\* and not for an earlier file, or the file is excused.
LEMMA WriteEndsKept ==
    ASSUME IInv, Typed', scene' = scene, NEW w \in Writers, NEW g, g = writer[w].f,
           UNCHANGED <<desc, path, cached, worker>>, items \subseteq items',
           writer[w].pc = "enqueue", writer' = [writer EXCEPT ![w] = Idle],
           excused \subseteq excused',
           g \notin excused' => /\ writer[w].p \in items'
                               /\ ~(worker.pc \in Busy /\ worker.p = writer[w].p /\ worker.f # g)
    PROVE  IInv'
<1>u. /\ desc' = desc /\ path' = path /\ cached' = cached /\ worker' = worker
      /\ items \subseteq items' /\ writer[w].pc = "enqueue" /\ writer' = [writer EXCEPT ![w] = Idle]
      /\ g \notin excused' => /\ writer[w].p \in items'
                              /\ ~(worker.pc \in Busy /\ worker.p = writer[w].p /\ worker.f # g)
  BY Zenon
<1>w. writer'[w].pc = "idle" /\ \A x \in Writers : x # w => writer'[x] = writer[x]
  <2>1. writer \in [Writers -> Requests]
    BY Zenon DEF IInv, Typed
  <2>2. writer' = [writer EXCEPT ![w] = Idle]
    BY Zenon, <1>u
  <2>3. writer'[w] = Idle /\ \A x \in Writers : x # w => writer'[x] = writer[x]
    BY ZenonT(30), SMTT(60), Z3T(60), <2>1, <2>2
  <2> QED BY SMTT(60), Z3T(60), <2>3 DEF Idle
<1>1. ASSUME NEW f \in Files
      PROVE  /\ CommittedBy(f)' = CommittedBy(f) \ {w} /\ (WorkedOn(f)' <=> WorkedOn(f))
             /\ WrittenBy(f)' = WrittenBy(f) /\ w \notin WrittenBy(f)
             /\ (Lacks(f)' <=> Lacks(f))
  BY ZenonT(60), <1>u, <1>w DEF WrittenBy, CommittedBy, WorkedOn, Lacks, Mirrors
<1>m. \A f \in Files : \A x \in WrittenBy(f)' \cup CommittedBy(f)' : writer'[x] = writer[x]
  BY Zenon, <1>w, <1>1 DEF WrittenBy, CommittedBy
<1>e. excused \subseteq excused'
  BY Zenon
<1>2. Owned'
  <2>1. \A f \in Files, v \in Versions : Knows(f, v)' => Knows(f, v)
    BY ZenonT(60), <1>u, <1>m, <1>1 DEF Knows
  <2> QED BY Zenon, <2>1 DEF IInv, Owned
<1>3. Rooted'
  <2>1. ASSUME NEW f \in Files, path'[f] = "new"
        PROVE  /\ desc'[f] = Blank /\ ~WorkedOn(f)' /\ CommittedBy(f)' = {}
               /\ \A x \in WrittenBy(f)' : writer'[x].fd = Blank
    <3>1. /\ desc[f] = Blank /\ ~WorkedOn(f) /\ CommittedBy(f) = {}
          /\ \A x \in WrittenBy(f) : writer[x].fd = Blank
      BY Zenon, <1>u, <2>1 DEF IInv, Rooted
    <3> QED BY Zenon, <1>u, <1>m, <1>1, <3>1
  <2> QED BY Zenon, <1>u, <2>1 DEF IInv, Rooted
<1>4. Modal'
  BY ZenonT(60), <1>u, <1>w DEF IInv, Modal, WriteBack
<1>5. Exact'
  <2> SUFFICES ASSUME NEW f \in Files \ excused'
               PROVE  /\ \A y, x \in WrittenBy(f)' : y = x
                      /\ WorkedOn(f)' => WrittenBy(f)' = {}
                      /\ \A x \in WrittenBy(f)' : Held(writer[x].fd, f)'
                      /\ \A x \in WrittenBy(f)' \cup CommittedBy(f)' :
                            path'[f] \in Paths => path'[f] = writer'[x].p
                      /\ WorkedOn(f)' /\ worker'.pc # "finish" => worker'.fd = desc'[f]
    BY Zenon DEF Exact
  <2>1. f \in Files \ excused
    BY Zenon, <1>e
  <2>2. \A v \in Versions : Servable(f, v)' => Servable(f, v)
    BY Zenon, <1>u DEF Servable
  <2> QED BY ZenonT(60), <1>u, <1>m, <1>1, <2>1, <2>2, FrameExact
<1>6. Concluded'
  <2>1. Concluded /\ Pending(worker.fd)' = Pending(worker.fd)
    BY Zenon, <1>u DEF IInv, Pending
  <2>2. ASSUME worker.pc = "finish", worker.f \notin excused', ~worker.bad
        PROVE  ~Lacks(worker.f)'
    <3>1. worker.f \in Files /\ worker.f \notin excused
      BY Zenon, <1>e, <2>2, WorkerFacts DEF IInv, Busy
    <3> QED BY Zenon, <1>1, <2>1, <2>2, <3>1 DEF Concluded
  <2> QED BY Zenon, <1>u, <2>1, <2>2 DEF Concluded
<1>g. ASSUME NEW f \in Files \ excused', w \in CommittedBy(f), path[f] \in Paths
      PROVE  f = g /\ path[f] = writer[w].p
  BY Zenon, <1>e, <1>g DEF IInv, Exact, CommittedBy
<1>7. Crossed'
  <2> SUFFICES ASSUME worker'.pc \in Busy, NEW f \in Files \ excused',
                      f # worker'.f, path'[f] = worker'.p, Lacks(f)'
               PROVE  CommittedBy(f)' # {}
    BY Zenon DEF Crossed
  <2>1. worker.p \in Paths /\ path[f] = worker.p /\ f \notin excused /\ Lacks(f)
    BY Zenon, <1>u, <1>e, <1>1, WorkerFacts DEF IInv
  <2>2. CommittedBy(f) # {}
    BY Zenon, <1>u, <2>1 DEF IInv, Crossed
  <2>3. w \notin CommittedBy(f)
    BY ZenonT(60), <1>u, <1>g, <2>1
  <2> QED BY ZenonT(60), <1>1, <2>2, <2>3
<1>8. QueueCovers'
  <2> SUFFICES ASSUME NEW f \in Files \ excused', path'[f] \in Paths, Lacks(f)'
               PROVE  Queued(f)'
    BY Zenon DEF QueueCovers
  <2>1. path'[f] = path[f] /\ path[f] \in Paths /\ Queued(f)
    BY Zenon, <1>u, <1>e, <1>1 DEF IInv, QueueCovers
  <2>2. CASE path[f] \in items
    BY Zenon, <1>u, <2>1, <2>2 DEF Queued
  <2>3. CASE w \in CommittedBy(f)
    BY Zenon, <1>u, <1>g, <2>1, <2>3 DEF Queued
  <2>4. CASE CommittedBy(f) # {} /\ w \notin CommittedBy(f)
    BY Zenon, <1>1, <2>4 DEF Queued
  <2> QED BY Zenon, <2>1, <2>2, <2>3, <2>4 DEF Queued
<1>9. AcknowledgedHeld'
  BY ZenonT(60), <1>u, <1>e, FrameHeld
<1> QED BY Zenon, <1>2, <1>3, <1>4, <1>5, <1>6, <1>7, <1>8, <1>9 DEF IInv

\* A request that is told to the queue ends, and so does one that raises.
LEMMA WriteEnqueueKept ==
    ASSUME IInv, Typed', scene' = scene, NEW w \in Writers, WriteEnqueue(w) \/ WriteRaises(w)
    PROVE  IInv'
<1>1. CASE WriteEnqueue(w)
  <2>1. /\ UNCHANGED <<desc, path, cached, worker>> /\ items' = items \cup {writer[w].p}
        /\ writer[w].pc = "enqueue" /\ writer' = [writer EXCEPT ![w] = Idle]
        /\ excused' = IF worker.pc \in Busy /\ worker.p = writer[w].p /\ worker.f # writer[w].f
                      THEN excused \cup {writer[w].f} ELSE excused
    BY Zenon, <1>1 DEF WriteEnqueue, Enqueue, files
  <2>2. /\ items \subseteq items' /\ excused \subseteq excused' /\ writer[w].p \in items'
        /\ writer[w].f \notin excused' =>
              ~(worker.pc \in Busy /\ worker.p = writer[w].p /\ worker.f # writer[w].f)
    BY Zenon, <2>1
  <2> QED BY Zenon, <2>1, <2>2, WriteEndsKept
<1>2. CASE WriteRaises(w)
  <2>1. /\ UNCHANGED <<desc, path, cached, worker, items>>
        /\ writer[w].pc = "enqueue" /\ writer' = [writer EXCEPT ![w] = Idle]
        /\ excused' = IF Covered(writer[w].p, writer[w].f) THEN excused ELSE excused \cup {writer[w].f}
    BY Zenon, <1>2 DEF WriteRaises, files, queue
  <2>2. /\ items \subseteq items' /\ excused \subseteq excused'
        /\ writer[w].f \notin excused' =>
              /\ writer[w].p \in items'
              /\ ~(worker.pc \in Busy /\ worker.p = writer[w].p /\ worker.f # writer[w].f)
    BY Zenon, <2>1 DEF Covered
  <2> QED BY Zenon, <2>1, <2>2, WriteEndsKept
<1> QED BY Zenon, <1>1, <1>2

\* A request that changed nothing or took versions away writes the
\* descriptor.
LEMMA CommitKept ==
    ASSUME IInv, Typed', scene' = scene, NEW w \in Writers, NEW g \in Files,
           UNCHANGED <<path, items, worker, excused>>, cached' \subseteq cached,
           writer[w].pc = "upload", writer[w].f = g, writer[w].fd # Blank,
           writer' = [writer EXCEPT ![w] = Idle],
           \A f \in Files : f # g => desc'[f] = desc[f],
           \A v \in Versions : desc'[g][v] = writer[w].fd[v] \/ desc'[g][v] = Absent,
           \A v \in cached \ cached' : writer[w].fd[v] # Absent /\ desc'[g][v] = Absent
    PROVE  IInv'
<1>w. writer'[w].pc = "idle" /\ \A x \in Writers : x # w => writer'[x] = writer[x]
  BY ZenonT(60) DEF IInv, Typed, Idle
<1>1. ASSUME NEW f \in Files
      PROVE  /\ CommittedBy(f)' = CommittedBy(f) /\ (WorkedOn(f)' <=> WorkedOn(f))
             /\ WrittenBy(f)' = WrittenBy(f) \ {w} /\ w \notin CommittedBy(f)
  BY SMTT(60), Z3T(60), <1>w DEF WrittenBy, CommittedBy, WorkedOn
<1>m. \A f \in Files : \A x \in WrittenBy(f)' \cup CommittedBy(f)' : writer'[x] = writer[x]
  BY ZenonT(60), <1>w, <1>1 DEF WrittenBy, CommittedBy
<1>g. w \in WrittenBy(g) /\ \A f \in Files : w \in WrittenBy(f) => f = g
  BY Zenon DEF WrittenBy
<1>x. g \notin excused => /\ writer[w].fd = desc[g] /\ WrittenBy(g)' = {} /\ ~WorkedOn(g)
                          /\ w \in WrittenBy(g)
  BY ZenonT(60), <1>g, <1>1 DEF IInv, Exact, Held
<1>l. ASSUME NEW f \in Files \ excused, Lacks(f)'
      PROVE  Lacks(f)
  <2>1. CASE f # g
    BY ZenonT(60), <1>l, <2>1 DEF Lacks, Mirrors
  <2>2. CASE f = g
    <3>1. \A v \in Versions : desc'[f][v] = desc[f][v] \/ desc'[f][v] = Absent
      BY Zenon, <1>x, <2>2
    <3> QED BY ZenonT(60), <1>l, <3>1, BlankFacts DEF Lacks, Mirrors
  <2> QED BY Zenon, <2>1, <2>2
<1>2. Owned'
  <2>1. ASSUME NEW f \in Files, NEW v \in Versions, Knows(f, v)'
        PROVE  Knows(f, v)
    <3>1. CASE desc'[f][v] # Absent
      BY ZenonT(60), <1>g, <3>1 DEF Knows
    <3>2. CASE WorkedOn(f)' /\ worker'.fd[v] # Absent
      BY ZenonT(60), <1>1, <3>2 DEF Knows
    <3>3. CASE \E x \in WrittenBy(f)' : writer'[x].fd[v] # Absent
      BY SMTT(60), Z3T(60), <1>m, <1>1, <3>3 DEF Knows
    <3> QED BY Zenon, <2>1, <3>1, <3>2, <3>3 DEF Knows
  <2> QED BY Zenon, <2>1 DEF IInv, Owned
<1>3. Rooted'
  <2>1. path[g] # "new"
    BY Zenon, <1>g DEF IInv, Rooted
  <2> QED BY SMTT(60), Z3T(60), <1>m, <1>1, <2>1 DEF IInv, Rooted
<1>4. Modal'
  <2> SUFFICES ASSUME ~WriteBack', NEW v \in Versions
               PROVE  /\ \A f \in Files : desc'[f][v].at # "cache"
                      /\ \A x \in Writers : writer'[x].pc = "upload" => writer'[x].fd[v].at # "cache"
                      /\ worker'.pc \in Busy => worker'.fd[v].at # "cache"
    BY Zenon DEF Modal
  <2>1. ~WriteBack
    BY Zenon DEF WriteBack
  <2>2. \A f \in Files : desc'[f][v].at # "cache"
    BY ZenonT(60), <2>1, BlankFacts DEF IInv, Modal
  <2> QED BY ZenonT(60), <1>w, <2>1, <2>2 DEF IInv, Modal
<1>5. Exact'
  <2> SUFFICES ASSUME NEW f \in Files \ excused'
               PROVE  /\ \A y, x \in WrittenBy(f)' : y = x
                      /\ WorkedOn(f)' => WrittenBy(f)' = {}
                      /\ \A x \in WrittenBy(f)' : Held(writer[x].fd, f)'
                      /\ \A x \in WrittenBy(f)' \cup CommittedBy(f)' :
                            path'[f] \in Paths => path'[f] = writer'[x].p
                      /\ WorkedOn(f)' /\ worker'.pc # "finish" => worker'.fd = desc'[f]
    BY ZenonT(60) DEF Exact
  <2>1. f \in Files \ excused
    BY Zenon
  <2>2. CASE f = g
    <3>1. WrittenBy(f)' = {} /\ ~WorkedOn(f)'
      BY Zenon, <1>x, <1>1, <2>1, <2>2
    <3>2. CommittedBy(f)' = CommittedBy(f)
      BY Zenon, <1>1
    <3>3. \A x \in CommittedBy(f) : path[f] \in Paths => path[f] = writer[x].p
      BY Zenon, <2>1 DEF IInv, Exact
    <3> QED BY ZenonT(60), <1>m, <3>1, <3>2, <3>3
  <2>3. CASE f # g
    <3>1. \A v \in Versions : Servable(f, v)' => Servable(f, v)
      BY Zenon, <2>3 DEF Servable
    <3> QED BY ZenonT(60), <1>m, <1>1, <2>1, <2>3, <3>1, FrameExact
  <2> QED BY Zenon, <2>2, <2>3
<1>6. Concluded'
  BY Zenon, <1>l, WorkerFacts DEF IInv, Concluded, Busy, Pending
<1>7. Crossed'
  BY ZenonT(60), <1>1, <1>l DEF IInv, Crossed
<1>8. QueueCovers'
  BY Zenon, <1>1, <1>l, FrameQueue
<1>9. AcknowledgedHeld'
  <2> SUFFICES ASSUME "cache" \notin Faults', NEW f \in Files \ excused', NEW v \in Versions,
                      path'[f] \in Paths, desc'[f][v].at = "cache"
               PROVE  v \in cached'
    BY Zenon DEF AcknowledgedHeld
  <2>1. desc'[f][v] # Absent
    BY Zenon, BlankFacts
  <2>2. desc[f][v].at = "cache" /\ desc[f][v] # Absent
    BY ZenonT(60), <1>x, <2>1
  <2>3. v \in cached
    BY Zenon, <2>2 DEF IInv, AcknowledgedHeld, Faults
  <2>4. v \notin cached' => f = g
    <3>1. Knows(f, v)
      BY Zenon, <2>2 DEF Knows
    <3>2. ASSUME v \notin cached' PROVE Knows(g, v)
      <4>1. writer[w].fd[v] # Absent
        BY Zenon, <2>3, <3>2
      <4> QED BY ZenonT(60), <1>g, <4>1 DEF Knows
    <3>3. Owned /\ f \in Files
      BY Zenon DEF IInv
    <3> QED BY ZenonT(60), <3>1, <3>2, <3>3 DEF Owned
  <2> QED BY Zenon, <2>1, <2>3, <2>4
<1> QED BY Zenon, <1>2, <1>3, <1>4, <1>5, <1>6, <1>7, <1>8, <1>9 DEF IInv

-----------------------------------------------------------------------------
\* set_last_modified and delete_file_version write the descriptor.
LEMMA EditCommitKept ==
    ASSUME IInv, Typed', scene' = scene, NEW w \in Writers, RedateCommit(w) \/ DeleteCommit(w)
    PROVE  IInv'
<1>t. /\ writer[w].pc = "upload" /\ writer[w].f \in Files
      /\ writer[w].fd \in [Versions -> Entries] /\ desc \in [Files -> [Versions -> Entries]]
  BY Zenon, RequestFacts DEF IInv, Typed, RedateCommit, DeleteCommit
<1>1. CASE RedateCommit(w)
  <2>1. /\ UNCHANGED <<path, cached, items, worker, excused>> /\ writer[w].fd # Blank
        /\ desc' = [desc EXCEPT ![writer[w].f] = writer[w].fd]
        /\ writer' = [writer EXCEPT ![w] = Idle]
    BY Zenon, <1>1 DEF RedateCommit, queue
  <2>2. desc'[writer[w].f] = writer[w].fd /\ \A f \in Files : f # writer[w].f => desc'[f] = desc[f]
    BY Zenon, <1>t, <2>1
  <2>3. /\ \A v \in Versions : desc'[writer[w].f][v] = writer[w].fd[v] \/ desc'[writer[w].f][v] = Absent
        /\ \A f \in Files : f # writer[w].f => desc'[f] = desc[f]
    BY Zenon, <2>2
  <2>5. UNCHANGED <<path, items, worker, excused>> /\ writer' = [writer EXCEPT ![w] = Idle]
    BY Zenon, <2>1
  <2>6. writer[w].fd # Blank
    BY Zenon, <2>1
  <2>4. /\ cached' \subseteq cached
        /\ \A v \in cached \ cached' : writer[w].fd[v] # Absent /\ desc'[writer[w].f][v] = Absent
    BY Zenon, <2>1
  <2> QED BY ZenonT(60), <1>t, <2>3, <2>4, <2>5, <2>6, CommitKept
<1>2. CASE DeleteCommit(w)
  <2>1. /\ UNCHANGED <<path, items, worker, excused>> /\ writer' = [writer EXCEPT ![w] = Idle]
    BY Zenon, <1>2 DEF DeleteCommit, queue
  <2>2. PICK u \in Versions :
           /\ writer[w].fd[u] # Absent
           /\ desc' = [desc EXCEPT ![writer[w].f] = [writer[w].fd EXCEPT ![u] = Absent]]
           /\ cached' = cached \ {u}
    BY ZenonT(60), <1>2 DEF DeleteCommit
  <2>3. /\ \A v \in Versions : desc'[writer[w].f][v] = IF v = u THEN Absent ELSE writer[w].fd[v]
        /\ \A f \in Files : f # writer[w].f => desc'[f] = desc[f]
    BY Zenon, <1>t, <2>2
  <2>4. writer[w].fd # Blank
    BY Zenon, <2>2, BlankFacts
  <2>5. /\ cached' \subseteq cached
        /\ \A v \in cached \ cached' : writer[w].fd[v] # Absent /\ desc'[writer[w].f][v] = Absent
    BY Zenon, <2>2, <2>3
  <2>7. writer[w].pc = "upload" /\ writer[w].f \in Files
    BY Zenon, <1>t
  <2>8. /\ \A v \in Versions : desc'[writer[w].f][v] = writer[w].fd[v] \/ desc'[writer[w].f][v] = Absent
        /\ \A f \in Files : f # writer[w].f => desc'[f] = desc[f]
    BY Zenon, <2>3
  <2> QED BY Zenon, <2>1, <2>4, <2>5, <2>7, <2>8, CommitKept
<1> QED BY Zenon, <1>1, <1>2

\* A write that is not told to the queue has left no gap.
LEMMA Untold ==
    ASSUME IInv, NEW w \in Writers, writer[w].pc = "upload", NEW v \in Versions, NEW e \in Entries,
           Appended(writer[w].fd, v, e), NEW f \in Files, scene' = scene,
           desc'[f] = WithVersion(writer[w].fd, v, e), ~Tells(WithVersion(writer[w].fd, v, e))
    PROVE  ~Lacks(f)'
<1> DEFINE d == WithVersion(writer[w].fd, v, e)
<1>1. Tee /\ \A u \in Versions : d[u].at = "primary" => d[u].copies = Mirrors
  BY Zenon DEF Tells
<1>2. ~WriteBack
  BY Zenon, <1>1 DEF Tee, WriteBack
<1>3. e.at = "primary"
  BY Zenon, <1>2 DEF Appended, Uploaded
<1>4. writer[w].fd \in [Versions -> Entries]
  BY Zenon, RequestFacts DEF IInv
<1>5. \A u \in Versions : d[u].at # "cache"
  BY ZenonT(60), <1>2, <1>3, <1>4 DEF IInv, Modal, WithVersion
<1> HIDE DEF d
<1>6. desc'[f] = d
  BY Zenon DEF d
<1> QED BY Zenon, <1>1, <1>5, <1>6 DEF Lacks, Mirrors

\* append_file_version writes the descriptor and, for a new file, the ref.
LEMMA AppendCommitKept ==
    ASSUME IInv, Typed', scene' = scene, NEW w \in Writers, AppendCommit(w)
    PROVE  IInv'
<1>g1. PICK g \in Files, q \in Paths, d \in [Versions -> Entries] :
           g = writer[w].f /\ q = writer[w].p /\ d = writer[w].fd
  BY Zenon, RequestFacts DEF IInv, AppendCommit
<1>t. /\ writer[w].pc = "upload" /\ g \in Files /\ q \in Paths /\ d \in [Versions -> Entries]
      /\ desc \in [Files -> [Versions -> Entries]] /\ path \in [Files -> Paths \cup {"new", "gone"}]
      /\ writer \in [Writers -> Requests]
  BY Zenon, <1>g1 DEF IInv, Typed, AppendCommit
<1>v. PICK v \in Versions, e \in Entries :
          /\ Appended(d, v, e)
          /\ desc' = [desc EXCEPT ![g] = WithVersion(d, v, e)]
          /\ cached' = IF e.at = "cache" THEN cached \cup {v} ELSE cached
          /\ path' = IF path[g] = "new" THEN [path EXCEPT ![g] = q] ELSE path
          /\ writer' = [writer EXCEPT ![w] = IF Tells(WithVersion(d, v, e))
                          THEN [pc |-> "enqueue", f |-> g, p |-> q] ELSE Idle]
  BY ZenonT(60), <1>g1 DEF AppendCommit
<1>u. UNCHANGED <<items, worker, excused>> /\ (path[g] = "new" => \A f \in Files : path[f] # q)
  BY Zenon, <1>g1 DEF AppendCommit, queue
<1>f. /\ v \notin cached /\ (\A f \in Files : ~Knows(f, v) /\ desc[f][v] = Absent)
  BY ZenonT(60), <1>v, FreshFacts DEF IInv, Appended
<1>d. /\ desc'[g] = WithVersion(d, v, e) /\ \A f \in Files : f # g => desc'[f] = desc[f]
  BY Zenon, <1>t, <1>v
<1>e. \A u \in Versions : desc'[g][u] = IF u = v THEN e ELSE d[u]
  BY ZenonT(60), <1>t, <1>d DEF WithVersion
<1>p. /\ path'[g] = IF path[g] = "new" THEN q ELSE path[g]
      /\ \A f \in Files : f # g => path'[f] = path[f]
  BY Zenon, <1>t, <1>v
<1>w. /\ \A x \in Writers : x # w => writer'[x] = writer[x]
      /\ IF Tells(WithVersion(d, v, e))
         THEN writer'[w].pc = "enqueue" /\ writer'[w].f = g /\ writer'[w].p = q
         ELSE writer'[w].pc = "idle"
  BY ZenonT(60), <1>t, <1>v DEF Idle
<1>c. cached \subseteq cached' /\ cached' \subseteq cached \cup {v} /\ (e.at = "cache" => v \in cached')
  BY Zenon, <1>v
<1>g. w \in WrittenBy(g) /\ (\A f \in Files : w \in WrittenBy(f) => f = g) /\ d = writer[w].fd
  BY Zenon, <1>t, <1>g1 DEF WrittenBy
<1>1. ASSUME NEW f \in Files
      PROVE  /\ (WorkedOn(f)' <=> WorkedOn(f)) /\ WrittenBy(f)' = WrittenBy(f) \ {w}
             /\ f # g => CommittedBy(f)' = CommittedBy(f)
             /\ CommittedBy(f) \subseteq CommittedBy(f)' /\ CommittedBy(f)' \subseteq CommittedBy(f) \cup {w}
             /\ w \notin CommittedBy(f)
  BY ZenonT(60), <1>t, <1>u, <1>w DEF WrittenBy, CommittedBy, WorkedOn
<1>m. \A f \in Files : \A x \in WrittenBy(f)' \cup CommittedBy(f) : x # w /\ writer'[x] = writer[x]
  BY ZenonT(60), <1>w, <1>1 DEF WrittenBy, CommittedBy
<1>x. g \notin excused => WrittenBy(g)' = {} /\ ~WorkedOn(g) /\ Held(d, g)
  <2> SUFFICES ASSUME g \notin excused
               PROVE  WrittenBy(g)' = {} /\ ~WorkedOn(g) /\ Held(d, g)
    BY Zenon
  <2>1. WrittenBy(g)' = WrittenBy(g) \ {w}
    BY Zenon, <1>1
  <2>2. (\A x \in WrittenBy(g) : x = w) /\ ~WorkedOn(g) /\ Held(d, g)
    BY Zenon, <1>g, <1>t DEF IInv, Exact
  <2> QED BY Zenon, <2>1, <2>2
<1>l. ASSUME NEW f \in Files, f # g, Lacks(f)'
      PROVE  Lacks(f)
  BY ZenonT(60), <1>c, <1>d, <1>f, <1>l, BlankFacts DEF Lacks, Mirrors
<1>a. CommittedBy(g)' # {} \/ ~Lacks(g)'
  <2>1. CASE Tells(WithVersion(d, v, e))
    <3>1. w \in CommittedBy(g)'
      BY Zenon, <1>w, <2>1 DEF CommittedBy
    <3> QED BY Zenon, <3>1
  <2>2. CASE ~Tells(WithVersion(d, v, e))
    <3>1. writer[w].pc = "upload" /\ Appended(writer[w].fd, v, e)
      BY Zenon, <1>t, <1>v, <1>g1
    <3>2. desc'[g] = WithVersion(writer[w].fd, v, e) /\ ~Tells(WithVersion(writer[w].fd, v, e))
      BY ZenonT(60), <1>d, <1>g1, <2>2
    <3> QED BY ZenonT(60), <3>1, <3>2, Untold
  <2> QED BY Zenon, <2>1, <2>2
<1>2. Owned'
  <2>1. ASSUME NEW f \in Files, NEW u \in Versions, Knows(f, u)'
        PROVE  Knows(f, u) \/ (f = g /\ u = v)
    <3>1. CASE desc'[f][u] # Absent
      BY Zenon, <1>d, <1>e, <1>g, <3>1 DEF Knows
    <3>2. CASE WorkedOn(f)' /\ worker'.fd[u] # Absent
      BY ZenonT(60), <1>u, <1>1, <3>2 DEF Knows
    <3>3. CASE \E x \in WrittenBy(f)' : writer'[x].fd[u] # Absent
      BY ZenonT(60), <1>m, <1>1, <3>3 DEF Knows
    <3> QED BY ZenonT(60), <2>1, <3>1, <3>2, <3>3 DEF Knows
  <2> QED BY SMTT(60), Z3T(60), <1>f, <2>1 DEF IInv, Owned
<1>3. Rooted'
  <2>1. ASSUME NEW f \in Files, NEW h \in Files, path'[f] \in Paths, path'[f] = path'[h]
        PROVE  f = h
    BY ZenonT(60), <1>p, <1>u, <2>1, <1>t DEF IInv, Rooted
  <2>2. ASSUME NEW f \in Files, path'[f] = "new"
        PROVE  f # g /\ path[f] = "new"
    BY Zenon, <1>t, <1>p, <2>2, PathFacts
  <2>3. ASSUME NEW f \in Files, path'[f] = "new"
        PROVE  /\ desc'[f] = Blank /\ ~WorkedOn(f)' /\ CommittedBy(f)' = {}
               /\ \A x \in WrittenBy(f)' : writer'[x].fd = Blank
    <3>1. f # g /\ path[f] = "new"
      BY Zenon, <2>2, <2>3
    <3>2. /\ desc[f] = Blank /\ ~WorkedOn(f) /\ CommittedBy(f) = {}
          /\ \A x \in WrittenBy(f) : writer[x].fd = Blank
      BY ZenonT(60), <3>1 DEF IInv, Rooted
    <3>3. desc'[f] = desc[f] /\ CommittedBy(f)' = CommittedBy(f)
      BY Zenon, <1>d, <1>1, <3>1
    <3> QED BY ZenonT(60), <1>m, <1>1, <3>2, <3>3
  <2> QED BY Zenon, <2>1, <2>3 DEF Rooted
<1>4. Modal'
  <2> SUFFICES ASSUME ~WriteBack', NEW u \in Versions
               PROVE  /\ \A f \in Files : desc'[f][u].at # "cache"
                      /\ \A x \in Writers : writer'[x].pc = "upload" => writer'[x].fd[u].at # "cache"
                      /\ worker'.pc \in Busy => worker'.fd[u].at # "cache"
    BY Zenon DEF Modal
  <2>1. ~WriteBack
    BY Zenon DEF WriteBack
  <2>2. e.at = "primary"
    BY Zenon, <1>v, <2>1 DEF Appended, Uploaded
  <2>3. d[u].at # "cache" /\ \A f \in Files : desc[f][u].at # "cache"
    BY ZenonT(60), <1>t, <1>g, <2>1 DEF IInv, Modal
  <2>4. \A f \in Files : desc'[f][u].at # "cache"
    BY Zenon, <1>d, <1>e, <2>2, <2>3
  <2>5. \A x \in Writers : writer'[x].pc = "upload" => writer'[x].fd[u].at # "cache"
    BY SMTT(60), ZenonT(60), <1>w, <2>1 DEF IInv, Modal
  <2>6. worker'.pc \in Busy => worker'.fd[u].at # "cache"
    BY Zenon, <1>u, <2>1 DEF IInv, Modal
  <2> QED BY Zenon, <2>4, <2>5, <2>6
<1>5. Exact'
  <2> SUFFICES ASSUME NEW f \in Files \ excused'
               PROVE  /\ \A y, x \in WrittenBy(f)' : y = x
                      /\ WorkedOn(f)' => WrittenBy(f)' = {}
                      /\ \A x \in WrittenBy(f)' : Held(writer[x].fd, f)'
                      /\ \A x \in WrittenBy(f)' \cup CommittedBy(f)' :
                            path'[f] \in Paths => path'[f] = writer'[x].p
                      /\ WorkedOn(f)' /\ worker'.pc # "finish" => worker'.fd = desc'[f]
    BY Zenon DEF Exact
  <2>1. f \in Files \ excused
    BY Zenon, <1>u
  <2>2. CASE f = g
    <3>1. WrittenBy(f)' = {} /\ ~WorkedOn(f)'
      BY Zenon, <1>x, <1>1, <2>1, <2>2
    <3>2. ASSUME NEW x \in CommittedBy(f)', path'[f] \in Paths
          PROVE  path'[f] = writer'[x].p
      <4>1. CASE x = w
        <5>1. writer'[w].p = q /\ q = writer[w].p
          BY Zenon, <1>w, <1>g1, <3>2, <4>1 DEF CommittedBy
        <5>2. path[g] \in Paths => path[g] = q
          BY Zenon, <1>g, <2>1, <2>2, <5>1 DEF IInv, Exact
        <5>3. path'[g] = q
          BY ZenonT(60), <1>p, <2>2, <3>2, <5>2
        <5> QED BY Zenon, <2>2, <4>1, <5>1, <5>3
      <4>2. CASE x # w
        <5>1. x \in CommittedBy(f)
          BY Zenon, <1>1, <3>2, <4>2
        <5>2. path[f] # "new"
          BY Zenon, <5>1 DEF IInv, Rooted
        <5>3. path'[f] = path[f]
          BY Zenon, <1>p, <2>2, <5>2
        <5> QED BY SMTT(60), Z3T(60), <1>m, <2>1, <3>2, <5>1, <5>3 DEF IInv, Exact
      <4> QED BY Zenon, <4>1, <4>2
    <3> QED BY ZenonT(60), <3>1, <3>2
  <2>3. CASE f # g
    <3>1. w \notin WrittenBy(f) /\ WrittenBy(f)' = WrittenBy(f) /\ CommittedBy(f)' = CommittedBy(f)
      BY SMTT(60), Z3T(60), <1>g, <1>1, <2>3
    <3>2. \A u \in Versions : Servable(f, u)' => Servable(f, u)
      BY Zenon, <1>c, <1>d, <1>f, <2>3, BlankFacts DEF Servable
    <3>3. path'[f] = path[f] /\ desc'[f] = desc[f] /\ worker' = worker
      BY Zenon, <1>u, <1>d, <1>p, <2>3
    <3> QED BY ZenonT(60), <1>m, <1>1, <2>1, <3>1, <3>2, <3>3, FrameExact
  <2> QED BY ZenonT(60), <2>2, <2>3
<1>6. Concluded'
  <2>1. worker'.pc = "mirror" /\ ~worker'.bad => Pending(worker'.fd) = {}
    BY Zenon, <1>u DEF IInv, Concluded
  <2>2. ASSUME worker'.pc = "finish", ~worker'.bad, worker'.f \notin excused'
        PROVE  ~Lacks(worker.f)'
    <3>1. worker.f \in Files /\ WorkedOn(worker.f)
      BY Zenon, <1>u, <2>2, WorkerFacts DEF IInv, Busy, WorkedOn
    <3>2. worker.f # g
      BY Zenon, <1>u, <1>x, <2>2, <3>1
    <3> QED BY Zenon, <1>u, <1>l, <2>2, <3>1, <3>2 DEF IInv, Concluded
  <2> QED BY ZenonT(60), <1>u, <2>1, <2>2 DEF Concluded, Pending
<1>7. Crossed'
  <2> SUFFICES ASSUME worker'.pc \in Busy, NEW f \in Files \ excused',
                      f # worker'.f, path'[f] = worker'.p, Lacks(f)'
               PROVE  CommittedBy(f)' # {}
    BY Zenon DEF Crossed
  <2>1. CASE f = g
    BY Zenon, <1>a, <2>1
  <2>2. CASE f # g
    BY ZenonT(60), <1>u, <1>p, <1>l, <1>1, <2>2 DEF IInv, Crossed
  <2> QED BY Zenon, <2>1, <2>2
<1>8. QueueCovers'
  <2> SUFFICES ASSUME NEW f \in Files \ excused', path'[f] \in Paths, Lacks(f)'
               PROVE  Queued(f)'
    BY Zenon DEF QueueCovers
  <2>1. CASE f = g
    BY Zenon, <1>a, <2>1 DEF Queued
  <2>2. CASE f # g
    BY Zenon, <1>u, <1>p, <1>l, <1>1, <2>2 DEF IInv, QueueCovers, Queued
  <2> QED BY Zenon, <2>1, <2>2
<1>9. AcknowledgedHeld'
  <2> SUFFICES ASSUME "cache" \notin Faults', NEW f \in Files \ excused', NEW u \in Versions,
                      path'[f] \in Paths, desc'[f][u].at = "cache"
               PROVE  u \in cached'
    BY Zenon DEF AcknowledgedHeld
  <2>0. "cache" \notin Faults /\ f \in Files \ excused
    BY Zenon, <1>u DEF Faults
  <2>1. CASE f # g
    BY Zenon, <1>c, <1>d, <1>p, <2>0, <2>1 DEF IInv, AcknowledgedHeld
  <2>2. CASE f = g /\ u = v
    BY Zenon, <1>c, <1>e, <2>2
  <2>3. CASE f = g /\ u # v
    <3>1. d[u].at = "cache"
      BY Zenon, <1>e, <2>3
    <3>2. d # Blank
      BY Zenon, <3>1, BlankFacts
    <3>3. d = desc[g]
      BY ZenonT(60), <1>x, <2>0, <2>3, <3>2 DEF Held
    <3>4. path[g] # "new"
      BY Zenon, <1>g, <2>3, <3>2 DEF IInv, Rooted
    <3>5. path[g] \in Paths
      BY Zenon, <1>p, <2>3, <3>4
    <3>6. u \in cached
      BY Zenon, <2>0, <2>3, <3>1, <3>3, <3>5 DEF IInv, AcknowledgedHeld
    <3> QED BY Zenon, <1>c, <3>6
  <2> QED BY Zenon, <2>1, <2>2, <2>3
<1> QED BY ZenonT(60), <1>2, <1>3, <1>4, <1>5, <1>6, <1>7, <1>8, <1>9 DEF IInv

-----------------------------------------------------------------------------
(* The worker.                                                             *)

\* process_one reads the descriptor of the file at the path.
LEMMA ProcessBeginKept ==
    ASSUME IInv, Typed', scene' = scene, NEW p \in Paths, NEW g \in Files, ProcessBegin(p, g)
    PROVE  IInv'
<1>1. PICK r \in Reads(g, TRUE) :
          /\ worker' = [pc |-> IF r.fd = Blank THEN "finish" ELSE "distribute",
                        p |-> p, f |-> g, fd |-> r.fd, bad |-> FALSE]
          /\ excused' = IF r.bad \/ WrittenBy(g) # {} THEN excused \cup {g} ELSE excused
  BY ZenonT(60) DEF ProcessBegin
<1>2. UNCHANGED <<desc, path, cached, writer, items>> /\ worker.pc = "next" /\ path[g] = p
  BY Zenon DEF ProcessBegin, files, queue
<1>3. /\ worker'.pc \in Busy /\ worker'.pc # "mirror" /\ worker'.p = p /\ worker'.f = g
      /\ worker'.fd = r.fd /\ ~worker'.bad /\ (worker'.pc = "finish" => r.fd = Blank)
  BY Zenon, <1>1 DEF Busy
<1>4. /\ excused \subseteq excused' /\ (g \notin excused' => ~r.bad /\ WrittenBy(g) = {})
      /\ excused' \subseteq excused \cup {g}
  BY Zenon, <1>1
<1>5. /\ r.fd \in [Versions -> Entries]
      /\ \A v \in Versions : r.fd[v] # Absent => desc[g][v] # Absent
      /\ \A v \in Versions : r.fd[v].at = "cache" => desc[g][v].at = "cache"
      /\ ~r.bad => Held(r.fd, g)
  BY Zenon, ReadFacts DEF IInv
<1>6. \A f \in Files : /\ ~WorkedOn(f) /\ (WorkedOn(f)' <=> f = g)
                       /\ WrittenBy(f)' = WrittenBy(f) /\ CommittedBy(f)' = CommittedBy(f)
                       /\ (Lacks(f)' <=> Lacks(f))
  BY Zenon, <1>2, <1>3 DEF WorkedOn, WrittenBy, CommittedBy, Busy, Lacks, Mirrors
<1>7. \A f \in Files, v \in Versions : Knows(f, v)' => Knows(f, v)
  BY ZenonT(60), <1>2, <1>3, <1>5, <1>6 DEF Knows
<1>8. Owned'
  BY Zenon, <1>7 DEF IInv, Owned
<1>9. Rooted'
  <2>1. \A f \in Files : path'[f] = "new" => f # g
    BY ZenonT(60), <1>2, PathFacts
  <2> QED BY Zenon, <1>2, <1>6, <2>1 DEF IInv, Rooted
<1>10. Modal'
  <2>1. WriteBack' <=> WriteBack
    BY Zenon DEF WriteBack
  <2> QED BY Zenon, <1>2, <1>3, <1>5, <2>1 DEF IInv, Modal
<1>11. Exact'
  <2> SUFFICES ASSUME NEW f \in Files \ excused'
               PROVE  /\ \A y, x \in WrittenBy(f)' : y = x
                      /\ WorkedOn(f)' => WrittenBy(f)' = {}
                      /\ \A x \in WrittenBy(f)' : Held(writer[x].fd, f)'
                      /\ \A x \in WrittenBy(f)' \cup CommittedBy(f)' :
                            path'[f] \in Paths => path'[f] = writer'[x].p
                      /\ WorkedOn(f)' /\ worker'.pc # "finish" => worker'.fd = desc'[f]
    BY Zenon DEF Exact
  <2>1. f \in Files \ excused
    BY Zenon, <1>4
  <2>2. ASSUME NEW x \in WrittenBy(f)'
        PROVE  Held(writer[x].fd, f)'
    <3>1. x \in WrittenBy(f) => Held(writer[x].fd, f)
      BY ZenonT(60), <2>1 DEF IInv, Exact
    <3> QED BY Zenon, <1>2, <1>6, <2>1, <3>1 DEF Held, Servable
  <2>3. WorkedOn(f)' => WrittenBy(f)' = {}
    BY Zenon, <1>4, <1>6
  <2>4. WorkedOn(f)' /\ worker'.pc # "finish" => worker'.fd = desc'[f]
    <3>1. r.fd = Blank => worker'.pc = "finish"
      BY Zenon, <1>1
    <3> QED BY ZenonT(60), <1>2, <1>3, <1>4, <1>5, <1>6, <3>1 DEF Held
  <2> QED BY ZenonT(60), <1>2, <1>6, <2>1, <2>2, <2>3, <2>4 DEF IInv, Exact
<1>12. Concluded'
  <2>1. ASSUME worker'.pc = "finish", g \notin excused'
        PROVE  ~Lacks(g)
    <3>1. r.fd = Blank /\ Held(r.fd, g)
      BY Zenon, <1>3, <1>4, <1>5, <2>1
    <3>2. \A v \in Versions : ~Servable(g, v)
      BY Zenon, <3>1, BlankFacts DEF Held, Servable
    <3> QED BY Zenon, <3>2 DEF Lacks, Servable
  <2> QED BY Zenon, <1>3, <1>6, <2>1 DEF Concluded
<1>13. Crossed'
  BY ZenonT(60), <1>2, <1>3 DEF Crossed, IInv, Rooted
<1>14. QueueCovers'
  BY Zenon, <1>2, <1>4, <1>6 DEF IInv, QueueCovers, Queued
<1>15. AcknowledgedHeld'
  BY Zenon, <1>2, <1>4 DEF IInv, AcknowledgedHeld, Faults
<1> QED BY Zenon, <1>8, <1>9, <1>10, <1>11, <1>12, <1>13, <1>14, <1>15 DEF IInv

\* What a step of the worker on its file has to respect: it releases only
\* bytes of that file, and makes nothing up.
LEMMA WorkKept ==
    ASSUME IInv, Typed', scene' = scene, NEW g \in Files, worker.pc \in Busy, worker.f = g,
           UNCHANGED <<path, writer, items, excused>>,
           worker'.pc \in Busy, worker'.f = g, worker'.p = worker.p,
           cached' \subseteq cached, \A v \in cached \ cached' : v \in Versions /\ Knows(g, v),
           \A f \in Files : f # g => desc'[f] = desc[f],
           \A v \in Versions : desc'[g][v] # Absent \/ worker'.fd[v] # Absent => Knows(g, v),
           \A v \in Versions : desc'[g][v].at = "cache" \/ worker'.fd[v].at = "cache"
                                => desc[g][v].at = "cache" \/ worker.fd[v].at = "cache",
           g \notin excused /\ worker'.pc # "finish" => worker'.fd = desc'[g],
           g \notin excused /\ Lacks(g)' => Lacks(g),
           Concluded',
           g \notin excused => \A v \in Versions : desc'[g][v].at = "cache" =>
               desc[g][v].at = "cache" /\ (v \in cached => v \in cached')
    PROVE  IInv'
<1>1. \A f \in Files : /\ WorkedOn(f) <=> f = g
                       /\ WorkedOn(f)' <=> f = g
                       /\ WrittenBy(f)' = WrittenBy(f) /\ CommittedBy(f)' = CommittedBy(f)
  BY Zenon DEF WorkedOn, WrittenBy, CommittedBy
<1>2. \A f \in Files \ excused : Lacks(f)' => Lacks(f)
  <2>1. ASSUME NEW f \in Files, f # g, Lacks(f)'
        PROVE  Lacks(f)
    BY SMTT(60), ZenonT(60), <2>1 DEF Lacks, Mirrors
  <2> QED BY ZenonT(60), <2>1
<1>3. Owned'
  <2>1. ASSUME NEW f \in Files, NEW v \in Versions, Knows(f, v)'
        PROVE  Knows(f, v)
    BY Zenon, <1>1, <2>1 DEF Knows
  <2> QED BY Zenon, <2>1 DEF IInv, Owned
<1>4. Rooted'
  <2>1. \A f \in Files : path[f] = "new" => f # g
    BY Zenon, <1>1 DEF IInv, Rooted
  <2> QED BY ZenonT(60), <1>1, <2>1 DEF IInv, Rooted
<1>5. Modal'
  <2>1. WriteBack' <=> WriteBack
    BY Zenon DEF WriteBack
  <2>2. ASSUME ~WriteBack, NEW v \in Versions
        PROVE  /\ \A f \in Files : desc'[f][v].at # "cache"
               /\ \A x \in Writers : writer'[x].pc = "upload" => writer'[x].fd[v].at # "cache"
               /\ worker'.pc \in Busy => worker'.fd[v].at # "cache"
    BY ZenonT(60), <2>2 DEF IInv, Modal
  <2> QED BY Zenon, <2>1, <2>2 DEF Modal
<1>6. Exact'
  <2> SUFFICES ASSUME NEW f \in Files \ excused'
               PROVE  /\ \A y, x \in WrittenBy(f)' : y = x
                      /\ WorkedOn(f)' => WrittenBy(f)' = {}
                      /\ \A x \in WrittenBy(f)' : Held(writer[x].fd, f)'
                      /\ \A x \in WrittenBy(f)' \cup CommittedBy(f)' :
                            path'[f] \in Paths => path'[f] = writer'[x].p
                      /\ WorkedOn(f)' /\ worker'.pc # "finish" => worker'.fd = desc'[f]
    BY Zenon DEF Exact
  <2>1. f \in Files \ excused /\ (f = g => WrittenBy(f) = {})
    BY Zenon, <1>1 DEF IInv, Exact
  <2>2. \A v \in Versions : f # g /\ Servable(f, v)' => Servable(f, v)
    BY Zenon DEF Servable
  <2>3. \A x \in WrittenBy(f)' : Held(writer[x].fd, f)'
    BY ZenonT(60), <1>1, <2>1, <2>2 DEF IInv, Exact, Held
  <2>4. \A x \in WrittenBy(f)' \cup CommittedBy(f)' : path'[f] \in Paths => path'[f] = writer'[x].p
    BY Zenon, <1>1, <2>1 DEF IInv, Exact
  <2>5. \A y, x \in WrittenBy(f) : y = x
    BY Zenon, <2>1 DEF IInv, Exact
  <2>6. WorkedOn(f)' => f = g
    BY Zenon, <1>1
  <2> QED BY Zenon, <1>1, <2>1, <2>3, <2>4, <2>5, <2>6
<1>7. Crossed'
  BY Zenon, <1>1, <1>2 DEF IInv, Crossed
<1>8. QueueCovers'
  BY Zenon, <1>1, <1>2 DEF IInv, QueueCovers, Queued
<1>9. AcknowledgedHeld'
  <2> SUFFICES ASSUME "cache" \notin Faults', NEW f \in Files \ excused', NEW u \in Versions,
                      path'[f] \in Paths, desc'[f][u].at = "cache"
               PROVE  u \in cached'
    BY ZenonT(60) DEF AcknowledgedHeld
  <2>0. "cache" \notin Faults /\ f \in Files \ excused
    BY Zenon DEF Faults
  <2>1. CASE f = g
    BY Zenon, <2>0, <2>1 DEF IInv, AcknowledgedHeld
  <2>2. CASE f # g
    <3>1. desc[f][u].at = "cache" /\ u \in cached
      BY Zenon, <2>0, <2>2 DEF IInv, AcknowledgedHeld
    <3>2. Knows(f, u)
      BY Zenon, <3>1, BlankFacts DEF Knows
    <3>3. ~Knows(g, u)
      BY Zenon, <2>2, <3>2 DEF IInv, Owned
    <3> QED BY Zenon, <3>1, <3>3
  <2> QED BY Zenon, <2>1, <2>2
<1> QED BY ZenonT(60), <1>3, <1>4, <1>5, <1>6, <1>7, <1>8, <1>9 DEF IInv

\* The descriptor the worker goes on with, and who knows of its versions.
LEMMA WorkFacts ==
    ASSUME IInv, worker.pc \in Busy
    PROVE  /\ \A v \in Versions : desc[worker.f][v] # Absent \/ worker.fd[v] # Absent
                                   => Knows(worker.f, v)
           /\ worker.f \notin excused /\ worker.pc # "finish" => worker.fd = desc[worker.f]
<1>1. worker.f \in Files /\ WorkedOn(worker.f)
  BY Zenon, WorkerFacts DEF IInv, WorkedOn
<1> QED BY Zenon, <1>1 DEF IInv, Knows, Exact

\* Without versions in the cache and without gaps a file lacks nothing.
LEMMA Complete ==
    ASSUME NEW f \in Files, Pending(desc[f]) = {}, ToMirror(desc[f]) = {}
    PROVE  ~Lacks(f)
BY Zenon DEF Lacks, Pending, ToMirror

\* Where there are no mirrors nothing is to be mirrored.
LEMMA NoMirrors ==
    ASSUME NEW d \in [Versions -> Entries], Mirrors = {}
    PROVE  ToMirror(d) = {}
<1>1. \A v \in Versions : d[v] \in Entries /\ d[v].copies \in SUBSET Mirrors
  BY Zenon DEF Entries
<1> QED BY Zenon, <1>1 DEF ToMirror

\* Nothing is pending: the worker goes on to the mirrors.
LEMMA NothingPendingKept ==
    ASSUME IInv, Typed', scene' = scene, NothingPending
    PROVE  IInv'
<1>1. /\ worker.pc = "distribute" /\ worker.pc \in Busy /\ Pending(worker.fd) = {}
      /\ UNCHANGED <<desc, path, cached, writer, items, excused>>
  BY Zenon DEF NothingPending, files, queue, Busy
<1>2. PICK g \in Files : g = worker.f
  BY Zenon, <1>1, WorkerFacts DEF IInv
<1>3. /\ worker'.pc \in Busy /\ worker'.f = g /\ worker'.p = worker.p /\ worker'.fd = worker.fd
      /\ worker'.pc = IF Mirrors = {} THEN "finish" ELSE "mirror"
  BY Zenon, <1>1, <1>2, WorkerFacts DEF IInv, NothingPending, Busy
<1>4. /\ \A v \in Versions : desc[g][v] # Absent \/ worker.fd[v] # Absent => Knows(g, v)
      /\ g \notin excused => worker.fd = desc[g]
  BY Zenon, <1>1, <1>2, WorkFacts
<1>5. Lacks(g)' => Lacks(g)
  BY ZenonT(60), <1>1 DEF Lacks, Mirrors
<1>6. Concluded'
  <2>1. worker'.pc = "mirror" => Pending(worker'.fd) = {}
    BY Zenon, <1>1, <1>3
  <2>2. ASSUME worker'.pc = "finish", g \notin excused
        PROVE  ~Lacks(g)
    <3>1. ToMirror(desc[g]) = {} /\ Pending(desc[g]) = {}
      BY Zenon, <1>1, <1>3, <1>4, <2>2, NoMirrors DEF IInv, Typed
    <3> QED BY ZenonT(60), <3>1, Complete
  <2> QED BY Zenon, <1>1, <1>3, <1>5, <2>1, <2>2 DEF Concluded, Pending
<1> QED BY ZenonT(60), <1>1, <1>2, <1>3, <1>4, <1>5, <1>6, WorkKept

\* The pending versions go to the primary and to mirrors.
LEMMA DistributeKept ==
    ASSUME IInv, Typed', scene' = scene, NEW ok \in SUBSET Versions, NEW r \in Copies,
           NEW bad \in BOOLEAN, Distribute(ok, r, bad)
    PROVE  IInv'
<1>1. /\ worker.pc = "distribute" /\ worker.pc \in Busy
      /\ UNCHANGED <<path, writer, items, excused>>
  BY Zenon DEF Distribute, queue, Busy
<1>2. PICK g \in Files, fd \in [Versions -> Entries] :
          g = worker.f /\ fd = Distributed(worker.fd, ok, r)
  BY Zenon, <1>1, WorkerFacts, CopyTypes DEF IInv
<1>3. /\ worker'.pc \in Busy /\ worker'.f = g /\ worker'.p = worker.p /\ worker'.fd = fd
      /\ worker'.pc = IF Mirrors = {} THEN "finish" ELSE "mirror"
      /\ worker'.bad = bad
  BY Zenon, <1>1, <1>2, WorkerFacts DEF IInv, Distribute, Busy
<1>4. /\ \A v \in Versions : desc[g][v] # Absent \/ worker.fd[v] # Absent => Knows(g, v)
      /\ g \notin excused => worker.fd = desc[g]
  BY Zenon, <1>1, <1>2, WorkFacts
<1>5. /\ ok \subseteq Pending(worker.fd) \cap cached
      /\ ~bad => ok = Pending(worker.fd) \cap cached
      /\ desc' = IF fd # worker.fd THEN [desc EXCEPT ![g] = fd] ELSE desc
      /\ cached' = IF Mirrors = {} THEN cached \ ok ELSE cached
  BY Zenon, <1>2 DEF Distribute, Failures
<1>6. /\ \A f \in Files : f # g => desc'[f] = desc[f]
      /\ desc'[g] = fd \/ desc'[g] = desc[g]
      /\ g \notin excused => desc'[g] = fd
  BY Zenon, <1>4, <1>5 DEF IInv, Typed
<1>7. \A v \in Versions :
          /\ v \notin Pending(worker.fd) => fd[v] = worker.fd[v]
          /\ v \in Pending(worker.fd) => worker.fd[v].at = "cache"
          /\ v \in Pending(worker.fd) /\ v \notin cached => fd[v] = Absent
          /\ v \in Pending(worker.fd) /\ v \in cached /\ v \notin ok => fd[v].at = "cache"
          /\ v \in Pending(worker.fd) /\ v \in cached /\ v \in ok => fd[v].at = "primary"
  BY ZenonT(60), <1>2 DEF Distributed, Pending
<1>8. \A v \in Versions :
          /\ fd[v] # Absent => worker.fd[v] # Absent
          /\ fd[v].at = "cache" => worker.fd[v].at = "cache" /\ v \in cached /\ v \notin ok
  BY Zenon, <1>7, BlankFacts DEF Pending
<1>9. \A v \in Versions : worker.fd[v].at = "cache" => worker.fd[v] # Absent
  BY Zenon, BlankFacts
<1>10. ASSUME g \notin excused, Lacks(g)'
       PROVE  Lacks(g)
  <2>0. desc'[g] = fd /\ Mirrors' = Mirrors
    BY Zenon, <1>6, <1>10 DEF Mirrors
  <2>1. PICK v \in Versions : \/ fd[v].at = "cache" /\ v \in cached'
                              \/ fd[v].at = "primary" /\ fd[v].copies # Mirrors
    BY Zenon, <1>10, <2>0 DEF Lacks
  <2>2. CASE v \in Pending(worker.fd)
    <3>1. v \in cached /\ desc[g][v].at = "cache"
      BY Zenon, <1>4, <1>7, <1>10, <2>1, <2>2, BlankFacts
    <3> QED BY Zenon, <3>1 DEF Lacks
  <2>3. CASE v \notin Pending(worker.fd)
    <3>1. fd[v] = desc[g][v] /\ desc[g][v].at # "cache"
      BY Zenon, <1>4, <1>7, <1>10, <2>3 DEF Pending
    <3> QED BY ZenonT(60), <2>1, <3>1 DEF Lacks
  <2> QED BY Zenon, <2>2, <2>3
<1>11. Concluded'
  <2>1. ASSUME ~bad
        PROVE  Pending(fd) = {}
    <3>1. \A v \in Versions : fd[v].at = "cache" => v \in Pending(worker.fd) \cap cached /\ v \notin ok
      BY Zenon, <1>8 DEF Pending
    <3>2. \A v \in Versions : fd[v].at # "cache"
      BY Zenon, <1>5, <2>1, <3>1
    <3> QED BY Zenon, <3>2 DEF Pending
  <2>2. ASSUME worker'.pc = "finish", ~bad, g \notin excused
        PROVE  ~Lacks(g)'
    <3>1. Mirrors = {} /\ ToMirror(fd) = {}
      BY Zenon, <1>3, <2>2, NoMirrors
    <3>2. desc'[g] = fd /\ Mirrors' = Mirrors
      BY Zenon, <1>6, <2>2 DEF Mirrors
    <3> QED BY Zenon, <2>1, <2>2, <3>1, <3>2 DEF Lacks, Pending, ToMirror
  <2> QED BY Zenon, <1>1, <1>3, <2>1, <2>2 DEF Concluded, Pending
<1>12. \A v \in cached \ cached' : v \in Versions /\ Knows(g, v)
  BY Zenon, <1>4, <1>5, <1>9 DEF Pending
<1>13. \A v \in Versions : desc'[g][v] # Absent \/ worker'.fd[v] # Absent => Knows(g, v)
  BY Zenon, <1>3, <1>4, <1>6, <1>8
<1>14. \A v \in Versions : desc'[g][v].at = "cache" \/ worker'.fd[v].at = "cache"
                           => desc[g][v].at = "cache" \/ worker.fd[v].at = "cache"
  BY Zenon, <1>3, <1>6, <1>8
<1>15. g \notin excused => \A v \in Versions : desc'[g][v].at = "cache" =>
               desc[g][v].at = "cache" /\ (v \in cached => v \in cached')
  BY Zenon, <1>4, <1>5, <1>6, <1>8
<1>16. cached' \subseteq cached /\ worker.f = g
  BY Zenon, <1>2, <1>5
<1>17. g \notin excused /\ worker'.pc # "finish" => worker'.fd = desc'[g]
  BY Zenon, <1>3, <1>6
<1> QED BY ZenonT(60), <1>1, <1>3, <1>6, <1>10, <1>11, <1>12, <1>13, <1>14, <1>15, <1>16, <1>17, WorkKept

\* mirror_parts for the versions that lack a copy, and the release.
LEMMA MirrorKept ==
    ASSUME IInv, Typed', scene' = scene, NEW r \in Copies, NEW refresh \in BOOLEAN,
           Mirror(r, refresh)
    PROVE  IInv'
<1>1. /\ worker.pc = "mirror" /\ worker.pc \in Busy
      /\ UNCHANGED <<path, writer, items, excused>>
  BY Zenon DEF Mirror, queue, Busy
<1>2. PICK g \in Files, fd \in [Versions -> Entries] :
          g = worker.f /\ fd = Mirrored(worker.fd, r)
  BY Zenon, <1>1, WorkerFacts, CopyTypes DEF IInv
<1>3. /\ worker'.pc \in Busy /\ worker'.f = g /\ worker'.p = worker.p /\ worker'.fd = fd
      /\ worker'.pc = "finish" /\ (~worker'.bad => ~worker.bad /\ ToMirror(fd) = {})
  BY Zenon, <1>1, <1>2, WorkerFacts DEF IInv, Mirror, Busy, StillMissing
<1>4. /\ \A v \in Versions : desc[g][v] # Absent \/ worker.fd[v] # Absent => Knows(g, v)
      /\ g \notin excused => worker.fd = desc[g]
  BY Zenon, <1>1, <1>2, WorkFacts
<1>5. /\ desc' = IF fd # worker.fd \/ refresh THEN [desc EXCEPT ![g] = fd] ELSE desc
      /\ cached' = cached \ Released(fd)
  BY Zenon, <1>2 DEF Mirror
<1>6. /\ \A f \in Files : f # g => desc'[f] = desc[f]
      /\ desc'[g] = fd \/ desc'[g] = desc[g]
      /\ g \notin excused => desc'[g] = fd
  BY ZenonT(60), <1>4, <1>5 DEF IInv, Typed
<1>7. \A v \in Versions :
          /\ v \notin ToMirror(worker.fd) => fd[v] = worker.fd[v]
          /\ fd[v].at = worker.fd[v].at
          /\ v \in ToMirror(worker.fd) => worker.fd[v].at = "primary" /\ worker.fd[v].copies # Mirrors
  <2>1. \A v \in Versions : worker.fd[v] \in Entries
    BY ZenonT(60), <1>1, WorkerFacts DEF IInv
  <2> QED BY Zenon, <1>2, <2>1 DEF Mirrored, ToMirror, Entries
<1>8. \A v \in Versions :
          /\ fd[v] # Absent => worker.fd[v] # Absent
          /\ fd[v].at = "primary" => worker.fd[v] # Absent
          /\ fd[v].at = "cache" => v \notin Released(fd)
  BY Zenon, <1>7, BlankFacts DEF Released
<1>10. ASSUME g \notin excused, Lacks(g)'
       PROVE  Lacks(g)
  <2>0. desc'[g] = fd /\ Mirrors' = Mirrors
    BY Zenon, <1>6, <1>10 DEF Mirrors
  <2>1. PICK v \in Versions : \/ fd[v].at = "cache" /\ v \in cached'
                              \/ fd[v].at = "primary" /\ fd[v].copies # Mirrors
    BY Zenon, <1>10, <2>0 DEF Lacks
  <2>2. CASE v \in ToMirror(worker.fd)
    <3>1. desc[g][v].at = "primary" /\ desc[g][v].copies # Mirrors
      BY Zenon, <1>4, <1>7, <1>10, <2>2
    <3> QED BY Zenon, <3>1 DEF Lacks
  <2>3. CASE v \notin ToMirror(worker.fd)
    <3>1. fd[v] = desc[g][v]
      BY Zenon, <1>4, <1>7, <1>10, <2>3
    <3>2. v \in cached' => v \in cached
      BY Zenon, <1>5
    <3> QED BY Zenon, <2>1, <3>1, <3>2 DEF Lacks
  <2> QED BY Zenon, <2>2, <2>3
<1>11. Concluded'
  <2>2. ASSUME ~worker'.bad, g \notin excused
        PROVE  ~Lacks(g)'
    <3>1. ToMirror(fd) = {} /\ Pending(worker.fd) = {}
      BY Zenon, <1>1, <1>3, <2>2 DEF IInv, Concluded
    <3>2. desc'[g] = fd /\ Mirrors' = Mirrors /\ Pending(fd) = {}
      BY ZenonT(60), <1>6, <1>7, <2>2, <3>1 DEF Mirrors, Pending
    <3> QED BY Zenon, <3>1, <3>2 DEF Lacks, Pending, ToMirror
  <2> QED BY Zenon, <1>1, <1>3, <2>2 DEF Concluded
<1>12. \A v \in cached \ cached' : v \in Versions /\ Knows(g, v)
  BY Zenon, <1>4, <1>5, <1>8 DEF Released
<1>13. \A v \in Versions : desc'[g][v] # Absent \/ worker'.fd[v] # Absent => Knows(g, v)
  BY Zenon, <1>3, <1>4, <1>6, <1>8
<1>14. \A v \in Versions : desc'[g][v].at = "cache" \/ worker'.fd[v].at = "cache"
                           => desc[g][v].at = "cache" \/ worker.fd[v].at = "cache"
  BY ZenonT(60), <1>3, <1>6, <1>7
<1>15. g \notin excused => \A v \in Versions : desc'[g][v].at = "cache" =>
               desc[g][v].at = "cache" /\ (v \in cached => v \in cached')
  BY ZenonT(60), <1>4, <1>5, <1>6, <1>7, <1>8
<1>16. cached' \subseteq cached /\ worker.f = g
  BY Zenon, <1>2, <1>5
<1>17. g \notin excused /\ worker'.pc # "finish" => worker'.fd = desc'[g]
  BY Zenon, <1>3
<1> QED BY ZenonT(60), <1>1, <1>3, <1>6, <1>10, <1>11, <1>12, <1>13, <1>14, <1>15, <1>16, <1>17, WorkKept

\* process_one raises.
LEMMA ProcessRaisesKept ==
    ASSUME IInv, Typed', scene' = scene, ProcessRaises
    PROVE  IInv'
<1>1. /\ worker.pc \in Busy /\ worker.pc # "finish"
      /\ UNCHANGED <<desc, path, writer, items, excused>>
  BY Zenon DEF ProcessRaises, queue, Busy
<1>2. PICK g \in Files : g = worker.f
  BY Zenon, <1>1, WorkerFacts DEF IInv
<1>3. /\ worker'.pc \in Busy /\ worker'.f = g /\ worker'.p = worker.p /\ worker'.fd = worker.fd
      /\ worker'.pc = "finish" /\ worker'.bad
  BY Zenon, <1>1, <1>2, WorkerFacts DEF IInv, ProcessRaises, Busy
<1>4. /\ \A v \in Versions : desc[g][v] # Absent \/ worker.fd[v] # Absent => Knows(g, v)
      /\ g \notin excused => worker.fd = desc[g]
  BY Zenon, <1>1, <1>2, WorkFacts
<1>5. PICK V \in SUBSET {v \in Versions : worker.fd[v].at = "primary"} : cached' = cached \ V
  BY Zenon DEF ProcessRaises
<1>6. cached' \subseteq cached
  BY Zenon, <1>5
<1>7. Lacks(g)' => Lacks(g)
  BY Zenon, <1>1, <1>6 DEF Lacks, Mirrors
<1>8. Concluded'
  BY Zenon, <1>3 DEF Concluded
<1>9. \A v \in cached \ cached' : v \in Versions /\ Knows(g, v)
  BY ZenonT(60), <1>4, <1>5, BlankFacts
<1>10. g \notin excused => \A v \in Versions : desc'[g][v].at = "cache" =>
               desc[g][v].at = "cache" /\ (v \in cached => v \in cached')
  BY Zenon, <1>1, <1>4, <1>5
<1>11. /\ \A f \in Files : f # g => desc'[f] = desc[f]
       /\ \A v \in Versions : desc'[g][v] # Absent \/ worker'.fd[v] # Absent => Knows(g, v)
       /\ \A v \in Versions : desc'[g][v].at = "cache" \/ worker'.fd[v].at = "cache"
                              => desc[g][v].at = "cache" \/ worker.fd[v].at = "cache"
       /\ g \notin excused /\ worker'.pc # "finish" => worker'.fd = desc'[g]
  BY ZenonT(60), <1>1, <1>3, <1>4
<1> QED BY ZenonT(60), <1>1, <1>2, <1>3, <1>6, <1>7, <1>8, <1>9, <1>10, <1>11, WorkKept

-----------------------------------------------------------------------------
(* The results.                                                            *)

\* The invariant holds at the start.
LEMMA InitInv == Init => IInv
<1> SUFFICES ASSUME Init
             PROVE  IInv
  BY Zenon
<1>1. Typed
  BY Zenon, RequestTypes, BlankFacts DEF Init, Typed, Boot
<1>2. /\ \A f \in Files : desc[f] = Blank /\ path[f] = "new" /\ WrittenBy(f) = {} /\ CommittedBy(f) = {}
      /\ worker.pc \notin Busy /\ \A w \in Writers : writer[w].pc = "idle"
  BY ZenonT(60) DEF Init, WrittenBy, CommittedBy, Idle, Boot, Busy
<1>3. \A f \in Files : ~WorkedOn(f) /\ \A v \in Versions : desc[f][v] = Absent /\ ~Knows(f, v)
  BY Zenon, <1>2, BlankFacts DEF WorkedOn, Knows
<1>4. Owned /\ Rooted /\ Exact
  BY Zenon, <1>2, <1>3, PathFacts DEF Owned, Rooted, Exact
<1>5. Modal /\ Concluded /\ Crossed
  BY ZenonT(60), <1>2, <1>3, BlankFacts DEF Modal, Concluded, Crossed, Busy
<1>6. QueueCovers /\ AcknowledgedHeld
  BY Zenon, <1>2, PathFacts DEF QueueCovers, AcknowledgedHeld
<1> QED BY Zenon, <1>1, <1>4, <1>5, <1>6 DEF IInv

\* Every step keeps it.
LEMMA NextInv ==
    ASSUME IInv, [Next]_vars
    PROVE  IInv'
<1>t. Typed' /\ scene' = scene
  BY Zenon, TypedKept, Constant DEF IInv
<1>1. ASSUME NEW w \in Writers, Request(w)
      PROVE  IInv'
  <2>1. CASE \E f \in Files, op \in {"append", "redate", "delete"} : WriteBegin(w, f, op)
    BY Zenon, <1>t, <2>1, WriteBeginKept
  <2>2. CASE \E f \in Files, p \in Paths : CreateBegin(w, f, p)
    BY Zenon, <1>t, <2>2, CreateBeginKept
  <2>3. CASE AppendCommit(w)
    BY Zenon, <1>t, <2>3, AppendCommitKept
  <2>4. CASE RedateCommit(w) \/ DeleteCommit(w)
    BY Zenon, <1>t, <2>4, EditCommitKept
  <2>5. CASE WriteFails(w)
    BY Zenon, <1>t, <2>5, WriteFailsKept
  <2> QED BY Zenon, <1>1, <2>1, <2>2, <2>3, <2>4, <2>5 DEF Request
<1>2. ASSUME NEW w \in Writers, WriteEnqueue(w) \/ WriteRaises(w)
      PROVE  IInv'
  BY Zenon, <1>t, <1>2, WriteEnqueueKept
<1>3. CASE Work
  <2>1. CASE RunOnce \/ RunEnds \/ Wake \/ ProcessFailed
    <3>1. UNCHANGED <<desc, path, cached, writer, items, excused>> /\ worker'.pc \notin Busy
      BY SMTT(60), Z3T(60), <2>1 DEF RunOnce, RunEnds, Wake, ProcessFailed, Failed, files, queue, Busy
    <3> QED BY ZenonT(60), <1>t, <3>1, QuietKept
  <2>2. CASE \E p \in Paths : ProcessGone(p)
    BY Zenon, <1>t, <2>2, ProcessGoneKept
  <2>3. CASE \E p \in Paths, f \in Files : ProcessBegin(p, f)
    BY Zenon, <1>t, <2>3, ProcessBeginKept
  <2>4. CASE NothingPending
    BY ZenonT(60), <1>t, <2>4, NothingPendingKept
  <2>5. CASE DistributeSome
    BY Zenon, <1>t, <2>5, DistributeKept DEF DistributeSome
  <2>6. CASE MirrorSome
    BY ZenonT(60), <1>t, <2>6, MirrorKept DEF MirrorSome
  <2>7. CASE ProcessRaises
    BY Zenon, <1>t, <2>7, ProcessRaisesKept
  <2>8. CASE ProcessDone
    BY Zenon, <1>t, <2>8, ProcessDoneKept
  <2> QED BY Zenon, <1>3, <2>1, <2>2, <2>3, <2>4, <2>5, <2>6, <2>7, <2>8 DEF Work
<1>4. ASSUME NEW f \in Files, Remove(f)
      PROVE  IInv'
  BY Zenon, <1>t, <1>4, RemoveKept
<1>5. ASSUME NEW f \in Files, NEW p \in Paths, Move(f, p)
      PROVE  IInv'
  BY Zenon, <1>t, <1>5, MoveKept
<1>6. CASE (\E p \in Paths : Elapse(p)) \/ RetryNow \/ UNCHANGED vars
  <2>1. UNCHANGED <<desc, path, cached, writer, items, excused, worker>>
    BY Zenon, <1>6 DEF Elapse, RetryNow, files, queue, vars
  <2> QED BY Zenon, <1>t, <2>1, QuietKept
<1>7. CASE Crash
  BY Zenon, <1>t, <1>7, CrashKept
<1>8. ASSUME NEW v \in Versions, Sweep(v) \/ CacheLoses(v)
      PROVE  IInv'
  BY Zenon, <1>t, <1>8, SweepKept
<1> QED BY Zenon, <1>1, <1>2, <1>3, <1>4, <1>5, <1>6, <1>7, <1>8 DEF Next

\* A step that writes the descriptor as it is, with a new version, with more
\* copies or without a deleted version keeps what it knew.
LEMMA SameKeeps ==
    ASSUME NEW f \in Files, desc'[f] = desc[f]
    PROVE  Keeps(f)
BY Zenon DEF Keeps

\* A client's write of a descriptor.
LEMMA CommitKeeps ==
    ASSUME IInv, NEW w \in Writers, writer[w].pc = "upload", NEW f \in Files \ excused,
           writer[w].f = f, NEW v \in Versions, desc[f][v] = Absent \/ v \in deleted',
           \A u \in Versions : u # v => desc'[f][u] = writer[w].fd[u]
    PROVE  Keeps(f)
<1>1. w \in WrittenBy(f)
  BY Zenon DEF WrittenBy
<1>2. Held(writer[w].fd, f)
  BY Zenon, <1>1 DEF IInv, Exact
<1>3. CASE writer[w].fd = desc[f]
  BY ZenonT(60), <1>3, BlankFacts DEF Keeps
<1>4. CASE \A u \in Versions : ~Servable(f, u)
  BY Zenon, <1>4 DEF Keeps, Servable
<1> QED BY Zenon, <1>2, <1>3, <1>4 DEF Held

\* The worker's write of a descriptor.
LEMMA WorkKeeps ==
    ASSUME IInv, scene' = scene, NEW f \in Files \ excused,
           DistributeSome \/ MirrorSome
    PROVE  Keeps(f)
<1>1. worker.pc \in Busy /\ worker.pc # "finish"
  BY Zenon DEF DistributeSome, MirrorSome, Distribute, Mirror, Busy
<1>2. worker.f \in Files /\ worker.fd \in [Versions -> Entries]
  BY Zenon, <1>1, WorkerFacts DEF IInv
<1>3. CASE f # worker.f
  <2>1. desc'[f] = desc[f]
    BY ZenonT(60), <1>2, <1>3 DEF DistributeSome, MirrorSome, Distribute, Mirror, IInv, Typed
  <2> QED BY Zenon, <2>1, SameKeeps
<1>4. CASE f = worker.f
  <2>1. worker.fd = desc[f] /\ desc \in [Files -> [Versions -> Entries]]
    BY Zenon, <1>1, <1>4, WorkFacts DEF IInv, Typed
  <2>2. CASE DistributeSome
    <3>1. PICK ok \in SUBSET Versions, r \in Copies, bad \in BOOLEAN : Distribute(ok, r, bad)
      BY Zenon, <2>2 DEF DistributeSome
    <3>2. desc'[f] = Distributed(desc[f], ok, r)
      BY Zenon, <1>4, <2>1, <3>1 DEF Distribute
    <3>3. \A v \in Versions : /\ desc[f][v].at = "primary" => desc'[f][v] = desc[f][v]
                              /\ desc[f][v].at = "cache" /\ v \in cached =>
                                    desc'[f][v].at \in {"cache", "primary"}
      BY SMTT(60), Z3T(60), <3>2 DEF Distributed, Pending
    <3> QED BY Zenon, <3>3 DEF Keeps
  <2>3. CASE MirrorSome
    <3>1. PICK r \in Copies, refresh \in BOOLEAN : Mirror(r, refresh)
      BY Zenon, <2>3 DEF MirrorSome
    <3>2. desc'[f] = Mirrored(desc[f], r)
      BY Zenon, <1>4, <2>1, <3>1 DEF Mirror
    <3>3. ASSUME NEW v \in Versions
          PROVE  desc'[f][v].at = desc[f][v].at /\ desc[f][v].copies \subseteq desc'[f][v].copies
      <4>1. desc[f][v] \in [at : Where, copies : SUBSET Mirrors]
        BY ZenonT(60), <2>1 DEF Entries
      <4> QED BY SMTT(60), Z3T(60), <3>2, <4>1 DEF Mirrored
    <3> QED BY Zenon, <3>3 DEF Keeps
  <2> QED BY Zenon, <2>2, <2>3
<1> QED BY Zenon, <1>3, <1>4

\* Every step keeps what the descriptors know.
LEMMA StepKeeps ==
    ASSUME IInv, [Next]_vars, NEW f \in Files \ excused'
    PROVE  Keeps(f)
<1>c. scene' = scene /\ f \in Files \ excused
  BY ZenonT(60), Constant
<1>d. desc \in [Files -> [Versions -> Entries]]
  BY Zenon DEF IInv, Typed
<1>1. ASSUME NEW w \in Writers, AppendCommit(w) \/ RedateCommit(w) \/ DeleteCommit(w)
      PROVE  Keeps(f)
  <2>1. writer[w].pc = "upload" /\ writer[w].f \in Files /\ writer[w].fd \in [Versions -> Entries]
    BY ZenonT(60), <1>1, RequestFacts DEF AppendCommit, RedateCommit, DeleteCommit, IInv
  <2>2. CASE f # writer[w].f
    <3>1. desc'[f] = desc[f]
      BY Zenon, <1>1, <1>d, <2>2 DEF AppendCommit, RedateCommit, DeleteCommit
    <3> QED BY Zenon, <3>1, SameKeeps
  <2>3. CASE f = writer[w].f /\ AppendCommit(w)
    <3>1. PICK v \in Versions, e \in Entries :
              /\ Appended(writer[w].fd, v, e)
              /\ desc' = [desc EXCEPT ![writer[w].f] = WithVersion(writer[w].fd, v, e)]
      BY Zenon, <2>3 DEF AppendCommit
    <3>2. desc[f][v] = Absent
      BY Zenon, <3>1, FreshFacts DEF Appended, IInv
    <3>3. \A u \in Versions : u # v => desc'[f][u] = writer[w].fd[u]
      BY ZenonT(60), <1>d, <2>1, <2>3, <3>1 DEF WithVersion
    <3> QED BY ZenonT(60), <1>c, <2>1, <2>3, <3>2, <3>3, CommitKeeps
  <2>4. CASE f = writer[w].f /\ DeleteCommit(w)
    <3>1. PICK v \in Versions :
              /\ desc' = [desc EXCEPT ![writer[w].f] = [writer[w].fd EXCEPT ![v] = Absent]]
              /\ deleted' = deleted \cup {v}
      BY Zenon, <2>4 DEF DeleteCommit
    <3>2. v \in deleted'
      BY ZenonT(60), <3>1
    <3>3. \A u \in Versions : u # v => desc'[f][u] = writer[w].fd[u]
      BY Zenon, <1>d, <2>1, <2>4, <3>1
    <3> QED BY ZenonT(60), <1>c, <2>1, <2>4, <3>2, <3>3, CommitKeeps
  <2>5. CASE f = writer[w].f /\ RedateCommit(w)
    <3>1. w \in WrittenBy(f) /\ writer[w].fd # Blank
      BY Zenon, <2>1, <2>5 DEF WrittenBy, RedateCommit
    <3>2. writer[w].fd = desc[f]
      BY Zenon, <1>c, <3>1 DEF IInv, Exact, Held
    <3>3. desc'[f] = desc[f]
      BY Zenon, <1>d, <2>5, <3>2 DEF RedateCommit
    <3> QED BY Zenon, <3>3, SameKeeps
  <2> QED BY Zenon, <1>1, <2>2, <2>3, <2>4, <2>5
<1>2. CASE DistributeSome \/ MirrorSome
  BY Zenon, <1>c, <1>2, WorkKeeps
<1>3. CASE UNCHANGED desc
  BY Zenon, <1>3, SameKeeps
<1>4. ASSUME NEW w \in Writers, Request(w) \/ WriteEnqueue(w) \/ WriteRaises(w)
      PROVE  UNCHANGED desc \/ AppendCommit(w) \/ RedateCommit(w) \/ DeleteCommit(w)
  BY Zenon, <1>4 DEF Request, WriteEnqueue, WriteRaises, WriteBegin, CreateBegin, WriteFails, files
<1>5. ASSUME Work
      PROVE  UNCHANGED desc \/ DistributeSome \/ MirrorSome
  BY Zenon, <1>5 DEF Work, RunOnce, RunEnds, Wake, ProcessGone, ProcessBegin, NothingPending,
              ProcessRaises, ProcessFailed, ProcessDone, files
<1>6. CASE \E g \in Files : Remove(g) \/ \E p \in Paths : Move(g, p)
  BY ZenonT(60), <1>3, <1>6 DEF Remove, Move
<1>7. CASE (\E p \in Paths : Elapse(p)) \/ RetryNow \/ Crash
  BY Zenon, <1>3, <1>7 DEF Elapse, RetryNow, Crash, files
<1>8. CASE \E v \in Versions : Sweep(v) \/ CacheLoses(v)
  BY ZenonT(60), <1>3, <1>8 DEF Sweep, CacheLoses
<1>9. CASE UNCHANGED vars
  BY Zenon, <1>3, <1>9 DEF vars, files
<1> QED BY Zenon, <1>1, <1>2, <1>3, <1>4, <1>5, <1>6, <1>7, <1>8, <1>9 DEF Next

\* The inductive invariant of Replication.
THEOREM Invariance == Spec => []IInv
<1>1. IInv /\ [Next]_vars => IInv'
  BY Zenon, NextInv
<1> QED BY InitInv, <1>1, PTL DEF Spec

\* replication.py, "nothing is ever dropped silently": for any number of
\* files, clients and mirrors, a file that lacks a copy is in the queue or
\* about to be put there, unless one of the named ways to fall out of the
\* queue was taken.
THEOREM NothingDropped == Spec => []QueueCovers
<1>1. IInv => QueueCovers
  BY Zenon DEF IInv
<1> QED BY Invariance, <1>1, PTL

\* write_ack: cache.  An acknowledged version whose bytes are in no store
\* keeps its local bytes, whatever the worker, the sweep and the clients do.
THEOREM AcknowledgedKept == Spec => []AcknowledgedHeld
<1>1. IInv => AcknowledgedHeld
  BY Zenon DEF IInv
<1> QED BY Invariance, <1>1, PTL

\* README, "Infinite versioning": no step of clients, worker, sweep or crash
\* loses a version or a copy from the descriptor of a file on which no two
\* read-modify-writes overlapped and no read went wrong.
THEOREM HistoriesKept == Spec => HistoryKept
<1>1. IInv /\ [Next]_vars => \A f \in Files \ excused' : path[f] \in Paths => Keeps(f)
  BY Zenon, StepKeeps
<1> QED BY Invariance, <1>1, PTL DEF Spec, HistoryKept
=============================================================================
