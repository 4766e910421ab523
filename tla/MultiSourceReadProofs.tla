------------------------ MODULE MultiSourceReadProofs ------------------------
(***************************************************************************)
(* The safety theorems of MultiSourceRead, for any stores, workers, number *)
(* of pieces and window.                                                   *)
(*                                                                         *)
(* Inv is inductive.  Beside the three properties it says where pieces can *)
(* be at all (Placed) and why a worker is gone or the read is given up     *)
(* (Reasons): the consumer raises on what the workers left behind, so what *)
(* it may conclude depends on why they left.                               *)
(***************************************************************************)
EXTENDS MultiSourceRead, TLAPS

\* A piece that was handed out is nowhere any more, also after a failure.
Placed == pending \cup results \cup Fetched \subseteq next .. N - 1

\* Why workers leave, what makes the read fatal, and what its end leaves.
Reasons ==
    /\ \A w \in Workers : worker[w] = "done" /\ consumer \notin Ends =>
          fatal \/ next >= N \/ StoreOf[w] \in benched
    /\ fatal => \E p \in next .. N - 1 : Unservable(p)
    /\ consumer \in {"ready", "waiting"} => next < N
    /\ consumer \in Ends => \A w \in Workers : worker[w] = "done"

Inv == TypeOK /\ NothingLost /\ WithinWindow /\ Placed /\ Reasons /\ FailsOnlyUnservable

-----------------------------------------------------------------------------
\* The read begins typed.
LEMMA TypeInit == Init => TypeOK
<1> SUFFICES ASSUME Init PROVE TypeOK
  BY Zenon
<1>1. 0 \in Pieces /\ 0 \in 0 .. N
  BY SMTT(60), Z3T(60), ReadAssumption DEF Pieces
<1>2. tried \in [Pieces -> SUBSET Stores] /\ failures \in [Stores -> Nat]
  BY Zenon DEF Init
<1> QED BY Zenon, <1>1, <1>2 DEF Init, TypeOK

\* Every step of the read keeps the types.
LEMMA TypeNext == TypeOK /\ [Next]_vars => TypeOK'
<1> SUFFICES ASSUME TypeOK, [Next]_vars PROVE TypeOK'
  BY Zenon
<1> USE ReadAssumption DEF TypeOK, shared, Pieces
<1>1. ASSUME NEW w \in Workers, WorkerTurn(w) PROVE TypeOK'
  <2>1. CASE WorkerLeaves(w) \/ WorkerWaits(w)
    <3>1. CASE WorkerLeaves(w)
      BY ZenonT(60), <3>1 DEF WorkerLeaves
    <3>2. CASE WorkerWaits(w)
      BY ZenonT(60), <3>2 DEF WorkerWaits
    <3> QED BY Zenon, <2>1, <3>1, <3>2
  <2>2. ASSUME NEW p \in Pieces, WorkerClaims(w, p) PROVE TypeOK'
    BY Zenon, <2>2 DEF WorkerClaims
  <2> QED BY Zenon, <1>1, <2>1, <2>2 DEF WorkerTurn
<1>2. ASSUME NEW w \in Workers, FetchOk(w) PROVE TypeOK'
  BY ZenonT(60), <1>2 DEF FetchOk, Woken, WokenConsumer, Ends
<1>3. ASSUME NEW w \in Workers, FetchFail(w) PROVE TypeOK'
  <2>1. /\ tried' \in [Pieces -> SUBSET Stores] /\ failures' \in [Stores -> Nat]
        /\ UNCHANGED <<results, next, job>>
    BY SMTT(60), Z3T(60), <1>3 DEF FetchFail
  <2>2. benched' \subseteq Stores
    BY Zenon, <1>3 DEF FetchFail, Benched
  <2>3. pending' \subseteq Pieces /\ fatal' \in BOOLEAN
    <3>1. job[w] \in Pieces /\ fatal \in BOOLEAN /\ pending \subseteq Pieces
      BY Zenon
    <3>2. \/ fatal' = TRUE /\ pending' = pending
          \/ fatal' = fatal /\ pending' = pending \cup {job[w]}
      BY Zenon, <1>3 DEF FetchFail
    <3> QED BY Zenon, <3>1, <3>2
  <2>4. /\ worker' \in [Workers -> {"ready", "waiting", "fetching", "done"}]
        /\ consumer' \in {"ready", "waiting", "paused"} \cup Ends
    BY Zenon, <1>3 DEF FetchFail, Woken, WokenConsumer
  <2> QED BY Zenon, <2>1, <2>2, <2>3, <2>4
<1>4. CASE ConsumerEmits
  BY SMTT(60), Z3T(60), <1>4 DEF ConsumerEmits, Woken
<1>5. CASE ConsumerFails \/ ConsumerBlocks \/ ConsumerResumes \/ ConsumerCloses
  BY ZenonT(60), <1>5 DEF ConsumerFails, ConsumerBlocks, ConsumerResumes, ConsumerCloses, End, Ends
<1>6. CASE UNCHANGED vars
  BY Zenon, <1>6 DEF vars
<1> QED BY Zenon, <1>1, <1>2, <1>3, <1>4, <1>5, <1>6 DEF Next, Fetch, Consume, Over

-----------------------------------------------------------------------------
\* The read begins with every piece in the pool.
LEMMA InvInit == Init => Inv
<1> SUFFICES ASSUME Init PROVE Inv
  BY Zenon
<1>1. Fetching = {} /\ Fetched = {}
  BY Zenon DEF Init, Fetching, Fetched
<1>2. NothingLost /\ WithinWindow /\ Placed
  BY Zenon, <1>1, ReadAssumption DEF Init, NothingLost, WithinWindow, Placed, Pieces
<1>3. Reasons /\ FailsOnlyUnservable
  BY SMTT(60), Z3T(60), ReadAssumption DEF Init, Reasons, FailsOnlyUnservable, Ends
<1> QED BY Zenon, <1>2, <1>3, TypeInit DEF Inv

\* A worker leaves for one of the reasons, or waits: no piece moves.
LEMMA IdleStep ==
    ASSUME Inv, TypeOK', NEW w \in Workers, WorkerLeaves(w) \/ WorkerWaits(w)
    PROVE  Inv'
<1>1. /\ worker[w] = "ready" /\ UNCHANGED <<shared, next, job, consumer>>
      /\ \/ worker' = [worker EXCEPT ![w] = "done"] /\ MustLeave(w)
         \/ worker' = [worker EXCEPT ![w] = "waiting"]
  BY Zenon DEF WorkerLeaves, WorkerWaits
<1>2. Fetching' = Fetching
  BY Zenon, <1>1 DEF Fetching, Inv, TypeOK
<1>3. Fetched' = Fetched
  BY Zenon, <1>1, <1>2 DEF Fetched
<1>4. NothingLost' /\ WithinWindow' /\ Placed'
  BY Zenon, <1>1, <1>2, <1>3 DEF Inv, NothingLost, WithinWindow, Placed, shared
<1>5. Reasons' /\ FailsOnlyUnservable'
  BY Zenon, <1>1 DEF Inv, TypeOK, Reasons, FailsOnlyUnservable, MustLeave, Unservable, shared
<1> QED BY Zenon, <1>4, <1>5 DEF Inv

\* A claim moves one piece from the queue to one worker.
LEMMA ClaimStep ==
    ASSUME Inv, TypeOK', NEW w \in Workers, NEW p \in Pieces, WorkerClaims(w, p)
    PROVE  Inv'
<1>1. /\ worker[w] = "ready" /\ p \in pending /\ p < next + Window
      /\ pending' = pending \ {p}
      /\ worker' = [worker EXCEPT ![w] = "fetching"] /\ job' = [job EXCEPT ![w] = p]
      /\ UNCHANGED <<tried, failures, benched, fatal, results, next, consumer>>
  BY Zenon DEF WorkerClaims, Claimable
<1>2. /\ Fetching' = Fetching \cup {w} /\ w \notin Fetching /\ job'[w] = p
      /\ \A x \in Fetching : job'[x] = job[x]
  BY ZenonT(60), <1>1 DEF Fetching, Inv, TypeOK
<1>3. Fetched' = Fetched \cup {p}
  BY Zenon, <1>2 DEF Fetched
<1>4. p \notin Fetched /\ p \notin results /\ p \in next .. N - 1
  BY Zenon, <1>1 DEF Inv, NothingLost, Placed
<1>5. \A x \in Fetching : job[x] # p
  BY Zenon, <1>4 DEF Fetched
<1>6. NothingLost'
  <2>1. \A x, y \in Fetching' : job'[x] = job'[y] => x = y
    BY SMTT(60), ZenonT(60), <1>2, <1>5 DEF Inv, NothingLost
  <2> QED BY SMTT(60), Z3T(60), <1>1, <1>3, <1>4, <2>1 DEF Inv, NothingLost
<1>7. WithinWindow' /\ Placed'
  BY SMTT(60), Z3T(60), <1>1, <1>3, <1>4, ReadAssumption DEF Inv, TypeOK, WithinWindow, Placed, Pieces
<1>8. Reasons' /\ FailsOnlyUnservable'
  BY Zenon, <1>1 DEF Inv, TypeOK, Reasons, FailsOnlyUnservable, Unservable
<1> QED BY Zenon, <1>6, <1>7, <1>8 DEF Inv

\* The end of a download takes the piece from its worker.
LEMMA FetchEnds ==
    ASSUME Inv, NEW w \in Workers, worker[w] = "fetching", UNCHANGED job,
           NEW s \in {"ready", "done"}, worker' = [Woken(worker) EXCEPT ![w] = s]
    PROVE  /\ Fetching' = Fetching \ {w} /\ Fetched' = Fetched \ {job[w]}
           /\ job[w] \in Fetched /\ consumer \notin Ends
           /\ \A x \in Workers : worker'[x] = "done" => worker[x] = "done" \/ (x = w /\ s = "done")
<1>1. \A x \in Workers :
         worker'[x] = IF x = w THEN s ELSE IF worker[x] = "waiting" THEN "ready" ELSE worker[x]
  BY Zenon DEF Woken
<1>2. Fetching' = Fetching \ {w} /\ w \in Fetching
  BY SMTT(60), Z3T(60), <1>1 DEF Fetching
<1>3. \A x \in Fetching : job[x] = job[w] => x = w
  BY Zenon, <1>2 DEF Inv, NothingLost
<1>4. Fetched' = Fetched \ {job[w]} /\ job[w] \in Fetched
  BY Zenon, <1>2, <1>3 DEF Fetched
<1>5. consumer \notin Ends
  BY Zenon DEF Inv, Reasons
<1> QED BY SMTT(60), Z3T(60), <1>1, <1>2, <1>4, <1>5

\* A download that delivers moves its piece to the results.
LEMMA OkStep ==
    ASSUME Inv, TypeOK', NEW w \in Workers, FetchOk(w)
    PROVE  Inv'
<1> DEFINE p == job[w]
<1>1. /\ worker[w] = "fetching" /\ results' = results \cup {p}
      /\ worker' = [Woken(worker) EXCEPT ![w] = "ready"]
      /\ consumer' = WokenConsumer
      /\ UNCHANGED <<pending, tried, benched, fatal, next, job>>
  BY Zenon DEF FetchOk
<1>2. /\ Fetching' = Fetching \ {w} /\ Fetched' = Fetched \ {p}
      /\ p \in Fetched /\ consumer \notin Ends
      /\ \A x \in Workers : worker'[x] = "done" => worker[x] = "done"
  BY Zenon, <1>1, FetchEnds
<1>3. NothingLost'
  <2>1. pending' \cup results' \cup Fetched' = pending \cup results \cup Fetched
    BY Zenon, <1>1, <1>2
  <2> QED BY SMTT(60), Z3T(60), <1>1, <1>2, <2>1 DEF Inv, NothingLost
<1>4. WithinWindow' /\ Placed'
  BY Zenon, <1>1, <1>2 DEF Inv, WithinWindow, Placed
<1>5. Reasons' /\ FailsOnlyUnservable'
  BY Zenon, <1>1, <1>2 DEF Inv, Reasons, FailsOnlyUnservable, Unservable, WokenConsumer, Ends
<1> QED BY Zenon, <1>3, <1>4, <1>5 DEF Inv

\* A download that fails gives its piece back, or ends the read because no
\* store is left for it.
LEMMA FailStep ==
    ASSUME Inv, TypeOK', NEW w \in Workers, FetchFail(w)
    PROVE  Inv'
<1> DEFINE p == job[w]
           s == StoreOf[w]
           h == IF s \in benched' THEN "done" ELSE "ready"
<1>1. /\ worker[w] = "fetching" /\ tried' = [tried EXCEPT ![p] = @ \cup {s}]
      /\ benched \subseteq benched'
      /\ worker' = [Woken(worker) EXCEPT ![w] = h]
      /\ consumer' = WokenConsumer
      /\ UNCHANGED <<results, next, job>>
  BY Zenon DEF FetchFail, Benched
<1>2. \/ fatal' = TRUE /\ pending' = pending /\ Remaining(p, tried', benched') = {}
      \/ fatal' = fatal /\ pending' = pending \cup {p}
  BY Zenon DEF FetchFail
<1>3. h \in {"ready", "done"}
  BY Zenon
<1>4. /\ Fetching' = Fetching \ {w} /\ Fetched' = Fetched \ {p}
      /\ p \in Fetched /\ consumer \notin Ends
      /\ \A x \in Workers : worker'[x] = "done" => worker[x] = "done" \/ (x = w /\ h = "done")
  <2> HIDE DEF h
  <2> QED BY Zenon, <1>1, <1>3, FetchEnds
<1>5. p \in Pieces /\ p \in next .. N - 1
  BY Zenon, <1>4 DEF Inv, TypeOK, Placed
<1>6. NothingLost'
  <2>1. ~fatal' => pending' \cup results' \cup Fetched' = pending \cup results \cup Fetched
    BY Zenon, <1>1, <1>2, <1>4
  <2> QED BY SMTT(60), Z3T(60), <1>1, <1>2, <1>4, <2>1 DEF Inv, NothingLost
<1>7. WithinWindow' /\ Placed'
  BY Zenon, <1>1, <1>2, <1>4 DEF Inv, WithinWindow, Placed
<1>8. \A q \in Pieces : Unservable(q) => Unservable(q)'
  BY Zenon, <1>1, <1>5 DEF Unservable, Inv, TypeOK
<1>9. Remaining(p, tried', benched') = {} => \A t \in Stores : t \in tried'[p] \/ t \in benched'
  BY Zenon DEF Remaining
<1>10. fatal' => \E q \in next .. N - 1 : Unservable(q)'
  <2>1. CASE fatal
    BY SMTT(60), Z3T(60), <2>1, <1>8, ReadAssumption DEF Inv, Reasons, TypeOK, Pieces
  <2>2. CASE ~fatal /\ fatal'
    <3>1. Remaining(p, tried', benched') = {}
      BY Zenon, <2>2, <1>2
    <3>2. \A t \in Stores : t \in tried'[p] \/ t \in benched'
      BY Zenon, <3>1, <1>9
    <3> QED BY Zenon, <3>2, <1>5, <1>1 DEF Unservable
  <2> QED BY Zenon, <2>1, <2>2
<1>11. Reasons'
  <2>1. \A x \in Workers : worker'[x] = "done" => fatal' \/ next' >= N \/ StoreOf[x] \in benched'
    BY SMTT(60), Z3T(60), <1>1, <1>2, <1>4 DEF Inv, Reasons
  <2>2. consumer' \notin Ends /\ (consumer' \in {"ready", "waiting"} => next' < N)
    BY Zenon, <1>1, <1>4 DEF Inv, Reasons, WokenConsumer, Ends
  <2> QED BY Zenon, <2>1, <2>2, <1>10, <1>1 DEF Reasons
<1>12. FailsOnlyUnservable'
  BY Zenon, <1>1, <1>4 DEF FailsOnlyUnservable, WokenConsumer, Ends
<1> QED BY Zenon, <1>6, <1>7, <1>11, <1>12 DEF Inv

\* Handing out the next piece moves the window by one.
LEMMA EmitStep ==
    ASSUME Inv, TypeOK', ConsumerEmits
    PROVE  Inv'
<1>1. /\ consumer = "ready" /\ ~fatal /\ next \in results
      /\ results' = results \ {next} /\ next' = next + 1
      /\ worker' = Woken(worker) /\ consumer' = "paused"
      /\ UNCHANGED <<pending, tried, failures, benched, fatal, job>>
  BY Zenon DEF ConsumerEmits
<1>2. \A x \in Workers : /\ worker'[x] = "fetching" <=> worker[x] = "fetching"
                         /\ worker'[x] = "done" <=> worker[x] = "done"
  BY Zenon, <1>1 DEF Woken
<1>3. Fetching' = Fetching
  BY Zenon, <1>2 DEF Fetching
<1>4. Fetched' = Fetched
  BY Zenon, <1>1, <1>3 DEF Fetched
<1>5. next \notin pending /\ next \notin Fetched
  BY Zenon, <1>1 DEF Inv, NothingLost
<1>6. next \in Nat /\ N \in Nat /\ Window \in Nat
  BY SMTT(60), Z3T(60), ReadAssumption DEF Inv, TypeOK
<1>7. NothingLost'
  <2>1. pending' \cup results' \cup Fetched' = (pending \cup results \cup Fetched) \ {next}
    BY Zenon, <1>1, <1>4, <1>5
  <2>2. pending \cup results \cup Fetched = next .. N - 1
    BY Zenon, <1>1 DEF Inv, NothingLost, Ends
  <2>3. (next .. N - 1) \ {next} = next' .. N - 1
    BY SMTT(60), Z3T(60), <1>1, <1>6
  <2> QED BY Zenon, <1>1, <1>3, <1>4, <2>1, <2>2, <2>3 DEF Inv, NothingLost
<1>8. WithinWindow'
  <2>1. results' \cup Fetched' \subseteq (next .. next + Window - 1) \ {next}
    BY Zenon, <1>1, <1>4, <1>5 DEF Inv, WithinWindow
  <2>2. (next .. next + Window - 1) \ {next} \subseteq next' .. next' + Window - 1
    BY SMTT(60), Z3T(60), <1>1, <1>6
  <2> QED BY Zenon, <2>1, <2>2 DEF WithinWindow
<1>9. Placed'
  <2>1. pending' \cup results' \cup Fetched' \subseteq (next .. N - 1) \ {next}
    BY Zenon, <1>1, <1>4, <1>5 DEF Inv, Placed
  <2>2. (next .. N - 1) \ {next} = next' .. N - 1
    BY SMTT(60), Z3T(60), <1>1, <1>6
  <2> QED BY Zenon, <2>1, <2>2 DEF Placed
<1>10. Reasons' /\ FailsOnlyUnservable'
  BY SMTT(60), Z3T(60), <1>1, <1>2, <1>6 DEF Inv, Reasons, FailsOnlyUnservable, Ends
<1> QED BY Zenon, <1>7, <1>8, <1>9, <1>10 DEF Inv

\* The generator ends: every claim is cancelled with its worker.  It raises
\* only when a piece cannot be served.
LEMMA EndStep ==
    ASSUME Inv, TypeOK', NEW how \in Ends, End(how), UNCHANGED <<shared, next, job>>,
           how = "raised" => \E p \in next .. N - 1 : Unservable(p)
    PROVE  Inv'
<1>1. consumer' = how /\ worker' = [w \in Workers |-> "done"]
  BY Zenon DEF End
<1>2. Fetching' = {} /\ Fetched' = {}
  BY Zenon, <1>1 DEF Fetching, Fetched
<1>3. NothingLost' /\ WithinWindow' /\ Placed'
  BY Zenon, <1>1, <1>2 DEF Inv, NothingLost, WithinWindow, Placed, shared
<1>4. \A p : Unservable(p)' <=> Unservable(p)
  BY Zenon DEF Unservable, shared
<1>5. Reasons'
  BY Zenon, <1>1, <1>4 DEF Inv, Reasons, shared, Ends
<1>6. FailsOnlyUnservable'
  BY Zenon, <1>1, <1>4 DEF FailsOnlyUnservable
<1> QED BY Zenon, <1>3, <1>5, <1>6 DEF Inv

\* The consumer goes to wait or comes back for more: no piece moves.
LEMMA PauseStep ==
    ASSUME Inv, TypeOK', UNCHANGED <<shared, next, worker, job>>, consumer \notin Ends,
           consumer' \in {"ready", "waiting"}, next < N
    PROVE  Inv'
<1>1. Fetching' = Fetching
  BY Zenon DEF Fetching
<1>2. Fetched' = Fetched
  BY Zenon, <1>1 DEF Fetched
<1>3. consumer' \notin Ends /\ consumer' # "raised"
  BY Zenon DEF Ends
<1>4. NothingLost' /\ WithinWindow' /\ Placed'
  BY Zenon, <1>1, <1>2, <1>3 DEF Inv, NothingLost, WithinWindow, Placed, shared
<1>5. Reasons' /\ FailsOnlyUnservable'
  BY Zenon, <1>3 DEF Inv, Reasons, FailsOnlyUnservable, Unservable, shared
<1> QED BY Zenon, <1>4, <1>5 DEF Inv

\* All workers gone, nothing fatal, pieces left: every store is benched.
LEMMA AllGone ==
    ASSUME Inv, consumer = "ready", ~fatal, \A w \in Workers : worker[w] = "done"
    PROVE  \E p \in next .. N - 1 : Unservable(p)
<1>1. next < N /\ next \in next .. N - 1
  BY SMTT(60), Z3T(60), ReadAssumption DEF Inv, Reasons, TypeOK
<1>2. \A w \in Workers : StoreOf[w] \in benched
  BY SMTT(60), Z3T(60), <1>1, ReadAssumption DEF Inv, Reasons, TypeOK, Ends
<1>3. \A s \in Stores : s \in benched
  BY Zenon, <1>2, ReadAssumption
<1> QED BY Zenon, <1>1, <1>3 DEF Unservable

\* Every step of the read keeps the invariant.
LEMMA InvNext == Inv /\ [Next]_vars => Inv'
<1> SUFFICES ASSUME Inv, [Next]_vars PROVE Inv'
  BY Zenon
<1>0. TypeOK'
  BY Zenon, TypeNext DEF Inv
<1>1. ASSUME NEW w \in Workers, WorkerTurn(w) PROVE Inv'
  BY Zenon, <1>0, <1>1, IdleStep, ClaimStep DEF WorkerTurn
<1>2. ASSUME NEW w \in Workers, Fetch(w) PROVE Inv'
  BY Zenon, <1>0, <1>2, OkStep, FailStep DEF Fetch
<1>3. CASE ConsumerEmits
  BY Zenon, <1>0, <1>3, EmitStep
<1>4. CASE ConsumerFails
  BY Zenon, <1>0, <1>4, EndStep DEF ConsumerFails, Inv, Reasons, Ends
<1>5. CASE ConsumerBlocks
  <2>1. consumer = "ready" /\ ~fatal /\ UNCHANGED <<shared, next, job>> /\ next < N
    BY Zenon, <1>5 DEF ConsumerBlocks, Inv, Reasons
  <2>2. CASE (\A w \in Workers : worker[w] = "done") /\ End("raised")
    BY Zenon, <1>0, <2>1, <2>2, AllGone, EndStep DEF Ends
  <2>3. CASE consumer' = "waiting" /\ worker' = worker
    BY Zenon, <1>0, <2>1, <2>3, PauseStep DEF Ends
  <2> QED BY Zenon, <1>5, <2>2, <2>3 DEF ConsumerBlocks
<1>6. CASE ConsumerResumes
  <2>1. consumer = "paused" /\ UNCHANGED <<shared, next, job>>
    BY Zenon, <1>6 DEF ConsumerResumes
  <2>2. CASE End("done")
    BY Zenon, <1>0, <2>1, <2>2, EndStep DEF Ends
  <2>3. CASE next < N /\ consumer' = "ready" /\ worker' = worker
    BY Zenon, <1>0, <2>1, <2>3, PauseStep DEF Ends
  <2> QED BY Zenon, <1>6, <2>2, <2>3 DEF ConsumerResumes
<1>7. CASE ConsumerCloses
  BY Zenon, <1>0, <1>7, EndStep DEF ConsumerCloses, Ends
<1>8. CASE UNCHANGED vars
  <2>1. Fetching' = Fetching
    BY Zenon, <1>8 DEF vars, Fetching
  <2>2. Fetched' = Fetched
    BY Zenon, <1>8, <2>1 DEF vars, Fetched
  <2> QED BY Zenon, <1>0, <1>8, <2>1, <2>2 DEF vars, shared, Inv, NothingLost, WithinWindow,
             Placed, Reasons, FailsOnlyUnservable, Unservable
<1> QED BY Zenon, <1>1, <1>2, <1>3, <1>4, <1>5, <1>6, <1>7, <1>8 DEF Next, Consume, Over

\* Inv holds in every state the read can reach.
THEOREM ReadInvariant == Spec => []Inv
BY InvInit, InvNext, PTL DEF Spec

\* However pieces fail and move between the workers of the stores, no piece
\* is lost, fetched twice at a time or handed out twice, and the buffered
\* ones and those on their way lie within the reorder window.
THEOREM PiecesKept == Spec => []PiecesInPlace
<1>1. Inv => PiecesInPlace
  BY Zenon DEF Inv, PiecesInPlace
<1> QED BY <1>1, ReadInvariant, PTL

\* stream() raises only when some piece left to hand out can be served by
\* no store.
THEOREM FailureJustified == Spec => []FailsOnlyUnservable
<1>1. Inv => FailsOnlyUnservable
  BY Zenon DEF Inv
<1> QED BY <1>1, ReadInvariant, PTL

=============================================================================
