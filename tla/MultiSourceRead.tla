--------------------------- MODULE MultiSourceRead ---------------------------
(***************************************************************************)
(* One read shared by several stores (tgdcfs/core/multisource.py): the     *)
(* range is cut into pieces, every store runs a few workers that claim the *)
(* next piece in the reorder window, and the consumer hands the pieces out *)
(* in order.                                                               *)
(*                                                                         *)
(* Everything between two awaits runs in one go on the event loop and      *)
(* under the condition _changed, so it is one step.  A task that waits on  *)
(* the condition runs again only after a notify_all, which is modelled:    *)
(* a missing notification is a task that sleeps on.                        *)
(***************************************************************************)
EXTENDS Integers, FiniteSets

CONSTANTS
    Stores,      \* the keys of the StoreViews
    Workers,     \* the worker tasks
    StoreOf,     \* [Workers -> Stores]
    N,           \* the number of pieces
    Window,      \* the reorder window, in pieces
    BenchAfter   \* BENCH_AFTER

ASSUME ReadAssumption ==
    /\ StoreOf \in [Workers -> Stores]
    /\ \A s \in Stores : \E w \in Workers : StoreOf[w] = s
    /\ N \in Nat \ {0} /\ Window \in Nat \ {0} /\ BenchAfter \in Nat \ {0}

VARIABLES
    pending,   \* _pending, which is kept sorted: the pieces nobody works on
    tried,     \* _Piece.tried
    failures,  \* _failures
    benched,   \* _benched
    fatal,     \* _fatal is set
    results,   \* the keys of _results
    next,      \* _next_to_emit
    worker,    \* where each worker task stands
    job,       \* the piece a fetching worker has claimed
    consumer   \* where the stream() generator stands

shared == <<pending, tried, failures, benched, fatal, results>>
vars   == <<shared, next, worker, job, consumer>>

Pieces == 0 .. N - 1

\* The generator is over: exhausted, raised, or closed by its consumer.
Ends == {"done", "raised", "closed"}

Fetching == {w \in Workers : worker[w] = "fetching"}
Fetched  == {job[w] : w \in Fetching}

\* No store will ever take piece p again.
Unservable(p) == \A s \in Stores : s \in tried[p] \/ s \in benched

-----------------------------------------------------------------------------
\* notify_all: every waiting task gets to run again.
Woken(f) == [w \in Workers |-> IF f[w] = "waiting" THEN "ready" ELSE f[w]]
WokenConsumer == IF consumer = "waiting" THEN "ready" ELSE consumer

\* The pieces _claim looks at for a store.
Claimable(s) == {p \in pending : p < next + Window /\ s \notin tried[p]}

\* The tests at the head of the worker's loop.
MustLeave(w) ==
    \/ fatal \/ next >= N
    \/ StoreOf[w] \in benched

WorkerLeaves(w) ==
    /\ worker[w] = "ready"
    /\ MustLeave(w)
    /\ worker' = [worker EXCEPT ![w] = "done"]
    /\ UNCHANGED <<shared, next, job, consumer>>

WorkerClaims(w, p) ==
    /\ worker[w] = "ready"
    /\ ~MustLeave(w)
    /\ p \in Claimable(StoreOf[w])
    /\ \A q \in Claimable(StoreOf[w]) : p <= q
    /\ pending' = pending \ {p}
    /\ worker' = [worker EXCEPT ![w] = "fetching"]
    /\ job' = [job EXCEPT ![w] = p]
    /\ UNCHANGED <<tried, failures, benched, fatal, results, next, consumer>>

\* Nothing to claim.  While pieces are left to emit the test of line 153
\* cannot hold, so the worker waits.
WorkerWaits(w) ==
    /\ worker[w] = "ready"
    /\ ~MustLeave(w)
    /\ Claimable(StoreOf[w]) = {}
    /\ worker' = [worker EXCEPT ![w] = "waiting"]
    /\ UNCHANGED <<shared, next, job, consumer>>

\* The download delivered as many bytes as asked for.
FetchOk(w) ==
    /\ worker[w] = "fetching"
    /\ failures' = [failures EXCEPT ![StoreOf[w]] = 0]
    /\ results' = results \cup {job[w]}
    /\ worker' = [Woken(worker) EXCEPT ![w] = "ready"]
    /\ consumer' = WokenConsumer
    /\ UNCHANGED <<pending, tried, benched, fatal, next, job>>

\* Variants: a store that has failed before does not count as remaining; a
\* failed piece is not queued again.
Remaining_Spotless(p, tr, be) ==
    {s \in Stores : s \notin tr[p] /\ s \notin be /\ failures[s] = 0}
FetchFail_Lost(w) ==
    LET s == StoreOf[w]
    IN  /\ worker[w] = "fetching"
        /\ tried' = [tried EXCEPT ![job[w]] = @ \cup {s}]
        /\ worker' = [Woken(worker) EXCEPT ![w] = "ready"]
        /\ consumer' = WokenConsumer
        /\ UNCHANGED <<pending, failures, benched, fatal, results, next, job>>

\* The stores that may still take piece p.
Remaining(p, tr, be) == {s \in Stores : s \notin tr[p] /\ s \notin be}

Benched(s, fails) == IF fails[s] >= BenchAfter THEN benched \cup {s} ELSE benched

\* The download raised, or delivered too few bytes.
FetchFail(w) ==
    LET p == job[w]
        s == StoreOf[w]
    IN  /\ worker[w] = "fetching"
        /\ tried' = [tried EXCEPT ![p] = @ \cup {s}]
        /\ failures' = [failures EXCEPT ![s] = @ + 1]
        /\ benched' = Benched(s, failures')
        /\ IF Remaining(p, tried', benched') = {}
           THEN fatal' = TRUE /\ pending' = pending
           ELSE fatal' = fatal /\ pending' = pending \cup {p}
        /\ worker' = [Woken(worker) EXCEPT ![w] = IF s \in benched' THEN "done" ELSE "ready"]
        /\ consumer' = WokenConsumer
        /\ UNCHANGED <<results, next, job>>

-----------------------------------------------------------------------------
\* The finally block of stream(): every worker is cancelled where it awaits.
End(how) ==
    /\ consumer' = how
    /\ worker' = [w \in Workers |-> "done"]

\* Variant: the workers are not told that the window has moved.
ConsumerEmits_Silent ==
    /\ consumer = "ready"
    /\ ~fatal
    /\ next \in results
    /\ results' = results \ {next}
    /\ next' = next + 1
    /\ consumer' = "paused"
    /\ UNCHANGED <<pending, tried, failures, benched, fatal, worker, job>>

ConsumerEmits ==
    /\ consumer = "ready"
    /\ ~fatal
    /\ next \in results
    /\ results' = results \ {next}
    /\ next' = next + 1
    /\ worker' = Woken(worker)
    /\ consumer' = "paused"
    /\ UNCHANGED <<pending, tried, failures, benched, fatal, job>>

ConsumerFails ==
    /\ consumer = "ready"
    /\ fatal
    /\ End("raised")
    /\ UNCHANGED <<shared, next, job>>

\* The next piece is not there: wait for it, or raise when all workers are
\* gone and nothing is left to hand out.
ConsumerBlocks ==
    /\ consumer = "ready"
    /\ ~fatal
    /\ next \notin results
    /\ IF (\A w \in Workers : worker[w] = "done") /\ results = {}
       THEN End("raised")
       ELSE consumer' = "waiting" /\ worker' = worker
    /\ UNCHANGED <<shared, next, job>>

\* The consumer of the generator asks for more.
ConsumerResumes ==
    /\ consumer = "paused"
    /\ IF next < N THEN consumer' = "ready" /\ worker' = worker ELSE End("done")
    /\ UNCHANGED <<shared, next, job>>

\* The consumer closes the generator, or its task is cancelled.
ConsumerCloses ==
    /\ consumer \notin Ends
    /\ End("closed")
    /\ UNCHANGED <<shared, next, job>>

Over == consumer \in Ends /\ UNCHANGED vars

-----------------------------------------------------------------------------
Init ==
    /\ pending = Pieces
    /\ tried = [p \in Pieces |-> {}]
    /\ failures = [s \in Stores |-> 0]
    /\ benched = {} /\ results = {} /\ fatal = FALSE
    /\ next = 0
    /\ worker = [w \in Workers |-> "ready"]
    /\ job = [w \in Workers |-> 0]
    /\ consumer = "ready"

WorkerTurn(w) == WorkerLeaves(w) \/ WorkerWaits(w) \/ \E p \in Pieces : WorkerClaims(w, p)
Fetch(w)      == FetchOk(w) \/ FetchFail(w)
Consume       == ConsumerEmits \/ ConsumerFails \/ ConsumerBlocks \/ ConsumerResumes

Next == \/ \E w \in Workers : WorkerTurn(w) \/ Fetch(w)
        \/ Consume
        \/ ConsumerCloses
        \/ Over

Spec == Init /\ [][Next]_vars

\* The loop runs every task that is ready, downloads end, and whoever reads
\* the stream keeps asking.
FairSpec == /\ Spec
            /\ \A w \in Workers : WF_vars(WorkerTurn(w)) /\ WF_vars(Fetch(w))
            /\ WF_vars(Consume)

-----------------------------------------------------------------------------
(* Properties.                                                             *)

\* Every variable has its type.
TypeOK ==
    /\ pending \subseteq Pieces /\ results \subseteq Pieces
    /\ tried \in [Pieces -> SUBSET Stores]
    /\ failures \in [Stores -> Nat]
    /\ benched \subseteq Stores
    /\ fatal \in BOOLEAN
    /\ next \in 0 .. N
    /\ worker \in [Workers -> {"ready", "waiting", "fetching", "done"}]
    /\ job \in [Workers -> Pieces]
    /\ consumer \in {"ready", "waiting", "paused"} \cup Ends

\* However pieces fail and move between stores, each one not handed out yet
\* is in exactly one place: queued, fetched by one worker, or waiting for
\* its turn.  So no piece is skipped, fetched twice or handed out twice.
NothingLost ==
    /\ pending \cap results = {} /\ pending \cap Fetched = {} /\ results \cap Fetched = {}
    /\ \A v, w \in Fetching : job[v] = job[w] => v = w
    /\ consumer \notin Ends /\ ~fatal => pending \cup results \cup Fetched = next .. N - 1

\* "a bounded reorder window, which also bounds the memory a read can hold":
\* what is buffered or on its way lies within the window.
WithinWindow == results \cup Fetched \subseteq next .. next + Window - 1

\* Both together: the pieces not handed out yet are all there, each once, and
\* only those of the window are held.
PiecesInPlace == NothingLost /\ WithinWindow

\* "The read fails only when no store can serve a piece": an error leaves
\* stream() only when every store has failed some piece or is benched.
FailsOnlyUnservable ==
    consumer = "raised" => \E p \in next .. N - 1 : Unservable(p)

\* A read ends, and with one store that never fails it is served to the end,
\* whatever the other stores do, unless its consumer walks away.  It hangs
\* in one case only: a store is benched while a piece that every other store
\* has failed is back in the queue, where nobody may claim it and nobody
\* gives it up (_worker, stream).
ReadCompletes ==
    /\ (\E s \in Stores : [](\A p \in Pieces : s \notin tried[p]))
           => <>(consumer \in {"done", "closed"})
    /\ <>(consumer \in Ends \/ \E p \in pending : Unservable(p))

=============================================================================
