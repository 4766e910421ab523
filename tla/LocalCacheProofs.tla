-------------------------- MODULE LocalCacheProofs --------------------------
(***************************************************************************)
(* Proofs about LocalCache for every set of versions, every size, budget   *)
(* and block size, and any number of concurrent writers, fills and reads.  *)
(*                                                                         *)
(* The inductive invariant is built in layers, each proved with the layers *)
(* below it as given:                                                      *)
(*   TypeOK    every variable has its type,                                *)
(*   Attached  what a task may rely on while its entry is registered,      *)
(*   Ledger    what the claims of fills cover: every byte of the block     *)
(*             that is not present yet; a staged entry is charged in full  *)
(*             while its one live writer works on it,                      *)
(*   Journal   how the index, the map files and the data files follow the  *)
(*             state in memory, so that a restart admits nothing new,      *)
(*   Uploads   who may work on a version that is not in the stores yet.    *)
(* On them rest the theorems that a write-back version stays complete in   *)
(* the cache and that a restart rebuilds exactly what was finished;        *)
(* LocalCacheBudget has the theorems about the budget.                     *)
(***************************************************************************)
EXTENDS LocalCache, TLAPS

-----------------------------------------------------------------------------
(* Type correctness.                                                       *)

FillType   == [Fills -> FillTask \cup {NoTask}]
WriterType == [Writers -> WriterTask \cup {NoTask}]
ReaderType == [Readers -> ReaderTask \cup {NoTask}]

\* The blocks of a version, and those a writer has filled, are naturals.
LEMMA BlocksNat ==
    ASSUME NEW v \in Versions
    PROVE  /\ Blocks(v) \subseteq Nat
           /\ \A o : Whole(v, o) \subseteq Nat
           /\ \A b : BlockBytes(v, b) \subseteq Nat
           /\ Bytes(v) \subseteq Nat
<1>1. Bytes(v) \subseteq Nat
  BY SMTT(60), Z3T(60), CacheAssumption DEF Bytes
<1>2. \A i \in Bytes(v) : BlockOf(i) \in Nat
  <2>1. ASSUME NEW i \in Nat, NEW k \in Nat \ {0}
        PROVE  i \div k \in Nat
    BY SMTT(60), Z3T(60)
  <2> QED BY Zenon, <1>1, <2>1, CacheAssumption DEF BlockOf
<1> QED BY Zenon, <1>1, <1>2 DEF Blocks, Whole, BlockBytes

\* Overwriting a function of versions on a set keeps its type.
LEMMA ResetType ==
    ASSUME NEW T, NEW f \in [Versions -> T], NEW D, NEW x \in T
    PROVE  Reset(f, D, x) \in [Versions -> T]
BY Zenon DEF Reset

\* Dropping and registering entries keeps the entries and the disk typed.
LEMMA RegisterType ==
    ASSUME TypeOK, NEW D \in SUBSET Versions, NEW N \in SUBSET Versions,
           NEW wr \in BOOLEAN, Register(D, N, wr)
    PROVE  /\ entries' \subseteq Versions /\ files' \subseteq Versions
           /\ present' \in [Versions -> SUBSET Nat]
           /\ data' \in [Versions -> SUBSET Nat] /\ map' \in [Versions -> SUBSET Nat]
           /\ writing' \in [Versions -> BOOLEAN]
           /\ older' \subseteq Versions \X Versions
<1>1. PICK gone \in Unlinks(D) :
        /\ entries' = (entries \ D) \cup N
        /\ present' = Reset(present, D \cup N, {})
        /\ writing' = Reset(Reset(writing, D, FALSE), N, wr)
        /\ older'   = {p \in older : p[1] \notin D \cup N /\ p[2] \notin D \cup N}
                        \cup ((entries \ (D \cup N)) \X N)
        /\ files'   = (files \ gone) \cup N
        /\ data'    = Reset(data, gone \cup N, {})
        /\ map'     = Reset(map, gone \cup N, {})
  BY Zenon DEF Register
<1>2. entries' \subseteq Versions /\ files' \subseteq Versions
  BY Zenon, <1>1 DEF TypeOK
<1>3. /\ present' \in [Versions -> SUBSET Nat]
      /\ data' \in [Versions -> SUBSET Nat]
      /\ map' \in [Versions -> SUBSET Nat]
  BY Zenon, <1>1, ResetType DEF TypeOK
<1>4. writing' \in [Versions -> BOOLEAN]
  <2>1. Reset(writing, D, FALSE) \in [Versions -> BOOLEAN]
    BY Zenon, ResetType DEF TypeOK
  <2> QED BY Zenon, <1>1, <2>1, ResetType
<1>5. older' \subseteq Versions \X Versions
  BY Zenon, <1>1 DEF TypeOK
<1> QED BY Zenon, <1>2, <1>3, <1>4, <1>5

\* Detaching the tasks of dropped entries keeps the tasks typed.
LEMMA DetachType ==
    ASSUME NEW D, NEW fs \in FillType, NEW ws \in WriterType, NEW rs \in ReaderType,
           Detach(D, fs, ws, rs)
    PROVE  fill' \in FillType /\ writer' \in WriterType /\ reader' \in ReaderType
<1>1. ASSUME NEW t \in FillTask \cup {NoTask}
      PROVE  Orphan(t, D) \in FillTask \cup {NoTask}
  BY Zenon DEF Orphan, FillTask
<1>2. ASSUME NEW t \in WriterTask \cup {NoTask}
      PROVE  Orphan(t, D) \in WriterTask \cup {NoTask}
  BY Zenon DEF Orphan, WriterTask
<1>3. ASSUME NEW t \in ReaderTask \cup {NoTask}
      PROVE  Orphan(t, D) \in ReaderTask \cup {NoTask}
  BY Zenon DEF Orphan, ReaderTask
<1> QED BY Zenon, <1>1, <1>2, <1>3 DEF Detach, FillType, WriterType, ReaderType

IndexType == [Versions -> {"absent", "writing", "pinned", "free"}]

\* The index is typed after any save, and when it is left alone.
LEMMA SaveType ==
    ASSUME index \in IndexType, SaveIndex \/ UNCHANGED index
    PROVE  index' \in IndexType
BY Zenon DEF SaveIndex, Snapshot, IndexType

\* What the steps built from Register, Detach and SaveIndex have in common.
LEMMA DropType ==
    ASSUME TypeOK, NEW D \in SUBSET Versions, NEW N \in SUBSET Versions,
           NEW wr \in BOOLEAN, Register(D, N, wr),
           NEW fs \in FillType, NEW ws \in WriterType, NEW rs \in ReaderType,
           Detach(D, fs, ws, rs),
           pins' \in [Versions -> Nat], fate' \in [Versions -> Fates],
           SaveIndex \/ UNCHANGED index
    PROVE  TypeOK'
<1>1. index' \in IndexType
  BY Zenon, SaveType DEF TypeOK, IndexType
<1>2. fill' \in FillType /\ writer' \in WriterType /\ reader' \in ReaderType
  BY Zenon, DetachType
<1>3. /\ entries' \subseteq Versions /\ files' \subseteq Versions
      /\ present' \in [Versions -> SUBSET Nat]
      /\ data' \in [Versions -> SUBSET Nat] /\ map' \in [Versions -> SUBSET Nat]
      /\ writing' \in [Versions -> BOOLEAN]
      /\ older' \subseteq Versions \X Versions
  BY ZenonT(60), RegisterType
<1> QED BY Zenon, <1>1, <1>2, <1>3 DEF TypeOK, IndexType, FillType, WriterType, ReaderType

\* The parts of TypeOK the step lemmas hand to DropType.
LEMMA TypeTasks ==
    TypeOK => /\ fill \in FillType /\ writer \in WriterType /\ reader \in ReaderType
              /\ pins \in [Versions -> Nat] /\ fate \in [Versions -> Fates]
              /\ entries \subseteq Versions
BY Zenon DEF TypeOK, FillType, WriterType, ReaderType

\* remove(): dropping one id keeps every type.
LEMMA RemoveType ==
    ASSUME TypeOK, NEW v \in Versions, NEW fs \in FillType, NEW ws \in WriterType,
           Remove(v, fs, ws), fate' \in [Versions -> Fates]
    PROVE  TypeOK'
<1> DEFINE D == {v} \cap entries
<1>1. /\ Register(D, {}, FALSE) /\ pins' = Reset(pins, D, 0)
      /\ Detach(D, fs, ws, reader) /\ SaveIndexIf(D # {})
  BY Zenon DEF Remove, Drop
<1>2. SaveIndex \/ UNCHANGED index
  BY Zenon, <1>1 DEF SaveIndexIf
<1>3. pins' \in [Versions -> Nat]
  BY Zenon, <1>1, ResetType, TypeTasks
<1> QED BY Zenon, <1>1, <1>2, <1>3, DropType, TypeTasks

\* Opening or refusing a staging file keeps the types.
LEMMA TypeStaging ==
    ASSUME TypeOK, NEW v \in Versions, NEW E \in SUBSET entries,
           NEW role \in {"save", "stage", "fill"},
           RefuseStaging(v, role, E) \/ \E w \in Writers : OpenStaging(w, v, role, E)
    PROVE  TypeOK'
<1> USE TypeTasks
<1>1. CASE RefuseStaging(v, role, E)
  <2>1. pins' \in [Versions -> Nat]
    BY Zenon, <1>1, ResetType DEF RefuseStaging, Refused
  <2> QED BY Zenon, <1>1, <2>1, DropType DEF RefuseStaging, Refused, Drop
<1>2. CASE \E w \in Writers : OpenStaging(w, v, role, E)
  <2>1. PICK w \in Writers : OpenStaging(w, v, role, E)
    BY Zenon, <1>2
  <2> DEFINE t == [st |-> "open", v |-> v, role |-> role, off |-> 0,
                   fd |-> FALSE, own |-> TRUE]
  <2>2. [writer EXCEPT ![w] = t] \in WriterType
    BY Zenon DEF WriterType, WriterTask
  <2>3. pins' \in [Versions -> Nat]
    <3>1. Reset(pins, E, 0) \in [Versions -> Nat]
      BY Zenon, ResetType
    <3> QED BY Zenon, <2>1, <3>1, ResetType DEF OpenStaging
  <2>4. fate' \in [Versions -> Fates]
    BY Zenon, <2>1 DEF OpenStaging, Fates
  <2>5. /\ Register(E, {v}, TRUE) /\ SaveIndex
        /\ Detach(E, fill, [writer EXCEPT ![w] = t], reader)
    BY Zenon, <2>1 DEF OpenStaging
  <2> QED BY Zenon, <2>2, <2>3, <2>4, <2>5, DropType
<1> QED BY Zenon, <1>1, <1>2

\* The steps of a staging writer keep the types.
LEMMA TypeWriter ==
    ASSUME TypeOK, NEW w \in Writers, writer[w] # NoTask, WriterStep(w)
    PROVE  TypeOK'
<1> DEFINE t == writer[w]
<1>t. t \in WriterTask /\ t.v \in Versions
  BY Zenon DEF TypeOK, WriterTask
<1>b. \A o : Whole(t.v, o) \in SUBSET Nat
  BY Zenon, <1>t, BlocksNat
<1>f. Uploaded(t) \in [Versions -> Fates]
  BY Zenon, <1>t DEF Uploaded, TypeOK, Fates, WriterTask
<1>1. ASSUME NEW n \in 1 .. Size[t.v], WriterPwrite(w, n)
      PROVE  TypeOK'
  <2>1. t.off + n \in Nat
    BY SMTT(60), Z3T(60), <1>t, CacheAssumption DEF WriterTask
  <2>2. writer' \in WriterType
    BY ZenonT(60), <1>1, <1>t, <2>1 DEF WriterPwrite, TypeOK, WriterType, WriterTask
  <2>3. data' \in [Versions -> SUBSET Nat]
    BY SMTT(60), Z3T(60), <1>1, <1>t, <1>b DEF WriterPwrite, TypeOK
  <2> QED BY Zenon, <1>1, <2>2, <2>3 DEF WriterPwrite, TypeOK, WriterType
<1>2. ASSUME WriterError(w) PROVE TypeOK'
  BY Zenon, <1>2, <1>t DEF WriterError, TypeOK, WriterTask, disk
<1>3. ASSUME WriterMark(w) PROVE TypeOK'
  <2>1. writer' \in WriterType
    BY Zenon, <1>3, <1>t DEF WriterMark, TypeOK, WriterTask, WriterType
  <2>2. present' \in [Versions -> SUBSET Nat] /\ map' \in [Versions -> SUBSET Nat]
    BY SMTT(60), Z3T(60), <1>3, <1>t, <1>b DEF WriterMark, MarkPresent, TypeOK
  <2> QED BY Zenon, <1>3, <2>1, <2>2 DEF WriterMark, TypeOK, WriterType
<1>4. ASSUME WriterFinish(w) PROVE TypeOK'
  <2>1. index' \in IndexType
    BY Zenon, <1>4, SaveType DEF WriterFinish, TypeOK, IndexType
  <2>2. writing' \in [Versions -> BOOLEAN]
    BY Zenon, <1>4, <1>t DEF WriterFinish, TypeOK
  <2> QED BY Zenon, <1>4, <1>f, <2>1, <2>2 DEF WriterFinish, TypeOK, IndexType
<1>5. ASSUME WriterCloseEmpty(w) PROVE TypeOK'
  BY Zenon, <1>5, <1>f DEF WriterCloseEmpty, TypeOK, disk
<1>6. ASSUME WriterGiveUp(w) PROVE TypeOK'
  BY Zenon, <1>6, <1>t DEF WriterGiveUp, TypeOK, WriterTask, disk
<1>7. ASSUME WriterAbort(w) PROVE TypeOK'
  <2>1. fate' \in [Versions -> Fates]
    BY Zenon, <1>7, <1>t DEF WriterAbort, TypeOK, Fates
  <2>2. [writer EXCEPT ![w] = NoTask] \in WriterType
    BY Zenon DEF TypeOK, WriterType
  <2> QED BY Zenon, <1>7, <1>t, <2>1, <2>2, RemoveType, TypeTasks DEF WriterAbort
<1> QED BY Zenon, <1>1, <1>2, <1>3, <1>4, <1>5, <1>6, <1>7 DEF WriterStep

\* The steps of a read-cache fill and of reserve().
LEMMA TypeFill ==
    ASSUME TypeOK,
           \/ \E v \in Versions, E \in SUBSET entries : Reserve(v, E) \/ RefuseReserve(v, E)
           \/ \E v \in Versions, E \in SUBSET entries : \E b \in Blocks(v) :
                 \/ \E f \in Fills : FillBegin(f, v, b, E)
                 \/ RefuseFill(v, b, E)
           \/ \E f \in Fills : FillStep(f) \/ FillCancel(f)
    PROVE  TypeOK'
<1> USE TypeTasks
<1>1. ASSUME NEW v \in Versions, NEW E \in SUBSET entries, Reserve(v, E)
      PROVE  TypeOK'
  <2>1. pins' \in [Versions -> Nat]
    BY Zenon, <1>1, ResetType DEF Reserve
  <2> QED BY Zenon, <1>1, <2>1, DropType DEF Reserve
<1>2. ASSUME NEW v \in Versions, NEW E \in SUBSET entries, RefuseReserve(v, E)
      PROVE  TypeOK'
  <2>1. pins' \in [Versions -> Nat]
    BY Zenon, <1>2, ResetType DEF RefuseReserve, Refused
  <2> QED BY Zenon, <1>2, <2>1, DropType DEF RefuseReserve, Refused, Drop
<1>3. ASSUME NEW v \in Versions, NEW E \in SUBSET entries, NEW b \in Blocks(v),
             NEW f \in Fills, FillBegin(f, v, b, E)
      PROVE  TypeOK'
  <2> DEFINE t == [st |-> "begun", v |-> v, b |-> b, claim |-> Added(v, b), own |-> TRUE]
  <2>1. b \in Nat /\ Added(v, b) \in SUBSET Nat
    BY Zenon, BlocksNat DEF Added
  <2>2. [fill EXCEPT ![f] = t] \in FillType
    BY Zenon, <2>1 DEF FillType, FillTask
  <2>3. pins' \in [Versions -> Nat]
    BY Zenon, <1>3, ResetType DEF FillBegin
  <2>4. /\ Register(E, {}, FALSE) /\ UNCHANGED fate /\ SaveIndexIf(E # {})
        /\ Detach(E, [fill EXCEPT ![f] = t], writer, reader)
    BY Zenon, <1>3 DEF FillBegin, Drop
  <2>5. SaveIndex \/ UNCHANGED index
    BY Zenon, <2>4 DEF SaveIndexIf
  <2> QED BY Zenon, <2>2, <2>3, <2>4, <2>5, DropType
<1>4. ASSUME NEW v \in Versions, NEW E \in SUBSET entries, NEW b \in Blocks(v),
             RefuseFill(v, b, E)
      PROVE  TypeOK'
  <2>1. pins' \in [Versions -> Nat]
    BY Zenon, <1>4, ResetType DEF RefuseFill
  <2> QED BY Zenon, <1>4, <2>1, DropType DEF RefuseFill, Drop
<1>5. ASSUME NEW f \in Fills, FillStep(f) \/ FillCancel(f)
      PROVE  TypeOK'
  <2> DEFINE t == fill[f]
  <2>t. t # NoTask /\ t \in FillTask /\ t.v \in Versions /\ t.b \in Nat
    <3>1. t # NoTask
      BY Zenon, <1>5 DEF FillStep, FillPwrite, FillError, FillEnd, FillFail, FillCancel
    <3> QED BY Zenon, <3>1 DEF TypeOK, FillTask
  <2>l. /\ Leak(t) \in FillTask \cup {NoTask}
        /\ \A s \in {"written", "failed", "leaking"} : [t EXCEPT !.st = s] \in FillTask
    BY Zenon, <2>t DEF Leak, FillTask
  <2>1. CASE FillPwrite(f)
    <3>1. data' \in [Versions -> SUBSET Nat]
      BY Zenon, <2>1, <2>t DEF FillPwrite, TypeOK
    <3>2. fill' \in FillType
      BY Zenon, <2>1, <2>t, <2>l DEF FillPwrite, FillType
    <3> QED BY Zenon, <2>1, <3>1, <3>2 DEF FillPwrite, TypeOK, FillType
  <2>2. CASE FillError(f) \/ FillCancel(f)
    <3>1. fill' \in FillType
      BY ZenonT(60), <2>2, <2>t, <2>l DEF FillError, FillCancel, FillType
    <3> QED BY ZenonT(60), <2>2, <3>1 DEF FillError, FillCancel, TypeOK, FillType, disk
  <2>3. CASE FillEnd(f)
    <3>1. present' \in [Versions -> SUBSET Nat] /\ map' \in [Versions -> SUBSET Nat]
      BY SMTT(60), Z3T(60), <2>3, <2>t DEF FillEnd, MarkPresent, TypeOK
    <3>2. older' \subseteq Versions \X Versions
      BY ZenonT(30), <2>3, <2>t DEF FillEnd, Touched, TypeOK
    <3> QED BY Zenon, <2>3, <3>1, <3>2 DEF FillEnd, TypeOK
  <2>4. CASE FillFail(f)
    <3>1. [fill EXCEPT ![f] = NoTask] \in FillType
      BY Zenon DEF FillType
    <3> QED BY Zenon, <2>4, <2>t, <3>1, RemoveType DEF FillFail
  <2> QED BY Zenon, <1>5, <2>1, <2>2, <2>3, <2>4 DEF FillStep
<1> QED BY Zenon, <1>1, <1>2, <1>3, <1>4, <1>5

\* The steps of a read.
LEMMA TypeRead ==
    ASSUME TypeOK, NEW r \in Readers,
           \/ \E v \in Versions : \E bs \in SUBSET Blocks(v) : ReadBegin(r, v, bs)
           \/ ReadError(r) \/ ReadStop(r)
           \/ reader[r] # NoTask /\ \E b \in reader[r].todo : ReadChunk(r, b)
    PROVE  TypeOK'
<1>1. ASSUME NEW v \in Versions, NEW bs \in SUBSET Blocks(v), ReadBegin(r, v, bs)
      PROVE  TypeOK'
  <2>1. bs \in SUBSET Nat
    BY Zenon, BlocksNat
  <2>2. reader' \in ReaderType
    BY Zenon, <1>1, <2>1 DEF ReadBegin, TypeOK, ReaderType, ReaderTask
  <2>3. older' \subseteq Versions \X Versions
    BY Zenon, <1>1 DEF ReadBegin, Touched, TypeOK
  <2> QED BY Zenon, <1>1, <2>2, <2>3 DEF ReadBegin, TypeOK, ReaderType, disk
<1>2. CASE ReadError(r)
  BY ZenonT(60), <1>2 DEF ReadError, TypeOK, ReaderTask, disk
<1>3. CASE ReadStop(r)
  BY Zenon, <1>3 DEF ReadStop, TypeOK, disk
<1>4. ASSUME NEW b \in reader[r].todo, ReadChunk(r, b)
      PROVE  TypeOK'
  <2>1. reader[r] \in ReaderTask
    BY Zenon, <1>4 DEF ReadChunk, TypeOK
  <2>2. reader' \in ReaderType
    BY Zenon, <1>4, <2>1 DEF ReadChunk, TypeOK, ReaderType, ReaderTask
  <2> QED BY Zenon, <1>4, <2>2 DEF ReadChunk, TypeOK, ReaderType, disk
<1> QED BY Zenon, <1>1, <1>2, <1>3, <1>4

\* The sweep and the reload after a crash.
LEMMA TypeSweep ==
    ASSUME TypeOK, NEW stale \in SUBSET entries, NEW cut \in SUBSET entries,
           NEW E \in SUBSET entries, Sweep(stale, cut, E)
    PROVE  TypeOK'
<1> DEFINE unpinned == Reset(pins, stale, 0)
           released == IF KeepForReads THEN {} ELSE stale
           expired  == cut \cap (EvictableWith(unpinned) \ released)
           D        == released \cup expired \cup E
<1>1. /\ entries' = entries \ D /\ present' = Reset(present, D, {})
      /\ writing' = writing
      /\ older' = {p \in older : p[1] \notin D /\ p[2] \notin D}
      /\ pins' = Reset(unpinned, D, 0)
      /\ Detach(D, fill, writer, reader) /\ SaveIndex /\ UNCHANGED fate
  BY Zenon DEF Sweep
<1>2. PICK gone : files' = files \ gone /\ data' = Reset(data, gone, {})
                    /\ map' = Reset(map, gone, {})
  BY Zenon DEF Sweep
<1>3. unpinned \in [Versions -> Nat]
  BY Zenon, ResetType DEF TypeOK
<1>4. pins' \in [Versions -> Nat]
  BY Zenon, <1>1, <1>3, ResetType
<1>5. present' \in [Versions -> SUBSET Nat]
  BY Zenon, <1>1, ResetType DEF TypeOK
<1>6. data' \in [Versions -> SUBSET Nat] /\ map' \in [Versions -> SUBSET Nat]
  BY Zenon, <1>2, ResetType DEF TypeOK
<1>7. fill' \in FillType /\ writer' \in WriterType /\ reader' \in ReaderType
  BY Zenon, <1>1, DetachType, TypeTasks
<1>8. index' \in IndexType
  BY Zenon, <1>1, SaveType DEF TypeOK, IndexType
<1>9. older' \subseteq Versions \X Versions
  BY Zenon, <1>1 DEF TypeOK
<1> QED BY Zenon, <1>1, <1>2, <1>4, <1>5, <1>6, <1>7, <1>8, <1>9
        DEF TypeOK, FillType, WriterType, ReaderType, IndexType

\* Reloading the cache keeps the types.
LEMMA TypeRestart ==
    ASSUME TypeOK, NEW order \in SUBSET (Versions \X Versions), Restart(order)
    PROVE  TypeOK'
<1>1. PICK gone : files' = files \ gone /\ data' = Reset(data, gone, {})
                    /\ map' = Reset(map, gone, {})
  BY Zenon DEF Restart
<1>2. data' \in [Versions -> SUBSET Nat] /\ map' \in [Versions -> SUBSET Nat]
  BY Zenon, <1>1, ResetType DEF TypeOK
<1>3. index' \in IndexType
  BY Zenon, SaveType DEF Restart, TypeOK, IndexType
<1>4. /\ entries' \subseteq Versions /\ present' \in [Versions -> SUBSET Nat]
      /\ pins' \in [Versions -> Nat] /\ writing' \in [Versions -> BOOLEAN]
      /\ older' \subseteq Versions \X Versions
  BY Zenon DEF Restart, TypeOK
<1>5. fate' \in [Versions -> Fates]
  BY Zenon DEF Restart, TypeOK, Fates
<1>6. /\ fill' \in [Fills -> FillTask \cup {NoTask}]
      /\ writer' \in [Writers -> WriterTask \cup {NoTask}]
      /\ reader' \in [Readers -> ReaderTask \cup {NoTask}]
  BY Zenon DEF Restart
<1> QED BY Zenon, <1>1, <1>2, <1>3, <1>4, <1>5, <1>6 DEF TypeOK, IndexType

\* Pins, removal and distribution keep the types.
LEMMA TypeOther ==
    ASSUME TypeOK,
           \/ \E v \in Versions : Release(v) \/ Forget(v) \/ UploadUncached(v) \/ Distribute(v)
           \/ EvictUnpinned
    PROVE  TypeOK'
<1> USE TypeTasks
<1>1. ASSUME NEW v \in Versions, Release(v) PROVE TypeOK'
  <2> DEFINE D == IF KeepForReads THEN {} ELSE {v}
  <2>1. pins' \in [Versions -> Nat]
    BY Zenon, <1>1, ResetType DEF Release
  <2>2. Register(D, {}, FALSE) /\ Detach(D, fill, writer, reader) /\ SaveIndex /\ UNCHANGED fate
    BY Zenon, <1>1 DEF Release, Drop
  <2> QED BY Zenon, <2>1, <2>2, DropType
<1>2. ASSUME NEW v \in Versions, Forget(v) PROVE TypeOK'
  <2>1. fate' \in [Versions -> Fates]
    BY Zenon, <1>2 DEF Forget, Fates
  <2> QED BY Zenon, <1>2, <2>1, RemoveType DEF Forget
<1>3. ASSUME NEW v \in Versions, UploadUncached(v) \/ Distribute(v) PROVE TypeOK'
  BY Zenon, <1>3 DEF UploadUncached, Distribute, TypeOK, Fates, disk, tasks
<1>4. CASE EvictUnpinned
  <2> DEFINE D == EvictableWith(pins)
  <2>1. D \in SUBSET Versions
    BY Zenon DEF EvictableWith
  <2>2. Register(D, {}, FALSE) /\ Detach(D, fill, writer, reader) /\ SaveIndex
        /\ UNCHANGED fate /\ pins' = Reset(pins, D, 0)
    BY Zenon, <1>4 DEF EvictUnpinned, Drop
  <2>3. pins' \in [Versions -> Nat]
    BY Zenon, <2>2, ResetType
  <2> HIDE DEF D
  <2> QED BY Zenon, <2>1, <2>2, <2>3, DropType
<1> QED BY Zenon, <1>1, <1>2, <1>3, <1>4

\* Every step keeps the types.
LEMMA TypeStep == TypeOK /\ [Next]_vars => TypeOK'
<1> SUFFICES ASSUME TypeOK, [Next]_vars PROVE TypeOK'
  BY Zenon
<1>1. CASE UNCHANGED vars
  BY Zenon, <1>1 DEF TypeOK, vars, disk, tasks
<1>2. CASE Next
  BY Zenon, <1>2, TypeStaging, TypeWriter, TypeFill, TypeRead, TypeSweep, TypeRestart, TypeOther
     DEF Next
<1> QED BY Zenon, <1>1, <1>2

\* Every reachable state is typed: no operation of the cache, no failure and
\* no restart leaves a variable outside its type.
THEOREM TypeCorrect == Spec => []TypeOK
<1>1. Init => TypeOK
  BY SMTT(60), Z3T(60) DEF Init, TypeOK, Fates
<1> QED BY <1>1, TypeStep, PTL DEF Spec

-----------------------------------------------------------------------------
(***************************************************************************)
(* The blocks of the cache and the reads from it.                          *)
(***************************************************************************)


Live(t) == t # NoTask /\ t.own

-----------------------------------------------------------------------------
(* Tasks and the entries they are attached to.                             *)

FillAttached(t) == Live(t) => /\ t.v \in entries
                              /\ t.st = "written" => t.b \in data[t.v]

WriterAttached(t) == Live(t) =>
    /\ t.v \in entries
    /\ t.st = "written" => Whole(t.v, t.off) \subseteq data[t.v]
    /\ t.st = "closing" => Blocks(t.v) \subseteq present[t.v]

ReaderAttached(t) == Live(t) =>
    /\ t.v \in entries
    /\ t.todo \subseteq present[t.v]
    /\ "read" \notin Faults => t.st = "reading"

Stored == /\ \A v \in entries : v \in files /\ present[v] \subseteq data[v]
          /\ \A v \in Versions : map[v] \subseteq data[v]

Attached == /\ \A f \in Fills : FillAttached(fill[f])
            /\ \A w \in Writers : WriterAttached(writer[w])
            /\ \A r \in Readers : ReaderAttached(reader[r])
            /\ Stored

\* What Register leaves alone: the entries that stay, and what is on disk of
\* them; and what it starts with: empty files.
LEMMA RegisterKeeps ==
    ASSUME TypeOK, NEW D \in SUBSET Versions, NEW N \in SUBSET Versions,
           NEW wr \in BOOLEAN, N \cap entries = {}, Register(D, N, wr)
    PROVE  /\ entries' = (entries \ D) \cup N
           /\ \A v \in entries \ D : /\ present'[v] = present[v] /\ data'[v] = data[v]
                                     /\ map'[v] = map[v] /\ writing'[v] = writing[v]
                                     /\ v \in files => v \in files'
           /\ \A v \in N : /\ present'[v] = {} /\ data'[v] = {} /\ map'[v] = {}
                           /\ writing'[v] = wr /\ v \in files'
           /\ \A v \in Versions : map'[v] = {} \/ (map'[v] = map[v] /\ data'[v] = data[v])
<1>1. PICK gone \in Unlinks(D) :
        /\ entries' = (entries \ D) \cup N
        /\ present' = Reset(present, D \cup N, {})
        /\ writing' = Reset(Reset(writing, D, FALSE), N, wr)
        /\ files'   = (files \ gone) \cup N
        /\ data'    = Reset(data, gone \cup N, {})
        /\ map'     = Reset(map, gone \cup N, {})
  BY Zenon DEF Register
<1>2. gone \subseteq D
  BY Zenon DEF Unlinks
<1> QED BY Zenon, <1>1, <1>2 DEF Reset, TypeOK

\* A task that is still live after its entries D were dropped was live
\* before, unchanged, and works on another entry.
LEMMA OrphanLive ==
    ASSUME NEW t \in FillTask \cup WriterTask \cup ReaderTask \cup {NoTask},
           NEW D, Live(Orphan(t, D))
    PROVE  Orphan(t, D) = t /\ Live(t) /\ t.v \notin D
<1>1. CASE t = NoTask \/ t.v \notin D
  BY Zenon, <1>1 DEF Orphan, Live
<1>2. CASE t # NoTask /\ t.v \in D /\ t.st = "leaked"
  BY Zenon, <1>2 DEF Orphan, Live
<1>3. CASE t # NoTask /\ t.v \in D /\ t.st # "leaked"
  <2>1. Orphan(t, D) = [t EXCEPT !.own = FALSE]
    BY Zenon, <1>3 DEF Orphan
  <2>2. [t EXCEPT !.own = FALSE].own = FALSE
    BY Zenon, <1>3 DEF FillTask, WriterTask, ReaderTask
  <2> QED BY Zenon, <2>1, <2>2 DEF Live
<1> QED BY Zenon, <1>1, <1>2, <1>3

\* Dropping entries, and registering one that was not there, keeps Attached
\* when the new task, if any, is a fresh one on a registered entry.
LEMMA AttachedDrop ==
    ASSUME TypeOK, Attached, NEW D \in SUBSET Versions, NEW N \in SUBSET Versions,
           NEW wr \in BOOLEAN, N \cap entries = {}, Register(D, N, wr),
           NEW fs \in FillType, NEW ws \in WriterType, Detach(D, fs, ws, reader),
           \A f \in Fills : \/ FillAttached(fs[f])
                            \/ fs[f].v \in N /\ fs[f].st = "begun",
           \A w \in Writers : \/ WriterAttached(ws[w])
                              \/ ws[w].v \in N /\ ws[w].st = "open"
    PROVE  Attached'
<1>1. /\ entries' = (entries \ D) \cup N
      /\ \A v \in entries \ D : /\ present'[v] = present[v] /\ data'[v] = data[v]
                                /\ map'[v] = map[v] /\ writing'[v] = writing[v]
                                /\ v \in files => v \in files'
      /\ \A v \in N : /\ present'[v] = {} /\ data'[v] = {} /\ map'[v] = {}
                      /\ writing'[v] = wr /\ v \in files'
      /\ \A v \in Versions : map'[v] = {} \/ (map'[v] = map[v] /\ data'[v] = data[v])
  BY Zenon, RegisterKeeps
<1>2. Stored'
  BY ZenonT(60), <1>1 DEF Attached, Stored
<1>3. ASSUME NEW f \in Fills PROVE FillAttached(fill[f])'
  <2>1. fill'[f] = Orphan(fs[f], D) /\ fs[f] \in FillTask \cup {NoTask}
    BY Zenon DEF Detach, FillType
  <2>2. SUFFICES ASSUME Live(fill'[f]) PROVE FillAttached(fill[f])'
    BY Zenon DEF FillAttached, Live
  <2>3. fill'[f] = fs[f] /\ Live(fs[f]) /\ fs[f].v \notin D
    <3>1. /\ fs[f] \in FillTask \cup WriterTask \cup ReaderTask \cup {NoTask}
          /\ Live(Orphan(fs[f], D))
      BY Zenon, <2>1, <2>2
    <3>2. Orphan(fs[f], D) = fs[f] /\ Live(fs[f]) /\ fs[f].v \notin D
      BY Zenon, <3>1, OrphanLive
    <3> QED BY Zenon, <2>1, <3>2
  <2> QED BY SMTT(60), Z3T(60), <1>1, <2>3 DEF FillAttached
<1>4. ASSUME NEW w \in Writers PROVE WriterAttached(writer[w])'
  <2>1. writer'[w] = Orphan(ws[w], D) /\ ws[w] \in WriterTask \cup {NoTask}
    BY Zenon DEF Detach, WriterType
  <2>2. SUFFICES ASSUME Live(writer'[w]) PROVE WriterAttached(writer[w])'
    BY Zenon DEF WriterAttached, Live
  <2>3. writer'[w] = ws[w] /\ Live(ws[w]) /\ ws[w].v \notin D
    <3>1. /\ ws[w] \in FillTask \cup WriterTask \cup ReaderTask \cup {NoTask}
          /\ Live(Orphan(ws[w], D))
      BY Zenon, <2>1, <2>2
    <3>2. Orphan(ws[w], D) = ws[w] /\ Live(ws[w]) /\ ws[w].v \notin D
      BY ZenonT(60), <3>1, OrphanLive
    <3> QED BY Zenon, <2>1, <3>2
  <2>4. CASE ws[w].v \in N /\ ws[w].st = "open"
    BY Zenon, <1>1, <2>3, <2>4 DEF WriterAttached
  <2>5. CASE WriterAttached(ws[w])
    <3>1. ws[w].v \in entries \ D
      BY Zenon, <2>3, <2>5 DEF WriterAttached
    <3>2. /\ ws[w].v \in entries' /\ data'[ws[w].v] = data[ws[w].v]
          /\ present'[ws[w].v] = present[ws[w].v]
      BY Zenon, <1>1, <3>1
    <3> QED BY Zenon, <2>3, <2>5, <3>1, <3>2 DEF WriterAttached, Whole, Blocks, BlockBytes, Bytes
  <2> QED BY Zenon, <2>4, <2>5
<1>5. ASSUME NEW r \in Readers PROVE ReaderAttached(reader[r])'
  <2>1. reader'[r] = Orphan(reader[r], D) /\ reader[r] \in ReaderTask \cup {NoTask}
    BY Zenon DEF Detach, TypeOK
  <2>2. SUFFICES ASSUME Live(reader'[r]) PROVE ReaderAttached(reader[r])'
    BY Zenon DEF ReaderAttached, Live
  <2>3. reader'[r] = reader[r] /\ Live(reader[r]) /\ reader[r].v \notin D
    <3>1. /\ reader[r] \in FillTask \cup WriterTask \cup ReaderTask \cup {NoTask}
          /\ Live(Orphan(reader[r], D))
      BY Zenon, <2>1, <2>2
    <3>2. Orphan(reader[r], D) = reader[r] /\ Live(reader[r]) /\ reader[r].v \notin D
      BY Zenon, <3>1, OrphanLive
    <3> QED BY Zenon, <2>1, <3>2
  <2>4. ReaderAttached(reader[r])
    BY Zenon DEF Attached
  <2>5. /\ reader[r].v \in entries \ D /\ reader[r].todo \subseteq present[reader[r].v]
        /\ "read" \notin Faults => reader[r].st = "reading"
    BY Zenon, <2>3, <2>4 DEF ReaderAttached
  <2>6. reader[r].v \in entries' /\ present'[reader[r].v] = present[reader[r].v]
    BY Zenon, <1>1, <2>5
  <2> QED BY Zenon, <2>3, <2>5, <2>6 DEF ReaderAttached
<1> QED BY Zenon, <1>2, <1>3, <1>4, <1>5 DEF Attached

\* Dropping without a new task.
LEMMA AttachedEvict ==
    ASSUME TypeOK, Attached, NEW D \in SUBSET Versions, NEW N \in SUBSET Versions,
           NEW wr \in BOOLEAN, N \cap entries = {}, Register(D, N, wr),
           Detach(D, fill, writer, reader)
    PROVE  Attached'
<1>1. /\ \A f \in Fills : FillAttached(fill[f])
      /\ \A w \in Writers : WriterAttached(writer[w])
  BY Zenon DEF Attached
<1>2. fill \in FillType /\ writer \in WriterType
  BY Zenon, TypeTasks
<1> QED BY Zenon, <1>1, <1>2, AttachedDrop

\* remove leaves every surviving task attached to its own entry.
LEMMA AttachedRemove ==
    ASSUME TypeOK, Attached, NEW v \in Versions, NEW fs \in FillType, NEW ws \in WriterType,
           Remove(v, fs, ws),
           \A f \in Fills : fs[f] \in {fill[f], NoTask},
           \A w \in Writers : ws[w] \in {writer[w], NoTask}
    PROVE  Attached'
<1> DEFINE D == {v} \cap entries
<1>1. Register(D, {}, FALSE) /\ Detach(D, fs, ws, reader)
  BY Zenon DEF Remove, Drop
<1>2. /\ \A f \in Fills : FillAttached(fs[f])
      /\ \A w \in Writers : WriterAttached(ws[w])
  BY Zenon DEF Attached, FillAttached, WriterAttached, Live
<1>3. D \in SUBSET Versions
  BY Zenon
<1> HIDE DEF D
<1> QED BY Zenon, <1>1, <1>2, <1>3, AttachedDrop

\* Opening or refusing a staging file keeps tasks attached.
LEMMA AttachedStaging ==
    ASSUME TypeOK, Attached, NEW v \in Versions, NEW E \in SUBSET entries,
           NEW role \in {"save", "stage", "fill"},
           RefuseStaging(v, role, E) \/ \E w \in Writers : OpenStaging(w, v, role, E)
    PROVE  Attached'
<1>e. E \in SUBSET Versions
  BY Zenon DEF TypeOK
<1>1. CASE RefuseStaging(v, role, E)
  BY Zenon, <1>1, <1>e, AttachedEvict DEF RefuseStaging, Refused, Drop
<1>2. ASSUME NEW w \in Writers, OpenStaging(w, v, role, E) PROVE Attached'
  <2> DEFINE t == [st |-> "open", v |-> v, role |-> role, off |-> 0,
                   fd |-> FALSE, own |-> TRUE]
             ws == [writer EXCEPT ![w] = t]
  <2>1. ws \in WriterType /\ fill \in FillType
    BY Zenon, TypeTasks DEF WriterType, WriterTask
  <2>2. /\ Register(E, {v}, TRUE) /\ Detach(E, fill, ws, reader)
        /\ {v} \cap entries = {} /\ {v} \in SUBSET Versions
    BY Zenon, <1>2 DEF OpenStaging, MayStage
  <2>3. \A x \in Writers : WriterAttached(ws[x]) \/ (ws[x].v \in {v} /\ ws[x].st = "open")
    BY Zenon, TypeTasks DEF Attached, WriterType
  <2>4. \A f \in Fills : FillAttached(fill[f])
    BY Zenon DEF Attached
  <2> HIDE DEF ws
  <2> QED BY ZenonT(60), <1>e, <2>1, <2>2, <2>3, <2>4, AttachedDrop
<1> QED BY Zenon, <1>1, <1>2

\* A step that leaves the entries, the files and all but one task alone.
LEMMA AttachedWriter ==
    ASSUME TypeOK, Attached, NEW w \in Writers, writer[w] # NoTask, WriterStep(w)
    PROVE  Attached'
<1> DEFINE t == writer[w]
<1>t. t \in WriterTask /\ t.v \in Versions
  BY Zenon DEF TypeOK, WriterTask
<1>f. writer \in [Writers -> WriterTask \cup {NoTask}]
  BY Zenon DEF TypeOK
<1>w. /\ t.own => t.v \in entries /\ t.v \in files
      /\ t.own /\ t.st = "written" => Whole(t.v, t.off) \subseteq data[t.v]
      /\ t.own /\ t.st = "closing" => Blocks(t.v) \subseteq present[t.v]
  BY Zenon DEF Attached, WriterAttached, Live, Stored
<1>1. ASSUME NEW n \in 1 .. Size[t.v], WriterPwrite(w, n)
      PROVE  Attached'
  <2> DEFINE u == [t EXCEPT !.st = "written", !.off = t.off + n, !.fd = TRUE]
  <2>1. writer' = [writer EXCEPT ![w] = u]
    BY Zenon, <1>1, <1>t, <1>f DEF WriterPwrite, WriterTask
  <2>2. \A x \in Writers : writer'[x] = IF x = w THEN u ELSE writer[x]
    BY Zenon, <2>1, <1>f
  <2>3. \A x \in Versions : data[x] \subseteq data'[x]
    BY SMTT(60), Z3T(60), <1>1, <1>t DEF WriterPwrite, TypeOK
  <2>4. t.own => Whole(t.v, t.off + n) \subseteq data'[t.v]
    <3>1. t.own => data' = [data EXCEPT ![t.v] = @ \cup Whole(t.v, t.off + n)]
      BY Zenon, <1>1, <1>w DEF WriterPwrite
    <3> QED BY SMTT(60), Z3T(60), <3>1, <1>t DEF TypeOK
  <2>5. UNCHANGED <<entries, present, files, map, fill, reader>>
    BY Zenon, <1>1 DEF WriterPwrite
  <2>6. u.v = t.v /\ u.own = t.own /\ u.st = "written" /\ u.off = t.off + n
    BY Zenon, <1>t DEF WriterTask
  <2> HIDE DEF u
  <2>7. \A x \in Writers : WriterAttached(writer[x])'
    <3> SUFFICES ASSUME NEW x \in Writers, Live(writer'[x])
                 PROVE  WriterAttached(writer[x])'
      BY Zenon DEF WriterAttached, Live
    <3>1. CASE x = w
      <4>1. writer'[x] = u /\ u.own
        BY Zenon, <3>1, <2>2 DEF Live
      <4>2. u.v \in entries' /\ u.st = "written" /\ Whole(u.v, u.off) \subseteq data'[u.v]
        BY Zenon, <4>1, <2>4, <2>5, <2>6, <1>w
      <4>3. u.st # "closing"
        BY Zenon, <4>2
      <4> HIDE DEF t
      <4> QED BY Zenon, <4>1, <4>2, <4>3 DEF WriterAttached, Whole, Blocks, BlockBytes, Bytes
    <3>2. CASE x # w
      <4>1. writer'[x] = writer[x] /\ writer[x] \in WriterTask
        BY Zenon, <3>2, <2>2, <1>f DEF Live
      <4>2. WriterAttached(writer[x]) /\ writer[x].v \in Versions
        BY Zenon, <4>1 DEF Attached, WriterTask
      <4> QED BY Zenon, <4>1, <4>2, <2>3, <2>5
              DEF WriterAttached, Live, Whole, Blocks, BlockBytes, Bytes
    <3> QED BY ZenonT(60), <3>1, <3>2
  <2>8. \A f \in Fills : FillAttached(fill[f])'
    <3>1. \A f \in Fills : fill[f] # NoTask => fill[f].v \in Versions
      BY ZenonT(60) DEF TypeOK, FillTask
    <3> QED BY Zenon, <3>1, <2>3, <2>5 DEF Attached, FillAttached, Live
  <2>9. (\A r \in Readers : ReaderAttached(reader[r])') /\ Stored'
    BY Zenon, <2>3, <2>5 DEF Attached, ReaderAttached, Live, Stored, TypeOK
  <2> QED BY Zenon, <2>7, <2>8, <2>9 DEF Attached
<1>2. ASSUME NEW s \in {"failing", "aborting"}, writer' = [writer EXCEPT ![w].st = s],
             UNCHANGED <<entries, present, files, data, map, fill, reader>>
      PROVE  Attached'
  <2>1. \A x \in Writers : WriterAttached(writer[x])'
    <3> SUFFICES ASSUME NEW x \in Writers PROVE WriterAttached(writer[x])'
      BY Zenon
    <3>1. CASE x = w
      BY Zenon, <1>2, <1>t, <1>f, <1>w, <3>1 DEF WriterAttached, Live, WriterTask
    <3>2. CASE x # w
      BY Zenon, <1>2, <1>f, <3>2
         DEF Attached, WriterAttached, Live, Whole, Blocks, BlockBytes, Bytes
    <3> QED BY Zenon, <3>1, <3>2
  <2> QED BY Zenon, <1>2, <2>1 DEF Attached, FillAttached, ReaderAttached, Live, Stored
<1>3. ASSUME WriterMark(w) PROVE Attached'
  <2> DEFINE B == Whole(t.v, t.off)
             st == IF t.off >= Size[t.v] THEN "closing" ELSE "open"
  <2>1. /\ UNCHANGED <<entries, files, data, fill, reader>>
        /\ MarkPresent(t, B) /\ writer' = [writer EXCEPT ![w].st = st]
    BY Zenon, <1>3 DEF WriterMark
  <2>2. t.st = "written" /\ B \subseteq Nat
    BY ZenonT(60), <1>3, <1>t, BlocksNat DEF WriterMark
  <2>3. /\ \A x \in Versions : present[x] \subseteq present'[x]
        /\ \A x \in entries : present'[x] \subseteq data[x]
        /\ \A x \in Versions : map'[x] \subseteq data[x]
        /\ t.own => B \subseteq present'[t.v]
    <3>1. CASE t.own
      BY SMTT(60), Z3T(60), <3>1, <2>1, <2>2, <1>t, <1>w DEF MarkPresent, Attached, Stored, TypeOK
    <3>2. CASE ~t.own
      BY Zenon, <3>2, <2>1, <1>t DEF MarkPresent, Attached, Stored, WriterTask
    <3> QED BY Zenon, <3>1, <3>2, <1>t DEF WriterTask
  <2>4. st = "closing" => Blocks(t.v) \subseteq B
    <3>1. \A i \in Bytes(t.v) : i < Size[t.v] /\ i \in Nat /\ Size[t.v] \in Nat
      BY SMTT(60), Z3T(60), <1>t, CacheAssumption DEF Bytes
    <3>2. t.off \in Nat
      BY Zenon, <1>t DEF WriterTask
    <3>3. st = "closing" => \A b \in Blocks(t.v) : \A i \in BlockBytes(t.v, b) : i < t.off
      BY SMTT(60), Z3T(60), <3>1, <3>2 DEF BlockBytes
    <3> QED BY Zenon, <3>3 DEF Whole
  <2>5. \A x \in Writers : WriterAttached(writer[x])'
    <3> SUFFICES ASSUME NEW x \in Writers PROVE WriterAttached(writer[x])'
      BY Zenon
    <3>1. CASE x = w
      <4>1. writer'[x] = [t EXCEPT !.st = st]
        BY Zenon, <2>1, <1>f, <3>1
      <4>2. /\ writer'[x].v = t.v /\ writer'[x].own = t.own /\ writer'[x].st = st
        BY Zenon, <4>1, <1>t DEF WriterTask
      <4>3. st # "written"
        BY Zenon
      <4> HIDE DEF st, B
      <4> QED BY Zenon, <4>2, <4>3, <2>1, <2>3, <2>4, <1>w DEF WriterAttached, Live, Blocks, Bytes
    <3>2. CASE x # w
      <4>1. writer'[x] = writer[x] /\ WriterAttached(writer[x])
            /\ (writer[x] # NoTask => writer[x].v \in Versions)
        BY Zenon, <2>1, <1>f, <3>2 DEF Attached, WriterTask
      <4> QED BY SMTT(60), Z3T(60), <4>1, <2>1, <2>3
              DEF WriterAttached, Live, Whole, Blocks, BlockBytes, Bytes
    <3> QED BY Zenon, <3>1, <3>2
  <2>6. \A r \in Readers : ReaderAttached(reader[r])'
    BY Zenon, <2>1, <2>3 DEF Attached, ReaderAttached, Live, TypeOK, ReaderTask
  <2>7. \A f \in Fills : FillAttached(fill[f])'
    BY Zenon, <2>1 DEF Attached, FillAttached, Live
  <2>8. Stored'
    BY Zenon, <2>1, <2>3 DEF Stored, Attached
  <2> QED BY Zenon, <2>5, <2>6, <2>7, <2>8 DEF Attached
<1>4. ASSUME writer' = [writer EXCEPT ![w] = NoTask],
             UNCHANGED <<entries, present, files, data, map, fill, reader>>
      PROVE  Attached'
  <2>1. \A x \in Writers : WriterAttached(writer[x])'
    BY Zenon, <1>4, <1>f DEF Attached, WriterAttached, Live, Whole, Blocks, BlockBytes, Bytes
  <2> QED BY Zenon, <1>4, <2>1 DEF Attached, FillAttached, ReaderAttached, Live, Stored
<1>5. ASSUME WriterAbort(w) PROVE Attached'
  <2> DEFINE ws == [writer EXCEPT ![w] = NoTask]
  <2>1. ws \in WriterType /\ \A x \in Writers : ws[x] \in {writer[x], NoTask}
    BY Zenon, <1>f DEF WriterType
  <2>2. Remove(t.v, fill, ws)
    BY Zenon, <1>5 DEF WriterAbort
  <2> HIDE DEF ws
  <2> QED BY Zenon, <2>1, <2>2, <1>t, AttachedRemove, TypeTasks
<1> QED BY Zenon, <1>1, <1>2, <1>3, <1>4, <1>5
        DEF WriterStep, WriterError, WriterGiveUp, WriterFinish, WriterCloseEmpty, disk

\* The steps of fills keep tasks attached.
LEMMA AttachedFill ==
    ASSUME TypeOK, Attached,
           \/ \E v \in Versions, E \in SUBSET entries : Reserve(v, E) \/ RefuseReserve(v, E)
           \/ \E v \in Versions, E \in SUBSET entries : \E b \in Blocks(v) :
                 \/ \E f \in Fills : FillBegin(f, v, b, E)
                 \/ RefuseFill(v, b, E)
           \/ \E f \in Fills : FillStep(f) \/ FillCancel(f)
    PROVE  Attached'
<1>e. entries \subseteq Versions
  BY Zenon DEF TypeOK
<1>1. ASSUME NEW v \in Versions, NEW E \in SUBSET entries, Reserve(v, E) PROVE Attached'
  <2>1. /\ Register(E, {v}, FALSE) /\ Detach(E, fill, writer, reader)
        /\ {v} \cap entries = {} /\ {v} \in SUBSET Versions /\ E \in SUBSET Versions
    BY Zenon, <1>1, <1>e DEF Reserve
  <2> QED BY Zenon, <2>1, AttachedEvict
<1>2. ASSUME NEW E \in SUBSET entries, Drop(E), Detach(E, fill, writer, reader)
      PROVE  Attached'
  BY Zenon, <1>2, <1>e, AttachedEvict DEF Drop
<1>3. ASSUME NEW v \in Versions, NEW E \in SUBSET entries, NEW b \in Blocks(v),
             NEW f \in Fills, FillBegin(f, v, b, E)
      PROVE  Attached'
  <2> DEFINE t == [st |-> "begun", v |-> v, b |-> b, claim |-> Added(v, b), own |-> TRUE]
             fs == [fill EXCEPT ![f] = t]
  <2>1. b \in Nat /\ Added(v, b) \in SUBSET Nat
    BY Zenon, BlocksNat DEF Added
  <2>2. fs \in FillType /\ writer \in WriterType
    BY Zenon, <2>1, TypeTasks DEF FillType, FillTask
  <2>3. Register(E, {}, FALSE) /\ Detach(E, fs, writer, reader) /\ v \in entries
    BY Zenon, <1>3 DEF FillBegin, Drop, MayFill
  <2>4. \A x \in Fills : FillAttached(fs[x])
    BY Zenon, <2>3, TypeTasks DEF Attached, FillType, FillAttached
  <2>5. \A w \in Writers : WriterAttached(writer[w])
    BY Zenon DEF Attached
  <2> HIDE DEF fs
  <2> QED BY Zenon, <1>e, <2>2, <2>3, <2>4, <2>5, AttachedDrop
<1>5. ASSUME NEW f \in Fills, FillStep(f) \/ FillCancel(f)
      PROVE  Attached'
  <2> DEFINE t == fill[f]
  <2>t. t # NoTask /\ t \in FillTask /\ t.v \in Versions /\ t.b \in Nat
    <3>1. t # NoTask
      BY Zenon, <1>5 DEF FillStep, FillPwrite, FillError, FillEnd, FillFail, FillCancel
    <3> QED BY Zenon, <3>1 DEF TypeOK, FillTask
  <2>f. fill \in [Fills -> FillTask \cup {NoTask}]
    BY ZenonT(60) DEF TypeOK
  <2>a. /\ t.own => t.v \in entries
        /\ t.own /\ t.st = "written" => t.b \in data[t.v]
    BY Zenon, <2>t DEF Attached, FillAttached, Live
  <2>l. ASSUME NEW u, u \in {Leak(t), [t EXCEPT !.st = "failed"], [t EXCEPT !.st = "leaking"]}
        PROVE  FillAttached(u)
    BY ZenonT(60), <2>t, <2>a, <2>l DEF Leak, FillTask, FillAttached, Live
  \* the threads' steps: the file gains a block, the call moves on
  <2>1. ASSUME NEW u, fill' = [fill EXCEPT ![f] = u],
               Live(u) => /\ u.v \in entries
                          /\ u.st = "written" => u.b \in data'[u.v],
               \A x \in Versions : data[x] \subseteq data'[x],
               UNCHANGED <<entries, present, files, map, writer, reader>>
        PROVE  Attached'
    <3>1. \A x \in Fills : FillAttached(fill[x])'
      <4> SUFFICES ASSUME NEW x \in Fills, Live(fill'[x]) PROVE FillAttached(fill[x])'
        BY ZenonT(60) DEF FillAttached, Live
      <4>1. CASE x = f
        BY Zenon, <2>1, <2>f, <4>1 DEF FillAttached, Live
      <4>2. CASE x # f
        <5>1. fill'[x] = fill[x] /\ FillAttached(fill[x]) /\ fill[x].v \in Versions
          BY Zenon, <2>1, <2>f, <4>2 DEF Attached, FillTask, Live
        <5>2. fill[x].v \in entries /\ (fill[x].st = "written" => fill[x].b \in data[fill[x].v])
          BY Zenon, <5>1 DEF FillAttached
        <5>3. entries' = entries /\ data[fill[x].v] \subseteq data'[fill[x].v]
          BY ZenonT(60), <2>1, <5>1
        <5> QED BY Zenon, <5>1, <5>2, <5>3 DEF FillAttached
      <4> QED BY Zenon, <4>1, <4>2
    <3>2. \A w \in Writers : WriterAttached(writer[w])'
      <4>1. \A w \in Writers : writer[w] # NoTask => writer[w].v \in Versions
        BY Zenon DEF TypeOK, WriterTask
      <4> QED BY Zenon, <2>1, <4>1
              DEF Attached, WriterAttached, Live, Whole, Blocks, BlockBytes, Bytes
    <3>3. Stored' /\ \A r \in Readers : ReaderAttached(reader[r])'
      BY Zenon, <2>1 DEF Attached, ReaderAttached, Live, Stored, TypeOK
    <3> QED BY Zenon, <3>1, <3>2, <3>3 DEF Attached
  <2>2. CASE FillPwrite(f)
    <3> DEFINE u == IF t.st = "begun" THEN [t EXCEPT !.st = "written"] ELSE Leak(t)
    <3>1. /\ fill' = [fill EXCEPT ![f] = u]
          /\ UNCHANGED <<entries, present, files, map, writer, reader>>
          /\ data' = [data EXCEPT ![t.v] = @ \cup {t.b}]
      BY Zenon, <2>2 DEF FillPwrite
    <3>2. (\A x \in Versions : data[x] \subseteq data'[x]) /\ t.b \in data'[t.v]
      BY Zenon, <3>1, <2>t DEF TypeOK
    <3>3. Live(u) => u.v \in entries /\ (u.st = "written" => u.b \in data'[u.v])
      BY Zenon, <3>2, <2>t, <2>a DEF Leak, FillTask, Live
    <3> HIDE DEF u
    <3> QED BY Zenon, <3>1, <3>2, <3>3, <2>1
  <2>3. CASE FillError(f) \/ FillCancel(f)
    <3>1. PICK u \in {Leak(t), [t EXCEPT !.st = "failed"], [t EXCEPT !.st = "leaking"]} :
              fill' = [fill EXCEPT ![f] = u]
      BY Zenon, <2>3 DEF FillError, FillCancel
    <3>2. UNCHANGED <<entries, present, files, map, data, writer, reader>>
      BY Zenon, <2>3 DEF FillError, FillCancel, disk
    <3>3. FillAttached(u)
      BY Zenon, <2>l
    <3> QED BY Zenon, <3>1, <3>2, <3>3, <2>1 DEF FillAttached
  <2>4. CASE FillEnd(f)
    <3>1. /\ UNCHANGED <<entries, files, data, writer, reader>>
          /\ MarkPresent(t, {t.b}) /\ fill' = [fill EXCEPT ![f] = NoTask]
          /\ t.st = "written"
      BY Zenon, <2>4 DEF FillEnd
    <3>2. /\ \A x \in Versions : present[x] \subseteq present'[x]
          /\ \A x \in entries : present'[x] \subseteq data[x]
          /\ \A x \in Versions : map'[x] \subseteq data[x]
      <4>1. CASE t.own
        BY SMTT(60), Z3T(60), <4>1, <3>1, <2>t, <2>a DEF MarkPresent, Attached, Stored, TypeOK
      <4>2. CASE ~t.own
        BY Zenon, <4>2, <3>1, <2>t DEF MarkPresent, Attached, Stored
      <4> QED BY ZenonT(60), <4>1, <4>2
    <3>3. \A x \in Fills : FillAttached(fill[x])'
      BY ZenonT(60), <3>1, <2>f DEF Attached, FillAttached, Live
    <3>4. \A w \in Writers : WriterAttached(writer[w])'
      <4>1. \A w \in Writers : writer[w] # NoTask => writer[w].v \in Versions
        BY Zenon DEF TypeOK, WriterTask
      <4> QED BY Zenon, <3>1, <3>2, <4>1
              DEF Attached, WriterAttached, Live, Whole, Blocks, BlockBytes, Bytes
    <3>5. \A r \in Readers : ReaderAttached(reader[r])'
      BY Zenon, <3>1, <3>2 DEF Attached, ReaderAttached, Live, TypeOK, ReaderTask
    <3> QED BY Zenon, <3>1, <3>2, <3>3, <3>4, <3>5 DEF Attached, Stored
  <2>5. CASE FillFail(f)
    <3> DEFINE fs == [fill EXCEPT ![f] = NoTask]
    <3>1. fs \in FillType /\ \A x \in Fills : fs[x] \in {fill[x], NoTask}
      BY Zenon, <2>f DEF FillType
    <3>2. Remove(t.v, fs, writer)
      BY Zenon, <2>5 DEF FillFail
    <3> HIDE DEF fs
    <3> QED BY Zenon, <3>1, <3>2, <2>t, AttachedRemove, TypeTasks
  <2> QED BY Zenon, <1>5, <2>2, <2>3, <2>4, <2>5 DEF FillStep
<1> QED BY Zenon, <1>1, <1>2, <1>3, <1>5 DEF RefuseReserve, RefuseFill, Refused

\* The steps of reads keep tasks attached.
LEMMA AttachedRead ==
    ASSUME TypeOK, Attached, NEW r \in Readers,
           \/ \E v \in Versions : \E bs \in SUBSET Blocks(v) : ReadBegin(r, v, bs)
           \/ ReadError(r) \/ ReadStop(r)
           \/ reader[r] # NoTask /\ \E b \in reader[r].todo : ReadChunk(r, b)
    PROVE  Attached'
<1>f. reader \in [Readers -> ReaderTask \cup {NoTask}]
  BY Zenon DEF TypeOK
<1>1. ASSUME NEW u, ReaderAttached(u), reader' = [reader EXCEPT ![r] = u],
             UNCHANGED <<entries, present, files, data, map, fill, writer>>
      PROVE  Attached'
  <2>1. \A x \in Readers : ReaderAttached(reader[x])'
    <3> SUFFICES ASSUME NEW x \in Readers PROVE ReaderAttached(reader[x])'
      BY Zenon
    <3>1. CASE x = r
      BY Zenon, <1>1, <1>f, <3>1 DEF ReaderAttached, Live
    <3>2. CASE x # r
      BY Zenon, <1>1, <1>f, <3>2 DEF Attached, ReaderAttached, Live
    <3> QED BY Zenon, <3>1, <3>2
  <2> QED BY Zenon, <1>1, <2>1 DEF Attached, FillAttached, WriterAttached, Live, Stored,
             Whole, Blocks, BlockBytes, Bytes
<1>2. ASSUME NEW v \in Versions, NEW bs \in SUBSET Blocks(v), ReadBegin(r, v, bs)
      PROVE  Attached'
  <2> DEFINE u == [st |-> "reading", v |-> v, todo |-> bs, own |-> TRUE]
  <2>1. ReaderAttached(u)
    BY Zenon, <1>2 DEF ReadBegin, ReaderAttached
  <2> QED BY Zenon, <1>1, <1>2, <2>1 DEF ReadBegin, disk
<1>3. CASE ReadStop(r)
  <2>1. ReaderAttached(NoTask)
    BY Zenon DEF ReaderAttached, Live
  <2> QED BY ZenonT(60), <1>1, <1>3, <2>1 DEF ReadStop, disk
<1>4. CASE ReadError(r)
  <2> DEFINE t == reader[r]
             u == [t EXCEPT !.st = "error"]
  <2>1. t \in ReaderTask /\ t # NoTask /\ reader' = [reader EXCEPT ![r] = u]
    BY Zenon, <1>4, <1>f DEF ReadError
  <2>2. u.v = t.v /\ u.own = t.own /\ u.todo = t.todo
    BY Zenon, <2>1 DEF ReaderTask
  <2>3. t.own => "read" \in Faults
    BY Zenon, <1>4, <2>1 DEF ReadError, Attached, ReaderAttached, Live, Stored
  <2>4. ReaderAttached(t)
    BY Zenon DEF Attached
  <2>5. ReaderAttached(u)
    BY Zenon, <2>1, <2>2, <2>3, <2>4 DEF ReaderAttached, Live
  <2>6. UNCHANGED <<entries, present, files, data, map, fill, writer>>
    BY Zenon, <1>4 DEF ReadError, disk
  <2> HIDE DEF u
  <2> QED BY Zenon, <1>1, <2>1, <2>5, <2>6
<1>5. ASSUME reader[r] # NoTask, NEW b \in reader[r].todo, ReadChunk(r, b)
      PROVE  Attached'
  <2> DEFINE t == reader[r]
             u == IF b \notin data[t.v] THEN [t EXCEPT !.st = "zeros"]
                  ELSE IF t.todo = {b} THEN NoTask
                  ELSE [t EXCEPT !.todo = @ \ {b}]
  <2>1. /\ t \in ReaderTask /\ t # NoTask /\ reader' = [reader EXCEPT ![r] = u]
        /\ UNCHANGED <<entries, present, files, data, map, fill, writer>>
    BY Zenon, <1>5, <1>f DEF ReadChunk, disk
  <2>2. ReaderAttached(t)
    BY Zenon DEF Attached
  <2>3. t.own => b \in data[t.v]
    BY Zenon, <1>5, <2>1, <2>2 DEF ReaderAttached, Live, Attached, Stored
  <2>4. ReaderAttached(u)
    <3>1. CASE b \notin data[t.v]
      <4>1. u.own = t.own
        BY Zenon, <3>1, <2>1 DEF ReaderTask
      <4> QED BY Zenon, <4>1, <3>1, <2>3 DEF ReaderAttached, Live
    <3>2. CASE b \in data[t.v] /\ t.todo = {b}
      BY ZenonT(60), <3>2 DEF ReaderAttached, Live
    <3>3. CASE b \in data[t.v] /\ t.todo # {b}
      <4>1. u.v = t.v /\ u.own = t.own /\ u.todo = t.todo \ {b} /\ u.st = t.st
        BY Zenon, <3>3, <2>1 DEF ReaderTask
      <4> QED BY Zenon, <4>1, <2>1, <2>2 DEF ReaderAttached, Live
    <3> QED BY Zenon, <3>1, <3>2, <3>3
  <2> HIDE DEF u
  <2> QED BY Zenon, <1>1, <2>1, <2>4
<1> QED BY Zenon, <1>2, <1>3, <1>4, <1>5

\* What a sweep that dropped D changes and what it leaves alone.
Swept(D, stale) ==
    /\ entries' = entries \ D
    /\ \A v \in entries \ D : /\ present'[v] = present[v] /\ data'[v] = data[v]
                              /\ map'[v] = map[v] /\ (v \in files => v \in files')
    /\ \A v \in Versions : map'[v] = {} \/ (map'[v] = map[v] /\ data'[v] = data[v])
    /\ Detach(D, fill, writer, reader)
    /\ \A v \in D : v \in stale \/ v \in EvictableWith(Reset(pins, stale, 0))
    /\ \A v \in Versions : pins'[v] = IF v \in D \cup stale THEN 0 ELSE pins[v]
    /\ writing' = writing /\ files' \subseteq files
    /\ \A v \in D : present'[v] = {}
    /\ "unlink" \notin Faults => files' = files \ (D \cup (files \ entries))

\* The sweep drops a set of entries and releases stale pins, nothing else.
LEMMA SweepKeeps ==
    ASSUME TypeOK, NEW stale \in SUBSET entries, NEW cut \in SUBSET entries,
           NEW E \in SUBSET entries, Sweep(stale, cut, E)
    PROVE  \E D \in SUBSET entries : Swept(D, stale)
<1> DEFINE unpinned == Reset(pins, stale, 0)
           released == IF KeepForReads THEN {} ELSE stale
           expired  == cut \cap (EvictableWith(unpinned) \ released)
           left     == EvictableWith(unpinned) \ (released \cup expired)
           D        == released \cup expired \cup E
<1>1. /\ entries' = entries \ D /\ present' = Reset(present, D, {})
      /\ pins' = Reset(unpinned, D, 0) /\ writing' = writing
      /\ Detach(D, fill, writer, reader)
      /\ SweptTo(E, left, entries \ (released \cup expired))
  BY Zenon DEF Sweep
<1>2. PICK gone \in Unlinks(D \cup (files \ entries)) :
          /\ files' = files \ gone /\ data' = Reset(data, gone, {})
          /\ map' = Reset(map, gone, {})
  BY Zenon DEF Sweep
<1>3. gone \subseteq D \cup (files \ entries)
  BY Zenon DEF Unlinks
<1>4. "unlink" \notin Faults => gone = D \cup (files \ entries)
  BY Zenon DEF Unlinks
<1>5. E \subseteq EvictableWith(unpinned)
  BY Zenon, <1>1 DEF SweptTo, Oldest
<1>6. D \in SUBSET entries /\ entries \subseteq Versions
  BY Zenon DEF TypeOK
<1>7. \A v \in D : v \in stale \/ v \in EvictableWith(unpinned)
  BY Zenon, <1>5
<1>8. \A v \in Versions : pins'[v] = IF v \in D \cup stale THEN 0 ELSE pins[v]
  BY Zenon, <1>1 DEF Reset
<1>9. \A v \in entries \ D : /\ present'[v] = present[v] /\ data'[v] = data[v]
                             /\ map'[v] = map[v] /\ (v \in files => v \in files')
  BY Zenon, <1>1, <1>2, <1>3, <1>6 DEF Reset
<1>10. /\ \A v \in Versions : map'[v] = {} \/ (map'[v] = map[v] /\ data'[v] = data[v])
       /\ \A v \in D : present'[v] = {}
  BY Zenon, <1>1, <1>2, <1>6 DEF Reset
<1> HIDE DEF unpinned, released, expired, left, D
<1>11. \A v \in D : v \in stale \/ v \in EvictableWith(Reset(pins, stale, 0))
  BY Zenon, <1>7 DEF unpinned
<1>12. files' \subseteq files
  BY Zenon, <1>2
<1>13. Swept(D, stale)
  BY Zenon, <1>1, <1>2, <1>4, <1>8, <1>9, <1>10, <1>11, <1>12 DEF Swept
<1> QED BY Zenon, <1>6, <1>13

\* The sweep keeps tasks attached.
LEMMA AttachedSweep ==
    ASSUME TypeOK, Attached, NEW stale \in SUBSET entries, NEW cut \in SUBSET entries,
           NEW E \in SUBSET entries, Sweep(stale, cut, E)
    PROVE  Attached'
<1>0. PICK D \in SUBSET entries : Swept(D, stale)
  BY ZenonT(60), SweepKeeps
<1>1. /\ entries' = entries \ D
      /\ \A v \in entries \ D : /\ present'[v] = present[v] /\ data'[v] = data[v]
                                /\ (v \in files => v \in files')
      /\ \A v \in Versions : map'[v] = {} \/ (map'[v] = map[v] /\ data'[v] = data[v])
      /\ Detach(D, fill, writer, reader)
  BY Zenon, <1>0 DEF Swept
<1>2. Stored'
  BY Zenon, <1>1 DEF Attached, Stored
<1>3. ASSUME NEW f \in Fills, Live(fill'[f]) PROVE FillAttached(fill[f])'
  <2>1. fill'[f] = Orphan(fill[f], D) /\ fill[f] \in FillTask \cup {NoTask}
    BY Zenon, <1>1 DEF Detach, TypeOK
  <2>a. Live(Orphan(fill[f], D)) /\ fill[f] \in FillTask \cup WriterTask \cup ReaderTask \cup {NoTask}
    BY Zenon, <1>3, <2>1
  <2>b. Orphan(fill[f], D) = fill[f] /\ Live(fill[f]) /\ fill[f].v \notin D
    BY Zenon, <2>a, OrphanLive
  <2>2. fill'[f] = fill[f] /\ Live(fill[f]) /\ fill[f].v \notin D
    BY ZenonT(60), <2>1, <2>b
  <2> QED BY Zenon, <1>1, <2>2 DEF Attached, FillAttached
<1>4. ASSUME NEW w \in Writers, Live(writer'[w]) PROVE WriterAttached(writer[w])'
  <2>1. writer'[w] = Orphan(writer[w], D) /\ writer[w] \in WriterTask \cup {NoTask}
    BY Zenon, <1>1 DEF Detach, TypeOK
  <2>a. Live(Orphan(writer[w], D)) /\ writer[w] \in FillTask \cup WriterTask \cup ReaderTask \cup {NoTask}
    BY Zenon, <1>4, <2>1
  <2>b. Orphan(writer[w], D) = writer[w] /\ Live(writer[w]) /\ writer[w].v \notin D
    BY Zenon, <2>a, OrphanLive
  <2>2. writer'[w] = writer[w] /\ Live(writer[w]) /\ writer[w].v \notin D
    BY Zenon, <2>1, <2>b
  <2> QED BY ZenonT(60), <1>1, <2>2 DEF Attached, WriterAttached, Whole, Blocks, BlockBytes, Bytes
<1>5. ASSUME NEW r \in Readers, Live(reader'[r]) PROVE ReaderAttached(reader[r])'
  <2>1. reader'[r] = Orphan(reader[r], D) /\ reader[r] \in ReaderTask \cup {NoTask}
    BY Zenon, <1>1 DEF Detach, TypeOK
  <2>a. Live(Orphan(reader[r], D)) /\ reader[r] \in FillTask \cup WriterTask \cup ReaderTask \cup {NoTask}
    BY Zenon, <1>5, <2>1
  <2>b. Orphan(reader[r], D) = reader[r] /\ Live(reader[r]) /\ reader[r].v \notin D
    BY Zenon, <2>a, OrphanLive
  <2>2. reader'[r] = reader[r] /\ Live(reader[r]) /\ reader[r].v \notin D
    BY Zenon, <2>1, <2>b
  <2> QED BY Zenon, <1>1, <2>2 DEF Attached, ReaderAttached
<1> QED BY Zenon, <1>2, <1>3, <1>4, <1>5
        DEF Attached, FillAttached, WriterAttached, ReaderAttached, Live

\* Pins, removal, distribution and the restart keep tasks attached.
LEMMA AttachedOther ==
    ASSUME TypeOK, Attached,
           \/ \E v \in Versions : Release(v) \/ Forget(v) \/ UploadUncached(v) \/ Distribute(v)
           \/ EvictUnpinned
           \/ \E order \in SUBSET (Versions \X Versions) : Restart(order)
           \/ UNCHANGED vars
    PROVE  Attached'
<1>1. ASSUME NEW v \in Versions, Release(v) PROVE Attached'
  <2> DEFINE D == IF KeepForReads THEN {} ELSE {v}
  <2>1. Register(D, {}, FALSE) /\ Detach(D, fill, writer, reader) /\ D \in SUBSET Versions
    BY Zenon, <1>1 DEF Release, Drop
  <2> HIDE DEF D
  <2> QED BY Zenon, <2>1, AttachedEvict
<1>2. ASSUME NEW v \in Versions, Forget(v) PROVE Attached'
  <2>1. Remove(v, fill, writer)
    BY Zenon, <1>2 DEF Forget
  <2> QED BY Zenon, <2>1, AttachedRemove, TypeTasks
<1>3. CASE EvictUnpinned
  <2> DEFINE D == EvictableWith(pins)
  <2>1. Register(D, {}, FALSE) /\ Detach(D, fill, writer, reader) /\ D \in SUBSET Versions
    BY ZenonT(60), <1>3 DEF EvictUnpinned, Drop, EvictableWith, TypeOK
  <2> HIDE DEF D
  <2> QED BY Zenon, <2>1, AttachedEvict
<1>4. ASSUME UNCHANGED <<entries, present, files, data, map, fill, writer, reader>>
      PROVE  Attached'
  BY Zenon, <1>4 DEF Attached, FillAttached, WriterAttached, ReaderAttached, Live, Stored,
             Whole, Blocks, BlockBytes, Bytes
<1>5. ASSUME NEW order, Restart(order) PROVE Attached'
  <2> DEFINE kept == {v \in Versions : index[v] \in {"pinned", "free"} /\ v \in files}
  <2>1. /\ entries' = kept
        /\ present' = [v \in Versions |-> IF v \in kept THEN map[v] ELSE {}]
        /\ fill' = [f \in Fills |-> NoTask] /\ writer' = [w \in Writers |-> NoTask]
        /\ reader' = [r \in Readers |-> NoTask]
    BY Zenon, <1>5 DEF Restart
  <2>2. PICK gone \in Unlinks(files \ kept) :
          files' = files \ gone /\ data' = Reset(data, gone, {}) /\ map' = Reset(map, gone, {})
    BY Zenon, <1>5 DEF Restart
  <2>3. gone \cap kept = {}
    BY Zenon DEF Unlinks
  <2>4. kept \subseteq files /\ kept \subseteq Versions
    BY Zenon
  <2> HIDE DEF kept
  <2>5. Stored'
    BY ZenonT(60), <2>1, <2>2, <2>3, <2>4 DEF Reset, Attached, Stored, TypeOK
  <2> QED BY Zenon, <2>1, <2>5 DEF Attached, FillAttached, WriterAttached, ReaderAttached, Live
<1>6. (\E v \in Versions : UploadUncached(v) \/ Distribute(v)) \/ UNCHANGED vars
        => UNCHANGED <<entries, present, files, data, map, fill, writer, reader>>
  BY Zenon DEF UploadUncached, Distribute, vars, disk, tasks
<1> QED BY Zenon, <1>1, <1>2, <1>3, <1>4, <1>5, <1>6

\* Every step keeps tasks attached.
LEMMA AttachedStep == TypeOK /\ Attached /\ [Next]_vars => Attached'
<1> SUFFICES ASSUME TypeOK, Attached, [Next]_vars PROVE Attached'
  BY Zenon
<1> QED BY Zenon, AttachedStaging, AttachedWriter, AttachedFill, AttachedRead, AttachedSweep,
           AttachedOther DEF Next

\* In every reachable state a task that still owns its entry works on the
\* data file of that entry, and what the entry and its map list is stored.
THEOREM TasksAttached == Spec => []Attached
<1>1. Init => Attached
  BY Zenon DEF Init, Attached, Stored, FillAttached, WriterAttached, ReaderAttached, Live
<1> QED BY <1>1, AttachedStep, TypeCorrect, PTL DEF Spec

\* For any number of writers, fills and readers and with every disk operation
\* allowed to fail: a block the cache vouches for, in an entry or in a map
\* file, is in the data file (write_blocks, StagingWriter, load).
THEOREM BlocksReal == Spec => []TrustedBlocksAreReal
<1>1. TypeOK /\ Attached => TrustedBlocksAreReal
  BY Zenon DEF TypeOK, Attached, Stored, TrustedBlocksAreReal
<1> QED BY <1>1, TypeCorrect, TasksAttached, PTL

\* When the disk reads without error, LocalCache.read never serves a hole or
\* fails as long as the entry it started on is registered: only dropping the
\* entry under a read can hurt it.
THEOREM LiveReads ==
    ASSUME "read" \notin Faults
    PROVE  Spec => []LiveReadsAreReal
<1>1. Attached => LiveReadsAreReal
  BY ZenonT(60) DEF Attached, ReaderAttached, Live, LiveReadsAreReal
<1> QED BY <1>1, TasksAttached, PTL

-----------------------------------------------------------------------------
(* Ledger.                                                                 *)

FillLedger(t) == Live(t) =>
    /\ ~writing[t.v]
    /\ t.claim \subseteq Bytes(t.v)
    /\ BlockBytes(t.v, t.b) \subseteq t.claim \cup PresentBytes(t.v)

Ledger ==
    /\ \A f \in Fills : FillLedger(fill[f])
    /\ \A w \in Writers : Live(writer[w]) => writing[writer[w].v]
    /\ \A w, x \in Writers : Live(writer[w]) /\ Live(writer[x]) /\ writer[w].v = writer[x].v
                                => w = x

\* What every step but the start of a task does to the live tasks: some go on
\* with what they had, and their entries keep what they rely on.
Settles ==
    /\ \A f \in Fills : Live(fill'[f]) =>
          /\ Live(fill[f])
          /\ fill'[f].v = fill[f].v /\ fill'[f].b = fill[f].b /\ fill'[f].claim = fill[f].claim
          /\ writing'[fill[f].v] => writing[fill[f].v]
          /\ present[fill[f].v] \subseteq present'[fill[f].v]
    /\ \A w \in Writers : Live(writer'[w]) =>
          /\ Live(writer[w]) /\ writer'[w].v = writer[w].v
          /\ writing[writer[w].v] => writing'[writer[w].v]

\* A step that only moves tasks on or ends them keeps the ledger.
LEMMA LedgerSettles ==
    ASSUME Ledger, Settles
    PROVE  Ledger'
<1>1. ASSUME NEW f \in Fills, Live(fill'[f]) PROVE FillLedger(fill[f])'
  <2>1. /\ Live(fill[f]) /\ fill'[f].v = fill[f].v /\ fill'[f].b = fill[f].b
        /\ fill'[f].claim = fill[f].claim
        /\ writing'[fill[f].v] => writing[fill[f].v]
        /\ present[fill[f].v] \subseteq present'[fill[f].v]
    BY Zenon, <1>1 DEF Settles
  <2>2. FillLedger(fill[f])
    BY Zenon DEF Ledger
  <2> QED BY Zenon, <2>1, <2>2 DEF FillLedger, PresentBytes, BlockBytes, Bytes, BlockOf
<1> QED BY SMTT(60), Z3T(60), <1>1 DEF Ledger, FillLedger, Settles, Live

\* What dropping entries leaves alone.
LEMMA DropKeeps ==
    ASSUME TypeOK, NEW D \in SUBSET Versions, Register(D, {}, FALSE)
    PROVE  /\ entries' = entries \ D
           /\ \A v \in entries \ D : /\ present'[v] = present[v] /\ data'[v] = data[v]
                                     /\ map'[v] = map[v] /\ writing'[v] = writing[v]
                                     /\ v \in files => v \in files'
<1> DEFINE N == {}
<1>1. N \in SUBSET Versions /\ N \cap entries = {} /\ Register(D, N, FALSE)
  BY Zenon
<1>2. entries \ D = (entries \ D) \cup N
  BY Zenon
<1> HIDE DEF N
<1> QED BY Zenon, <1>1, <1>2, RegisterKeeps

\* Dropping entries settles the tasks.
LEMMA DropSettles ==
    ASSUME TypeOK, Attached, NEW D \in SUBSET Versions, NEW N \in SUBSET Versions,
           NEW wr \in BOOLEAN, N \cap entries = {}, Register(D, N, wr),
           NEW fs \in FillType, NEW ws \in WriterType, Detach(D, fs, ws, reader),
           \A f \in Fills : fs[f] \in {fill[f], NoTask},
           \A w \in Writers : ws[w] \in {writer[w], NoTask}
    PROVE  Settles
<1>1. /\ entries' = (entries \ D) \cup N
      /\ \A v \in entries \ D : /\ present'[v] = present[v] /\ data'[v] = data[v]
                                /\ map'[v] = map[v] /\ writing'[v] = writing[v]
                                /\ v \in files => v \in files'
      /\ \A v \in N : /\ present'[v] = {} /\ data'[v] = {} /\ map'[v] = {}
                      /\ writing'[v] = wr /\ v \in files'
      /\ \A v \in Versions : map'[v] = {} \/ (map'[v] = map[v] /\ data'[v] = data[v])
  BY ZenonT(60), RegisterKeeps
<1>2. ASSUME NEW f \in Fills, Live(fill'[f])
      PROVE  fill'[f] = fill[f] /\ Live(fill[f]) /\ fill[f].v \in entries \ D
  <2>1. fill'[f] = Orphan(fs[f], D) /\ fs[f] \in FillTask \cup {NoTask}
    BY Zenon DEF Detach, FillType
  <2>2. fill'[f] = fs[f] /\ Live(fs[f]) /\ fs[f].v \notin D
    BY SMTT(60), Z3T(60), <1>2, <2>1, OrphanLive
  <2>3. fs[f] = fill[f]
    BY Zenon, <2>2 DEF Live
  <2> QED BY Zenon, <2>2, <2>3 DEF Attached, FillAttached
<1>3. ASSUME NEW w \in Writers, Live(writer'[w])
      PROVE  writer'[w] = writer[w] /\ Live(writer[w]) /\ writer[w].v \in entries \ D
  <2>1. writer'[w] = Orphan(ws[w], D) /\ ws[w] \in WriterTask \cup {NoTask}
    BY Zenon DEF Detach, WriterType
  <2>2. writer'[w] = ws[w] /\ Live(ws[w]) /\ ws[w].v \notin D
    BY SMTT(60), Z3T(60), <1>3, <2>1, OrphanLive
  <2>3. ws[w] = writer[w]
    BY Zenon, <2>2 DEF Live
  <2> QED BY ZenonT(60), <2>2, <2>3 DEF Attached, WriterAttached
<1> QED BY ZenonT(60), <1>1, <1>2, <1>3 DEF Settles

\* Eviction and registration only detach tasks.
LEMMA EvictSettles ==
    ASSUME TypeOK, Attached, NEW D \in SUBSET Versions, NEW N \in SUBSET Versions,
           NEW wr \in BOOLEAN, N \cap entries = {}, Register(D, N, wr),
           Detach(D, fill, writer, reader)
    PROVE  Settles
BY Zenon, DropSettles, TypeTasks

\* remove only detaches tasks and ends those of the entry.
LEMMA RemoveSettles ==
    ASSUME TypeOK, Attached, NEW v \in Versions, NEW fs \in FillType, NEW ws \in WriterType,
           Remove(v, fs, ws),
           \A f \in Fills : fs[f] \in {fill[f], NoTask},
           \A w \in Writers : ws[w] \in {writer[w], NoTask}
    PROVE  Settles
<1> DEFINE D == {v} \cap entries
<1>1. Register(D, {}, FALSE) /\ Detach(D, fs, ws, reader) /\ D \in SUBSET Versions
  BY Zenon DEF Remove, Drop
<1> HIDE DEF D
<1> QED BY Zenon, <1>1, DropSettles

\* A step that touches one writer only.
LEMMA WriterSettles ==
    ASSUME TypeOK, Attached, Ledger, NEW w \in Writers, writer[w] # NoTask, WriterStep(w)
    PROVE  Settles
<1> DEFINE t == writer[w]
<1>t. t \in WriterTask /\ t.v \in Versions
  BY Zenon DEF TypeOK, WriterTask
<1>f. writer \in [Writers -> WriterTask \cup {NoTask}]
  BY Zenon DEF TypeOK
<1>1. ASSUME NEW u \in WriterTask, u.v = t.v, u.own = t.own,
             writer' = [writer EXCEPT ![w] = u], UNCHANGED <<writing, fill>>,
             \A x \in Versions : present[x] \subseteq present'[x]
      PROVE  Settles
  <2>1. \A x \in Writers : Live(writer'[x]) =>
            Live(writer[x]) /\ writer'[x].v = writer[x].v
    BY Zenon, <1>1, <1>f DEF Live
  <2>2. \A f \in Fills : Live(fill[f]) => fill[f].v \in Versions
    BY Zenon DEF TypeOK, FillTask, Live
  <2> QED BY Zenon, <1>1, <2>1, <2>2 DEF Settles
<1>2. ASSUME NEW n \in 1 .. Size[t.v], WriterPwrite(w, n) PROVE Settles
  <2> DEFINE u == [t EXCEPT !.st = "written", !.off = t.off + n, !.fd = TRUE]
  <2>1. writer' = [writer EXCEPT ![w] = u] /\ UNCHANGED <<writing, fill, present>>
    BY Zenon, <1>2, <1>f, <1>t DEF WriterPwrite, WriterTask
  <2>2. t.off + n \in Nat
    BY SMTT(60), Z3T(60), <1>t, CacheAssumption DEF WriterTask
  <2>3. u \in WriterTask /\ u.v = t.v /\ u.own = t.own
    BY Zenon, <1>t, <2>2 DEF WriterTask
  <2> HIDE DEF u
  <2> QED BY Zenon, <1>1, <2>1, <2>3
<1>3. ASSUME NEW s \in {"failing", "aborting", "open", "closing"},
             writer' = [writer EXCEPT ![w].st = s], UNCHANGED <<writing, fill>>,
             \A x \in Versions : present[x] \subseteq present'[x]
      PROVE  Settles
  <2> DEFINE u == [t EXCEPT !.st = s]
  <2>1. writer' = [writer EXCEPT ![w] = u]
    BY Zenon, <1>3, <1>f
  <2>2. u \in WriterTask /\ u.v = t.v /\ u.own = t.own
    BY Zenon, <1>t DEF WriterTask
  <2> HIDE DEF u
  <2> QED BY Zenon, <1>1, <1>3, <2>1, <2>2
<1>4. ASSUME WriterMark(w) PROVE Settles
  <2>1. \A x \in Versions : present[x] \subseteq present'[x]
    BY SMTT(60), Z3T(60), <1>4, <1>t DEF WriterMark, MarkPresent, TypeOK
  <2>2. PICK s \in {"open", "closing"} : writer' = [writer EXCEPT ![w].st = s]
    BY Zenon, <1>4 DEF WriterMark
  <2>3. UNCHANGED <<writing, fill>>
    BY Zenon, <1>4 DEF WriterMark
  <2> QED BY Zenon, <1>3, <2>1, <2>2, <2>3
<1>5. ASSUME WriterFinish(w) PROVE Settles
  <2>1. /\ writing' = IF t.own THEN [writing EXCEPT ![t.v] = FALSE] ELSE writing
        /\ writer' = [writer EXCEPT ![w] = NoTask] /\ UNCHANGED <<present, fill>>
    BY Zenon, <1>5 DEF WriterFinish
  <2>2. \A x \in Writers : Live(writer'[x]) => x # w /\ writer'[x] = writer[x]
    BY Zenon, <2>1, <1>f DEF Live
  <2>3. \A x \in Writers : Live(writer'[x]) /\ t.own => writer[x].v # t.v
    BY Zenon, <2>2 DEF Ledger, Live
  <2>4. \A x \in Writers : Live(writer'[x]) => writer[x].v \in Versions
    BY Zenon, <2>2, <1>f DEF Live, WriterTask
  <2>5. \A v \in Versions : writing'[v] => writing[v]
    BY Zenon, <2>1, <1>t DEF TypeOK
  <2>6. \A f \in Fills : Live(fill[f]) => fill[f].v \in Versions
    BY Zenon DEF TypeOK, FillTask, Live
  <2>7. \A x \in Writers : Live(writer'[x]) => (writing[writer[x].v] => writing'[writer[x].v])
    BY Zenon, <2>1, <2>3, <2>4, <1>t DEF TypeOK
  <2> QED BY Zenon, <2>1, <2>2, <2>5, <2>6, <2>7 DEF Settles
<1>6. ASSUME WriterCloseEmpty(w) PROVE Settles
  <2>1. writer' = [writer EXCEPT ![w] = NoTask] /\ UNCHANGED <<present, writing, fill>>
    BY Zenon, <1>6 DEF WriterCloseEmpty
  <2>2. \A x \in Writers : Live(writer'[x]) => writer'[x] = writer[x]
    BY Zenon, <2>1, <1>f DEF Live
  <2> QED BY Zenon, <2>1, <2>2 DEF Settles
<1>7. ASSUME WriterAbort(w) PROVE Settles
  <2> DEFINE ws == [writer EXCEPT ![w] = NoTask]
  <2>1. ws \in WriterType /\ \A x \in Writers : ws[x] \in {writer[x], NoTask}
    BY Zenon, <1>f DEF WriterType
  <2>2. Remove(t.v, fill, ws)
    BY Zenon, <1>7 DEF WriterAbort
  <2> HIDE DEF ws
  <2> QED BY Zenon, <2>1, <2>2, <1>t, RemoveSettles, TypeTasks
<1>8. WriterError(w) \/ WriterGiveUp(w) =>
        /\ UNCHANGED <<writing, fill, present>>
        /\ \E s \in {"failing", "aborting"} : writer' = [writer EXCEPT ![w].st = s]
  BY Zenon DEF WriterError, WriterGiveUp
<1> QED BY Zenon, <1>2, <1>3, <1>4, <1>5, <1>6, <1>7, <1>8 DEF WriterStep

\* The steps of fills after their start, and the refusals.
LEMMA FillSettles ==
    ASSUME TypeOK, Attached,
           \/ \E v \in Versions, E \in SUBSET entries : Reserve(v, E) \/ RefuseReserve(v, E)
           \/ \E v \in Versions, E \in SUBSET entries, b \in Nat : RefuseFill(v, b, E)
           \/ \E f \in Fills : FillStep(f) \/ FillCancel(f)
    PROVE  Settles
<1>e. entries \subseteq Versions
  BY Zenon DEF TypeOK
<1>1. ASSUME NEW v \in Versions, NEW E \in SUBSET entries, Reserve(v, E) PROVE Settles
  <2>1. /\ Register(E, {v}, FALSE) /\ Detach(E, fill, writer, reader)
        /\ {v} \cap entries = {} /\ {v} \in SUBSET Versions /\ E \in SUBSET Versions
    BY Zenon, <1>1, <1>e DEF Reserve
  <2> QED BY Zenon, <2>1, EvictSettles
<1>2. ASSUME NEW E \in SUBSET entries, Drop(E), Detach(E, fill, writer, reader)
      PROVE  Settles
  BY Zenon, <1>2, <1>e, EvictSettles DEF Drop
<1>3. ASSUME NEW f \in Fills, FillStep(f) \/ FillCancel(f) PROVE Settles
  <2> DEFINE t == fill[f]
  <2>t. t # NoTask /\ t \in FillTask /\ t.v \in Versions /\ t.b \in Nat
    <3>1. t # NoTask
      BY <1>3 DEF FillStep, FillPwrite, FillError, FillEnd, FillFail, FillCancel
    <3> QED BY ZenonT(60), <3>1 DEF TypeOK, FillTask
  <2>f. fill \in [Fills -> FillTask \cup {NoTask}]
    BY Zenon DEF TypeOK
  <2>1. ASSUME NEW u, Live(u) => /\ t.own /\ u.v = t.v /\ u.b = t.b
                                 /\ u.claim = t.claim,
               fill' = [fill EXCEPT ![f] = u], UNCHANGED <<writing, writer>>,
               \A x \in Versions : present[x] \subseteq present'[x]
        PROVE  Settles
    <3>1. \A x \in Fills : Live(fill'[x]) =>
            /\ Live(fill[x]) /\ fill'[x].v = fill[x].v /\ fill'[x].b = fill[x].b
            /\ fill'[x].claim = fill[x].claim
      BY ZenonT(60), <2>1, <2>t, <2>f DEF Live
    <3>2. \A x \in Fills : Live(fill[x]) => fill[x].v \in Versions
      BY Zenon DEF TypeOK, FillTask, Live
    <3> QED BY Zenon, <2>1, <3>1, <3>2 DEF Settles
  <2>2. ASSUME NEW u \in {Leak(t), [t EXCEPT !.st = "written"], [t EXCEPT !.st = "failed"],
                          [t EXCEPT !.st = "leaking"], NoTask}
        PROVE  Live(u) => t.own /\ u.v = t.v /\ u.b = t.b /\ u.claim = t.claim
    BY Zenon, <2>t DEF Leak, FillTask, Live
  <2>3. CASE FillPwrite(f) \/ FillError(f) \/ FillCancel(f)
    <3>1. PICK u \in {Leak(t), [t EXCEPT !.st = "written"], [t EXCEPT !.st = "failed"],
                      [t EXCEPT !.st = "leaking"], NoTask} : fill' = [fill EXCEPT ![f] = u]
      BY Zenon, <2>3 DEF FillPwrite, FillError, FillCancel
    <3>2. UNCHANGED <<writing, writer, present>>
      BY Zenon, <2>3 DEF FillPwrite, FillError, FillCancel
    <3> QED BY Zenon, <3>1, <3>2, <2>1, <2>2
  <2>4. CASE FillEnd(f)
    <3>1. fill' = [fill EXCEPT ![f] = NoTask] /\ UNCHANGED <<writing, writer>>
      BY ZenonT(60), <2>4 DEF FillEnd
    <3>2. \A x \in Versions : present[x] \subseteq present'[x]
      BY SMTT(60), Z3T(60), <2>4, <2>t DEF FillEnd, MarkPresent, TypeOK
    <3> QED BY Zenon, <3>1, <3>2, <2>1, <2>2
  <2>5. CASE FillFail(f)
    <3> DEFINE fs == [fill EXCEPT ![f] = NoTask]
    <3>1. fs \in FillType /\ \A x \in Fills : fs[x] \in {fill[x], NoTask}
      BY Zenon, <2>f DEF FillType
    <3>2. Remove(t.v, fs, writer)
      BY ZenonT(60), <2>5 DEF FillFail
    <3> HIDE DEF fs
    <3> QED BY Zenon, <3>1, <3>2, <2>t, RemoveSettles, TypeTasks
  <2> QED BY Zenon, <1>3, <2>3, <2>4, <2>5 DEF FillStep
<1> QED BY ZenonT(60), <1>1, <1>2, <1>3 DEF RefuseReserve, RefuseFill, Refused

\* The sweep only detaches tasks.
LEMMA SweepSettles ==
    ASSUME TypeOK, Attached, NEW stale \in SUBSET entries, NEW cut \in SUBSET entries,
           NEW E \in SUBSET entries, Sweep(stale, cut, E)
    PROVE  Settles
<1>1. PICK D \in SUBSET entries : Swept(D, stale)
  BY Zenon, SweepKeeps
<1>2. /\ Detach(D, fill, writer, reader) /\ writing' = writing
      /\ \A v \in entries \ D : present'[v] = present[v]
  BY Zenon, <1>1 DEF Swept
<1>3. ASSUME NEW f \in Fills, Live(fill'[f])
      PROVE  fill'[f] = fill[f] /\ Live(fill[f]) /\ fill[f].v \in entries \ D
  <2>1. fill'[f] = Orphan(fill[f], D) /\ fill[f] \in FillTask \cup {NoTask}
    BY ZenonT(60), <1>2 DEF Detach, TypeOK
  <2>2. fill'[f] = fill[f] /\ Live(fill[f]) /\ fill[f].v \notin D
    BY SMTT(60), Z3T(60), <1>3, <2>1, OrphanLive
  <2> QED BY Zenon, <2>2 DEF Attached, FillAttached
<1>4. ASSUME NEW w \in Writers, Live(writer'[w])
      PROVE  writer'[w] = writer[w] /\ Live(writer[w])
  <2>1. writer'[w] = Orphan(writer[w], D) /\ writer[w] \in WriterTask \cup {NoTask}
    BY Zenon, <1>2 DEF Detach, TypeOK
  <2> QED BY ZenonT(60), <1>4, <2>1, OrphanLive
<1> QED BY Zenon, <1>2, <1>3, <1>4 DEF Settles

\* Readers, pins and the restart begin no fill and no writer.
LEMMA OtherSettles ==
    ASSUME TypeOK, Attached,
           \/ \E r \in Readers :
                 \/ \E v \in Versions : \E bs \in SUBSET Blocks(v) : ReadBegin(r, v, bs)
                 \/ ReadError(r) \/ ReadStop(r)
                 \/ \E b \in reader[r].todo : ReadChunk(r, b)
           \/ \E v \in Versions : Release(v) \/ Forget(v) \/ UploadUncached(v) \/ Distribute(v)
           \/ EvictUnpinned
           \/ \E order \in SUBSET (Versions \X Versions) : Restart(order)
           \/ \E v \in Versions, E \in SUBSET entries, role \in {"save", "stage", "fill"} :
                 RefuseStaging(v, role, E)
           \/ UNCHANGED vars
    PROVE  Settles
<1>1. ASSUME NEW v \in Versions, Release(v) PROVE Settles
  <2> DEFINE D == IF KeepForReads THEN {} ELSE {v}
  <2>1. Register(D, {}, FALSE) /\ Detach(D, fill, writer, reader) /\ D \in SUBSET Versions
    BY Zenon, <1>1 DEF Release, Drop
  <2> HIDE DEF D
  <2> QED BY Zenon, <2>1, EvictSettles
<1>2. ASSUME NEW v \in Versions, Forget(v) PROVE Settles
  <2>1. Remove(v, fill, writer)
    BY <1>2 DEF Forget
  <2> QED BY ZenonT(60), <2>1, RemoveSettles, TypeTasks
<1>3. CASE EvictUnpinned
  <2> DEFINE D == EvictableWith(pins)
  <2>1. Register(D, {}, FALSE) /\ Detach(D, fill, writer, reader) /\ D \in SUBSET Versions
    BY Zenon, <1>3 DEF EvictUnpinned, Drop, EvictableWith, TypeOK
  <2> HIDE DEF D
  <2> QED BY Zenon, <2>1, EvictSettles
<1>4. ASSUME UNCHANGED <<present, writing, fill, writer>> PROVE Settles
  BY ZenonT(60), <1>4 DEF Settles
<1>5. ASSUME NEW order, Restart(order) PROVE Settles
  <2>1. fill' = [f \in Fills |-> NoTask] /\ writer' = [w \in Writers |-> NoTask]
    BY Zenon, <1>5 DEF Restart
  <2> QED BY <2>1 DEF Settles, Live
<1>6. ASSUME NEW v \in Versions, NEW E \in SUBSET entries, NEW role, RefuseStaging(v, role, E)
      PROVE  Settles
  <2>1. Register(E, {}, FALSE) /\ Detach(E, fill, writer, reader) /\ E \in SUBSET Versions
    BY Zenon, <1>6 DEF RefuseStaging, Refused, Drop, TypeOK
  <2> QED BY Zenon, <2>1, EvictSettles
<1>7. ASSUME \/ \E r \in Readers :
                   \/ \E v \in Versions : \E bs \in SUBSET Blocks(v) : ReadBegin(r, v, bs)
                   \/ ReadError(r) \/ ReadStop(r)
                   \/ \E b \in reader[r].todo : ReadChunk(r, b)
             \/ \E v \in Versions : UploadUncached(v) \/ Distribute(v)
             \/ UNCHANGED vars
      PROVE  UNCHANGED <<present, writing, fill, writer>>
  BY ZenonT(60), <1>7 DEF ReadBegin, ReadError, ReadStop, ReadChunk, UploadUncached, Distribute, vars, tasks
<1> QED BY Zenon, <1>1, <1>2, <1>3, <1>4, <1>5, <1>6, <1>7

\* The two steps that start a task.
LEMMA LedgerOpen ==
    ASSUME TypeOK, Attached, Ledger, NEW w \in Writers, NEW v \in Versions,
           NEW E \in SUBSET entries, NEW role \in {"save", "stage", "fill"},
           OpenStaging(w, v, role, E)
    PROVE  Ledger'
<1> DEFINE t == [st |-> "open", v |-> v, role |-> role, off |-> 0, fd |-> FALSE, own |-> TRUE]
           ws == [writer EXCEPT ![w] = t]
<1>1. ws \in WriterType /\ fill \in FillType
  BY Zenon, TypeTasks DEF WriterType, WriterTask
<1>2. /\ Register(E, {v}, TRUE) /\ Detach(E, fill, ws, reader)
      /\ {v} \cap entries = {} /\ {v} \in SUBSET Versions /\ E \in SUBSET Versions
  BY Zenon DEF OpenStaging, MayStage, TypeOK
<1>3. /\ \A x \in entries \ E : /\ present'[x] = present[x] /\ data'[x] = data[x]
                                /\ map'[x] = map[x] /\ writing'[x] = writing[x]
                                /\ x \in files => x \in files'
      /\ \A x \in {v} : /\ present'[x] = {} /\ data'[x] = {} /\ map'[x] = {}
                        /\ writing'[x] = TRUE /\ x \in files'
  BY Zenon, <1>2, RegisterKeeps
<1>4. ASSUME NEW f \in Fills, Live(fill'[f]) PROVE FillLedger(fill[f])'
  <2>1. fill'[f] = Orphan(fill[f], E) /\ fill[f] \in FillTask \cup {NoTask}
    BY Zenon, <1>1, <1>2 DEF Detach, FillType
  <2>2. fill'[f] = fill[f] /\ Live(fill[f]) /\ fill[f].v \notin E
    BY SMTT(60), Z3T(60), <1>4, <2>1, OrphanLive
  <2>3. fill[f].v \in entries \ E /\ FillLedger(fill[f])
    BY Zenon, <2>2 DEF Attached, FillAttached, Ledger
  <2> QED BY ZenonT(60), <2>2, <2>3, <1>3 DEF FillLedger, PresentBytes, BlockBytes, Bytes, BlockOf
<1>5. ASSUME NEW x \in Writers, Live(writer'[x])
      PROVE  \/ x = w /\ writer'[x].v = v
             \/ /\ x # w /\ writer'[x] = writer[x] /\ Live(writer[x])
                /\ writer[x].v \in entries \ E
  <2>1. writer'[x] = Orphan(ws[x], E) /\ ws[x] \in WriterTask \cup {NoTask}
    BY ZenonT(60), <1>1, <1>2 DEF Detach, WriterType
  <2> HIDE DEF ws
  <2>2. writer'[x] = ws[x] /\ Live(ws[x]) /\ ws[x].v \notin E
    BY SMTT(60), Z3T(60), <1>5, <2>1, OrphanLive
  <2> USE DEF ws
  <2>3. CASE x = w
    BY SMTT(60), Z3T(60), <2>2, <2>3, TypeTasks DEF WriterType
  <2>4. CASE x # w
    <3>1. ws[x] = writer[x]
      BY Zenon, <2>4, TypeTasks DEF WriterType
    <3> QED BY Zenon, <2>2, <2>4, <3>1 DEF Attached, WriterAttached
  <2> QED BY Zenon, <2>3, <2>4
<1>6. v \notin entries
  BY ZenonT(60), <1>2
<1>7. \A x \in Writers : Live(writer'[x]) => writing'[writer'[x].v]
  BY Zenon, <1>3, <1>5 DEF Ledger
<1>8. \A x, y \in Writers : Live(writer'[x]) /\ Live(writer'[y])
                              /\ writer'[x].v = writer'[y].v => x = y
  <2> SUFFICES ASSUME NEW x \in Writers, NEW y \in Writers, Live(writer'[x]), Live(writer'[y]),
                      writer'[x].v = writer'[y].v
               PROVE  x = y
    BY Zenon
  <2>1. CASE x = w \/ y = w
    BY Zenon, <1>5, <1>6, <2>1
  <2>2. CASE x # w /\ y # w
    <3>1. Live(writer[x]) /\ Live(writer[y]) /\ writer[x].v = writer[y].v
      BY Zenon, <1>5, <2>2
    <3> QED BY Zenon, <3>1 DEF Ledger
  <2> QED BY Zenon, <2>1, <2>2
<1> QED BY Zenon, <1>4, <1>7, <1>8 DEF Ledger, FillLedger, Live

\* A new fill enters the ledger with the claim that write_blocks makes.
LEMMA LedgerBegin ==
    ASSUME TypeOK, Attached, Ledger, NEW f \in Fills, NEW v \in Versions,
           NEW b \in Blocks(v), NEW E \in SUBSET entries, FillBegin(f, v, b, E)
    PROVE  Ledger'
<1> DEFINE t == [st |-> "begun", v |-> v, b |-> b, claim |-> Added(v, b), own |-> TRUE]
           fs == [fill EXCEPT ![f] = t]
<1>1. fs \in FillType /\ writer \in WriterType
  <2>1. b \in Nat /\ Added(v, b) \in SUBSET Nat
    BY Zenon, BlocksNat DEF Added
  <2> QED BY Zenon, <2>1, TypeTasks DEF FillType, FillTask
<1>2. /\ Register(E, {}, FALSE) /\ Detach(E, fs, writer, reader)
      /\ v \in entries /\ ~writing[v] /\ E \in SUBSET Versions
  BY Zenon DEF FillBegin, Drop, MayFill, TypeOK
<1>3. v \notin E
  BY Zenon DEF FillBegin, MakeRoom, Oldest
<1>4. \A x \in entries \ E : /\ present'[x] = present[x] /\ data'[x] = data[x]
                             /\ map'[x] = map[x] /\ writing'[x] = writing[x]
                             /\ x \in files => x \in files'
  BY Zenon, <1>2, DropKeeps
<1>5. FillLedger(t)
  BY Zenon, <1>2 DEF FillLedger, Live, Added, BlockBytes, PresentBytes
<1>6. ASSUME NEW x \in Fills, Live(fill'[x]) PROVE FillLedger(fill[x])'
  <2>1. fill'[x] = Orphan(fs[x], E) /\ fs[x] \in FillTask \cup {NoTask}
    BY Zenon, <1>1, <1>2 DEF Detach, FillType
  <2> HIDE DEF fs
  <2>2. fill'[x] = fs[x] /\ Live(fs[x]) /\ fs[x].v \notin E
    <3>1. Live(Orphan(fs[x], E)) /\ fs[x] \in FillTask \cup WriterTask \cup ReaderTask \cup {NoTask}
      BY Zenon, <1>6, <2>1
    <3>2. Orphan(fs[x], E) = fs[x] /\ Live(fs[x]) /\ fs[x].v \notin E
      BY Zenon, <3>1, OrphanLive
    <3> QED BY ZenonT(60), <2>1, <3>2
  <2> USE DEF fs
  <2>3. fs[x].v \in entries /\ FillLedger(fs[x])
    <3>1. CASE x = f
      <4>1. fs[x] = t
        BY ZenonT(60), <3>1, TypeTasks DEF FillType
      <4> QED BY SMTT(60), Z3T(60), <4>1, <1>2, <1>5
    <3>2. CASE x # f
      <4>1. fs[x] = fill[x]
        BY Zenon, <3>2, TypeTasks DEF FillType
      <4> QED BY Zenon, <4>1, <2>2 DEF Attached, FillAttached, Ledger
    <3> QED BY ZenonT(60), <3>1, <3>2
  <2> HIDE DEF fs
  <2> QED BY ZenonT(60), <2>2, <2>3, <1>4 DEF FillLedger, PresentBytes, BlockBytes, Bytes, BlockOf
<1>7. ASSUME NEW x \in Writers, Live(writer'[x])
      PROVE  writer'[x] = writer[x] /\ Live(writer[x]) /\ writer[x].v \in entries \ E
  <2>1. writer'[x] = Orphan(writer[x], E) /\ writer[x] \in WriterTask \cup {NoTask}
    BY ZenonT(60), <1>1, <1>2 DEF Detach, WriterType
  <2>2. writer'[x] = writer[x] /\ Live(writer[x]) /\ writer[x].v \notin E
    BY SMTT(60), Z3T(60), <1>7, <2>1, OrphanLive
  <2> QED BY Zenon, <2>2 DEF Attached, WriterAttached
<1>8. /\ \A x \in Writers : Live(writer'[x]) => writing'[writer'[x].v]
      /\ \A x, y \in Writers : Live(writer'[x]) /\ Live(writer'[y])
                                 /\ writer'[x].v = writer'[y].v => x = y
  BY ZenonT(60), <1>4, <1>7 DEF Ledger
<1> QED BY Zenon, <1>6, <1>8 DEF Ledger, FillLedger, Live

\* Every step keeps the ledger.
LEMMA LedgerStep == TypeOK /\ Attached /\ Ledger /\ [Next]_vars => Ledger'
<1> SUFFICES ASSUME TypeOK, Attached, Ledger, [Next]_vars PROVE Ledger'
  BY Zenon
<1>b. \A v \in Versions : Blocks(v) \subseteq Nat
  BY Zenon, BlocksNat
<1> QED BY Zenon, <1>b, LedgerOpen, LedgerBegin, LedgerSettles, WriterSettles, FillSettles,
           SweepSettles, OtherSettles DEF Next

\* In every reachable state the claim of a fill covers all of its block that is
\* not present yet, and a staged entry has at most one live writer.
THEOREM LedgerKept == Spec => []Ledger
<1>1. Init => Ledger
  BY ZenonT(60) DEF Init, Ledger, FillLedger, Live
<1> QED BY <1>1, LedgerStep, TypeCorrect, TasksAttached, PTL DEF Spec

-----------------------------------------------------------------------------
(* The index and the map files follow the state in memory.                 *)

Journal ==
    /\ \A v \in entries : /\ map[v] \subseteq present[v]
                          /\ "map" \notin Faults => map[v] = present[v]
    /\ "unlink" \notin Faults => files \subseteq entries
    /\ "index" \notin Faults => index = Snapshot

MapKept == \A v \in entries : /\ map[v] \subseteq present[v]
                              /\ "map" \notin Faults => map[v] = present[v]
FilesKept == "unlink" \notin Faults => files \subseteq entries

\* Every step that changes what the index records saves it.
IndexFollows == SaveIndex \/ UNCHANGED <<entries, writing, pins, index>>

\* A step that rewrites the index, or changes nothing in it, keeps it current.
LEMMA IndexSaved ==
    ASSUME "index" \notin Faults => index = Snapshot, IndexFollows
    PROVE  ("index" \notin Faults => index = Snapshot)'
BY Zenon DEF IndexFollows, SaveIndex, Snapshot

\* Registering and dropping entries keeps maps and files in line with them.
LEMMA RegisterJournal ==
    ASSUME TypeOK, MapKept, FilesKept, NEW D \in SUBSET Versions, NEW N \in SUBSET Versions,
           NEW wr \in BOOLEAN, N \cap entries = {}, Register(D, N, wr)
    PROVE  MapKept' /\ FilesKept'
<1>1. /\ entries' = (entries \ D) \cup N
      /\ \A v \in entries \ D : /\ present'[v] = present[v] /\ data'[v] = data[v]
                                /\ map'[v] = map[v] /\ writing'[v] = writing[v]
                                /\ v \in files => v \in files'
      /\ \A v \in N : /\ present'[v] = {} /\ data'[v] = {} /\ map'[v] = {}
                      /\ writing'[v] = wr /\ v \in files'
      /\ \A v \in Versions : map'[v] = {} \/ (map'[v] = map[v] /\ data'[v] = data[v])
  BY Zenon, RegisterKeeps
<1>2. "unlink" \notin Faults => files' = (files \ D) \cup N
  BY Zenon DEF Register, Unlinks
<1>3. MapKept'
  BY ZenonT(60), <1>1 DEF MapKept
<1>4. FilesKept'
  BY Zenon, <1>1, <1>2 DEF FilesKept
<1> QED BY Zenon, <1>3, <1>4

\* Registering nothing and dropping nothing changes no entry.
LEMMA NothingDropped ==
    ASSUME TypeOK, Register({}, {}, FALSE), pins' = Reset(pins, {}, 0)
    PROVE  UNCHANGED <<entries, writing, pins>>
<1>1. entries' = entries /\ writing' = Reset(Reset(writing, {}, FALSE), {}, FALSE)
  BY Zenon DEF Register
<1>2. writing' = writing /\ pins' = pins
  BY Zenon, <1>1 DEF Reset, TypeOK
<1> QED BY Zenon, <1>1, <1>2

\* remove keeps maps and files in line and rewrites the index.
LEMMA RemoveJournal ==
    ASSUME TypeOK, MapKept, FilesKept, NEW v \in Versions, NEW fs, NEW ws, Remove(v, fs, ws)
    PROVE  MapKept' /\ FilesKept' /\ IndexFollows
<1> DEFINE D == {v} \cap entries
<1>1. /\ Register(D, {}, FALSE) /\ pins' = Reset(pins, D, 0) /\ SaveIndexIf(D # {})
      /\ D \in SUBSET Versions
  BY Zenon DEF Remove, Drop
<1> HIDE DEF D
<1>2. MapKept' /\ FilesKept'
  BY Zenon, <1>1, RegisterJournal
<1>3. ASSUME D = {} PROVE IndexFollows
  <2>1. Register({}, {}, FALSE) /\ pins' = Reset(pins, {}, 0) /\ UNCHANGED index
    BY Zenon, <1>1, <1>3 DEF SaveIndexIf
  <2> QED BY Zenon, <2>1, NothingDropped DEF IndexFollows
<1>4. ASSUME D # {} PROVE IndexFollows
  BY Zenon, <1>1, <1>4 DEF SaveIndexIf, IndexFollows
<1> QED BY Zenon, <1>2, <1>3, <1>4

\* A map file written for new blocks names no block the entry lacks.
LEMMA MarkJournal ==
    ASSUME TypeOK, MapKept, NEW t \in FillTask \cup WriterTask, NEW bs \in SUBSET Nat,
           MarkPresent(t, bs), UNCHANGED entries
    PROVE  MapKept'
<1>t. t.v \in Versions /\ t.own \in BOOLEAN
  BY Zenon DEF FillTask, WriterTask
<1>1. CASE t.own
  <2> SUFFICES ASSUME NEW v \in entries
               PROVE  /\ map'[v] \subseteq present'[v]
                      /\ "map" \notin Faults => map'[v] = present'[v]
    BY Zenon DEF MapKept
  <2>1. /\ present' = [present EXCEPT ![t.v] = @ \cup bs]
        /\ \/ map' = [map EXCEPT ![t.v] = @ \cup (bs \ present[t.v])]
           \/ "map" \in Faults /\ map' = map
    BY Zenon, <1>1 DEF MarkPresent
  <2>2. map[v] \subseteq present[v] /\ ("map" \notin Faults => map[v] = present[v])
        /\ v \in Versions
    BY Zenon DEF MapKept, TypeOK
  <2>3. present \in [Versions -> SUBSET Nat] /\ map \in [Versions -> SUBSET Nat]
    BY Zenon DEF TypeOK
  <2>4. CASE v = t.v
    BY ZenonT(60), <2>1, <2>2, <2>3, <2>4
  <2>5. CASE v # t.v
    BY Zenon, <2>1, <2>2, <2>3, <2>5, <1>t
  <2> QED BY Zenon, <2>4, <2>5
<1>2. CASE ~t.own
  <2>1. present' = present /\ map' = map
    BY Zenon, <1>2 DEF MarkPresent
  <2> QED BY Zenon, <2>1 DEF MapKept
<1> QED BY Zenon, <1>1, <1>2, <1>t

\* Every step keeps the journal.
LEMMA JournalStep == TypeOK /\ Journal /\ [Next]_vars => Journal'
<1> SUFFICES ASSUME TypeOK, Journal, [Next]_vars PROVE Journal'
  BY Zenon
<1>j. MapKept /\ FilesKept /\ ("index" \notin Faults => index = Snapshot)
  BY Zenon DEF Journal, MapKept, FilesKept
<1>e. entries \subseteq Versions
  BY ZenonT(60) DEF TypeOK
<1> DEFINE Done == MapKept' /\ FilesKept' /\ IndexFollows
<1>d. ASSUME Done PROVE Journal'
  <2>1. ("index" \notin Faults => index = Snapshot)'
    BY Zenon, <1>d, <1>j, IndexSaved
  <2> QED BY Zenon, <1>d, <2>1 DEF Journal, MapKept, FilesKept
<1>1. ASSUME NEW D \in SUBSET Versions, NEW N \in SUBSET Versions, N \cap entries = {},
             NEW wr \in BOOLEAN, Register(D, N, wr), SaveIndex
      PROVE  Done
  BY Zenon, <1>1, <1>j, RegisterJournal DEF IndexFollows
<1>2. ASSUME NEW v \in Versions, NEW E \in SUBSET entries, NEW w \in Writers,
             NEW role \in {"save", "stage", "fill"}, OpenStaging(w, v, role, E)
      PROVE  Done
  <2>1. /\ Register(E, {v}, TRUE) /\ SaveIndex
        /\ {v} \cap entries = {} /\ {v} \in SUBSET Versions /\ E \in SUBSET Versions
    BY Zenon, <1>2, <1>e DEF OpenStaging, MayStage
  <2> QED BY Zenon, <1>1, <2>1
<1>3. ASSUME NEW D \in SUBSET Versions, Drop(D), SaveIndex
      PROVE  Done
  BY Zenon, <1>1, <1>3 DEF Drop
<1>4. ASSUME NEW v \in Versions, NEW E \in SUBSET entries, Reserve(v, E) PROVE Done
  <2>1. /\ Register(E, {v}, FALSE) /\ SaveIndex
        /\ {v} \cap entries = {} /\ {v} \in SUBSET Versions /\ E \in SUBSET Versions
    BY Zenon, <1>4, <1>e DEF Reserve
  <2> QED BY Zenon, <1>1, <2>1
<1>5. ASSUME NEW v \in Versions, NEW E \in SUBSET entries, NEW b \in Blocks(v),
             NEW f \in Fills, FillBegin(f, v, b, E)
      PROVE  Done
  <2>1. /\ Drop(E) /\ pins' = Reset(pins, E, 0) /\ SaveIndexIf(E # {}) /\ E \in SUBSET Versions
    BY ZenonT(60), <1>5, <1>e DEF FillBegin
  <2>2. CASE E = {}
    <3>1. Register({}, {}, FALSE) /\ pins' = Reset(pins, {}, 0) /\ UNCHANGED index
      BY Zenon, <2>1, <2>2 DEF Drop, SaveIndexIf
    <3>2. MapKept' /\ FilesKept'
      BY Zenon, <2>1, <1>j, RegisterJournal DEF Drop
    <3> QED BY Zenon, <3>1, <3>2, NothingDropped DEF IndexFollows
  <2>3. CASE E # {}
    BY Zenon, <2>1, <2>3, <1>3 DEF SaveIndexIf
  <2> QED BY Zenon, <2>2, <2>3
<1>6. ASSUME UNCHANGED <<entries, present, files, map, writing, pins, index>>
      PROVE  Done
  BY Zenon, <1>6, <1>j DEF MapKept, FilesKept, IndexFollows
<1>7. ASSUME NEW w \in Writers, writer[w] # NoTask, WriterStep(w) PROVE Done
  <2>t. writer[w] \in WriterTask /\ writer[w].v \in Versions
    BY Zenon, <1>7 DEF TypeOK, WriterTask
  <2>b. Whole(writer[w].v, writer[w].off) \in SUBSET Nat
    BY Zenon, <2>t, BlocksNat
  <2>1. CASE WriterMark(w)
    <3>1. MapKept'
      BY ZenonT(60), <2>1, <2>t, <2>b, <1>j, MarkJournal DEF WriterMark
    <3> QED BY Zenon, <2>1, <3>1, <1>j DEF WriterMark, FilesKept, IndexFollows
  <2>2. CASE WriterFinish(w)
    BY Zenon, <2>2, <1>j DEF WriterFinish, MapKept, FilesKept, IndexFollows
  <2>3. CASE WriterAbort(w)
    BY Zenon, <2>3, <2>t, <1>j, RemoveJournal DEF WriterAbort
  <2>4. ASSUME (\E n \in 1 .. Size[writer[w].v] : WriterPwrite(w, n)) \/ WriterError(w)
               \/ WriterCloseEmpty(w) \/ WriterGiveUp(w)
        PROVE  UNCHANGED <<entries, present, files, map, writing, pins, index>>
    BY Zenon, <2>4 DEF WriterPwrite, WriterError, WriterCloseEmpty, WriterGiveUp, disk
  <2> QED BY ZenonT(60), <1>6, <1>7, <2>1, <2>2, <2>3, <2>4 DEF WriterStep
<1>8. ASSUME NEW f \in Fills, FillStep(f) \/ FillCancel(f) PROVE Done
  <2>t. fill[f] \in FillTask /\ fill[f].v \in Versions /\ {fill[f].b} \in SUBSET Nat
    <3>1. fill[f] # NoTask
      BY Zenon, <1>8 DEF FillStep, FillPwrite, FillError, FillEnd, FillFail, FillCancel
    <3> QED BY ZenonT(60), <3>1 DEF TypeOK, FillTask
  <2>1. CASE FillEnd(f)
    <3>1. MapKept'
      BY ZenonT(60), <2>1, <2>t, <1>j, MarkJournal DEF FillEnd
    <3> QED BY Zenon, <2>1, <3>1, <1>j DEF FillEnd, FilesKept, IndexFollows
  <2>2. CASE FillFail(f)
    BY Zenon, <2>2, <2>t, <1>j, RemoveJournal DEF FillFail
  <2>3. ASSUME FillPwrite(f) \/ FillError(f) \/ FillCancel(f)
        PROVE  UNCHANGED <<entries, present, files, map, writing, pins, index>>
    BY Zenon, <2>3 DEF FillPwrite, FillError, FillCancel, disk
  <2> QED BY Zenon, <1>6, <1>8, <2>1, <2>2, <2>3 DEF FillStep
<1>9. ASSUME NEW stale \in SUBSET entries, NEW cut \in SUBSET entries,
             NEW E \in SUBSET entries, Sweep(stale, cut, E)
      PROVE  Done
  <2>1. PICK D \in SUBSET entries : Swept(D, stale)
    BY Zenon, <1>9, SweepKeeps
  <2>2. SaveIndex
    BY Zenon, <1>9 DEF Sweep
  <2>3. MapKept'
    BY Zenon, <2>1, <1>j DEF Swept, MapKept
  <2>4. FilesKept'
    BY Zenon, <2>1, <1>j DEF Swept, FilesKept
  <2> QED BY Zenon, <2>2, <2>3, <2>4 DEF IndexFollows
<1>10. ASSUME NEW order, Restart(order) PROVE Done
  <2> DEFINE kept == {v \in Versions : index[v] \in {"pinned", "free"} /\ v \in files}
  <2>1. /\ entries' = kept /\ SaveIndex
        /\ present' = [v \in Versions |-> IF v \in kept THEN map[v] ELSE {}]
    BY Zenon, <1>10 DEF Restart
  <2>2. PICK gone \in Unlinks(files \ kept) :
          files' = files \ gone /\ map' = Reset(map, gone, {})
    BY Zenon, <1>10 DEF Restart
  <2>3. gone \cap kept = {} /\ kept \subseteq Versions
    BY Zenon DEF Unlinks
  <2>4. "unlink" \notin Faults => gone = files \ kept
    BY Zenon DEF Unlinks
  <2> HIDE DEF kept
  <2>5. MapKept'
    BY ZenonT(60), <2>1, <2>2, <2>3 DEF MapKept, Reset
  <2>6. FilesKept'
    BY Zenon, <2>1, <2>2, <2>4 DEF FilesKept
  <2> QED BY Zenon, <2>1, <2>5, <2>6 DEF IndexFollows
<1>11. ASSUME NEW v \in Versions, Release(v) PROVE Done
  <2> DEFINE D == IF KeepForReads THEN {} ELSE {v}
  <2>1. Drop(D) /\ SaveIndex /\ D \in SUBSET Versions
    BY Zenon, <1>11 DEF Release
  <2> HIDE DEF D
  <2> QED BY Zenon, <2>1, <1>3
<1>12. ASSUME NEW v \in Versions, Forget(v) PROVE Done
  BY Zenon, <1>12, <1>j, RemoveJournal DEF Forget
<1>13. ASSUME EvictUnpinned PROVE Done
  <2> DEFINE D == EvictableWith(pins)
  <2>1. Drop(D) /\ SaveIndex /\ D \in SUBSET Versions
    BY ZenonT(60), <1>13 DEF EvictUnpinned, EvictableWith, TypeOK
  <2> HIDE DEF D
  <2> QED BY Zenon, <2>1, <1>3
<1>14. ASSUME \/ \E r \in Readers, v \in Versions : \E bs \in SUBSET Blocks(v) : ReadBegin(r, v, bs)
              \/ \E r \in Readers : ReadError(r) \/ ReadStop(r)
              \/ \E r \in Readers : reader[r] # NoTask /\ \E b \in reader[r].todo : ReadChunk(r, b)
              \/ \E v \in Versions : UploadUncached(v) \/ Distribute(v)
              \/ UNCHANGED vars
       PROVE  UNCHANGED <<entries, present, files, map, writing, pins, index>>
  BY Zenon, <1>14 DEF ReadBegin, ReadError, ReadStop, ReadChunk, UploadUncached, Distribute,
               vars, disk
<1>15. ASSUME \/ \E v \in Versions, E \in SUBSET entries, role \in {"save", "stage", "fill"} :
                    RefuseStaging(v, role, E)
              \/ \E v \in Versions, E \in SUBSET entries : RefuseReserve(v, E)
              \/ \E v \in Versions, E \in SUBSET entries : \E b \in Blocks(v) :
                    RefuseFill(v, b, E)
       PROVE  \E E \in SUBSET Versions : Drop(E) /\ SaveIndex
  BY Zenon, <1>15, <1>e DEF RefuseStaging, RefuseReserve, RefuseFill, Refused
<1> HIDE DEF Done
<1>16. Done
  <2>1. CASE UNCHANGED vars
    BY Zenon, <2>1, <1>6, <1>14
  <2>2. CASE \E v \in Versions, E \in SUBSET entries, role \in {"save", "stage", "fill"} :
                 \/ \E w \in Writers : OpenStaging(w, v, role, E)
                 \/ RefuseStaging(v, role, E)
    BY ZenonT(60), <2>2, <1>2, <1>3, <1>15
  <2>3. CASE \/ \E v \in Versions, E \in SUBSET entries : Reserve(v, E) \/ RefuseReserve(v, E)
             \/ \E v \in Versions, E \in SUBSET entries : \E b \in Blocks(v) :
                   \/ \E f \in Fills : FillBegin(f, v, b, E)
                   \/ RefuseFill(v, b, E)
    BY Zenon, <2>3, <1>3, <1>4, <1>5, <1>15
  <2>4. CASE \/ \E r \in Readers, v \in Versions : \E bs \in SUBSET Blocks(v) : ReadBegin(r, v, bs)
             \/ \E r \in Readers : ReadError(r) \/ ReadStop(r)
             \/ \E r \in Readers : reader[r] # NoTask /\ \E b \in reader[r].todo : ReadChunk(r, b)
    BY ZenonT(60), <2>4, <1>6, <1>14
  <2>5. CASE \E v \in Versions : Release(v) \/ Forget(v) \/ UploadUncached(v) \/ Distribute(v)
    BY Zenon, <2>5, <1>6, <1>11, <1>12, <1>14
  <2>6. CASE \E stale, cut, E \in SUBSET entries : Sweep(stale, cut, E)
    BY Zenon, <2>6, <1>9
  <2>7. CASE \E order \in SUBSET (Versions \X Versions) : Restart(order)
    BY Zenon, <2>7, <1>10
  <2>8. CASE \/ \E w \in Writers : writer[w] # NoTask /\ WriterStep(w)
             \/ \E f \in Fills : FillStep(f) \/ FillCancel(f)
    BY Zenon, <2>8, <1>7, <1>8
  <2> QED BY ZenonT(60), <2>1, <2>2, <2>3, <2>4, <2>5, <2>6, <2>7, <2>8, <1>13 DEF Next
<1> QED BY Zenon, <1>16, <1>d

\* The index file mirrors the entries after every step, the map files never
\* run ahead of them and no data file is left over, each unless the disk
\* operation behind it fails.
THEOREM JournalKept == Spec => []Journal
<1>1. Init => Journal
  BY ZenonT(60) DEF Init, Journal, Snapshot
<1> QED BY <1>1, JournalStep, TypeCorrect, PTL DEF Spec

-----------------------------------------------------------------------------
(* Uploads.                                                                *)

Uploads ==
    /\ \A f \in Fills : fill[f] # NoTask => fate[fill[f].v] \in {"stored", "gone"}
    /\ \A w \in Writers : writer[w] # NoTask =>
          IF writer[w].role = "fill" THEN fate[writer[w].v] \in {"stored", "gone"}
          ELSE /\ fate[writer[w].v] = "staging" /\ writer[w].own
               /\ pins[writer[w].v] > 0
    /\ \A v \in Versions : fate[v] = "pending" /\ Size[v] # 0 => Complete(v) /\ pins[v] > 0

\* A version, not empty, that only the cache has, or one that is being
\* uploaded into it.
Held(v) == \/ fate[v] = "pending" /\ Size[v] # 0
           \/ \E w \in Writers : /\ writer[w] # NoTask /\ writer[w].v = v
                                 /\ writer[w].role # "fill"

\* What Uploads says of one writer, in the two cases of its role.
LEMMA UploadOf ==
    ASSUME Uploads, NEW w \in Writers, writer[w] # NoTask
    PROVE  /\ writer[w].role = "fill" => fate[writer[w].v] \in {"stored", "gone"}
           /\ writer[w].role # "fill" => /\ fate[writer[w].v] = "staging" /\ writer[w].own
                                         /\ pins[writer[w].v] > 0
BY Zenon DEF Uploads

\* What Uploads says of one fill.
LEMMA UploadFill ==
    ASSUME Uploads, NEW f \in Fills, fill[f] # NoTask
    PROVE  fate[fill[f].v] \in {"stored", "gone"}
BY Zenon DEF Uploads

\* What Uploads says of a version only the cache has.
LEMMA UploadPending ==
    ASSUME Uploads, NEW v \in Versions, fate[v] = "pending", Size[v] # 0
    PROVE  Complete(v) /\ pins[v] > 0
BY ZenonT(60) DEF Uploads

\* An upload that is held is pinned and is being staged or waits.
LEMMA HeldPinned ==
    ASSUME TypeOK, Uploads, NEW v \in Versions, Held(v)
    PROVE  pins[v] > 0 /\ pins[v] # 0 /\ fate[v] \in {"pending", "staging"}
<1>1. pins[v] > 0 /\ fate[v] \in {"pending", "staging"}
  BY Zenon, UploadOf, UploadPending DEF Held
<1> QED BY SMTT(60), Z3T(60), <1>1 DEF TypeOK

\* How a step that starts no task and ends no upload may change the fates.
Onward == \A v \in Versions :
    \/ fate'[v] = fate[v]
    \/ fate[v] = "new" /\ fate'[v] = "stored"
    \/ fate[v] \in {"stored", "pending"} /\ fate'[v] \in {"stored", "gone"}
    \/ fate[v] = "pending" /\ fate'[v] = "lost"

\* A step that leaves the held versions and the uploads alone.
Steady ==
    /\ \A f \in Fills : fill'[f] # NoTask => fill[f] # NoTask /\ fill'[f].v = fill[f].v
    /\ \A w \in Writers : writer'[w] # NoTask =>
          /\ writer[w] # NoTask /\ writer'[w].v = writer[w].v
          /\ writer'[w].role = writer[w].role
          /\ writer[w].role # "fill" => writer'[w].own = writer[w].own
    /\ \A v \in Versions : Held(v) /\ fate'[v] = fate[v] =>
          /\ pins'[v] = pins[v]
          /\ v \in entries => /\ v \in entries' /\ writing'[v] = writing[v]
                              /\ present[v] \subseteq present'[v]
    /\ Onward

\* What Steady says of one held version.
LEMMA SteadyHeld ==
    ASSUME Steady, NEW v \in Versions, Held(v), fate'[v] = fate[v]
    PROVE  /\ pins'[v] = pins[v]
           /\ v \in entries => /\ v \in entries' /\ writing'[v] = writing[v]
                               /\ present[v] \subseteq present'[v]
BY Zenon DEF Steady

\* A step that takes neither pins nor blocks from held uploads keeps them.
LEMMA SteadyUploads ==
    ASSUME TypeOK, Uploads, Steady
    PROVE  Uploads'
<1>1. \A f \in Fills : fill[f] # NoTask => fill[f].v \in Versions
  BY Zenon DEF TypeOK, FillTask
<1>2. \A w \in Writers : writer[w] # NoTask => writer[w].v \in Versions
  BY Zenon DEF TypeOK, WriterTask
<1>3. ASSUME NEW f \in Fills, fill'[f] # NoTask PROVE fate'[fill'[f].v] \in {"stored", "gone"}
  <2>1. /\ fill[f] # NoTask /\ fill'[f].v = fill[f].v /\ fill[f].v \in Versions
        /\ fate[fill[f].v] \in {"stored", "gone"}
    <3>1. fill[f] # NoTask /\ fill'[f].v = fill[f].v
      BY Zenon, <1>3 DEF Steady
    <3> QED BY Zenon, <1>1, <3>1, UploadFill
  <2> QED BY ZenonT(60), <2>1 DEF Steady, Onward
<1>4. ASSUME NEW w \in Writers, writer'[w] # NoTask
      PROVE  IF writer'[w].role = "fill" THEN fate'[writer'[w].v] \in {"stored", "gone"}
             ELSE /\ fate'[writer'[w].v] = "staging" /\ writer'[w].own
                  /\ pins'[writer'[w].v] > 0
  <2> DEFINE v == writer[w].v
  <2>1. /\ writer[w] # NoTask /\ writer'[w].v = v /\ v \in Versions
        /\ writer'[w].role = writer[w].role
        /\ writer[w].role # "fill" => writer'[w].own = writer[w].own
    BY Zenon, <1>2, <1>4 DEF Steady
  <2>2. CASE writer[w].role = "fill"
    <3>1. fate[v] \in {"stored", "gone"}
      BY Zenon, <2>1, <2>2, UploadOf
    <3> QED BY ZenonT(60), <2>1, <2>2, <3>1 DEF Steady, Onward
  <2>3. CASE writer[w].role # "fill"
    <3>1. fate[v] = "staging" /\ writer[w].own /\ pins[v] > 0
      BY ZenonT(60), <2>1, <2>3, UploadOf
    <3>2. Held(v)
      BY Zenon, <2>1, <2>3 DEF Held
    <3>3. fate'[v] = fate[v]
      BY ZenonT(60), <2>1, <3>1 DEF Steady, Onward
    <3> HIDE DEF v
    <3>4. pins'[v] = pins[v]
      BY Zenon, <2>1, <3>2, <3>3, SteadyHeld
    <3> QED BY Zenon, <2>1, <2>3, <3>1, <3>3, <3>4
  <2> QED BY ZenonT(60), <2>2, <2>3
<1>5. ASSUME NEW v \in Versions, fate'[v] = "pending", Size[v] # 0 PROVE Complete(v)' /\ pins'[v] > 0
  <2>1. fate[v] = "pending" /\ Held(v)
    BY Zenon, <1>5 DEF Steady, Onward, Held
  <2>2. Complete(v) /\ pins[v] > 0
    BY Zenon, <1>5, <2>1, UploadPending
  <2>3. /\ pins'[v] = pins[v] /\ v \in entries' /\ writing'[v] = writing[v]
        /\ present[v] \subseteq present'[v]
    BY Zenon, <1>5, <2>1, <2>2 DEF Steady, Complete
  <2> QED BY Zenon, <2>2, <2>3 DEF Complete, Blocks, Bytes, BlockOf
<1> QED BY ZenonT(60), <1>3, <1>4, <1>5 DEF Uploads

\* What becomes of a task when entries D are dropped.
LEMMA OrphanSame ==
    ASSUME NEW t \in FillTask \cup WriterTask \cup {NoTask}, NEW D, Orphan(t, D) # NoTask
    PROVE  /\ t # NoTask /\ Orphan(t, D).v = t.v
           /\ t \in WriterTask => Orphan(t, D).role = t.role
           /\ t.v \notin D => Orphan(t, D) = t
<1>1. t # NoTask
  BY Zenon DEF Orphan
<1>2. Orphan(t, D) \in {t, [t EXCEPT !.own = FALSE]}
  BY Zenon, <1>1 DEF Orphan
<1>3. t.v \notin D => Orphan(t, D) = t
  BY Zenon DEF Orphan
<1> QED BY Zenon, <1>1, <1>2, <1>3 DEF FillTask, WriterTask

\* Dropping entries that are not held is steady.
LEMMA DropSteady ==
    ASSUME TypeOK, Uploads, NEW D \in SUBSET Versions, NEW N \in SUBSET Versions,
           NEW wr \in BOOLEAN, N \cap entries = {}, Register(D, N, wr),
           NEW fs \in FillType, NEW ws \in WriterType, Detach(D, fs, ws, reader),
           \A f \in Fills : fs[f] \in {fill[f], NoTask},
           \A w \in Writers : ws[w] \in {writer[w], NoTask},
           Onward,
           \A v \in Versions : Held(v) /\ fate'[v] = fate[v] => v \notin D /\ pins'[v] = pins[v]
    PROVE  Steady
<1>1. /\ entries' = (entries \ D) \cup N
      /\ \A v \in entries \ D : /\ present'[v] = present[v] /\ data'[v] = data[v]
                                /\ map'[v] = map[v] /\ writing'[v] = writing[v]
                                /\ v \in files => v \in files'
      /\ \A v \in N : /\ present'[v] = {} /\ data'[v] = {} /\ map'[v] = {}
                      /\ writing'[v] = wr /\ v \in files'
      /\ \A v \in Versions : map'[v] = {} \/ (map'[v] = map[v] /\ data'[v] = data[v])
  BY Zenon, RegisterKeeps
<1>2. ASSUME NEW f \in Fills, fill'[f] # NoTask
      PROVE  fill[f] # NoTask /\ fill'[f].v = fill[f].v
  <2>1. fill'[f] = Orphan(fs[f], D) /\ fs[f] \in FillTask \cup {NoTask}
    BY Zenon DEF Detach, FillType
  <2>2. fs[f] # NoTask /\ fill'[f].v = fs[f].v
    BY SMTT(60), Z3T(60), <1>2, <2>1, OrphanSame
  <2> QED BY ZenonT(60), <2>2
<1>3. ASSUME NEW w \in Writers, writer'[w] # NoTask
      PROVE  /\ writer[w] # NoTask /\ writer'[w].v = writer[w].v
             /\ writer'[w].role = writer[w].role
             /\ writer[w].role # "fill" => writer'[w].own = writer[w].own
  <2>1. writer'[w] = Orphan(ws[w], D) /\ ws[w] \in WriterTask \cup {NoTask}
    BY ZenonT(60) DEF Detach, WriterType
  <2>2. /\ ws[w] # NoTask /\ writer'[w].v = ws[w].v /\ writer'[w].role = ws[w].role
        /\ ws[w].v \notin D => writer'[w] = ws[w]
    <3>1. ws[w] \in FillTask \cup WriterTask \cup {NoTask} /\ Orphan(ws[w], D) # NoTask
      BY Zenon, <1>3, <2>1
    <3>2. /\ ws[w] # NoTask /\ Orphan(ws[w], D).v = ws[w].v
          /\ ws[w] \in WriterTask => Orphan(ws[w], D).role = ws[w].role
          /\ ws[w].v \notin D => Orphan(ws[w], D) = ws[w]
      BY ZenonT(60), <3>1, OrphanSame
    <3>3. ws[w] \in WriterTask
      BY Zenon, <2>1, <3>2
    <3> QED BY ZenonT(60), <2>1, <3>2, <3>3
  <2>3. ws[w] = writer[w]
    BY Zenon, <2>2
  <2>4. writer[w].v \in Versions
    BY ZenonT(60), <2>2, <2>3 DEF TypeOK, WriterTask
  <2>5. writer[w].role # "fill" => Held(writer[w].v) /\ fate[writer[w].v] = "staging"
    BY ZenonT(60), <2>2, <2>3, UploadOf DEF Held
  <2>6. writer[w].role # "fill" => writer[w].v \notin D
    BY ZenonT(60), <2>4, <2>5 DEF Onward
  <2> QED BY Zenon, <2>2, <2>3, <2>6
<1> QED BY Zenon, <1>1, <1>2, <1>3 DEF Steady

\* Dropping entries nobody has pinned.
LEMMA EvictSteady ==
    ASSUME TypeOK, Uploads, NEW D \in SUBSET Versions, NEW N \in SUBSET Versions,
           NEW wr \in BOOLEAN, N \cap entries = {}, Register(D, N, wr),
           Detach(D, fill, writer, reader), UNCHANGED fate,
           \A v \in D : pins[v] = 0,
           \A v \in Versions : Held(v) /\ v \notin D => pins'[v] = pins[v]
    PROVE  Steady
<1>1. \A v \in Versions : Held(v) => v \notin D /\ pins'[v] = pins[v]
  BY Zenon, HeldPinned
<1>2. Onward
  BY Zenon DEF Onward
<1> QED BY SMTT(60), Z3T(60), <1>1, <1>2, DropSteady, TypeTasks

\* Evicting unpinned entries touches no held upload.
LEMMA DropUnpinned ==
    ASSUME TypeOK, Uploads, NEW D \in SUBSET entries, D \subseteq EvictableWith(pins), Drop(D),
           pins' = Reset(pins, D, 0), Detach(D, fill, writer, reader), UNCHANGED fate
    PROVE  Steady
<1> DEFINE N == {}
<1>1. /\ N \in SUBSET Versions /\ N \cap entries = {} /\ Register(D, N, FALSE)
      /\ D \in SUBSET Versions
  BY ZenonT(60) DEF Drop, TypeOK
<1>2. \A v \in D : pins[v] = 0
  BY Zenon DEF EvictableWith
<1>3. \A v \in Versions : Held(v) /\ v \notin D => pins'[v] = pins[v]
  BY Zenon DEF Reset
<1> HIDE DEF N
<1> QED BY Zenon, <1>1, <1>2, <1>3, EvictSteady

\* remove() of a version that is not held, or is deleted with it.
LEMMA RemoveSteady ==
    ASSUME TypeOK, Uploads, NEW v \in Versions, NEW fs \in FillType, NEW ws \in WriterType,
           Remove(v, fs, ws), Onward, Held(v) => fate'[v] # fate[v],
           \A f \in Fills : fs[f] \in {fill[f], NoTask},
           \A w \in Writers : ws[w] \in {writer[w], NoTask}
    PROVE  Steady
<1> DEFINE D == {v} \cap entries
           N == {}
<1>1. /\ Register(D, N, FALSE) /\ Detach(D, fs, ws, reader) /\ D \in SUBSET Versions
      /\ N \in SUBSET Versions /\ N \cap entries = {} /\ pins' = Reset(pins, D, 0)
  BY Zenon DEF Remove, Drop
<1>2. \A x \in Versions : Held(x) /\ fate'[x] = fate[x] => x \notin D /\ pins'[x] = pins[x]
  BY ZenonT(60), <1>1 DEF Reset
<1> HIDE DEF D, N
<1> QED BY Zenon, <1>1, <1>2, DropSteady

\* A step that changes one task only, and marks blocks at most.
LEMMA TaskSteady ==
    ASSUME TypeOK, UNCHANGED <<entries, pins, fate>>,
           \A f \in Fills : fill'[f] # NoTask => fill[f] # NoTask /\ fill'[f].v = fill[f].v,
           \A w \in Writers : writer'[w] # NoTask =>
              /\ writer[w] # NoTask /\ writer'[w].v = writer[w].v
              /\ writer'[w].role = writer[w].role /\ writer'[w].own = writer[w].own,
           \A v \in Versions : present[v] \subseteq present'[v],
           \A v \in Versions : Held(v) => writing'[v] = writing[v]
    PROVE  Steady
BY Zenon DEF Steady, Onward

\* The steps of a writer that do not end an upload.
LEMMA WriterSteady ==
    ASSUME TypeOK, Uploads, NEW w \in Writers, writer[w] # NoTask, WriterStep(w),
           \/ writer[w].role = "fill" /\ (WriterFinish(w) \/ WriterCloseEmpty(w) \/ WriterAbort(w))
           \/ WriterError(w) \/ WriterMark(w) \/ WriterGiveUp(w)
           \/ \E n \in 1 .. Size[writer[w].v] : WriterPwrite(w, n)
    PROVE  Steady
<1> DEFINE t == writer[w]
<1>t. t \in WriterTask /\ t.v \in Versions
  BY Zenon DEF TypeOK, WriterTask
<1>f. writer \in [Writers -> WriterTask \cup {NoTask}]
  BY Zenon DEF TypeOK
<1>1. ASSUME NEW u, u # NoTask => u.v = t.v /\ u.role = t.role /\ u.own = t.own,
             writer' = [writer EXCEPT ![w] = u], UNCHANGED <<entries, pins, fate, fill>>,
             \A v \in Versions : present[v] \subseteq present'[v],
             \A v \in Versions : Held(v) => writing'[v] = writing[v]
      PROVE  Steady
  <2>1. \A x \in Writers : writer'[x] # NoTask =>
              /\ writer[x] # NoTask /\ writer'[x].v = writer[x].v
              /\ writer'[x].role = writer[x].role /\ writer'[x].own = writer[x].own
    BY Zenon, <1>1, <1>f
  <2> QED BY Zenon, <1>1, <2>1, TaskSteady
<1>2. ASSUME NEW n \in 1 .. Size[t.v], WriterPwrite(w, n) PROVE Steady
  <2> DEFINE u == [t EXCEPT !.st = "written", !.off = t.off + n, !.fd = TRUE]
  <2>1. writer' = [writer EXCEPT ![w] = u] /\ u.v = t.v /\ u.role = t.role /\ u.own = t.own
    BY ZenonT(60), <1>2, <1>f, <1>t DEF WriterPwrite, WriterTask
  <2>2. UNCHANGED <<entries, pins, fate, fill, present, writing>>
    BY Zenon, <1>2 DEF WriterPwrite
  <2> HIDE DEF u
  <2> QED BY Zenon, <1>1, <2>1, <2>2
<1>3. ASSUME NEW s \in {"failing", "aborting", "open", "closing"},
             writer' = [writer EXCEPT ![w].st = s],
             UNCHANGED <<entries, pins, fate, fill, writing>>,
             \A v \in Versions : present[v] \subseteq present'[v]
      PROVE  Steady
  <2> DEFINE u == [t EXCEPT !.st = s]
  <2>1. writer' = [writer EXCEPT ![w] = u] /\ u.v = t.v /\ u.role = t.role /\ u.own = t.own
    BY Zenon, <1>3, <1>f, <1>t DEF WriterTask
  <2> HIDE DEF u
  <2> QED BY Zenon, <1>1, <1>3, <2>1
<1>4. ASSUME WriterError(w) \/ WriterGiveUp(w) PROVE Steady
  <2>1. /\ UNCHANGED <<entries, pins, fate, fill, present, writing>>
        /\ \E s \in {"failing", "aborting"} : writer' = [writer EXCEPT ![w].st = s]
    BY Zenon, <1>4 DEF WriterError, WriterGiveUp
  <2> QED BY Zenon, <1>3, <2>1
<1>5. ASSUME WriterMark(w) PROVE Steady
  <2>1. \A v \in Versions : present[v] \subseteq present'[v]
    BY SMTT(60), Z3T(60), <1>5, <1>t DEF WriterMark, MarkPresent, TypeOK
  <2>2. /\ UNCHANGED <<entries, pins, fate, fill, writing>>
        /\ \E s \in {"open", "closing"} : writer' = [writer EXCEPT ![w].st = s]
    BY Zenon, <1>5 DEF WriterMark
  <2> QED BY ZenonT(60), <1>3, <2>1, <2>2
<1>6. ASSUME t.role = "fill" PROVE fate[t.v] \in {"stored", "gone"} /\ ~Held(t.v)
  <2>1. fate[t.v] \in {"stored", "gone"}
    BY Zenon, <1>6, <1>t, UploadOf
  <2> QED BY ZenonT(60), <1>t, <2>1, HeldPinned
<1>7. ASSUME t.role = "fill", WriterFinish(w) \/ WriterCloseEmpty(w) PROVE Steady
  <2>1. /\ writer' = [writer EXCEPT ![w] = NoTask]
        /\ UNCHANGED <<entries, pins, fate, fill, present>>
    BY ZenonT(60), <1>7 DEF WriterFinish, WriterCloseEmpty, Uploaded
  <2>2. writing' = writing \/ writing' = [writing EXCEPT ![t.v] = FALSE]
    BY Zenon, <1>7 DEF WriterFinish, WriterCloseEmpty
  <2>3. \A v \in Versions : Held(v) => writing'[v] = writing[v]
    BY ZenonT(60), <1>6, <1>7, <2>2 DEF TypeOK
  <2> DEFINE u == NoTask
  <2>4. writer' = [writer EXCEPT ![w] = u] /\ ~(u # NoTask)
    BY Zenon, <2>1
  <2>5. \A v \in Versions : present[v] \subseteq present'[v]
    BY ZenonT(60), <2>1
  <2> HIDE DEF u
  <2> QED BY ZenonT(60), <1>1, <2>1, <2>3, <2>4, <2>5
<1>8. ASSUME t.role = "fill", WriterAbort(w) PROVE Steady
  <2> DEFINE ws == [writer EXCEPT ![w] = NoTask]
  <2>1. ws \in WriterType /\ \A x \in Writers : ws[x] \in {writer[x], NoTask}
    BY Zenon, <1>f DEF WriterType
  <2>2. Remove(t.v, fill, ws) /\ fate' = fate
    BY Zenon, <1>8 DEF WriterAbort
  <2>3. Onward
    BY Zenon, <2>2 DEF Onward
  <2> HIDE DEF ws
  <2> QED BY ZenonT(60), <2>1, <2>2, <2>3, <1>t, <1>6, <1>8, RemoveSteady, TypeTasks
<1> QED BY ZenonT(60), <1>2, <1>4, <1>5, <1>7, <1>8

\* The steps of fills but the start of one.
LEMMA FillSteady ==
    ASSUME TypeOK, Uploads,
           \/ \E v \in Versions, E \in SUBSET entries : Reserve(v, E) \/ RefuseReserve(v, E)
           \/ \E v \in Versions, E \in SUBSET entries, role \in {"save", "stage", "fill"} :
                 RefuseStaging(v, role, E)
           \/ \E v \in Versions, E \in SUBSET entries, b \in Nat : RefuseFill(v, b, E)
           \/ \E f \in Fills : FillStep(f) \/ FillCancel(f)
    PROVE  Steady
<1>e. entries \subseteq Versions
  BY Zenon DEF TypeOK
<1>1. ASSUME NEW v \in Versions, NEW E \in SUBSET entries, Reserve(v, E) PROVE Steady
  <2>1. /\ Register(E, {v}, FALSE) /\ Detach(E, fill, writer, reader)
        /\ {v} \cap entries = {} /\ {v} \in SUBSET Versions /\ E \in SUBSET Versions
        /\ UNCHANGED fate /\ pins' = Reset(pins, E \cup {v}, 0) /\ fate[v] = "stored"
        /\ \A x \in E : pins[x] = 0
    BY ZenonT(60), <1>1, <1>e DEF Reserve, MakeRoom, Oldest, EvictableWith
  <2>2. ~Held(v)
    BY Zenon, <2>1, HeldPinned
  <2>3. \A x \in Versions : Held(x) /\ x \notin E => pins'[x] = pins[x]
    BY Zenon, <2>1, <2>2 DEF Reset
  <2> QED BY Zenon, <2>1, <2>3, EvictSteady
<1>2. ASSUME NEW v, NEW size, NEW new, NEW keep, NEW E \in SUBSET entries,
             MakeRoom(E, size, new, keep) \/ NoRoom(E, size, new, keep)
      PROVE  E \subseteq EvictableWith(pins)
  BY Zenon, <1>2 DEF MakeRoom, NoRoom, Oldest
<1>3. ASSUME NEW v \in Versions, NEW size, NEW E \in SUBSET entries, Refused(v, size, E)
      PROVE  Steady
  <2>1. E \subseteq EvictableWith(pins)
    BY Zenon, <1>3 DEF Refused, NoRoom, MakeRoom, Oldest
  <2>2. /\ Drop(E) /\ pins' = Reset(pins, E, 0) /\ Detach(E, fill, writer, reader)
        /\ UNCHANGED fate
    BY ZenonT(60), <1>3 DEF Refused
  <2> QED BY Zenon, <2>1, <2>2, DropUnpinned
<1>4. ASSUME NEW v \in Versions, NEW b, NEW E \in SUBSET entries, RefuseFill(v, b, E)
      PROVE  Steady
  <2>1. E \subseteq EvictableWith(pins)
    BY Zenon, <1>4 DEF RefuseFill, NoRoom, Oldest
  <2>2. /\ Drop(E) /\ pins' = Reset(pins, E, 0) /\ Detach(E, fill, writer, reader)
        /\ UNCHANGED fate
    BY Zenon, <1>4 DEF RefuseFill
  <2> QED BY Zenon, <2>1, <2>2, DropUnpinned
<1>5. ASSUME NEW f \in Fills, FillStep(f) \/ FillCancel(f) PROVE Steady
  <2> DEFINE t == fill[f]
  <2>t. t # NoTask /\ t \in FillTask /\ t.v \in Versions
    <3>1. t # NoTask
      BY Zenon, <1>5 DEF FillStep, FillPwrite, FillError, FillEnd, FillFail, FillCancel
    <3> QED BY ZenonT(60), <3>1 DEF TypeOK, FillTask
  <2>f. fill \in [Fills -> FillTask \cup {NoTask}]
    BY Zenon DEF TypeOK
  <2>1. ASSUME NEW u, u # NoTask => u.v = t.v,
               fill' = [fill EXCEPT ![f] = u], UNCHANGED <<entries, pins, fate, writing, writer>>,
               \A x \in Versions : present[x] \subseteq present'[x]
        PROVE  Steady
    <3>1. \A x \in Fills : fill'[x] # NoTask => fill[x] # NoTask /\ fill'[x].v = fill[x].v
      BY Zenon, <2>1, <2>t, <2>f
    <3> QED BY Zenon, <2>1, <3>1, TaskSteady
  <2>2. ASSUME NEW u \in {Leak(t), [t EXCEPT !.st = "written"], [t EXCEPT !.st = "failed"],
                          [t EXCEPT !.st = "leaking"], NoTask}
        PROVE  u # NoTask => u.v = t.v
    BY Zenon, <2>t DEF Leak, FillTask
  <2>3. CASE FillPwrite(f) \/ FillError(f) \/ FillCancel(f)
    <3>1. PICK u \in {Leak(t), [t EXCEPT !.st = "written"], [t EXCEPT !.st = "failed"],
                      [t EXCEPT !.st = "leaking"], NoTask} : fill' = [fill EXCEPT ![f] = u]
      BY ZenonT(60), <2>3 DEF FillPwrite, FillError, FillCancel
    <3>2. UNCHANGED <<entries, pins, fate, writing, writer, present>>
      BY Zenon, <2>3 DEF FillPwrite, FillError, FillCancel
    <3> QED BY ZenonT(60), <3>1, <3>2, <2>1, <2>2
  <2>4. CASE FillEnd(f)
    <3>1. fill' = [fill EXCEPT ![f] = NoTask] /\ UNCHANGED <<entries, pins, fate, writing, writer>>
      BY ZenonT(60), <2>4 DEF FillEnd
    <3>2. \A x \in Versions : present[x] \subseteq present'[x]
      BY SMTT(60), Z3T(60), <2>4, <2>t DEF FillEnd, MarkPresent, TypeOK
    <3> QED BY Zenon, <3>1, <3>2, <2>1, <2>2
  <2>5. CASE FillFail(f)
    <3> DEFINE fs == [fill EXCEPT ![f] = NoTask]
    <3>1. fs \in FillType /\ \A x \in Fills : fs[x] \in {fill[x], NoTask}
      BY Zenon, <2>f DEF FillType
    <3>2. Remove(t.v, fs, writer) /\ fate' = fate
      BY Zenon, <2>5 DEF FillFail
    <3>3. ~Held(t.v)
      BY Zenon, <2>t, HeldPinned DEF Uploads
    <3>4. Onward
      BY Zenon, <3>2 DEF Onward
    <3> HIDE DEF fs
    <3> QED BY ZenonT(60), <3>1, <3>2, <3>3, <3>4, <2>t, RemoveSteady, TypeTasks
  <2> QED BY ZenonT(60), <1>5, <2>3, <2>4, <2>5 DEF FillStep
<1> QED BY ZenonT(60), <1>1, <1>3, <1>4, <1>5 DEF RefuseReserve, RefuseStaging

\* The sweep touches no held upload.
LEMMA SweepSteady ==
    ASSUME TypeOK, Ledger, Uploads, NEW stale \in SUBSET entries, NEW cut \in SUBSET entries,
           NEW E \in SUBSET entries, Sweep(stale, cut, E)
    PROVE  Steady
<1>1. PICK D \in SUBSET entries : Swept(D, stale)
  BY Zenon, SweepKeeps
<1>2. /\ stale \subseteq {v \in entries : pins[v] > 0 /\ ~writing[v]} /\ UNCHANGED fate
      /\ stale # {} => \A v \in Versions : fate[v] # "pending"
  BY Zenon DEF Sweep
<1>3. /\ Detach(D, fill, writer, reader) /\ writing' = writing /\ entries' = entries \ D
      /\ \A v \in entries \ D : present'[v] = present[v]
      /\ \A v \in D : v \in stale \/ v \in EvictableWith(Reset(pins, stale, 0))
      /\ \A v \in Versions : pins'[v] = IF v \in D \cup stale THEN 0 ELSE pins[v]
  BY Zenon, <1>1 DEF Swept
<1>4. ASSUME NEW v \in Versions, Held(v) PROVE v \notin stale /\ v \notin D
  <2>1. pins[v] # 0
    BY Zenon, <1>4, HeldPinned
  <2>2. v \notin stale
    <3>1. CASE fate[v] = "pending"
      BY Zenon, <1>2, <3>1
    <3>2. ASSUME NEW w \in Writers, writer[w] # NoTask, writer[w].v = v, writer[w].role # "fill"
          PROVE  v \notin stale
      <4>1. Live(writer[w])
        BY Zenon, <3>2 DEF Uploads, Live
      <4>2. writing[v]
        BY Zenon, <3>2, <4>1 DEF Ledger
      <4> QED BY Zenon, <1>2, <4>2
    <3> QED BY ZenonT(60), <1>4, <3>1, <3>2 DEF Held
  <2>3. v \notin EvictableWith(Reset(pins, stale, 0))
    BY Zenon, <2>1, <2>2 DEF EvictableWith, Reset
  <2> QED BY Zenon, <1>3, <2>2, <2>3
<1>5. ASSUME NEW f \in Fills, fill'[f] # NoTask
      PROVE  fill[f] # NoTask /\ fill'[f].v = fill[f].v
  <2>1. fill'[f] = Orphan(fill[f], D) /\ fill[f] \in FillTask \cup {NoTask}
    BY Zenon, <1>3 DEF Detach, TypeOK
  <2> QED BY ZenonT(60), <1>5, <2>1, OrphanSame
<1>6. ASSUME NEW w \in Writers, writer'[w] # NoTask
      PROVE  /\ writer[w] # NoTask /\ writer'[w].v = writer[w].v
             /\ writer'[w].role = writer[w].role
             /\ writer[w].role # "fill" => writer'[w].own = writer[w].own
  <2>1. writer'[w] = Orphan(writer[w], D) /\ writer[w] \in WriterTask \cup {NoTask}
    BY ZenonT(60), <1>3 DEF Detach, TypeOK
  <2>2. /\ writer[w] # NoTask /\ writer'[w].v = writer[w].v
        /\ writer'[w].role = writer[w].role
        /\ writer[w].v \notin D => writer'[w] = writer[w]
    BY ZenonT(60), <1>6, <2>1, OrphanSame
  <2>3. writer[w].role # "fill" => writer[w].v \notin D
    BY Zenon, <1>4, <2>1, <2>2 DEF Held, WriterTask
  <2> QED BY ZenonT(60), <2>2, <2>3
<1>7. Onward
  BY Zenon, <1>2 DEF Onward
<1>8. \A v \in Versions : Held(v) /\ fate'[v] = fate[v] =>
          /\ pins'[v] = pins[v]
          /\ v \in entries => /\ v \in entries' /\ writing'[v] = writing[v]
                              /\ present[v] \subseteq present'[v]
  BY Zenon, <1>3, <1>4
<1> QED BY ZenonT(60), <1>5, <1>6, <1>7, <1>8 DEF Steady

\* Readers, pins and the rest of the operations touch no held upload.
LEMMA OtherSteady ==
    ASSUME TypeOK, Uploads,
           \/ \E r \in Readers :
                 \/ \E v \in Versions : \E bs \in SUBSET Blocks(v) : ReadBegin(r, v, bs)
                 \/ ReadError(r) \/ ReadStop(r)
                 \/ \E b \in reader[r].todo : ReadChunk(r, b)
           \/ \E v \in Versions : Release(v) \/ Forget(v) \/ UploadUncached(v) \/ Distribute(v)
           \/ EvictUnpinned
           \/ UNCHANGED vars
    PROVE  Steady
<1>1. ASSUME NEW v \in Versions, Release(v) PROVE Steady
  <2> DEFINE D == IF KeepForReads THEN {} ELSE {v}
             N == {}
  <2>1. /\ Register(D, N, FALSE) /\ Detach(D, fill, writer, reader) /\ D \in SUBSET Versions
        /\ N \in SUBSET Versions /\ N \cap entries = {} /\ UNCHANGED fate
        /\ pins' = Reset(pins, {v}, 0) /\ fate[v] = "stored"
    <3>1. /\ Drop(D) /\ Detach(D, fill, writer, reader) /\ UNCHANGED fate
          /\ pins' = Reset(pins, {v}, 0) /\ fate[v] = "stored"
      BY Zenon, <1>1 DEF Release
    <3> QED BY Zenon, <3>1 DEF Drop
  <2>2. ~Held(v)
    BY Zenon, <2>1, HeldPinned
  <2>3. \A x \in Versions : Held(x) => x \notin D /\ pins'[x] = pins[x]
    BY Zenon, <2>1, <2>2 DEF Reset
  <2>4. Onward
    BY Zenon, <2>1 DEF Onward
  <2> HIDE DEF D, N
  <2> QED BY ZenonT(60), <2>1, <2>3, <2>4, DropSteady, TypeTasks
<1>2. ASSUME NEW v \in Versions, Forget(v) PROVE Steady
  <2>1. Remove(v, fill, writer) /\ fate[v] \in {"stored", "pending"}
        /\ fate' = [fate EXCEPT ![v] = "gone"]
    BY Zenon, <1>2 DEF Forget
  <2>2. Onward /\ fate'[v] # fate[v]
    BY Zenon, <2>1 DEF Onward, TypeOK
  <2> QED BY Zenon, <2>1, <2>2, RemoveSteady, TypeTasks
<1>3. ASSUME NEW v \in Versions, UploadUncached(v) \/ Distribute(v) PROVE Steady
  <2>1. /\ UNCHANGED <<entries, present, pins, writing, fill, writer>>
        /\ \/ fate[v] = "new" /\ fate' = [fate EXCEPT ![v] = "stored"]
           \/ /\ fate[v] = "pending"
              /\ \E x \in {"stored", "lost"} : fate' = [fate EXCEPT ![v] = x]
    BY Zenon, <1>3 DEF UploadUncached, Distribute, tasks
  <2>2. Onward
    BY ZenonT(60), <2>1 DEF Onward, TypeOK
  <2> QED BY Zenon, <2>1, <2>2 DEF Steady
<1>4. CASE EvictUnpinned
  <2> DEFINE D == EvictableWith(pins)
  <2>1. /\ Drop(D) /\ pins' = Reset(pins, D, 0) /\ Detach(D, fill, writer, reader)
        /\ UNCHANGED fate /\ D \in SUBSET entries /\ D \subseteq EvictableWith(pins)
    BY Zenon, <1>4 DEF EvictUnpinned, EvictableWith
  <2> HIDE DEF D
  <2> QED BY Zenon, <2>1, DropUnpinned
<1>5. ASSUME UNCHANGED <<entries, present, pins, writing, fill, writer, fate>> PROVE Steady
  BY ZenonT(60), <1>5 DEF Steady, Onward
<1>6. ASSUME NEW r \in Readers,
             \/ \E v \in Versions : \E bs \in SUBSET Blocks(v) : ReadBegin(r, v, bs)
             \/ ReadError(r) \/ ReadStop(r)
             \/ \E b \in reader[r].todo : ReadChunk(r, b)
      PROVE  Steady
  BY ZenonT(60), <1>5, <1>6 DEF ReadBegin, ReadError, ReadStop, ReadChunk
<1>7. CASE UNCHANGED vars
  BY Zenon, <1>5, <1>7 DEF vars, tasks
<1> QED BY ZenonT(60), <1>1, <1>2, <1>3, <1>4, <1>6, <1>7

-----------------------------------------------------------------------------
(* The steps that start a task, end an upload or restart.                  *)

\* A staging file opened for a write-back upload is held from the start.
LEMMA UploadsOpen ==
    ASSUME TypeOK, Ledger, Uploads, NEW w \in Writers, NEW v \in Versions,
           NEW E \in SUBSET entries, NEW role \in {"save", "stage", "fill"},
           OpenStaging(w, v, role, E)
    PROVE  Uploads'
<1> DEFINE t == [st |-> "open", v |-> v, role |-> role, off |-> 0, fd |-> FALSE, own |-> TRUE]
           ws == [writer EXCEPT ![w] = t]
<1>1. /\ Register(E, {v}, TRUE) /\ Detach(E, fill, ws, reader)
      /\ {v} \cap entries = {} /\ {v} \in SUBSET Versions /\ E \in SUBSET Versions
      /\ pins' = Reset(Reset(pins, E, 0), {v}, 1) /\ \A x \in E : pins[x] = 0
      /\ fate' = IF role = "fill" THEN fate ELSE [fate EXCEPT ![v] = "staging"]
      /\ IF role = "fill" THEN fate[v] = "stored" ELSE fate[v] = "new"
  BY ZenonT(60) DEF OpenStaging, MayStage, TypeOK, MakeRoom, Oldest, EvictableWith
<1>2. /\ entries' = (entries \ E) \cup {v}
      /\ \A x \in entries \ E : /\ present'[x] = present[x] /\ data'[x] = data[x]
                                /\ map'[x] = map[x] /\ writing'[x] = writing[x]
                                /\ x \in files => x \in files'
      /\ \A x \in {v} : /\ present'[x] = {} /\ data'[x] = {} /\ map'[x] = {}
                        /\ writing'[x] = TRUE /\ x \in files'
  BY Zenon, <1>1, RegisterKeeps
<1>3. ws \in WriterType
  <2>1. t \in WriterTask
    BY Zenon DEF WriterTask
  <2> QED BY ZenonT(60), <2>1, TypeTasks DEF WriterType
<1>4. ~Held(v)
  BY Zenon, <1>1, HeldPinned
<1>5. \A x \in Versions : Held(x) => x \notin E /\ x # v /\ pins'[x] = pins[x]
  BY Zenon, <1>1, <1>4, HeldPinned DEF Reset
<1>6. \A x \in Versions : fate'[x] = fate[x] \/ (x = v /\ fate[v] = "new" /\ fate'[v] = "staging")
  BY ZenonT(60), <1>1 DEF TypeOK
<1>7. ASSUME NEW f \in Fills, fill'[f] # NoTask PROVE fate'[fill'[f].v] \in {"stored", "gone"}
  <2>1. fill'[f] = Orphan(fill[f], E) /\ fill[f] \in FillTask \cup {NoTask}
    BY ZenonT(60), <1>1 DEF Detach, TypeOK
  <2>2. fill[f] # NoTask /\ fill'[f].v = fill[f].v /\ fill[f].v \in Versions
    BY SMTT(60), Z3T(60), <1>7, <2>1, OrphanSame DEF FillTask
  <2>3. fate[fill[f].v] \in {"stored", "gone"}
    BY Zenon, <2>2, UploadFill
  <2> QED BY ZenonT(60), <2>2, <2>3, <1>6
<1>8. ASSUME NEW x \in Writers, writer'[x] # NoTask
      PROVE  IF writer'[x].role = "fill" THEN fate'[writer'[x].v] \in {"stored", "gone"}
             ELSE /\ fate'[writer'[x].v] = "staging" /\ writer'[x].own
                  /\ pins'[writer'[x].v] > 0
  <2>1. writer'[x] = Orphan(ws[x], E) /\ ws[x] \in WriterTask \cup {NoTask}
    BY Zenon, <1>1, <1>3 DEF Detach, WriterType
  <2>2. /\ ws[x] # NoTask /\ writer'[x].v = ws[x].v /\ writer'[x].role = ws[x].role
        /\ ws[x].v \notin E => writer'[x] = ws[x]
    <3> HIDE DEF ws
    <3> QED BY ZenonT(60), <1>8, <2>1, OrphanSame
  <2>3. CASE x = w
    <3>1. ws[x] = t
      BY Zenon, <2>3, TypeTasks DEF WriterType
    <3>2. v \notin E
      BY ZenonT(60), <1>1
    <3>3. writer'[x] = t
      BY SMTT(60), Z3T(60), <2>2, <3>1, <3>2
    <3>4. pins'[v] = 1
      BY Zenon, <1>1 DEF Reset
    <3>5. IF role = "fill" THEN fate'[v] = "stored" ELSE fate'[v] = "staging"
      BY Zenon, <1>1 DEF TypeOK
    <3> QED BY SMTT(60), Z3T(60), <3>3, <3>4, <3>5
  <2>4. CASE x # w
    <3>1. ws[x] = writer[x]
      BY Zenon, <2>4, TypeTasks DEF WriterType
    <3>2. writer[x] # NoTask /\ writer[x].v \in Versions
      BY Zenon, <2>1, <2>2, <3>1 DEF WriterTask
    <3>3. CASE writer[x].role = "fill"
      <4>1. fate[writer[x].v] \in {"stored", "gone"}
        BY Zenon, <3>2, <3>3, UploadOf
      <4>2. fate'[writer[x].v] = fate[writer[x].v]
        BY Zenon, <1>6, <3>2, <4>1
      <4>3. writer'[x].v = writer[x].v /\ writer'[x].role = writer[x].role
        BY Zenon, <2>2, <3>1
      <4> QED BY ZenonT(60), <3>3, <4>1, <4>2, <4>3
    <3>4. CASE writer[x].role # "fill"
      <4>1. Held(writer[x].v) /\ fate[writer[x].v] = "staging" /\ writer[x].own
            /\ pins[writer[x].v] > 0
        BY Zenon, <3>2, <3>4, UploadOf DEF Held
      <4> QED BY ZenonT(60), <2>2, <3>1, <3>2, <3>4, <4>1, <1>5, <1>6
    <3> QED BY ZenonT(60), <3>3, <3>4
  <2> QED BY Zenon, <2>3, <2>4
<1>9. ASSUME NEW x \in Versions, fate'[x] = "pending", Size[x] # 0 PROVE Complete(x)' /\ pins'[x] > 0
  <2>1. fate[x] = "pending" /\ Held(x)
    BY Zenon, <1>6, <1>9 DEF Held
  <2>2. Complete(x) /\ pins[x] > 0
    BY ZenonT(60), <1>9, <2>1, UploadPending
  <2>3. /\ pins'[x] = pins[x] /\ x \in entries \ E
    BY Zenon, <1>5, <2>1, <2>2 DEF Complete
  <2> QED BY ZenonT(60), <1>2, <2>2, <2>3 DEF Complete, Blocks, Bytes, BlockOf
<1> QED BY ZenonT(60), <1>7, <1>8, <1>9 DEF Uploads

\* A fill that begins touches no held upload.
LEMMA UploadsBegin ==
    ASSUME TypeOK, Uploads, NEW f \in Fills, NEW v \in Versions, NEW b \in Blocks(v),
           NEW E \in SUBSET entries, FillBegin(f, v, b, E)
    PROVE  Uploads'
<1> DEFINE t == [st |-> "begun", v |-> v, b |-> b, claim |-> Added(v, b), own |-> TRUE]
           fs == [fill EXCEPT ![f] = t]
<1>1. fs \in FillType
  <2>1. b \in Nat /\ Added(v, b) \in SUBSET Nat
    BY Zenon, BlocksNat DEF Added
  <2> QED BY ZenonT(60), <2>1, TypeTasks DEF FillType, FillTask
<1>2. /\ Register(E, {}, FALSE) /\ Detach(E, fs, writer, reader) /\ E \in SUBSET Versions
      /\ fate[v] = "stored" /\ fate' = fate /\ pins' = Reset(pins, E, 0)
      /\ \A x \in E : pins[x] = 0
  <2>1. \A x \in E : pins[x] = 0
    BY ZenonT(60) DEF FillBegin, MakeRoom, Oldest, EvictableWith
  <2>2. fate[v] = "stored" /\ fate' = fate
    BY Zenon DEF FillBegin, MayFill
  <2>3. Register(E, {}, FALSE)
    BY Zenon DEF FillBegin, Drop
  <2>4. Detach(E, fs, writer, reader) /\ pins' = Reset(pins, E, 0)
    BY ZenonT(60) DEF FillBegin
  <2>5. E \in SUBSET Versions
    BY Zenon DEF TypeOK
  <2> HIDE DEF fs, t
  <2> QED BY ZenonT(60), <2>1, <2>2, <2>3, <2>4, <2>5
<1>3. /\ entries' = entries \ E
      /\ \A x \in entries \ E : /\ present'[x] = present[x] /\ data'[x] = data[x]
                                /\ map'[x] = map[x] /\ writing'[x] = writing[x]
                                /\ x \in files => x \in files'
  BY Zenon, <1>2, DropKeeps
<1>4. \A x \in Versions : Held(x) => x \notin E /\ pins'[x] = pins[x]
  BY ZenonT(60), <1>2, HeldPinned DEF Reset
<1>5. ASSUME NEW g \in Fills, fill'[g] # NoTask PROVE fate'[fill'[g].v] \in {"stored", "gone"}
  <2>1. fill'[g] = Orphan(fs[g], E) /\ fs[g] \in FillTask \cup {NoTask}
    BY Zenon, <1>1, <1>2 DEF Detach, FillType
  <2>2. fs[g] # NoTask /\ fill'[g].v = fs[g].v
    <3> HIDE DEF fs
    <3> QED BY ZenonT(60), <1>5, <2>1, OrphanSame
  <2>3. CASE g = f
    <3>1. fs[g].v = v
      BY Zenon, <2>3, TypeTasks DEF FillType
    <3>2. fate'[v] = "stored"
      BY Zenon, <1>2
    <3> HIDE DEF fs, t
    <3> QED BY Zenon, <2>2, <3>1, <3>2
  <2>4. CASE g # f
    <3>1. fs[g] = fill[g]
      BY Zenon, <2>4, TypeTasks DEF FillType
    <3>2. fate[fill[g].v] \in {"stored", "gone"}
      BY Zenon, <2>2, <3>1, UploadFill
    <3>3. fate' = fate
      BY Zenon, <1>2
    <3> HIDE DEF fs
    <3> QED BY ZenonT(60), <2>2, <3>1, <3>2, <3>3
  <2> QED BY Zenon, <2>3, <2>4
<1>6. ASSUME NEW x \in Writers, writer'[x] # NoTask
      PROVE  IF writer'[x].role = "fill" THEN fate'[writer'[x].v] \in {"stored", "gone"}
             ELSE /\ fate'[writer'[x].v] = "staging" /\ writer'[x].own
                  /\ pins'[writer'[x].v] > 0
  <2>1. writer'[x] = Orphan(writer[x], E) /\ writer[x] \in WriterTask \cup {NoTask}
    BY Zenon, <1>2 DEF Detach, TypeOK
  <2>2. /\ writer[x] # NoTask /\ writer'[x].v = writer[x].v /\ writer'[x].role = writer[x].role
        /\ writer[x].v \notin E => writer'[x] = writer[x]
    BY ZenonT(60), <1>6, <2>1, OrphanSame
  <2>3. writer[x].role # "fill" => Held(writer[x].v)
    BY Zenon, <2>2 DEF Held
  <2>4. writer[x].v \in Versions
    BY Zenon, <2>1, <2>2 DEF WriterTask
  <2>5. IF writer[x].role = "fill" THEN fate[writer[x].v] \in {"stored", "gone"}
        ELSE fate[writer[x].v] = "staging" /\ writer[x].own /\ pins[writer[x].v] > 0
    BY Zenon, <2>2, UploadOf
  <2>6. writer[x].role # "fill" =>
          writer[x].v \notin E /\ pins'[writer[x].v] = pins[writer[x].v]
    BY Zenon, <1>4, <2>3, <2>4
  <2>7. fate' = fate
    BY ZenonT(60), <1>2
  <2> QED BY ZenonT(60), <2>2, <2>5, <2>6, <2>7
<1>7. ASSUME NEW x \in Versions, fate'[x] = "pending", Size[x] # 0 PROVE Complete(x)' /\ pins'[x] > 0
  <2>1. Held(x) /\ Complete(x) /\ pins[x] > 0
    BY Zenon, <1>2, <1>7, UploadPending DEF Held
  <2>2. pins'[x] = pins[x] /\ x \in entries \ E
    BY Zenon, <1>4, <2>1 DEF Complete
  <2> QED BY Zenon, <1>3, <2>1, <2>2 DEF Complete, Blocks, Bytes, BlockOf
<1> QED BY ZenonT(60), <1>5, <1>6, <1>7 DEF Uploads

\* The end of an upload: the version moves on, and no other task is on it.
LEMMA UploadsEnd ==
    ASSUME TypeOK, Attached, Ledger, Uploads, NEW w \in Writers, writer[w] # NoTask,
           writer[w].role # "fill",
           WriterFinish(w) \/ WriterCloseEmpty(w) \/ WriterAbort(w)
    PROVE  Uploads'
<1> DEFINE t == writer[w]
           ws == [writer EXCEPT ![w] = NoTask]
<1>t. /\ t \in WriterTask /\ t.v \in Versions /\ t.own /\ Live(t) /\ fate[t.v] = "staging"
      /\ pins[t.v] > 0
  <2>1. fate[t.v] = "staging" /\ t.own /\ pins[t.v] > 0
    BY Zenon, UploadOf
  <2> QED BY Zenon, <2>1 DEF TypeOK, WriterTask, Live
<1>f. writer \in [Writers -> WriterTask \cup {NoTask}]
  BY Zenon DEF TypeOK
<1>1. \A x \in Writers : x # w /\ writer[x] # NoTask => writer[x].v # t.v
  <2> SUFFICES ASSUME NEW x \in Writers, x # w, writer[x] # NoTask, writer[x].v = t.v
               PROVE  FALSE
    BY Zenon
  <2>1. writer[x].role # "fill" /\ writer[x].own
    BY Zenon, <1>t, UploadOf
  <2> QED BY Zenon, <1>t, <2>1 DEF Ledger, Live
<1>2. \A f \in Fills : fill[f] # NoTask => fill[f].v # t.v
  BY Zenon, <1>t, UploadFill
<1>3. \E x \in Fates \ {"new", "staging"} : fate' = [fate EXCEPT ![t.v] = x]
  <2>1. t.role \in {"save", "stage"}
    BY Zenon, <1>t DEF WriterTask
  <2>2. CASE WriterFinish(w) \/ WriterCloseEmpty(w)
    <3>1. fate' = Uploaded(t)
      BY SMTT(60), ZenonT(60), Z3T(60), <2>2 DEF WriterFinish, WriterCloseEmpty
    <3> HIDE DEF t
    <3> QED BY ZenonT(60), <2>1, <3>1 DEF Uploaded, Fates
  <2>3. CASE WriterAbort(w)
    <3>1. fate' = CASE t.role = "fill" -> fate
                    [] t.role = "save" /\ t.st = "failing" -> [fate EXCEPT ![t.v] = "stored"]
                    [] OTHER -> [fate EXCEPT ![t.v] = "gone"]
      BY Zenon, <2>3 DEF WriterAbort
    <3> HIDE DEF t
    <3>2. fate' = [fate EXCEPT ![t.v] = "stored"] \/ fate' = [fate EXCEPT ![t.v] = "gone"]
      BY ZenonT(60), <2>1, <3>1
    <3> QED BY Zenon, <3>2 DEF Fates
  <2> QED BY ZenonT(60), <2>2, <2>3
<1>4. \A v \in Versions : v # t.v => fate'[v] = fate[v]
  BY Zenon, <1>3, <1>t DEF TypeOK
<1>5. CASE WriterFinish(w) \/ WriterCloseEmpty(w)
  <2>1. /\ writer' = ws /\ UNCHANGED <<entries, present, pins, fill>>
        /\ \/ writing' = [writing EXCEPT ![t.v] = FALSE] /\ t.st = "closing"
           \/ writing' = writing /\ Size[t.v] = 0
    BY Zenon, <1>5, <1>t DEF WriterFinish, WriterCloseEmpty, disk
  <2>2. \A f \in Fills : fill'[f] # NoTask => fate'[fill'[f].v] \in {"stored", "gone"}
    <3>1. \A f \in Fills : fill[f] # NoTask => fill[f].v \in Versions
      BY Zenon DEF TypeOK, FillTask
    <3>2. fill' = fill
      BY Zenon, <2>1
    <3> HIDE DEF t, ws
    <3> QED BY ZenonT(60), <1>2, <1>4, <3>1, <3>2, UploadFill
  <2>3. \A x \in Writers : writer'[x] # NoTask =>
            x # w /\ writer'[x] = writer[x] /\ writer[x].v \in Versions
    BY Zenon, <2>1, <1>f DEF WriterTask
  <2>4. ASSUME NEW x \in Writers, writer'[x] # NoTask
        PROVE  IF writer'[x].role = "fill" THEN fate'[writer'[x].v] \in {"stored", "gone"}
               ELSE /\ fate'[writer'[x].v] = "staging" /\ writer'[x].own
                    /\ pins'[writer'[x].v] > 0
    <3>1. writer'[x] = writer[x] /\ writer[x] # NoTask /\ x # w /\ writer[x].v \in Versions
      BY Zenon, <2>3, <2>4
    <3>2. fate'[writer[x].v] = fate[writer[x].v]
      BY ZenonT(60), <1>1, <1>4, <3>1
    <3>3. pins' = pins
      BY Zenon, <2>1
    <3> HIDE DEF t, ws
    <3> QED BY ZenonT(60), <3>1, <3>2, <3>3, UploadOf
  <2>5. ASSUME NEW v \in Versions, fate'[v] = "pending", Size[v] # 0 PROVE Complete(v)' /\ pins'[v] > 0
    <3>1. CASE v = t.v
      <4>0. writing' = [writing EXCEPT ![t.v] = FALSE] /\ t.st = "closing"
        BY ZenonT(60), <2>1, <2>5, <3>1
      <4>1. v \in entries /\ Blocks(v) \subseteq present[v]
        BY ZenonT(60), <1>t, <2>1, <3>1, <4>0 DEF Attached, WriterAttached
      <4>2. writing'[v] = FALSE
        BY Zenon, <3>1, <4>0 DEF TypeOK
      <4> QED BY ZenonT(60), <1>t, <2>1, <3>1, <4>1, <4>2 DEF Complete, Blocks, Bytes, BlockOf
    <3>2. CASE v # t.v
      <4>1. Complete(v) /\ pins[v] > 0
        BY ZenonT(60), <1>4, <2>5, <3>2, UploadPending
      <4>2. writing'[v] = writing[v]
        BY ZenonT(60), <1>t, <2>1, <3>2 DEF TypeOK
      <4> QED BY Zenon, <2>1, <4>1, <4>2 DEF Complete, Blocks, Bytes, BlockOf
    <3> QED BY Zenon, <3>1, <3>2
  <2> QED BY ZenonT(60), <2>2, <2>4, <2>5 DEF Uploads
<1>6. CASE WriterAbort(w)
  <2> DEFINE D == {t.v} \cap entries
  <2>1. /\ Register(D, {}, FALSE) /\ Detach(D, fill, ws, reader) /\ D \in SUBSET Versions
        /\ pins' = Reset(pins, D, 0)
    <3>1. Remove(t.v, fill, ws)
      BY Zenon, <1>6 DEF WriterAbort
    <3>2. D \in SUBSET Versions
      BY Zenon, <1>t
    <3> HIDE DEF t, ws
    <3>3. Drop(D) /\ Detach(D, fill, ws, reader) /\ pins' = Reset(pins, D, 0)
      BY Zenon, <3>1 DEF Remove
    <3> QED BY Zenon, <3>2, <3>3 DEF Drop
  <2>2. fate'[t.v] # "pending"
    BY ZenonT(60), <1>6, <1>t DEF WriterAbort, TypeOK
  <2>3. t.v \in Versions /\ D \subseteq {t.v}
    BY Zenon, <1>t
  <2> HIDE DEF D
  <2>4. /\ entries' = entries \ D
        /\ \A v \in entries \ D : /\ present'[v] = present[v] /\ data'[v] = data[v]
                                  /\ map'[v] = map[v] /\ writing'[v] = writing[v]
                                  /\ v \in files => v \in files'
    BY Zenon, <2>1, DropKeeps
  <2>5. \A v \in Versions : v # t.v => pins'[v] = pins[v]
    BY Zenon, <2>1, <2>3 DEF Reset
  <2>6. ASSUME NEW f \in Fills, fill'[f] # NoTask PROVE fate'[fill'[f].v] \in {"stored", "gone"}
    <3>1. fill'[f] = Orphan(fill[f], D) /\ fill[f] \in FillTask \cup {NoTask}
      BY ZenonT(60), <2>1 DEF Detach, TypeOK
    <3>2. fill[f] # NoTask /\ fill'[f].v = fill[f].v /\ fill[f].v \in Versions
      <4>1. Orphan(fill[f], D) # NoTask
        BY Zenon, <2>6, <3>1
      <4>2. fill[f] \in FillTask \cup WriterTask \cup {NoTask}
        BY Zenon, <3>1
      <4>3. fill[f] # NoTask /\ Orphan(fill[f], D).v = fill[f].v
        BY ZenonT(60), <4>1, <4>2, OrphanSame
      <4> QED BY Zenon, <3>1, <4>3 DEF FillTask
    <3>3. fill[f].v # t.v /\ fate[fill[f].v] \in {"stored", "gone"}
      BY Zenon, <1>2, <3>2, UploadFill
    <3>4. fate'[fill[f].v] = fate[fill[f].v]
      BY ZenonT(60), <1>4, <3>2, <3>3
    <3> QED BY ZenonT(60), <3>2, <3>3, <3>4
  <2>7. ASSUME NEW x \in Writers, writer'[x] # NoTask
        PROVE  IF writer'[x].role = "fill" THEN fate'[writer'[x].v] \in {"stored", "gone"}
               ELSE /\ fate'[writer'[x].v] = "staging" /\ writer'[x].own
                    /\ pins'[writer'[x].v] > 0
    <3>1. writer'[x] = Orphan(ws[x], D) /\ ws[x] \in WriterTask \cup {NoTask}
      BY Zenon, <2>1, <1>f DEF Detach
    <3>2. /\ ws[x] # NoTask /\ writer'[x].v = ws[x].v /\ writer'[x].role = ws[x].role
          /\ ws[x].v \notin D => writer'[x] = ws[x]
      <4> HIDE DEF ws
      <4> QED BY ZenonT(60), <2>7, <3>1, OrphanSame
    <3>3. x # w /\ ws[x] = writer[x] /\ writer[x].v \in Versions
      BY Zenon, <3>1, <3>2, <1>f DEF WriterTask
    <3>4. writer'[x] = writer[x] /\ writer[x].v # t.v /\ writer[x] # NoTask
      BY Zenon, <1>1, <2>3, <3>2, <3>3
    <3>5. fate'[writer[x].v] = fate[writer[x].v] /\ pins'[writer[x].v] = pins[writer[x].v]
      BY Zenon, <1>4, <2>5, <3>3, <3>4
    <3> HIDE DEF t, ws
    <3> QED BY ZenonT(60), <3>4, <3>5, UploadOf
  <2>8. ASSUME NEW v \in Versions, fate'[v] = "pending", Size[v] # 0 PROVE Complete(v)' /\ pins'[v] > 0
    <3>1. v # t.v
      BY Zenon, <2>2, <2>8
    <3>2. Complete(v) /\ pins[v] > 0
      BY Zenon, <1>4, <2>8, <3>1, UploadPending
    <3>3. v \in entries \ D
      BY Zenon, <2>3, <3>1, <3>2 DEF Complete
    <3> QED BY ZenonT(60), <2>4, <2>5, <3>1, <3>2, <3>3 DEF Complete, Blocks, Bytes, BlockOf
  <2> QED BY Zenon, <2>6, <2>7, <2>8 DEF Uploads
<1> QED BY Zenon, <1>5, <1>6

\* load() finds a pinned, complete entry again: the index and the map file
\* followed the memory.
LEMMA UploadsRestart ==
    ASSUME TypeOK, Attached, Journal, Uploads, "map" \notin Faults, "index" \notin Faults,
           NEW order, Restart(order)
    PROVE  Uploads'
<1> DEFINE kept == {v \in Versions : index[v] \in {"pinned", "free"} /\ v \in files}
<1>1. /\ entries' = kept /\ writing' = [v \in Versions |-> FALSE]
      /\ present' = [v \in Versions |-> IF v \in kept THEN map[v] ELSE {}]
      /\ pins' = [v \in Versions |-> IF v \in kept /\ index[v] = "pinned" THEN 1 ELSE 0]
      /\ fill' = [f \in Fills |-> NoTask] /\ writer' = [w \in Writers |-> NoTask]
      /\ fate' = [v \in Versions |-> IF fate[v] = "staging" THEN "gone" ELSE fate[v]]
  BY ZenonT(60) DEF Restart
<1>2. ASSUME NEW v \in Versions, fate'[v] = "pending", Size[v] # 0 PROVE Complete(v)' /\ pins'[v] > 0
  <2>1. Complete(v) /\ pins[v] > 0
    BY Zenon, <1>1, <1>2, UploadPending
  <2>2. v \in entries /\ ~writing[v] /\ v \in files
    BY Zenon, <2>1 DEF Complete, Attached, Stored
  <2>3. index[v] = "pinned" /\ map[v] = present[v]
    BY ZenonT(60), <2>1, <2>2 DEF Journal, Snapshot
  <2>4. v \in kept /\ present'[v] = present[v] /\ pins'[v] = 1 /\ writing'[v] = FALSE
    BY Zenon, <1>1, <2>2, <2>3
  <2>5. entries' = kept
    BY Zenon, <1>1
  <2> HIDE DEF kept
  <2>6. Complete(v)'
    BY ZenonT(60), <2>1, <2>4, <2>5 DEF Complete, Blocks, Bytes, BlockOf
  <2>7. pins'[v] > 0
    BY SMTT(60), Z3T(60), <2>4
  <2> QED BY Zenon, <2>6, <2>7
<1> QED BY Zenon, <1>1, <1>2 DEF Uploads

\* Every step keeps the uploads held.
LEMMA UploadsStep ==
    ASSUME "map" \notin Faults, "index" \notin Faults
    PROVE  TypeOK /\ Attached /\ Ledger /\ Journal /\ Uploads /\ [Next]_vars => Uploads'
<1> SUFFICES ASSUME TypeOK, Attached, Ledger, Journal, Uploads, [Next]_vars PROVE Uploads'
  BY Zenon
<1>b. \A v \in Versions : Blocks(v) \subseteq Nat
  BY Zenon, BlocksNat
<1>1. ASSUME NEW w \in Writers, writer[w] # NoTask, WriterStep(w) PROVE Uploads'
  <2>1. writer[w].v \in Versions
    BY ZenonT(60), <1>1 DEF TypeOK, WriterTask
  <2>3. CASE writer[w].role # "fill" /\ (WriterFinish(w) \/ WriterCloseEmpty(w) \/ WriterAbort(w))
    BY ZenonT(60), <1>1, <2>3, UploadsEnd
  <2>4. CASE ~(writer[w].role # "fill" /\ (WriterFinish(w) \/ WriterCloseEmpty(w) \/ WriterAbort(w)))
    <3>1. \/ writer[w].role = "fill"
              /\ (WriterFinish(w) \/ WriterCloseEmpty(w) \/ WriterAbort(w))
          \/ WriterError(w) \/ WriterMark(w) \/ WriterGiveUp(w)
          \/ \E n \in 1 .. Size[writer[w].v] : WriterPwrite(w, n)
      BY ZenonT(60), <1>1, <2>4 DEF WriterStep
    <3> QED BY Zenon, <1>1, <3>1, WriterSteady, SteadyUploads
  <2> QED BY Zenon, <2>3, <2>4
<1>2. CASE \E stale, cut, E \in SUBSET entries : Sweep(stale, cut, E)
  BY Zenon, <1>2, SweepSteady, SteadyUploads
<1>3. CASE \E order \in SUBSET (Versions \X Versions) : Restart(order)
  BY Zenon, <1>3, UploadsRestart
<1>4. CASE \E v \in Versions, E \in SUBSET entries, role \in {"save", "stage", "fill"} :
             (\E w \in Writers : OpenStaging(w, v, role, E)) \/ RefuseStaging(v, role, E)
  BY Zenon, <1>4, UploadsOpen, FillSteady, SteadyUploads
<1>5. CASE \E v \in Versions, E \in SUBSET entries : \E b \in Blocks(v) :
             (\E f \in Fills : FillBegin(f, v, b, E)) \/ RefuseFill(v, b, E)
  BY ZenonT(60), <1>b, <1>5, UploadsBegin, FillSteady, SteadyUploads
<1>6. CASE \/ \E v \in Versions, E \in SUBSET entries : Reserve(v, E) \/ RefuseReserve(v, E)
           \/ \E f \in Fills : FillStep(f) \/ FillCancel(f)
  BY ZenonT(60), <1>6, FillSteady, SteadyUploads
<1>7. CASE \/ \E r \in Readers :
                 \/ \E v \in Versions : \E bs \in SUBSET Blocks(v) : ReadBegin(r, v, bs)
                 \/ ReadError(r) \/ ReadStop(r)
                 \/ \E b \in reader[r].todo : ReadChunk(r, b)
           \/ \E v \in Versions : Release(v) \/ Forget(v) \/ UploadUncached(v) \/ Distribute(v)
           \/ EvictUnpinned
           \/ UNCHANGED vars
  BY Zenon, <1>7, OtherSteady, SteadyUploads
<1> QED BY ZenonT(60), <1>1, <1>2, <1>3, <1>4, <1>5, <1>6, <1>7 DEF Next

\* The uploads stay held, from the start on.
LEMMA UploadsKept ==
    ASSUME "map" \notin Faults, "index" \notin Faults
    PROVE  Spec => []Uploads
<1>1. Init => Uploads
  <2> SUFFICES ASSUME Init PROVE Uploads
    BY Zenon
  <2>1. \A f \in Fills : fill[f] = NoTask
    BY Zenon DEF Init
  <2>2. \A w \in Writers : writer[w] = NoTask
    BY Zenon DEF Init
  <2>3. \A v \in Versions : fate[v] # "pending"
    BY Zenon DEF Init
  <2> QED BY Zenon, <2>1, <2>2, <2>3 DEF Uploads
<1>2. TypeOK /\ Attached /\ Ledger /\ Journal /\ Uploads /\ [Next]_vars => Uploads'
  BY Zenon, UploadsStep
<1> QED BY <1>1, <1>2, TypeCorrect, TasksAttached, LedgerKept, JournalKept, PTL DEF Spec

\* A write-back version, which no store has yet, stays registered, pinned
\* and complete in the cache until it is distributed or deleted, through
\* every eviction, sweep, failed fill, cancelled task and restart.  The disk
\* must not lose index or map writes; the versions that are not empty are
\* safe whether or not there are empty ones.
THEOREM PendingKept ==
    ASSUME "map" \notin Faults, "index" \notin Faults
    PROVE  Spec => []PendingIsSafe
<1>1. Uploads => PendingIsSafe
  BY Zenon DEF Uploads, PendingIsSafe
<1>2. Spec => []Uploads
  BY Zenon, UploadsKept
<1> QED BY <1>1, <1>2, PTL

-----------------------------------------------------------------------------
(* Restarts.                                                               *)

\* load() rebuilds, from the index, the maps and the files, the finished
\* entries that were in memory.
LEMMA RestartRebuilds ==
    ASSUME TypeOK, Attached, Journal, "map" \notin Faults, "index" \notin Faults,
           NEW order, Restart(order), NEW v \in Versions
    PROVE  IF v \in entries /\ ~writing[v]
           THEN /\ v \in entries' /\ ~writing'[v]
                /\ present'[v] = present[v]
                /\ pins'[v] > 0 <=> pins[v] > 0
           ELSE v \notin entries'
<1> DEFINE kept == {x \in Versions : index[x] \in {"pinned", "free"} /\ x \in files}
<1>1. /\ entries' = kept /\ writing' = [x \in Versions |-> FALSE]
      /\ present' = [x \in Versions |-> IF x \in kept THEN map[x] ELSE {}]
      /\ pins' = [x \in Versions |-> IF x \in kept /\ index[x] = "pinned" THEN 1 ELSE 0]
  BY ZenonT(60) DEF Restart
<1>2. index[v] = IF v \notin entries THEN "absent"
                 ELSE IF writing[v] THEN "writing"
                 ELSE IF pins[v] > 0 THEN "pinned" ELSE "free"
  BY ZenonT(60) DEF Journal, Snapshot
<1>3. CASE v \in entries /\ ~writing[v]
  <2>1. v \in files /\ map[v] = present[v]
    BY ZenonT(60), <1>3 DEF Attached, Stored, Journal
  <2>2. v \in kept
    BY ZenonT(60), <1>2, <1>3, <2>1
  <2>3. v \in entries' /\ ~writing'[v] /\ present'[v] = present[v]
    BY ZenonT(60), <1>1, <2>1, <2>2
  <2>4. CASE pins[v] > 0
    <3>1. pins'[v] = 1
      BY ZenonT(60), <1>1, <1>2, <1>3, <2>2, <2>4
    <3>2. pins'[v] > 0
      BY SMTT(60), Z3T(60), <3>1
    <3> QED BY Zenon, <1>3, <2>3, <2>4, <3>2
  <2>5. CASE ~(pins[v] > 0)
    <3>1. index[v] = "free"
      BY ZenonT(60), <1>2, <1>3, <2>5
    <3>2. pins'[v] = 0
      BY ZenonT(60), <1>1, <3>1
    <3>3. ~(pins'[v] > 0)
      BY SMTT(60), Z3T(60), <3>2
    <3> QED BY Zenon, <1>3, <2>3, <2>5, <3>3
  <2> QED BY Zenon, <2>4, <2>5
<1>4. CASE ~(v \in entries /\ ~writing[v])
  <2>1. index[v] \in {"absent", "writing"}
    BY ZenonT(60), <1>2, <1>4
  <2>2. v \notin kept
    BY ZenonT(60), <2>1
  <2> QED BY Zenon, <1>1, <1>4, <2>2
<1> QED BY Zenon, <1>3, <1>4

\* A restart between any two steps keeps every finished entry with its
\* blocks and its pin and admits nothing else, whatever uploads, fills and
\* reads it interrupts, on a disk that does not lose index or map writes.
THEOREM RestartsExact ==
    ASSUME "map" \notin Faults, "index" \notin Faults
    PROVE  Spec => RestartIsExact
<1> DEFINE Exact(v) == IF v \in entries /\ ~writing[v]
                       THEN /\ v \in entries' /\ ~writing'[v]
                            /\ present'[v] = present[v]
                            /\ pins'[v] > 0 <=> pins[v] > 0
                       ELSE v \notin entries'
<1>1. TypeOK /\ Attached /\ Journal =>
        [Restart(older') => \A v \in Versions : Exact(v)]_vars
  <2> SUFFICES ASSUME TypeOK, Attached, Journal, Restart(older'), NEW v \in Versions
               PROVE  Exact(v)
    BY Zenon
  <2> QED BY ZenonT(60), RestartRebuilds
<1> QED BY <1>1, TypeCorrect, TasksAttached, JournalKept, PTL DEF RestartIsExact
=============================================================================
