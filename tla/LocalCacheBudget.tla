-------------------------- MODULE LocalCacheBudget --------------------------
(***************************************************************************)
(* The budget theorems of LocalCache: used_bytes never exceeds max_size,   *)
(* the number of entries never exceeds max_files.                          *)
(***************************************************************************)
EXTENDS LocalCacheProofs, FiniteSetTheorems

-----------------------------------------------------------------------------
(***************************************************************************)
(* The budget.  A step either shrinks what is charged (Saves), or turns a  *)
(* claim into a present block, which the Ledger makes free, or takes room  *)
(* after it has evicted enough; a restart admits nothing that was not      *)
(* admitted before, because of the Journal.                                *)
(***************************************************************************)


AllBytes == UNION {Bytes(v) : v \in Versions}

\* The claims of the live fills, entry by entry or not.
Owed == UNION {{f} \X fill[f].claim : f \in {g \in Fills : Live(fill[g])}}

\* The bytes of all versions are finitely many, and a version has Size of them.
LEMMA AllBytesFinite ==
    /\ IsFiniteSet(AllBytes)
    /\ \A v \in Versions : /\ Bytes(v) \subseteq AllBytes /\ IsFiniteSet(Bytes(v))
                           /\ Cardinality(Bytes(v)) = Size[v]
<1>1. ASSUME NEW v \in Versions
      PROVE  IsFiniteSet(Bytes(v)) /\ Cardinality(Bytes(v)) = Size[v]
  <2>1. Size[v] \in Nat /\ 0 \in Int /\ Size[v] - 1 \in Int
    BY SMTT(60), Z3T(60), CacheAssumption
  <2>2. IsFiniteSet(0 .. Size[v] - 1)
        /\ Cardinality(0 .. Size[v] - 1) = IF 0 > Size[v] - 1 THEN 0 ELSE Size[v] - 1 - 0 + 1
    BY ZenonT(60), <2>1, FS_Interval
  <2> QED BY SMTT(60), Z3T(60), <2>1, <2>2 DEF Bytes
<1>2. IsFiniteSet({Bytes(v) : v \in Versions})
  <2> DEFINE g == [v \in Versions |-> Bytes(v)]
             T == {Bytes(v) : v \in Versions}
  <2>1. g \in Surjection(Versions, T)
    BY Zenon DEF Surjection
  <2> QED BY ZenonT(60), <2>1, FS_Surjection, CacheAssumption
<1>3. IsFiniteSet(AllBytes)
  BY ZenonT(60), <1>1, <1>2, FS_UNION DEF AllBytes
<1> QED BY ZenonT(60), <1>1, <1>3 DEF AllBytes

\* A row of pairs is as large as its second components.
LEMMA RowCardinality ==
    ASSUME NEW x, NEW T, IsFiniteSet(T)
    PROVE  IsFiniteSet({x} \X T) /\ Cardinality({x} \X T) = Cardinality(T)
<1>1. IsFiniteSet({x}) /\ Cardinality({x}) = 1
  BY Zenon, FS_Singleton
<1>2. Cardinality(T) \in Nat
  BY Zenon, FS_CardinalityType
<1>3. IsFiniteSet({x} \X T) /\ Cardinality({x} \X T) = Cardinality({x}) * Cardinality(T)
  BY ZenonT(60), <1>1, FS_Product
<1> QED BY SMTT(60), Z3T(60), <1>1, <1>2, <1>3

\* Sets of charged or owed bytes are finite: their cardinalities are numbers.
LEMMA RowsFinite ==
    /\ \A C : C \subseteq Versions \X AllBytes => IsFiniteSet(C) /\ Cardinality(C) \in Nat
    /\ \A K : K \subseteq Fills \X AllBytes => IsFiniteSet(K) /\ Cardinality(K) \in Nat
<1>1. IsFiniteSet(Versions \X AllBytes) /\ IsFiniteSet(Fills \X AllBytes)
  BY ZenonT(60), AllBytesFinite, CacheAssumption, FS_Product
<1>2. ASSUME NEW A, IsFiniteSet(A), NEW B, B \subseteq A
      PROVE  IsFiniteSet(B) /\ Cardinality(B) \in Nat
  BY ZenonT(60), <1>2, FS_Subset, FS_CardinalityType
<1> QED BY ZenonT(60), <1>1, <1>2

\* What a set of entries is charged for is a set of bytes of versions.
LEMMA ChargedIn ==
    ASSUME NEW S \in SUBSET Versions
    PROVE  Charged(S) \subseteq Versions \X AllBytes
<1>1. \A v \in Versions : ChargedBytes(v) \subseteq AllBytes
  BY Zenon, AllBytesFinite DEF ChargedBytes, PresentBytes
<1> QED BY SMTT(60), Z3T(60), <1>1 DEF Charged

\* The claims used_bytes counts are those of the live fills.
LEMMA ClaimedIsOwed ==
    ASSUME Attached, Ledger
    PROVE  Claimed(entries) = Owed
<1>1. ASSUME NEW p \in Claimed(entries) PROVE p \in Owed
  <2>1. PICK f \in UNION {Holders(v) : v \in {u \in entries : ~writing[u]}} :
             p \in {f} \X fill[f].claim
    BY Zenon, <1>1 DEF Claimed
  <2>2. f \in Fills /\ Live(fill[f])
    BY ZenonT(60), <2>1 DEF Holders, Live
  <2> QED BY ZenonT(60), <2>1, <2>2 DEF Owed
<1>2. ASSUME NEW p \in Owed PROVE p \in Claimed(entries)
  <2>1. PICK f \in Fills : Live(fill[f]) /\ p \in {f} \X fill[f].claim
    BY Zenon, <1>2 DEF Owed
  <2>2. fill[f].v \in entries /\ ~writing[fill[f].v]
    BY Zenon, <2>1 DEF Attached, FillAttached, Ledger, FillLedger
  <2>3. f \in Holders(fill[f].v)
    BY ZenonT(60), <2>1 DEF Holders, Live
  <2> QED BY ZenonT(60), <2>1, <2>2, <2>3 DEF Claimed
<1> QED BY ZenonT(60), <1>1, <1>2

\* What fills have claimed and not yet written is a set of bytes of fills.
LEMMA OwedIn ==
    ASSUME TypeOK, Ledger
    PROVE  Owed \subseteq Fills \X AllBytes
<1>1. \A f \in Fills : Live(fill[f]) => fill[f].claim \subseteq AllBytes
  <2>1. \A f \in Fills : Live(fill[f]) => fill[f].v \in Versions
    BY Zenon DEF TypeOK, FillTask, Live
  <2> QED BY ZenonT(60), <2>1, AllBytesFinite DEF Ledger, FillLedger
<1> QED BY SMTT(60), Z3T(60), <1>1 DEF Owed

Layers == TypeOK /\ Attached /\ Ledger /\ Journal

Bounded == /\ Charged(entries) \subseteq Versions \X AllBytes
           /\ Claimed(entries) = Owed
           /\ Owed \subseteq Fills \X AllBytes

\* The layers give the finiteness the arithmetic needs.
LEMMA LayersBound == Layers => Bounded
<1> SUFFICES ASSUME Layers PROVE Bounded
  BY Zenon
<1>1. entries \in SUBSET Versions
  BY Zenon DEF Layers, TypeOK
<1> QED BY Zenon, <1>1, ChargedIn, ClaimedIsOwed, OwedIn DEF Layers, Bounded

\* The same after the step.
LEMMA LayersBoundNext == Layers' => Bounded'
BY LayersBound, PTL

\* A step after which no entry is charged for more and no fill has claimed
\* more than before.
Saves == /\ \A v \in entries' : ChargedBytes(v)' \subseteq
                                  (IF v \in entries THEN ChargedBytes(v) ELSE {})
         /\ \A f \in Fills : Live(fill'[f]) =>
               Live(fill[f]) /\ fill'[f].claim = fill[f].claim

\* A step that settles or shrinks every charge keeps the budget.
LEMMA BudgetSaved ==
    ASSUME Layers, Layers', BudgetHolds, Saves
    PROVE  BudgetHolds'
<1>1. Charged(entries)' \subseteq Charged(entries)
  <2> SUFFICES ASSUME NEW p \in Charged(entries)' PROVE p \in Charged(entries)
    BY Zenon
  <2>1. PICK v \in entries' : p \in {v} \X ChargedBytes(v)'
    BY Zenon DEF Charged
  <2>2. v \in entries /\ p \in {v} \X ChargedBytes(v)
    BY ZenonT(60), <2>1 DEF Saves
  <2> QED BY Zenon, <2>2 DEF Charged
<1>2. Owed' \subseteq Owed
  <2> SUFFICES ASSUME NEW p \in Owed' PROVE p \in Owed
    BY Zenon
  <2>1. PICK f \in Fills : Live(fill'[f]) /\ p \in {f} \X fill'[f].claim
    BY Zenon DEF Owed, Live
  <2> QED BY ZenonT(60), <2>1 DEF Saves, Owed
<1>3. /\ Charged(entries) \subseteq Versions \X AllBytes /\ Claimed(entries) = Owed
      /\ Owed \subseteq Fills \X AllBytes /\ Claimed(entries)' = Owed'
  BY ZenonT(60), LayersBound, LayersBoundNext DEF Bounded
<1> DEFINE C == Charged(entries)  C1 == Charged(entries)'  K == Owed  K1 == Owed'
<1>4. /\ IsFiniteSet(C) /\ IsFiniteSet(K) /\ Cardinality(C) \in Nat /\ Cardinality(K) \in Nat
  BY ZenonT(60), <1>3, RowsFinite
<1>5. C1 \subseteq C /\ K1 \subseteq K
  BY ZenonT(60), <1>1, <1>2
<1> HIDE DEF C, C1, K, K1
<1>6. /\ Cardinality(C1) <= Cardinality(C) /\ IsFiniteSet(C1)
      /\ Cardinality(K1) <= Cardinality(K) /\ IsFiniteSet(K1)
  BY ZenonT(60), <1>4, <1>5, FS_Subset
<1>7. Cardinality(C1) \in Nat /\ Cardinality(K1) \in Nat
  BY ZenonT(60), <1>6, FS_CardinalityType
<1>8. BudgetHolds = (MaxSize # 0 => Cardinality(C) + Cardinality(K) <= MaxSize)
  BY ZenonT(60), <1>3 DEF BudgetHolds, Used, C, K
<1>9. BudgetHolds' = (MaxSize # 0 => Cardinality(C1) + Cardinality(K1) <= MaxSize)
  BY ZenonT(60), <1>3 DEF BudgetHolds, Used, C1, K1
<1> QED BY SMTT(60), Z3T(60), <1>4, <1>6, <1>7, <1>8, <1>9, CacheAssumption

\* Counting: two sets that grew by at most X and Y.
LEMMA Grown ==
    ASSUME NEW C, IsFiniteSet(C), NEW K, IsFiniteSet(K), NEW X, IsFiniteSet(X),
           NEW Y, IsFiniteSet(Y), NEW C1, C1 \subseteq C \cup X, NEW K1, K1 \subseteq K \cup Y
    PROVE  /\ Cardinality(C1) + Cardinality(K1)
                <= Cardinality(C) + Cardinality(K) + Cardinality(X) + Cardinality(Y)
           /\ Cardinality(C) \in Nat /\ Cardinality(K) \in Nat /\ Cardinality(X) \in Nat
           /\ Cardinality(Y) \in Nat /\ Cardinality(C1) \in Nat /\ Cardinality(K1) \in Nat
<1>1. ASSUME NEW A, IsFiniteSet(A), NEW B, IsFiniteSet(B), NEW D, D \subseteq A \cup B
      PROVE  /\ Cardinality(D) <= Cardinality(A) + Cardinality(B) /\ Cardinality(D) \in Nat
             /\ Cardinality(A) \in Nat /\ Cardinality(B) \in Nat
  <2> DEFINE I == A \cap B
             U == A \cup B
  <2>1. IsFiniteSet(I)
    BY ZenonT(60), <1>1, FS_Subset
  <2>2. IsFiniteSet(U) /\ Cardinality(U) = Cardinality(A) + Cardinality(B) - Cardinality(I)
    BY ZenonT(60), <1>1, FS_Union
  <2>3. D \in SUBSET U
    BY ZenonT(60), <1>1
  <2> HIDE DEF U, I
  <2>4. Cardinality(D) <= Cardinality(U) /\ IsFiniteSet(D)
    BY ZenonT(60), <2>2, <2>3, FS_Subset
  <2>5. /\ Cardinality(D) \in Nat /\ Cardinality(A) \in Nat /\ Cardinality(B) \in Nat
        /\ Cardinality(I) \in Nat /\ Cardinality(U) \in Nat
    BY ZenonT(60), <1>1, <2>1, <2>2, <2>4, FS_CardinalityType
  <2> QED BY SMTT(60), Z3T(60), <2>2, <2>4, <2>5
<1>2. /\ Cardinality(C1) <= Cardinality(C) + Cardinality(X)
      /\ Cardinality(K1) <= Cardinality(K) + Cardinality(Y)
      /\ Cardinality(C) \in Nat /\ Cardinality(K) \in Nat /\ Cardinality(X) \in Nat
      /\ Cardinality(Y) \in Nat /\ Cardinality(C1) \in Nat /\ Cardinality(K1) \in Nat
  BY ZenonT(60), <1>1
<1> QED BY SMTT(60), Z3T(60), <1>2

\* A step that took room X and Y after it had evicted E stays in the budget.
LEMMA BudgetTaken ==
    ASSUME Layers, Layers', NEW E \in SUBSET entries, NEW X, IsFiniteSet(X),
           NEW Y, IsFiniteSet(Y),
           Charged(entries)' \subseteq Charged(entries \ E) \cup X,
           Owed' \subseteq Claimed(entries \ E) \cup Y,
           MaxSize # 0 => Used(entries \ E) + Cardinality(X) + Cardinality(Y) <= MaxSize
    PROVE  BudgetHolds'
<1>1. Claimed(entries \ E) \subseteq Claimed(entries)
  BY ZenonT(60) DEF Claimed
<1>2. Charged(entries \ E) \subseteq Charged(entries)
  BY Zenon DEF Charged
<1>3. /\ Charged(entries) \subseteq Versions \X AllBytes /\ Claimed(entries) = Owed
      /\ Owed \subseteq Fills \X AllBytes /\ Claimed(entries)' = Owed'
  BY Zenon, LayersBound, LayersBoundNext DEF Bounded
<1> DEFINE C == Charged(entries \ E)  C1 == Charged(entries)'
           K == Claimed(entries \ E)  K1 == Owed'
<1>4. IsFiniteSet(C) /\ IsFiniteSet(K)
  BY ZenonT(60), <1>1, <1>2, <1>3, RowsFinite
<1>5. C1 \subseteq C \cup X /\ K1 \subseteq K \cup Y
  BY Zenon
<1>6. MaxSize # 0 => Cardinality(C) + Cardinality(K) + Cardinality(X) + Cardinality(Y) <= MaxSize
  BY ZenonT(60) DEF Used
<1>7. BudgetHolds' = (MaxSize # 0 => Cardinality(C1) + Cardinality(K1) <= MaxSize)
  BY ZenonT(60), <1>3 DEF BudgetHolds, Used
<1> HIDE DEF C, C1, K, K1
<1>8. /\ Cardinality(C1) + Cardinality(K1)
           <= Cardinality(C) + Cardinality(K) + Cardinality(X) + Cardinality(Y)
      /\ Cardinality(C) \in Nat /\ Cardinality(K) \in Nat /\ Cardinality(X) \in Nat
      /\ Cardinality(Y) \in Nat /\ Cardinality(C1) \in Nat /\ Cardinality(K1) \in Nat
  BY SMTT(60), Z3T(60), <1>4, <1>5, Grown
<1>9. MaxSize # 0 => Cardinality(C1) + Cardinality(K1) <= MaxSize
  <2> DEFINE a == Cardinality(C1)  b == Cardinality(K1)  c == Cardinality(C)
             d == Cardinality(K)  x == Cardinality(X)  y == Cardinality(Y)
  <2>1. a \in Nat /\ b \in Nat /\ c \in Nat /\ d \in Nat /\ x \in Nat /\ y \in Nat
        /\ a + b <= c + d + x + y /\ (MaxSize # 0 => c + d + x + y <= MaxSize)
    BY ZenonT(60), <1>6, <1>8
  <2> HIDE DEF a, b, c, d, x, y
  <2>2. MaxSize # 0 => a + b <= MaxSize
    BY SMTT(60), Z3T(60), <2>1, CacheAssumption
  <2> QED BY ZenonT(60), <2>2 DEF a, b
<1> QED BY ZenonT(60), <1>7, <1>9

\* Who is still live after E was dropped, with the fills fs given.
LEMMA SurvivingFills ==
    ASSUME TypeOK, Attached, NEW D, NEW fs \in FillType, NEW ws, NEW rs, Detach(D, fs, ws, rs),
           NEW f \in Fills, Live(fill'[f])
    PROVE  fill'[f] = fs[f] /\ Live(fs[f]) /\ fs[f].v \notin D
<1>1. fill'[f] = Orphan(fs[f], D) /\ fs[f] \in FillTask \cup {NoTask}
  BY ZenonT(60) DEF Detach, FillType
<1>2. /\ fs[f] \in FillTask \cup WriterTask \cup ReaderTask \cup {NoTask}
      /\ Live(Orphan(fs[f], D))
  BY ZenonT(60), <1>1
<1>3. Orphan(fs[f], D) = fs[f] /\ Live(fs[f]) /\ fs[f].v \notin D
  BY ZenonT(60), <1>2, OrphanLive
<1> QED BY ZenonT(60), <1>1, <1>3

\* Used(entries \ E) is a number.
LEMMA UsedNat ==
    ASSUME Layers, NEW E
    PROVE  Used(entries \ E) \in Nat
<1>1. Charged(entries \ E) \subseteq Versions \X AllBytes
  BY ZenonT(60), ChargedIn DEF Layers, TypeOK
<1>2. Claimed(entries \ E) \subseteq Fills \X AllBytes
  <2>1. Claimed(entries \ E) \subseteq Claimed(entries)
    BY ZenonT(60) DEF Claimed
  <2> QED BY ZenonT(60), <2>1, LayersBound DEF Bounded
<1>3. Cardinality(Charged(entries \ E)) \in Nat /\ Cardinality(Claimed(entries \ E)) \in Nat
  BY Zenon, <1>1, <1>2, RowsFinite
<1> QED BY SMTT(60), Z3T(60), <1>3 DEF Used

\* An entry whose blocks and writing flag stay has the same charge.
LEMMA ChargedKept ==
    ASSUME NEW v, present'[v] = present[v], writing'[v] = writing[v]
    PROVE  ChargedBytes(v)' = ChargedBytes(v)
BY Zenon DEF ChargedBytes, PresentBytes, Bytes, BlockOf

\* Opening a staging file keeps the budget: _admit has made room for all of it.
LEMMA BudgetOpen ==
    ASSUME Layers, Layers', NEW w \in Writers, NEW v \in Versions,
           NEW E \in SUBSET entries, NEW role \in {"save", "stage", "fill"},
           OpenStaging(w, v, role, E)
    PROVE  BudgetHolds'
<1> USE DEF Layers
<1> DEFINE t == [st |-> "open", v |-> v, role |-> role, off |-> 0, fd |-> FALSE, own |-> TRUE]
           ws == [writer EXCEPT ![w] = t]
<1>1. /\ Register(E, {v}, TRUE) /\ Detach(E, fill, ws, reader)
      /\ {v} \cap entries = {} /\ {v} \in SUBSET Versions /\ E \in SUBSET Versions
      /\ FitsBytes(E, Size[v])
  BY ZenonT(60) DEF OpenStaging, MayStage, TypeOK, MakeRoom, FitsBudget
<1>2. /\ entries' = (entries \ E) \cup {v}
      /\ \A x \in entries \ E : /\ present'[x] = present[x] /\ data'[x] = data[x]
                                /\ map'[x] = map[x] /\ writing'[x] = writing[x]
                                /\ x \in files => x \in files'
      /\ \A x \in {v} : /\ present'[x] = {} /\ data'[x] = {} /\ map'[x] = {}
                        /\ writing'[x] = TRUE /\ x \in files'
  BY ZenonT(60), <1>1, RegisterKeeps
<1>3. Charged(entries)' \subseteq Charged(entries \ E) \cup ({v} \X Bytes(v))
  <2> SUFFICES ASSUME NEW p \in Charged(entries)'
               PROVE  p \in Charged(entries \ E) \cup ({v} \X Bytes(v))
    BY Zenon
  <2>1. PICK x \in entries' : p \in {x} \X ChargedBytes(x)'
    BY ZenonT(60) DEF Charged
  <2>2. CASE x \in entries \ E
    <3>1. ChargedBytes(x)' = ChargedBytes(x)
      BY ZenonT(60), <1>2, <2>2, ChargedKept
    <3> QED BY ZenonT(60), <2>1, <2>2, <3>1 DEF Charged
  <2>3. CASE x = v
    <3>1. ChargedBytes(x)' \subseteq Bytes(v)
      BY ZenonT(60), <2>3 DEF ChargedBytes, PresentBytes, Bytes
    <3> QED BY ZenonT(60), <2>1, <2>3, <3>1
  <2> QED BY ZenonT(60), <1>2, <2>2, <2>3
<1>4. Owed' \subseteq Claimed(entries \ E) \cup {}
  <2> SUFFICES ASSUME NEW p \in Owed' PROVE p \in Claimed(entries \ E)
    BY Zenon
  <2>1. PICK f \in Fills : Live(fill'[f]) /\ p \in {f} \X fill'[f].claim
    BY Zenon DEF Owed, Live
  <2>2. fill \in FillType
    BY ZenonT(60), TypeTasks
  <2> HIDE DEF ws
  <2>3. fill'[f] = fill[f] /\ Live(fill[f]) /\ fill[f].v \notin E
    BY ZenonT(60), <1>1, <2>1, <2>2, SurvivingFills
  <2>4. fill[f].v \in entries \ E /\ ~writing[fill[f].v]
    BY ZenonT(60), <2>3 DEF Attached, FillAttached, Ledger, FillLedger
  <2>5. f \in Holders(fill[f].v)
    BY ZenonT(60), <2>1, <2>3 DEF Holders, Live
  <2> QED BY ZenonT(60), <2>1, <2>3, <2>4, <2>5 DEF Claimed
<1>5. /\ IsFiniteSet({v} \X Bytes(v)) /\ Cardinality({v} \X Bytes(v)) = Size[v]
      /\ IsFiniteSet({}) /\ Cardinality({}) = 0 /\ Size[v] \in Nat
  <2>1. IsFiniteSet(Bytes(v)) /\ Cardinality(Bytes(v)) = Size[v]
    BY ZenonT(60), AllBytesFinite
  <2>2. IsFiniteSet({v} \X Bytes(v)) /\ Cardinality({v} \X Bytes(v)) = Size[v]
    BY ZenonT(60), <2>1, RowCardinality
  <2>3. IsFiniteSet({}) /\ Cardinality({}) = 0
    BY ZenonT(60), FS_EmptySet
  <2>4. Size[v] \in Nat
    BY ZenonT(60), CacheAssumption
  <2> QED BY Zenon, <2>2, <2>3, <2>4
<1>6. MaxSize # 0 => Used(entries \ E) + Cardinality({v} \X Bytes(v)) + Cardinality({}) <= MaxSize
  <2>1. Used(entries \ E) \in Nat
    BY ZenonT(60), UsedNat
  <2> QED BY SMTT(60), Z3T(60), <1>1, <1>5, <2>1, CacheAssumption DEF FitsBytes
<1> QED BY ZenonT(60), <1>3, <1>4, <1>5, <1>6, BudgetTaken

\* The start of a fill takes the room it made, or needs none.
LEMMA BudgetBegin ==
    ASSUME Layers, Layers', BudgetHolds, NEW f \in Fills, NEW v \in Versions,
           NEW b \in Blocks(v), NEW E \in SUBSET entries, FillBegin(f, v, b, E)
    PROVE  BudgetHolds'
<1> USE DEF Layers
<1> DEFINE t == [st |-> "begun", v |-> v, b |-> b, claim |-> Added(v, b), own |-> TRUE]
           fs == [fill EXCEPT ![f] = t]
           X == {}
           Y == {f} \X Added(v, b)
<1>1. fs \in FillType
  <2>1. b \in Nat /\ Added(v, b) \in SUBSET Nat
    BY ZenonT(60), BlocksNat DEF Added
  <2> QED BY ZenonT(60), <2>1, TypeTasks DEF FillType, FillTask
<1>2. /\ Register(E, {}, FALSE) /\ Detach(E, fs, writer, reader)
      /\ v \in entries /\ E \in SUBSET Versions
  BY ZenonT(60) DEF FillBegin, Drop, MayFill, TypeOK
<1>3. /\ entries' = entries \ E
      /\ \A x \in entries \ E : /\ present'[x] = present[x] /\ data'[x] = data[x]
                                /\ map'[x] = map[x] /\ writing'[x] = writing[x]
                                /\ x \in files => x \in files'
  BY ZenonT(60), <1>2, DropKeeps
<1>4. Charged(entries)' \subseteq Charged(entries \ E) \cup X
  <2> SUFFICES ASSUME NEW p \in Charged(entries)' PROVE p \in Charged(entries \ E)
    BY Zenon
  <2>1. PICK x \in entries' : p \in {x} \X ChargedBytes(x)'
    BY Zenon DEF Charged
  <2>2. ChargedBytes(x)' = ChargedBytes(x)
    BY ZenonT(60), <1>3, ChargedKept
  <2>3. x \in entries \ E /\ p \in {x} \X ChargedBytes(x)
    BY ZenonT(60), <1>3, <2>1, <2>2
  <2> QED BY ZenonT(60), <2>3 DEF Charged
<1>5. Owed' \subseteq Claimed(entries \ E) \cup Y
  <2> SUFFICES ASSUME NEW p \in Owed' PROVE p \in Claimed(entries \ E) \cup Y
    BY ZenonT(60)
  <2>1. PICK g \in Fills : Live(fill'[g]) /\ p \in {g} \X fill'[g].claim
    BY ZenonT(60) DEF Owed, Live
  <2>2. fill'[g] = fs[g] /\ Live(fs[g]) /\ fs[g].v \notin E
    <3> HIDE DEF fs
    <3> QED BY ZenonT(60), <1>1, <1>2, <2>1, SurvivingFills
  <2>3. CASE g = f
    <3>1. fs[g] = t
      BY ZenonT(60), <2>3, TypeTasks DEF FillType
    <3>2. t.claim = Added(v, b)
      BY Zenon
    <3> HIDE DEF t, fs
    <3>3. fill'[g].claim = Added(v, b)
      BY ZenonT(60), <2>2, <3>1, <3>2
    <3> QED BY ZenonT(60), <2>1, <2>3, <3>3
  <2>4. CASE g # f
    <3>1. fill'[g] = fill[g] /\ Live(fill[g]) /\ fill[g].v \notin E
      BY ZenonT(60), <2>2, <2>4, TypeTasks DEF FillType
    <3>2. fill[g].v \in entries \ E /\ ~writing[fill[g].v]
      BY ZenonT(60), <3>1 DEF Attached, FillAttached, Ledger, FillLedger
    <3>3. g \in Holders(fill[g].v)
      BY ZenonT(60), <2>1, <3>1 DEF Holders, Live
    <3>4. g \in UNION {Holders(u) : u \in {x \in entries \ E : ~writing[x]}}
      BY ZenonT(60), <3>2, <3>3
    <3>5. p \in {g} \X fill[g].claim
      BY ZenonT(60), <2>1, <3>1
    <3> QED BY ZenonT(60), <3>4, <3>5 DEF Claimed
  <2> QED BY ZenonT(60), <2>3, <2>4
<1>6. /\ IsFiniteSet(Added(v, b)) /\ IsFiniteSet(Y) /\ Cardinality(Y) = Cardinality(Added(v, b))
      /\ IsFiniteSet(X) /\ Cardinality(X) = 0 /\ Cardinality(Added(v, b)) \in Nat
  <2>1. Added(v, b) \subseteq Bytes(v)
    BY ZenonT(60) DEF Added, BlockBytes
  <2>2. IsFiniteSet(Added(v, b))
    BY ZenonT(60), <2>1, AllBytesFinite, FS_Subset
  <2> QED BY ZenonT(60), <2>2, RowCardinality, FS_EmptySet, FS_CardinalityType
<1>7. MaxSize # 0 => Used(entries \ E) + Cardinality(X) + Cardinality(Y) <= MaxSize
  <2>1. Used(entries \ E) \in Nat
    BY ZenonT(60), UsedNat
  <2>2. MaxSize # 0 => Used(entries \ E) + Cardinality(Added(v, b)) <= MaxSize
    <3>1. CASE Added(v, b) = {}
      <4>1. entries \ E = entries
        BY ZenonT(60), <3>1 DEF FillBegin
      <4>2. Cardinality(Added(v, b)) = 0
        BY ZenonT(60), <3>1, FS_EmptySet
      <4> HIDE DEF Layers
      <4> QED BY SMTT(60), Z3T(60), <2>1, <4>1, <4>2 DEF BudgetHolds
    <3>2. CASE Added(v, b) # {}
      BY ZenonT(60), <3>2 DEF FillBegin, MakeRoom, FitsBudget, FitsBytes
    <3> QED BY ZenonT(60), <3>1, <3>2
  <2> HIDE DEF X, Y, Layers
  <2> QED BY SMTT(60), Z3T(60), <2>1, <2>2, <1>6, CacheAssumption
<1> HIDE DEF X, Y, Layers
<1> QED BY ZenonT(60), <1>4, <1>5, <1>6, <1>7, BudgetTaken

\* The end of a fill: the block it marks is covered by its claim, which it
\* gives back in the same step.
LEMMA BudgetEnd ==
    ASSUME Layers, Layers', BudgetHolds, NEW f \in Fills, FillEnd(f), fill[f].own
    PROVE  BudgetHolds'
<1> USE DEF Layers
<1> DEFINE t == fill[f]
           R == {f} \X t.claim
           X == {t.v} \X t.claim
<1>1. /\ t # NoTask /\ t \in FillTask /\ t.v \in Versions /\ Live(t) /\ t.claim \subseteq Bytes(t.v)
      /\ BlockBytes(t.v, t.b) \subseteq t.claim \cup PresentBytes(t.v) /\ ~writing[t.v]
      /\ t.v \in entries
  <2>1. t # NoTask /\ Live(t) /\ t \in FillTask
    BY ZenonT(60) DEF FillEnd, Live, TypeOK
  <2> QED BY ZenonT(60), <2>1 DEF FillTask, Ledger, FillLedger, Attached, FillAttached
<1>2. /\ present' = [present EXCEPT ![t.v] = @ \cup {t.b}]
      /\ fill' = [fill EXCEPT ![f] = NoTask] /\ UNCHANGED <<entries, writing>>
  BY ZenonT(60) DEF FillEnd, MarkPresent
<1>3. Charged(entries)' \subseteq Charged(entries) \cup X
  <2> SUFFICES ASSUME NEW p \in Charged(entries)' PROVE p \in Charged(entries) \cup X
    BY ZenonT(60)
  <2>1. PICK x \in entries : p \in {x} \X ChargedBytes(x)'
    BY ZenonT(60), <1>2 DEF Charged
  <2>2. CASE x = t.v
    <3>1. present'[x] = present[x] \cup {t.b}
      BY ZenonT(60), <1>1, <1>2, <2>2 DEF TypeOK
    <3>2. ChargedBytes(x)' \subseteq ChargedBytes(x) \cup t.claim
      BY ZenonT(60), <1>1, <1>2, <2>2, <3>1 DEF ChargedBytes, PresentBytes, BlockBytes, Bytes, BlockOf
    <3> QED BY SMTT(60), Z3T(60), <2>1, <2>2, <3>2 DEF Charged
  <2>3. CASE x # t.v
    <3>1. ChargedBytes(x)' = ChargedBytes(x)
      <4>1. present'[x] = present[x] /\ writing'[x] = writing[x]
        BY ZenonT(60), <1>1, <1>2, <2>3 DEF TypeOK
      <4> QED BY ZenonT(60), <4>1, ChargedKept
    <3> QED BY ZenonT(60), <2>1, <3>1 DEF Charged
  <2> QED BY ZenonT(60), <2>2, <2>3
<1>4. R \subseteq Owed
  BY ZenonT(60), <1>1 DEF Owed
<1>5. Owed' \subseteq Owed \ R
  <2> SUFFICES ASSUME NEW p \in Owed' PROVE p \in Owed \ R
    BY ZenonT(60)
  <2>1. PICK g \in Fills : Live(fill'[g]) /\ p \in {g} \X fill'[g].claim
    BY Zenon DEF Owed, Live
  <2>2. g # f /\ fill'[g] = fill[g]
    BY ZenonT(60), <1>2, <2>1 DEF Live, TypeOK
  <2>3. p \in Owed
    BY ZenonT(60), <2>1, <2>2 DEF Owed
  <2> QED BY ZenonT(60), <2>1, <2>2, <2>3
<1>6. IsFiniteSet(t.claim)
  BY ZenonT(60), <1>1, AllBytesFinite, FS_Subset
<1>7. /\ IsFiniteSet(X) /\ Cardinality(X) = Cardinality(t.claim)
      /\ IsFiniteSet(R) /\ Cardinality(R) = Cardinality(t.claim)
  BY ZenonT(60), <1>6, RowCardinality
<1>8. /\ Charged(entries) \subseteq Versions \X AllBytes /\ Claimed(entries) = Owed
      /\ Owed \subseteq Fills \X AllBytes /\ Claimed(entries)' = Owed'
  BY ZenonT(60), LayersBound, LayersBoundNext DEF Bounded
<1> DEFINE C == Charged(entries)  C1 == Charged(entries)'
           O == Owed  K == O \ R  K1 == Owed'  N == {}
<1>9. C1 \subseteq C \cup X /\ K1 \subseteq K \cup N /\ R \subseteq O
  BY ZenonT(60), <1>3, <1>4, <1>5
<1>10. IsFiniteSet(C) /\ IsFiniteSet(O) /\ IsFiniteSet(N) /\ Cardinality(N) = 0
  BY ZenonT(60), <1>8, RowsFinite, FS_EmptySet
<1>11. BudgetHolds' = (MaxSize # 0 => Cardinality(C1) + Cardinality(K1) <= MaxSize)
  BY ZenonT(60), <1>8 DEF BudgetHolds, Used
<1>12. MaxSize # 0 => Cardinality(C) + Cardinality(O) <= MaxSize
  BY ZenonT(60), <1>8 DEF BudgetHolds, Used
<1> HIDE DEF C, C1, O, K1, N, R, X
<1>13. IsFiniteSet(K) /\ Cardinality(K) = Cardinality(O) - Cardinality(R)
  <2>1. O \cap R = R
    BY Zenon, <1>9
  <2> QED BY ZenonT(60), <1>10, <2>1, FS_Difference
<1> HIDE DEF K
<1>14. /\ Cardinality(C1) + Cardinality(K1)
            <= Cardinality(C) + Cardinality(K) + Cardinality(X) + Cardinality(N)
       /\ Cardinality(C) \in Nat /\ Cardinality(K) \in Nat /\ Cardinality(X) \in Nat
       /\ Cardinality(N) \in Nat /\ Cardinality(C1) \in Nat /\ Cardinality(K1) \in Nat
  BY SMTT(60), Z3T(60), <1>7, <1>9, <1>10, <1>13, Grown
<1>15. MaxSize # 0 => Cardinality(C1) + Cardinality(K1) <= MaxSize
  <2> DEFINE a == Cardinality(C1)  b == Cardinality(K1)  c == Cardinality(C)
             d == Cardinality(K)  o == Cardinality(O)  x == Cardinality(X)
  <2>1. o \in Nat
    BY ZenonT(60), <1>10, FS_CardinalityType
  <2>2. /\ a \in Nat /\ b \in Nat /\ c \in Nat /\ d \in Nat /\ x \in Nat
        /\ a + b <= c + d + x + 0 /\ d = o - x /\ (MaxSize # 0 => c + o <= MaxSize)
    BY ZenonT(60), <1>7, <1>10, <1>12, <1>13, <1>14
  <2> HIDE DEF a, b, c, d, o, x
  <2>3. MaxSize # 0 => a + b <= MaxSize
    BY SMTT(60), Z3T(60), <2>1, <2>2, CacheAssumption
  <2> QED BY ZenonT(60), <2>3 DEF a, b
<1> QED BY ZenonT(60), <1>11, <1>15

-----------------------------------------------------------------------------
(* The steps that take no room.                                            *)

ChargesLess == \A v \in entries' : ChargedBytes(v)' \subseteq
                                     (IF v \in entries THEN ChargedBytes(v) ELSE {})

\* A step that begins no task and charges no entry more saves the budget.
LEMMA SettlesSaves ==
    ASSUME Settles, ChargesLess
    PROVE  Saves
BY ZenonT(60) DEF Settles, ChargesLess, Saves

\* Entries that go, and a new one that holds nothing yet.
LEMMA DropCharges ==
    ASSUME TypeOK, NEW D \in SUBSET Versions, NEW N \in SUBSET Versions,
           N \cap entries = {}, Register(D, N, FALSE)
    PROVE  ChargesLess
<1>1. /\ entries' = (entries \ D) \cup N
      /\ \A v \in entries \ D : /\ present'[v] = present[v] /\ data'[v] = data[v]
                                /\ map'[v] = map[v] /\ writing'[v] = writing[v]
                                /\ v \in files => v \in files'
      /\ \A v \in N : /\ present'[v] = {} /\ data'[v] = {} /\ map'[v] = {}
                      /\ writing'[v] = FALSE /\ v \in files'
  BY ZenonT(60), RegisterKeeps
<1> SUFFICES ASSUME NEW v \in entries'
             PROVE  ChargedBytes(v)' \subseteq (IF v \in entries THEN ChargedBytes(v) ELSE {})
  BY ZenonT(60) DEF ChargesLess
<1>2. CASE v \in entries \ D
  BY ZenonT(60), <1>1, <1>2, ChargedKept
<1>3. CASE v \in N
  BY ZenonT(60), <1>1, <1>3 DEF ChargedBytes, PresentBytes
<1> QED BY ZenonT(60), <1>1, <1>2, <1>3

\* Dropping entries charges nothing more.
LEMMA EvictCharges ==
    ASSUME TypeOK, NEW D \in SUBSET Versions, Drop(D)
    PROVE  ChargesLess
<1> DEFINE N == {}
<1>1. N \in SUBSET Versions /\ N \cap entries = {} /\ Register(D, N, FALSE)
  BY ZenonT(60) DEF Drop
<1> HIDE DEF N
<1> QED BY ZenonT(60), <1>1, DropCharges

\* Leaving the entries alone charges nothing more.
LEMMA SameCharges ==
    ASSUME UNCHANGED <<entries, present, writing>>
    PROVE  ChargesLess
BY Zenon DEF ChargesLess, ChargedBytes, PresentBytes, Bytes, BlockOf

\* remove charges nothing more.
LEMMA RemoveCharges ==
    ASSUME TypeOK, NEW v \in Versions, NEW fs, NEW ws, Remove(v, fs, ws)
    PROVE  ChargesLess
<1> DEFINE D == {v} \cap entries
<1>1. Drop(D) /\ D \in SUBSET Versions
  BY Zenon DEF Remove
<1> HIDE DEF D
<1> QED BY ZenonT(60), <1>1, EvictCharges

\* A writer's block is free: its entry is charged in full while it writes.
LEMMA WriterCharges ==
    ASSUME Layers, NEW w \in Writers, writer[w] # NoTask, WriterStep(w)
    PROVE  ChargesLess
<1> USE DEF Layers
<1> DEFINE t == writer[w]
<1>t. t \in WriterTask /\ t.v \in Versions
  BY Zenon DEF TypeOK, WriterTask
<1>1. CASE WriterMark(w)
  <2>1. /\ MarkPresent(t, Whole(t.v, t.off)) /\ UNCHANGED <<entries, writing>>
    BY ZenonT(60), <1>1 DEF WriterMark
  <2>2. CASE ~t.own
    BY ZenonT(60), <2>1, <2>2, SameCharges DEF MarkPresent
  <2>3. CASE t.own
    <3>1. present' = [present EXCEPT ![t.v] = @ \cup Whole(t.v, t.off)]
      BY ZenonT(60), <2>1, <2>3 DEF MarkPresent
    <3>2. writing[t.v]
      BY ZenonT(60), <2>3 DEF Ledger, Live
    <3> SUFFICES ASSUME NEW v \in entries PROVE ChargedBytes(v)' \subseteq ChargedBytes(v)
      BY ZenonT(60), <2>1 DEF ChargesLess
    <3>3. CASE v = t.v
      BY ZenonT(60), <2>1, <3>2, <3>3 DEF ChargedBytes, Bytes
    <3>4. CASE v # t.v
      <4>1. present'[v] = present[v] /\ writing'[v] = writing[v]
        BY ZenonT(60), <2>1, <3>1, <3>4, <1>t DEF TypeOK
      <4> QED BY ZenonT(60), <4>1, ChargedKept
    <3> QED BY ZenonT(60), <3>3, <3>4
  <2> QED BY Zenon, <2>2, <2>3
<1>2. CASE WriterFinish(w)
  <2>1. /\ UNCHANGED <<entries, present>>
        /\ writing' = IF t.own THEN [writing EXCEPT ![t.v] = FALSE] ELSE writing
    BY ZenonT(60), <1>2 DEF WriterFinish
  <2> SUFFICES ASSUME NEW v \in entries PROVE ChargedBytes(v)' \subseteq ChargedBytes(v)
    BY ZenonT(60), <2>1 DEF ChargesLess
  <2>2. v \in Versions /\ writing'[v] \in {writing[v], FALSE} /\ present'[v] = present[v]
    BY ZenonT(60), <2>1, <1>t DEF TypeOK
  <2> QED BY ZenonT(60), <2>1, <2>2 DEF ChargedBytes, PresentBytes, Bytes, BlockOf
<1>3. CASE WriterAbort(w)
  BY ZenonT(60), <1>3, <1>t, RemoveCharges DEF WriterAbort
<1>4. CASE \/ \E n \in 1 .. Size[t.v] : WriterPwrite(w, n)
           \/ WriterError(w) \/ WriterCloseEmpty(w) \/ WriterGiveUp(w)
  BY ZenonT(60), <1>4, SameCharges DEF WriterPwrite, WriterError, WriterCloseEmpty, WriterGiveUp
<1> QED BY ZenonT(60), <1>1, <1>2, <1>3, <1>4 DEF WriterStep

\* Reserving, and a fill that is refused, written or fails, charge no entry more.
LEMMA FillCharges ==
    ASSUME TypeOK,
           \/ \E v \in Versions, E \in SUBSET entries : Reserve(v, E) \/ RefuseReserve(v, E)
           \/ \E v \in Versions, E \in SUBSET entries, b \in Nat : RefuseFill(v, b, E)
           \/ \E f \in Fills : FillPwrite(f) \/ FillError(f) \/ FillFail(f) \/ FillCancel(f)
           \/ \E f \in Fills : FillEnd(f) /\ ~fill[f].own
    PROVE  ChargesLess
<1>e. entries \subseteq Versions
  BY ZenonT(60) DEF TypeOK
<1>1. ASSUME NEW v \in Versions, NEW E \in SUBSET entries, Reserve(v, E) PROVE ChargesLess
  <2>1. /\ Register(E, {v}, FALSE) /\ {v} \cap entries = {}
        /\ {v} \in SUBSET Versions /\ E \in SUBSET Versions
    BY ZenonT(60), <1>1, <1>e DEF Reserve
  <2> QED BY ZenonT(60), <2>1, DropCharges
<1>2. ASSUME NEW E \in SUBSET entries, Drop(E) PROVE ChargesLess
  BY ZenonT(60), <1>2, <1>e, EvictCharges
<1>3. ASSUME NEW f \in Fills, FillFail(f) PROVE ChargesLess
  <2>1. fill[f].v \in Versions
    BY ZenonT(60), <1>3 DEF FillFail, TypeOK, FillTask
  <2> QED BY ZenonT(60), <1>3, <2>1, RemoveCharges DEF FillFail
<1>4. ASSUME NEW f \in Fills, FillPwrite(f) \/ FillError(f) \/ FillCancel(f) PROVE ChargesLess
  BY ZenonT(60), <1>4, SameCharges DEF FillPwrite, FillError, FillCancel
<1>5. ASSUME NEW f \in Fills, FillEnd(f), ~fill[f].own PROVE ChargesLess
  BY ZenonT(60), <1>5, SameCharges DEF FillEnd, MarkPresent
<1> QED BY ZenonT(60), <1>1, <1>2, <1>3, <1>4, <1>5 DEF RefuseReserve, RefuseFill, Refused

\* The sweep charges nothing more.
LEMMA SweepCharges ==
    ASSUME TypeOK, NEW stale \in SUBSET entries, NEW cut \in SUBSET entries,
           NEW E \in SUBSET entries, Sweep(stale, cut, E)
    PROVE  ChargesLess
<1>1. PICK D \in SUBSET entries : Swept(D, stale)
  BY Zenon, SweepKeeps
<1>2. /\ entries' = entries \ D /\ writing' = writing
      /\ \A v \in entries \ D : present'[v] = present[v]
  BY ZenonT(60), <1>1 DEF Swept
<1> QED BY ZenonT(60), <1>2, ChargedKept DEF ChargesLess

\* What a restart loads was registered, with at least those blocks, when the
\* process died: the index is up to date, or no file outlives its entry.
LEMMA RestartCharges ==
    ASSUME Layers, "unlink" \notin Faults \/ "index" \notin Faults,
           NEW order, Restart(order)
    PROVE  ChargesLess
<1> USE DEF Layers
<1> DEFINE kept == {v \in Versions : index[v] \in {"pinned", "free"} /\ v \in files}
<1>1. /\ entries' = kept /\ writing' = [v \in Versions |-> FALSE]
      /\ present' = [v \in Versions |-> IF v \in kept THEN map[v] ELSE {}]
  BY Zenon DEF Restart
<1>2. kept \subseteq entries
  <2>1. CASE "unlink" \notin Faults
    BY ZenonT(60), <2>1 DEF Journal
  <2>2. CASE "index" \notin Faults
    BY ZenonT(60), <2>2 DEF Journal, Snapshot
  <2> QED BY ZenonT(60), <2>1, <2>2
<1> SUFFICES ASSUME NEW v \in kept PROVE ChargedBytes(v)' \subseteq ChargedBytes(v)
  BY ZenonT(60), <1>1, <1>2 DEF ChargesLess
<1>3. v \in Versions /\ present'[v] = map[v] /\ writing'[v] = FALSE /\ map[v] \subseteq present[v]
  BY ZenonT(60), <1>1, <1>2 DEF Journal
<1> QED BY ZenonT(60), <1>3 DEF ChargedBytes, PresentBytes, Bytes, BlockOf

\* Readers, pins and the rest of the operations charge nothing more.
LEMMA OtherCharges ==
    ASSUME TypeOK,
           \/ \E r \in Readers :
                 \/ \E v \in Versions : \E bs \in SUBSET Blocks(v) : ReadBegin(r, v, bs)
                 \/ ReadError(r) \/ ReadStop(r)
                 \/ \E b \in reader[r].todo : ReadChunk(r, b)
           \/ \E v \in Versions : Release(v) \/ Forget(v) \/ UploadUncached(v) \/ Distribute(v)
           \/ EvictUnpinned
           \/ \E v \in Versions, E \in SUBSET entries, role \in {"save", "stage", "fill"} :
                 RefuseStaging(v, role, E)
           \/ UNCHANGED vars
    PROVE  ChargesLess
<1>1. ASSUME NEW v \in Versions, Release(v) PROVE ChargesLess
  <2> DEFINE D == IF KeepForReads THEN {} ELSE {v}
  <2>1. Drop(D) /\ D \in SUBSET Versions
    BY ZenonT(60), <1>1 DEF Release
  <2> HIDE DEF D
  <2> QED BY ZenonT(60), <2>1, EvictCharges
<1>2. ASSUME NEW v \in Versions, Forget(v) PROVE ChargesLess
  BY ZenonT(60), <1>2, RemoveCharges DEF Forget
<1>3. CASE EvictUnpinned
  <2>1. Drop(EvictableWith(pins)) /\ EvictableWith(pins) \in SUBSET Versions
    BY ZenonT(60), <1>3 DEF EvictUnpinned, EvictableWith, TypeOK
  <2> QED BY ZenonT(60), <2>1, EvictCharges
<1>4. ASSUME NEW v \in Versions, NEW E \in SUBSET entries, NEW role, RefuseStaging(v, role, E)
      PROVE  ChargesLess
  BY ZenonT(60), <1>4, EvictCharges DEF RefuseStaging, Refused, TypeOK
<1>5. ASSUME NEW r \in Readers,
             \/ \E v \in Versions : \E bs \in SUBSET Blocks(v) : ReadBegin(r, v, bs)
             \/ ReadError(r) \/ ReadStop(r)
             \/ \E b \in reader[r].todo : ReadChunk(r, b)
      PROVE  ChargesLess
  BY ZenonT(60), <1>5, SameCharges DEF ReadBegin, ReadError, ReadStop, ReadChunk
<1>6. ASSUME NEW v \in Versions, UploadUncached(v) \/ Distribute(v) PROVE ChargesLess
  BY ZenonT(60), <1>6, SameCharges DEF UploadUncached, Distribute
<1>7. CASE UNCHANGED vars
  BY ZenonT(60), <1>7, SameCharges DEF vars
<1> QED BY ZenonT(60), <1>1, <1>2, <1>3, <1>4, <1>5, <1>6, <1>7

\* Every step of the cache keeps the budget.
LEMMA BudgetStep ==
    ASSUME "unlink" \notin Faults \/ "index" \notin Faults
    PROVE  BudgetHolds /\ Layers /\ Layers' /\ [Next]_vars => BudgetHolds'
<1> SUFFICES ASSUME BudgetHolds, Layers, Layers', [Next]_vars PROVE BudgetHolds'
  BY ZenonT(60)
<1>0. /\ TypeOK /\ Attached /\ Ledger
      /\ \A v \in Versions : Blocks(v) \subseteq Nat
  BY ZenonT(60), BlocksNat DEF Layers
<1>1. ASSUME NEW v \in Versions, NEW E \in SUBSET entries, NEW w \in Writers,
             NEW role \in {"save", "stage", "fill"}, OpenStaging(w, v, role, E)
      PROVE  BudgetHolds'
  BY ZenonT(60), <1>1, BudgetOpen
<1>2. ASSUME NEW w \in Writers, writer[w] # NoTask, WriterStep(w) PROVE BudgetHolds'
  BY ZenonT(60), <1>0, <1>2, WriterSettles, WriterCharges, SettlesSaves, BudgetSaved
<1>3. ASSUME NEW v \in Versions, NEW E \in SUBSET entries, NEW b \in Blocks(v),
             NEW f \in Fills, FillBegin(f, v, b, E)
      PROVE  BudgetHolds'
  BY ZenonT(60), <1>3, BudgetBegin
<1>4. ASSUME NEW f \in Fills, FillEnd(f), fill[f].own PROVE BudgetHolds'
  BY ZenonT(60), <1>4, BudgetEnd
<1>5. ASSUME \/ \E v \in Versions, E \in SUBSET entries : Reserve(v, E) \/ RefuseReserve(v, E)
             \/ \E v \in Versions, E \in SUBSET entries, b \in Nat : RefuseFill(v, b, E)
             \/ \E f \in Fills : FillPwrite(f) \/ FillError(f) \/ FillFail(f) \/ FillCancel(f)
             \/ \E f \in Fills : FillEnd(f) /\ ~fill[f].own
      PROVE  BudgetHolds'
  <2>1. Settles
    BY ZenonT(60), <1>0, <1>5, FillSettles DEF FillStep
  <2>2. ChargesLess
    BY ZenonT(60), <1>0, <1>5, FillCharges
  <2> QED BY ZenonT(60), <2>1, <2>2, SettlesSaves, BudgetSaved
<1>6. ASSUME NEW stale \in SUBSET entries, NEW cut \in SUBSET entries,
             NEW E \in SUBSET entries, Sweep(stale, cut, E)
      PROVE  BudgetHolds'
  BY ZenonT(60), <1>0, <1>6, SweepSettles, SweepCharges, SettlesSaves, BudgetSaved
<1>7. ASSUME NEW order \in SUBSET (Versions \X Versions), Restart(order) PROVE BudgetHolds'
  <2>1. Settles
    BY ZenonT(60), <1>0, <1>7, OtherSettles
  <2>2. ChargesLess
    BY ZenonT(60), <1>7, RestartCharges
  <2> QED BY ZenonT(60), <2>1, <2>2, SettlesSaves, BudgetSaved
<1>8. ASSUME \/ \E r \in Readers :
                   \/ \E v \in Versions : \E bs \in SUBSET Blocks(v) : ReadBegin(r, v, bs)
                   \/ ReadError(r) \/ ReadStop(r)
                   \/ \E b \in reader[r].todo : ReadChunk(r, b)
             \/ \E v \in Versions : Release(v) \/ Forget(v) \/ UploadUncached(v) \/ Distribute(v)
             \/ EvictUnpinned
             \/ \E v \in Versions, E \in SUBSET entries, role \in {"save", "stage", "fill"} :
                   RefuseStaging(v, role, E)
             \/ UNCHANGED vars
      PROVE  BudgetHolds'
  <2>1. Settles
    BY ZenonT(60), <1>0, <1>8, OtherSettles
  <2>2. ChargesLess
    BY ZenonT(60), <1>0, <1>8, OtherCharges
  <2> QED BY Zenon, <2>1, <2>2, SettlesSaves, BudgetSaved
<1>9. CASE \E f \in Fills : FillStep(f) \/ FillCancel(f)
  BY ZenonT(60), <1>4, <1>5, <1>9 DEF FillStep
<1>10. CASE \E v \in Versions, E \in SUBSET entries : \E b \in Blocks(v) :
              (\E f \in Fills : FillBegin(f, v, b, E)) \/ RefuseFill(v, b, E)
  BY ZenonT(60), <1>0, <1>3, <1>5, <1>10
<1> QED BY ZenonT(60), <1>1, <1>2, <1>5, <1>6, <1>7, <1>8, <1>9, <1>10 DEF Next

\* max_size is a hard ceiling: whatever uploads, fills, disk errors,
\* cancellations, evictions and restarts interleave, used_bytes() of
\* LocalCache never exceeds it.  Only a disk that can both keep a file the
\* code unlinked and lose an index save is excluded: a restart could then
\* load an entry that had been evicted.
THEOREM BudgetKept ==
    ASSUME "unlink" \notin Faults \/ "index" \notin Faults
    PROVE  Spec => []BudgetHolds
<1>1. Init => BudgetHolds
  <2> SUFFICES ASSUME Init PROVE BudgetHolds
    BY ZenonT(60)
  <2>1. entries = {}
    BY ZenonT(60) DEF Init
  <2>2. Charged(entries) = {} /\ Claimed(entries) = {}
    BY Zenon, <2>1 DEF Charged, Claimed
  <2> QED BY SMTT(60), Z3T(60), <2>2, FS_EmptySet, CacheAssumption DEF BudgetHolds, Used
<1>2. BudgetHolds /\ Layers /\ Layers' /\ [Next]_vars => BudgetHolds'
  BY Zenon, BudgetStep
<1>3. Spec => []Layers
  BY TypeCorrect, TasksAttached, LedgerKept, JournalKept, PTL DEF Layers
<1> QED BY <1>1, <1>2, <1>3, PTL DEF Spec

-----------------------------------------------------------------------------
(* The number of entries.                                                  *)

\* A step registers one entry, after room was made for it, or none.
LEMMA EntriesStep ==
    ASSUME Layers, "unlink" \notin Faults \/ "index" \notin Faults, [Next]_vars
    PROVE  \/ entries' \subseteq entries
           \/ \E v \in Versions, E \in SUBSET entries :
                 FitsFiles(E, TRUE) /\ entries' = (entries \ E) \cup {v}
<1> DEFINE Goal == \/ entries' \subseteq entries
                   \/ \E v \in Versions, E \in SUBSET entries :
                         FitsFiles(E, TRUE) /\ entries' = (entries \ E) \cup {v}
<1>1. ASSUME NEW D, Drop(D) PROVE Goal
  BY ZenonT(60), <1>1 DEF Drop, Register
<1>2. ASSUME NEW v, NEW fs, NEW ws, Remove(v, fs, ws) PROVE Goal
  BY ZenonT(60), <1>1, <1>2 DEF Remove
<1>3. ASSUME UNCHANGED entries PROVE Goal
  BY Zenon, <1>3
<1>4. ASSUME NEW v \in Versions, NEW E \in SUBSET entries, NEW w \in Writers,
             NEW role \in {"save", "stage", "fill"}, OpenStaging(w, v, role, E)
      PROVE  Goal
  <2>1. FitsFiles(E, TRUE) /\ entries' = (entries \ E) \cup {v}
    BY ZenonT(60), <1>4 DEF OpenStaging, MakeRoom, FitsBudget, Register
  <2> QED BY ZenonT(60), <2>1
<1>5. ASSUME NEW v \in Versions, NEW E \in SUBSET entries, Reserve(v, E) PROVE Goal
  <2>1. FitsFiles(E, TRUE) /\ entries' = (entries \ E) \cup {v}
    BY ZenonT(60), <1>5 DEF Reserve, MakeRoom, FitsBudget, Register
  <2> QED BY ZenonT(60), <2>1
<1>6. ASSUME NEW order, Restart(order) PROVE Goal
  <2>1. entries' = {v \in Versions : index[v] \in {"pinned", "free"} /\ v \in files}
    BY ZenonT(60), <1>6 DEF Restart
  <2>2. CASE "unlink" \notin Faults
    BY ZenonT(60), <2>1, <2>2 DEF Layers, Journal
  <2>3. CASE "index" \notin Faults
    BY ZenonT(60), <2>1, <2>3 DEF Layers, Journal, Snapshot
  <2> QED BY ZenonT(60), <2>2, <2>3
<1>7. ASSUME NEW stale, NEW cut, NEW E, Sweep(stale, cut, E) PROVE Goal
  BY ZenonT(60), <1>7 DEF Sweep
<1> HIDE DEF Goal
<1>8. ASSUME NEW w \in Writers, WriterStep(w) PROVE Goal
  <2>1. CASE WriterAbort(w)
    BY ZenonT(60), <1>2, <2>1 DEF WriterAbort
  <2>2. CASE ~WriterAbort(w)
    BY ZenonT(60), <1>3, <1>8, <2>2 DEF WriterStep, WriterPwrite, WriterError, WriterMark, WriterFinish,
                            WriterCloseEmpty, WriterGiveUp
  <2> QED BY ZenonT(60), <2>1, <2>2
<1>9. ASSUME NEW f \in Fills, FillStep(f) \/ FillCancel(f) PROVE Goal
  <2>1. CASE FillFail(f)
    BY ZenonT(60), <1>2, <2>1 DEF FillFail
  <2>2. CASE ~FillFail(f)
    BY ZenonT(60), <1>3, <1>9, <2>2 DEF FillStep, FillPwrite, FillError, FillEnd, FillCancel
  <2> QED BY Zenon, <2>1, <2>2
<1>10. ASSUME NEW v \in Versions, NEW E \in SUBSET entries,
              \/ \E role \in {"save", "stage", "fill"} : RefuseStaging(v, role, E)
              \/ RefuseReserve(v, E)
              \/ \E b \in Blocks(v) : RefuseFill(v, b, E) \/ \E f \in Fills : FillBegin(f, v, b, E)
       PROVE  Goal
  BY ZenonT(60), <1>1, <1>10 DEF RefuseStaging, RefuseReserve, Refused, RefuseFill, FillBegin
<1>11. ASSUME NEW v \in Versions, Release(v) \/ Forget(v) \/ UploadUncached(v) \/ Distribute(v)
       PROVE  Goal
  BY ZenonT(60), <1>1, <1>2, <1>3, <1>11 DEF Release, Forget, UploadUncached, Distribute
<1>12. CASE EvictUnpinned
  BY ZenonT(60), <1>1, <1>12 DEF EvictUnpinned, Goal
<1>13. ASSUME NEW r \in Readers,
              \/ \E v \in Versions : \E bs \in SUBSET Blocks(v) : ReadBegin(r, v, bs)
              \/ ReadError(r) \/ ReadStop(r)
              \/ \E b \in reader[r].todo : ReadChunk(r, b)
       PROVE  Goal
  BY ZenonT(60), <1>3, <1>13 DEF ReadBegin, ReadError, ReadStop, ReadChunk
<1>14. CASE UNCHANGED vars
  BY ZenonT(60), <1>3, <1>14 DEF vars, Goal
<1>15. Goal
  BY ZenonT(60), <1>4, <1>5, <1>6, <1>7, <1>8, <1>9, <1>10, <1>11, <1>12, <1>13, <1>14 DEF Next, Goal
<1> QED BY ZenonT(60), <1>15 DEF Goal

\* max_files is a hard ceiling as well, under the same assumption.
THEOREM FilesKeptBounded ==
    ASSUME "unlink" \notin Faults \/ "index" \notin Faults
    PROVE  Spec => []FilesBounded
<1>1. Init => FilesBounded
  BY SMTT(60), Z3T(60), FS_EmptySet, CacheAssumption DEF Init, FilesBounded
<1>2. FilesBounded /\ Layers /\ [Next]_vars => FilesBounded'
  <2> SUFFICES ASSUME FilesBounded, Layers, [Next]_vars, MaxFiles # 0
               PROVE  Cardinality(entries') <= MaxFiles
    BY ZenonT(60) DEF FilesBounded
  <2>1. IsFiniteSet(entries) /\ Cardinality(entries) \in Nat
    BY ZenonT(60), CacheAssumption, FS_Subset, FS_CardinalityType DEF Layers, TypeOK
  <2>2. CASE entries' \subseteq entries
    <3> DEFINE S == entries  T == entries'
    <3>1. T \in SUBSET S /\ IsFiniteSet(S) /\ Cardinality(S) <= MaxFiles
      BY ZenonT(60), <2>1, <2>2 DEF FilesBounded
    <3> HIDE DEF S, T
    <3>2. Cardinality(T) <= Cardinality(S) /\ IsFiniteSet(T)
      BY ZenonT(60), <3>1, FS_Subset
    <3>3. Cardinality(T) \in Nat /\ Cardinality(S) \in Nat
      BY ZenonT(60), <3>1, <3>2, FS_CardinalityType
    <3>4. Cardinality(T) <= MaxFiles
      BY SMTT(60), Z3T(60), <3>1, <3>2, <3>3, CacheAssumption
    <3> QED BY Zenon, <3>4 DEF T
  <2>3. ASSUME NEW v \in Versions, NEW E \in SUBSET entries, FitsFiles(E, TRUE),
               entries' = (entries \ E) \cup {v}
        PROVE  Cardinality(entries') <= MaxFiles
    <3> DEFINE S == entries \ E
    <3>1. IsFiniteSet(S) /\ Cardinality(S) + 1 <= MaxFiles
      BY ZenonT(60), <2>1, <2>3, FS_Subset DEF FitsFiles
    <3> HIDE DEF S
    <3>2. Cardinality(S) \in Nat
      BY ZenonT(60), <3>1, FS_CardinalityType
    <3>3. Cardinality(S \cup {v}) \in {Cardinality(S), Cardinality(S) + 1}
      BY ZenonT(60), <3>1, FS_AddElement
    <3>4. Cardinality(S \cup {v}) <= MaxFiles
      BY SMTT(60), Z3T(60), <3>1, <3>2, <3>3, CacheAssumption
    <3> QED BY ZenonT(60), <2>3, <3>4 DEF S
  <2> QED BY ZenonT(60), <2>2, <2>3, EntriesStep
<1>3. Spec => []Layers
  BY TypeCorrect, TasksAttached, LedgerKept, JournalKept, PTL DEF Layers
<1> QED BY <1>1, <1>2, <1>3, PTL DEF Spec
=============================================================================
