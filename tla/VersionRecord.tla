---------------------------- MODULE VersionRecord ----------------------------
(***************************************************************************)
(* The record of one file version (TGFSFileVersion) and the pure functions *)
(* on it: which stores hold a copy, how the record is re-expressed when a  *)
(* mirror becomes the primary store, how replicas are written to and read  *)
(* from a descriptor, which layouts a read can use, and how a byte range   *)
(* maps onto the parts of a layout.                                        *)
(*                                                                         *)
(* A version has its primary layout (ids and sizes, messages of `store'),  *)
(* aligned copies (mirrors: one id per part of the primary layout) and     *)
(* replicas (copies with a part layout of their own).  A store without an  *)
(* entry has the empty sequence there.                                     *)
(***************************************************************************)
EXTENDS Integers, Sequences

CONSTANTS Stores,     \* the stores' serialization keys
          NoStore     \* a record whose store was never written down

ASSUME NoStoreAssumption == NoStore \notin Stores

Ids == Seq(Nat)
NoReplica == [ids |-> <<>>, sizes |-> <<>>]
Versions == [id : Nat, ids : Ids, sizes : Ids, store : Stores \cup {NoStore},
             mirrors : [Stores -> Ids], replicas : [Stores -> [ids : Ids, sizes : Ids]]]

(* SentFileMessage objects folded into a version: the primary's parts, not *)
(* yet stamped with a store.                                               *)
FromSent(k, ids, sizes) ==
  [id |-> k, ids |-> ids, sizes |-> sizes, store |-> NoStore,
   mirrors |-> [s \in Stores |-> <<>>], replicas |-> [s \in Stores |-> NoReplica]]

IsValid(v) == v.ids # <<>>

(* Refs and versions alike: no recorded store means the primary's. *)
OwnedBy(r, s) == r.store \in {NoStore, s}

Complete(ids, n) == n > 0 /\ Len(ids) = n /\ \A i \in 1..n : ids[i] > 0

HasCopyIn(v, s) ==
  \/ v.store = s /\ IsValid(v)
  \/ Complete(v.mirrors[s], Len(v.ids))
  \/ v.replicas[s].ids # <<>>

SetInvalid(v) ==
  [v EXCEPT !.ids = <<>>, !.sizes = <<>>, !.mirrors = [s \in Stores |-> <<>>],
            !.replicas = [s \in Stores |-> NoReplica]]

-----------------------------------------------------------------------------
(* Re-expressing a version relative to a new primary. *)

\* the parts in the old store become that store's aligned entry
OwnEntry(v) == IF v.mirrors[v.store] = <<>> THEN v.ids ELSE v.mirrors[v.store]

WithOwnEntry(v) == [v EXCEPT !.mirrors[v.store] = OwnEntry(v)]

\* the new primary holds the same parts: its entry becomes the primary layout
PromoteAligned(v, p) ==
  [WithOwnEntry(v) EXCEPT !.mirrors[p] = <<>>, !.ids = v.mirrors[p], !.store = p]

\* the new primary has parts of its own: what was aligned with the old
\* layout keeps that layout as a replica
PromoteReplica(v, p) ==
  LET old == OwnEntry(v)
      Kept(s) == IF s = v.store \/ Complete(v.mirrors[s], Len(old))
                   THEN [ids |-> WithOwnEntry(v).mirrors[s], sizes |-> v.sizes]
                   ELSE v.replicas[s]
  IN  [v EXCEPT !.ids = v.replicas[p].ids, !.sizes = v.replicas[p].sizes, !.store = p,
                !.mirrors = [s \in Stores |-> <<>>],
                !.replicas = [s \in Stores |-> IF s = p THEN NoReplica ELSE Kept(s)]]

Relocated(v, p) ==
  IF OwnedBy(v, p) THEN v
  ELSE IF Complete(v.mirrors[p], Len(v.ids)) THEN PromoteAligned(v, p)
  ELSE IF v.replicas[p].ids # <<>> THEN PromoteReplica(v, p)
  ELSE WithOwnEntry(v)

-----------------------------------------------------------------------------
(* Descriptors.  Part sizes of the primary layout are not written; those   *)
(* of a replica collapse to the common size, the last size and their       *)
(* number when every part but the last is equally large.                   *)

Compact(sizes) ==
  Len(sizes) > 2 /\ \A i \in 1..(Len(sizes) - 1) : sizes[i] = sizes[1]

ReplicaToDict(r) ==
  IF Compact(r.sizes)
    THEN [m |-> r.ids, p |-> <<r.sizes[1], r.sizes[Len(r.sizes)]>>, n |-> Len(r.sizes)]
    ELSE [m |-> r.ids, p |-> r.sizes, n |-> 0]

ReplicaFromDict(d) ==
  [ids |-> d.m,
   sizes |-> IF d.n > 2 /\ Len(d.p) = 2
               THEN [i \in 1..d.n |-> IF i < d.n THEN d.p[1] ELSE d.p[2]]
               ELSE d.p]

ToDict(v) ==
  [v EXCEPT !.sizes = <<>>, !.replicas = [s \in Stores |-> ReplicaToDict(v.replicas[s])]]

FromDict(d) ==
  [d EXCEPT !.replicas = [s \in Stores |-> ReplicaFromDict(d.replicas[s])]]

-----------------------------------------------------------------------------
(* Layouts and ranges. *)

(* Every layout a read may use, as part sizes with the messages that can   *)
(* serve each part.  Which layout and which message is tried first depends *)
(* on the read preference and on a primary marked dead: a reader here      *)
(* takes them in any order.                                                *)
Layouts(v, primary, configured) ==
  LET sources(i) == (IF OwnedBy(v, primary) THEN {<<primary, v.ids[i]>>} ELSE {})
        \cup {<<s, v.mirrors[s][i]>> : s \in {t \in configured : i \in DOMAIN v.mirrors[t]}}
      own == [sizes |-> v.sizes,
              from |-> [i \in DOMAIN v.ids |-> {c \in sources(i) : c[2] > 0}]]
      replica(s) == [sizes |-> v.replicas[s].sizes,
                     from |-> [i \in DOMAIN v.replicas[s].ids |-> {<<s, v.replicas[s].ids[i]>>}]]
  IN  {l \in {own} \cup {replica(s) : s \in configured} :
         l.from # <<>> /\ Len(l.sizes) = Len(l.from)}

(* offset[i]: where part i begins; offset[Len(sizes) + 1] is the total. *)
Offsets(sizes) ==
  LET offset[i \in 1..(Len(sizes) + 1)] == IF i = 1 THEN 0 ELSE offset[i - 1] + sizes[i - 1]
  IN  offset

Total(sizes) == Offsets(sizes)[Len(sizes) + 1]

Clamped(size, end) == IF end < 0 \/ end >= size THEN size - 1 ELSE end

\* mutant: a range that ends with the first byte of a part misses it
MapRange_Short(sizes, begin, end) ==
  LET offset == Offsets(sizes)
      last == Clamped(Total(sizes), end)
      slice(i) == [part |-> i,
                   begin |-> IF begin > offset[i] THEN begin - offset[i] ELSE 0,
                   end |-> IF last - offset[i] < sizes[i] - 1 THEN last - offset[i]
                                                              ELSE sizes[i] - 1]
  IN  {s \in {slice(i) : i \in {j \in DOMAIN sizes : /\ offset[j] + sizes[j] > begin
                                                     /\ offset[j] < last}} :
         s.begin <= s.end}

(* The parts a range touches, each with its own inclusive bounds. *)
MapRange(sizes, begin, end) ==
  LET offset == Offsets(sizes)
      last == Clamped(Total(sizes), end)
      slice(i) == [part |-> i,
                   begin |-> IF begin > offset[i] THEN begin - offset[i] ELSE 0,
                   end |-> IF last - offset[i] < sizes[i] - 1 THEN last - offset[i]
                                                              ELSE sizes[i] - 1]
  IN  {s \in {slice(i) : i \in {j \in DOMAIN sizes : /\ offset[j] + sizes[j] > begin
                                                     /\ offset[j] <= last}} :
         s.begin <= s.end}
=============================================================================
