-------------------------------- MODULE FileStats --------------------------------
(***************************************************************************)
(* The size and dates a listing shows of one file                          *)
(* (tgdcfs/core/api/stat.py), kept on its file ref and, riding along with  *)
(* the tree, in the pinned metadata.  A stat is the number of the version  *)
(* it describes; NoStat is None.  A move gives the file a new ref.  The    *)
(* steps are parameterised by the version the descriptor names at that     *)
(* moment (latest) and by the last one whose write was answered (done);    *)
(* the file itself is written by the module that composes this one.        *)
(***************************************************************************)
EXTENDS Integers

CONSTANTS
  Listers,    \* requests that list the file
  MaxMoves,   \* bound on the moves
  MaxStops    \* bound on the restarts

NoStat == 0
Refs == 1 .. MaxMoves + 1

VARIABLES
  persist,    \* listing.stat_in_metadata
  ref,        \* the file's ref in the tree
  stat,       \* fr.stat, by ref
  epoch,      \* fr.stat_epoch, by ref
  others,     \* other files of the tree carry stats
  fills,      \* _reads: the descriptor read in flight, by ref
  asks,       \* what each lister is doing
  dirty,      \* the folder is marked
  flusher,    \* the flusher task
  writing,    \* the stats in the metadata write under way
  saved,      \* the stats in the stored metadata
  hasStats,   \* _tree_has_stats
  closing,    \* shutdown has begun
  stops,      \* restarts so far
  outdated    \* history: why the stored stat may be older than the file

statVars == <<persist, ref, stat, epoch, others, fills, asks, dirty, flusher,
              writing, saved, hasStats, closing, stops, outdated>>

NoFill == [st |-> "none", epoch |-> 0, since |-> 0, seen |-> NoStat, whole |-> FALSE]
Idle == [st |-> "idle", ref |-> 1, since |-> 0, shown |-> NoStat]

\* What a push serializes: where the file is, and the stats.
Carried == [ref |-> ref, mine |-> stat[ref], others |-> others]

StatInit ==
  /\ persist \in BOOLEAN
  /\ ref = 1
  /\ others \in BOOLEAN
  /\ stat = [r \in Refs |-> NoStat]
  /\ epoch = [r \in Refs |-> 0]
  /\ fills = [r \in Refs |-> NoFill]
  /\ asks = [l \in Listers |-> Idle]
  /\ dirty = FALSE
  /\ flusher = "none"
  /\ writing = Carried
  /\ saved = Carried
  /\ hasStats = "unknown"
  /\ closing = FALSE
  /\ stops = 0
  /\ outdated = {}

(***************************************************************************)
(* Listings.                                                               *)
(***************************************************************************)

\* get(): the stored stat, or the descriptor read that is under way, or a
\* new one.  Without stat_in_metadata every request reads for itself.  since
\* is the last write answered before what is shown was asked for.
AskStat(l, done) ==
  /\ asks[l].st \in {"idle", "answered"}
  /\ LET hit == persist /\ stat[ref] # NoStat
         how == IF hit THEN "answered" ELSE IF persist THEN "waiting" ELSE "reading"
         joins == how = "waiting" /\ fills[ref].st # "none"
     IN /\ asks' = [asks EXCEPT ![l] = [st |-> how, ref |-> ref,
                                        since |-> IF joins THEN fills[ref].since ELSE done,
                                        shown |-> IF hit THEN stat[ref] ELSE NoStat]]
        /\ fills' = IF how = "waiting" /\ ~joins
                      THEN [fills EXCEPT ![ref].st = "reading", ![ref].epoch = epoch[ref],
                                         ![ref].since = done]
                      ELSE fills
  /\ UNCHANGED <<persist, ref, stat, epoch, others, dirty, flusher, writing, saved,
                 hasStats, closing, stops, outdated>>

\* The client gives up on the listing; the shielded read goes on.
GiveUp(l) ==
  /\ asks[l].st \in {"waiting", "reading"}
  /\ asks' = [asks EXCEPT ![l] = Idle]
  /\ UNCHANGED <<persist, ref, stat, epoch, others, fills, dirty, flusher, writing, saved,
                 hasStats, closing, stops, outdated>>

\* _read(): the lister's own read of the descriptor, which shows nothing of
\* a descriptor that cannot be found.
ReadStat(l, latest) ==
  /\ asks[l].st = "reading"
  /\ \E v \in {latest, NoStat} :
       asks' = [asks EXCEPT ![l].st = "answered", ![l].shown = v]
  /\ UNCHANGED <<persist, ref, stat, epoch, others, fills, dirty, flusher, writing,
                 saved, hasStats, closing, stops, outdated>>

\* _fill(): the descriptor has been read, or was not found (fd.complete).
FillRead(r, latest) ==
  /\ fills[r].st = "reading"
  /\ \E whole \in BOOLEAN :
       fills' = [fills EXCEPT ![r].st = "read", ![r].whole = whole,
                              ![r].seen = IF whole THEN latest ELSE NoStat]
  /\ UNCHANGED <<persist, ref, stat, epoch, others, asks, dirty, flusher, writing,
                 saved, hasStats, closing, stops, outdated>>

\* _mark(): the folder needs rewriting, and a flusher task sees to it.
Marked ==
  /\ dirty' = TRUE
  /\ flusher' = IF ~closing /\ flusher = "none" THEN "waiting" ELSE flusher

\* The epoch is not compared: a stat read before the file changed is kept.
StoresFill_AnyEpoch(r) == fills[r].whole /\ r = ref

\* Neither a descriptor that could not be read, nor one read before the file
\* changed, nor one of a ref that left the tree is stored.
StoresFill(r) == fills[r].whole /\ epoch[r] = fills[r].epoch /\ r = ref

\* The rest of _fill() and _read_done(): the stat is stored when it may be,
\* and shown to everybody who waits in either case.
FillEnd(r) ==
  /\ fills[r].st = "read"
  /\ fills' = [fills EXCEPT ![r] = NoFill]
  /\ asks' = [l \in Listers |->
                IF asks[l].st = "waiting" /\ asks[l].ref = r
                  THEN [asks[l] EXCEPT !.st = "answered", !.shown = fills[r].seen]
                  ELSE asks[l]]
  /\ IF StoresFill(r)
       THEN stat' = [stat EXCEPT ![r] = fills[r].seen] /\ Marked
       ELSE UNCHANGED <<stat, dirty, flusher>>
  /\ UNCHANGED <<persist, ref, epoch, others, writing, saved, hasStats, closing,
                 stops, outdated>>

\* The descriptor read raised, and so does every request that waits for it.
FillFail(r) ==
  /\ fills[r].st \in {"reading", "read"}
  /\ fills' = [fills EXCEPT ![r] = NoFill]
  /\ asks' = [l \in Listers |->
                IF asks[l].st = "waiting" /\ asks[l].ref = r THEN Idle ELSE asks[l]]
  /\ UNCHANGED <<persist, ref, stat, epoch, others, dirty, flusher, writing, saved,
                 hasStats, closing, stops, outdated>>

(***************************************************************************)
(* Changes.                                                                *)
(***************************************************************************)

\* stats_stored(): whether the tree, with the stats s, carries any; worked
\* out on the first ask and remembered.
Stored(s) ==
  IF hasStats # "unknown" THEN hasStats
  ELSE IF s[ref] # NoStat \/ others THEN "yes" ELSE "no"

\* invalidate() and changed(), after a write to ref r: the stat is dropped
\* and, where the metadata may hold one, the folder is written again soon.
\* The write may have outlasted the ref (crossed), and with stat_in_metadata
\* off the tree is asked for stats only after the last one was dropped
\* (alone): in these two cases a stat from before the write stays behind.
Invalidated(r) ==
  LET dropped == [stat EXCEPT ![r] = NoStat]
      has  == IF stat[r] = NoStat THEN Stored(stat)
              ELSE IF persist THEN hasStats ELSE Stored(dropped)
      mark == IF stat[r] = NoStat THEN has = "yes" ELSE persist \/ has = "yes"
  IN /\ epoch' = [epoch EXCEPT ![r] = @ + 1]
     /\ stat' = dropped
     /\ hasStats' = has
     /\ IF mark THEN Marked ELSE UNCHANGED <<dirty, flusher>>
     /\ outdated' = IF r # ref THEN {"crossed"}
                    ELSE IF ~mark /\ (stat[r] # NoStat \/ "alone" \in outdated)
                      THEN {"alone"} ELSE {}
     /\ UNCHANGED <<persist, ref, others, fills, asks, writing, saved, closing, stops>>

\* FileApi.move(): the new ref takes the stat and the epoch along, and the
\* push writes them, or fails: then the move is in memory only, until another
\* push.
Move ==
  /\ ref <= MaxMoves
  /\ ref' = ref + 1
  /\ stat' = [stat EXCEPT ![ref + 1] = stat[ref]]
  /\ epoch' = [epoch EXCEPT ![ref + 1] = epoch[ref]]
  /\ saved' \in {saved, [Carried EXCEPT !.ref = ref + 1]}
  /\ UNCHANGED <<persist, others, fills, asks, dirty, flusher, writing, hasStats,
                 closing, stops, outdated>>

(***************************************************************************)
(* Writing the stats.                                                      *)
(***************************************************************************)

\* flush(), up to the write: the marks are taken, and with stat_in_metadata
\* off every stat of the tree is dropped first.
FlushBegin ==
  /\ flusher = "waiting"
  /\ dirty' = FALSE
  /\ flusher' = "saving"
  /\ IF persist THEN writing' = Carried /\ UNCHANGED <<stat, others, hasStats>>
     ELSE /\ stat' = [r \in Refs |-> NoStat]
          /\ others' = FALSE
          /\ hasStats' = "no"
          /\ writing' = [ref |-> ref, mine |-> NoStat, others |-> FALSE]
  /\ UNCHANGED <<persist, ref, epoch, fills, asks, saved, closing, stops, outdated>>

FlushOk ==
  /\ flusher = "saving"
  /\ saved' = writing
  /\ flusher' = IF dirty THEN "waiting" ELSE "none"
  /\ UNCHANGED <<persist, ref, stat, epoch, others, fills, asks, dirty, writing,
                 hasStats, closing, stops, outdated>>

\* A failed write leaves the folder unmarked.
FlushFail_Forgets ==
  /\ flusher = "saving"
  /\ flusher' = IF dirty THEN "backoff" ELSE "none"
  /\ UNCHANGED <<persist, ref, stat, epoch, others, fills, asks, dirty, writing,
                 saved, hasStats, closing, stops, outdated>>

\* The write failed, possibly after it reached the store: the folder stays
\* marked and is tried again later, or not at all during shutdown.
FlushFail ==
  /\ flusher = "saving"
  /\ saved' \in {saved, writing}
  /\ dirty' = TRUE
  /\ flusher' = IF closing THEN "none" ELSE "backoff"
  /\ UNCHANGED <<persist, ref, stat, epoch, others, fills, asks, writing, hasStats,
                 closing, stops, outdated>>

FlushRetry ==
  /\ flusher = "backoff"
  /\ flusher' = "waiting"
  /\ UNCHANGED <<persist, ref, stat, epoch, others, fills, asks, dirty, writing,
                 saved, hasStats, closing, stops, outdated>>

\* close(): one last write, by the flusher that is there.
CloseStats ==
  /\ ~closing
  /\ stops < MaxStops
  /\ closing' = TRUE
  /\ UNCHANGED <<persist, ref, stat, epoch, others, fills, asks, dirty, flusher,
                 writing, saved, hasStats, stops, outdated>>

\* The process ends, after close() or without it, and starts again, perhaps
\* with another setting: the tree comes back as the metadata has it.
RestartStats(latest) ==
  /\ stops < MaxStops
  /\ stops' = stops + 1
  /\ persist' \in BOOLEAN
  /\ ref' = saved.ref
  /\ stat' = [r \in Refs |-> IF r = saved.ref THEN saved.mine ELSE NoStat]
  /\ others' = saved.others
  /\ epoch' = [r \in Refs |-> 0]
  /\ fills' = [r \in Refs |-> NoFill]
  /\ asks' = [l \in Listers |-> Idle]
  /\ dirty' = FALSE
  /\ flusher' = "none"
  /\ writing' = saved
  /\ hasStats' = "unknown"
  /\ closing' = FALSE
  /\ outdated' = IF saved.mine \in {NoStat, latest} THEN {} ELSE {"stopped"}
  /\ UNCHANGED saved

=============================================================================
