---------------------------- MODULE MCReplication ----------------------------
(* The scenarios in which TLC looks at Replication.                         *)
EXTENDS Replication

Scene(mode, mirrors, nf, nv, faults, events) ==
    [mode |-> mode, mirrors |-> mirrors, files |-> 1..nf, versions |-> 1..nv,
     faults |-> faults, events |-> events]

\* Two files that take turns at two paths, with crashes.
Turns == {
    Scene("background", {"m1"}, 2, 2, {}, {"crash", "move", "remove", "overlap"}),
    Scene("tee", {"m1"}, 2, 2, {"store"}, {"crash", "move", "remove", "overlap", "retry"}),
    Scene("cache", {"m1"}, 2, 2, {}, {"crash", "remove"})}

\* A write-back file with refusing stores that is moved, or written while the
\* worker is at it.
WrittenBack == {
    Scene("cache", {"m1"}, 1, 2, {"store"}, {"crash", "overlap"}),
    Scene("cache", {"m1"}, 1, 2, {"store"}, {"crash", "move"})}

\* A primary out of reach, a queue file that cannot be written, failing
\* metadata pushes and lost cache entries.
Disk == {
    Scene("background", {"m1"}, 1, 2, {"unreadable", "queue file", "push"},
          {"crash", "retry", "edit"}),
    Scene("cache", {"m1"}, 1, 2, {"unreadable", "queue file", "cache"},
          {"crash", "edit"})}

\* No crash: the worker gets on with its work, with and without mirrors.
Calm == {
    Scene("background", {"m1"}, 1, 2, {"store", "push", "cache"}, {"remove", "overlap", "retry"}),
    Scene("cache", {"m1"}, 1, 2, {"store", "push"}, {"overlap", "retry"}),
    Scene("cache", {}, 1, 2, {"store", "push", "cache"}, {"remove", "overlap", "retry"})}

Scenes == Turns \cup WrittenBack \cup Disk \cup Calm
==============================================================================
