------------------------------ MODULE Namespace ------------------------------
(***************************************************************************)
(* The directory tree of one file system: the objects in memory            *)
(* (core/model/directory.py), the operations of the clients on them        *)
(* (core/ops.py, core/api/directory.py, core/api/file.py), the metadata    *)
(* document the tree is written to (core/api/metadata.py and the pinned    *)
(* message of core/repository/impl/metadata), and the messages a removal   *)
(* deletes.                                                                *)
(*                                                                         *)
(* The tree is shared by all requests and nothing locks it: a request      *)
(* changes it between two awaits, and what it found before an await may be *)
(* gone after it.  A descriptor and the content it lists are one message   *)
(* here, except that an update leaves the message and its content alone.   *)
(*                                                                         *)
(* Two history variables say when the code promises less: lost, while a    *)
(* write of the document failed or overlapped another one; torn, the       *)
(* messages of files that left a folder while it was being removed, or     *)
(* that were removed while the document was not being written.             *)
(***************************************************************************)
EXTENDS Integers, SequencesExt

CONSTANTS
    MaxDir,    \* directory objects are numbered; 0 is the root
    MaxRef,    \* so are TGFSFileRef objects
    MaxMsg,    \* and the messages of the primary store
    Names,
    Tasks,     \* client requests that run at the same time
    Ops,       \* the operations looked at
    Faults,    \* what may go wrong
    Scenarios  \* documents at the start, each with the number of requests looked at

OpKinds    == {"upload", "copy", "move", "rm", "mkdir", "mvdir", "rmdir", "cpdir"}
FaultKinds == {"push", "call", "crash"}

ASSUME NamespaceAssumption ==
    /\ {MaxDir, MaxRef, MaxMsg} \subseteq Nat
    /\ Ops \subseteq OpKinds /\ Faults \subseteq FaultKinds

Root  == 0
NoDir == -1
Dirs  == 0..MaxDir
Refs  == 1..MaxRef
Msgs  == 1..MaxMsg

VARIABLES
    parent,   \* TGFSDirectory.parent, kept by a removed directory
    dname,    \* TGFSDirectory.name
    kids,     \* TGFSDirectory.children
    files,    \* TGFSDirectory.files, the list
    index,    \* FileRefList._by_name of each directory
    ref,      \* the fields of each file ref
    msgs,     \* the messages that exist
    pinned,   \* the pinned metadata document
    depth,    \* MetaDataApi.__batch_depth
    pending,  \* MetaDataApi.__pending
    task,     \* what each request is doing
    lost,
    torn,
    calls     \* requests that may still come

objects == <<parent, dname, kids, files, index, ref>>
vars    == <<objects, msgs, pinned, depth, pending, task, lost, torn, calls>>

Idle  == [pc |-> "idle"]
NoRef == [d |-> Root, n |-> "", m |-> 0]

-----------------------------------------------------------------------------
(* The tree.                                                               *)

\* The directories in the subtree of x: as many generations as there can be.
Under(x) ==
    LET gen[k \in 0..MaxDir] ==
            IF k = 0 THEN {x}
            ELSE LET last == gen[k-1] IN last \cup UNION {ToSet(kids[d]) : d \in last}
    IN  gen[MaxDir]

InTree == Under(Root)

\* is_ancestor_of: along the parents.
Above(x) ==
    LET gen[k \in 0..MaxDir + 1] ==
            IF k = 0 THEN {x}
            ELSE LET last == gen[k-1] IN last \cup {parent[d] : d \in last \ {NoDir}}
    IN  gen[MaxDir + 1]

IsAncestorOf(x, y) == x \in Above(y)

FindDirs(d, n)  == {c \in ToSet(kids[d]) : dname[c] = n}
FindFiles(d, n) == {r \in index[d] : ref[r].n = n}

\* The refs of a subtree.
SubtreeRefs(x) == UNION {ToSet(files[d]) : d \in Under(x)}

\* to_dict: the tree as the document holds it.
Document ==
    LET entry(r) == [n |-> ref[r].n, m |-> ref[r].m]
        tree     == InTree
    IN  [d \in Dirs |-> IF d \notin tree THEN [name |-> "", kids |-> << >>, files |-> << >>]
           ELSE [name |-> dname[d], kids |-> kids[d],
                 files |-> [i \in DOMAIN files[d] |-> entry(files[d][i])]]]

\* What a request still holds besides its place in the code.
RefsOf(k) == IF k.pc \in {"update", "copy", "rm"} THEN {k.r}
             ELSE IF k.pc = "cpdir" THEN k.cur ELSE {}
DirsOf(k) == IF k.pc \in {"create", "copy"} THEN {k.d}
             ELSE IF k.pc = "rmdir" THEN {k.x}
             ELSE IF k.pc = "cpdir" THEN UNION {{f.x, f.to} : f \in ToSet(k.stack)}
             ELSE {}
IdsOf(k)  == IF k.pc \in {"rm", "rmdir", "delete"} THEN k.ids
             ELSE IF k.pc = "push" /\ k.then.pc = "delete" THEN k.then.ids ELSE {}

InFlight == {t \in Tasks : task[t].pc = "push"}
Mentioned(doc) == UNION {{e.m : e \in ToSet(doc[d].files)} : d \in Dirs}

\* The objects something refers to; any other may be taken for a new one.  A
\* message id is never used twice.
HeldRefs == UNION {RefsOf(task[t]) : t \in Tasks}
LiveDirs == UNION {Under(d) : d \in {Root} \cup {ref[r].d : r \in HeldRefs}
                                    \cup UNION {DirsOf(task[t]) : t \in Tasks}}
LiveRefs == HeldRefs \cup UNION {ToSet(files[d]) \cup index[d] : d \in LiveDirs}
FreeDirs == Dirs \ LiveDirs
FreeRefs == Refs \ LiveRefs
FreeMsgs == Msgs \ ({ref[r].m : r \in LiveRefs} \cup Mentioned(pinned) \cup torn
                    \cup UNION {IdsOf(task[t]) : t \in Tasks}
                    \cup UNION {Mentioned(task[t].snap) : t \in InFlight})

NewRef == CHOOSE r \in FreeRefs : TRUE
NewDir == CHOOSE x \in FreeDirs : TRUE
NewMsg == CHOOSE m \in FreeMsgs : TRUE

\* create_file_ref: list and index.
CreateFileRef(d, n, m) ==
    /\ FindFiles(d, n) = {}
    /\ FreeRefs # {}
    /\ LET r == NewRef
       IN  /\ ref'   = [ref EXCEPT ![r] = [d |-> d, n |-> n, m |-> m]]
           /\ files' = [files EXCEPT ![d] = Append(@, r)]
           /\ index' = [index EXCEPT ![d] = @ \cup {r}]

\* delete_file_ref: the list loses the ref that equals r, the index r itself.
Equal(r) == {q \in ToSet(files[ref[r].d]) : ref[q] = ref[r]}

-----------------------------------------------------------------------------
(* MetaDataApi.push and the pinned document.                               *)

\* The document is made of the tree as it is and sent; a push that is under
\* way is not waited for, and may land after this one.
Send(t, doc, after) ==
    /\ task' = [task EXCEPT ![t] = [pc |-> "push", snap |-> doc, then |-> after]]
    /\ lost' = (lost \/ InFlight # {})

\* In a batch the push is only noted, and the request goes on at once.
Push(t, after, leaving) ==
    /\ IF depth > 0
       THEN pending' = TRUE /\ task' = [task EXCEPT ![t] = after] /\ lost' = lost
       ELSE pending' = pending /\ Send(t, Document', after)
    /\ torn' = torn \cup leaving \cup IF depth > 0 \/ InFlight # {} THEN IdsOf(after) ELSE {}
    /\ UNCHANGED <<pinned, depth>>

\* replace_document has edited the pinned message.
PushLands(t) ==
    /\ task[t].pc = "push"
    /\ pinned' = task[t].snap
    /\ lost' = IF task[t].snap = Document /\ InFlight = {t} THEN FALSE ELSE lost
    /\ task' = [task EXCEPT ![t] = task[t].then]
    /\ UNCHANGED <<objects, msgs, depth, pending, torn, calls>>

\* The document does not fit, or the upload fails: the request fails with
\* the tree already changed.
PushFails(t) ==
    /\ "push" \in Faults
    /\ task[t].pc = "push"
    /\ lost' = TRUE
    /\ task' = [task EXCEPT ![t] = Idle]
    /\ UNCHANGED <<objects, msgs, pinned, depth, pending, torn, calls>>

\* delete_messages, after the push.
DeleteMessages(t) ==
    /\ task[t].pc = "delete"
    /\ msgs' = msgs \ task[t].ids
    /\ task' = [task EXCEPT ![t] = Idle]
    /\ UNCHANGED <<objects, pinned, depth, pending, lost, torn, calls>>

\* What is left to do once the document is written.
Delete(ids) == IF ids = {} THEN Idle ELSE [pc |-> "delete", ids |-> ids]

Fails(t) ==
    /\ task' = [task EXCEPT ![t] = Idle]
    /\ UNCHANGED <<objects, msgs, pinned, depth, pending, lost, torn, calls>>

\* A store call of a request raises before the tree was touched.
CallFails(t) ==
    /\ "call" \in Faults
    /\ task[t].pc \in {"create", "update", "copy"}
    /\ Fails(t)

Starts(t, op) == op \in Ops /\ task[t] = Idle /\ calls > 0 /\ calls' = calls - 1

-----------------------------------------------------------------------------
(* Files.                                                                  *)

\* FileApi.upload: the name decides between a new file and a new version.
UploadBegin(t, d, n) ==
    /\ Starts(t, "upload")
    /\ IF FindFiles(d, n) = {}
       THEN task' = [task EXCEPT ![t] = [pc |-> "create", d |-> d, n |-> n]]
       ELSE \E r \in FindFiles(d, n) : task' = [task EXCEPT ![t] = [pc |-> "update", r |-> r]]
    /\ UNCHANGED <<objects, msgs, pinned, depth, pending, lost, torn>>

\* _create_new_file: the descriptor exists before the ref; when the name was
\* taken meanwhile the request fails and the descriptor stays behind.
CreateCommit(t) ==
    /\ task[t].pc = "create" /\ FreeMsgs # {}
    /\ CreateFileRef(task[t].d, task[t].n, NewMsg)
    /\ msgs' = msgs \cup {NewMsg}
    /\ UNCHANGED <<parent, dname, kids, calls>>
    /\ Push(t, Idle, {})

CreateClashes(t) ==
    /\ task[t].pc = "create" /\ FindFiles(task[t].d, task[t].n) # {}
    /\ Fails(t)

\* append_file_version and _sync_file_ref: the descriptor is edited where it
\* is, or sent again when it is gone; then the ref follows it.
UpdateCommit(t) ==
    /\ task[t].pc = "update" /\ ref[task[t].r].m \in msgs
    /\ Fails(t)

UpdateResends(t) ==
    /\ task[t].pc = "update" /\ ref[task[t].r].m \notin msgs /\ FreeMsgs # {}
    /\ msgs' = msgs \cup {NewMsg}
    /\ ref' = [ref EXCEPT ![task[t].r].m = NewMsg]
    /\ UNCHANGED <<parent, dname, kids, files, index, calls>>
    /\ Push(t, Idle, {})

\* FileApi.copy to d under the name n.
CopyBegin(t, r, d, n) ==
    /\ Starts(t, "copy")
    /\ task' = [task EXCEPT ![t] = [pc |-> "copy", r |-> r, d |-> d, n |-> n]]
    /\ UNCHANGED <<objects, msgs, pinned, depth, pending, lost, torn>>

CopyCommit(t) ==
    /\ task[t].pc = "copy" /\ FreeMsgs # {}
    /\ CreateFileRef(task[t].d, task[t].n, NewMsg)
    /\ msgs' = msgs \cup {NewMsg}
    /\ UNCHANGED <<parent, dname, kids, calls>>
    /\ Push(t, Idle, {})

\* The name was taken: _discard_orphans, and nothing has happened.
CopyClashes(t) ==
    /\ task[t].pc = "copy" /\ FindFiles(task[t].d, task[t].n) # {}
    /\ Fails(t)

\* The messages of refs that were collected for a folder that is being
\* removed, and that are about to be outside of it.
Leaving(refs, d) ==
    {ref[r].m : r \in refs} \cap
        UNION {task[u].ids : u \in {v \in Tasks : task[v].pc = "rmdir" /\ d \notin Under(task[v].x)}}

\* FileApi.move, relocate_file_ref: the new ref, then the old one goes; when
\* that one is not in the list, the new one goes again.  A move to where the
\* file is only pushes.
Move(t, r, d, n) ==
    LET from == ref[r].d
        q    == NewRef
    IN  /\ Starts(t, "move")
        /\ IF d = from /\ n = ref[r].n
           THEN UNCHANGED <<files, index, ref>>
           ELSE /\ FindFiles(d, n) = {} /\ FreeRefs # {}
                /\ Equal(r) # {}
                /\ ref' = [ref EXCEPT ![q] = [d |-> d, n |-> n, m |-> ref[r].m]]
                /\ \E e \in Equal(r) :
                      files' = [x \in Dirs |->
                          LET s == IF x = d THEN Append(files[x], q) ELSE files[x]
                          IN  IF x = from THEN Remove(s, e) ELSE s]
                /\ index' = [x \in Dirs |-> (index[x] \cup IF x = d THEN {q} ELSE {})
                                              \ IF x = from THEN {r} ELSE {}]
        /\ UNCHANGED <<parent, dname, kids, msgs>>
        /\ Push(t, Idle, Leaving({r}, d))

\* _descriptors_referenced_elsewhere
Elsewhere(removing) == {ref[r].m : r \in SubtreeRefs(Root) \ removing}

\* Variant: a shared descriptor is collected like any other.
Collected_Shared(refs) == {ref[r].m : r \in refs}

\* collect_deletable_message_ids: what no other file refers to.
Collected(refs) == {ref[r].m : r \in refs} \ Elsewhere(refs)

\* FileApi.rm: what the file's messages are is read first.
RmBegin(t, r) ==
    /\ Starts(t, "rm")
    /\ task' = [task EXCEPT ![t] = [pc |-> "rm", r |-> r, ids |-> Collected({r})]]
    /\ UNCHANGED <<objects, msgs, pinned, depth, pending, lost, torn>>

\* fr.delete() raises when the ref is not in the list any more.
RmCommit(t) ==
    LET r == task[t].r
        d == ref[r].d
    IN  /\ task[t].pc = "rm"
        /\ \E e \in Equal(r) : files' = [files EXCEPT ![d] = Remove(@, e)]
        /\ index' = [index EXCEPT ![d] = @ \ {r}]
        /\ UNCHANGED <<parent, dname, kids, ref, msgs, calls>>
        /\ Push(t, Delete(task[t].ids), {})

RmGone(t) ==
    /\ task[t].pc = "rm" /\ Equal(task[t].r) = {}
    /\ Fails(t)

-----------------------------------------------------------------------------
(* Directories.                                                            *)

\* create_dir
CreateDir(d, n) ==
    /\ FindDirs(d, n) = {}
    /\ FreeDirs # {}
    /\ LET x == NewDir
       IN  /\ parent' = [parent EXCEPT ![x] = d]
           /\ dname'  = [dname EXCEPT ![x] = n]
           /\ kids'   = [kids EXCEPT ![x] = << >>, ![d] = Append(@, x)]
           /\ files'  = [files EXCEPT ![x] = << >>]
           /\ index'  = [index EXCEPT ![x] = {}]
    /\ UNCHANGED ref

Mkdir(t, d, n) ==
    /\ Starts(t, "mkdir")
    /\ CreateDir(d, n)
    /\ UNCHANGED msgs
    /\ Push(t, Idle, {})

\* Variant: a directory may be moved below itself.
MayMove_Anywhere(x, d, n) ==
    /\ x # Root /\ <<d, n>> # <<parent[x], dname[x]>>
    /\ FindDirs(d, n) = {}

\* What move_to asks of a directory and its new place.
MayMove(x, d, n) ==
    /\ x # Root /\ <<d, n>> # <<parent[x], dname[x]>>
    /\ ~IsAncestorOf(x, d)
    /\ FindDirs(d, n) = {}

MvDir(t, x, d, n) ==
    /\ Starts(t, "mvdir")
    /\ MayMove(x, d, n)
    /\ parent' = [parent EXCEPT ![x] = d]
    /\ dname'  = [dname EXCEPT ![x] = n]
    /\ kids'   = [y \in Dirs |->
                    LET s == IF y = parent[x] THEN Remove(kids[y], x) ELSE kids[y]
                    IN  IF y = d THEN Append(s, x) ELSE s]
    /\ UNCHANGED <<files, index, ref, msgs>>
    /\ Push(t, Idle, Leaving(SubtreeRefs(x), d))

\* rm_dangerously: the files below are collected; their descriptors are read.
RmDirBegin(t, x) ==
    LET refs == SubtreeRefs(x)
    IN  /\ Starts(t, "rmdir") /\ x # Root /\ refs # {}
        /\ task' = [task EXCEPT ![t] = [pc |-> "rmdir", x |-> x, ids |-> Collected(refs)]]
        /\ UNCHANGED <<objects, msgs, pinned, depth, pending, lost, torn>>

Detached(x) == kids' = [kids EXCEPT ![parent[x]] = Remove(@, x)]

RmDirCommit(t) ==
    LET x == task[t].x
    IN  /\ task[t].pc = "rmdir" /\ x \in ToSet(kids[parent[x]])
        /\ Detached(x)
        /\ UNCHANGED <<parent, dname, files, index, ref, msgs, calls>>
        /\ Push(t, Delete(task[t].ids), {})

RmDirGone(t) ==
    /\ task[t].pc = "rmdir" /\ task[t].x \notin ToSet(kids[parent[task[t].x]])
    /\ Fails(t)

\* rm_empty, and rm_dangerously of a folder without files: nothing to await.
RmEmpty(t, x) ==
    /\ Starts(t, "rmdir") /\ x # Root /\ SubtreeRefs(x) = {}
    /\ Detached(x)
    /\ UNCHANGED <<parent, dname, files, index, ref, msgs>>
    /\ Push(t, Idle, {})

-----------------------------------------------------------------------------
(* Ops.cp_dir, in one batch.                                               *)

Frame(x, to) == [x |-> x, to |-> to, i |-> 1, j |-> 1]

\* The batch is entered and the copy of the directory itself created.
CpDirBegin(t, x, d, n) ==
    /\ Starts(t, "cpdir") /\ x # Root
    /\ ~IsAncestorOf(x, d)
    /\ CreateDir(d, n)
    /\ depth' = depth + 1 /\ pending' = TRUE
    /\ task' = [task EXCEPT ![t] = [pc |-> "cpdir", cur |-> {}, stack |-> <<Frame(x, NewDir)>>]]
    /\ UNCHANGED <<msgs, pinned, lost, torn>>

Top(t) == Last(task[t].stack)
Stack(t, f) == Append(Front(task[t].stack), f)

\* The next file of the list as it is now.
CpFileBegin(t) ==
    /\ task[t].pc = "cpdir" /\ task[t].cur = {} /\ task[t].stack # << >>
    /\ Top(t).i \in DOMAIN files[Top(t).x]
    /\ task' = [task EXCEPT ![t].cur = {files[Top(t).x][Top(t).i]}]
    /\ UNCHANGED <<objects, msgs, pinned, depth, pending, lost, torn, calls>>

CpFileCommit(t) ==
    /\ task[t].pc = "cpdir" /\ FreeMsgs # {}
    /\ \E r \in task[t].cur : CreateFileRef(Top(t).to, ref[r].n, NewMsg)
    /\ msgs' = msgs \cup {NewMsg}
    /\ pending' = TRUE
    /\ task' = [task EXCEPT ![t].cur = {}, ![t].stack = Stack(t, [Top(t) EXCEPT !.i = @ + 1])]
    /\ UNCHANGED <<parent, dname, kids, pinned, depth, lost, torn, calls>>

\* The next child: its copy is created and copied into.
CpChild(t) ==
    LET f == Top(t)
        c == kids[f.x][f.j]
    IN  /\ task[t].pc = "cpdir" /\ task[t].cur = {} /\ task[t].stack # << >>
        /\ f.i \notin DOMAIN files[f.x] /\ f.j \in DOMAIN kids[f.x]
        /\ CreateDir(f.to, dname[c])
        /\ pending' = TRUE
        /\ task' = [task EXCEPT ![t].stack = Append(Stack(t, [f EXCEPT !.j = @ + 1]), Frame(c, NewDir))]
        /\ UNCHANGED <<msgs, pinned, depth, lost, torn, calls>>

CpReturns(t) ==
    LET f == Top(t)
    IN  /\ task[t].pc = "cpdir" /\ task[t].cur = {} /\ Len(task[t].stack) > 1
        /\ f.i \notin DOMAIN files[f.x] /\ f.j \notin DOMAIN kids[f.x]
        /\ task' = [task EXCEPT ![t].stack = Front(@)]
        /\ UNCHANGED <<objects, msgs, pinned, depth, pending, lost, torn, calls>>

\* Variant: the block writes only when it did not fail.
BatchExit_OnSuccess(t, ok) ==
    /\ depth' = depth - 1
    /\ IF depth = 1 /\ pending /\ ok
       THEN pending' = FALSE /\ Send(t, Document, Idle)
       ELSE task' = [task EXCEPT ![t] = Idle] /\ UNCHANGED <<pending, lost>>
    /\ UNCHANGED <<objects, msgs, pinned, torn>>

\* The end of the batch, after success or failure: the outermost one writes
\* whatever anyone asked for.
BatchExit(t, ok) ==
    /\ depth' = depth - 1
    /\ IF depth = 1 /\ pending
       THEN pending' = FALSE /\ Send(t, Document, Idle)
       ELSE task' = [task EXCEPT ![t] = Idle] /\ UNCHANGED <<pending, lost>>
    /\ UNCHANGED <<objects, msgs, pinned, torn>>

CpDirEnds(t) ==
    LET f == Top(t)
    IN  /\ task[t].pc = "cpdir" /\ task[t].cur = {} /\ Len(task[t].stack) = 1
        /\ f.i \notin DOMAIN files[f.x] /\ f.j \notin DOMAIN kids[f.x]
        /\ UNCHANGED calls
        /\ BatchExit(t, TRUE)

\* A step of the batch raises: a store call, or a name that someone took in
\* the copied folder.
CpDirFails(t) ==
    LET f == Top(t)
    IN  /\ task[t].pc = "cpdir"
        /\ \/ \E r \in task[t].cur : "call" \in Faults \/ FindFiles(f.to, ref[r].n) # {}
           \/ /\ task[t].cur = {} /\ f.i \notin DOMAIN files[f.x] /\ f.j \in DOMAIN kids[f.x]
              /\ FindDirs(f.to, dname[kids[f.x][f.j]]) # {}
        /\ UNCHANGED calls
        /\ BatchExit(t, FALSE)

-----------------------------------------------------------------------------
(* Start and restart.                                                      *)

\* from_dict: the objects of a document, its file refs numbered in order.
Before(doc) ==
    LET count[d \in Dirs] == IF d = Root THEN 0 ELSE count[d-1] + Len(doc[d-1].files)
    IN  count
FromDict(doc) ==
    LET id(d, i)  == Before(doc)[d] + i
        places(r) == {d \in Dirs : \E i \in DOMAIN doc[d].files : id(d, i) = r}
        above(d)  == {e \in Dirs : d \in ToSet(doc[e].kids)}
    IN  [files  |-> [d \in Dirs |-> [i \in DOMAIN doc[d].files |-> id(d, i)]],
         parent |-> [d \in Dirs |-> IF above(d) = {} THEN NoDir ELSE CHOOSE e \in above(d) : TRUE],
         ref    |-> [r \in Refs |-> IF places(r) = {} THEN NoRef
                      ELSE LET d == CHOOSE d \in places(r) : TRUE
                               e == doc[d].files[r - Before(doc)[d]]
                           IN  [d |-> d, n |-> e.n, m |-> e.m]]]

Init ==
    /\ \E sc \in Scenarios : pinned = sc.doc /\ calls = sc.calls
    /\ LET o == FromDict(pinned)
       IN  files = o.files /\ ref = o.ref /\ parent = o.parent
    /\ kids = [d \in Dirs |-> pinned[d].kids] /\ dname = [d \in Dirs |-> pinned[d].name]
    /\ index = [d \in Dirs |-> ToSet(files[d])]
    /\ msgs = Mentioned(pinned)
    /\ depth = 0 /\ pending = FALSE /\ lost = FALSE /\ torn = {}
    /\ task = [t \in Tasks |-> Idle]

\* The process dies and reads the document again.
Crash ==
    /\ "crash" \in Faults
    /\ LET o == FromDict(pinned)
       IN  files' = o.files /\ ref' = o.ref /\ parent' = o.parent
    /\ kids' = [d \in Dirs |-> pinned[d].kids] /\ dname' = [d \in Dirs |-> pinned[d].name]
    /\ index' = [d \in Dirs |-> ToSet(files'[d])]
    /\ depth' = 0 /\ pending' = FALSE /\ lost' = FALSE
    /\ task' = [t \in Tasks |-> Idle]
    /\ UNCHANGED <<msgs, pinned, torn, calls>>

-----------------------------------------------------------------------------
\* A path leads to a directory of the tree, or to a file by its name.
Found == UNION {index[d] : d \in InTree}

Begin(t) ==
    \/ \E d \in InTree, n \in Names : UploadBegin(t, d, n) \/ Mkdir(t, d, n)
    \/ \E r \in Found, d \in InTree, n \in Names : CopyBegin(t, r, d, n) \/ Move(t, r, d, n)
    \/ \E r \in Found : RmBegin(t, r)
    \/ \E x, d \in InTree, n \in Names : MvDir(t, x, d, n) \/ CpDirBegin(t, x, d, n)
    \/ \E x \in InTree : RmDirBegin(t, x) \/ RmEmpty(t, x)

Continue(t) ==
    \/ CreateCommit(t) \/ CreateClashes(t) \/ UpdateCommit(t) \/ UpdateResends(t)
    \/ CopyCommit(t) \/ CopyClashes(t) \/ CallFails(t)
    \/ RmCommit(t) \/ RmGone(t) \/ RmDirCommit(t) \/ RmDirGone(t)
    \/ CpFileBegin(t) \/ CpFileCommit(t) \/ CpChild(t) \/ CpReturns(t)
    \/ CpDirEnds(t) \/ CpDirFails(t)
    \/ PushLands(t) \/ PushFails(t) \/ DeleteMessages(t)

Next == Crash \/ \E t \in Tasks : Begin(t) \/ Continue(t)
Spec == Init /\ [][Next]_vars

-----------------------------------------------------------------------------
(* Properties.                                                             *)

\* No directory holds two files or two directories of one name, whatever
\* uploads, copies and moves were under way at once.
NamesUnique ==
    \A d \in LiveDirs :
        /\ \A i, j \in DOMAIN files[d] : ref[files[d][i]].n = ref[files[d][j]].n => i = j
        /\ \A i, j \in DOMAIN kids[d] : dname[kids[d][i]] = dname[kids[d][j]] => i = j

\* Every directory of the tree has exactly one place in it and its parent
\* knows it; no directory is below itself, which would cut it off with all
\* its files (move_to of two requests that move each other's target).
OnePlace ==
    /\ \A d \in InTree : \A c \in ToSet(kids[d]) : parent[c] = d
    /\ \A d \in Dirs : NoDir \in Above(d)

\* Names and places together.
TreeIsSound == NamesUnique /\ OnePlace

\* A file of the tree has its messages: what a removal deletes belonged to
\* no file that is still there (file.py, _descriptors_referenced_elsewhere).
FilesHaveMessages ==
    \A r \in SubtreeRefs(Root) : ref[r].m \in msgs \cup torn

\* So does a file of the document a restart would read: a removal deletes
\* messages only after the document without them was written.
DocumentHasMessages == Mentioned(pinned) \subseteq msgs \cup torn

\* Neither the tree nor the document of a restart names a deleted message.
NothingDangles == FilesHaveMessages /\ DocumentHasMessages

\* What the tree has and the document has not is on its way, or noted for
\* the end of a batch: no acknowledged change waits for a later write.
ChangesRecorded ==
    \/ lost \/ pinned = Document
    \/ depth > 0 /\ pending
    \/ \E t \in InFlight : task[t].snap = Document

==============================================================================
