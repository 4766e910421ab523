----------------------------- MODULE MCNamespace -----------------------------
(***************************************************************************)
(* Instances of Namespace for TLC: two requests on a tree of three levels  *)
(* in which two files share a descriptor, as in documents of older         *)
(* versions; and three requests on a root with one file.                   *)
(***************************************************************************)
EXTENDS Namespace

Entry(n, m) == [n |-> n, m |-> m]
Folder(name, subs, entries) == [name |-> name, kids |-> subs, files |-> entries]

OldTree == [d \in Dirs |->
    CASE d = 0 -> Folder("", <<1>>, <<Entry("a", 1)>>)
      [] d = 1 -> Folder("a", <<2>>, <<Entry("a", 1)>>)
      [] d = 2 -> Folder("a", << >>, <<Entry("b", 2)>>)
      [] OTHER -> Folder("", << >>, << >>)]

SmallTree == [d \in Dirs |->
    CASE d = 0 -> Folder("", << >>, <<Entry("a", 1)>>)
      [] OTHER -> Folder("", << >>, << >>)]

TwoScenarios == {[doc |-> OldTree, calls |-> 2], [doc |-> SmallTree, calls |-> 3]}
Symmetry == Permutations(Tasks)
==============================================================================
