------------------------------ MODULE MicroTree ------------------------------
(***************************************************************************)
(* The data the version-control modules share: trees, the working copy and *)
(* the commits of one task branch, as far as the stores tell them apart.   *)
(* A tree is what flattenTree returns: the content of every path, or that  *)
(* the path is absent.  A commit is named by its place in the sequence of  *)
(* all the commits ever written; `line' is the set of commits reachable    *)
(* from it, itself included.                                               *)
(***************************************************************************)
EXTENDS Integers, Sequences, FiniteSets

CONSTANTS Paths,      \* project-relative paths
          Contents,   \* what a file can hold (bytes and mode)
          Absent      \* the path has no file

ASSUME AbsentAssumption == Absent \notin Contents

Entries == Contents \cup {Absent}
Trees   == [Paths -> Entries]

\* The paths on which two trees differ.
Differ(t, u) == {p \in Paths : t[p] # u[p]}

\* buildTreeFromStaging: the old tree with the working copy of the staged paths
\* laid over it; a staged path with no file is a deletion.
StagedTree(old, disk, staged) == [p \in Paths |-> IF p \in staged THEN disk[p] ELSE old[p]]

\* materializeCommit writes every entry of the target and removes what the old
\* tree tracked and the target does not; an untracked file stays.
Materialized(old, target, disk) ==
  [p \in Paths |-> IF target[p] # Absent \/ old[p] # Absent THEN target[p] ELSE disk[p]]

\* A materialisation that stopped part way.  Each entry is removed before it is
\* written, so a path it has reached may be left without a file.
PartlyMaterialized(old, target, disk) ==
  {d \in Trees : \A p \in Paths : \/ d[p] = disk[p]
                                  \/ d[p] = Materialized(old, target, disk)[p]
                                  \/ d[p] = Absent /\ target[p] # Absent}

\* A commit on top of commit k of the sequence `commits'.
Child(commits, k, tree, by) ==
  [parent |-> k, line |-> commits[k].line \cup {Len(commits) + 1}, tree |-> tree, by |-> by]

\* The first commit of a task branch, the fork base of its worktree.
ForkBase(tree) == [parent |-> 0, line |-> {1}, tree |-> tree, by |-> "base"]
==============================================================================
