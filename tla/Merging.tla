------------------------------ MODULE Merging -------------------------------
(* `mgit merge` and `mgit checkout` over a commit graph: the ancestor and    *)
(* conflict checks, the merged tree, the look at the working tree, and the   *)
(* two writes that follow it, the files first and the branch second. The     *)
(* repository's lock keeps other commands out; nothing keeps the user's      *)
(* editor out.                                                               *)
EXTENDS Naturals, FiniteSets

CONSTANTS
    Paths, Contents, Absent,
    Branches,    \* the names of branches
    Main,        \* the branch checked out in the beginning, the only one then
    None,        \* no such branch
    MaxCommits,  \* bound: commits after the initial one
    MaxEdits,    \* bound: uncommitted edits
    MaxCrashes   \* bound: merges and checkouts that die on their way

VARIABLES
    parents,  \* per commit, its parents
    files,    \* per commit, its tree
    refs,     \* per branch, its tip
    cur,      \* the branch checked out
    work,     \* the working tree
    staging,  \* the staged paths
    merge,    \* the merge or checkout in progress, and the paths saved since it looked
    edits, crashes

vars == <<parents, files, refs, cur, work, staging, merge, edits, crashes>>

Trees == [Paths -> Contents \cup {Absent}]
Commits == DOMAIN files
Head == files[refs[cur]]
Going(how, t, s, b) ==
    [pc |-> "look", how |-> how, target |-> t, source |-> s, to |-> b, late |-> {}]
NoMerge == [Going("none", 0, 0, Main) EXCEPT !.pc = "idle"]

Init ==
    /\ parents = [c \in {0} |-> {}]
    /\ files = [c \in {0} |-> [p \in Paths |-> Absent]]
    /\ refs = [b \in Branches |-> IF b = Main THEN 0 ELSE None]
    /\ cur = Main
    /\ work = files[0]
    /\ staging = {}
    /\ merge = NoMerge
    /\ edits = 0
    /\ crashes = 0

----------------------------------------------------------------------------
(* The commit graph.                                                         *)

\* A commit's number is larger than its parents', so N steps reach every ancestor.
AncestorsIn(S) ==
    LET up[k \in 0..MaxCommits] ==
            IF k = 0 THEN S ELSE up[k - 1] \cup UNION {parents[c] : c \in up[k - 1]}
    IN up[MaxCommits]

IsAncestor(a, d) == a \in AncestorsIn({d})

\* The best common ancestors; the library orders them, and the code takes the first.
MergeBase(l, r) ==
    LET common == AncestorsIn({l}) \cap AncestorsIn({r})
    IN {c \in common : ~\E d \in common \ {c} : IsAncestor(c, d)}

changedPaths(base, t) == {p \in Paths : files[base][p] # files[t][p]}

ConflictingPaths(base, l, r) ==
    {p \in changedPaths(base, l) \cap changedPaths(base, r) : files[l][p] # files[r][p]}

applyMergeDelta(merged, base, t) ==
    [p \in Paths |-> IF p \in changedPaths(base, t) THEN files[t][p] ELSE merged[p]]

\* The base with HEAD's changes applied, then the source's.
mergedTree(base, h, s) == applyMergeDelta(applyMergeDelta(files[base], base, h), base, s)

NewCommit(tree, from) ==
    LET n == Cardinality(Commits) IN
    /\ n <= MaxCommits
    /\ files' = [c \in Commits \cup {n} |-> IF c = n THEN tree ELSE files[c]]
    /\ parents' = [c \in Commits \cup {n} |-> IF c = n THEN from ELSE parents[c]]

----------------------------------------------------------------------------
(* The working tree.                                                         *)

Untracked == {p \in Paths : work[p] # Absent /\ Head[p] = Absent}

\* Mutant of dirtyTrackedPaths: only what is staged counts.
dirtyStagedPaths == staging

dirtyTrackedPaths ==
    {p \in Paths : p \in staging \/ (Head[p] # Absent /\ work[p] \notin {Absent, Head[p]})}

IsClean == staging = {} /\ work = Head

\* Every file of the target is written; a file only the old HEAD had is removed.
materializeCommit(target, old) ==
    [p \in Paths |-> IF target[p] # Absent THEN target[p]
                     ELSE IF old[p] # Absent THEN Absent
                     ELSE work[p]]

TreeFromStaging == [p \in Paths |-> IF p \in staging THEN work[p] ELSE Head[p]]

----------------------------------------------------------------------------
(* The developer, and agents on other branches.                              *)

Edit(p, c) ==
    /\ edits < MaxEdits
    /\ c # work[p]
    /\ work' = [work EXCEPT ![p] = c]
    /\ edits' = edits + 1
    /\ merge' = IF merge.pc = "files" THEN [merge EXCEPT !.late = @ \cup {p}] ELSE merge
    /\ UNCHANGED <<parents, files, refs, cur, staging, crashes>>

Add(p) ==
    /\ merge.pc = "idle"
    /\ p \notin staging
    /\ work[p] # Absent \/ Head[p] # Absent
    /\ staging' = staging \cup {p}
    /\ UNCHANGED <<parents, files, refs, cur, work, merge, edits, crashes>>

CreateCommit ==
    /\ merge.pc = "idle"
    /\ staging # {}
    /\ NewCommit(TreeFromStaging, {refs[cur]})
    /\ refs' = [refs EXCEPT ![cur] = Cardinality(Commits)]
    /\ staging' = {}
    /\ UNCHANGED <<cur, work, merge, edits, crashes>>

\* A commit from the worktree of another branch.
CommitElsewhere(b, p, c) ==
    /\ merge.pc = "idle"
    /\ b # cur /\ refs[b] # None
    /\ files[refs[b]][p] # c
    /\ NewCommit([files[refs[b]] EXCEPT ![p] = c], {refs[b]})
    /\ refs' = [refs EXCEPT ![b] = Cardinality(Commits)]
    /\ UNCHANGED <<cur, work, staging, merge, edits, crashes>>

----------------------------------------------------------------------------
(* Branches and checkout.                                                    *)

\* A branch at HEAD; the files stay as they are.
CreateNamedBranch(b) ==
    /\ merge.pc = "idle"
    /\ refs[b] = None
    /\ refs' = [refs EXCEPT ![b] = refs[cur]]
    /\ UNCHANGED <<parents, files, cur, work, staging, merge, edits, crashes>>

\* `mgit branch <name>`: HEAD moves, and neither the files nor the staging area do.
SwitchBranch(b) ==
    /\ merge.pc = "idle"
    /\ b # cur /\ refs[b] # None
    /\ cur' = b
    /\ UNCHANGED <<parents, files, refs, work, staging, merge, edits, crashes>>

\* The service refuses any change, the untracked ones included; the store looks again.
Checkout(b) ==
    /\ merge.pc = "idle"
    /\ b # cur /\ refs[b] # None
    /\ IsClean
    /\ merge' = Going("checkout", refs[b], refs[b], b)
    /\ UNCHANGED <<parents, files, refs, cur, work, staging, edits, crashes>>

\* `mgit checkout`; with -b the new branch stays when the checkout is then refused.
checkoutCmd(b) == CreateNamedBranch(b) \/ Checkout(b)

----------------------------------------------------------------------------
(* Merging.                                                                  *)

\* The files of the source are written and then the branch is moved to it.
FastForward(s) ==
    /\ merge' = Going("ff", s, s, cur)
    /\ UNCHANGED <<parents, files, refs, staging>>

CreateMergeCommit(base, h, s) ==
    /\ NewCommit(mergedTree(base, h, s), {h, s})
    /\ merge' = Going("merge", Cardinality(Commits), s, cur)
    /\ UNCHANGED <<refs, staging>>

\* An ordinary commit of the staging area.
SquashCommit(h) ==
    /\ NewCommit(TreeFromStaging, {h})
    /\ refs' = [refs EXCEPT ![cur] = Cardinality(Commits)]
    /\ staging' = {}
    /\ UNCHANGED merge

\* Nothing when the source is already contained; refused on a conflict.
Merge(b, strategy) ==
    LET h == refs[cur]
        s == refs[b]
        canFF == IsAncestor(h, s) IN
    /\ merge.pc = "idle"
    /\ b # cur /\ s # None
    /\ ~IsAncestor(s, h)
    /\ \E base \in MergeBase(h, s) :
         /\ canFF \/ ConflictingPaths(base, h, s) = {}
         /\ \/ strategy = "auto" /\ canFF /\ FastForward(s)
            \/ strategy = "auto" /\ ~canFF /\ CreateMergeCommit(base, h, s)
            \/ strategy = "no-ff" /\ CreateMergeCommit(base, h, s)
            \/ strategy = "squash" /\ SquashCommit(h)
    /\ UNCHANGED <<cur, work, edits, crashes>>

\* `mgit merge`: --squash and --no-ff exclude each other.
mergeCmd(b, squash, noFF) ==
    /\ ~(squash /\ noFF)
    /\ Merge(b, IF squash THEN "squash" ELSE IF noFF THEN "no-ff" ELSE "auto")

\* materializeMerge, and Checkout of the store: refused over uncommitted tracked changes.
LookAtTree ==
    /\ merge.pc = "look"
    /\ merge' = IF dirtyTrackedPaths # {} THEN NoMerge ELSE [merge EXCEPT !.pc = "files"]
    /\ UNCHANGED <<parents, files, refs, cur, work, staging, edits, crashes>>

\* The files are written in a loop of their own. A save among them counts as one before
\* or after: each path is written once.
MaterializeMerge ==
    /\ merge.pc = "files"
    /\ work' = materializeCommit(files[merge.target], Head)
    /\ merge' = [merge EXCEPT !.pc = "ref", !.late = {}]
    /\ UNCHANGED <<parents, files, refs, cur, staging, edits, crashes>>

\* A merge moves the branch, a checkout HEAD.
AdvanceBranch ==
    /\ merge.pc = "ref"
    /\ IF merge.how = "checkout"
         THEN cur' = merge.to /\ staging' = {} /\ UNCHANGED refs
         ELSE refs' = [refs EXCEPT ![merge.to] = merge.target] /\ UNCHANGED <<cur, staging>>
    /\ merge' = NoMerge
    /\ UNCHANGED <<parents, files, work, edits, crashes>>

\* Killed before the files, among them, or after them. Each file is removed and then
\* written, so one path may be left without a file.
Crash ==
    /\ merge.pc # "idle"
    /\ crashes < MaxCrashes
    /\ crashes' = crashes + 1
    /\ merge' = NoMerge
    /\ IF merge.pc = "files"
         THEN \E S \in SUBSET Paths, gone \in SUBSET Paths :
                LET new == materializeCommit(files[merge.target], Head) IN
                /\ Cardinality(gone) <= 1
                /\ \A p \in gone : files[merge.target][p] # Absent
                /\ work' = [p \in Paths |-> IF p \in gone THEN Absent
                                            ELSE IF p \in S THEN new[p] ELSE work[p]]
         ELSE UNCHANGED work
    /\ UNCHANGED <<parents, files, refs, cur, staging, edits>>

Next ==
    \/ \E p \in Paths, c \in Contents \cup {Absent} : Edit(p, c)
    \/ \E p \in Paths : Add(p)
    \/ CreateCommit
    \/ \E b \in Branches, p \in Paths, c \in Contents \cup {Absent} : CommitElsewhere(b, p, c)
    \/ \E b \in Branches : checkoutCmd(b) \/ SwitchBranch(b)
    \/ \E b \in Branches, squash, noFF \in BOOLEAN : mergeCmd(b, squash, noFF)
    \/ LookAtTree
    \/ MaterializeMerge
    \/ AdvanceBranch
    \/ Crash

Spec == Init /\ [][Next]_vars

----------------------------------------------------------------------------
TypeOK ==
    /\ \A c \in Commits : files[c] \in Trees /\ parents[c] \subseteq Commits
    /\ refs \in [Branches -> Commits \cup {None}] /\ cur \in Branches
    /\ work \in Trees /\ staging \subseteq Paths
    /\ merge.pc \in {"idle", "look", "files", "ref"} /\ merge.target \in Commits

\* A merge loses no side's change: where only one side changed a path since their best
\* common ancestor, the merged tree has that side's version, and where the sides agree
\* it has theirs, whichever base the code took when there are several.
MergeKeepsBothSides ==
    merge.how \in {"ff", "merge"} =>
        LET h == refs[cur]
            s == merge.source
            t == files[merge.target] IN
        \A p \in Paths :
            /\ t[p] \in {files[h][p], files[s][p]}
            /\ (\A base \in MergeBase(h, s) : files[base][p] = files[h][p]) => t[p] = files[s][p]
            /\ (\A base \in MergeBase(h, s) : files[base][p] = files[s][p]) => t[p] = files[h][p]

\* A branch that moves, by a commit or a merge of any strategy, keeps its history, and
\* what it held changes only where the change was staged or is the source's: a squash
\* merge undoes nothing on the branch it is made on.
BranchKeepsItsOwn ==
    \A b \in Branches : (b = cur /\ refs'[b] # refs[b]) =>
        LET t == files'[refs'[b]] IN
        /\ refs[b] \in parents'[refs'[b]] \/ IsAncestor(refs[b], refs'[b])
        /\ \A p \in Paths : \/ t[p] = Head[p]
                            \/ p \in staging /\ t[p] = work[p]
                            \/ merge.pc = "ref" /\ t[p] = files[merge.source][p]

\* Neither a checkout nor a merge, whole or cut short, writes over a change of a tracked
\* file that was there when it looked for such changes; a later save it may.
TrackedWorkKept ==
    (work' # work /\ edits' = edits) =>
          \A p \in Paths \ merge.late :
              (Head[p] # Absent /\ work[p] \notin {Absent, Head[p]}) => work'[p] = work[p]

\* What the comment on CreateMergeCommit says without that exception: "the merge refuses
\* to clobber uncommitted tracked changes".
MergeRefusesDirty ==
    [][(work' # work /\ edits' = edits) =>
          \A p \in Paths :
              (Head[p] # Absent /\ work[p] \notin {Absent, Head[p]}) => work'[p] = work[p]]_vars

\* What the comment on dirtyTrackedPaths says of the files the guard leaves out:
\* "Untracked files are excluded (checkout neither removes nor overwrites them)".
UntrackedKept ==
    [][(work' # work /\ edits' = edits) => \A p \in Untracked : work'[p] = work[p]]_vars

\* What the comment on MergeSquash says: it "collapses source-only commits into a
\* single commit on HEAD". The commit a squash merge adds therefore holds, for some
\* source branch, every path that branch changed since a merge base.
SquashCarriesSource ==
    [][(merge.pc = "idle" /\ merge'.pc = "idle" /\ cur' = cur /\ staging = {} /\ refs'[cur] # refs[cur])
          => \E b \in {x \in Branches \ {cur} : refs[x] # None} :
                \E base \in MergeBase(refs[cur], refs[b]) :
                    \A p \in changedPaths(base, refs[b]) :
                        files'[refs'[cur]][p] = files[refs[b]][p]]_vars

\* A merge loses nothing: no side's committed change, and no uncommitted change of a
\* tracked file that was there when it looked (MergeBranch, CheckoutBranch).
MergeStep == MergeKeepsBothSides' /\ BranchKeepsItsOwn /\ TrackedWorkKept
MergeLosesNothing == [][MergeStep]_vars
=============================================================================
