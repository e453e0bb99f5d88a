----------------------------- MODULE TaskHistory -----------------------------
(***************************************************************************)
(* The history of one working copy on which several tasks commit: plain    *)
(* commits, rollbacks, cherry-picks, squashes and restores, the apply      *)
(* journal that protects the commands which rewrite files, and its         *)
(* recovery when the next command opens the repository.                    *)
(*                                                                         *)
(* Commands are serialised by the repository lock, so each is one action.  *)
(* Its parameter `got' says how far it came: every command but the last    *)
(* step may be cut short (killed, or failed) after any of its writes.      *)
(***************************************************************************)
EXTENDS MicroTree, FiniteSetsExt

CONSTANTS Tasks,
          BoundTask,    \* the task a linked worktree is bound to, "base" in the main copy
          BytesOf,      \* the blob of a content: its bytes without the file mode
          MaxCommits,   \* bound: commits ever written, the first one included
          MaxCuts       \* bound: commands cut short (a recovery may be, any number of times)

ASSUME BytesAssumption == DOMAIN BytesOf = Contents
ASSUME BoundAssumption == MaxCommits \in Nat \ {0} /\ MaxCuts \in Nat

VARIABLES
  commits,   \* every commit written
  rows,      \* task_commits of each task, in position order
  current,   \* the branch checked out here: a task's, or "main"
  tip,       \* the commit it is at
  branch,    \* the squash last put on task/<id>; 0 when there is none
  disk,      \* the working copy
  staged,    \* staging.json
  journal,   \* apply_journal.json
  cuts,
  applied,   \* history: the commits written by rollback and cherry-pick
  squashes,  \* history: the commits written by squash
  edited     \* history: paths whose file is not what the last command left

vars == <<commits, rows, current, tip, branch, disk, staged, journal, cuts, applied, squashes, edited>>

Ids       == 1..Len(commits)
Tree(k)   == commits[k].tree
Line(k)   == commits[k].line
Bytes(e)  == IF e = Absent THEN Absent ELSE BytesOf[e]

NoJournal == [commit |-> 0, diffs |-> <<>>]

\* A file diff holds what was at the path and what is to be there.
Diff      == [old : Entries, new : Entries]
DiffSets  == UNION {[S -> Diff] : S \in SUBSET Paths}

TypeOK ==
  /\ Len(commits) \in 1..MaxCommits
  /\ \A k \in Ids : /\ Tree(k) \in Trees /\ commits[k].by \in Tasks \cup {"base"}
                    /\ commits[k].parent \in 0..k - 1 /\ k \in Line(k)
  /\ rows \in [Tasks -> Seq(Ids)] /\ \A t \in Tasks : IsInjective(rows[t])
  /\ tip \in Ids /\ branch \in [Tasks -> Ids \cup {0}]
  /\ disk \in Trees /\ staged \subseteq Paths /\ edited \subseteq Paths
  /\ journal.commit \in Ids \cup {0} /\ journal.diffs \in DiffSets
  /\ cuts \in 0..MaxCuts /\ applied \subseteq Ids /\ squashes \subseteq Ids

\* currentRef: a linked worktree is on the branch of its task; in the main copy
\* any branch may be checked out, and stays so here.
Init ==
  /\ current \in IF BoundTask = "base" THEN Tasks \cup {"main"} ELSE {BoundTask}
  /\ \E t \in Trees :
       commits = <<ForkBase(t)>> /\ tip = 1 /\ disk = t
  /\ rows = [u \in Tasks |-> <<>>] /\ branch = [u \in Tasks |-> 0]
  /\ staged = {} /\ journal = NoJournal /\ cuts = 0
  /\ applied = {} /\ squashes = {} /\ edited = {}

\* A command that did not come to its last write was cut short.
Cut(got, last) == IF got = last THEN UNCHANGED cuts ELSE cuts < MaxCuts /\ cuts' = cuts + 1

\* OpenApp recovers a pending journal before any command runs.
Opened == journal = NoJournal

Recorded(t) == Range(rows[t])

------------------------------------------------------------------------------
(* Files and the staging set. *)

\* Someone edits a file; nothing locks the working copy.
Edit ==
  \E p \in Paths : \E e \in Entries \ {disk[p]} :
    /\ disk' = [disk EXCEPT ![p] = e]
    /\ edited' = edited \cup {p}
    /\ UNCHANGED <<commits, rows, tip, branch, staged, journal, cuts, applied, squashes, current>>

\* WorktreeStore.Add of one path: it must exist or be tracked.
Add(p) ==
  /\ Opened /\ p \notin staged
  /\ disk[p] # Absent \/ Tree(tip)[p] # Absent
  /\ staged' = staged \cup {p}
  /\ UNCHANGED <<commits, rows, tip, branch, disk, journal, cuts, applied, squashes, edited, current>>

\* RestoreService.Unstage.
Unstage(p) ==
  /\ Opened /\ p \in staged
  /\ staged' = staged \ {p}
  /\ UNCHANGED <<commits, rows, tip, branch, disk, journal, cuts, applied, squashes, edited, current>>

------------------------------------------------------------------------------
(* Plain commits. *)

\* CommitService.CreateCommit: stage everything if asked to, refuse a commit
\* that changes nothing unless asked for one, write the commit and advance the
\* branch, clear the staging set, add the ledger row.
CreateCommit(t, got) ==
  /\ Opened /\ Len(commits) < MaxCommits
  /\ \E all, empty \in BOOLEAN :
       LET set  == IF all THEN staged \cup Differ(disk, Tree(tip)) ELSE staged
           tree == StagedTree(Tree(tip), disk, set)
           k    == Len(commits) + 1
       IN /\ tree = Tree(tip) => empty
          /\ commits' = Append(commits, Child(commits, tip, tree, t))
          /\ tip' = k
          /\ staged' = IF got = "advanced" THEN set ELSE {}
          /\ rows' = IF got = "indexed" THEN [rows EXCEPT ![t] = Append(@, k)] ELSE rows
          /\ edited' = edited \ set
  /\ Cut(got, "indexed")
  /\ UNCHANGED <<branch, disk, journal, applied, squashes, current>>

------------------------------------------------------------------------------
(* Commands that commit from file diffs and rewrite the files. *)

\* DirtyPaths: staged, or the file's bytes differ from the tip's.  A change of
\* mode alone is not dirty.
DirtyPaths == staged \cup {p \in Paths : Bytes(disk[p]) # Bytes(Tree(tip)[p])}

\* applyVerifiedDiff: an added path must be absent or hold the same bytes already,
\* another one must still hold the bytes the diff starts from.
Applies(d, entry) ==
  IF d.old = Absent THEN entry = Absent \/ Bytes(entry) = Bytes(d.new)
                    ELSE entry # Absent /\ Bytes(entry) = Bytes(d.old)

\* ... and what the tree then has there: bytes that are there already are left as
\* they are.
Apply(d, entry) == IF d.old = Absent /\ entry # Absent THEN entry ELSE d.new

(* Mutant: deletions do not reach the working copy. *)
WrittenKeepsDeleted(diffs) ==
  [p \in Paths |-> IF p \in DOMAIN diffs /\ diffs[p].new # Absent THEN diffs[p].new ELSE disk[p]]

\* MaterializeDiffs, completed or cut short; an entry is removed before it is
\* written.
Written(diffs) == [p \in Paths |-> IF p \in DOMAIN diffs THEN diffs[p].new ELSE disk[p]]
PartlyWritten(diffs) ==
  {d \in Trees : \A p \in Paths :
     d[p] = disk[p] \/ (p \in DOMAIN diffs /\ d[p] \in {diffs[p].new, Absent})}

ApplySteps   == {"journaled", "advanced", "writing", "written", "indexed", "cleared"}
RecoverSteps == {"writing", "written", "indexed", "cleared"}

\* CreateCommitFromDiffsJournaled, then the row and the end of the journal: the
\* journal is written while nothing refers to the commit, then the branch
\* advances and the files are written.
ApplyJournaled(t, diffs, got) ==
  /\ Len(commits) < MaxCommits
  /\ DOMAIN diffs # {} /\ DOMAIN diffs \cap DirtyPaths = {}
  /\ \A p \in DOMAIN diffs : Applies(diffs[p], Tree(tip)[p])
  /\ LET k    == Len(commits) + 1
         tree == [p \in Paths |-> IF p \in DOMAIN diffs THEN Apply(diffs[p], Tree(tip)[p])
                                                        ELSE Tree(tip)[p]]
     IN /\ commits' = Append(commits, Child(commits, tip, tree, t))
        /\ applied' = applied \cup {k}
        /\ tip' = IF got = "journaled" THEN tip ELSE k
        /\ rows' = IF got \in {"indexed", "cleared"}
                   THEN [rows EXCEPT ![t] = Append(@, k)] ELSE rows
        /\ journal' = IF got = "cleared" THEN NoJournal ELSE [commit |-> k, diffs |-> diffs]
  /\ disk' \in CASE got \in {"journaled", "advanced"} -> {disk}
                 [] got = "writing" -> PartlyWritten(diffs)
                 [] OTHER -> {Written(diffs)}
  /\ edited' = IF got \in {"journaled", "advanced", "writing"} THEN edited
               ELSE edited \ DOMAIN diffs
  /\ Cut(got, "cleared")
  /\ UNCHANGED <<branch, staged, squashes, current>>

\* What commit k changed, as DiffCommits against its parent reports it.
Change(k) == [p \in Differ(Tree(commits[k].parent), Tree(k)) |->
                [old |-> Tree(commits[k].parent)[p], new |-> Tree(k)[p]]]

\* The rows of t, by position, whose commit is on the current lineage and changes
\* path p.
Touches(t, p) ==
  {i \in DOMAIN rows[t] : rows[t][i] \in Line(tip) /\ p \in DOMAIN Change(rows[t][i])}

\* foldDiffs: the state of p before the first and after the last of them, and
\* whether each starts where the one before it ended (verifyFoldChain).
Before(t, p)    == Change(rows[t][Min(Touches(t, p))])[p].old
After(t, p)     == Change(rows[t][Max(Touches(t, p))])[p].new
Unbroken(t, p)  ==
  \A i \in Touches(t, p) :
    LET later == {j \in Touches(t, p) : j > i}
    IN later # {} => Change(rows[t][i])[p].new = Change(rows[t][Min(later)])[p].old

\* inverseFromStates.
InverseDiffs(t) == [p \in {q \in Paths : Touches(t, q) # {} /\ Before(t, q) # After(t, q)} |->
                 [old |-> After(t, p), new |-> Before(t, p)]]

\* RollbackService.RollbackTask.
RollbackTask(t) ==
  /\ Opened /\ rows[t] # <<>>
  /\ \A p \in Paths : Unbroken(t, p)
  /\ LET diffs == InverseDiffs(t)
     IN \E got \in ApplySteps : ApplyJournaled(t, diffs, got)

\* CommitService.CherryPick of a recorded commit, for its own task or another.
CherryPick(t, k) ==
  /\ Opened
  /\ \E u \in Tasks : k \in Recorded(u)
  /\ LET diffs == Change(k)
     IN \E got \in ApplySteps : ApplyJournaled(t, diffs, got)

\* indexIfMissing.
Missing(t, k) == k \notin Recorded(t)

\* RecoverPendingApply, when the next command opens the repository: a journaled
\* commit that is the tip is completed, one further down only gets its row if it
\* has none, one that never became the tip is forgotten.
RecoverPendingApply(got) ==
  /\ ~Opened
  /\ LET k == journal.commit
         t == commits[k].by
     IN /\ disk' \in CASE tip # k -> {disk}
                       [] tip = k /\ got = "writing" -> PartlyWritten(journal.diffs)
                       [] OTHER -> {Written(journal.diffs)}
        /\ edited' = IF tip = k /\ got # "writing" THEN edited \ DOMAIN journal.diffs ELSE edited
        /\ rows' = IF got \in {"indexed", "cleared"} /\ k \in Line(tip) /\ Missing(t, k)
                   THEN [rows EXCEPT ![t] = Append(@, k)] ELSE rows
  /\ journal' = IF got = "cleared" THEN NoJournal ELSE journal
  /\ UNCHANGED <<commits, tip, branch, staged, cuts, applied, squashes, current>>

------------------------------------------------------------------------------
(* Squashes and restores. *)

(* Mutant: the net change is everything up to the task's last commit. *)
NetSpan(t, p) == Tree(rows[t][Len(rows[t])])[p]

\* taskNetChanges: what the recorded commits of t did to p, each against its own
\* parent, the last one winning.  Earlier squashes of t are among them.
NetChange(t, p) ==
  LET net == {i \in DOMAIN rows[t] : p \in DOMAIN Change(rows[t][i])}
  IN IF net = {} THEN Tree(commits[rows[t][1]].parent)[p] ELSE Change(rows[t][Max(net)])[p].new

\* The parent of the task's first commit, and its tree with the net changes.
squashBase(t) == commits[rows[t][1]].parent
squashTree(t) == [p \in Paths |-> NetChange(t, p)]

\* The paths where the current line has, beyond the base of t, the work of commits
\* that are not among the recorded ones of t: another task's, or cut short.
LeftOut(t) ==
  {p \in Paths : \E k \in Line(tip) \ Line(squashBase(t)) :
                   k \notin Recorded(t) \cup squashes /\ p \in DOMAIN Change(k)}

\* The commit is written, then the task's branch is set to it whatever it was.
\* When that branch is the one checked out, the tip moves with it and the files
\* stay as they are.
CreateSquashCommit(t) ==
  LET k == Len(commits) + 1
  IN /\ commits' = Append(commits, Child(commits, squashBase(t), squashTree(t), t))
     /\ branch' = [branch EXCEPT ![t] = k]
     /\ tip' = IF current = t THEN k ELSE tip
     /\ squashes' = squashes \cup {k}
     /\ edited' = IF current = t THEN edited \cup LeftOut(t) ELSE edited

\* SquashService.SquashTask: a commit with the net change of the task on the
\* parent of its first commit, on the task's own branch, then its row.
SquashTask(t, got) ==
  /\ Opened /\ rows[t] # <<>> /\ Len(commits) < MaxCommits
  /\ CreateSquashCommit(t)
  /\ rows' = IF got = "indexed" THEN [rows EXCEPT ![t] = Append(@, Len(commits) + 1)] ELSE rows
  /\ Cut(got, "indexed")
  /\ UNCHANGED <<disk, staged, journal, applied, current>>

\* ComputeRestoreDiffs: what takes the files to commit k; a path that neither k
\* nor the tip tracks is left alone.
RestoreDiffs(k) ==
  [p \in {q \in Paths : disk[q] # Tree(k)[q] /\ (Tree(k)[q] # Absent \/ Tree(tip)[q] # Absent)} |->
     [old |-> disk[p], new |-> Tree(k)[p]]]

\* RestoreService.RestoreAll to a recorded commit: refused over uncommitted work
\* unless forced; the files are written, then staged.
RestoreAll(k, force, got) ==
  LET diffs == RestoreDiffs(k)
  IN /\ Opened
     /\ \E u \in Tasks : k \in Recorded(u)
     /\ DOMAIN diffs # {}
     /\ ~force => DOMAIN diffs \cap DirtyPaths = {}
     /\ disk' \in IF got = "writing" THEN PartlyWritten(diffs) ELSE {Written(diffs)}
     /\ staged' = IF got = "staged" THEN staged \cup DOMAIN diffs ELSE staged
     /\ edited' = edited \cup DOMAIN diffs
     /\ Cut(got, "staged")
     /\ UNCHANGED <<commits, rows, tip, branch, journal, applied, squashes, current>>

\* RestoreService.RestoreFile: the bytes of a path in a recorded commit, written
\* with the mode the file has, or a plain one.
RestoreFile(k, p) ==
  /\ Opened
  /\ \E u \in Tasks : k \in Recorded(u)
  /\ Tree(k)[p] # Absent
  /\ \E e \in Contents : Bytes(e) = Bytes(Tree(k)[p]) /\ disk' = [disk EXCEPT ![p] = e]
  /\ edited' = edited \cup {p}
  /\ UNCHANGED <<commits, rows, tip, branch, staged, journal, cuts, applied, squashes, current>>

------------------------------------------------------------------------------
(* The commands.  In a linked worktree they act for its task only. *)

MayActFor(t) == BoundTask \in {"base", t}

addCmd == \E p \in Paths : Add(p)
commitCmd(t) == /\ MayActFor(t)
                /\ \E got \in {"advanced", "unstaged", "indexed"} : CreateCommit(t, got)

\* --commit names the task by one of its commits; a dry run changes nothing.
rollbackCmd(t) == MayActFor(t) /\ RollbackTask(t)

\* --no-commit changes nothing; --onto is `mgit checkout' before it.
cherryPickCmd(t) == MayActFor(t) /\ \E k \in Ids : CherryPick(t, k)

\* A dry run changes nothing; --to-main is `mgit checkout main' and `mgit merge'
\* after it, --to-git prints the commit as a patch.
squashCmd(t) == \E got \in {"created", "indexed"} : SquashTask(t, got)

\* restore --staged, restore --all, restore <file>.  --force makes a difference over
\* uncommitted work only, where the user gives it.
restoreCmd ==
  \/ \E p \in Paths : Unstage(p)
  \/ \E k \in Ids, got \in {"writing", "written", "staged"} :
       LET force == DOMAIN RestoreDiffs(k) \cap DirtyPaths # {} IN RestoreAll(k, force, got)
  \/ \E k \in Ids, p \in Paths : RestoreFile(k, p)

Next ==
  \/ Edit \/ addCmd \/ restoreCmd
  \/ \E got \in RecoverSteps : RecoverPendingApply(got)
  \/ \E t \in Tasks : commitCmd(t) \/ squashCmd(t) \/ rollbackCmd(t) \/ cherryPickCmd(t)

Spec == Init /\ [][Next]_vars

------------------------------------------------------------------------------
(* Properties. *)

\* What `mgit verify' reports: commits of the lineage, but the initial one, that
\* no task has a row for.
VerifyIndexIntegrity == {k \in Line(tip) : k # 1 /\ \A t \in Tasks : k \notin Recorded(t)}

\* What a cut-short rollback or cherry-pick left undone is made good: when no
\* journal is pending, `mgit verify' reports none of them and each has its row
\* under its own task, so that a second rollback counts the first
\* (RecoverPendingApply, indexIfMissing).
RevertRecorded ==
  Opened => \A k \in applied \cap Line(tip) :
              k \notin VerifyIndexIntegrity /\ k \in Recorded(commits[k].by)

\* When no journal is pending, a file whose bytes differ from the tip's was
\* changed by someone, put there by a restore, or is the work of commits that the
\* squash of the task checked out left out: no command leaves the files of an
\* older tip behind, for a resync to absorb and so undo the command.
TipOnDisk ==
  Opened => \A p \in Paths : Bytes(disk[p]) # Bytes(Tree(tip)[p]) => p \in edited

\* Append-only (FR-12): no ledger row is ever dropped or moved, and a commit leaves
\* the current lineage only when the task checked out is squashed, and then only
\* from the task's first recorded commit on (CreateSquashCommit sets task/<id>,
\* which is the current branch of its worktree).
HistoryOnlyGrows ==
  /\ \A k \in Line(tip) \ Line(tip)' :
       \E t \in Tasks : t = current /\ branch'[t] # branch[t] /\ k >= rows[t][1]
  /\ \A t \in Tasks : /\ Len(rows[t]) <= Len(rows'[t])
                    /\ SubSeq(rows'[t], 1, Len(rows[t])) = rows[t]

\* The state path p would be in had the recorded commits of t never been made.
Without(t, p) ==
  LET others == {k \in Line(tip) : k = 1 \/ (k \notin Recorded(t) /\ p \in DOMAIN Change(k))}
  IN Tree(Max(others))[p]

\* Somebody else changed p after t first did.
Interleaved(t, p) ==
  \E k \in Line(tip) : /\ k # 1 /\ k \notin Recorded(t) /\ p \in DOMAIN Change(k)
                       /\ Touches(t, p) # {} /\ k > rows[t][Min(Touches(t, p))]

\* The step is a rollback of t.
RolledBack(t) == /\ applied' # applied /\ commits'[Len(commits')].by = t
                 /\ RollbackTask(t)

\* A rollback leaves every path as if the commits of its task had never been
\* made, wherever nobody else changed the path after the task (RollbackTask:
\* "the revert restores the before state").
RollbackIsReplay ==
  \A t \in Tasks : RolledBack(t) =>
    \A p \in Paths : Interleaved(t, p) \/ commits'[Len(commits')].tree[p] = Without(t, p)

\* The rows of t, by position, that are no squash and change path p.
Owned(t, p) ==
  {i \in DOMAIN rows[t] : rows[t][i] \notin squashes /\ p \in DOMAIN Change(rows[t][i])}

\* A squash has, on the tree its task started from, what the last of the task's own
\* commits to change a path left there, and nothing of what other tasks committed
\* in between, also when it is not the first squash of the task and when earlier
\* ones took the commits off the lineage (SquashTask; MGIT-22).
SquashIsNet ==
  \A t \in Tasks : branch'[t] # branch[t] =>
    \A p \in Paths :
      commits'[branch'[t]].tree[p] =
        IF Owned(t, p) = {} THEN Tree(squashBase(t))[p]
                            ELSE Change(rows[t][Max(Owned(t, p))])[p].new

\* "It NEVER advances HEAD" (CreateSquashCommit).
SquashKeepsHead == [][branch' # branch => tip' = tip]_vars

\* "rollback never clobbers other work" (RollbackTask): it leaves every path as if
\* only the commits of its own task were missing.
RollbackSparesOthers ==
  [][\A t \in Tasks : RolledBack(t) =>
       \A p \in Paths : commits'[Len(commits')].tree[p] = Without(t, p)]_vars

\* Whatever was cut short is made good before anything else happens: reverts are
\* on record, and the files are the tip's (RecoverPendingApply).
RecoveryIsComplete == TypeOK /\ RevertRecorded /\ TipOnDisk

\* The commands that rewrite a task do exactly that: history only grows but for
\* the squash of the task checked out, a rollback takes back its task, a squash is
\* its task's net change (RollbackTask, SquashTask).
RewritesAreExact == [][HistoryOnlyGrows /\ RollbackIsReplay /\ SquashIsNet]_vars
==============================================================================
