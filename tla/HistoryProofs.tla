---------------------------- MODULE HistoryProofs ----------------------------
(***************************************************************************)
(* Theorems about the history of a working copy, for any tasks, paths,     *)
(* contents and number of commits and of commands cut short: what was cut  *)
(* short is made good, history only grows, a rollback takes back its task  *)
(* and a squash is the net change of its task.                             *)
(***************************************************************************)
EXTENDS HistoryInvariant

-----------------------------------------------------------------------------
(* Commands that rewrite a task, and recovery *)

\* The tree of a commit made from file diffs, and that it has the bytes they hold.
DiffTree(diffs) ==
  [p \in Paths |-> IF p \in DOMAIN diffs THEN Apply(diffs[p], Tree(tip)[p]) ELSE Tree(tip)[p]]

\* applyVerifiedDiff leaves bytes that are there already as they are.
LEMMA DiffTreeFacts ==
  ASSUME Tree(tip) \in Trees, NEW diffs \in DiffSets,
         \A p \in DOMAIN diffs : Applies(diffs[p], Tree(tip)[p])
  PROVE  /\ DiffTree(diffs) \in Trees
         /\ \A p \in DOMAIN diffs : Bytes(diffs[p].new) = Bytes(DiffTree(diffs)[p])
         /\ \A p \in Paths : p \notin DOMAIN diffs => DiffTree(diffs)[p] = Tree(tip)[p]
<1>1. \A p \in DOMAIN diffs : p \in Paths /\ diffs[p].new \in Entries
  BY DiffFacts
<1>2. \A p \in Paths : Tree(tip)[p] \in Entries
  BY DEF Trees
<1>3. \A p \in DOMAIN diffs : /\ Apply(diffs[p], Tree(tip)[p]) \in Entries
                              /\ Bytes(diffs[p].new) = Bytes(Apply(diffs[p], Tree(tip)[p]))
  BY <1>1, <1>2 DEF Apply, Applies
<1> QED BY <1>1, <1>2, <1>3 DEF DiffTree, Trees

\* A rollback or a cherry-pick, as far as it came.
LEMMA ApplyStep ==
  ASSUME IInv, Opened, NEW t \in Tasks, NEW diffs \in DiffSets, NEW got \in ApplySteps,
         ApplyJournaled(t, diffs, got)
  PROVE  IInv' /\ Extends
<1> USE DEF IInv
<1>1. /\ Len(commits) < MaxCommits /\ Len(commits) \in Nat
      /\ disk \in Trees /\ staged \subseteq Paths /\ tip \in Ids /\ edited \subseteq Paths
      /\ Tree(tip) \in Trees /\ cuts \in 0..MaxCuts /\ squashes \subseteq Ids
      /\ UNCHANGED <<branch, staged, squashes, current>>
  BY CommitFacts DEF ApplyJournaled, Others, Shape
<1>2. PICK tree : tree = DiffTree(diffs)
  OBVIOUS
<1>3. PICK k : k = Len(commits) + 1
  OBVIOUS
<1>4. PICK m : m = tip
  OBVIOUS
<1>5. /\ commits' = Append(commits, Child(commits, m, tree, t))
      /\ applied' = applied \cup {k}
      /\ tip' = IF got = "journaled" THEN tip ELSE k
      /\ rows' = IF got \in {"indexed", "cleared"}
                 THEN [rows EXCEPT ![t] = Append(@, k)] ELSE rows
      /\ journal' = IF got = "cleared" THEN NoJournal ELSE [commit |-> k, diffs |-> diffs]
      /\ \A p \in DOMAIN diffs : Applies(diffs[p], Tree(tip)[p])
  BY <1>2, <1>3, <1>4 DEF ApplyJournaled, DiffTree
<1>6. /\ tree \in Trees /\ m \in Ids
      /\ \A p \in DOMAIN diffs : Bytes(diffs[p].new) = Bytes(tree[p])
      /\ \A p \in Paths : p \notin DOMAIN diffs => tree[p] = Tree(tip)[p]
  BY Zenon, <1>1, <1>2, <1>4, <1>5, DiffTreeFacts
<1>7. Added(m, tree, t)
  BY <1>5, <1>6, ChildAdded
<1>8. tip' = tip \/ tip' = k
  BY <1>5
<1>9. /\ Grown /\ Shape' /\ tip' \in Ids' /\ \A j \in Ids : Same(j)
      /\ k \in Ids' /\ k # 1 /\ k \notin Ids /\ k \in Nat /\ Len(commits') = k
      /\ Tree(k)' = tree /\ commits'[k].by = t /\ commits'[k].parent = tip
      /\ tip' = tip => Line(tip)' = Line(tip) /\ Tree(tip)' = Tree(tip) /\ k \notin Line(tip)'
      /\ tip' = k => Line(tip)' = Line(tip) \cup {k} /\ Tree(tip)' = tree
      /\ \A u \in Tasks : \A i \in DOMAIN rows[u] : rows[u][i] < k
  <2>1. NewCommit(m, tree, t, k)
    BY Zenon, <1>1, <1>3, <1>6, <1>7, <1>8, AddedFacts
  <2> QED BY Zenon, <1>4, <2>1 DEF NewCommit
<1>10. /\ rows' = rows \/ Entered(t, k)
       /\ got = "cleared" => Entered(t, k) /\ k \in Recorded(t)'
       /\ rows' = rows \/ tip' = k
  <2>1. rows' = rows \/ (Entered(t, k) /\ tip' = k)
    BY <1>5, <1>9, RowEntered
  <2>2. got = "cleared" => Entered(t, k)
    BY Zenon, <1>5, <1>9, RowEntered
  <2> QED BY Zenon, <1>9, <2>1, <2>2, RecordedGrows
<1>11. RowsGrown
  BY <1>9, <1>10 DEF RowsGrown
<1>12. Carried' /\ Ledger'
  BY Zenon, <1>9, <1>11, CarriedGrown, LedgerGrown
<1>13. Net' /\ Current'
  <2>1. Marks /\ k \notin squashes' /\ Advances(k)
    BY Zenon, <1>1, <1>8, <1>9 DEF Marks, Advances
  <2>2. Net'
    BY Zenon, <1>9, <1>10, <2>1, NetGrown
  <2>3. \A u \in Tasks : rows'[u] = rows[u] \/ (Entered(u, k) /\ tip' = k)
    BY Zenon, <1>10 DEF Entered
  <2>4. Current'
    BY Zenon, <1>1, <1>9, <2>1, <2>3, CurrentGrown
  <2> QED BY Zenon, <2>2, <2>4
<1>14. Pending'
  <2>1. CASE got = "cleared"
    BY Zenon, <1>5, <2>1 DEF Pending, NoJournal
  <2>2. CASE got # "cleared"
    <3>1. journal'.commit = k /\ journal'.diffs = diffs
      BY <1>5, <2>2
    <3>2. Tree(journal.commit)' = Tree(k)'
      BY <3>1 DEF Tree
    <3>3. \A p \in DOMAIN diffs : Bytes(diffs[p].new) = Bytes(Tree(journal.commit)'[p])
      BY <1>6, <1>9, <3>2
    <3> QED BY Zenon, <1>5, <1>9, <3>1, <3>3 DEF Pending, Bytes
  <2> QED BY <2>1, <2>2
<1>15. Reverts'
  <2>1. \A j \in applied : /\ j \in Ids' /\ j # 1
                           /\ j \in Recorded(commits[j].by) => j \in Recorded(commits[j].by)'
    BY Zenon, <1>9, <1>10, RevertsKept DEF Reverts
  <2>2. \A j \in applied : j \in Line(tip)' => j \in Line(tip)
    BY <1>5, <1>9 DEF Reverts
  <2>3. \A j \in applied : j \in Line(tip) => j \in Recorded(commits[j].by)
    BY <1>1, OpenedFacts DEF Reverts, Ids
  <2>4. k \in Recorded(commits[k].by)' \/ k = journal'.commit
    <3>1. CASE got = "cleared"
      <4>1. Recorded(commits[k].by)' = Recorded(t)'
        BY <1>9 DEF Recorded
      <4> QED BY Zenon, <1>10, <3>1, <4>1
    <3>2. CASE got # "cleared"
      BY <1>5, <3>2
    <3> QED BY <3>1, <3>2
  <2>5. \A j \in applied' : j \notin squashes' /\ (j \in applied \/ j = k)
    BY Zenon, <1>1, <1>5, <1>9 DEF Reverts
  <2> QED BY ZenonT(60), <1>5, <1>9, <2>1, <2>2, <2>3, <2>4, <2>5 DEF Reverts
<1>16. /\ disk' \in Trees
       /\ \A p \in Paths : disk'[p] = disk[p] \/ p \in DOMAIN diffs
       /\ got \in {"written", "indexed", "cleared"} =>
            \A p \in DOMAIN diffs : disk'[p] = diffs[p].new
       /\ got = "journaled" => disk' = disk
  <2>1. CASE got \in {"journaled", "advanced"}
    <3>1. disk' \in {disk}
      BY <2>1 DEF ApplyJournaled
    <3> QED BY <1>1, <2>1, <3>1
  <2>2. CASE got = "writing"
    <3>1. disk' \in PartlyWritten(diffs)
      BY <2>2 DEF ApplyJournaled
    <3> QED BY <1>1, <2>2, <3>1, WrittenFacts
  <2>3. CASE got \in {"written", "indexed", "cleared"}
    <3>1. disk' \in {Written(diffs)}
      BY <2>3 DEF ApplyJournaled
    <3>2. DOMAIN diffs \subseteq Paths
      BY DiffFacts
    <3> QED BY Zenon, <1>1, <2>3, <3>1, <3>2, WrittenFacts
  <2> QED BY <2>1, <2>2, <2>3 DEF ApplySteps
<1>17. edited' = IF got \in {"journaled", "advanced", "writing"} THEN edited
                 ELSE edited \ DOMAIN diffs
  BY DEF ApplyJournaled
<1>18. Files'
  <2>1. \A p \in Paths : Bytes(disk[p]) # Bytes(Tree(tip)[p]) => p \in edited
    BY Zenon, <1>1, OpenedFacts DEF Files
  <2>2. CASE got = "journaled"
    <3>1. disk' = disk /\ Tree(tip)' = Tree(tip) /\ edited' = edited
      BY Zenon, <1>5, <1>9, <1>16, <1>17, <2>2
    <3> QED BY Zenon, <2>1, <3>1 DEF Files, Bytes
  <2>3. CASE got # "journaled"
    <3>1. Tree(tip)' = tree /\ tip' = k
      BY Zenon, <1>5, <1>9, <2>3
    <3>2. ASSUME NEW p \in Paths, Bytes(disk'[p]) # Bytes(tree[p])
          PROVE  p \in edited' \/ (tip' = journal'.commit /\ p \in DOMAIN journal'.diffs)
      <4>1. CASE p \notin DOMAIN diffs
        <5>1. disk'[p] = disk[p] /\ tree[p] = Tree(tip)[p]
          BY Zenon, <1>6, <1>16, <4>1
        <5> QED BY Zenon, <1>17, <2>1, <3>2, <4>1, <5>1
      <4>2. CASE p \in DOMAIN diffs
        <5>1. got \notin {"written", "indexed", "cleared"}
          BY Zenon, <1>6, <1>16, <3>2, <4>2
        <5>2. journal'.commit = k /\ journal'.diffs = diffs
          BY Zenon, <1>5, <5>1
        <5> QED BY Zenon, <3>1, <4>2, <5>2
      <4> QED BY Zenon, <4>1, <4>2
    <3> QED BY Zenon, <3>1, <3>2 DEF Files, Bytes
  <2> QED BY <2>2, <2>3
<1>19. Others'
  <2>1. cuts' \in 0..MaxCuts
    BY Zenon, <1>1, CutFacts DEF ApplyJournaled
  <2>2. branch' \in [Tasks -> Ids' \cup {0}]
    BY Zenon, <1>1, <1>9, BranchKept DEF Others
  <2>3. Len(commits') <= MaxCommits /\ tip' \in Ids'
    <3>1. Len(commits') = Len(commits) + 1
      BY Zenon, <1>3, <1>9
    <3>2. Len(commits') <= MaxCommits
      BY <1>1, <3>1, BoundAssumption
    <3> QED BY Zenon, <1>9, <3>2
  <2>4. staged' \subseteq Paths /\ edited' \subseteq Paths
    BY Zenon, <1>1, <1>17
  <2>5. journal'.diffs \in DiffSets
    BY Zenon, <1>5 DEF Others, Opened
  <2>6. squashes' \subseteq Ids'
    BY Zenon, <1>1, <1>9 DEF Same
  <2> QED BY Zenon, <1>16, <2>1, <2>2, <2>3, <2>4, <2>5, <2>6 DEF Others
<1>20. Extends
  <2>1. Line(tip) \subseteq Line(tip)'
    BY Zenon, <1>8, <1>9
  <2> QED BY Zenon, <1>9, <1>10, <2>1 DEF Extends
<1> QED BY Zenon, <1>9, <1>12, <1>13, <1>14, <1>15, <1>18, <1>19, <1>20

\* Recovery, as far as it came.
LEMMA RecoverStep ==
  ASSUME IInv, NEW got \in RecoverSteps, RecoverPendingApply(got) PROVE IInv' /\ Extends
<1> USE DEF IInv
<1>1. PICK k : k = journal.commit
  OBVIOUS
<1>2. PICK t : t = commits[k].by
  OBVIOUS
<1>3. PICK diffs : diffs = journal.diffs
  OBVIOUS
<1>4. /\ journal # NoJournal /\ k = Len(commits) /\ k \in applied /\ k \in Ids /\ k # 1 /\ k \in Nat
      /\ \A p \in DOMAIN diffs : Bytes(diffs[p].new) = Bytes(Tree(k)[p])
      /\ diffs \in DiffSets /\ DOMAIN diffs \subseteq Paths
  <2>1. journal # NoJournal
    BY Zenon DEF RecoverPendingApply, Opened
  <2>2. k = Len(commits) /\ k \in applied /\ k \in Ids /\ k # 1
    BY <1>1, <2>1 DEF Pending, Reverts
  <2>3. \A p \in DOMAIN diffs : Bytes(diffs[p].new) = Bytes(Tree(k)[p])
    BY Zenon, <1>1, <1>3, <2>1 DEF Pending
  <2>4. diffs \in DiffSets /\ DOMAIN diffs \subseteq Paths
    BY Zenon, <1>3, DiffFacts DEF Others
  <2> QED BY <2>1, <2>2, <2>3, <2>4 DEF Ids
<1>5. t \in Tasks
  BY Zenon, <1>2, <1>4 DEF Shape
<1>6. /\ disk' \in CASE tip # k -> {disk}
                     [] tip = k /\ got = "writing" -> PartlyWritten(diffs)
                     [] OTHER -> {Written(diffs)}
      /\ edited' = IF tip = k /\ got # "writing" THEN edited \ DOMAIN diffs ELSE edited
      /\ rows' = IF got \in {"indexed", "cleared"} /\ k \in Line(tip) /\ Missing(t, k)
                 THEN [rows EXCEPT ![t] = Append(@, k)] ELSE rows
      /\ journal' = IF got = "cleared" THEN NoJournal ELSE journal
      /\ UNCHANGED <<commits, tip, branch, staged, cuts, applied, squashes, current>>
  BY <1>1, <1>2, <1>3 DEF RecoverPendingApply
<1>7. /\ disk \in Trees /\ staged \subseteq Paths /\ tip \in Ids /\ edited \subseteq Paths
      /\ cuts \in 0..MaxCuts /\ squashes \subseteq Ids
  BY DEF Others
<1>8. /\ rows' = rows \/ (Entered(t, k) /\ k \in Line(tip) /\ k \notin Recorded(t))
      /\ got = "cleared" /\ k \in Line(tip) => k \in Recorded(t)'
  <2>1. CASE got \in {"indexed", "cleared"} /\ k \in Line(tip) /\ Missing(t, k)
    <3>1. Entered(t, k)
      BY Zenon, <1>4, <1>5, <1>6, <2>1, RowEntered
    <3>2. k \in Recorded(t)'
      BY Zenon, <1>4, <1>5, <3>1, RecordedGrows
    <3> QED BY <2>1, <3>1, <3>2 DEF Missing
  <2>2. CASE ~(got \in {"indexed", "cleared"} /\ k \in Line(tip) /\ Missing(t, k))
    <3>1. rows' = rows
      BY <1>6, <2>2
    <3>2. got = "cleared" /\ k \in Line(tip) => k \in Recorded(t)
      BY <2>2 DEF Missing
    <3> QED BY <3>1, <3>2 DEF Recorded
  <2> QED BY <2>1, <2>2
<1>9. /\ Grown /\ Line(tip)' = Line(tip) /\ Tree(tip)' = Tree(tip)
      /\ Tree(k)' = Tree(k) /\ k \in Ids' /\ Marks /\ Advances(k)
  BY Zenon, <1>4, <1>6, <1>7 DEF Grown, Line, Tree, Ids, Marks, Advances
<1>10. ASSUME k \notin Recorded(t) PROVE \A i \in DOMAIN rows[t] : rows[t][i] < k
  <2>1. \A i \in DOMAIN rows[t] : rows[t][i] \in 1..k
    BY Zenon, <1>4, <1>5, RowFacts DEF Ids
  <2>2. \A i \in DOMAIN rows[t] : rows[t][i] # k
    BY <1>10 DEF Recorded, Range
  <2> QED BY <1>4, <2>1, <2>2
<1>11. RowsGrown
  BY Zenon, <1>4, <1>5, <1>8, <1>9, <1>10 DEF RowsGrown
<1>12. Shape' /\ Carried' /\ Ledger'
  BY Zenon, <1>9, <1>11, ShapeGrown, CarriedGrown, LedgerGrown
<1>13. Net' /\ Current'
  <2>1. k \notin squashes'
    BY Zenon, <1>4, <1>6 DEF Reverts
  <2>2. Net'
    BY Zenon, <1>4, <1>5, <1>8, <1>9, <1>10, <2>1, NetGrown
  <2>3. k \in Line(tip) => tip' = k
    <3>1. Line(tip) \subseteq 1..tip /\ tip \in 1..k
      BY <1>4, <1>7 DEF Shape, Ids
    <3> QED BY <1>4, <1>6, <3>1
  <2>4. \A u \in Tasks : rows'[u] = rows[u] \/ (Entered(u, k) /\ tip' = k)
    BY Zenon, <1>8, <2>3 DEF Entered
  <2>5. Current'
    BY Zenon, <1>4, <1>6, <1>7, <1>9, <1>12, <2>4, CurrentGrown
  <2> QED BY Zenon, <2>2, <2>5
<1>14. Pending'
  <2>1. CASE got = "cleared"
    BY ZenonT(60), <1>6, <2>1 DEF Pending, NoJournal
  <2>2. CASE got # "cleared"
    <3>1. UNCHANGED <<journal, commits, applied>>
      BY <1>6, <2>2
    <3> QED BY <3>1 DEF Pending, NoJournal, Bytes, Tree
  <2> QED BY <2>1, <2>2
<1>15. Reverts'
  <2>1. \A j \in applied : /\ j \in Ids' /\ j # 1
                           /\ j \in Recorded(commits[j].by) => j \in Recorded(commits[j].by)'
    BY Zenon, <1>4, <1>5, <1>8, <1>9, RevertsKept DEF Reverts
  <2>2. \A j \in applied : j \in Line(tip) => j \in Recorded(commits[j].by) \/ j = k
    BY <1>1 DEF Reverts
  <2>3. Recorded(commits[k].by)' = Recorded(t)'
    BY <1>2, <1>6 DEF Recorded
  <2>4. k \in Line(tip) => k \in Recorded(commits[k].by)' \/ k = journal'.commit
    BY Zenon, <1>1, <1>6, <1>8, <2>3
  <2> QED BY Zenon, <1>6, <1>9, <2>1, <2>2, <2>4 DEF Reverts
<1>16. /\ disk' \in Trees
       /\ \A p \in Paths : disk'[p] = disk[p] \/ (tip = k /\ p \in DOMAIN diffs)
       /\ tip = k /\ got # "writing" => \A p \in DOMAIN diffs : disk'[p] = diffs[p].new
  <2>1. CASE tip # k
    <3>1. disk' \in {disk}
      BY Zenon, <1>6, <2>1
    <3> QED BY <1>7, <2>1, <3>1
  <2>2. CASE tip = k /\ got = "writing"
    <3>1. disk' \in PartlyWritten(diffs)
      BY Zenon, <1>6, <2>2
    <3> QED BY Zenon, <1>4, <1>7, <2>2, <3>1, WrittenFacts
  <2>3. CASE tip = k /\ got # "writing"
    <3>1. disk' = Written(diffs)
      BY Zenon, <1>6, <2>3
    <3> QED BY Zenon, <1>4, <1>7, <2>3, <3>1, WrittenFacts
  <2> QED BY <2>1, <2>2, <2>3
<1>17. Files'
  <2>1. ASSUME NEW p \in Paths, Bytes(disk'[p]) # Bytes(Tree(tip)[p])
        PROVE  p \in edited' \/ (tip' = journal'.commit /\ p \in DOMAIN journal'.diffs)
    <3>1. CASE tip = k /\ p \in DOMAIN diffs
      <4>1. got = "writing"
        BY Zenon, <1>4, <1>16, <2>1, <3>1
      <4> QED BY Zenon, <1>1, <1>3, <1>6, <3>1, <4>1
    <3>2. CASE ~(tip = k /\ p \in DOMAIN diffs)
      <4>1. disk'[p] = disk[p]
        BY <1>16, <3>2
      <4>2. p \in edited
        BY Zenon, <1>1, <1>3, <2>1, <3>2, <4>1 DEF Files
      <4> QED BY <1>6, <3>2, <4>2
    <3> QED BY <3>1, <3>2
  <2> QED BY <1>9, <2>1 DEF Files, Bytes
<1>18. Others'
  <2>1. cuts' \in 0..MaxCuts
    BY Zenon, <1>6, <1>7
  <2>2. journal'.diffs \in DiffSets
    <3>1. NoJournal.diffs \in DiffSets
      <4>1. <<>> \in [{} -> Diff]
        OBVIOUS
      <4>2. {} \in SUBSET Paths
        OBVIOUS
      <4> QED BY Zenon, <4>1, <4>2 DEF NoJournal, DiffSets
    <3> QED BY <1>3, <1>4, <1>6, <3>1
  <2> QED BY Zenon, <1>6, <1>7, <1>16, <2>1, <2>2 DEF Others, Ids
<1>19. Extends
  BY Zenon, <1>4, <1>5, <1>8, <1>9 DEF Extends
<1> QED BY Zenon, <1>12, <1>13, <1>14, <1>15, <1>17, <1>18, <1>19

\* The states a rollback folds are entries of trees, so that it applies a set of
\* file diffs.
LEMMA FoldFacts ==
  ASSUME Shape, Ledger, NEW t \in Tasks, NEW p \in Paths, Touches(t, p) # {}
  PROVE  /\ Min(Touches(t, p)) \in Touches(t, p) /\ Max(Touches(t, p)) \in Touches(t, p)
         /\ \A i \in Touches(t, p) : Min(Touches(t, p)) <= i /\ i <= Max(Touches(t, p))
         /\ \A i \in Touches(t, p) : /\ rows[t][i] \in Ids /\ rows[t][i] # 1
                                     /\ rows[t][i] \in Line(tip) /\ p \in DOMAIN Change(rows[t][i])
                                     /\ i \in DOMAIN rows[t] /\ i \in Nat
         /\ Before(t, p) = Tree(commits[rows[t][Min(Touches(t, p))]].parent)[p]
         /\ After(t, p) = Tree(rows[t][Max(Touches(t, p))])[p]
         /\ Before(t, p) \in Entries /\ After(t, p) \in Entries
<1>1. Touches(t, p) \subseteq 1..Len(rows[t]) /\ Len(rows[t]) \in Nat
  BY Positions
<1>2. /\ Min(Touches(t, p)) \in Touches(t, p) /\ Max(Touches(t, p)) \in Touches(t, p)
      /\ \A i \in Touches(t, p) : Min(Touches(t, p)) <= i /\ i <= Max(Touches(t, p))
  <2>1. Touches(t, p) \in SUBSET Nat
    BY <1>1
  <2> QED BY Zenon, <1>1, <2>1, MinFacts, MaxFacts
<1>3. \A i \in Touches(t, p) : /\ rows[t][i] \in Ids /\ rows[t][i] # 1
                               /\ rows[t][i] \in Line(tip) /\ p \in DOMAIN Change(rows[t][i])
                               /\ i \in DOMAIN rows[t] /\ i \in Nat
  BY <1>1, RowFacts DEF Touches
<1>4. Before(t, p) = Tree(commits[rows[t][Min(Touches(t, p))]].parent)[p]
  BY <1>2, <1>3, ChangeFacts DEF Before
<1>5. After(t, p) = Tree(rows[t][Max(Touches(t, p))])[p]
  BY ZenonT(60), <1>2, <1>3, ChangeFacts DEF After
<1>6. /\ commits[rows[t][Min(Touches(t, p))]].parent \in Ids
      /\ rows[t][Max(Touches(t, p))] \in Ids
  BY Zenon, <1>2, <1>3, ChangeFacts
<1>7. Before(t, p) \in Entries /\ After(t, p) \in Entries
  BY <1>4, <1>5, <1>6, CommitFacts
<1> QED BY Zenon, <1>2, <1>3, <1>4, <1>5, <1>7

\* ... and so is what it applies.
LEMMA InverseFacts ==
  ASSUME Shape, Ledger, NEW t \in Tasks PROVE InverseDiffs(t) \in DiffSets
<1> DEFINE S == {q \in Paths : Touches(t, q) # {} /\ Before(t, q) # After(t, q)}
<1>1. \A p \in S : [old |-> After(t, p), new |-> Before(t, p)] \in Diff
  BY FoldFacts DEF Diff
<1>2. InverseDiffs(t) \in [S -> Diff]
  BY <1>1 DEF InverseDiffs
<1>3. S \in SUBSET Paths
  OBVIOUS
<1> QED BY Zenon, <1>2, <1>3 DEF DiffSets

\* A commit on record can be picked.
LEMMA RecordedFacts ==
  ASSUME Ledger, NEW u \in Tasks, NEW k \in Recorded(u) PROVE k \in Ids /\ k # 1
BY RowFacts DEF Recorded, Range

\* The net change of a task is a tree.
LEMMA SquashFacts ==
  ASSUME Shape, Ledger, NEW t \in Tasks, rows[t] # <<>>
  PROVE  /\ squashBase(t) \in Ids /\ squashTree(t) \in Trees
         /\ \A p \in Paths : squashTree(t)[p] = NetChange(t, p)
<1>1. squashBase(t) \in Ids
  BY RowFacts, ChangeFacts DEF squashBase
<1>2. ASSUME NEW p \in Paths PROVE NetChange(t, p) \in Entries
  <2>1. CASE Nets(t, p) = {}
    <3>1. NetChange(t, p) = Tree(squashBase(t))[p]
      BY <2>1 DEF NetChange, Nets, squashBase
    <3> QED BY Zenon, <1>1, <3>1, CommitFacts
  <2>2. CASE Nets(t, p) # {}
    <3>1. NetChange(t, p) = Change(rows[t][Max(Nets(t, p))])[p].new
      BY <2>2 DEF NetChange, Nets
    <3>2. Max(Nets(t, p)) \in Nets(t, p)
      BY Zenon, <2>2, Positions, MaxFacts
    <3>3. PICK i : i = Max(Nets(t, p))
      OBVIOUS
    <3>4. rows[t][i] \in Ids /\ rows[t][i] # 1 /\ p \in DOMAIN Change(rows[t][i])
      BY Zenon, <3>2, <3>3, RowFacts DEF Nets
    <3>5. NetChange(t, p) = Tree(rows[t][i])[p]
      BY Zenon, <3>1, <3>3, <3>4, ChangeFacts
    <3> QED BY Zenon, <3>4, <3>5, CommitFacts
  <2> QED BY <2>1, <2>2
<1> QED BY Zenon, <1>1, <1>2 DEF squashTree, Trees

\* The task checked out, once its branch is at its squash k.
LEMMA SquashedIsCurrent ==
  ASSUME Shape, Grown, Shape', Ledger, Marks, Net, NEW t \in Tasks, rows[t] # <<>>,
         NEW k \in Ids', k \in Nat, rows'[t] = rows[t] \/ Entered(t, k),
         \A i \in DOMAIN rows[t] : rows[t][i] < k,
         NEW m \in Ids, m = squashBase(t), Line(tip)' = Line(m) \cup {k}, Tree(tip)' = Tree(k)',
         \A p \in Paths : Tree(k)'[p] = NetChange(t, p)
  PROVE  BasedAt(t)' /\ KeptAt(t)'
<1>1. /\ 1 \in DOMAIN rows[t] /\ rows[t][1] \in Ids
      /\ \A i \in DOMAIN rows[t] : rows'[t][i] = rows[t][i]
  BY Zenon, RowFacts DEF Entered
<1>2. squashBase(t)' = m
  BY Zenon, <1>1, BaseReads
<1>3. Line(m)' = Line(m)
  BY Zenon, OldCommits DEF Same
<1>4. Line(squashBase(t))' = Line(m)
  BY Zenon, <1>2, <1>3 DEF Line
<1>5. rows'[t][1] <= k
  <2>1. rows'[t][1] \in Ids /\ rows'[t][1] < k
    BY Zenon, <1>1
  <2> QED BY <2>1 DEF Ids
<1>6. BasedAt(t)'
  <2>1. \A j \in Line(tip)' \ Line(m) : j = k
    BY Zenon
  <2>2. \A j \in Line(tip)' \ Line(m) : j >= rows'[t][1]
    BY <1>5, <2>1
  <2> QED BY Zenon, <1>4, <2>2 DEF BasedAt
<1>7. ASSUME NEW p \in Paths PROVE NetChange(t, p)' = Tree(tip)'[p]
  <2>1. NetAt(t, p)
    BY Zenon DEF Net, NetAt
  <2>2. CASE rows'[t] = rows[t]
    BY Zenon, <2>1, <2>2, NetStill
  <2>3. CASE Entered(t, k)
    BY Zenon, <2>3, NetIs
  <2> QED BY Zenon, <2>2, <2>3
<1> QED BY Zenon, <1>6, <1>7 DEF KeptAt

\* A squash.
LEMMA SquashStep ==
  ASSUME IInv, NEW t \in Tasks, NEW got, SquashTask(t, got) PROVE IInv' /\ Extends
<1> USE DEF IInv
<1>1. /\ Opened /\ rows[t] # <<>> /\ Len(commits) < MaxCommits /\ Len(commits) \in Nat
      /\ disk \in Trees /\ staged \subseteq Paths /\ tip \in Ids /\ edited \subseteq Paths
      /\ cuts \in 0..MaxCuts /\ squashes \subseteq Ids
      /\ UNCHANGED <<disk, staged, journal, applied, current>>
  BY DEF SquashTask, Others, Shape
<1>2. PICK tree : tree = squashTree(t)
  OBVIOUS
<1>3. PICK k : k = Len(commits) + 1
  OBVIOUS
<1>4. PICK m : m = squashBase(t)
  OBVIOUS
<1>5. /\ commits' = Append(commits, Child(commits, m, tree, t))
      /\ branch' = [branch EXCEPT ![t] = k] /\ squashes' = squashes \cup {k}
      /\ tip' = IF current = t THEN k ELSE tip
      /\ edited' = IF current = t THEN edited \cup LeftOut(t) ELSE edited
      /\ rows' = IF got = "indexed" THEN [rows EXCEPT ![t] = Append(@, k)] ELSE rows
  BY Zenon, <1>2, <1>3, <1>4 DEF SquashTask, CreateSquashCommit
<1>6. m \in Ids /\ tree \in Trees /\ \A p \in Paths : tree[p] = NetChange(t, p)
  BY Zenon, <1>1, <1>2, <1>4, SquashFacts
<1>7. Added(m, tree, t)
  BY Zenon, <1>5, <1>6, ChildAdded
<1>8. /\ Grown /\ Shape' /\ tip' \in Ids' /\ (\A j \in Ids : Same(j)) /\ Line(tip) \subseteq Ids
      /\ k \in Ids' /\ k # 1 /\ k \notin Ids /\ k \in Nat /\ Len(commits') = k
      /\ Tree(k)' = tree
      /\ current # t => tip' = tip /\ Line(tip)' = Line(tip) /\ Tree(tip)' = Tree(tip)
      /\ current = t => tip' = k /\ Line(tip)' = Line(m) \cup {k} /\ Tree(tip)' = tree
      /\ \A u \in Tasks : \A i \in DOMAIN rows[u] : rows[u][i] < k
  <2>1. tip' = tip \/ tip' = k
    BY Zenon, <1>5
  <2>2. NewCommit(m, tree, t, k)
    BY Zenon, <1>1, <1>3, <1>6, <1>7, <2>1, AddedFacts
  <2> QED BY Zenon, <1>5, <2>2 DEF NewCommit
<1>9. rows' = rows \/ Entered(t, k)
  BY Zenon, <1>5, <1>8, RowEntered
<1>10. RowsGrown
  BY <1>8, <1>9 DEF RowsGrown
<1>11. Carried' /\ Ledger'
  BY Zenon, <1>8, <1>10, CarriedGrown, LedgerGrown
<1>12. Squashes(t, k) /\ Marks
  BY Zenon, <1>1, <1>5, <1>6, <1>8 DEF Squashes, Marks
<1>13. Net'
  BY Zenon, <1>8, <1>9, <1>12, NetGrown
<1>14. current = t => BasedAt(t) /\ KeptAt(t)
  BY Zenon, <1>1 DEF Current
<1>15. current = t => /\ Line(m) \subseteq Line(tip)
                      /\ \A j \in Line(tip) \ Line(m) : j >= rows[t][1]
                      /\ \A p \in Paths : p \in LeftOut(t) \/ tree[p] = Tree(tip)[p]
  BY Zenon, <1>4, <1>6, <1>14 DEF BasedAt, KeptAt
<1>16. Current'
  <2>1. CASE current = t
    <3>1. Tree(tip)' = Tree(k)' /\ Line(tip)' = Line(m) \cup {k}
      BY Zenon, <1>8, <2>1
    <3>2. \A p \in Paths : Tree(k)'[p] = NetChange(t, p)
      BY Zenon, <1>6, <1>8
    <3>3. rows'[t] = rows[t] \/ Entered(t, k)
      BY Zenon, <1>9
    <3>4. BasedAt(t)' /\ KeptAt(t)'
      BY ZenonT(60), <1>1, <1>4, <1>6, <1>8, <1>12, <3>1, <3>2, <3>3, SquashedIsCurrent
    <3> QED BY Zenon, <1>1, <2>1, <3>4 DEF Current
  <2>2. CASE current # t
    <3>1. tip' = tip /\ Advances(k)
      BY Zenon, <1>8, <2>2 DEF Advances
    <3>2. \A u \in Tasks : u = current => rows'[u] = rows[u]
      BY Zenon, <1>9, <2>2 DEF Entered
    <3> QED BY Zenon, <1>1, <1>8, <1>12, <3>1, <3>2, CurrentGrown
  <2> QED BY Zenon, <2>1, <2>2
<1>17. Pending'
  BY Zenon, <1>1 DEF Pending, Opened, NoJournal
<1>18. Reverts'
  <2>1. \A j \in applied : /\ j \in Ids' /\ j # 1
                           /\ j \in Recorded(commits[j].by) => j \in Recorded(commits[j].by)'
    BY Zenon, <1>8, <1>9, RevertsKept DEF Reverts
  <2>2. \A j \in applied : j \in Line(tip)' => j \in Line(tip)
    BY Zenon, <1>8, <1>15 DEF Reverts
  <2>3. \A j \in applied : j \notin squashes'
    BY Zenon, <1>5, <1>8 DEF Reverts
  <2> QED BY Zenon, <1>1, <2>1, <2>2, <2>3 DEF Reverts
<1>19. Files'
  <2>1. ASSUME NEW p \in Paths, Bytes(disk[p]) # Bytes(Tree(tip)'[p]) PROVE p \in edited'
    <3>1. \A q \in Paths : Bytes(disk[q]) # Bytes(Tree(tip)[q]) => q \in edited
      BY Zenon, <1>1, OpenedFacts DEF Files
    <3>2. CASE current # t
      BY Zenon, <1>5, <1>8, <2>1, <3>1, <3>2
    <3>3. CASE current = t
      BY Zenon, <1>5, <1>8, <1>15, <2>1, <3>1, <3>3
    <3> QED BY Zenon, <3>2, <3>3
  <2> QED BY Zenon, <1>1, <2>1 DEF Files, Bytes
<1>20. Others'
  <2>1. cuts' \in 0..MaxCuts
    BY Zenon, <1>1, CutFacts DEF SquashTask
  <2>2. branch \in [Tasks -> Ids' \cup {0}]
    BY Zenon, <1>8, BranchKept DEF Others
  <2>3. branch' \in [Tasks -> Ids' \cup {0}]
    BY Zenon, <1>5, <1>8, <2>2
  <2>4. Len(commits') <= MaxCommits
    <3>1. Len(commits') = Len(commits) + 1
      BY Zenon, <1>3, <1>8
    <3> QED BY <1>1, <3>1, BoundAssumption
  <2>5. squashes' \subseteq Ids' /\ edited' \subseteq Paths
    BY Zenon, <1>1, <1>5, <1>8 DEF Same, LeftOut
  <2> QED BY Zenon, <1>1, <1>8, <2>1, <2>3, <2>4, <2>5 DEF Others
<1>21. Extends
  <2>1. CASE current # t
    BY Zenon, <1>8, <1>9, <2>1 DEF Extends
  <2>2. CASE current = t
    <3>1. branch'[t] = k /\ branch[t] \in Ids \cup {0}
      BY Zenon, <1>5 DEF Others
    <3>2. k # 0
      BY <1>1, <1>3
    <3> QED BY Zenon, <1>8, <1>9, <1>15, <2>2, <3>1, <3>2 DEF Extends
  <2> QED BY Zenon, <2>1, <2>2
<1> QED BY ZenonT(60), <1>8, <1>11, <1>13, <1>16, <1>17, <1>18, <1>19, <1>20, <1>21

-----------------------------------------------------------------------------
(* The invariant holds *)

\* The first commit of a working copy satisfies the invariant.
LEMMA InitIInv == Init => IInv
<1> SUFFICES ASSUME Init PROVE IInv
  OBVIOUS
<1>1. PICK tree \in Trees : /\ commits = <<ForkBase(tree)>> /\ tip = 1 /\ disk = tree
                            /\ rows = [u \in Tasks |-> <<>>] /\ branch = [u \in Tasks |-> 0]
                            /\ staged = {} /\ journal = NoJournal /\ cuts = 0
                            /\ applied = {} /\ squashes = {} /\ edited = {}
  BY DEF Init
<1>2. /\ Len(commits) = 1 /\ commits[1] = ForkBase(tree) /\ Ids = {1} /\ ForkBase(tree) \in Commit
      /\ commits \in Seq(Commit)
  <2>1. ForkBase(tree) \in Commit
    BY DEF ForkBase, Commit
  <2> QED BY <1>1, <2>1 DEF Ids
<1>3. Line(1) = {1} /\ commits[1].parent = 0 /\ Tree(1) = tree
  BY <1>2 DEF Line, Tree, ForkBase
<1>4. Shape
  BY <1>2, <1>3 DEF Shape
<1>5. Carried
  BY <1>2, <1>3 DEF Carried, Changers
<1>6. Ledger /\ Net /\ Current
  BY <1>1 DEF Ledger, Net, Current
<1>7. Pending /\ Reverts /\ Files
  BY Zenon, <1>1, <1>3 DEF Pending, Reverts, Files
<1>8. Others
  <2>1. NoJournal.diffs \in DiffSets
    <3>1. <<>> \in [{} -> Diff] /\ {} \in SUBSET Paths
      OBVIOUS
    <3> QED BY Zenon, <3>1 DEF NoJournal, DiffSets
  <2> QED BY <1>1, <1>2, <2>1, BoundAssumption DEF Others
<1> QED BY Zenon, <1>4, <1>5, <1>6, <1>7, <1>8 DEF IInv

\* Rollbacks and cherry-picks apply file diffs.
LEMMA RewriteStep ==
  ASSUME IInv, NEW t \in Tasks, RollbackTask(t) \/ \E k \in Ids : CherryPick(t, k)
  PROVE  IInv' /\ Extends
<1>1. CASE RollbackTask(t)
  <2>1. PICK got \in ApplySteps : ApplyJournaled(t, InverseDiffs(t), got)
    BY <1>1 DEF RollbackTask
  <2>2. PICK diffs : diffs = InverseDiffs(t)
    BY Zenon
  <2>3. diffs \in DiffSets /\ Opened /\ ApplyJournaled(t, diffs, got)
    BY Zenon, <1>1, <2>1, <2>2, InverseFacts DEF IInv, RollbackTask
  <2> QED BY Zenon, <2>3, ApplyStep
<1>2. ASSUME NEW k \in Ids, CherryPick(t, k) PROVE IInv' /\ Extends
  <2>1. PICK got \in ApplySteps : ApplyJournaled(t, Change(k), got)
    BY <1>2 DEF CherryPick
  <2>2. PICK diffs : diffs = Change(k)
    OBVIOUS
  <2>3. k # 1
    BY Zenon, <1>2, RecordedFacts DEF CherryPick, IInv
  <2>4. diffs \in DiffSets /\ Opened /\ ApplyJournaled(t, diffs, got)
    BY Zenon, <1>2, <2>1, <2>2, <2>3, ChangeFacts DEF IInv, CherryPick
  <2> QED BY <2>4, ApplyStep
<1> QED BY <1>1, <1>2

\* Every step keeps the invariant and extends the history at most.
LEMMA NextIInv == IInv /\ [Next]_vars => IInv' /\ Extends
<1> SUFFICES ASSUME IInv, [Next]_vars PROVE IInv' /\ Extends
  OBVIOUS
<1>1. CASE Edit
  BY <1>1, EditStep
<1>2. CASE addCmd
  BY <1>2, StageStep DEF addCmd
<1>3. CASE restoreCmd
  BY <1>3, RestoreStep
<1>4. CASE \E got \in RecoverSteps : RecoverPendingApply(got)
  BY <1>4, RecoverStep
<1>5. CASE \E t \in Tasks : commitCmd(t)
  BY <1>5, CommitStep DEF commitCmd
<1>6. CASE \E t \in Tasks : squashCmd(t)
  BY <1>6, SquashStep DEF squashCmd
<1>7. CASE \E t \in Tasks : rollbackCmd(t) \/ cherryPickCmd(t)
  BY <1>7, RewriteStep DEF rollbackCmd, cherryPickCmd
<1>8. CASE UNCHANGED vars
  <2>1. /\ disk \in Trees /\ staged \subseteq Paths /\ edited \subseteq Paths /\ cuts \in 0..MaxCuts
        /\ UNCHANGED <<commits, rows, current, tip, branch, journal, applied, squashes>>
        /\ UNCHANGED <<disk, staged, cuts, edited>>
    BY <1>8 DEF IInv, Others, vars
  <2> QED BY <2>1, FilesStep
<1> QED BY ZenonT(60), <1>1, <1>2, <1>3, <1>4, <1>5, <1>6, <1>7, <1>8 DEF Next

\* IInv is an invariant.
LEMMA Invariance == Spec => []IInv
<1>1. IInv /\ [Next]_vars => IInv'
  BY Zenon, NextIInv
<1> QED BY InitIInv, <1>1, PTL DEF Spec

\* The invariant says what the types are ...
LEMMA TypesHold == IInv => TypeOK
<1> SUFFICES ASSUME IInv PROVE TypeOK
  BY Zenon
<1> USE DEF IInv
<1>1. Len(commits) \in 1..MaxCommits
  BY SMT, Z3, BoundAssumption DEF Shape, Others
<1>2. ASSUME NEW k \in Ids
      PROVE  /\ Tree(k) \in Trees /\ commits[k].by \in Tasks \cup {"base"}
             /\ commits[k].parent \in 0..k - 1 /\ k \in Line(k)
  <2>1. commits[k] \in Commit /\ Tree(k) \in Trees /\ k \in Nat /\ k >= 1
    BY CommitFacts
  <2>2. commits[k].by \in Tasks \cup {"base"}
    BY <2>1 DEF Commit
  <2>3. commits[k].parent \in 0..k - 1 /\ k \in Line(k)
    BY <2>1 DEF Shape
  <2> QED BY <2>1, <2>2, <2>3
<1>3. ASSUME NEW t \in Tasks PROVE rows[t] \in Seq(Ids) /\ IsInjective(rows[t])
  <2>1. /\ rows[t] \in Seq(Nat) /\ Len(rows[t]) \in Nat /\ DOMAIN rows[t] = 1..Len(rows[t])
        /\ \A i \in DOMAIN rows[t] : rows[t][i] \in Ids
    BY RowFacts
  <2>2. rows[t] \in [1..Len(rows[t]) -> Ids]
    BY <2>1
  <2>3. rows[t] \in Seq(Ids)
    BY <2>1, <2>2
  <2>4. ASSUME NEW i \in DOMAIN rows[t], NEW j \in DOMAIN rows[t], rows[t][i] = rows[t][j]
        PROVE  i = j
    <3>1. i \in Nat /\ j \in Nat /\ rows[t][i] \in Nat
      BY <2>1
    <3>2. ~(i < j) /\ ~(j < i)
      BY <2>4, <3>1 DEF Ledger
    <3> QED BY <3>1, <3>2
  <2> QED BY Zenon, <2>3, <2>4 DEF IsInjective
<1>4. rows \in [Tasks -> Seq(Ids)]
  BY Zenon, <1>3 DEF Ledger
<1>5. journal.commit \in Ids \cup {0} /\ applied \subseteq Ids
  BY DEF Pending, NoJournal, Reverts
<1> QED BY Zenon, <1>1, <1>2, <1>3, <1>4, <1>5 DEF TypeOK, Others

\* ... and that recovery is complete.
LEMMA RecoveryHolds == IInv => RecoveryIsComplete
<1> SUFFICES ASSUME IInv PROVE RecoveryIsComplete
  OBVIOUS
<1>1. TypeOK
  BY TypesHold
<1>2. ASSUME Opened, NEW k \in applied \cap Line(tip)
      PROVE  k \notin VerifyIndexIntegrity /\ k \in Recorded(commits[k].by)
  <2>1. k \in Ids /\ k # 1 /\ k # journal.commit
    BY <1>2, OpenedFacts DEF IInv, Reverts, Others, Ids
  <2>2. commits[k].by \in Tasks /\ k \in Recorded(commits[k].by)
    BY <1>2, <2>1 DEF IInv, Shape, Reverts
  <2> QED BY <2>2 DEF VerifyIndexIntegrity
<1>3. RevertRecorded
  BY Zenon, <1>2 DEF RevertRecorded
<1>4. TipOnDisk
  BY OpenedFacts DEF TipOnDisk, IInv, Files, Others
<1> QED BY <1>1, <1>3, <1>4 DEF RecoveryIsComplete

\* Whatever rollback, cherry-pick or recovery is cut short, and wherever, once the
\* next command has opened the repository every revert is on record under its
\* task and every file holds what the tip holds or what somebody put there.
THEOREM RecoveryAlwaysComplete == Spec => []RecoveryIsComplete
BY Invariance, RecoveryHolds, PTL

-----------------------------------------------------------------------------
(* Rewrites are exact *)

\* A ledger that gains a row at most is a prefix of what it becomes.
LEMMA RowsAreKept ==
  ASSUME Ledger, rows' = rows \/ \E t \in Tasks, k \in Nat : Entered(t, k), NEW u \in Tasks
  PROVE  Len(rows[u]) <= Len(rows'[u]) /\ SubSeq(rows'[u], 1, Len(rows[u])) = rows[u]
<1>1. /\ rows[u] \in Seq(Nat) /\ Len(rows[u]) \in Nat /\ DOMAIN rows[u] = 1..Len(rows[u])
  BY Zenon, RowFacts
<1>2. /\ rows'[u] \in Seq(Nat) /\ Len(rows[u]) <= Len(rows'[u])
      /\ \A i \in 1..Len(rows[u]) : rows'[u][i] = rows[u][i]
  <2>1. CASE rows' = rows
    BY <1>1, <2>1
  <2>2. ASSUME NEW t \in Tasks, NEW k \in Nat, Entered(t, k)
        PROVE  /\ rows'[u] \in Seq(Nat) /\ Len(rows[u]) <= Len(rows'[u])
               /\ \A i \in 1..Len(rows[u]) : rows'[u][i] = rows[u][i]
    <3>1. CASE u = t
      BY <1>1, <2>2, <3>1 DEF Entered
    <3>2. CASE u # t
      BY SMT, Z3, <1>1, <2>2, <3>2 DEF Entered
    <3> QED BY Zenon, <3>1, <3>2
  <2> QED BY Zenon, <2>1, <2>2
<1>3. PICK s \in Seq(Nat) : s = rows[u]
  BY <1>1
<1>4. PICK r \in Seq(Nat) : r = rows'[u]
  BY <1>2
<1>5. /\ Len(s) \in Nat /\ Len(r) \in Nat /\ Len(s) <= Len(r) /\ \A i \in 1..Len(s) : r[i] = s[i]
  BY <1>2, <1>3, <1>4
<1>6. SubSeq(r, 1, Len(s)) = s
  BY <1>5
<1> QED BY Zenon, <1>3, <1>4, <1>5, <1>6

\* Every step only adds to history.
LEMMA HistoryGrows ==
  ASSUME IInv, Extends PROVE HistoryOnlyGrows
<1>1. \A u \in Tasks : Len(rows[u]) <= Len(rows'[u]) /\ SubSeq(rows'[u], 1, Len(rows[u])) = rows[u]
  BY Zenon, RowsAreKept DEF IInv, Extends
<1> QED BY Zenon, <1>1 DEF HistoryOnlyGrows, Extends

\* The commits of the line that did not come from t and changed p.
Elsewhere(t, p) == {k \in Line(tip) : k = 1 \/ (k \notin Recorded(t) /\ p \in DOMAIN Change(k))}

\* Without is what the last of a line's commits that changed p left there, when
\* those are the ones that did not come from t.
LEMMA WithoutIs ==
  ASSUME IInv, NEW t \in Tasks, NEW p \in Paths, NEW k \in Ids, Elsewhere(t, p) = Changers(k, p)
  PROVE  Without(t, p) = Tree(k)[p]
<1>1. /\ Changers(k, p) \subseteq 1..k /\ Changers(k, p) # {} /\ k \in Nat
      /\ Changers(k, p) \subseteq Ids
  BY ChangersFacts DEF IInv, Ids
<1>2. PICK m : m = Max(Changers(k, p))
  OBVIOUS
<1>3. m \in Changers(k, p) /\ \A j \in Changers(k, p) : j <= m
  BY Zenon, <1>1, <1>2, MaxFacts
<1>4. Tree(k)[p] = Tree(m)[p]
  BY Zenon, <1>3 DEF IInv, Carried
<1>5. Without(t, p) = Tree(Max(Elsewhere(t, p)))[p]
  BY DEF Without, Elsewhere
<1> QED BY Zenon, <1>2, <1>4, <1>5

\* A commit of the line on record for t that changes p is one of its touches.
LEMMA RecordedTouches ==
  ASSUME Ledger, NEW t \in Tasks, NEW p \in Paths, NEW k \in Line(tip),
         k \in Recorded(t), p \in DOMAIN Change(k)
  PROVE  \E i \in Touches(t, p) : rows[t][i] = k
BY DEF Recorded, Range, Touches

\* What t never touched is as the others left it.
LEMMA UntouchedIs ==
  ASSUME IInv, NEW t \in Tasks, NEW p \in Paths, Touches(t, p) = {}
  PROVE  Without(t, p) = Tree(tip)[p]
<1>1. tip \in Ids
  BY Zenon DEF IInv, Others
<1>2. Elsewhere(t, p) = Changers(tip, p)
  BY Zenon, RecordedTouches DEF IInv, Elsewhere, Changers
<1> QED BY <1>1, <1>2, WithoutIs

\* What t touched, and nobody after it, is as t left it; what the others left is
\* what t started from.
LEMMA TouchedIs ==
  ASSUME IInv, NEW t \in Tasks, NEW p \in Paths, Touches(t, p) # {}, ~Interleaved(t, p)
  PROVE  Without(t, p) = Before(t, p) /\ Tree(tip)[p] = After(t, p)
<1> USE DEF IInv
<1>1. PICK a : a = Min(Touches(t, p))
  OBVIOUS
<1>2. PICK b : b = Max(Touches(t, p))
  OBVIOUS
<1>3. PICK f : f = rows[t][a]
  OBVIOUS
<1>4. PICK g : g = rows[t][b]
  OBVIOUS
<1>5. PICK q : q = commits[f].parent
  OBVIOUS
<1>6. /\ a \in Touches(t, p) /\ b \in Touches(t, p)
      /\ \A i \in Touches(t, p) : a <= i /\ i <= b
      /\ \A i \in Touches(t, p) : /\ rows[t][i] \in Ids /\ rows[t][i] # 1
                                  /\ rows[t][i] \in Line(tip) /\ p \in DOMAIN Change(rows[t][i])
                                  /\ i \in DOMAIN rows[t] /\ i \in Nat
      /\ Before(t, p) = Tree(q)[p] /\ After(t, p) = Tree(g)[p]
  BY Zenon, <1>1, <1>2, <1>3, <1>4, <1>5, FoldFacts
<1>7. /\ f \in Ids /\ f # 1 /\ f \in Line(tip) /\ g \in Ids /\ g # 1 /\ g \in Line(tip)
      /\ p \in DOMAIN Change(g) /\ f \in Nat /\ g \in Nat /\ f > 1 /\ g > 1
      /\ f \in Recorded(t)
  <2>1. /\ f \in Ids /\ f # 1 /\ f \in Line(tip) /\ g \in Ids /\ g # 1 /\ g \in Line(tip)
        /\ p \in DOMAIN Change(g) /\ a \in DOMAIN rows[t]
    BY Zenon, <1>3, <1>4, <1>6
  <2>2. f \in Nat /\ g \in Nat /\ f > 1 /\ g > 1
    BY <2>1 DEF Ids
  <2>3. f \in Recorded(t)
    BY Zenon, <1>3, <2>1 DEF Recorded, Range
  <2> QED BY Zenon, <2>1, <2>2, <2>3
<1>8. \A i \in Touches(t, p) : f <= rows[t][i] /\ rows[t][i] <= g
  <2> SUFFICES ASSUME NEW i \in Touches(t, p) PROVE f <= rows[t][i] /\ rows[t][i] <= g
    BY Zenon
  <2>1. /\ i \in DOMAIN rows[t] /\ a \in DOMAIN rows[t] /\ b \in DOMAIN rows[t]
        /\ i \in Nat /\ a \in Nat /\ b \in Nat /\ a <= i /\ i <= b /\ rows[t][i] \in Nat
    <3>1. /\ i \in DOMAIN rows[t] /\ a \in DOMAIN rows[t] /\ b \in DOMAIN rows[t]
          /\ i \in Nat /\ a \in Nat /\ b \in Nat /\ a <= i /\ i <= b /\ rows[t][i] \in Ids
      BY Zenon, <1>6
    <3> QED BY <3>1 DEF Ids
  <2>2. (a < i => f < rows[t][i]) /\ (i < b => rows[t][i] < g)
    BY Zenon, <1>3, <1>4, <2>1 DEF Ledger
  <2>3. (a = i => f = rows[t][i]) /\ (i = b => rows[t][i] = g)
    BY Zenon, <1>3, <1>4
  <2> QED BY <1>7, <2>1, <2>2, <2>3
<1>9. f <= g
  BY Zenon, <1>6, <1>4, <1>8
<1>10. tip \in Ids /\ Line(tip) \subseteq Ids /\ \A k \in Line(tip) : k \in Nat /\ k >= 1
  <2>1. tip \in Ids /\ tip \in Nat /\ tip <= Len(commits) /\ Len(commits) \in Nat
    BY DEF Others, Shape, Ids
  <2>2. Line(tip) \subseteq 1..tip
    BY <2>1 DEF Shape
  <2>3. ASSUME NEW k \in Line(tip) PROVE k \in Ids /\ k \in Nat /\ k >= 1
    BY <2>1, <2>2 DEF Ids
  <2> QED BY Zenon, <2>1, <2>3
<1>11. \A k \in Elsewhere(t, p) : k <= f
  <2>1. \A k \in Line(tip) : k # 1 /\ k \notin Recorded(t) /\ p \in DOMAIN Change(k) => ~(k > f)
    BY Zenon, <1>1, <1>3 DEF Interleaved
  <2> QED BY <1>7, <1>10, <2>1 DEF Elsewhere
<1>12. Tree(tip)[p] = After(t, p)
  <2>1. g \in Changers(tip, p)
    BY <1>7 DEF Changers
  <2>2. ASSUME NEW j \in Changers(tip, p) PROVE j <= g
    <3>1. j \in Line(tip) /\ (j = 1 \/ p \in DOMAIN Change(j)) /\ j \in Nat
      BY <1>10 DEF Changers
    <3>2. CASE j \in Elsewhere(t, p)
      BY SMT, Z3, <1>7, <1>9, <1>11, <3>1, <3>2
    <3>3. CASE j \notin Elsewhere(t, p)
      <4>1. j \in Recorded(t) /\ p \in DOMAIN Change(j)
        BY Zenon, <3>1, <3>3 DEF Elsewhere
      <4>2. PICK i \in Touches(t, p) : rows[t][i] = j
        BY Zenon, <3>1, <4>1, RecordedTouches
      <4> QED BY <1>8, <4>2
    <3> QED BY Zenon, <3>2, <3>3
  <2>3. Tree(tip)[p] = Tree(g)[p]
    BY Zenon, <1>10, <2>1, <2>2 DEF Carried
  <2> QED BY Zenon, <1>6, <2>3
<1>13. /\ q \in Ids /\ q < f /\ q \in Nat
       /\ Line(q) = {i \in Line(tip) : i < f}
  <2>1. q \in Ids /\ q < f /\ q \in Nat
    BY SMT, Z3, <1>5, <1>7, ChangeFacts DEF Ids
  <2>2. Line(f) = {i \in Line(tip) : i <= f}
    BY <1>7, <1>10 DEF Shape
  <2>3. Line(f) = Line(q) \cup {f} /\ Line(q) \subseteq 1..q
    BY Zenon, <1>5, <1>7, <2>1 DEF Shape
  <2>4. f \notin Line(q)
    BY <1>7, <2>1, <2>3
  <2>5. ASSUME NEW i PROVE i \in Line(q) <=> i \in Line(tip) /\ i < f
    <3>1. ASSUME i \in Line(q) PROVE i \in Line(tip) /\ i < f
      <4>1. i \in Line(f) /\ i # f
        BY Zenon, <2>3, <2>4, <3>1
      <4>2. i \in Line(tip) /\ i <= f
        BY Zenon, <2>2, <4>1
      <4> QED BY <1>7, <1>10, <4>1, <4>2
    <3>2. ASSUME i \in Line(tip), i < f PROVE i \in Line(q)
      <4>1. i \in Nat /\ i <= f /\ i # f
        BY <1>7, <1>10, <3>2
      <4> QED BY Zenon, <2>2, <2>3, <3>2, <4>1
    <3> QED BY Zenon, <3>1, <3>2
  <2> QED BY ZenonT(60), <2>1, <2>5
<1>14. Elsewhere(t, p) = Changers(q, p)
  <2>1. ASSUME NEW k \in Elsewhere(t, p) PROVE k \in Changers(q, p)
    <3>1. k \in Line(tip) /\ (k = 1 \/ (k \notin Recorded(t) /\ p \in DOMAIN Change(k))) /\ k \in Nat
      BY Zenon, <1>10 DEF Elsewhere
    <3>2. k # f /\ k <= f
      BY Zenon, <1>7, <1>11, <3>1
    <3>3. k \in Line(q)
      BY <1>7, <1>13, <3>1, <3>2
    <3> QED BY Zenon, <3>1, <3>3 DEF Changers
  <2>2. ASSUME NEW k \in Changers(q, p) PROVE k \in Elsewhere(t, p)
    <3>1. k \in Line(tip) /\ k < f /\ k \in Nat /\ (k = 1 \/ p \in DOMAIN Change(k))
      BY Zenon, <1>10, <1>13 DEF Changers
    <3>2. ASSUME k # 1, k \in Recorded(t) PROVE FALSE
      <4>1. PICK i \in Touches(t, p) : rows[t][i] = k
        BY Zenon, <3>1, <3>2, RecordedTouches
      <4> QED BY <1>7, <1>8, <3>1, <4>1
    <3> QED BY Zenon, <3>1, <3>2 DEF Elsewhere
  <2> QED BY Zenon, <2>1, <2>2
<1>15. Without(t, p) = Tree(q)[p]
  BY Zenon, <1>13, <1>14, WithoutIs
<1> QED BY Zenon, <1>6, <1>12, <1>15

\* The tree of a rollback has, at a path nobody else changed after the task, what
\* is there without the task.
LEMMA InverseIs ==
  ASSUME IInv, NEW t \in Tasks, NEW p \in Paths, ~Interleaved(t, p)
  PROVE  DiffTree(InverseDiffs(t))[p] = Without(t, p)
<1>1. /\ p \in DOMAIN InverseDiffs(t) <=> (Touches(t, p) # {} /\ Before(t, p) # After(t, p))
      /\ p \in DOMAIN InverseDiffs(t) => InverseDiffs(t)[p] = [old |-> After(t, p), new |-> Before(t, p)]
  BY Zenon DEF InverseDiffs
<1>2. DiffTree(InverseDiffs(t))[p] =
        IF p \in DOMAIN InverseDiffs(t) THEN Apply(InverseDiffs(t)[p], Tree(tip)[p]) ELSE Tree(tip)[p]
  BY Zenon DEF DiffTree
<1>3. CASE Touches(t, p) = {}
  BY Zenon, <1>1, <1>2, <1>3, UntouchedIs
<1>4. CASE Touches(t, p) # {}
  <2>1. Without(t, p) = Before(t, p) /\ Tree(tip)[p] = After(t, p)
    BY Zenon, <1>4, TouchedIs
  <2>2. CASE Before(t, p) = After(t, p)
    BY Zenon, <1>1, <1>2, <2>1, <2>2
  <2>3. CASE Before(t, p) # After(t, p)
    <3>1. Apply([old |-> After(t, p), new |-> Before(t, p)], After(t, p)) = Before(t, p)
      BY DEF Apply
    <3> QED BY ZenonT(60), <1>1, <1>2, <1>4, <2>1, <2>3, <3>1
  <2> QED BY <2>2, <2>3
<1> QED BY Zenon, <1>3, <1>4

\* A rollback takes back its task.
LEMMA RollbackReplays ==
  ASSUME IInv PROVE RollbackIsReplay
<1> SUFFICES ASSUME NEW t \in Tasks, RollbackTask(t), NEW p \in Paths, ~Interleaved(t, p)
             PROVE  commits'[Len(commits')].tree[p] = Without(t, p)
  BY DEF RollbackIsReplay, RolledBack
<1>1. PICK tree : tree = DiffTree(InverseDiffs(t))
  BY Zenon
<1>2. PICK got \in ApplySteps : ApplyJournaled(t, InverseDiffs(t), got)
  BY DEF RollbackTask
<1>3. /\ commits' = Append(commits, Child(commits, tip, tree, t))
      /\ \A q \in DOMAIN InverseDiffs(t) : Applies(InverseDiffs(t)[q], Tree(tip)[q])
  BY <1>1, <1>2 DEF ApplyJournaled, DiffTree
<1>4. tip \in Ids /\ Tree(tip) \in Trees /\ InverseDiffs(t) \in DiffSets
  BY Zenon, CommitFacts, InverseFacts DEF IInv, Others
<1>5. tree \in Trees
  BY Zenon, <1>1, <1>3, <1>4, DiffTreeFacts
<1>6. Added(tip, tree, t)
  BY Zenon, <1>3, <1>4, <1>5, ChildAdded DEF IInv
<1>7. commits'[Len(commits')].tree = tree
  BY Zenon, <1>6 DEF Added
<1> QED BY Zenon, <1>1, <1>7, InverseIs

\* A squash is the net change of its task.
LEMMA SquashNets ==
  ASSUME IInv, [Next]_vars PROVE SquashIsNet
<1> SUFFICES ASSUME NEW t \in Tasks, branch'[t] # branch[t], NEW p \in Paths
             PROVE  commits'[branch'[t]].tree[p] = IF Owned(t, p) = {} THEN Tree(squashBase(t))[p]
                                                                       ELSE OwnLast(t, p)
  BY Zenon DEF SquashIsNet, OwnLast
<1>1. PICK u \in Tasks, got \in {"created", "indexed"} : SquashTask(u, got)
  <2>1. ~(Edit \/ addCmd \/ restoreCmd)
    BY Zenon DEF Edit, addCmd, Add, restoreCmd, Unstage, RestoreAll, RestoreFile
  <2>2. ~\E got \in RecoverSteps : RecoverPendingApply(got)
    BY DEF RecoverPendingApply
  <2>3. ~\E u \in Tasks : commitCmd(u)
    BY Zenon DEF commitCmd, CreateCommit
  <2>4. ~\E u \in Tasks : rollbackCmd(u) \/ cherryPickCmd(u)
    BY ZenonT(60) DEF rollbackCmd, RollbackTask, cherryPickCmd, CherryPick, ApplyJournaled
  <2>5. ~UNCHANGED vars
    BY DEF vars
  <2> QED BY Zenon, <2>1, <2>2, <2>3, <2>4, <2>5 DEF Next, squashCmd
<1>2. /\ commits' = Append(commits, Child(commits, squashBase(u), squashTree(u), u))
      /\ branch' = [branch EXCEPT ![u] = Len(commits) + 1] /\ rows[u] # <<>>
      /\ branch \in [Tasks -> Ids \cup {0}]
  BY Zenon, <1>1 DEF SquashTask, CreateSquashCommit, IInv, Others
<1>3. u = t /\ branch'[t] = Len(commits) + 1
  BY Zenon, <1>2
<1>4. /\ squashBase(t) \in Ids /\ squashTree(t) \in Trees
      /\ squashTree(t)[p] = NetChange(t, p)
  BY Zenon, <1>2, <1>3, SquashFacts DEF IInv
<1>5. Added(squashBase(t), squashTree(t), t)
  BY ZenonT(60), <1>2, <1>3, <1>4, ChildAdded DEF IInv
<1>6. commits'[branch'[t]].tree[p] = NetChange(t, p)
  BY <1>3, <1>4, <1>5 DEF Added
<1> QED BY Zenon, <1>2, <1>3, <1>6 DEF IInv, Net

\* Whatever the interleaving of tasks, restores, squashes and commands cut short,
\* and whichever branch is checked out: no command moves a ledger row, only the
\* squash of the task checked out takes commits off the current lineage, none
\* older than the task's first, a rollback leaves every path nobody else changed
\* since as if its task had never committed, and a squash, also a repeated one,
\* has exactly the net change of its task.
THEOREM RewritesAreAlwaysExact == Spec => RewritesAreExact
<1>1. IInv /\ [Next]_vars => HistoryOnlyGrows /\ RollbackIsReplay /\ SquashIsNet
  BY NextIInv, HistoryGrows, RollbackReplays, SquashNets
<1> QED BY <1>1, Invariance, PTL DEF Spec, RewritesAreExact
=============================================================================
