--------------------------- MODULE HistoryInvariant --------------------------
(***************************************************************************)
(* The inductive invariant of TaskHistory, what commits, ledger rows and   *)
(* net changes keep when history grows, and the proofs that edits,         *)
(* restores and plain commits keep the invariant, for any tasks, paths,    *)
(* contents and number of commits and of commands cut short.               *)
(***************************************************************************)
EXTENDS TaskHistory, WellFoundedInduction, TLAPS

-----------------------------------------------------------------------------
(* The inductive invariant *)

\* A commit, as Child and ForkBase build it.
Commit == [parent : Nat, line : SUBSET Nat, tree : Trees, by : Tasks \cup {"base"}]

\* Every commit but the first has an earlier parent, whose line it extends; the
\* line of a commit is a chain.
Shape ==
  /\ commits \in Seq(Commit) /\ Len(commits) >= 1
  /\ \A k \in Ids : /\ Line(k) \subseteq 1..k /\ k \in Line(k) /\ 1 \in Line(k)
                    /\ \A j \in Line(k) : Line(j) = {i \in Line(k) : i <= j}
  /\ \A k \in Ids \ {1} : /\ commits[k].parent \in 1..k - 1 /\ commits[k].by \in Tasks
                          /\ Line(k) = Line(commits[k].parent) \cup {k}
  /\ Line(1) = {1} /\ commits[1].parent = 0

\* The commits on the line of k that changed p, with the first commit.
Changers(k, p) == {j \in Line(k) : j = 1 \/ p \in DOMAIN Change(j)}

\* A tree has at every path what the last commit of its line that changed the
\* path left there.
Carried ==
  \A k \in Ids, p \in Paths : \A m \in Changers(k, p) :
    (\A j \in Changers(k, p) : j <= m) => Tree(k)[p] = Tree(m)[p]

\* Ledger rows come in the order of their commits, and never name the first one.
Ledger ==
  /\ rows \in [Tasks -> Seq(Nat)]
  /\ \A t \in Tasks : \A i \in DOMAIN rows[t] : rows[t][i] \in Ids \ {1}
  /\ \A t \in Tasks : \A i, j \in DOMAIN rows[t] : i < j => rows[t][i] < rows[t][j]

\* A pending journal is about the last commit written, a rollback or a
\* cherry-pick, and holds the bytes that commit has.
Pending ==
  \/ journal = NoJournal
  \/ /\ journal.commit = Len(commits) /\ journal.commit \in applied
     /\ \A p \in DOMAIN journal.diffs :
          Bytes(journal.diffs[p].new) = Bytes(Tree(journal.commit)[p])

\* RevertRecorded, with the one commit a journal vouches for.
Reverts ==
  /\ applied \subseteq Ids \ {1} /\ \A k \in applied : k \notin squashes
  /\ \A k \in applied \cap Line(tip) : k \in Recorded(commits[k].by) \/ k = journal.commit

\* TipOnDisk, with the files a journal vouches for.
Files ==
  \A p \in Paths : Bytes(disk[p]) # Bytes(Tree(tip)[p]) =>
    p \in edited \/ (tip = journal.commit /\ p \in DOMAIN journal.diffs)

\* What the last of the task's own commits to change p left there.
OwnLast(t, p) == Change(rows[t][Max(Owned(t, p))])[p].new

\* The net change of a task is the change its own commits made: squashes, which are
\* among its rows, add nothing to it.
Net ==
  \A t \in Tasks, p \in Paths : rows[t] # <<>> =>
    NetChange(t, p) = IF Owned(t, p) = {} THEN Tree(squashBase(t))[p] ELSE OwnLast(t, p)

\* The current line of the task checked out goes through its base, and has nothing
\* older than the task's first commit after it.
BasedAt(t) ==
  /\ Line(squashBase(t)) \subseteq Line(tip)
  /\ \A j \in Line(tip) \ Line(squashBase(t)) : j >= rows[t][1]

\* Its tip has the task's net change, where nobody else's work is on the line.
KeptAt(t) == \A p \in Paths : p \in LeftOut(t) \/ NetChange(t, p) = Tree(tip)[p]

\* Both, of the task checked out.
Current == \A t \in Tasks : t = current /\ rows[t] # <<>> => BasedAt(t) /\ KeptAt(t)

\* The variables the conjuncts above leave out.
Others ==
  /\ Len(commits) <= MaxCommits /\ tip \in Ids /\ branch \in [Tasks -> Ids \cup {0}]
  /\ disk \in Trees /\ staged \subseteq Paths /\ edited \subseteq Paths
  /\ journal.diffs \in DiffSets /\ cuts \in 0..MaxCuts /\ squashes \subseteq Ids

\* All of it.
IInv == Shape /\ Carried /\ Ledger /\ Pending /\ Reverts /\ Files /\ Net /\ Current /\ Others

-----------------------------------------------------------------------------
(* Numbers *)

\* A set of naturals that is not empty has a least element.
LEMMA LeastNumber ==
  ASSUME NEW T \in SUBSET Nat, T # {}
  PROVE  \E n \in T : \A m \in T : n <= m
<1> DEFINE R == OpToRel(<, Nat)
<1>1. IsWellFoundedOn(R, Nat)
  BY Zenon, NatLessThanWellFounded
<1>2. \A x, y \in Nat : x < y => <<x, y>> \in R
  BY DEF OpToRel
<1> HIDE DEF R
<1>3. PICK x \in T : \A y \in T : ~(<<y, x>> \in R)
  BY Zenon, <1>1, WFMin
<1>4. ASSUME NEW y \in T PROVE x <= y
  <2>1. x \in Nat /\ y \in Nat
    OBVIOUS
  <2>2. ~(y < x)
    BY <1>2, <1>3, <2>1, Zenon
  <2> QED BY <2>1, <2>2
<1> QED BY <1>4

\* The first of a set of positions.
LEMMA MinFacts ==
  ASSUME NEW S \in SUBSET Nat, S # {}
  PROVE  Min(S) \in S /\ \A x \in S : Min(S) <= x
<1>1. \E n \in S : \A m \in S : n <= m
  BY LeastNumber
<1> QED BY Zenon, <1>1 DEF Min

\* The last of a set of positions.
LEMMA MaxFacts ==
  ASSUME NEW n \in Nat, NEW S \in SUBSET (1..n), S # {}
  PROVE  Max(S) \in S /\ \A x \in S : x <= Max(S)
<1> DEFINE T == {n - x : x \in S}
<1>1. T \in SUBSET Nat /\ T # {}
  <2>1. \A x \in S : n - x \in Nat
    OBVIOUS
  <2>2. PICK x \in S : TRUE
    BY Zenon
  <2>3. n - x \in T
    OBVIOUS
  <2> QED BY <2>1, <2>3
<1>2. PICK m \in T : \A y \in T : m <= y
  BY Zenon, <1>1, LeastNumber
<1>3. PICK z \in S : m = n - z
  OBVIOUS
<1>4. \A x \in S : x <= z
  BY <1>2, <1>3
<1>5. \E x \in S : \A y \in S : x >= y
  BY <1>4
<1> QED BY Zenon, <1>5 DEF Max

\* There is one last position.
LEMMA MaxIs ==
  ASSUME NEW n \in Nat, NEW S \in SUBSET (1..n), NEW m \in S, \A x \in S : x <= m
  PROVE  Max(S) = m
<1>1. Max(S) \in S /\ m <= Max(S) /\ Max(S) <= m
  BY Zenon, MaxFacts
<1>2. \A x \in S : x \in Nat
  OBVIOUS
<1>3. \A x, y \in Nat : x <= y /\ y <= x => x = y
  OBVIOUS
<1> QED BY <1>1, <1>2, <1>3, Zenon

-----------------------------------------------------------------------------
(* Commits *)

\* What is read from the commits.
LEMMA CommitFacts ==
  ASSUME Shape, NEW k \in Ids
  PROVE  /\ commits[k] \in Commit /\ Tree(k) \in Trees /\ k \in Nat /\ k >= 1
         /\ \A p \in Paths : Tree(k)[p] \in Entries
<1>1. commits[k] \in Commit /\ k \in Nat /\ k >= 1
  BY DEF Shape, Ids
<1>2. Tree(k) \in Trees
  BY <1>1 DEF Commit, Tree
<1> QED BY <1>1, <1>2 DEF Trees

\* What a commit changed, path by path.
LEMMA ChangeFacts ==
  ASSUME Shape, NEW k \in Ids, k # 1
  PROVE  /\ commits[k].parent \in Ids /\ commits[k].parent < k
         /\ \A p \in Paths :
              (p \in DOMAIN Change(k)) = (Tree(commits[k].parent)[p] # Tree(k)[p])
         /\ \A p \in DOMAIN Change(k) :
              /\ p \in Paths
              /\ Change(k)[p].old = Tree(commits[k].parent)[p]
              /\ Change(k)[p].new = Tree(k)[p]
         /\ Change(k) \in DiffSets
<1>1. commits[k].parent \in Ids /\ commits[k].parent < k
  BY DEF Shape, Ids
<1>2. /\ \A p \in Paths : Tree(k)[p] \in Entries /\ Tree(commits[k].parent)[p] \in Entries
  BY <1>1, CommitFacts
<1>3. /\ DOMAIN Change(k) = Differ(Tree(commits[k].parent), Tree(k))
      /\ \A p \in DOMAIN Change(k) :
           Change(k)[p] = [old |-> Tree(commits[k].parent)[p], new |-> Tree(k)[p]]
  BY DEF Change
<1>4. DOMAIN Change(k) \subseteq Paths
  BY <1>3 DEF Differ
<1>5. \A p \in DOMAIN Change(k) : Change(k)[p] \in Diff
  BY <1>2, <1>3, <1>4 DEF Diff
<1>6. Change(k) \in [DOMAIN Change(k) -> Diff]
  BY <1>5 DEF Change
<1>7. Change(k) \in DiffSets
  BY <1>4, <1>6 DEF DiffSets
<1>8. \A p \in Paths : (p \in DOMAIN Change(k)) = (Tree(commits[k].parent)[p] # Tree(k)[p])
  BY <1>3 DEF Differ
<1> QED BY <1>1, <1>3, <1>4, <1>7, <1>8

\* A commit on m is written; every other one stays as it is.
Added(m, tree, t) ==
  /\ commits' \in Seq(Commit) /\ Len(commits') = Len(commits) + 1
  /\ \A j \in Ids : commits'[j] = commits[j]
  /\ commits'[Len(commits) + 1].parent = m /\ commits'[Len(commits) + 1].tree = tree
  /\ commits'[Len(commits) + 1].by = t
  /\ commits'[Len(commits) + 1].line = Line(m) \cup {Len(commits) + 1}

\* That is what appending a Child does.
LEMMA ChildAdded ==
  ASSUME Shape, NEW m \in Ids, NEW tree \in Trees, NEW t \in Tasks,
         commits' = Append(commits, Child(commits, m, tree, t))
  PROVE  Added(m, tree, t)
<1> DEFINE c == Child(commits, m, tree, t)
<1>1. commits \in Seq(Commit) /\ Len(commits) \in Nat /\ m \in Nat /\ Line(m) \in SUBSET Nat
  BY SMT, Z3, CommitFacts DEF Shape, Ids, Commit, Line
<1>2. /\ c.parent = m /\ c.tree = tree /\ c.by = t /\ c.line = Line(m) \cup {Len(commits) + 1}
      /\ c \in Commit
  BY <1>1 DEF Child, Commit, Line
<1> HIDE DEF c
<1>3. /\ commits' = Append(commits, c)
  BY DEF c
<1>4. /\ commits' \in Seq(Commit) /\ Len(commits') = Len(commits) + 1
      /\ \A j \in 1..Len(commits) : commits'[j] = commits[j]
      /\ commits'[Len(commits) + 1] = c
  BY <1>1, <1>2, <1>3
<1> QED BY <1>2, <1>4 DEF Added, Ids

\* The commits after a step: as they were, or with one more.
Grown == commits' = commits \/ \E m \in Ids, tree \in Trees, t \in Tasks : Added(m, tree, t)

\* The commits there are keep their trees, their lines and their changes.
Same(j) ==
  /\ commits'[j] = commits[j] /\ Tree(j)' = Tree(j) /\ Line(j)' = Line(j) /\ j \in Ids'
  /\ j # 1 => Change(j)' = Change(j)

\* ... whatever is written.
LEMMA OldCommits ==
  ASSUME Shape, Grown
  PROVE  /\ \A j \in Ids : Same(j)
         /\ Len(commits) \in Nat /\ Len(commits') \in Nat /\ Len(commits) <= Len(commits')
<1>1. /\ \A j \in Ids : commits'[j] = commits[j] /\ j \in Ids'
      /\ Len(commits) \in Nat /\ Len(commits') \in Nat /\ Len(commits) <= Len(commits')
  BY DEF Grown, Added, Shape, Ids
<1>2. ASSUME NEW j \in Ids, j # 1 PROVE Change(j)' = Change(j)
  <2>1. commits[j].parent \in Ids
    BY <1>2, ChangeFacts
  <2>2. commits'[j] = commits[j] /\ commits'[commits[j].parent] = commits[commits[j].parent]
    BY <1>1, <2>1
  <2> QED BY <2>2 DEF Change, Tree
<1> QED BY <1>1, <1>2 DEF Same, Tree, Line

\* A new commit extends a chain.
LEMMA ShapeAdded ==
  ASSUME Shape, NEW m \in Ids, NEW tree \in Trees, NEW t \in Tasks, Added(m, tree, t)
  PROVE  Shape'
<1>0. PICK n : n = Len(commits) + 1
  OBVIOUS
<1>1. /\ \A j \in Ids : Same(j)
      /\ Len(commits) \in Nat /\ Len(commits) >= 1
  BY OldCommits DEF Grown, Shape
<1>2. /\ commits' \in Seq(Commit) /\ Len(commits') = n /\ n \in Nat /\ n > Len(commits)
      /\ commits'[n].parent = m /\ commits'[n].by = t
      /\ commits'[n].line = Line(m) \cup {n}
  BY <1>0, <1>1 DEF Added
<1>3. /\ \A j \in Ids : j \in Nat /\ 1 <= j /\ j < n /\ j \in Ids'
      /\ n \in Ids' /\ \A k \in Ids' : k \in Ids \/ k = n
      /\ 1 \in Ids
  BY <1>0, <1>1, <1>2 DEF Ids
<1>4. /\ \A j \in Ids : commits'[j] = commits[j] /\ Line(j)' = Line(j)
      /\ Line(n)' = Line(m) \cup {n}
  BY <1>1, <1>2 DEF Same, Line
<1>5. /\ Line(m) \subseteq 1..m /\ 1 \in Line(m)
      /\ \A j \in Line(m) : j \in Ids /\ j < n /\ Line(j) = {i \in Line(m) : i <= j}
  BY <1>3 DEF Shape, Ids
<1>6. ASSUME NEW k \in Ids'
      PROVE  /\ Line(k)' \subseteq 1..k /\ k \in Line(k)' /\ 1 \in Line(k)'
             /\ \A j \in Line(k)' : Line(j)' = {i \in Line(k)' : i <= j}
  <2>1. CASE k \in Ids
    <3>1. /\ Line(k) \subseteq 1..k /\ k \in Line(k) /\ 1 \in Line(k)
          /\ \A j \in Line(k) : Line(j) = {i \in Line(k) : i <= j}
      BY <2>1 DEF Shape
    <3>2. \A j \in Line(k) : j \in Ids
      BY <2>1, <3>1 DEF Ids
    <3> QED BY <1>4, <2>1, <3>1, <3>2
  <2>2. CASE k = n
    <3>1. Line(n)' \subseteq 1..n /\ n \in Line(n)' /\ 1 \in Line(n)'
      BY <1>2, <1>3, <1>4, <1>5
    <3>2. ASSUME NEW j \in Line(m) PROVE Line(j)' = {i \in Line(n)' : i <= j}
      <4>1. j \in Nat /\ j < n /\ n \in Nat
        BY <1>2, <1>3, <1>5
      <4>2. {i \in Line(m) \cup {n} : i <= j} = {i \in Line(m) : i <= j}
        BY <4>1
      <4> QED BY <1>4, <1>5, <4>2
    <3>3. Line(n)' = {i \in Line(n)' : i <= n}
      BY <1>2, <3>1
    <3> QED BY <1>4, <2>2, <3>1, <3>2, <3>3
  <2> QED BY <1>3, <2>1, <2>2
<1>7. ASSUME NEW k \in Ids', k # 1
      PROVE  /\ commits'[k].parent \in 1..k - 1 /\ commits'[k].by \in Tasks
             /\ Line(k)' = Line(commits[k].parent)' \cup {k}
  <2>1. CASE k \in Ids
    <3>1. /\ commits[k].parent \in 1..k - 1 /\ commits[k].by \in Tasks
          /\ Line(k) = Line(commits[k].parent) \cup {k}
      BY <1>7, <2>1 DEF Shape
    <3>2. commits[k].parent \in Ids
      BY <1>7, <2>1, ChangeFacts
    <3>3. PICK q : q = commits[k].parent
      OBVIOUS
    <3>4. commits'[k].parent = q /\ Line(q)' = Line(q) /\ Line(k)' = Line(k)
      BY <1>4, <2>1, <3>2, <3>3
    <3>5. Line(commits[k].parent)' = Line(q)'
      BY <3>4 DEF Line
    <3>6. commits'[k].by \in Tasks
      BY <1>4, <2>1, <3>1
    <3> QED BY Zenon, <3>1, <3>3, <3>4, <3>5, <3>6
  <2>2. CASE k = n
    <3>1. m \in 1..n - 1
      BY <1>2, <1>3
    <3>2. Line(commits[k].parent)' = Line(m)'
      BY <1>2, <2>2 DEF Line
    <3> QED BY <1>2, <1>4, <2>2, <3>1, <3>2
  <2> QED BY <1>3, <1>7, <2>1, <2>2
<1>8. Line(1)' = {1} /\ commits'[1].parent = 0
  BY <1>3, <1>4 DEF Shape
<1>9. commits' \in Seq(Commit) /\ Len(commits') >= 1
  BY <1>1, <1>2
<1> QED BY <1>6, <1>7, <1>8, <1>9 DEF Shape

\* Whatever is written, the commits keep their shape.
LEMMA ShapeGrown ==
  ASSUME Shape, Grown PROVE Shape'
<1>1. CASE commits' = commits
  BY <1>1 DEF Shape, Ids, Line
<1> QED BY <1>1, ShapeAdded DEF Grown

\* The commits of a line that changed a path are numbers, and there is a last one.
LEMMA ChangersFacts ==
  ASSUME Shape, NEW k \in Ids, NEW p \in Paths
  PROVE  /\ Changers(k, p) \subseteq 1..k /\ 1 \in Changers(k, p)
         /\ Changers(k, p) \subseteq Ids
BY DEF Shape, Changers, Ids

\* A new commit carries over what it does not change.
LEMMA CarriedGrown ==
  ASSUME Shape, Carried, Grown PROVE Carried'
<1>1. CASE commits' = commits
  BY <1>1 DEF Carried, Ids, Line, Changers, Tree, Change
<1>2. ASSUME NEW m \in Ids, NEW tree \in Trees, NEW t \in Tasks, Added(m, tree, t)
      PROVE  Carried'
  <2>0. PICK n : n = Len(commits) + 1
    OBVIOUS
  <2>1. /\ \A j \in Ids : Same(j)
        /\ Len(commits) \in Nat /\ Shape'
    BY <1>2, OldCommits, ShapeGrown DEF Grown
  <2>2. /\ n \in Nat /\ n \in Ids' /\ n # 1 /\ \A k \in Ids' : k \in Ids \/ k = n
        /\ \A j \in Ids : j < n
    BY <1>2, <2>0, <2>1 DEF Added, Ids, Shape
  <2>3. commits'[n].parent = m /\ Line(n)' = Line(m) \cup {n}
    BY <1>2, <2>0 DEF Added, Line
  <2>4. ASSUME NEW k \in Ids, NEW p \in Paths PROVE Changers(k, p)' = Changers(k, p)
    <3>1. \A j \in Line(k) : j \in Ids
      BY DEF Shape, Ids
    <3>2. Line(k)' = Line(k)
      BY <2>1 DEF Same
    <3>3. \A j \in Line(k) : j = 1 \/ Change(j)' = Change(j)
      BY <2>1, <3>1 DEF Same
    <3> QED BY <3>2, <3>3 DEF Changers
  <2>5. ASSUME NEW p \in Paths
        PROVE  Changers(n, p)' = IF p \in DOMAIN Change(n)' THEN Changers(m, p) \cup {n}
                                 ELSE Changers(m, p)
    <3>1. Changers(n, p)' = {j \in Line(m) \cup {n} : j = 1 \/ p \in DOMAIN Change(j)'}
      BY <2>3 DEF Changers
    <3>2. Changers(m, p) = {j \in Line(m) : j = 1 \/ p \in DOMAIN Change(j)'}
      <4>1. \A j \in Line(m) : j \in Ids
        BY DEF Shape, Ids
      <4>2. \A j \in Line(m) : j = 1 \/ Change(j)' = Change(j)
        BY <2>1, <4>1 DEF Same
      <4> QED BY <4>2 DEF Changers
    <3> QED BY <2>2, <3>1, <3>2
  <2>6. ASSUME NEW k \in Ids', NEW p \in Paths, NEW l \in Changers(k, p)',
               \A j \in Changers(k, p)' : j <= l
        PROVE  Tree(k)'[p] = Tree(l)'[p]
    <3>1. CASE k \in Ids
      <4>1. l \in Changers(k, p) /\ \A j \in Changers(k, p) : j <= l
        BY <2>4, <2>6, <3>1
      <4>2. Tree(k)[p] = Tree(l)[p] /\ l \in Ids
        BY <3>1, <4>1, ChangersFacts DEF Carried
      <4> QED BY <2>1, <3>1, <4>2 DEF Same
    <3>2. CASE k = n /\ p \in DOMAIN Change(n)'
      <4>1. n <= l /\ (l \in Changers(m, p) \/ l = n)
        BY <2>5, <2>6, <3>2
      <4>2. \A j \in Changers(m, p) : j \in Ids
        BY ChangersFacts
      <4>3. \A j \in Ids : j \in Nat /\ ~(n <= j)
        BY <2>1, <2>2 DEF Ids
      <4>4. l = n
        BY <4>1, <4>2, <4>3
      <4> QED BY <3>2, <4>4
    <3>3. CASE k = n /\ p \notin DOMAIN Change(n)'
      <4>1. l \in Changers(m, p) /\ \A j \in Changers(m, p) : j <= l
        BY <2>5, <2>6, <3>3
      <4>2. Tree(m)[p] = Tree(l)[p] /\ l \in Ids
        BY <4>1, ChangersFacts DEF Carried
      <4>3. Tree(n)'[p] = Tree(m)'[p]
        <5>1. Change(n)' = [q \in Differ(Tree(m)', Tree(n)') |->
                              [old |-> Tree(m)'[q], new |-> Tree(n)'[q]]]
          BY <2>3 DEF Change, Tree
        <5>2. p \notin Differ(Tree(m)', Tree(n)')
          BY <3>3, <5>1
        <5> QED BY <5>2 DEF Differ
      <4> QED BY <2>1, <3>3, <4>2, <4>3 DEF Same
    <3> QED BY Zenon, <2>2, <2>6, <3>1, <3>2, <3>3
  <2> QED BY <2>6 DEF Carried
<1> QED BY <1>1, <1>2 DEF Grown

-----------------------------------------------------------------------------
(* Ledger rows *)

\* Commit k gets a row of task t, after those there are.
Entered(t, k) ==
  /\ rows' \in [Tasks -> Seq(Nat)]
  /\ Len(rows'[t]) = Len(rows[t]) + 1 /\ rows'[t][Len(rows[t]) + 1] = k
  /\ \A i \in DOMAIN rows[t] : rows'[t][i] = rows[t][i]
  /\ \A u \in Tasks : u # t => rows'[u] = rows[u]

\* That is what appending a row does.
LEMMA RowEntered ==
  ASSUME Ledger, NEW t \in Tasks, NEW k \in Nat, rows' = [rows EXCEPT ![t] = Append(@, k)]
  PROVE  Entered(t, k)
<1>1. rows \in [Tasks -> Seq(Nat)] /\ rows[t] \in Seq(Nat)
  BY DEF Ledger
<1>2. /\ Append(rows[t], k) \in Seq(Nat) /\ Len(Append(rows[t], k)) = Len(rows[t]) + 1
      /\ Append(rows[t], k)[Len(rows[t]) + 1] = k
      /\ \A i \in 1..Len(rows[t]) : Append(rows[t], k)[i] = rows[t][i]
      /\ DOMAIN rows[t] = 1..Len(rows[t])
  BY <1>1
<1>3. rows'[t] = Append(rows[t], k) /\ \A u \in Tasks : u # t => rows'[u] = rows[u]
  BY <1>1
<1>4. rows' \in [Tasks -> Seq(Nat)]
  BY <1>1, <1>2
<1> QED BY <1>2, <1>3, <1>4 DEF Entered

\* What is read from the ledger.
LEMMA RowFacts ==
  ASSUME Ledger, NEW t \in Tasks
  PROVE  /\ rows[t] \in Seq(Nat) /\ Len(rows[t]) \in Nat /\ DOMAIN rows[t] = 1..Len(rows[t])
         /\ \A i \in DOMAIN rows[t] : rows[t][i] \in Ids /\ rows[t][i] # 1
         /\ rows[t] # <<>> <=> 1 \in DOMAIN rows[t]
<1>1. rows[t] \in Seq(Nat) /\ Len(rows[t]) \in Nat /\ DOMAIN rows[t] = 1..Len(rows[t])
  BY DEF Ledger
<1>2. rows[t] # <<>> <=> Len(rows[t]) # 0
  BY <1>1
<1> QED BY <1>1, <1>2 DEF Ledger

\* The rows of a step that adds one at most, in order.
RowsGrown ==
  \/ rows' = rows
  \/ \E t \in Tasks, k \in Ids' : /\ k # 1 /\ Entered(t, k)
                                  /\ \A i \in DOMAIN rows[t] : rows[t][i] < k

\* They stay in the order of their commits.
LEMMA LedgerGrown ==
  ASSUME Shape, Grown, Ledger, RowsGrown PROVE Ledger'
<1>1. /\ \A j \in Ids : j \in Ids'
      /\ \A j \in Ids : j \in Nat
  BY OldCommits DEF Same, Ids
<1>2. CASE rows' = rows
  BY <1>1, <1>2 DEF Ledger
<1>3. ASSUME NEW t \in Tasks, NEW k \in Ids', k # 1, Entered(t, k),
             \A i \in DOMAIN rows[t] : rows[t][i] < k
      PROVE  Ledger'
  <2>1. rows' \in [Tasks -> Seq(Nat)] /\ \A u \in Tasks : u # t => rows'[u] = rows[u]
    BY <1>3 DEF Entered
  <2>2. PICK n : n = Len(rows[t]) + 1
    OBVIOUS
  <2>3. /\ n \in Nat /\ DOMAIN rows[t] = 1..n - 1 /\ DOMAIN rows'[t] = 1..n /\ rows'[t][n] = k
        /\ \A i \in 1..n - 1 : rows'[t][i] = rows[t][i]
    <3>1. rows'[t] \in Seq(Nat) /\ Len(rows'[t]) = n /\ rows'[t][n] = k
      BY <1>3, <2>1, <2>2 DEF Entered
    <3>2. Len(rows[t]) \in Nat /\ DOMAIN rows[t] = 1..Len(rows[t])
      BY RowFacts
    <3>3. n \in Nat /\ n - 1 = Len(rows[t])
      BY <2>2, <3>2
    <3>4. DOMAIN rows'[t] = 1..n
      BY <3>1
    <3> QED BY Zenon, <1>3, <3>1, <3>2, <3>3, <3>4 DEF Entered
  <2>4. ASSUME NEW u \in Tasks
        PROVE  /\ \A i \in DOMAIN rows'[u] : rows'[u][i] \in Ids' /\ rows'[u][i] # 1
               /\ \A i, j \in DOMAIN rows'[u] : i < j => rows'[u][i] < rows'[u][j]
    <3>1. CASE u # t
      BY <1>1, <2>1, <3>1 DEF Ledger
    <3>2. CASE u = t
      <4>1. \A i \in 1..n - 1 : /\ rows[t][i] \in Ids /\ rows[t][i] # 1 /\ rows[t][i] < k
                                /\ \A j \in 1..n - 1 : i < j => rows[t][i] < rows[t][j]
        BY Zenon, <1>3, <2>3 DEF Ledger
      <4>2. \A i \in DOMAIN rows'[t] : rows'[t][i] \in Ids' /\ rows'[t][i] # 1
        BY <1>1, <1>3, <2>3, <4>1
      <4>3. \A i, j \in DOMAIN rows'[t] : i < j => rows'[t][i] < rows'[t][j]
        BY <2>3, <4>1
      <4> QED BY <3>2, <4>2, <4>3
    <3> QED BY <3>1, <3>2
  <2> QED BY <2>1, <2>4 DEF Ledger
<1> QED BY <1>2, <1>3 DEF RowsGrown

-----------------------------------------------------------------------------
(* Net changes *)

\* No commit there is becomes a squash or ceases to be one.
Marks == \A j \in Ids : (j \in squashes') <=> (j \in squashes)

\* A row is as it was, and so is what it stands for.
SameRow(u, i) ==
  /\ rows'[u][i] = rows[u][i] /\ Change(rows[u][i])' = Change(rows[u][i])
  /\ (rows[u][i] \in squashes)' <=> (rows[u][i] \in squashes)
  /\ commits'[rows'[u][i]].parent = commits[rows[u][i]].parent
  /\ Tree(commits[rows[u][i]].parent)' = Tree(commits[rows[u][i]].parent)

\* ... when the step does not change the row itself.
LEMMA OldRows ==
  ASSUME Shape, Grown, Ledger, Marks,
         NEW u \in Tasks, NEW i \in DOMAIN rows[u], rows'[u][i] = rows[u][i]
  PROVE  SameRow(u, i)
<1>1. PICK j : j = rows[u][i]
  OBVIOUS
<1>2. j \in Ids /\ j # 1 /\ rows'[u][i] = j
  BY <1>1, RowFacts
<1>3. Same(j)
  BY Zenon, <1>2, OldCommits
<1>4. Change(rows[u][i])' = Change(j)'
  BY <1>2 DEF Change, Tree
<1>5. (rows[u][i] \in squashes)' <=> j \in squashes'
  BY Zenon, <1>2
<1>6. PICK q : q = commits[j].parent
  OBVIOUS
<1>7. q \in Ids /\ Same(q)
  BY <1>2, <1>6, ChangeFacts, OldCommits
<1>8. commits'[j].parent = q
  BY <1>3, <1>6 DEF Same
<1>9. Tree(commits[rows[u][i]].parent)' = Tree(q)'
  BY <1>2, <1>8 DEF Tree
<1>10. Tree(q)' = Tree(q)
  BY <1>7 DEF Same
<1> QED BY Zenon, <1>1, <1>2, <1>3, <1>4, <1>5, <1>6, <1>8, <1>9, <1>10 DEF SameRow, Same, Marks

\* The rows of t whose commit changes p, squashes included.
Nets(t, p) == {i \in DOMAIN rows[t] : p \in DOMAIN Change(rows[t][i])}

\* All three are sets of positions.
LEMMA Positions ==
  ASSUME Ledger, NEW t \in Tasks, NEW p
  PROVE  /\ Touches(t, p) \subseteq DOMAIN rows[t] /\ Nets(t, p) \subseteq DOMAIN rows[t]
         /\ Touches(t, p) \subseteq 1..Len(rows[t]) /\ Nets(t, p) \subseteq 1..Len(rows[t])
         /\ Owned(t, p) \subseteq DOMAIN rows[t] /\ Owned(t, p) \subseteq 1..Len(rows[t])
         /\ Len(rows[t]) \in Nat
BY Zenon, RowFacts DEF Touches, Nets, Owned

\* Net, for one task and one path.
NetAt(t, p) ==
  rows[t] # <<>> =>
    NetChange(t, p) = IF Owned(t, p) = {} THEN Tree(squashBase(t))[p] ELSE OwnLast(t, p)

\* The base of a task is as it was, once it has one.
LEMMA BaseReads ==
  ASSUME Shape, Grown, Ledger, Marks, NEW u \in Tasks,
         \A i \in DOMAIN rows[u] : rows'[u][i] = rows[u][i], rows[u] # <<>>
  PROVE  squashBase(u)' = squashBase(u) /\ Tree(squashBase(u))' = Tree(squashBase(u))
<1>1. 1 \in DOMAIN rows[u] /\ \A i \in DOMAIN rows[u] : SameRow(u, i)
  BY Zenon, RowFacts, OldRows
<1>2. Tree(commits[rows[u][1]].parent)' = Tree(commits[rows[u][1]].parent)
  BY ZenonT(60), <1>1 DEF SameRow
<1>3. commits'[rows'[u][1]].parent = commits[rows[u][1]].parent
  BY ZenonT(60), <1>1 DEF SameRow
<1> QED BY Zenon, <1>2, <1>3 DEF squashBase

\* What both sides of Net read is as it was, when the rows they are about are.
LEMMA LastReads ==
  ASSUME Shape, Grown, Ledger, Marks, NEW u \in Tasks,
         \A i \in DOMAIN rows[u] : rows'[u][i] = rows[u][i],
         NEW S, S # {}, S \subseteq 1..Len(rows[u]), S \subseteq DOMAIN rows[u]
  PROVE  /\ rows'[u][Max(S)] = rows[u][Max(S)]
         /\ Change(rows[u][Max(S)])' = Change(rows[u][Max(S)])
<1>1. \A i \in DOMAIN rows[u] : SameRow(u, i)
  BY Zenon, OldRows
<1>2. Max(S) \in S
  BY Zenon, MaxFacts, Positions
<1> QED BY <1>1, <1>2 DEF SameRow

\* So a net change stays while no row is added that changes the path ...
LEMMA NetReads ==
  ASSUME Shape, Grown, Ledger, Marks, NEW u \in Tasks, NEW p \in Paths,
         \A i \in DOMAIN rows[u] : rows'[u][i] = rows[u][i], rows[u] # <<>>,
         Nets(u, p)' = Nets(u, p)
  PROVE  NetChange(u, p)' = NetChange(u, p)
<1>1. PICK S : S = Nets(u, p)
  BY Zenon
<1>2. NetChange(u, p) = IF S = {} THEN Tree(squashBase(u))[p] ELSE Change(rows[u][Max(S)])[p].new
  BY <1>1 DEF NetChange, Nets, squashBase
<1>3. NetChange(u, p)' =
        IF S = {} THEN Tree(squashBase(u))'[p] ELSE Change(rows[u][Max(S)])'[p].new
  BY Zenon, <1>1 DEF NetChange, Nets, squashBase
<1>4. S # {} => Change(rows[u][Max(S)])' = Change(rows[u][Max(S)])
  BY Zenon, <1>1, Positions, LastReads
<1> QED BY SMT, Z3, <1>2, <1>3, <1>4, BaseReads

\* ... and so does what the task's own commits left.
LEMMA OwnReads ==
  ASSUME Shape, Grown, Ledger, Marks, NEW u \in Tasks, NEW p \in Paths,
         \A i \in DOMAIN rows[u] : rows'[u][i] = rows[u][i],
         Owned(u, p)' = Owned(u, p), Owned(u, p) # {}
  PROVE  OwnLast(u, p)' = OwnLast(u, p)
<1>1. PICK S : S = Owned(u, p)
  BY Zenon
<1>2. Change(rows[u][Max(S)])' = Change(rows[u][Max(S)])
  BY Zenon, <1>1, Positions, LastReads
<1>3. OwnLast(u, p)' = Change(rows[u][Max(S)])'[p].new
  BY <1>1 DEF OwnLast
<1>4. OwnLast(u, p) = Change(rows[u][Max(S)])[p].new
  BY ZenonT(60), <1>1 DEF OwnLast
<1> QED BY <1>2, <1>3, <1>4

\* A task that gets no row keeps its net change.
LEMMA NetStill ==
  ASSUME Shape, Grown, Ledger, Marks, NEW u \in Tasks, NEW p \in Paths,
         rows'[u] = rows[u], NetAt(u, p)
  PROVE  NetAt(u, p)' /\ (rows[u] # <<>> => NetChange(u, p)' = NetChange(u, p))
<1>1. SUFFICES ASSUME rows[u] # <<>> PROVE NetAt(u, p)' /\ NetChange(u, p)' = NetChange(u, p)
  BY DEF NetAt
<1>2. \A i \in DOMAIN rows[u] : SameRow(u, i)
  BY Zenon, OldRows
<1>3. Nets(u, p)' = Nets(u, p)
  BY Zenon, <1>2 DEF Nets, SameRow
<1>4. Owned(u, p)' = Owned(u, p)
  BY Zenon, <1>2 DEF Owned, SameRow
<1>5. NetChange(u, p)' = NetChange(u, p)
  BY Zenon, <1>1, <1>3, NetReads
<1>6. Tree(squashBase(u))' = Tree(squashBase(u))
  BY Zenon, <1>1, BaseReads
<1>7. Owned(u, p) # {} => OwnLast(u, p)' = OwnLast(u, p)
  BY Zenon, <1>4, OwnReads
<1>8. NetChange(u, p) = IF Owned(u, p) = {} THEN Tree(squashBase(u))[p] ELSE OwnLast(u, p)
  BY <1>1 DEF NetAt
<1> QED BY ZenonT(60), <1>4, <1>5, <1>6, <1>7, <1>8 DEF NetAt

\* Where a new row goes.
Placed(t, k, n) ==
  /\ n \in Nat /\ DOMAIN rows[t] = 1..n - 1 /\ DOMAIN rows'[t] = 1..n
  /\ rows'[t][n] = k /\ \A i \in DOMAIN rows[t] : rows'[t][i] = rows[t][i]
  /\ Len(rows[t]) = n - 1 /\ n \in 1..n
  /\ \A i \in 1..n : i \in 1..n - 1 \/ i = n
  /\ \A i \in 1..n - 1 : i \in 1..n

\* That is where.
LEMMA RowPlaced ==
  ASSUME Ledger, NEW t \in Tasks, NEW k, Entered(t, k), NEW n, n = Len(rows[t]) + 1
  PROVE  Placed(t, k, n)
<1>1. rows'[t] \in Seq(Nat) /\ Len(rows'[t]) = n /\ rows'[t][n] = k
  BY Zenon DEF Entered
<1>2. Len(rows[t]) \in Nat /\ DOMAIN rows[t] = 1..Len(rows[t])
  BY Zenon, RowFacts
<1>3. /\ n \in Nat /\ DOMAIN rows[t] = 1..n - 1 /\ DOMAIN rows'[t] = 1..n
      /\ Len(rows[t]) = n - 1
  BY <1>1, <1>2
<1>4. /\ n \in 1..n /\ \A i \in 1..n : i \in 1..n - 1 \/ i = n
      /\ \A i \in 1..n - 1 : i \in 1..n
  BY <1>2, <1>3
<1>5. \A i \in DOMAIN rows[t] : rows'[t][i] = rows[t][i]
  BY Zenon DEF Entered
<1> QED BY Zenon, <1>1, <1>3, <1>4, <1>5 DEF Placed

\* A new row makes its commit the last word on what it changes, and leaves the rest.
LEMMA NetIs ==
  ASSUME Shape, Grown, Ledger, Marks,
         NEW t \in Tasks, NEW k \in Ids', Entered(t, k), NEW p \in Paths
  PROVE  /\ p \in DOMAIN Change(k)' => NetChange(t, p)' = Tree(k)'[p]
         /\ p \notin DOMAIN Change(k)' /\ rows[t] # <<>> => NetChange(t, p)' = NetChange(t, p)
         /\ p \notin DOMAIN Change(k)' /\ rows[t] = <<>> =>
              NetChange(t, p)' = Tree(squashBase(t))'[p]
<1>1. PICK n : n = Len(rows[t]) + 1
  BY Zenon
<1>2. /\ n \in Nat /\ DOMAIN rows[t] = 1..n - 1 /\ DOMAIN rows'[t] = 1..n
      /\ rows'[t][n] = k /\ \A i \in DOMAIN rows[t] : rows'[t][i] = rows[t][i]
      /\ Len(rows[t]) = n - 1 /\ n \in 1..n
      /\ \A i \in 1..n : i \in 1..n - 1 \/ i = n
      /\ \A i \in 1..n - 1 : i \in 1..n
  <2>1. Placed(t, k, n)
    BY Zenon, <1>1, RowPlaced
  <2> QED BY Zenon, <2>1 DEF Placed
<1>3. \A i \in 1..n - 1 : SameRow(t, i)
  BY ZenonT(60), <1>2, OldRows
<1>4. Change(rows[t][n])' = Change(k)'
  BY <1>2 DEF Change, Tree
<1>5. Nets(t, p)' = Nets(t, p) \cup (IF p \in DOMAIN Change(k)' THEN {n} ELSE {})
  <2>1. Nets(t, p)' = {i \in 1..n : p \in DOMAIN Change(rows[t][i])'}
    BY Zenon, <1>2 DEF Nets
  <2>2. Nets(t, p) = {i \in 1..n - 1 : p \in DOMAIN Change(rows[t][i])'}
    BY Zenon, <1>2, <1>3 DEF Nets, SameRow
  <2> QED BY Zenon, <1>2, <1>4, <2>1, <2>2
<1>6. CASE p \notin DOMAIN Change(k)'
  <2>1. Nets(t, p)' = Nets(t, p)
    BY Zenon, <1>5, <1>6
  <2>2. CASE rows[t] # <<>>
    BY Zenon, <1>2, <1>6, <2>1, <2>2, NetReads
  <2>3. CASE rows[t] = <<>>
    <3>1. Nets(t, p) = {}
      BY SMT, Z3, <2>3 DEF Nets
    <3>2. NetChange(t, p)' = Tree(squashBase(t))'[p]
      BY <2>1, <3>1 DEF NetChange, Nets, squashBase
    <3> QED BY Zenon, <1>6, <2>3, <3>2
  <2> QED BY <2>2, <2>3
<1>7. CASE p \in DOMAIN Change(k)'
  <2>1. Nets(t, p)' \subseteq 1..n /\ n \in Nets(t, p)'
    BY SMT, Z3, <1>2, <1>5, <1>7, Positions
  <2>2. Change(k)'[p].new = Tree(k)'[p]
    <3>1. Change(k)' = [q \in Differ(Tree(commits[k].parent)', Tree(k)') |->
                          [old |-> Tree(commits[k].parent)'[q], new |-> Tree(k)'[q]]]
      BY Zenon DEF Change
    <3> QED BY <1>7, <3>1
  <2>3. NetChange(t, p)' = Change(rows[t][Max(Nets(t, p))])'[p].new
    BY <2>1 DEF NetChange, Nets
  <2>4. Max(Nets(t, p)') = n
    <3>1. \A x \in Nets(t, p)' : x <= n
      BY <1>2, <2>1
    <3> QED BY Zenon, <1>2, <2>1, <3>1, MaxIs
  <2>5. Change(rows[t][Max(Nets(t, p))])' = Change(rows[t][n])'
    BY Zenon, <2>4
  <2> QED BY ZenonT(60), <1>4, <1>7, <2>2, <2>3, <2>5
<1> QED BY <1>6, <1>7

\* The commit a squash writes: the net change of t on its base.
Squashes(t, k) ==
  /\ rows[t] # <<>> /\ k \in squashes'
  /\ \A p \in Paths : Tree(k)'[p] = NetChange(t, p)

\* A row for a commit of the task's own is the last of them; a row for a squash
\* repeats what is known.
LEMMA NetEntered ==
  ASSUME Shape, Grown, Ledger, Marks,
         NEW t \in Tasks, NEW k \in Ids', Entered(t, k),
         k \notin squashes' \/ Squashes(t, k),
         NEW p \in Paths, NetAt(t, p)
  PROVE  NetAt(t, p)'
<1>1. PICK n : n = Len(rows[t]) + 1
  BY Zenon
<1>2. /\ n \in Nat /\ DOMAIN rows[t] = 1..n - 1 /\ DOMAIN rows'[t] = 1..n
      /\ rows'[t][n] = k /\ \A i \in DOMAIN rows[t] : rows'[t][i] = rows[t][i]
      /\ Len(rows[t]) = n - 1 /\ n \in 1..n
      /\ \A i \in 1..n : i \in 1..n - 1 \/ i = n
      /\ \A i \in 1..n - 1 : i \in 1..n
  <2>1. Placed(t, k, n)
    BY Zenon, <1>1, RowPlaced
  <2> QED BY Zenon, <2>1 DEF Placed
<1>3. \A i \in 1..n - 1 : SameRow(t, i)
  BY ZenonT(60), <1>2, OldRows
<1>4. Change(rows[t][n])' = Change(k)'
  BY <1>2 DEF Change, Tree
<1>5. Owned(t, p)' =
        Owned(t, p) \cup (IF k \notin squashes' /\ p \in DOMAIN Change(k)' THEN {n} ELSE {})
  <2>1. Owned(t, p)' =
          {i \in 1..n : rows'[t][i] \notin squashes' /\ p \in DOMAIN Change(rows[t][i])'}
    BY Zenon, <1>2 DEF Owned
  <2>2. Owned(t, p) =
          {i \in 1..n - 1 : rows'[t][i] \notin squashes' /\ p \in DOMAIN Change(rows[t][i])'}
    BY Zenon, <1>2, <1>3 DEF Owned, SameRow
  <2> QED BY Zenon, <1>2, <1>4, <2>1, <2>2
<1>6. CASE p \in DOMAIN Change(k)' /\ k \notin squashes'
  <2>1. Owned(t, p)' \subseteq 1..n /\ n \in Owned(t, p)'
    BY <1>2, <1>5, <1>6, Positions
  <2>2. Max(Owned(t, p)') = n
    <3>1. \A x \in Owned(t, p)' : x <= n
      BY <1>2, <2>1
    <3> QED BY Zenon, <1>2, <2>1, <3>1, MaxIs
  <2>3. OwnLast(t, p)' = Change(rows[t][n])'[p].new
    BY <2>2 DEF OwnLast
  <2>4. Change(k)'[p].new = Tree(k)'[p]
    <3>1. Change(k)' = [q \in Differ(Tree(commits[k].parent)', Tree(k)') |->
                          [old |-> Tree(commits[k].parent)'[q], new |-> Tree(k)'[q]]]
      BY Zenon DEF Change
    <3> QED BY <1>6, <3>1
  <2>5. NetChange(t, p)' = Tree(k)'[p]
    BY Zenon, <1>6, NetIs
  <2> QED BY Zenon, <1>4, <2>1, <2>3, <2>4, <2>5 DEF NetAt
<1>7. CASE rows[t] # <<>> /\ ~(p \in DOMAIN Change(k)' /\ k \notin squashes')
  <2>1. Owned(t, p)' = Owned(t, p)
    BY Zenon, <1>5, <1>7
  <2>2. NetChange(t, p)' = NetChange(t, p)
    <3>1. CASE p \in DOMAIN Change(k)'
      BY Zenon, <1>7, <3>1, NetIs DEF Squashes
    <3>2. CASE p \notin DOMAIN Change(k)'
      BY Zenon, <1>7, <3>2, NetIs
    <3> QED BY Zenon, <3>1, <3>2
  <2>3. Tree(squashBase(t))' = Tree(squashBase(t))
    BY Zenon, <1>2, <1>7, BaseReads
  <2>4. Owned(t, p) # {} => OwnLast(t, p)' = OwnLast(t, p)
    BY Zenon, <1>2, <2>1, OwnReads
  <2>5. NetChange(t, p) = IF Owned(t, p) = {} THEN Tree(squashBase(t))[p] ELSE OwnLast(t, p)
    BY Zenon, <1>7 DEF NetAt
  <2> QED BY ZenonT(60), <2>1, <2>2, <2>3, <2>4, <2>5 DEF NetAt
<1>8. CASE rows[t] = <<>> /\ ~(p \in DOMAIN Change(k)' /\ k \notin squashes')
  <2>1. Owned(t, p) = {}
    BY SMT, Z3, <1>8 DEF Owned
  <2>2. Owned(t, p)' = {} /\ p \notin DOMAIN Change(k)'
    BY Zenon, <1>5, <1>8, <2>1 DEF Squashes
  <2>3. NetChange(t, p)' = Tree(squashBase(t))'[p]
    BY Zenon, <1>8, <2>2, NetIs
  <2> QED BY Zenon, <2>2, <2>3 DEF NetAt
<1> QED BY Zenon, <1>6, <1>7, <1>8

\* A step that adds at most a row for a commit of the task's own or for a squash
\* keeps Net.
LEMMA NetGrown ==
  ASSUME Shape, Grown, Ledger, Marks, Net,
         \/ rows' = rows
         \/ \E t \in Tasks, k \in Ids' : /\ k # 1 /\ Entered(t, k)
                                         /\ \A i \in DOMAIN rows[t] : rows[t][i] < k
                                         /\ k \notin squashes' \/ Squashes(t, k)
  PROVE  Net'
<1>1. \A u \in Tasks, p \in Paths : NetAt(u, p)
  BY DEF Net, NetAt
<1>2. ASSUME NEW u \in Tasks, NEW p \in Paths PROVE NetAt(u, p)'
  <2>1. CASE rows'[u] = rows[u]
    BY Zenon, <1>1, <2>1, NetStill
  <2>2. CASE rows'[u] # rows[u]
    <3>1. PICK t \in Tasks, k \in Ids' : /\ k # 1 /\ Entered(t, k)
                                         /\ k \notin squashes' \/ Squashes(t, k)
      BY <2>2
    <3>2. u = t
      BY <2>2, <3>1 DEF Entered
    <3> QED BY Zenon, <1>1, <3>1, <3>2, NetEntered
  <2> QED BY Zenon, <2>1, <2>2
<1> QED BY Zenon, <1>2 DEF Net, NetAt

-----------------------------------------------------------------------------
(* The branch checked out *)

\* What a new row adds to the record of its task.
LEMMA RecordedIs ==
  ASSUME Ledger, NEW t \in Tasks, NEW k, rows'[t] = rows[t] \/ Entered(t, k)
  PROVE  /\ Recorded(t)' \subseteq Recorded(t) \cup {k}
         /\ rows'[t] = rows[t] => Recorded(t)' = Recorded(t)
<1>1. rows'[t] = rows[t] => Recorded(t)' = Recorded(t)
  BY Zenon DEF Recorded, Range
<1>2. CASE Entered(t, k)
  <2>1. PICK n : n = Len(rows[t]) + 1
    BY Zenon
  <2>2. /\ DOMAIN rows[t] = 1..n - 1 /\ DOMAIN rows'[t] = 1..n
        /\ rows'[t][n] = k /\ \A i \in DOMAIN rows[t] : rows'[t][i] = rows[t][i]
        /\ \A i \in 1..n : i \in 1..n - 1 \/ i = n
    <3>1. Placed(t, k, n)
      BY Zenon, <1>2, <2>1, RowPlaced
    <3> QED BY Zenon, <3>1 DEF Placed
  <2> QED BY Zenon, <1>1, <2>2 DEF Recorded, Range
<1> QED BY Zenon, <1>1, <1>2

\* What the step does to the current branch: it stays, or a new commit k that is no
\* squash is put on it.
Advances(k) ==
  \/ tip' = tip
  \/ tip' = k /\ k \notin Ids /\ k \notin squashes' /\ commits'[k].parent = tip

\* ... and what that makes of its line and its tree.
LEMMA AdvanceFacts ==
  ASSUME Shape, Grown, Shape', tip \in Ids, NEW k \in Ids', Advances(k)
  PROVE  /\ tip' = tip => Line(tip)' = Line(tip) /\ Tree(tip)' = Tree(tip)
         /\ tip' # tip => Line(tip)' = Line(tip) \cup {k} /\ k \notin Line(tip)
         /\ \A p \in Paths : tip' # tip /\ p \notin DOMAIN Change(k)' =>
                             Tree(tip)'[p] = Tree(tip)[p]
<1>1. \A j \in Ids : Same(j)
  BY Zenon, OldCommits
<1>2. PICK m : m = tip
  BY Zenon
<1>3. m \in Ids /\ commits'[m] = commits[m] /\ Line(m)' = Line(m) /\ Tree(m)' = Tree(m)
  BY Zenon, <1>1, <1>2 DEF Same
<1>4. ASSUME tip' = tip PROVE Line(tip)' = Line(tip) /\ Tree(tip)' = Tree(tip)
  BY Zenon, <1>2, <1>3, <1>4 DEF Line, Tree
<1>5. ASSUME tip' # tip
      PROVE  /\ Line(tip)' = Line(tip) \cup {k} /\ k \notin Line(tip)
             /\ \A p \in Paths : p \notin DOMAIN Change(k)' => Tree(tip)'[p] = Tree(tip)[p]
  <2>1. tip' = k /\ k \notin Ids /\ commits'[k].parent = m
    BY Zenon, <1>2, <1>5 DEF Advances
  <2>2. 1 \in Ids /\ k # 1 /\ Line(m) \subseteq Ids
    BY <1>3, <2>1 DEF Shape, Ids
  <2>3. Line(k)' = Line(m)' \cup {k}
    <3>1. Line(k)' = Line(commits[k].parent)' \cup {k}
      BY Zenon, <2>2 DEF Shape
    <3>2. Line(commits[k].parent)' = Line(m)'
      BY Zenon, <2>1 DEF Line
    <3> QED BY Zenon, <3>1, <3>2
  <2>4. Line(tip)' = Line(k)' /\ Tree(tip)' = Tree(k)'
    BY Zenon, <2>1 DEF Line, Tree
  <2>5. ASSUME NEW p \in Paths, p \notin DOMAIN Change(k)' PROVE Tree(k)'[p] = Tree(m)'[p]
    <3>1. Change(k)' = [q \in Differ(Tree(m)', Tree(k)') |->
                          [old |-> Tree(m)'[q], new |-> Tree(k)'[q]]]
      BY <2>1 DEF Change, Tree
    <3>2. p \notin Differ(Tree(m)', Tree(k)')
      BY <2>5, <3>1
    <3> QED BY <3>2 DEF Differ
  <2> QED BY Zenon, <1>2, <1>3, <2>1, <2>2, <2>3, <2>4, <2>5
<1> QED BY Zenon, <1>4, <1>5

\* The line of the task checked out, when the branch stays or advances and the task
\* gets at most a row for the commit it is at.
LEMMA BasedStep ==
  ASSUME Shape, Grown, Shape', Ledger, Marks, tip \in Ids, NEW t \in Tasks, NEW k \in Ids',
         Advances(k), rows[t] # <<>>, rows'[t] = rows[t] \/ Entered(t, k),
         tip' # tip => \A i \in DOMAIN rows[t] : rows[t][i] < k, BasedAt(t)
  PROVE  /\ BasedAt(t)' /\ Line(squashBase(t))' = Line(squashBase(t))
         /\ 1 \in Line(squashBase(t)) /\ Line(squashBase(t)) \subseteq Ids
<1>1. /\ 1 \in DOMAIN rows[t] /\ \A i \in DOMAIN rows[t] : rows'[t][i] = rows[t][i]
      /\ rows[t][1] \in Ids /\ rows[t][1] # 1
  BY Zenon, RowFacts DEF Entered
<1>2. PICK b : b = squashBase(t)
  BY Zenon
<1>3. b \in Ids
  BY Zenon, <1>1, <1>2, ChangeFacts DEF squashBase
<1>4. squashBase(t)' = b
  BY Zenon, <1>1, <1>2, BaseReads
<1>5. Line(b)' = Line(b) /\ 1 \in Line(b) /\ Line(b) \subseteq Ids
  <2>1. Line(b)' = Line(b)
    BY Zenon, <1>3, OldCommits DEF Same
  <2>2. 1 \in Line(b) /\ Line(b) \subseteq Ids
    BY <1>3 DEF Shape, Ids
  <2> QED BY <2>1, <2>2
<1>6. Line(squashBase(t))' = Line(b)
  BY Zenon, <1>4, <1>5 DEF Line
<1>7. PICK r : r = rows[t][1]
  BY Zenon
<1>8. r \in Nat /\ rows'[t][1] = r /\ k \in Nat /\ (tip' # tip => r < k)
  <2>1. r \in Ids /\ rows'[t][1] = r /\ (tip' # tip => r < k)
    BY Zenon, <1>1, <1>7
  <2> QED BY <2>1 DEF Ids
<1>9. Line(b) \subseteq Line(tip) /\ \A j \in Line(tip) \ Line(b) : j >= r
  BY Zenon, <1>2, <1>7 DEF BasedAt
<1>10. Line(tip)' = Line(tip) \/ (tip' # tip /\ Line(tip)' = Line(tip) \cup {k})
  BY Zenon, AdvanceFacts
<1>11. k >= r \/ tip' = tip
  BY <1>8
<1>12. Line(b) \subseteq Line(tip)' /\ \A j \in Line(tip)' \ Line(b) : j >= r
  BY Zenon, <1>9, <1>10, <1>11
<1> QED BY Zenon, <1>2, <1>5, <1>6, <1>8, <1>12 DEF BasedAt

\* Its tip, in the same steps: a new commit that is not the task's is left out.
LEMMA KeptStep ==
  ASSUME Shape, Grown, Shape', Ledger, Marks, tip \in Ids, NEW t \in Tasks, NEW k \in Ids',
         Advances(k), rows[t] # <<>>,
         rows'[t] = rows[t] \/ (Entered(t, k) /\ tip' = k),
         tip' # tip => \A i \in DOMAIN rows[t] : rows[t][i] < k, BasedAt(t), KeptAt(t),
         \A p \in Paths : NetAt(t, p)
  PROVE  KeptAt(t)'
<1> SUFFICES ASSUME NEW p \in Paths, p \notin LeftOut(t)'
             PROVE  NetChange(t, p)' = Tree(tip)'[p]
  BY Zenon DEF KeptAt
<1>1. PICK B : B = Line(squashBase(t))
  BY Zenon
<1>2. Line(squashBase(t))' = B /\ 1 \in B
  BY Zenon, <1>1, BasedStep
<1>3. /\ tip' = tip => Line(tip)' = Line(tip) /\ Tree(tip)' = Tree(tip)
      /\ tip' # tip => Line(tip)' = Line(tip) \cup {k} /\ k \notin Line(tip)
      /\ tip' # tip /\ p \notin DOMAIN Change(k)' => Tree(tip)'[p] = Tree(tip)[p]
  BY Zenon, AdvanceFacts
<1>4. /\ Recorded(t)' \subseteq Recorded(t) \cup {k}
      /\ rows'[t] = rows[t] => Recorded(t)' = Recorded(t)
  BY Zenon, RecordedIs
<1>5. \A j \in Line(tip)' \ B : j \in Recorded(t)' \/ j \in squashes' \/ p \notin DOMAIN Change(j)'
  BY Zenon, <1>2 DEF LeftOut
<1>6. CASE rows'[t] # rows[t] /\ p \in DOMAIN Change(k)'
  <2>1. Entered(t, k) /\ tip' = k
    BY Zenon, <1>6
  <2>2. NetChange(t, p)' = Tree(k)'[p]
    BY Zenon, <1>6, <2>1, NetIs
  <2>3. Tree(tip)' = Tree(k)'
    BY Zenon, <2>1 DEF Tree
  <2> QED BY Zenon, <2>2, <2>3
<1>7. CASE rows'[t] = rows[t] \/ p \notin DOMAIN Change(k)'
  <2>1. NetChange(t, p)' = NetChange(t, p)
    <3>1. CASE rows'[t] = rows[t]
      BY Zenon, <3>1, NetStill
    <3>2. CASE rows'[t] # rows[t]
      BY Zenon, <1>7, <3>2, NetIs
    <3> QED BY Zenon, <3>1, <3>2
  <2>2. p \notin LeftOut(t)
    <3> SUFFICES ASSUME NEW j \in Line(tip) \ B, j \notin Recorded(t) \cup squashes,
                        p \in DOMAIN Change(j)
                 PROVE  FALSE
      BY Zenon, <1>1 DEF LeftOut
    <3>1. j \in Ids /\ j # 1
      <4>1. Line(tip) \subseteq Ids
        BY DEF Shape, Ids
      <4> QED BY Zenon, <1>2, <4>1
    <3>2. Change(j)' = Change(j)
      BY Zenon, <3>1, OldCommits DEF Same
    <3>3. j \notin squashes'
      BY Zenon, <3>1 DEF Marks
    <3>4. j \in Line(tip)' \ B
      BY Zenon, <1>3
    <3>5. j \in Recorded(t)'
      BY Zenon, <1>5, <3>2, <3>3, <3>4
    <3>6. j = k /\ rows'[t] # rows[t]
      BY Zenon, <1>4, <3>5
    <3>7. p \notin DOMAIN Change(j)'
      BY Zenon, <1>7, <3>6
    <3> QED BY Zenon, <3>2, <3>7
  <2>3. NetChange(t, p) = Tree(tip)[p]
    BY Zenon, <2>2 DEF KeptAt
  <2>4. Tree(tip)'[p] = Tree(tip)[p]
    <3>1. CASE tip' = tip
      BY Zenon, <1>3, <3>1
    <3>2. CASE tip' # tip
      <4>1. p \notin DOMAIN Change(k)'
        <5> SUFFICES ASSUME p \in DOMAIN Change(k)' PROVE FALSE
          BY Zenon
        <5>1. k \notin Ids /\ k \notin squashes' /\ rows'[t] = rows[t]
          BY Zenon, <1>7, <3>2 DEF Advances
        <5>2. k \in Line(tip)' \ B
          <6>1. B \subseteq Ids
            BY Zenon, <1>1, BasedStep
          <6> QED BY Zenon, <1>3, <3>2, <5>1, <6>1
        <5>3. k \in Recorded(t)
          BY Zenon, <1>4, <1>5, <5>1, <5>2
        <5>4. Recorded(t) \subseteq Ids
          BY Zenon, RowFacts DEF Recorded, Range
        <5> QED BY Zenon, <5>1, <5>3, <5>4
      <4> QED BY Zenon, <1>3, <3>2, <4>1
    <3> QED BY Zenon, <3>1, <3>2
  <2> QED BY Zenon, <2>1, <2>3, <2>4
<1> QED BY Zenon, <1>6, <1>7

\* The first row of a task is for the commit the branch is at: the base is its
\* parent.
LEMMA FirstStep ==
  ASSUME Shape, Grown, Shape', Ledger, Marks, NEW t \in Tasks, NEW k \in Ids', k # 1,
         rows[t] = <<>>, Entered(t, k), tip' = k
  PROVE  BasedAt(t)' /\ KeptAt(t)'
<1>1. rows'[t][1] = k
  <2>1. Len(rows[t]) + 1 = 1
    OBVIOUS
  <2> QED BY <2>1 DEF Entered
<1>2. PICK b : b = commits'[k].parent
  BY Zenon
<1>3. squashBase(t)' = b
  BY Zenon, <1>1, <1>2 DEF squashBase
<1>4. Line(k)' = Line(b)' \cup {k}
  <2>1. Line(k)' = Line(commits[k].parent)' \cup {k}
    BY Zenon DEF Shape
  <2>2. Line(commits[k].parent)' = Line(b)'
    BY Zenon, <1>2 DEF Line
  <2> QED BY Zenon, <2>1, <2>2
<1>5. /\ Line(tip)' = Line(k)' /\ Tree(tip)' = Tree(k)' /\ Line(squashBase(t))' = Line(b)'
      /\ Tree(squashBase(t))' = Tree(b)'
  BY Zenon, <1>3 DEF Line, Tree
<1>6. k >= k
  BY DEF Ids
<1>7. BasedAt(t)'
  BY Zenon, <1>1, <1>4, <1>5, <1>6 DEF BasedAt
<1>8. ASSUME NEW p \in Paths PROVE NetChange(t, p)' = Tree(tip)'[p]
  <2>1. CASE p \in DOMAIN Change(k)'
    BY Zenon, <1>5, <2>1, NetIs
  <2>2. CASE p \notin DOMAIN Change(k)'
    <3>1. NetChange(t, p)' = Tree(b)'[p]
      BY Zenon, <1>5, <2>2, NetIs
    <3>2. Tree(k)'[p] = Tree(b)'[p]
      <4>1. Change(k)' = [q \in Differ(Tree(b)', Tree(k)') |->
                            [old |-> Tree(b)'[q], new |-> Tree(k)'[q]]]
        BY <1>2 DEF Change, Tree
      <4>2. p \notin Differ(Tree(b)', Tree(k)')
        BY <2>2, <4>1
      <4> QED BY <4>2 DEF Differ
    <3> QED BY Zenon, <1>5, <3>1, <3>2
  <2> QED BY Zenon, <2>1, <2>2
<1> QED BY Zenon, <1>7, <1>8 DEF KeptAt

\* A step that advances the current branch, or leaves it, keeps Current, when a row
\* for the task checked out is one for the commit the branch is at.
LEMMA CurrentGrown ==
  ASSUME Shape, Grown, Shape', Ledger, Marks, Net, Current, tip \in Ids, NEW k \in Ids', k # 1,
         Advances(k), current' = current,
         \A t \in Tasks : t = current =>
           /\ rows'[t] = rows[t] \/ (Entered(t, k) /\ tip' = k)
           /\ tip' # tip => \A i \in DOMAIN rows[t] : rows[t][i] < k
  PROVE  Current'
<1> SUFFICES ASSUME NEW t \in Tasks, t = current, rows'[t] # <<>>
             PROVE  BasedAt(t)' /\ KeptAt(t)'
  BY Zenon DEF Current
<1>1. CASE rows[t] = <<>>
  <2>1. Entered(t, k) /\ tip' = k
    BY Zenon, <1>1
  <2> QED BY Zenon, <1>1, <2>1, FirstStep
<1>2. CASE rows[t] # <<>>
  <2>1. BasedAt(t) /\ KeptAt(t)
    BY Zenon, <1>2 DEF Current
  <2>2. \A p \in Paths : NetAt(t, p)
    BY Zenon DEF Net, NetAt
  <2>3. BasedAt(t)'
    BY Zenon, <1>2, <2>1, BasedStep
  <2>4. KeptAt(t)'
    BY Zenon, <1>2, <2>1, <2>2, KeptStep
  <2> QED BY Zenon, <2>3, <2>4
<1> QED BY Zenon, <1>1, <1>2

-----------------------------------------------------------------------------
(* Steps *)

\* What a set of file diffs holds.
LEMMA DiffFacts ==
  ASSUME NEW diffs \in DiffSets
  PROVE  /\ DOMAIN diffs \subseteq Paths
         /\ \A p \in DOMAIN diffs : diffs[p] \in Diff /\ diffs[p].old \in Entries
                                    /\ diffs[p].new \in Entries
<1>1. PICK S \in SUBSET Paths : diffs \in [S -> Diff]
  BY DEF DiffSets
<1> QED BY <1>1 DEF Diff

\* Writing file diffs leaves the other files alone.
LEMMA WrittenFacts ==
  ASSUME disk \in Trees, NEW diffs \in DiffSets
  PROVE  /\ Written(diffs) \in Trees
         /\ \A p \in Paths : Written(diffs)[p] = IF p \in DOMAIN diffs THEN diffs[p].new ELSE disk[p]
         /\ PartlyWritten(diffs) \subseteq Trees
         /\ \A d \in PartlyWritten(diffs), p \in Paths : d[p] = disk[p] \/ p \in DOMAIN diffs
<1>1. \A p \in Paths : (IF p \in DOMAIN diffs THEN diffs[p].new ELSE disk[p]) \in Entries
  BY DiffFacts DEF Trees
<1>2. Written(diffs) \in Trees
  BY <1>1 DEF Written, Trees
<1> QED BY Zenon, <1>2 DEF Written, PartlyWritten

\* The bound on commands cut short.
LEMMA CutFacts ==
  ASSUME cuts \in 0..MaxCuts, NEW got, NEW last, Cut(got, last)
  PROVE  cuts' \in 0..MaxCuts
BY BoundAssumption DEF Cut

\* With no journal pending, the journal vouches for no commit.
LEMMA OpenedFacts ==
  ASSUME Opened, Shape, tip \in Ids PROVE journal.commit = 0 /\ tip # journal.commit
BY DEF Opened, NoJournal, Ids, Shape

\* The current line and the ledger are extended at most, but for the squash of the
\* task checked out.
Extends ==
  /\ \A k \in Line(tip) \ Line(tip)' :
       \E t \in Tasks : t = current /\ branch'[t] # branch[t] /\ k >= rows[t][1]
  /\ rows' = rows \/ \E t \in Tasks, k \in Nat : Entered(t, k)

\* A step that changes files, marking those it changes as edited, and the staging
\* set (Edit, Add, restore).
LEMMA FilesStep ==
  ASSUME IInv, UNCHANGED <<commits, rows, current, tip, branch, journal, applied, squashes>>,
         disk' \in Trees, staged' \subseteq Paths, edited' \subseteq Paths, cuts' \in 0..MaxCuts,
         edited \subseteq edited',
         \A p \in Paths : disk'[p] = disk[p] \/ p \in edited'
  PROVE  IInv' /\ Extends
<1> USE DEF IInv
<1>1. Grown /\ RowsGrown
  BY DEF Grown, RowsGrown
<1>2. Shape' /\ Carried' /\ Ledger'
  BY Zenon, <1>1, ShapeGrown, CarriedGrown, LedgerGrown
<1>3. Marks /\ Line(tip)' = Line(tip) /\ Tree(tip)' = Tree(tip) /\ Ids' = Ids /\ 1 \in Ids
  BY DEF Marks, Ids, Line, Tree, Shape
<1>4. Net' /\ Current'
  <2>1. Net'
    BY ZenonT(60), <1>1, <1>3, NetGrown
  <2>2. ASSUME NEW u \in Tasks, u = current', rows'[u] # <<>>
        PROVE  BasedAt(u)' /\ KeptAt(u)'
    <3>1. BasedAt(u) /\ KeptAt(u)
      BY Zenon, <2>2 DEF Current
    <3>2. BasedAt(u)'
      BY Zenon, <3>1 DEF BasedAt, Line, squashBase
    <3>3. LeftOut(u)' = LeftOut(u)
      BY Zenon DEF LeftOut, Line, squashBase, Recorded, Change, Tree
    <3>4. \A p \in Paths : NetChange(u, p)' = NetChange(u, p)
      <4>1. \A p \in Paths : NetAt(u, p)
        BY Zenon DEF Net, NetAt
      <4> QED BY Zenon, <1>1, <1>3, <2>2, <4>1, NetStill
    <3>5. KeptAt(u)'
      BY Zenon, <1>3, <3>1, <3>3, <3>4 DEF KeptAt
    <3> QED BY Zenon, <3>2, <3>5
  <2>3. Current'
    BY Zenon, <2>2 DEF Current
  <2> QED BY Zenon, <2>1, <2>3
<1>5. Pending'
  BY SMT, Z3 DEF Pending, NoJournal, Bytes, Tree
<1>6. Reverts'
  BY Zenon DEF Reverts, Recorded, Ids, Line
<1>7. Files'
  BY DEF Files, Tree
<1>8. Others'
  BY DEF Others, Ids
<1>9. Extends
  BY Zenon, <1>3 DEF Extends
<1> QED BY Zenon, <1>2, <1>4, <1>5, <1>6, <1>7, <1>8, <1>9

\* Someone edits a file.
LEMMA EditStep == ASSUME IInv, Edit PROVE IInv' /\ Extends
<1>1. PICK p \in Paths, e \in Entries : disk' = [disk EXCEPT ![p] = e] /\ edited' = edited \cup {p}
  BY Zenon DEF Edit
<1>2. disk \in Trees /\ edited \subseteq Paths /\ staged \subseteq Paths /\ cuts \in 0..MaxCuts
  BY DEF IInv, Others
<1>3. disk' \in Trees /\ \A q \in Paths : disk'[q] = disk[q] \/ q \in edited'
  BY Zenon, <1>1, <1>2 DEF Trees
<1> QED BY <1>1, <1>2, <1>3, FilesStep DEF Edit

\* Staging and unstaging.
LEMMA StageStep ==
  ASSUME IInv, NEW p \in Paths, Add(p) \/ Unstage(p) PROVE IInv' /\ Extends
BY Zenon, FilesStep DEF Add, Unstage, IInv, Others

\* What takes the files to a commit is a set of file diffs.
LEMMA RestoreDiffsFacts ==
  ASSUME IInv, NEW k \in Ids PROVE RestoreDiffs(k) \in DiffSets
<1> DEFINE S == {q \in Paths : disk[q] # Tree(k)[q] /\ (Tree(k)[q] # Absent \/ Tree(tip)[q] # Absent)}
<1>1. \A p \in S : [old |-> disk[p], new |-> Tree(k)[p]] \in Diff
  BY Zenon, CommitFacts DEF IInv, Others, Trees, Diff
<1>2. RestoreDiffs(k) \in [S -> Diff]
  BY Zenon, <1>1 DEF RestoreDiffs
<1>3. S \in SUBSET Paths
  OBVIOUS
<1> QED BY Zenon, <1>2, <1>3 DEF DiffSets

\* Restores write files and stage them.
LEMMA RestoreStep ==
  ASSUME IInv, restoreCmd PROVE IInv' /\ Extends
<1>1. disk \in Trees /\ edited \subseteq Paths /\ staged \subseteq Paths /\ cuts \in 0..MaxCuts
  BY Zenon DEF IInv, Others
<1>2. ASSUME NEW k \in Ids, NEW force \in BOOLEAN, NEW got, RestoreAll(k, force, got)
      PROVE  IInv' /\ Extends
  <2>1. PICK diffs : diffs = RestoreDiffs(k)
    OBVIOUS
  <2>2. diffs \in DiffSets /\ DOMAIN diffs \subseteq Paths
    BY <2>1, RestoreDiffsFacts, DiffFacts
  <2>3. /\ disk' \in IF got = "writing" THEN PartlyWritten(diffs) ELSE {Written(diffs)}
        /\ staged' = IF got = "staged" THEN staged \cup DOMAIN diffs ELSE staged
        /\ edited' = edited \cup DOMAIN diffs
        /\ Cut(got, "staged")
        /\ UNCHANGED <<commits, rows, tip, branch, journal, applied, squashes, current>>
    BY Zenon, <1>2, <2>1 DEF RestoreAll
  <2>4. disk' \in Trees /\ \A p \in Paths : disk'[p] = disk[p] \/ p \in edited'
    BY Zenon, <1>1, <2>2, <2>3, WrittenFacts
  <2>5. cuts' \in 0..MaxCuts
    BY Zenon, <1>1, <2>3, CutFacts
  <2> QED BY Zenon, <1>1, <2>2, <2>3, <2>4, <2>5, FilesStep
<1>3. ASSUME NEW k \in Ids, NEW p \in Paths, RestoreFile(k, p)
      PROVE  IInv' /\ Extends
  <2>1. PICK e \in Contents : disk' = [disk EXCEPT ![p] = e]
    BY Zenon, <1>3 DEF RestoreFile
  <2>2. disk' \in Trees /\ edited' = edited \cup {p}
    BY <1>1, <1>3, <2>1 DEF RestoreFile, Trees, Entries
  <2>3. \A q \in Paths : disk'[q] = disk[q] \/ q \in edited'
    BY Zenon, <1>1, <2>1, <2>2 DEF Trees
  <2> QED BY Zenon, <1>1, <1>3, <2>2, <2>3, FilesStep DEF RestoreFile
<1>4. ASSUME NEW k \in Ids, NEW got,
             RestoreAll(k, DOMAIN RestoreDiffs(k) \cap DirtyPaths # {}, got)
      PROVE  IInv' /\ Extends
  BY Zenon, <1>2, <1>4
<1> QED BY Zenon, <1>3, <1>4, StageStep DEF restoreCmd

\* What a new commit k on m is to the rest, when the branch stays or moves to it.
NewCommit(m, tree, t, k) ==
  /\ Grown /\ Shape' /\ tip' \in Ids'
  /\ k \in Ids' /\ k # 1 /\ k \notin Ids /\ k \in Nat /\ Len(commits') = k
  /\ \A j \in Ids : Same(j)
  /\ Tree(k)' = tree /\ commits'[k].by = t /\ commits'[k].parent = m
  /\ tip' = tip => Line(tip)' = Line(tip) /\ Tree(tip)' = Tree(tip) /\ k \notin Line(tip)'
  /\ tip' = k => Line(tip)' = Line(m) \cup {k} /\ Tree(tip)' = tree
  /\ Line(tip) \subseteq Ids /\ Line(m) \subseteq Ids
  /\ \A u \in Tasks : \A i \in DOMAIN rows[u] : rows[u][i] < k

\* That is what a commit that was added is.
LEMMA AddedFacts ==
  ASSUME Shape, Ledger, tip \in Ids, NEW m \in Ids, NEW tree \in Trees, NEW t \in Tasks,
         Added(m, tree, t), NEW k, k = Len(commits) + 1, tip' = tip \/ tip' = k
  PROVE  NewCommit(m, tree, t, k)
<1>1. Grown
  BY DEF Grown
<1>2. Shape' /\ (\A j \in Ids : Same(j))
  BY Zenon, <1>1, ShapeGrown, OldCommits
<1>3. /\ Len(commits) \in Nat /\ Len(commits) >= 1 /\ k \in Nat /\ Len(commits') = k
      /\ k \in Ids' /\ k # 1 /\ k \notin Ids /\ \A j \in Ids : j \in Nat /\ j < k
  BY DEF Added, Shape, Ids
<1>4. /\ commits'[k].tree = tree /\ commits'[k].by = t /\ commits'[k].line = Line(m) \cup {k}
      /\ commits'[k].parent = m
  BY Zenon DEF Added
<1>5. (\A j \in Line(tip) : j \in Ids) /\ (\A j \in Line(m) : j \in Ids)
  BY DEF Shape, Ids
<1>6. ASSUME tip' = tip
      PROVE  Line(tip)' = Line(tip) /\ Tree(tip)' = Tree(tip) /\ k \notin Line(tip)'
  <2>1. commits'[tip] = commits[tip]
    BY Zenon, <1>2 DEF Same
  <2>2. Line(tip)' = Line(tip) /\ Tree(tip)' = Tree(tip)
    BY Zenon, <1>6, <2>1 DEF Line, Tree
  <2> QED BY Zenon, <1>3, <1>5, <2>2
<1>7. ASSUME tip' = k
      PROVE  Line(tip)' = Line(m) \cup {k} /\ Tree(tip)' = tree
  BY Zenon, <1>4, <1>7 DEF Line, Tree
<1>8. tip \in Ids'
  BY <1>2, <1>3 DEF Same
<1>9. tip' \in Ids'
  BY Zenon, <1>3, <1>8
<1>10. \A u \in Tasks : \A i \in DOMAIN rows[u] : rows[u][i] < k
  BY Zenon, <1>3, RowFacts
<1>11. Tree(k)' = tree
  BY <1>4 DEF Tree
<1> QED BY ZenonT(60), <1>1, <1>2, <1>3, <1>4, <1>5, <1>6, <1>7, <1>9, <1>10, <1>11 DEF NewCommit

\* What is on record stays on record, and a new row puts its commit on record.
LEMMA RecordedGrows ==
  ASSUME Ledger, NEW t \in Tasks, NEW k \in Nat, rows' = rows \/ Entered(t, k)
  PROVE  /\ \A u \in Tasks : Recorded(u) \subseteq Recorded(u)'
         /\ Entered(t, k) => k \in Recorded(t)'
<1>1. CASE Entered(t, k)
  <2>1. /\ rows'[t] \in Seq(Nat) /\ Len(rows'[t]) = Len(rows[t]) + 1
        /\ Len(rows[t]) \in Nat /\ DOMAIN rows[t] = 1..Len(rows[t])
    BY <1>1, RowFacts DEF Entered
  <2>2. /\ DOMAIN rows[t] \subseteq DOMAIN rows'[t] /\ Len(rows[t]) + 1 \in DOMAIN rows'[t]
    BY <2>1
  <2>3. ASSUME NEW u \in Tasks PROVE Recorded(u) \subseteq Recorded(u)'
    BY ZenonT(60), <1>1, <2>2 DEF Entered, Recorded, Range
  <2> QED BY Zenon, <1>1, <2>2, <2>3 DEF Entered, Recorded, Range
<1>2. CASE rows' = rows /\ ~Entered(t, k)
  BY <1>2 DEF Recorded
<1> QED BY Zenon, <1>1, <1>2

\* What was recorded of the reverts there were is still recorded.
LEMMA RevertsKept ==
  ASSUME Shape, Grown, Ledger, applied \subseteq Ids \ {1},
         NEW t \in Tasks, NEW k \in Nat, rows' = rows \/ Entered(t, k),
         NEW j \in applied
  PROVE  /\ j \in Ids' /\ j # 1 /\ commits'[j].by \in Tasks
         /\ j \in Recorded(commits[j].by) => j \in Recorded(commits[j].by)'
<1>1. j \in Ids /\ j # 1 /\ Same(j)
  BY Zenon, OldCommits
<1>2. commits[j].by \in Tasks /\ commits'[j].by = commits[j].by
  BY <1>1 DEF Shape, Same
<1>3. PICK u : u = commits[j].by
  BY Zenon
<1>4. Recorded(u) \subseteq Recorded(u)'
  BY Zenon, <1>2, <1>3, RecordedGrows
<1>5. Recorded(commits[j].by)' = Recorded(u)'
  BY <1>2, <1>3 DEF Recorded
<1> QED BY Zenon, <1>1, <1>2, <1>3, <1>4, <1>5 DEF Same

\* The task branches name commits that stay.
LEMMA BranchKept ==
  ASSUME Shape, Grown, branch \in [Tasks -> Ids \cup {0}]
  PROVE  branch \in [Tasks -> Ids' \cup {0}]
<1>1. \A j \in Ids : j \in Ids'
  BY Zenon, OldCommits DEF Same
<1> QED BY <1>1

\* A plain commit.
LEMMA CommitStep ==
  ASSUME IInv, NEW t \in Tasks, NEW got, CreateCommit(t, got) PROVE IInv' /\ Extends
<1> USE DEF IInv
<1>1. /\ Opened /\ Len(commits) < MaxCommits /\ Len(commits) \in Nat
      /\ disk \in Trees /\ staged \subseteq Paths /\ tip \in Ids /\ edited \subseteq Paths
      /\ Tree(tip) \in Trees /\ cuts \in 0..MaxCuts /\ squashes \subseteq Ids
      /\ UNCHANGED <<branch, disk, journal, applied, squashes, current>>
  <2>1. tip \in Ids /\ Tree(tip) \in Trees
    BY Zenon, CommitFacts DEF Others
  <2>2. Len(commits) \in Nat
    BY DEF Shape
  <2> QED BY Zenon, <2>1, <2>2 DEF CreateCommit, Others
<1>2. PICK all \in BOOLEAN, empty \in BOOLEAN :
        LET set  == IF all THEN staged \cup Differ(disk, Tree(tip)) ELSE staged
            tree == StagedTree(Tree(tip), disk, set)
            n    == Len(commits) + 1
        IN /\ tree = Tree(tip) => empty
           /\ commits' = Append(commits, Child(commits, tip, tree, t))
           /\ tip' = n
           /\ staged' = IF got = "advanced" THEN set ELSE {}
           /\ rows' = IF got = "indexed" THEN [rows EXCEPT ![t] = Append(@, n)] ELSE rows
           /\ edited' = edited \ set
  BY DEF CreateCommit
<1>3. PICK set : set = IF all THEN staged \cup Differ(disk, Tree(tip)) ELSE staged
  BY Zenon
<1>4. PICK tree : tree = StagedTree(Tree(tip), disk, set)
  OBVIOUS
<1>5. PICK k : k = Len(commits) + 1
  OBVIOUS
<1>6. PICK m : m = tip
  OBVIOUS
<1>7. /\ commits' = Append(commits, Child(commits, m, tree, t)) /\ tip' = k
      /\ staged' = (IF got = "advanced" THEN set ELSE {}) /\ edited' = edited \ set
      /\ rows' = IF got = "indexed" THEN [rows EXCEPT ![t] = Append(@, k)] ELSE rows
  BY Zenon, <1>2, <1>3, <1>4, <1>5, <1>6
<1>8. set \subseteq Paths /\ tree \in Trees /\ m \in Ids
      /\ \A p \in Paths : tree[p] = IF p \in set THEN disk[p] ELSE Tree(tip)[p]
  BY Zenon, <1>1, <1>3, <1>4, <1>6 DEF Differ, StagedTree, Trees
<1>9. Added(m, tree, t)
  BY Zenon, <1>7, <1>8, ChildAdded
<1>10. /\ Grown /\ Shape' /\ commits'[k].parent = tip
       /\ k \in Ids' /\ k # 1 /\ k \notin Ids /\ k \in Nat /\ Len(commits') = k
       /\ Line(tip)' = Line(tip) \cup {k} /\ Tree(tip)' = tree
       /\ \A u \in Tasks : \A i \in DOMAIN rows[u] : rows[u][i] < k
  <2>1. NewCommit(m, tree, t, k)
    BY Zenon, <1>1, <1>5, <1>6, <1>7, <1>8, <1>9, AddedFacts
  <2> QED BY Zenon, <1>6, <1>7, <2>1 DEF NewCommit
<1>11. rows' = rows \/ Entered(t, k)
  BY Zenon, <1>7, <1>10, RowEntered
<1>12. RowsGrown
  BY <1>10, <1>11 DEF RowsGrown
<1>13. Carried' /\ Ledger'
  BY Zenon, <1>10, <1>12, CarriedGrown, LedgerGrown
<1>14. Net' /\ Current'
  <2>1. Marks /\ k \notin squashes'
    BY Zenon, <1>1, <1>10 DEF Marks
  <2>2. Net'
    BY Zenon, <1>10, <1>11, <2>1, NetGrown
  <2>3. Advances(k) /\ \A u \in Tasks : rows'[u] = rows[u] \/ (Entered(u, k) /\ tip' = k)
    <3>1. Advances(k)
      BY Zenon, <1>7, <1>10, <2>1 DEF Advances
    <3>2. ASSUME NEW u \in Tasks PROVE rows'[u] = rows[u] \/ (Entered(u, k) /\ tip' = k)
      <4>1. CASE rows' = rows
        BY Zenon, <4>1
      <4>2. CASE Entered(t, k) /\ u = t
        BY Zenon, <1>7, <4>2
      <4>3. CASE Entered(t, k) /\ u # t
        BY Zenon, <4>3 DEF Entered
      <4> QED BY Zenon, <1>11, <4>1, <4>2, <4>3
    <3> QED BY Zenon, <3>1, <3>2
  <2>4. Current'
    BY Zenon, <1>1, <1>10, <2>1, <2>3, CurrentGrown
  <2> QED BY Zenon, <2>2, <2>4
<1>15. Pending'
  BY <1>1 DEF Pending, Opened, NoJournal
<1>16. Reverts'
  <2>1. \A j \in applied : /\ j \in Ids' /\ j # 1
                           /\ j \in Recorded(commits[j].by) => j \in Recorded(commits[j].by)'
    BY Zenon, <1>10, <1>11, RevertsKept DEF Reverts
  <2>2. \A j \in applied : j \in Line(tip)' => j \in Line(tip)
    BY Zenon, <1>10 DEF Reverts
  <2> QED BY Zenon, <1>1, <2>1, <2>2 DEF Reverts
<1>17. Files'
  <2>1. ASSUME NEW p \in Paths, Bytes(disk[p]) # Bytes(tree[p]) PROVE p \in edited'
    <3>1. p \notin set /\ Bytes(disk[p]) # Bytes(Tree(tip)[p])
      BY Zenon, <1>8, <2>1
    <3>2. p \in edited
      BY Zenon, <1>1, <3>1, OpenedFacts DEF Files
    <3> QED BY Zenon, <1>7, <3>1, <3>2
  <2> QED BY Zenon, <1>1, <1>10, <2>1 DEF Files, Bytes
<1>18. Others'
  <2>1. cuts' \in 0..MaxCuts
    BY <1>1, CutFacts DEF CreateCommit
  <2>2. branch' \in [Tasks -> Ids' \cup {0}]
    BY Zenon, <1>1, <1>10, BranchKept DEF Others
  <2>3. Len(commits') <= MaxCommits /\ tip' \in Ids'
    <3>1. Len(commits) \in Nat /\ Len(commits) < MaxCommits /\ Len(commits') = Len(commits) + 1
      BY Zenon, <1>1, <1>5, <1>10
    <3>2. Len(commits') <= MaxCommits
      BY <3>1, BoundAssumption
    <3> QED BY Zenon, <1>7, <1>10, <3>2
  <2>4. staged' \subseteq Paths /\ edited' \subseteq Paths
    BY ZenonT(60), <1>1, <1>7, <1>8
  <2>5. squashes' \subseteq Ids'
    BY Zenon, <1>1, <1>10, OldCommits DEF Same
  <2> QED BY Zenon, <1>1, <2>1, <2>2, <2>3, <2>4, <2>5 DEF Others
<1>19. Extends
  BY Zenon, <1>10, <1>11 DEF Extends
<1> QED BY Zenon, <1>10, <1>13, <1>14, <1>15, <1>16, <1>17, <1>18, <1>19
=============================================================================
