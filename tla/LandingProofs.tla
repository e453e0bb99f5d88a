---------------------------- MODULE LandingProofs ----------------------------
(***************************************************************************)
(* Theorems about landing the commits of a sandboxed task, for every number *)
(* of callers, commits, paths and crashes: the ledger and the branch can be *)
(* read back, rows come in the order of the history, and neither committed  *)
(* nor uncommitted work of the host is lost.                                *)
(***************************************************************************)
EXTENDS Landing, TLAPS

-----------------------------------------------------------------------------
(* Numbers and sequences. *)

\* Two numbers that bound each other are equal.
LEMMA MutualBounds ==
  ASSUME NEW x \in Int, NEW y \in Int, x \in 1..y, y \in 1..x PROVE x = y
OBVIOUS

\* The k-th place from a base is at or after whatever is not after the base.
LEMMA NotBehind ==
  ASSUME NEW x \in Int, NEW base \in Int, NEW k \in Int, 1 <= k, x <= base
  PROVE  x < base + k - 1 \/ x = base + k - 1
OBVIOUS

\* What is read from a sequence is one of its elements.
LEMMA ElementOfSeq ==
  ASSUME NEW S, NEW s \in Seq(S), NEW i \in 1..Len(s) PROVE s[i] \in S
OBVIOUS

\* A sequence with one more element.
LEMMA AppendProperties ==
  ASSUME NEW S, NEW s \in Seq(S), NEW x \in S
  PROVE  /\ Append(s, x) \in Seq(S) /\ Len(Append(s, x)) = Len(s) + 1
         /\ \A i \in 1..Len(s) : Append(s, x)[i] = s[i]
         /\ Append(s, x)[Len(s) + 1] = x
OBVIOUS

\* Two sequences in a row.
LEMMA ConcatProperties ==
  ASSUME NEW S, NEW s \in Seq(S), NEW t \in Seq(S)
  PROVE  /\ s \o t \in Seq(S) /\ Len(s \o t) = Len(s) + Len(t)
         /\ \A i \in 1..Len(s) + Len(t) : (s \o t)[i] = IF i <= Len(s) THEN s[i] ELSE t[i - Len(s)]
OBVIOUS

\* A function on 1..n is a sequence.
LEMMA FunctionIsSeq ==
  ASSUME NEW S, NEW n \in Nat, NEW f \in [1..n -> S] PROVE f \in Seq(S) /\ Len(f) = n
OBVIOUS

-----------------------------------------------------------------------------
(* Types. *)

CommitType == [parent : 0..MaxCommits, line : SUBSET (1..MaxCommits),
               tree : Trees, by : {"base", "host", "guest"}]

\* Trees are closed under staging and materialising.
LEMMA TreesMade ==
  ASSUME NEW t \in Trees, NEW u \in Trees, NEW d \in Trees, NEW set
  PROVE  /\ StagedTree(t, d, set) \in Trees
         /\ Materialized(t, u, d) \in Trees
         /\ PartlyMaterialized(t, u, d) \subseteq Trees
BY DEF Trees, StagedTree, Materialized, PartlyMaterialized

\* A child of a commit of the sequence is a commit, and what was there stays.
LEMMA ChildTyped ==
  ASSUME TypeOK, NEW k \in Ids, NEW t \in Trees, NEW by \in {"host", "guest"}, Len(commits) < MaxCommits,
         commits' = Append(commits, Child(commits, k, t, by))
  PROVE  /\ commits' \in Seq(CommitType) /\ Len(commits') = Len(commits) + 1
         /\ \A j \in Ids : commits'[j] = commits[j]
         /\ commits'[Len(commits) + 1].line = Line(k) \cup {Len(commits) + 1}
<1> USE BoundsAssumption
<1>1. commits \in Seq(CommitType) /\ Len(commits) \in Nat
  BY DEF TypeOK, CommitType
<1>2. commits[k] \in CommitType /\ k \in 0..MaxCommits
  BY <1>1 DEF Ids
<1>3. Child(commits, k, t, by) \in CommitType
  BY <1>1, <1>2 DEF Child, CommitType
<1>4. \A x \in CommitType : /\ Append(commits, x) \in Seq(CommitType)
                             /\ Len(Append(commits, x)) = Len(commits) + 1
                             /\ Append(commits, x)[Len(commits) + 1] = x
                             /\ \A j \in Ids : Append(commits, x)[j] = commits[j]
  BY <1>1, AppendProperties DEF Ids
<1>5. commits'[Len(commits) + 1] = Child(commits, k, t, by)
  BY <1>3, <1>4
<1>6. Child(commits, k, t, by).line = Line(k) \cup {Len(commits) + 1}
  BY DEF Child, Line
<1>7. commits' \in Seq(CommitType) /\ Len(commits') = Len(commits) + 1 /\ \A j \in Ids : commits'[j] = commits[j]
  BY Zenon, <1>3, <1>4
<1> QED
  BY Zenon, <1>5, <1>6, <1>7

\* A task branch starts at its fork base, with an empty ledger.
LEMMA TypeInit ==
  ASSUME Init PROVE TypeOK
<1> USE BoundsAssumption
<1>1. PICK t \in Trees :
        /\ commits = <<ForkBase(t)>> /\ objects = {1} /\ whole = {1}
        /\ rows = <<>> /\ tip = 1 /\ disk = t /\ staged = {} /\ guest = 0
        /\ cli = [stage |-> "idle", commit |-> 0]
        /\ land = [c \in Callers |-> Idle]
        /\ crashes = 0 /\ late = {}
  BY DEF Init
<1>2. ForkBase(t) \in CommitType
  BY DEF ForkBase, CommitType
<1>3. commits \in Seq(CommitType) /\ Len(commits) = 1
  BY <1>1, <1>2
<1>4. Idle \in Call
  BY DEF Idle, Call, Stages
<1>5. land \in [Callers -> Call]
  BY <1>1, <1>4
<1>6. cli \in [stage : {"idle", "clear", "index"}, commit : 0..MaxCommits]
  BY <1>1
<1>7. rows \in Seq(Row)
  BY <1>1
<1> QED
  BY <1>1, <1>3, <1>5, <1>6, <1>7 DEF TypeOK, CommitType, Ids

\* A call that moves to another stage, or on to a target, is a call.
LEMMA CallMoves ==
  ASSUME NEW call \in Call, NEW s \in Stages, NEW k \in 0..MaxCommits
  PROVE  /\ [call EXCEPT !.stage = s] \in Call /\ [call EXCEPT !.stage = s, !.target = k] \in Call
         /\ [call EXCEPT !.cur = k, !.stage = s] \in Call
BY Zenon DEF Call

\* Leaving and advancing keep the calls typed.
LEMMA LandMoves ==
  ASSUME TypeOK, NEW c \in Callers, NEW s \in Stages, Leave(c, s) \/ Advance(c, s)
  PROVE  land' \in [Callers -> Call]
<1>1. land \in [Callers -> Call] /\ [land[c] EXCEPT !.stage = s] \in Call
  BY Zenon, BoundsAssumption, CallMoves DEF TypeOK
<1>2. CASE Leave(c, s)
  BY <1>1, <1>2 DEF Leave
<1>3. CASE Advance(c, s)
  <2>1. land' = [land EXCEPT ![c] = [land[c] EXCEPT !.stage = s]]
    BY <1>3 DEF Advance
  <2> QED
    BY <1>1, <2>1
<1> QED
  BY <1>2, <1>3

\* The commits, one by one.
LEMMA CommitTyped ==
  ASSUME TypeOK, NEW k \in Ids
  PROVE  commits[k] \in CommitType /\ Tree(k) \in Trees /\ k \in 1..MaxCommits
<1>1. commits \in Seq(CommitType) /\ Len(commits) \in Nat /\ Len(commits) \leq MaxCommits
  BY DEF TypeOK, CommitType
<1>2. commits[k] \in CommitType /\ k \in 1..MaxCommits
  BY <1>1, BoundsAssumption DEF Ids
<1> QED
  BY <1>2 DEF CommitType, Tree

\* The guest and the host's own commands keep the types.
LEMMA CommandTypes ==
  ASSUME LedgerHolds, \/ Provision \/ GuestCommit \/ Teardown \/ Edit \/ Add \/ Unstage
                 \/ CreateCommit \/ ClearStaging \/ AddCommitToTask \/ CrashDaemon \/ CrashCommand
                 \/ UNCHANGED vars
  PROVE  TypeOK'
<1> USE BoundsAssumption
<1> TypeOK
  BY DEF LedgerHolds
<1>0. commits \in Seq(CommitType) /\ Len(commits) \in Nat /\ Len(commits) \leq MaxCommits
  BY DEF TypeOK, CommitType
<1>1. CASE Add \/ Unstage \/ UNCHANGED vars
  BY Zenon, <1>1 DEF TypeOK, Ids, Add, Unstage, vars
<1>8. CASE Provision \/ Teardown
  <2>1. guest' \in 0..Len(commits)
    BY <1>0, <1>8 DEF TypeOK, Ids, Provision, Teardown
  <2> QED
    BY Zenon, <1>8, <2>1 DEF TypeOK, Ids, Provision, Teardown
<1>7. CASE Edit
  <2>1. disk' \in Trees /\ late' \subseteq Paths
    BY <1>7 DEF Edit, TypeOK, Trees
  <2> QED
    BY <1>7, <2>1 DEF Edit, TypeOK, Ids
<1>2. CASE GuestCommit
  <2>1. PICK t \in Trees : commits' = Append(commits, Child(commits, guest, t, "guest"))
    BY <1>2 DEF GuestCommit
  <2>2. guest \in Ids
    BY <1>2 DEF GuestCommit, TypeOK, Ids
  <2>3. commits' \in Seq(CommitType) /\ Len(commits') = Len(commits) + 1
    BY <1>2, <2>1, <2>2, ChildTyped DEF GuestCommit
  <2>4. Len(commits) \in Nat /\ Len(commits) < MaxCommits
    BY <1>0, <1>2 DEF GuestCommit, TypeOK
  <2>5. Ids \subseteq Ids' /\ guest' \in 0..Len(commits') /\ Len(commits') \leq MaxCommits
    BY <1>2, <2>3, <2>4 DEF GuestCommit, Ids
  <2> QED
    BY Zenon, <1>2, <2>3, <2>5 DEF GuestCommit, TypeOK, CommitType
<1>3. CASE CreateCommit
  <2> DEFINE k == Len(commits) + 1
  <2>1. PICK set \in SUBSET Paths :
          /\ commits' = Append(commits, Child(commits, tip, StagedTree(Tree(tip), disk, set), "host"))
          /\ staged' = set
    BY Zenon, <1>3 DEF CreateCommit, TypeOK, Differ
  <2>2. tip \in Ids /\ Tree(tip) \in Trees
    BY CommitTyped DEF TypeOK
  <2>3. StagedTree(Tree(tip), disk, set) \in Trees
    BY Zenon, <2>2, TreesMade DEF TypeOK
  <2>4. commits' \in Seq(CommitType) /\ Len(commits') = k
    BY Zenon, <1>3, <2>1, <2>2, <2>3, ChildTyped DEF CreateCommit
  <2>5. k \in 0..MaxCommits
    BY <1>0, <1>3 DEF CreateCommit
  <2>6. cli' \in [stage : {"idle", "clear", "index"}, commit : 0..MaxCommits]
    BY <1>3, <2>5 DEF CreateCommit
  <2>7. Ids' = 1..k /\ Ids \subseteq Ids' /\ k \in Ids'
    BY <1>0, <2>4 DEF Ids
  <2>8. objects' \subseteq Ids' /\ whole' \subseteq objects' /\ tip' \in Ids'
    BY Zenon, <1>3, <2>7 DEF CreateCommit, TypeOK
  <2>9. guest' \in 0..Len(commits') /\ Len(commits') \leq MaxCommits
    BY <1>0, <1>3, <2>4, <2>5 DEF CreateCommit, TypeOK
  <2>10. UNCHANGED <<rows, disk, land, crashes, late>>
    BY <1>3 DEF CreateCommit
  <2> QED
    BY <2>1, <2>4, <2>6, <2>8, <2>9, <2>10 DEF TypeOK, CommitType
<1>4. CASE ClearStaging \/ CrashCommand
  BY SMT, Z3, <1>4 DEF ClearStaging, CrashCommand, TypeOK, Ids
<1>5. CASE AddCommitToTask
  <2> DEFINE row == [commit |-> cli.commit, pos |-> Len(rows), origin |-> "host", state |-> "delivered"]
  <2>1. cli.commit \in 1..MaxCommits
    <3>1. cli.commit \in Line(tip) /\ tip \in Ids
      BY <1>5 DEF AddCommitToTask, LedgerHolds, StoreClosed, TypeOK
    <3> QED
      BY <3>1, CommitTyped DEF CommitType, Line
  <2>2. row \in Row
    BY <2>1 DEF Row, TypeOK
  <2>3. rows' \in Seq(Row)
    BY <1>5, <2>2 DEF AddCommitToTask, TypeOK
  <2>4. cli' \in [stage : {"idle", "clear", "index"}, commit : 0..MaxCommits]
    BY <1>5 DEF AddCommitToTask
  <2> QED
    BY <1>5, <2>3, <2>4 DEF AddCommitToTask, TypeOK, Ids
<1>6. CASE CrashDaemon
  <2>1. Idle \in Call
    BY DEF Idle, Call, Stages
  <2> QED
    BY <1>6, <2>1 DEF CrashDaemon, TypeOK, Ids
<1> QED
  BY <1>1, <1>2, <1>3, <1>4, <1>5, <1>6, <1>7, <1>8


\* What a flight pulled and batched, in one place.
LEMMA FlightFacts ==
  ASSUME LedgerHolds, NEW c \in Callers, land[c].stage \in FlightStages
  PROVE  /\ land[c] \in Call /\ land[c].head \in Ids /\ Line(land[c].head) \subseteq Ids
         /\ land[c].chain \in Seq(1..MaxCommits)
         /\ \A i \in 1..Len(land[c].chain) : land[c].chain[i] \in Line(land[c].head)
<1>1. land[c] \in Call
  BY DEF LedgerHolds, TypeOK
<1>2. land[c].chain \in Seq(1..MaxCommits)
  BY <1>1 DEF Call
<1>3. land[c].head \in Ids /\ \A i \in 1..Len(land[c].chain) : land[c].chain[i] \in Line(land[c].head)
  BY DEF LedgerHolds, FlightAlone
<1>4. Line(land[c].head) \subseteq 1..land[c].head /\ Len(commits) \in Nat
  BY <1>3 DEF LedgerHolds, LinesClosed, TypeOK
<1>5. Line(land[c].head) \subseteq Ids
  BY <1>3, <1>4 DEF Ids
<1> QED
  BY <1>1, <1>2, <1>3, <1>5

\* What a land that is about to write found.
LEMMA WriteFacts ==
  ASSUME LedgerHolds, NEW c \in Callers, land[c].stage \in WriteStages
  PROVE  /\ land[c].target \in whole /\ land[c].target \in Ids
         /\ land[c].cur \in Line(land[c].target) /\ land[c].cur \in whole /\ land[c].cur \in Ids
BY Zenon DEF LedgerHolds, Judged, StoreClosed, TypeOK

\* The rows that the batch of c adds.
Batch(c) == [i \in 1..Len(land[c].chain) |->
               [commit |-> land[c].chain[i], pos |-> land[c].basePos + i - 1,
                origin |-> "land", state |-> "pending"]]

\* The rows of a batch.
LEMMA BatchTyped ==
  ASSUME TypeOK, NEW c \in Callers
  PROVE  Batch(c) \in Seq(Row) /\ Len(Batch(c)) = Len(land[c].chain)
<1>1. land[c].chain \in Seq(1..MaxCommits) /\ land[c].basePos \in Nat /\ Len(land[c].chain) \in Nat
  BY DEF TypeOK, Call
<1>2. \A i \in 1..Len(land[c].chain) : land[c].basePos + i - 1 \in Nat
  BY <1>1
<1>4. \A i \in 1..Len(land[c].chain) : land[c].chain[i] \in 1..MaxCommits
  BY Zenon, <1>1, ElementOfSeq
<1>3. \A i \in 1..Len(land[c].chain) :
         [commit |-> land[c].chain[i], pos |-> land[c].basePos + i - 1,
          origin |-> "land", state |-> "pending"] \in Row
  BY Zenon, <1>2, <1>4 DEF Row
<1>5. Batch(c) \in [1..Len(land[c].chain) -> Row]
  BY <1>3 DEF Batch
<1> QED
  BY <1>1, <1>5, FunctionIsSeq

\* The rows once some are marked.
LEMMA DeliveredTyped ==
  ASSUME TypeOK, NEW target
  PROVE  Delivered(target) \in Seq(Row) /\ Len(Delivered(target)) = Len(rows)
<1>1. rows \in Seq(Row) /\ Len(rows) \in Nat
  BY DEF TypeOK
<1>2. \A r \in 1..Len(rows) : rows[r] \in Row
  BY <1>1
<1>3. \A x \in Row : [x EXCEPT !.state = "delivered"] \in Row
  BY DEF Row
<1>4. Delivered(target) \in [1..Len(rows) -> Row]
  BY <1>2, <1>3 DEF Delivered
<1> QED
  BY <1>1, <1>4, FunctionIsSeq

\* A derived land carries a batch of commits.
LEMMA DerivedTyped ==
  ASSUME TypeOK, NEW c \in Callers, Derive(c)
  PROVE  land' \in [Callers -> Call]
<1> USE BoundsAssumption
<1> DEFINE new == NewCommits(guest)
<1>1. guest \in Ids /\ Line(guest) \subseteq 1..MaxCommits /\ guest \in 0..MaxCommits /\ Len(rows) \in Nat
  <2>1. guest \in Ids /\ Len(rows) \in Nat
    BY DEF Derive, TypeOK, Ids
  <2> QED
    BY <2>1, CommitTyped DEF CommitType, Line
<1>2. new \subseteq 1..MaxCommits
  BY <1>1 DEF NewCommits
<1>3. ASSUME NEW st \in Stages PROVE Derived(st, <<>>, 0) \in Call
  BY <1>1 DEF Derived, Call
<1>4. ASSUME NEW chain \in ParentFirst(new)
      PROVE  Derived("persist", chain, chain[Len(chain)]) \in Call
  <2>1. PICK n \in 1..MaxCommits : chain \in [1..n -> new]
    BY DEF ParentFirst
  <2>2. chain \in Seq(1..MaxCommits) /\ Len(chain) = n
    BY <1>2, <2>1
  <2>3. chain[Len(chain)] \in 0..MaxCommits
    BY <1>2, <2>1, <2>2
  <2> QED
    BY <1>1, <2>2, <2>3 DEF Derived, Call, Stages, FlightStages
<1>5. {"check", "failed"} \subseteq Stages
  BY DEF Stages
<1> QED
  BY ZenonT(60), <1>3, <1>4, <1>5 DEF Derive, TypeOK

\* Every step of a land keeps the types.
LEMMA LandTypes ==
  ASSUME LedgerHolds, NEW c \in Callers, Join(c) \/ Derive(c) \/ LandStep(c)
  PROVE  TypeOK'
<1> USE BoundsAssumption
<1> TypeOK
  BY DEF LedgerHolds
<1>1. {"joined", "failed", "append", "publish", "write", "read_back", "confirm", "check", "landed",
       "recheck", "rewrite"} \subseteq Stages
  BY DEF Stages, FlightStages, LockedStages
<1>2. CASE Join(c)
  <2>1. land' \in [Callers -> Call]
    BY <1>1, <1>2, LandMoves DEF Join
  <2> QED
    BY <1>2, <2>1 DEF Join, TypeOK, Ids
<1>3. CASE Derive(c)
  BY Zenon, <1>3, DerivedTyped DEF Derive, TypeOK, Ids
<1>4. CASE ImportObjects(c)
  <2>1. Line(land[c].head) \subseteq Ids
    BY <1>4, FlightFacts DEF ImportObjects, FlightStages
  <2>2. land' \in [Callers -> Call]
    BY <1>1, <1>4, LandMoves DEF ImportObjects
  <2>3. objects' \subseteq Ids /\ whole' \subseteq objects'
    BY <1>4, <2>1 DEF ImportObjects, TypeOK
  <2> QED
    BY <1>4, <2>2, <2>3 DEF ImportObjects, TypeOK, Ids
<1>5. CASE AppendTaskCommits(c)
  <2>1. land' \in [Callers -> Call]
    BY <1>1, <1>5, LandMoves DEF AppendTaskCommits
  <2>2. rows' = rows \/ rows' = rows \o Batch(c)
    BY Zenon, <1>5 DEF AppendTaskCommits, Batch
  <2>3. rows' \in Seq(Row)
    <3>1. rows \in Seq(Row) /\ Batch(c) \in Seq(Row)
      BY BatchTyped DEF TypeOK
    <3>2. rows \o Batch(c) \in Seq(Row)
      BY <3>1, ConcatProperties
    <3> QED
      BY Zenon, <2>2, <3>1, <3>2
  <2> QED
    BY Zenon, <1>5, <2>1, <2>3 DEF AppendTaskCommits, TypeOK, Ids
<1>6. CASE FastForward(c)
  <2> DEFINE st == IF land[c].stage = "publish" THEN "write" ELSE "rewrite"
  <2>1. land' \in [Callers -> Call]
    <3>1. CASE Leave(c, "failed")
      BY <1>1, <3>1, LandMoves
    <3>2. CASE land' = [land EXCEPT ![c].cur = tip, ![c].stage = st]
      <4>1. tip \in 0..MaxCommits /\ st \in Stages /\ land \in [Callers -> Call]
        BY <1>1, CommitTyped DEF TypeOK
      <4>2. [land[c] EXCEPT !.cur = tip, !.stage = st] \in Call
        BY Zenon, <4>1, CallMoves
      <4>3. land' = [land EXCEPT ![c] = [land[c] EXCEPT !.cur = tip, !.stage = st]]
        BY Zenon, <3>2
      <4> QED
        BY <4>1, <4>2, <4>3
    <3> QED
      BY Zenon, <1>6, <3>1, <3>2 DEF FastForward
  <2>2. late' \subseteq Paths
    BY <1>6 DEF FastForward, TypeOK
  <2> QED
    BY <1>6, <2>1, <2>2 DEF FastForward, TypeOK, Ids
<1>11. CASE materializeCommit(c)
  <2> DEFINE target == land[c].target
             cur    == land[c].cur
  <2>1. land' \in [Callers -> Call]
    BY <1>1, <1>11, LandMoves DEF materializeCommit
  <2>2. target \in Ids /\ cur \in Ids /\ tip \in Ids
    BY <1>11, WriteFacts DEF materializeCommit, LedgerHolds, TypeOK
  <2>3. Tree(target) \in Trees /\ Tree(cur) \in Trees /\ disk \in Trees
    BY <2>2, CommitTyped DEF TypeOK
  <2>4. disk' \in Trees
    BY Zenon, <1>11, <2>3, TreesMade DEF materializeCommit
  <2>5. tip' \in Ids /\ late' = {}
    BY <1>11, <2>2 DEF materializeCommit
  <2> QED
    BY <1>11, <2>1, <2>4, <2>5 DEF materializeCommit, TypeOK, Ids
<1>7. CASE RecordDelivered(c)
  <2>1. land' \in [Callers -> Call]
    BY <1>1, <1>7, LandMoves DEF RecordDelivered
  <2>2. rows' \in Seq(Row)
    BY <1>7, DeliveredTyped DEF RecordDelivered, TypeOK
  <2> QED
    BY <1>7, <2>1, <2>2 DEF RecordDelivered, TypeOK, Ids
<1>8. CASE Check(c)
  <2>1. land' \in [Callers -> Call]
    <3>1. CASE Advance(c, "failed") \/ Advance(c, "landed")
      BY <1>1, <3>1, LandMoves
    <3>2. ASSUME NEW r \in 1..Len(rows),
                 land' = [land EXCEPT ![c].stage = "recheck",
                                      ![c].target = IF rows[r].commit \in Line(tip) THEN tip ELSE rows[r].commit]
          PROVE  land' \in [Callers -> Call]
      <4> DEFINE k == IF rows[r].commit \in Line(tip) THEN tip ELSE rows[r].commit
      <4>1. rows[r] \in Row
        BY ElementOfSeq DEF TypeOK
      <4>2. tip \in 0..MaxCommits
        BY CommitTyped DEF TypeOK
      <4>3. k \in 0..MaxCommits
        BY <4>1, <4>2 DEF Row
      <4>4. land \in [Callers -> Call]
        BY DEF TypeOK
      <4>5. [land[c] EXCEPT !.stage = "recheck", !.target = k] \in Call
        BY Zenon, <1>1, <4>3, <4>4, CallMoves
      <4>6. land' = [land EXCEPT ![c] = [land[c] EXCEPT !.stage = "recheck", !.target = k]]
        BY Zenon, <3>2
      <4> QED
        BY <4>4, <4>5, <4>6
    <3> QED
      BY <1>8, <3>1, <3>2 DEF Check
  <2> QED
    BY Zenon, <1>8, <2>1 DEF Check, TypeOK, Ids
<1>9. CASE LockTimeout(c)
  <2>1. land' \in [Callers -> Call]
    BY <1>1, <1>9, LandMoves DEF LockTimeout
  <2> QED
    BY <1>9, <2>1 DEF LockTimeout, TypeOK, Ids
<1>10. CASE Answered(c)
  <2>1. Idle \in Call
    BY DEF Idle, Call, Stages
  <2> QED
    BY <1>10, <2>1 DEF Answered, TypeOK, Ids
<1> QED
  BY <1>2, <1>3, <1>4, <1>5, <1>6, <1>7, <1>8, <1>9, <1>10, <1>11 DEF LandStep

-----------------------------------------------------------------------------
(* Commits, and steps that touch neither the store nor the ledger. *)

\* The commits there are keep their histories.
LinesKept == Len(commits) \leq Len(commits') /\ \A k \in Ids : commits'[k].line = Line(k)

\* A child's line is its parent's and itself.
LEMMA ChildLines ==
  ASSUME LedgerHolds, NEW k \in Ids, NEW t \in Trees, NEW by \in {"host", "guest"}, Len(commits) < MaxCommits,
         commits' = Append(commits, Child(commits, k, t, by))
  PROVE  LinesKept /\ LinesClosed'
<1> DEFINE n == Len(commits) + 1
<1>1. /\ Len(commits') = n /\ Len(commits) \in Nat
      /\ \A j \in Ids : commits'[j] = commits[j]
      /\ commits'[n].line = Line(k) \cup {n}
  <2>1. TypeOK /\ Len(commits) \in Nat
    BY DEF LedgerHolds, TypeOK
  <2> QED
    BY Zenon, <2>1, ChildTyped
<1>2. Ids' = Ids \cup {n} /\ n \notin Ids
  BY <1>1 DEF Ids
<1>3. \A j \in Ids : commits'[j].line = Line(j) /\ Line(j) \subseteq 1..j /\ j \in Line(j) /\ Line(j) \subseteq Ids
                     /\ \A i \in Line(j) : Line(i) \subseteq Line(j)
  BY <1>1 DEF Line, LedgerHolds, LinesClosed, Ids
<1>4. LinesKept
  <2>1. Len(commits) \leq Len(commits')
    BY <1>1
  <2> QED
    BY Zenon, <1>3, <2>1 DEF LinesKept
<1>5. ASSUME NEW j \in Ids'
      PROVE  j \in Line(j)' /\ Line(j)' \subseteq 1..j /\ \A i \in Line(j)' : Line(i)' \subseteq Line(j)'
  <2>1. CASE j \in Ids
    BY Zenon, <1>3, <2>1 DEF Line
  <2>2. CASE j = n
    <3>1. commits'[n].line = Line(k) \cup {n} /\ Line(k) \subseteq Ids
      BY <1>1, <1>3
    <3>2. commits'[n].line \subseteq 1..n
      BY <1>1, <3>1 DEF Ids
    <3>3. ASSUME NEW i \in Line(k) PROVE commits'[i].line \subseteq Line(k)
      <4>1. i \in Ids /\ Line(i) \subseteq Line(k)
        BY Zenon, <1>3, <3>1
      <4> QED
        BY Zenon, <1>3, <4>1
    <3> QED
      BY <2>2, <3>1, <3>2, <3>3 DEF Line
  <2> QED
    BY <1>2, <2>1, <2>2
<1> QED
  BY <1>4, <1>5 DEF LinesClosed

\* A call keeps its place, gives its flight up, or goes on behind the append.
Retreats ==
  \A c \in Callers :
    \/ land'[c] = land[c]
    \/ land'[c].stage \notin FlightStages
    \/ /\ land[c].stage \in FlightStages /\ land'[c].stage \in {"publish", "write", "read_back"}
       /\ land'[c].head = land[c].head /\ land'[c].chain = land[c].chain

\* A command goes on or ends.
CommandQuiet == cli'.stage # "idle" => cli.stage # "idle" /\ cli'.commit = cli.commit

\* Flights that retreat stay alone.
LEMMA FlightKept ==
  ASSUME LedgerHolds, LinesKept, LinesClosed', whole \subseteq whole', CommandQuiet, Retreats
  PROVE  FlightAlone'
<1> SUFFICES ASSUME NEW c \in Callers, land'[c].stage \in FlightStages
             PROVE  /\ \A d \in Callers : land'[d].stage \in FlightStages => d = c
                    /\ land'[c].head \in Ids'
                    /\ \A i \in 1..Len(land'[c].chain) :
                         /\ land'[c].chain[i] \in commits'[land'[c].head].line
                         /\ \A j \in 1..Len(land'[c].chain) :
                              i < j => land'[c].chain[i] \in commits'[land'[c].chain[j]].line \ {land'[c].chain[j]}
                    /\ land'[c].stage = "append" => commits'[land'[c].head].line \subseteq whole' /\ cli'.stage = "idle"
  BY DEF FlightAlone, Line
<1>1. \A d \in Callers : land'[d].stage \in FlightStages => land[d].stage \in FlightStages
  BY DEF Retreats
<1>2. land'[c].head = land[c].head /\ land'[c].chain = land[c].chain
      /\ (land'[c].stage = "append" => land[c].stage = "append")
  BY DEF Retreats
<1>3. land[c].stage \in FlightStages /\ land[c].head \in Ids /\ Line(land[c].head) \subseteq Ids
  BY <1>1, FlightFacts
<1>4. commits'[land[c].head].line = Line(land[c].head)
  BY <1>3 DEF LinesKept
<1>5. \A i \in 1..Len(land[c].chain) : commits'[land[c].chain[i]].line = Line(land[c].chain[i])
  BY <1>3, FlightFacts DEF LinesKept
<1>6. land[c].head \in Ids'
  BY <1>3 DEF Ids, LinesKept, LedgerHolds, TypeOK
<1>7. /\ \A d \in Callers : land[d].stage \in FlightStages => d = c
      /\ \A i \in 1..Len(land[c].chain) :
           /\ land[c].chain[i] \in Line(land[c].head)
           /\ \A j \in 1..Len(land[c].chain) :
                i < j => land[c].chain[i] \in Line(land[c].chain[j]) \ {land[c].chain[j]}
      /\ land[c].stage = "append" => Line(land[c].head) \subseteq whole /\ cli.stage = "idle"
  BY <1>3 DEF LedgerHolds, FlightAlone
<1>8. land[c].stage = "append" => Line(land[c].head) \subseteq whole' /\ cli'.stage = "idle"
  BY <1>7 DEF CommandQuiet
<1> QED
  BY ZenonT(60), <1>1, <1>2, <1>4, <1>5, <1>6, <1>7, <1>8

\* The histories of what the store, the branch and the ledger name do not change.
LEMMA NamedLines ==
  ASSUME LedgerHolds, LinesKept
  PROVE  /\ \A k \in whole : k \in Ids /\ commits'[k].line = Line(k)
         /\ commits'[tip].line = Line(tip)
         /\ \A r \in 1..Len(rows) : rows[r].commit \in Ids /\ commits'[rows[r].commit].line = Line(rows[r].commit)
         /\ \A c \in Callers : land[c].stage \in FlightStages => commits'[land[c].head].line = Line(land[c].head)
BY Zenon DEF LedgerHolds, LinesKept, TypeOK, StoreClosed, FlightAlone

\* Batches stay fresh when neither the store nor the ledger changes.
LEMMA BatchKept ==
  ASSUME LedgerHolds, LinesKept, UNCHANGED <<objects, rows>>, CommandQuiet, Retreats
  PROVE  BatchFresh'
<1>1. /\ \A r \in 1..Len(rows) : rows[r].commit \in Ids /\ commits'[rows[r].commit].line = Line(rows[r].commit)
      /\ \A c \in Callers : land[c].stage \in FlightStages => commits'[land[c].head].line = Line(land[c].head)
  BY NamedLines
<1>2. \A r \in 1..Len(rows) : rows[r].pos < r /\ (cli'.stage # "idle" => rows[r].commit < cli'.commit)
  BY DEF LedgerHolds, BatchFresh, CommandQuiet
<1>3. ASSUME NEW c \in Callers, land'[c].stage \in {"persist", "append"}
      PROVE  land'[c] = land[c] /\ land[c].stage \in {"persist", "append"} /\ land[c].stage \in FlightStages
  BY <1>3 DEF Retreats, FlightStages
<1>4. ASSUME NEW c \in Callers, land'[c].stage \in {"persist", "append"}
      PROVE  /\ land[c].basePos <= Len(rows)
             /\ (cli.stage # "idle" /\ cli.commit \in Line(land[c].head)) => land[c].basePos = Len(rows)
             /\ \A r \in 1..Len(rows) :
                  land[c].basePos < r /\ rows[r].commit \in Line(land[c].head) => rows[r].pos = land[c].basePos
             /\ \A i \in 1..Len(land[c].chain) :
                  /\ \A r \in 1..Len(rows) : land[c].chain[i] \notin Line(rows[r].commit)
                  /\ land[c].stage = "persist" => land[c].chain[i] \notin objects
  BY Zenon, <1>3, <1>4 DEF LedgerHolds, BatchFresh
<1>5. ASSUME NEW c \in Callers, land'[c].stage \in {"persist", "append"}
      PROVE  /\ land'[c] = land[c] /\ commits'[land[c].head].line = Line(land[c].head)
             /\ (cli'.stage # "idle" /\ cli'.commit \in Line(land[c].head)) => land[c].basePos = Len(rows)
  BY <1>1, <1>3, <1>4, <1>5 DEF CommandQuiet
<1> QED
  BY <1>1, <1>2, <1>4, <1>5 DEF BatchFresh, Line

\* What LedgerHolds says of the store, the ledger and the flights.
Settled == DeliveredOnBranch /\ LinesClosed /\ StoreClosed /\ FlightAlone /\ BatchFresh /\ RowsOrdered

\* A step that changes neither the store, the ledger nor the branch keeps it.
LEMMA QuietStep ==
  ASSUME LedgerHolds, LinesKept, LinesClosed', UNCHANGED <<objects, whole, rows, tip>>, CommandQuiet, Retreats
  PROVE  Settled'
<1>1. /\ \A k \in whole : k \in Ids /\ commits'[k].line = Line(k)
      /\ commits'[tip].line = Line(tip)
      /\ \A r \in 1..Len(rows) : rows[r].commit \in Ids /\ commits'[rows[r].commit].line = Line(rows[r].commit)
      /\ \A c \in Callers : land[c].stage \in FlightStages => commits'[land[c].head].line = Line(land[c].head)
  BY NamedLines
<1>2. DeliveredOnBranch'
  BY <1>1 DEF LedgerHolds, DeliveredOnBranch, Line
<1>3. RowsOrdered'
  BY <1>1 DEF LedgerHolds, RowsOrdered, Line
<1>4. StoreClosed'
  BY <1>1 DEF LedgerHolds, StoreClosed, Line, CommandQuiet
<1>5. FlightAlone'
  BY FlightKept
<1>6. BatchFresh'
  BY BatchKept
<1> QED
  BY Zenon, <1>2, <1>3, <1>4, <1>5, <1>6 DEF Settled

\* A call that leaves its flight, and those that joined it, retreat.
LEMMA LeaveRetreats ==
  ASSUME TypeOK, NEW c \in Callers, NEW s \in {"failed", "check", "landed"}, Leave(c, s)
  PROVE  Retreats
<1>1. \A d \in Callers : land'[d] = land[d] \/ land'[d] = [land[c] EXCEPT !.stage = s]
  BY DEF Leave
<1>2. [land[c] EXCEPT !.stage = s].stage = s
  BY DEF TypeOK, Call
<1> QED
  BY Zenon, <1>1, <1>2 DEF Retreats, FlightStages

\* So does a call that goes on outside a flight, or behind the append.
LEMMA AdvanceRetreats ==
  ASSUME TypeOK, NEW c \in Callers, NEW s \in Stages, Advance(c, s),
         s \notin FlightStages \/ (land[c].stage \in FlightStages /\ s \in {"publish", "write", "read_back"})
  PROVE  Retreats
<1>1. land[c] \in Call /\ land' = [land EXCEPT ![c] = [land[c] EXCEPT !.stage = s]]
  BY DEF Advance, TypeOK
<1>2. /\ [land[c] EXCEPT !.stage = s].stage = s /\ [land[c] EXCEPT !.stage = s].head = land[c].head
      /\ [land[c] EXCEPT !.stage = s].chain = land[c].chain
  BY <1>1 DEF Call
<1>3. \A d \in Callers : land'[d] = IF d = c THEN [land[c] EXCEPT !.stage = s] ELSE land[d]
  BY <1>1 DEF TypeOK
<1> QED
  BY Zenon, <1>2, <1>3 DEF Retreats

\* Guests, edits, staging and crashes.
LEMMA QuietCommands ==
  ASSUME LedgerHolds, \/ Provision \/ GuestCommit \/ Teardown \/ Edit \/ Add \/ Unstage
                      \/ ClearStaging \/ CrashDaemon \/ CrashCommand \/ UNCHANGED vars
  PROVE  Settled'
<1>1. TypeOK /\ LinesClosed
  BY DEF LedgerHolds
<1>2. commits' = commits => LinesKept /\ LinesClosed'
  BY SMT, Z3, <1>1 DEF LinesKept, LinesClosed, Line, Ids, TypeOK
<1>3. cli' = cli => CommandQuiet
  BY DEF CommandQuiet
<1>4. land' = land => Retreats
  BY DEF Retreats
<1>5. CASE Provision \/ Teardown \/ Edit \/ Add \/ Unstage \/ UNCHANGED vars
  BY <1>2, <1>3, <1>4, <1>5, QuietStep DEF Provision, Teardown, Edit, Add, Unstage, vars
<1>6. CASE GuestCommit
  <2>1. PICK t \in Trees : commits' = Append(commits, Child(commits, guest, t, "guest"))
    BY <1>6 DEF GuestCommit
  <2>2. guest \in Ids
    BY <1>1, <1>6 DEF GuestCommit, TypeOK, Ids
  <2>3. LinesKept /\ LinesClosed'
    BY <1>6, <2>1, <2>2, ChildLines DEF GuestCommit
  <2> QED
    BY <1>3, <1>4, <1>6, <2>3, QuietStep DEF GuestCommit
<1>7. CASE ClearStaging \/ CrashCommand
  <2>1. CommandQuiet
    BY <1>1, <1>7 DEF ClearStaging, CrashCommand, CommandQuiet, TypeOK
  <2> QED
    BY <1>2, <1>4, <1>7, <2>1, QuietStep DEF ClearStaging, CrashCommand
<1>8. CASE CrashDaemon
  <2>1. Retreats
    BY <1>8 DEF CrashDaemon, Retreats, Idle, FlightStages
  <2> QED
    BY Zenon, <1>2, <1>3, <1>8, <2>1, QuietStep DEF CrashDaemon
<1> QED
  BY <1>5, <1>6, <1>7, <1>8

-----------------------------------------------------------------------------
(* The host's own commits. *)

\* A commit moves the branch on, while no batch is being appended.
LEMMA CommitStep ==
  ASSUME LedgerHolds, CreateCommit
  PROVE  Settled' /\ Line(tip) \subseteq Line(tip)'
<1> DEFINE k == Len(commits) + 1
<1>1. TypeOK /\ tip \in Ids /\ Tree(tip) \in Trees /\ Len(commits) \in Nat
  BY CommitTyped DEF LedgerHolds, TypeOK
<1>2. PICK set : commits' = Append(commits, Child(commits, tip, StagedTree(Tree(tip), disk, set), "host"))
  BY DEF CreateCommit
<1>3. StagedTree(Tree(tip), disk, set) \in Trees
  BY Zenon, <1>1, TreesMade DEF TypeOK
<1>4. LinesKept /\ LinesClosed' /\ commits'[k].line = Line(tip) \cup {k}
  BY Zenon, <1>1, <1>2, <1>3, ChildLines, ChildTyped DEF CreateCommit
<1>5. /\ tip' = k /\ whole' = whole \cup {k} /\ objects' = objects \cup {k}
      /\ cli' = [stage |-> "clear", commit |-> k] /\ UNCHANGED <<rows, land>>
      /\ cli.stage = "idle" /\ \A c \in Callers : land[c].stage # "append"
  BY Zenon DEF CreateCommit, Locked, LockedStages
<1>6. /\ \A j \in whole : j \in Ids /\ commits'[j].line = Line(j)
      /\ \A r \in 1..Len(rows) : rows[r].commit \in Ids /\ commits'[rows[r].commit].line = Line(rows[r].commit)
      /\ \A c \in Callers : land[c].stage \in FlightStages => commits'[land[c].head].line = Line(land[c].head)
  BY <1>4, NamedLines
<1>7. Line(tip)' = Line(tip) \cup {k}
  BY <1>4, <1>5 DEF Line
<1>8. DeliveredOnBranch'
  BY Zenon, <1>5, <1>7 DEF LedgerHolds, DeliveredOnBranch
<1>9. RowsOrdered'
  BY <1>5, <1>6 DEF LedgerHolds, RowsOrdered, Line
<1>10. StoreClosed'
  <2>1. \A j \in whole' : Line(j)' \subseteq whole'
    BY <1>4, <1>5, <1>6 DEF LedgerHolds, StoreClosed, Line
  <2>2. cli'.commit \in Line(tip)'
    BY ZenonT(60), <1>5, <1>7
  <2> QED
    BY Zenon, <1>5, <2>1, <2>2 DEF LedgerHolds, StoreClosed
<1>11. FlightAlone'
  <2>1. ASSUME NEW c \in Callers, land[c].stage \in FlightStages
        PROVE  /\ land[c].head \in Ids'
               /\ \A i \in 1..Len(land[c].chain) : land[c].chain[i] \in Ids
    <3>1. Ids \subseteq Ids'
      BY <1>1, <1>4 DEF LinesKept, Ids
    <3> QED
      BY <2>1, <3>1, FlightFacts
  <2>2. \A j \in Ids : commits'[j].line = Line(j)
    BY Zenon, <1>4 DEF LinesKept
  <2> QED
    BY SMT, Z3, <1>5, <1>6, <2>1, <2>2 DEF LedgerHolds, FlightAlone, Line
<1>12. BatchFresh'
  <2>1. \A r \in 1..Len(rows) : rows[r].pos < r /\ rows[r].commit < k
    BY SMT, Z3, <1>1, <1>6 DEF LedgerHolds, BatchFresh, Ids
  <2>2. ASSUME NEW c \in Callers, land[c].stage \in {"persist", "append"}
        PROVE  /\ k \notin Line(land[c].head)
               /\ commits'[land[c].head].line = Line(land[c].head)
               /\ \A i \in 1..Len(land[c].chain) : land[c].chain[i] # k
    <3>1. land[c].stage \in FlightStages
      BY <2>2 DEF FlightStages
    <3>2. Line(land[c].head) \subseteq Ids
      BY <3>1, FlightFacts
    <3> QED
      BY <1>1, <1>6, <3>1, <3>2, FlightFacts DEF Ids
  <2> QED
    BY ZenonT(60), <1>5, <1>6, <2>1, <2>2 DEF LedgerHolds, BatchFresh, Line
<1> QED
  BY Zenon, <1>4, <1>7, <1>8, <1>9, <1>10, <1>11, <1>12 DEF Settled

\* Its row comes last: no row there is has it in its history, and it is of no batch but
\* one derived while it was being written.
LEMMA IndexStep ==
  ASSUME LedgerHolds, AddCommitToTask
  PROVE  Settled'
<1> DEFINE n == Len(rows)
           k == cli.commit
<1>1. /\ k \in Line(tip) /\ k \in whole /\ Line(k) \subseteq whole /\ tip \in Ids
      /\ \A c \in Callers : land[c].stage # "append"
  BY DEF LedgerHolds, StoreClosed, FlightAlone, FlightStages, LedgerGrounded,
     AddCommitToTask, TypeOK
<1>2. /\ rows \in Seq(Row) /\ n \in Nat /\ whole \subseteq objects /\ objects \subseteq Ids
      /\ \A r \in 1..n : rows[r] \in Row
  BY ElementOfSeq DEF LedgerHolds, TypeOK
<1>3. k \in 1..MaxCommits
  BY <1>1, <1>2, CommitTyped DEF LedgerHolds
<1> DEFINE row == [commit |-> k, pos |-> n, origin |-> "host", state |-> "delivered"]
<1>4. row \in Row
  BY Zenon, <1>2, <1>3 DEF Row
<1>5. /\ Len(rows') = n + 1 /\ rows'[n + 1] = row /\ \A r \in 1..n : rows'[r] = rows[r]
  BY <1>2, <1>4, AppendProperties DEF AddCommitToTask
<1>6. UNCHANGED <<commits, objects, whole, tip, land>> /\ cli'.stage = "idle" /\ cli.stage # "idle"
  BY Zenon DEF AddCommitToTask
<1>7. 1..Len(rows') = 1..n \cup {n + 1}
  BY SMT, Z3, <1>2, <1>5
<1>8. DeliveredOnBranch'
  BY <1>1, <1>5, <1>6, <1>7 DEF LedgerHolds, DeliveredOnBranch, Line
<1>9. StoreClosed'
  BY <1>1, <1>5, <1>6, <1>7 DEF LedgerHolds, StoreClosed, Line
<1>10. FlightAlone'
  BY ZenonT(60), <1>1, <1>6 DEF LedgerHolds, FlightAlone, Line, Ids
<1>11. \A r \in 1..n : rows[r].pos < n /\ rows[r].pos \in Nat /\ rows[r].commit < k /\ k \notin Line(rows[r].commit)
  <2>1. \A r \in 1..n : rows[r].pos < r /\ rows[r].pos \in Nat /\ rows[r].commit < k /\ rows[r].commit \in Ids
    BY Zenon, <1>2, <1>6 DEF LedgerHolds, BatchFresh, StoreClosed, Row
  <2>2. \A r \in 1..n : Line(rows[r].commit) \subseteq 1..rows[r].commit
    BY Zenon, <2>1 DEF LedgerHolds, LinesClosed
  <2> QED
    BY <1>2, <1>3, <2>1, <2>2 DEF Ids
<1>12. RowsOrdered'
  BY <1>2, <1>5, <1>6, <1>7, <1>11 DEF LedgerHolds, RowsOrdered, Line
<1>13. BatchFresh'
  <2>1. \A r \in 1..Len(rows') : rows'[r].pos < r
    BY SMT, Z3, <1>2, <1>5, <1>7 DEF LedgerHolds, BatchFresh
  <2>2. ASSUME NEW c \in Callers, land[c].stage \in {"persist", "append"}
        PROVE  /\ land[c].basePos <= n + 1
               /\ \A r \in 1..Len(rows') : land[c].basePos < r /\ rows'[r].commit \in Line(land[c].head)
                                              => rows'[r].pos = land[c].basePos
               /\ \A i \in 1..Len(land[c].chain) :
                    /\ \A r \in 1..Len(rows') : land[c].chain[i] \notin Line(rows'[r].commit)
                    /\ land[c].chain[i] \notin objects
    <3>1. land[c].stage = "persist" /\ land[c].basePos <= n /\ land[c].basePos \in Nat
      BY Zenon, <1>1, <2>2 DEF LedgerHolds, BatchFresh, TypeOK, Call
    <3>2. k \in Line(land[c].head) => land[c].basePos = n
      BY Zenon, <1>6, <2>2 DEF LedgerHolds, BatchFresh
    <3>3. \A i \in 1..Len(land[c].chain) : land[c].chain[i] \notin objects /\ land[c].chain[i] \notin Line(k)
      BY Zenon, <1>1, <1>2, <2>2, <3>1 DEF LedgerHolds, BatchFresh
    <3>4. \A r \in 1..n : land[c].basePos < r /\ rows[r].commit \in Line(land[c].head)
                            => rows[r].pos = land[c].basePos
      BY Zenon, <2>2 DEF LedgerHolds, BatchFresh
    <3>5. \A i \in 1..Len(land[c].chain) : \A r \in 1..n : land[c].chain[i] \notin Line(rows[r].commit)
      BY <2>2 DEF LedgerHolds, BatchFresh
    <3> QED
      BY <1>2, <1>5, <1>7, <3>1, <3>2, <3>3, <3>4, <3>5
  <2> QED
    BY ZenonT(60), <1>5, <1>6, <2>1, <2>2 DEF BatchFresh, Line
<1> QED
  BY ZenonT(60), <1>6, <1>8, <1>9, <1>10, <1>12, <1>13 DEF Settled, LedgerHolds, LinesClosed, Line, Ids

-----------------------------------------------------------------------------
(* Lands. *)

\* A step of a land writes no commit.
LEMMA SameCommits ==
  ASSUME LedgerHolds, commits' = commits
  PROVE  LinesKept /\ LinesClosed'
BY DEF LedgerHolds, LinesKept, LinesClosed, Line, Ids, TypeOK

\* What is derived is new to the store, and so to the history of every row.
LEMMA DeriveStep ==
  ASSUME LedgerHolds, NEW c \in Callers, Derive(c)
  PROVE  Settled'
<1> DEFINE new == NewCommits(guest)
<1>1. /\ UNCHANGED <<commits, objects, whole, rows, tip, cli>> /\ CommandQuiet
      /\ \A d \in Callers : land[d].stage \notin FlightStages
  BY Zenon DEF Derive, CommandQuiet, InFlight
<1>2. TypeOK /\ land \in [Callers -> Call] /\ guest \in Ids /\ Len(rows) \in Nat
  BY SMT, Z3 DEF Derive, LedgerHolds, TypeOK, Ids
<1>3. ASSUME NEW call, land' = [land EXCEPT ![c] = call], call.stage \notin FlightStages
      PROVE  Settled'
  <2>1. Retreats
    BY <1>2, <1>3 DEF Retreats
  <2> QED
    BY <1>1, <2>1, SameCommits, QuietStep
<1>4. ASSUME NEW chain \in ParentFirst(new),
             land' = [land EXCEPT ![c] = Derived("persist", chain, chain[Len(chain)])]
      PROVE  Settled'
  <2> DEFINE call == Derived("persist", chain, chain[Len(chain)])
  <2>1. PICK n \in 1..MaxCommits : chain \in [1..n -> new]
    BY DEF ParentFirst
  <2>2. n \in Nat /\ Len(chain) = n
    BY <2>1, FunctionIsSeq, BoundsAssumption
  <2>3. \A i, j \in 1..n : i < j => chain[i] \in Line(chain[j]) \ {chain[j]}
    BY Zenon, <2>1 DEF ParentFirst
  <2>4. /\ call.stage = "persist" /\ call.head = guest /\ call.chain = chain /\ call.basePos = Len(rows)
        /\ land'[c] = call /\ \A d \in Callers \ {c} : land'[d] = land[d]
    BY <1>2, <1>4 DEF Derived
  <2>5. \A i \in 1..n : chain[i] \in Line(guest) /\ chain[i] \notin objects
    BY Zenon, <2>1 DEF NewCommits, Skipped
  <2>6. \A d \in Callers : land'[d].stage \in FlightStages => d = c
    BY Zenon, <1>1, <2>4
  <2>7. FlightAlone'
    BY ZenonT(60), <1>1, <1>2, <2>1, <2>2, <2>3, <2>4, <2>5, <2>6 DEF FlightAlone, Line, Ids
  <2>8. \A r \in 1..Len(rows) : Line(rows[r].commit) \subseteq objects
    BY Zenon, <1>2 DEF LedgerHolds, LedgerGrounded, TypeOK
  <2>9. \A d \in Callers : land'[d].stage \in {"persist", "append"} => d = c
    BY Zenon, <2>6 DEF FlightStages
  <2>10. BatchFresh'
    <3>1. \A r \in 1..Len(rows) : rows[r].pos < r /\ (cli.stage # "idle" => rows[r].commit < cli.commit)
      BY DEF LedgerHolds, BatchFresh
    <3>2. \A i \in 1..Len(chain) :
             (\A r \in 1..Len(rows) : chain[i] \notin Line(rows[r].commit)) /\ chain[i] \notin objects
      BY <2>2, <2>5, <2>8
    <3>3. land'[c].basePos = Len(rows) /\ land'[c].chain = chain
      BY <2>4
    <3>4. \A r \in 1..Len(rows) : ~(Len(rows) < r)
      BY <1>2
    <3>5. Len(rows) <= Len(rows)
      BY <1>2
    <3> QED
      BY Zenon, <1>1, <2>9, <3>1, <3>2, <3>3, <3>4, <3>5 DEF BatchFresh, Line
  <2> QED
    BY ZenonT(60), <1>1, <2>7, <2>10, SameCommits DEF LedgerHolds, Settled, DeliveredOnBranch,
       StoreClosed, RowsOrdered, Line
<1>5. \A st : Derived(st, <<>>, 0).stage = st
  BY DEF Derived
<1>6. "check" \notin FlightStages /\ "failed" \notin FlightStages
  BY Zenon DEF FlightStages
<1> QED
  BY <1>3, <1>4, <1>5, <1>6 DEF Derive

\* An import holds all of the head's history, or commit objects that no row names.
LEMMA ImportStep ==
  ASSUME LedgerHolds, NEW c \in Callers, ImportObjects(c)
  PROVE  Settled'
<1>1. /\ land[c].stage = "persist" /\ land[c].stage \in FlightStages /\ cli.stage = "idle"
      /\ UNCHANGED <<commits, rows, tip, cli>> /\ CommandQuiet
  BY Zenon DEF ImportObjects, FlightStages, Locked, CommandQuiet
<1>2. TypeOK /\ land[c].head \in Ids /\ Line(land[c].head) \subseteq Ids
  BY Zenon, <1>1, FlightFacts DEF LedgerHolds
<1>3. LinesKept /\ LinesClosed'
  BY Zenon, <1>1, SameCommits
<1>4. whole \subseteq whole'
  BY Zenon DEF ImportObjects
<1>5. StoreClosed'
  <2>1. \A j \in Line(land[c].head) : Line(j) \subseteq Line(land[c].head)
    BY Zenon, <1>2 DEF LedgerHolds, LinesClosed
  <2>2. whole' = whole \/ whole' = whole \cup Line(land[c].head)
    BY Zenon DEF ImportObjects
  <2> QED
    BY Zenon, <1>1, <2>1, <2>2 DEF LedgerHolds, StoreClosed, Line
<1>6. DeliveredOnBranch' /\ RowsOrdered'
  BY <1>1 DEF LedgerHolds, DeliveredOnBranch, RowsOrdered, Line
<1>7. CASE Leave(c, "failed")
  <2>1. Retreats
    BY <1>2, <1>7, LeaveRetreats
  <2>2. FlightAlone'
    BY <1>1, <1>3, <1>4, <2>1, FlightKept
  <2>3. \A d \in Callers : land'[d].stage \notin {"persist", "append"}
    <3>1. \A d \in Callers : d = c \/ land[d].stage \notin {"persist", "append"}
      BY <1>1 DEF LedgerHolds, FlightAlone, FlightStages
    <3>2. [land[c] EXCEPT !.stage = "failed"].stage = "failed"
      BY ZenonT(60), <1>2 DEF TypeOK, Call
    <3> QED
      BY Zenon, <1>7, <3>1, <3>2 DEF Leave
  <2>4. BatchFresh'
    BY <1>1, <2>3 DEF LedgerHolds, BatchFresh
  <2> QED
    BY <1>3, <1>5, <1>6, <2>2, <2>4 DEF Settled
<1>8. CASE Advance(c, "append") /\ whole' = whole \cup Line(land[c].head)
  <2>1. /\ land'[c].stage = "append" /\ land'[c].head = land[c].head /\ land'[c].chain = land[c].chain
        /\ land'[c].basePos = land[c].basePos /\ \A d \in Callers \ {c} : land'[d] = land[d]
    BY SMTT(30), <1>8, <1>2 DEF Advance, TypeOK, Call
  <2>2. \A d \in Callers : land'[d].stage \in FlightStages => d = c
    BY Zenon, <1>1, <2>1 DEF LedgerHolds, FlightAlone
  <2>3. FlightAlone'
    <3>1. /\ land[c].head \in Ids
          /\ \A i \in 1..Len(land[c].chain) :
               /\ land[c].chain[i] \in Line(land[c].head)
               /\ \A j \in 1..Len(land[c].chain) :
                    i < j => land[c].chain[i] \in Line(land[c].chain[j]) \ {land[c].chain[j]}
      BY <1>1 DEF LedgerHolds, FlightAlone
    <3>2. Line(land[c].head) \subseteq whole' /\ cli'.stage = "idle" /\ commits' = commits
      BY <1>1, <1>8
    <3> QED
      BY ZenonT(60), <2>1, <2>2, <3>1, <3>2 DEF FlightAlone, Line, Ids
  <2>4. \A d \in Callers : land'[d].stage \in {"persist", "append"} => d = c
    BY <2>2 DEF FlightStages
  <2>5. BatchFresh'
    <3>1. \A r \in 1..Len(rows) : rows[r].pos < r
      BY Zenon DEF LedgerHolds, BatchFresh
    <3>2. /\ land[c].basePos <= Len(rows)
          /\ \A r \in 1..Len(rows) : land[c].basePos < r /\ rows[r].commit \in Line(land[c].head)
                                       => rows[r].pos = land[c].basePos
          /\ \A i \in 1..Len(land[c].chain) : \A r \in 1..Len(rows) : land[c].chain[i] \notin Line(rows[r].commit)
      BY Zenon, <1>1 DEF LedgerHolds, BatchFresh
    <3>3. \A r \in 1..Len(rows') : rows'[r].pos < r /\ (cli'.stage # "idle" => rows'[r].commit < cli'.commit)
      BY <1>1, <3>1
    <3>4. /\ land'[c].basePos <= Len(rows') /\ cli'.stage = "idle" /\ land'[c].stage # "persist"
          /\ \A r \in 1..Len(rows') : land'[c].basePos < r /\ rows'[r].commit \in commits'[land'[c].head].line
                                        => rows'[r].pos = land'[c].basePos
          /\ \A i \in 1..Len(land'[c].chain) :
               \A r \in 1..Len(rows') : land'[c].chain[i] \notin commits'[rows'[r].commit].line
      BY Zenon, <1>1, <2>1, <3>2 DEF Line
    <3> QED
      BY Zenon, <2>4, <3>3, <3>4 DEF BatchFresh, Line
  <2> QED
    BY <1>3, <1>5, <1>6, <2>3, <2>5 DEF Settled
<1> QED
  BY Zenon, <1>7, <1>8 DEF ImportObjects

\* A row of a batch.
LEMMA BatchRow ==
  ASSUME NEW c \in Callers, NEW i \in 1..Len(land[c].chain)
  PROVE  /\ Batch(c)[i].commit = land[c].chain[i] /\ Batch(c)[i].pos = land[c].basePos + i - 1
         /\ Batch(c)[i].state = "pending"
BY DEF Batch

\* The append of a batch, when it commits.
Appends(c) ==
  /\ land[c].stage = "append" /\ rows' = rows \o Batch(c) /\ Advance(c, "publish")
  /\ UNCHANGED <<commits, objects, whole, tip, cli>>

\* A batch is appended after the rows of its ancestors, at the positions it was given
\* before the lock was taken.
LEMMA AppendStep ==
  ASSUME LedgerHolds, NEW c \in Callers, Appends(c)
  PROVE  Settled'
<1> DEFINE n == Len(rows)
           m == Len(land[c].chain)
           b == land[c].basePos
           chain == land[c].chain
<1>1. /\ TypeOK /\ land[c].stage \in FlightStages /\ CommandQuiet /\ cli.stage = "idle"
      /\ Line(land[c].head) \subseteq whole
  BY DEF LedgerHolds, CommandQuiet, FlightStages, FlightAlone, Appends
<1>2. rows \in Seq(Row) /\ n \in Nat /\ m \in Nat /\ b \in Nat /\ b <= n
  <2>1. rows \in Seq(Row) /\ land[c] \in Call
    BY <1>1 DEF TypeOK
  <2>2. n \in Nat
    BY <2>1
  <2>3. b \in Nat /\ m \in Nat
    BY <2>1 DEF Call
  <2>4. land[c].stage = "append"
    BY DEF Appends
  <2>5. b <= n
    BY Zenon, <2>4 DEF LedgerHolds, BatchFresh
  <2> QED
    BY <2>1, <2>2, <2>3, <2>5
<1>3. Batch(c) \in Seq(Row) /\ Len(Batch(c)) = m
  BY Zenon, <1>1, BatchTyped
<1>4. /\ Len(rows') = n + m
      /\ \A r \in 1..(n + m) : rows'[r] = IF r <= n THEN rows[r] ELSE Batch(c)[r - n]
  <2>1. /\ Len(rows \o Batch(c)) = Len(rows) + Len(Batch(c))
        /\ \A i \in 1..Len(rows) + Len(Batch(c)) :
              (rows \o Batch(c))[i] = IF i <= Len(rows) THEN rows[i] ELSE Batch(c)[i - Len(rows)]
    BY Zenon, <1>2, <1>3, ConcatProperties
  <2> QED
    BY <1>3, <2>1 DEF Appends
<1>5. \A r \in 1..n : rows'[r] = rows[r] /\ r \in 1..(n + m)
  BY <1>2, <1>4
<1>6. ASSUME NEW r \in 1..Len(rows'), r \notin 1..n
      PROVE  /\ r - n \in 1..m /\ rows'[r].commit = chain[r - n] /\ rows'[r].pos = b + (r - n) - 1
             /\ rows'[r].state = "pending" /\ rows'[r].commit \in Line(land[c].head)
  <2>1. r - n \in 1..m /\ rows'[r] = Batch(c)[r - n]
    BY <1>2, <1>4, <1>6
  <2>2. chain[r - n] \in Line(land[c].head)
    BY <1>1, <2>1, FlightFacts
  <2>3. /\ Batch(c)[r - n].commit = chain[r - n] /\ Batch(c)[r - n].pos = b + (r - n) - 1
        /\ Batch(c)[r - n].state = "pending"
    BY Zenon, <2>1, BatchRow
  <2> QED
    BY Zenon, <2>1, <2>2, <2>3
<1>7. Retreats
  BY Zenon, <1>1, AdvanceRetreats DEF Stages, FlightStages, Appends
<1>0. UNCHANGED <<commits, objects, whole, tip, cli>>
  BY DEF Appends
<1>8. LinesKept /\ LinesClosed' /\ FlightAlone'
  BY Zenon, <1>0, <1>1, <1>7, SameCommits, FlightKept
<1>9. DeliveredOnBranch'
  BY Zenon, <1>0, <1>4, <1>5, <1>6 DEF LedgerHolds, DeliveredOnBranch, Line
<1>10. StoreClosed'
  <2>1. \A r \in 1..Len(rows') : rows'[r].commit \in whole
    BY Zenon, <1>1, <1>5, <1>6 DEF LedgerHolds, StoreClosed
  <2> QED
    BY Zenon, <1>0, <2>1 DEF LedgerHolds, StoreClosed, Line
<1>11. BatchFresh'
  <2>1. \A r \in 1..Len(rows') : rows'[r].pos < r
    <3>1. \A r \in 1..n : rows'[r].pos < r
      BY Zenon, <1>5 DEF LedgerHolds, BatchFresh
    <3>2. ASSUME NEW r \in 1..Len(rows'), r \notin 1..n PROVE rows'[r].pos < r
      <4>1. rows'[r].pos = b + (r - n) - 1
        BY Zenon, <1>6, <3>2
      <4>2. r \in Nat
        BY <1>2, <1>4
      <4> QED
        BY <1>2, <4>1, <4>2
    <3> QED
      BY Zenon, <3>1, <3>2
  <2>2. \A d \in Callers : land'[d].stage \notin {"persist", "append"}
    <3>1. \A d \in Callers : d = c \/ land[d].stage \notin {"persist", "append"}
      BY Zenon, <1>1 DEF LedgerHolds, FlightAlone, FlightStages
    <3> QED
      BY ZenonT(60), <1>1, <3>1 DEF Advance, TypeOK, Call, Appends
  <2> QED
    BY Zenon, <1>0, <1>1, <2>1, <2>2 DEF BatchFresh
<1>12. RowsOrdered'
  <2> SUFFICES ASSUME NEW r \in 1..Len(rows'), NEW s \in 1..Len(rows'),
                      rows'[r].commit # rows'[s].commit, rows'[r].commit \in Line(rows'[s].commit)
               PROVE  rows'[r].pos < rows'[s].pos \/ (rows'[r].pos = rows'[s].pos /\ r < s)
    BY Zenon, <1>0 DEF RowsOrdered, Line
  <2>1. CASE r \in 1..n /\ s \in 1..n
    BY Zenon, <1>5, <2>1 DEF LedgerHolds, RowsOrdered
  <2>2. CASE r \notin 1..n /\ s \in 1..n
    BY ZenonT(60), <1>5, <1>6, <2>2 DEF LedgerHolds, BatchFresh, Appends
  <2>3. CASE r \in 1..n /\ s \notin 1..n
    <3>1. rows'[r] = rows[r] /\ rows[r].pos < r /\ rows[r].pos \in Nat
      <4>1. rows[r] \in Row
        BY Zenon, <1>2, <2>3, ElementOfSeq
      <4> QED
        BY Zenon, <1>5, <2>3, <4>1 DEF LedgerHolds, BatchFresh, Row
    <3>2. rows[r].commit \in Line(land[c].head)
      <4>1. rows'[s].commit \in Line(land[c].head) /\ land[c].head \in Ids
        BY Zenon, <1>1, <1>6, <2>3, FlightFacts
      <4> QED
        BY Zenon, <3>1, <4>1 DEF LedgerHolds, LinesClosed
    <3>3. rows[r].pos <= b
      <4>1. \A q \in 1..n : b < q /\ rows[q].commit \in Line(land[c].head) => rows[q].pos = b
        BY Zenon DEF LedgerHolds, BatchFresh, Appends
      <4>2. CASE b < r
        <5>1. rows[r].pos = b
          BY Zenon, <2>3, <3>2, <4>1, <4>2
        <5> QED
          BY <1>2, <5>1
      <4>3. CASE ~(b < r)
        BY <1>2, <2>3, <3>1, <4>3
      <4> QED
        BY <4>2, <4>3
    <3>4. rows'[s].pos = b + (s - n) - 1 /\ s - n \in 1..m /\ r < s
      <4>1. rows'[s].pos = b + (s - n) - 1 /\ s - n \in 1..m
        BY Zenon, <1>6, <2>3
      <4>2. s \in 1..(n + m)
        BY Zenon, <1>4
      <4>3. r < s
        BY <1>2, <2>3, <4>2
      <4> QED
        BY <4>1, <4>3
    <3>5. rows[r].pos \in Int /\ b \in Int /\ s - n \in Int /\ 1 <= s - n
      BY SMT, Z3, <1>2, <3>1, <3>4
    <3>6. rows[r].pos < b + (s - n) - 1 \/ rows[r].pos = b + (s - n) - 1
      BY Zenon, <3>3, <3>5, NotBehind
    <3> QED
      BY Zenon, <3>1, <3>4, <3>6
  <2>4. CASE r \notin 1..n /\ s \notin 1..n
    <3> DEFINE i == r - n
               j == s - n
    <3>1. /\ i \in 1..m /\ j \in 1..m /\ rows'[r].commit = chain[i] /\ rows'[s].commit = chain[j]
          /\ rows'[r].pos = b + i - 1 /\ rows'[s].pos = b + j - 1
      BY Zenon, <1>6, <2>4
    <3>2. chain[i] # chain[j] /\ chain[i] \in Line(chain[j])
      BY <3>1
    <3>3. chain[i] \in Ids /\ chain[j] \in Ids
      BY Zenon, <1>1, <3>1, FlightFacts
    <3>4. ~(j < i)
      <4> SUFFICES ASSUME j < i PROVE FALSE
        OBVIOUS
      <4>1. chain[j] \in Line(chain[i])
        BY Zenon, <1>1, <3>1 DEF LedgerHolds, FlightAlone
      <4>2. chain[j] \in 1..chain[i] /\ chain[i] \in 1..chain[j]
        BY Zenon, <3>2, <3>3, <4>1 DEF LedgerHolds, LinesClosed
      <4>3. chain[i] \in Int /\ chain[j] \in Int
        BY <3>3 DEF Ids
      <4> QED
        BY Zenon, <3>2, <4>2, <4>3, MutualBounds
    <3>5. i < j
      BY SMTT(30), <3>1, <3>2, <3>4
    <3> QED
      BY SMTT(30), Z3T(30), <1>2, <3>1, <3>5
  <2> QED
    BY <2>1, <2>2, <2>3, <2>4
<1> QED
  BY Zenon, <1>8, <1>9, <1>10, <1>11, <1>12 DEF Settled

\* A land that found nothing in its way goes on to write.
LEMMA PublishStep ==
  ASSUME LedgerHolds, NEW c \in Callers, FastForward(c)
  PROVE  Settled'
<1> DEFINE st == IF land[c].stage = "publish" THEN "write" ELSE "rewrite"
<1>1. TypeOK /\ UNCHANGED <<commits, objects, whole, rows, tip, cli>> /\ CommandQuiet
  BY DEF FastForward, LedgerHolds, CommandQuiet
<1>2. Retreats
  <2>1. CASE Leave(c, "failed")
    BY <1>1, <2>1, LeaveRetreats
  <2>2. CASE land' = [land EXCEPT ![c].cur = tip, ![c].stage = st]
    <3>1. land[c] \in Call /\ land' = [land EXCEPT ![c] = [land[c] EXCEPT !.cur = tip, !.stage = st]]
      BY Zenon, <1>1, <2>2 DEF TypeOK
    <3>2. LET call == [land[c] EXCEPT !.cur = tip, !.stage = st]
          IN  call.stage = st /\ call.head = land[c].head /\ call.chain = land[c].chain
      BY <3>1 DEF Call
    <3>3. \A d \in Callers :
             land'[d] = IF d = c THEN [land[c] EXCEPT !.cur = tip, !.stage = st] ELSE land[d]
      BY <1>1, <3>1 DEF TypeOK
    <3>4. st \notin FlightStages \/ (land[c].stage \in FlightStages /\ st = "write")
      BY DEF FlightStages
    <3> QED
      BY Zenon, <3>2, <3>3, <3>4 DEF Retreats
  <2> QED
    BY Zenon, <2>1, <2>2 DEF FastForward
<1> QED
  BY <1>1, <1>2, SameCommits, QuietStep

\* The branch moves to a target whose history has it.
LEMMA WriteStep ==
  ASSUME LedgerHolds, NEW c \in Callers, materializeCommit(c)
  PROVE  Settled' /\ Line(tip) \subseteq Line(tip)'
<1>1. /\ TypeOK /\ UNCHANGED <<commits, objects, whole, rows, cli>> /\ CommandQuiet
      /\ land[c].stage \in WriteStages
  BY DEF materializeCommit, LedgerHolds, CommandQuiet
<1>2. LinesKept /\ LinesClosed'
  BY <1>1, SameCommits
<1>3. CASE tip' = tip /\ Leave(c, "failed")
  <2>1. Retreats
    BY <1>1, <1>3, LeaveRetreats
  <2> QED
    BY <1>1, <1>2, <1>3, <2>1, QuietStep DEF Line
<1>4. CASE tip = land[c].cur /\ tip' = land[c].target
           /\ Advance(c, IF land[c].stage = "write" THEN "read_back" ELSE "confirm")
  <2>1. tip' \in whole /\ tip \in Line(tip')
    BY Zenon, <1>1, <1>4, WriteFacts
  <2>2. Line(tip) \subseteq Line(tip') /\ Line(tip)' = Line(tip')
    BY Zenon, <1>1, <2>1 DEF LedgerHolds, LinesClosed, TypeOK, Line
  <2>3. Retreats
    <3>1. CASE land[c].stage = "write"
      BY Zenon, <1>1, <1>4, <3>1, AdvanceRetreats DEF Stages, FlightStages
    <3>2. CASE land[c].stage # "write"
      BY <1>1, <1>4, <3>2, AdvanceRetreats DEF Stages, FlightStages, LockedStages
    <3> QED
      BY Zenon, <3>1, <3>2
  <2>4. FlightAlone'
    BY <1>1, <1>2, <2>3, FlightKept
  <2>5. BatchFresh'
    BY Zenon, <1>1, <1>2, <2>3, BatchKept
  <2>6. StoreClosed'
    BY Zenon, <1>1, <2>1, <2>2 DEF LedgerHolds, StoreClosed, Line
  <2>7. DeliveredOnBranch'
    BY <1>1, <2>2 DEF LedgerHolds, DeliveredOnBranch
  <2>8. RowsOrdered'
    BY Zenon, <1>1 DEF LedgerHolds, RowsOrdered, Line
  <2> QED
    BY Zenon, <1>2, <2>2, <2>4, <2>5, <2>6, <2>7, <2>8 DEF Settled
<1> QED
  BY Zenon, <1>3, <1>4 DEF materializeCommit

\* Delivery is recorded for rows on the branch, and changes no place.
LEMMA RecordStep ==
  ASSUME LedgerHolds, NEW c \in Callers, RecordDelivered(c)
  PROVE  Settled'
<1>1. TypeOK /\ UNCHANGED <<commits, objects, whole, tip, cli>> /\ CommandQuiet
  BY DEF RecordDelivered, LedgerHolds, CommandQuiet
<1>2. LinesKept /\ LinesClosed'
  BY Zenon, <1>1, SameCommits
<1>3. Retreats
  BY <1>1, LeaveRetreats DEF RecordDelivered
<1>4. CASE rows' = rows
  BY <1>1, <1>2, <1>3, <1>4, QuietStep
<1>5. CASE tip = land[c].target /\ rows' = Delivered(land[c].target)
  <2>1. Len(rows') = Len(rows)
    BY <1>1, <1>5, DeliveredTyped
  <2>2. \A r \in 1..Len(rows) : /\ rows'[r].commit = rows[r].commit /\ rows'[r].pos = rows[r].pos
                                /\ rows'[r].state = rows[r].state \/ rows'[r].commit \in Line(tip)
    <3>1. \A r \in 1..Len(rows) : rows[r] \in Row
      BY <1>1, ElementOfSeq DEF TypeOK
    <3>2. \A x \in Row : LET y == [x EXCEPT !.state = "delivered"] IN y.commit = x.commit /\ y.pos = x.pos
      BY DEF Row
    <3>3. \A r \in 1..Len(rows) :
             \/ rows'[r] = rows[r]
             \/ rows[r].commit \in Line(tip) /\ rows'[r] = [rows[r] EXCEPT !.state = "delivered"]
      BY <1>5 DEF Delivered
    <3> QED
      BY ZenonT(60), <3>1, <3>2, <3>3
  <2>3. FlightAlone'
    BY <1>1, <1>2, <1>3, FlightKept
  <2>4. \A d \in Callers : land'[d].stage \in {"persist", "append"} => land'[d] = land[d]
    BY Zenon, <1>3 DEF Retreats, FlightStages
  <2>5. BatchFresh'
    <3>1. \A r \in 1..Len(rows) : rows'[r].pos < r /\ (cli.stage # "idle" => rows'[r].commit < cli.commit)
      BY <2>2 DEF LedgerHolds, BatchFresh
    <3>2. ASSUME NEW d \in Callers, land'[d].stage \in {"persist", "append"}
          PROVE  /\ land'[d] = land[d] /\ land[d].basePos <= Len(rows)
                 /\ (cli.stage # "idle" /\ cli.commit \in Line(land[d].head)) => land[d].basePos = Len(rows)
                 /\ \A r \in 1..Len(rows) : land[d].basePos < r /\ rows'[r].commit \in Line(land[d].head)
                                              => rows'[r].pos = land[d].basePos
                 /\ \A i \in 1..Len(land[d].chain) :
                      /\ \A r \in 1..Len(rows) : land[d].chain[i] \notin Line(rows'[r].commit)
                      /\ land[d].stage = "persist" => land[d].chain[i] \notin objects
      <4>1. land'[d] = land[d] /\ land[d].stage \in {"persist", "append"}
        BY Zenon, <2>4, <3>2
      <4> QED
        BY Zenon, <2>2, <4>1 DEF LedgerHolds, BatchFresh
    <3> QED
      BY SMTT(30), Z3T(30), <1>1, <2>1, <3>1, <3>2 DEF BatchFresh, Line
  <2>6. StoreClosed'
    BY Zenon, <1>1, <2>1, <2>2 DEF LedgerHolds, StoreClosed, Line
  <2>7. DeliveredOnBranch'
    BY ZenonT(60), <1>1, <2>1, <2>2 DEF LedgerHolds, DeliveredOnBranch, Line
  <2>8. RowsOrdered'
    BY <1>1, <2>1, <2>2 DEF LedgerHolds, RowsOrdered, Line
  <2> QED
    BY <1>2, <2>3, <2>5, <2>6, <2>7, <2>8 DEF Settled
<1> QED
  BY Zenon, <1>4, <1>5 DEF RecordDelivered, ReadBackOK

\* Joining, checking, giving up and answering.
LEMMA QuietLands ==
  ASSUME LedgerHolds, NEW c \in Callers, Join(c) \/ Check(c) \/ LockTimeout(c) \/ Answered(c)
  PROVE  Settled'
<1>1. TypeOK /\ UNCHANGED <<commits, objects, whole, rows, tip, cli>> /\ CommandQuiet
  BY DEF Join, Check, LockTimeout, Answered, LedgerHolds, CommandQuiet
<1>2. Retreats
  <2>1. CASE LockTimeout(c)
    BY Zenon, <1>1, <2>1, LeaveRetreats DEF LockTimeout
  <2>2. CASE Answered(c)
    BY SMTT(30), <1>1, <2>2 DEF Answered, Retreats, Idle, FlightStages, TypeOK
  <2>3. ASSUME NEW s \in {"joined", "failed", "landed"}, Advance(c, s) PROVE Retreats
    BY <1>1, <2>3, AdvanceRetreats DEF Stages, FlightStages
  <2>4. ASSUME NEW k, land' = [land EXCEPT ![c].stage = "recheck", ![c].target = k] PROVE Retreats
    <3>1. land[c] \in Call /\ land' = [land EXCEPT ![c] = [land[c] EXCEPT !.stage = "recheck", !.target = k]]
      BY Zenon, <1>1, <2>4 DEF TypeOK
    <3>2. [land[c] EXCEPT !.stage = "recheck", !.target = k].stage = "recheck"
      BY <3>1 DEF Call
    <3> QED
      BY <1>1, <3>1, <3>2 DEF Retreats, FlightStages, TypeOK
  <2> QED
    BY Zenon, <2>1, <2>2, <2>3, <2>4 DEF Join, Check
<1> QED
  BY <1>1, <1>2, SameCommits, QuietStep

-----------------------------------------------------------------------------
(* The lock, and what a land finds before it writes. *)

\* A step after which only holders of the lock hold it keeps it theirs alone.
LEMMA LockShrinks ==
  ASSUME LedgerHolds, \A d \in Callers : land'[d].stage \in LockedStages => land[d].stage \in LockedStages
  PROVE  LockAlone'
BY Zenon DEF LedgerHolds, LockAlone

\* So does one that takes it when it is free.
LEMMA LockTaken ==
  ASSUME NEW c \in Callers, ~Locked, \A d \in Callers \ {c} : land'[d] = land[d]
  PROVE  LockAlone'
BY Zenon DEF LockAlone, Locked

\* Leaving gives up the lock, and nobody who joined has it.
LEMMA LeaveUnlocks ==
  ASSUME TypeOK, NEW c \in Callers, NEW s \in {"failed", "check", "landed"}, Leave(c, s)
  PROVE  /\ \A d \in Callers : land'[d] = land[d] \/ land'[d].stage \notin LockedStages
         /\ land'[c].stage \notin LockedStages
<1>1. \A d \in Callers : land'[d] = land[d] \/ land'[d] = [land[c] EXCEPT !.stage = s]
  BY DEF Leave
<1>2. land'[c] = [land[c] EXCEPT !.stage = s] /\ [land[c] EXCEPT !.stage = s].stage = s
  BY DEF Leave, TypeOK, Call
<1>3. s \notin LockedStages
  BY DEF LockedStages
<1> QED
  BY Zenon, <1>1, <1>2, <1>3

\* Only the one that goes on changes.
LEMMA AdvanceOne ==
  ASSUME TypeOK, NEW c \in Callers, NEW s, Advance(c, s)
  PROVE  land'[c].stage = s /\ \A d \in Callers \ {c} : land'[d] = land[d]
BY DEF Advance, TypeOK, Call

\* A land that is let through to the write.
LEMMA PassOne ==
  ASSUME TypeOK, NEW c \in Callers, NEW st, land' = [land EXCEPT ![c].cur = tip, ![c].stage = st]
  PROVE  /\ land'[c].stage = st /\ land'[c].cur = tip /\ land'[c].target = land[c].target
         /\ \A d \in Callers \ {c} : land'[d] = land[d]
<1>1. land[c] \in Call /\ land' = [land EXCEPT ![c] = [land[c] EXCEPT !.cur = tip, !.stage = st]]
  BY Zenon DEF TypeOK
<1>2. land'[c] = [land[c] EXCEPT !.cur = tip, !.stage = st] /\ \A d \in Callers \ {c} : land'[d] = land[d]
  BY <1>1 DEF TypeOK
<1> QED
  BY <1>1, <1>2 DEF Call

\* A land that has derived its chain holds nothing yet.
LEMMA DeriveOne ==
  ASSUME NEW c \in Callers, Derive(c)
  PROVE  \E call : land' = [land EXCEPT ![c] = call] /\ call.stage \in {"check", "persist", "failed"}
<1>1. \A st, chain, k : Derived(st, chain, k).stage = st
  BY DEF Derived
<1>2. ASSUME NEW st \in {"check", "persist", "failed"}, NEW chain, NEW k,
             land' = [land EXCEPT ![c] = Derived(st, chain, k)]
      PROVE  \E call : land' = [land EXCEPT ![c] = call] /\ call.stage \in {"check", "persist", "failed"}
  <2>1. Derived(st, chain, k).stage \in {"check", "persist", "failed"}
    BY <1>1
  <2> WITNESS Derived(st, chain, k)
  <2> QED
    BY Zenon, <1>2, <2>1
<1>3. \/ land' = [land EXCEPT ![c] = Derived("check", <<>>, 0)]
      \/ \E chain \in ParentFirst(NewCommits(guest)) :
           land' = [land EXCEPT ![c] = Derived("persist", chain, chain[Len(chain)])]
      \/ land' = [land EXCEPT ![c] = Derived("failed", <<>>, 0)]
  BY Zenon DEF Derive
<1> QED
  BY Zenon, <1>2, <1>3

\* Every step of a land keeps the lock to one holder.
LEMMA LandLock ==
  ASSUME LedgerHolds, NEW c \in Callers, Join(c) \/ Derive(c) \/ LandStep(c)
  PROVE  LockAlone'
<1>1. TypeOK /\ {"joined", "failed", "check", "landed", "persist", "idle"} \cap LockedStages = {}
  BY DEF LedgerHolds, LockedStages
<1>2. ASSUME NEW s \in {"failed", "check", "landed"}, Leave(c, s) PROVE LockAlone'
  BY Zenon, <1>1, <1>2, LeaveUnlocks, LockShrinks
<1>3. ASSUME NEW s, Advance(c, s), s \notin LockedStages \/ land[c].stage \in LockedStages PROVE LockAlone'
  BY Zenon, <1>1, <1>3, AdvanceOne, LockShrinks
<1>4. CASE Join(c)
  BY Zenon, <1>1, <1>3, <1>4 DEF Join
<1>5. CASE Derive(c)
  <2>1. PICK call : land' = [land EXCEPT ![c] = call] /\ call.stage \notin LockedStages
    BY Zenon, <1>1, <1>5, DeriveOne
  <2> QED
    BY Zenon, <1>1, <2>1, LockShrinks DEF TypeOK
<1>6. CASE ImportObjects(c)
  BY Zenon, <1>1, <1>2, <1>6, AdvanceOne, LockTaken DEF ImportObjects
<1>7. CASE AppendTaskCommits(c)
  BY Zenon, <1>2, <1>3, <1>7 DEF AppendTaskCommits, LockedStages
<1>8. CASE FastForward(c)
  <2>1. land[c].stage \in LockedStages
    BY <1>8 DEF FastForward, LockedStages
  <2>2. CASE \E st : land' = [land EXCEPT ![c].cur = tip, ![c].stage = st]
    <3>1. \A d \in Callers \ {c} : land'[d] = land[d]
      BY Zenon, <1>1, <2>2, PassOne
    <3> QED
      BY Zenon, <2>1, <3>1, LockShrinks
  <2> QED
    BY Zenon, <1>2, <1>8, <2>2 DEF FastForward
<1>9. CASE materializeCommit(c)
  BY Zenon, <1>2, <1>3, <1>9 DEF materializeCommit, LockedStages, WriteStages
<1>10. CASE RecordDelivered(c)
  BY <1>2, <1>10 DEF RecordDelivered
<1>11. CASE Check(c)
  <2>1. ASSUME NEW k, land' = [land EXCEPT ![c].stage = "recheck", ![c].target = k]
        PROVE  \A d \in Callers \ {c} : land'[d] = land[d]
    BY <1>1, <2>1 DEF TypeOK
  <2> QED
    BY Zenon, <1>1, <1>3, <1>11, <2>1, LockTaken DEF Check
<1>12. CASE LockTimeout(c) \/ Answered(c)
  <2>1. Idle.stage = "idle" /\ land \in [Callers -> Call]
    BY <1>1 DEF Idle, TypeOK
  <2>2. CASE Answered(c)
    BY Zenon, <1>1, <2>1, <2>2, LockShrinks DEF Answered
  <2> QED
    BY Zenon, <1>2, <1>12, <2>2 DEF LockTimeout
<1> QED
  BY <1>4, <1>5, <1>6, <1>7, <1>8, <1>9, <1>10, <1>11, <1>12 DEF LandStep

\* So does every step.
LEMMA LockStep ==
  ASSUME LedgerHolds, [Next]_vars
  PROVE  LockAlone'
<1>1. land' = land => LockAlone'
  BY Zenon DEF LedgerHolds, LockAlone
<1>2. CASE CrashDaemon
  BY <1>2 DEF CrashDaemon, LockAlone, LockedStages, Idle
<1>3. CASE \E c \in Callers : Join(c) \/ Derive(c) \/ LandStep(c)
  BY <1>3, LandLock
<1>4. CASE \/ Provision \/ GuestCommit \/ Teardown \/ Edit \/ Add \/ Unstage \/ CreateCommit \/ ClearStaging
           \/ AddCommitToTask \/ CrashCommand \/ UNCHANGED vars
  BY <1>1, <1>4 DEF Provision, GuestCommit, Teardown, Edit, Add, Unstage, CreateCommit, ClearStaging,
     AddCommitToTask, CrashCommand, vars
<1> QED
  BY <1>2, <1>3, <1>4 DEF Next

\* The commits there are stay what they are, and so does what the store holds.
LEMMA CommitsStay ==
  ASSUME LedgerHolds, [Next]_vars
  PROVE  /\ \A k \in whole : commits'[k] = commits[k]
         /\ whole \subseteq whole'
<1>1. TypeOK /\ whole \subseteq Ids
  BY DEF LedgerHolds, TypeOK
<1>2. CASE GuestCommit
  <2>1. PICK t \in Trees : commits' = Append(commits, Child(commits, guest, t, "guest"))
    BY <1>2 DEF GuestCommit
  <2>2. guest \in Ids
    BY <1>1, <1>2 DEF GuestCommit, TypeOK, Ids
  <2> QED
    BY <1>1, <1>2, <2>1, <2>2, ChildTyped DEF GuestCommit
<1>3. CASE CreateCommit
  <2>1. PICK set : commits' = Append(commits, Child(commits, tip, StagedTree(Tree(tip), disk, set), "host"))
    BY <1>3 DEF CreateCommit
  <2>2. tip \in Ids /\ StagedTree(Tree(tip), disk, set) \in Trees
    BY Zenon, <1>1, CommitTyped, TreesMade DEF TypeOK
  <2> QED
    BY <1>1, <1>3, <2>1, <2>2, ChildTyped DEF CreateCommit
<1>4. CASE \E c \in Callers : Join(c) \/ Derive(c) \/ LandStep(c)
  BY Zenon, <1>4 DEF LandStep, Join, Derive, ImportObjects, AppendTaskCommits, FastForward,
     materializeCommit, RecordDelivered, Check, LockTimeout, Answered
<1>5. CASE \/ Provision \/ Teardown \/ Edit \/ Add \/ Unstage \/ ClearStaging
           \/ AddCommitToTask \/ CrashDaemon \/ CrashCommand \/ UNCHANGED vars
  BY Zenon, <1>5 DEF Provision, Teardown, Edit, Add, Unstage, ClearStaging,
     AddCommitToTask, CrashDaemon, CrashCommand, vars
<1> QED
  BY <1>2, <1>3, <1>4, <1>5 DEF Next

\* What a land found stays true of the files nobody edits.
LEMMA JudgedKept ==
  ASSUME LedgerHolds, [Next]_vars,
         NEW c \in Callers, land[c].stage \in WriteStages, land'[c] = land[c],
         late \subseteq late', \A p \in Paths \ late' : disk'[p] = disk[p]
  PROVE  /\ land'[c].target \in whole' /\ land'[c].cur \in commits'[land'[c].target].line
         /\ \A p \in Paths \ late' :
              (commits'[land'[c].cur].tree[p] # Absent \/ commits'[land'[c].target].tree[p] # Absent
                 => disk'[p] \in {commits'[land'[c].cur].tree[p], commits'[land'[c].target].tree[p]})
<1>1. land[c].target \in whole /\ land[c].cur \in whole /\ land[c].cur \in Line(land[c].target)
  BY WriteFacts
<1>2. /\ commits'[land[c].target] = commits[land[c].target] /\ commits'[land[c].cur] = commits[land[c].cur]
      /\ whole \subseteq whole'
  BY <1>1, CommitsStay
<1>3. \A p \in Paths \ late :
         commits[land[c].cur].tree[p] # Absent \/ commits[land[c].target].tree[p] # Absent
           => disk[p] \in {commits[land[c].cur].tree[p], commits[land[c].target].tree[p]}
  BY Zenon DEF LedgerHolds, Judged, Tree
<1>4. Paths \ late' \subseteq Paths \ late
  OBVIOUS
<1> QED
  BY Zenon, <1>1, <1>2, <1>3, <1>4 DEF Line

\* Nobody is about to write.
LEMMA NobodyWrites ==
  ASSUME \A c \in Callers : land'[c].stage \notin WriteStages PROVE Judged'
BY Zenon DEF Judged

\* Whoever holds the lock to look or to write is alone in it.
LEMMA AloneWriting ==
  ASSUME LedgerHolds, NEW c \in Callers, land[c].stage \in LockedStages,
         NEW d \in Callers, d # c
  PROVE  land[d].stage \notin WriteStages
BY DEF LedgerHolds, LockAlone, LockedStages, WriteStages

\* What a land that looks lets through.
LEMMA PassJudged ==
  ASSUME LedgerHolds, [Next]_vars, NEW c \in Callers, FastForward(c), MayPublish(land[c].target),
         land'[c].cur = tip, land'[c].target = land[c].target,
         \A d \in Callers \ {c} : land'[d] = land[d]
  PROVE  Judged'
<1> DEFINE target == land[c].target
<1>1. target \in whole /\ tip \in whole /\ tip \in Line(target)
  BY DEF MayPublish, LedgerHolds, StoreClosed
<1>2. commits'[target] = commits[target] /\ commits'[tip] = commits[tip] /\ whole' = whole /\ disk' = disk
  BY <1>1, CommitsStay DEF FastForward
<1>3. \A p \in Paths : commits[tip].tree[p] # Absent \/ commits[target].tree[p] # Absent
                          => disk[p] \in {commits[tip].tree[p], commits[target].tree[p]}
  BY ZenonT(60) DEF MayPublish, HostChanges, Tree
<1>4. \A d \in Callers \ {c} : land'[d].stage \notin WriteStages
  BY AloneWriting DEF FastForward, LockedStages
<1>5. ASSUME NEW d \in Callers, land'[d].stage \in WriteStages
      PROVE  /\ land'[d].target \in whole' /\ land'[d].cur \in commits'[land'[d].target].line
             /\ \A p \in Paths \ late' :
                  (commits'[land'[d].cur].tree[p] # Absent \/ commits'[land'[d].target].tree[p] # Absent
                     => disk'[p] \in {commits'[land'[d].cur].tree[p], commits'[land'[d].target].tree[p]})
  <2>1. d = c /\ land'[d].cur = tip /\ land'[d].target = target
    BY <1>4, <1>5
  <2>2. target \in whole' /\ tip \in commits'[target].line
    BY Zenon, <1>1, <1>2 DEF Line
  <2>3. ASSUME NEW p \in Paths \ late' PROVE
          commits'[tip].tree[p] # Absent \/ commits'[target].tree[p] # Absent
            => disk'[p] \in {commits'[tip].tree[p], commits'[target].tree[p]}
    BY Zenon, <1>2, <1>3, <2>3
  <2> QED
    BY Zenon, <2>1, <2>2, <2>3
<1> QED
  BY Zenon, <1>5 DEF Judged, Line, Tree

\* Only FastForward lets a land through to the write.
LEMMA NewWriters ==
  ASSUME TypeOK, NEW c \in Callers,
         \/ Join(c) \/ Derive(c) \/ ImportObjects(c) \/ AppendTaskCommits(c)
         \/ RecordDelivered(c) \/ Check(c) \/ LockTimeout(c) \/ Answered(c)
  PROVE  \A d \in Callers : land'[d].stage \in WriteStages => land'[d] = land[d]
<1>1. ASSUME NEW s \in {"failed", "check", "landed"}, Leave(c, s)
      PROVE  \A d \in Callers : land'[d].stage \in WriteStages => land'[d] = land[d]
  BY <1>1, LeaveUnlocks DEF WriteStages, LockedStages
<1>2. ASSUME NEW s \in {"joined", "failed", "landed", "append", "publish"}, Advance(c, s)
      PROVE  \A d \in Callers : land'[d].stage \in WriteStages => land'[d] = land[d]
  BY <1>2, AdvanceOne DEF WriteStages
<1>3. ASSUME NEW call, land' = [land EXCEPT ![c] = call], call.stage \notin WriteStages
      PROVE  \A d \in Callers : land'[d].stage \in WriteStages => land'[d] = land[d]
  BY <1>3 DEF TypeOK
<1>4. CASE Derive(c)
  <2>1. PICK call : land' = [land EXCEPT ![c] = call] /\ call.stage \notin WriteStages
    BY Zenon, <1>4, DeriveOne DEF WriteStages
  <2> QED
    BY Zenon, <1>3, <2>1
<1>5. CASE Check(c)
  <2>1. ASSUME NEW k, land' = [land EXCEPT ![c].stage = "recheck", ![c].target = k]
        PROVE  \A d \in Callers : land'[d].stage \in WriteStages => land'[d] = land[d]
    <3>1. land[c] \in Call /\ land' = [land EXCEPT ![c] = [land[c] EXCEPT !.stage = "recheck", !.target = k]]
      BY Zenon, <2>1 DEF TypeOK
    <3>2. [land[c] EXCEPT !.stage = "recheck", !.target = k].stage = "recheck"
      BY <3>1 DEF Call
    <3>3. "recheck" \notin WriteStages
      BY DEF WriteStages
    <3> QED
      BY Zenon, <1>3, <3>1, <3>2, <3>3
  <2> QED
    BY Zenon, <1>2, <1>5, <2>1 DEF Check
<1>6. CASE Answered(c)
  <2>1. Idle.stage \notin WriteStages
    BY DEF Idle, WriteStages
  <2> QED
    BY Zenon, <1>3, <1>6, <2>1 DEF Answered
<1>7. CASE Join(c) \/ ImportObjects(c) \/ AppendTaskCommits(c) \/ RecordDelivered(c) \/ LockTimeout(c)
  BY Zenon, <1>1, <1>2, <1>7 DEF Join, ImportObjects, AppendTaskCommits, RecordDelivered, LockTimeout
<1> QED
  BY <1>4, <1>5, <1>6, <1>7

\* Every step keeps what the lands about to write have found.
LEMMA JudgedStep ==
  ASSUME LedgerHolds, [Next]_vars
  PROVE  Judged'
<1>1. TypeOK
  BY DEF LedgerHolds
<1>2. ASSUME \A c \in Callers : land'[c].stage \in WriteStages => land'[c] = land[c],
             late \subseteq late', \A p \in Paths \ late' : disk'[p] = disk[p]
      PROVE  Judged'
  <2>1. ASSUME NEW c \in Callers, land'[c].stage \in WriteStages
        PROVE  /\ land'[c].target \in whole' /\ land'[c].cur \in commits'[land'[c].target].line
               /\ \A p \in Paths \ late' :
                    (commits'[land'[c].cur].tree[p] # Absent \/ commits'[land'[c].target].tree[p] # Absent
                       => disk'[p] \in {commits'[land'[c].cur].tree[p], commits'[land'[c].target].tree[p]})
    <3>1. land'[c] = land[c] /\ land[c].stage \in WriteStages
      BY Zenon, <1>2, <2>1
    <3> QED
      BY Zenon, <1>2, <3>1, JudgedKept
  <2> QED
    BY Zenon, <2>1 DEF Judged, Line, Tree
<1>3. CASE CrashDaemon
  <2>1. \A c \in Callers : land'[c].stage = "idle"
    BY <1>3 DEF CrashDaemon, Idle
  <2> QED
    BY <2>1, NobodyWrites DEF WriteStages
<1>4. CASE Edit
  <2>1. PICK p \in Paths :
          /\ \E e \in Entries : disk' = [disk EXCEPT ![p] = e]
          /\ late' = IF \E c \in Callers : land[c].stage \in WriteStages THEN late \cup {p} ELSE late
    BY Zenon, <1>4 DEF Edit
  <2>2. land' = land /\ \A q \in Paths \ {p} : disk'[q] = disk[q]
    BY <1>1, <1>4, <2>1 DEF Edit, TypeOK, Trees
  <2>3. CASE \E c \in Callers : land[c].stage \in WriteStages
    BY <1>2, <2>1, <2>2, <2>3
  <2>4. CASE \A c \in Callers : land[c].stage \notin WriteStages
    BY Zenon, <2>2, <2>4, NobodyWrites
  <2> QED
    BY Zenon, <2>3, <2>4
<1>5. ASSUME NEW c \in Callers, FastForward(c) PROVE Judged'
  <2>1. CASE Leave(c, "failed") /\ UNCHANGED <<disk, late>>
    <3>1. \A d \in Callers : land'[d].stage \in WriteStages => land'[d] = land[d]
      BY <1>1, <2>1, LeaveUnlocks DEF WriteStages, LockedStages
    <3> QED
      BY <1>2, <2>1, <3>1
  <2>2. CASE MayPublish(land[c].target) /\ \E st : land' = [land EXCEPT ![c].cur = tip, ![c].stage = st]
    BY Zenon, <1>1, <1>5, <2>2, PassOne, PassJudged
  <2> QED
    BY Zenon, <1>5, <2>1, <2>2 DEF FastForward
<1>6. ASSUME NEW c \in Callers, materializeCommit(c) PROVE Judged'
  <2>1. \A d \in Callers \ {c} : land[d].stage \notin WriteStages
    BY <1>6, AloneWriting DEF materializeCommit, WriteStages, LockedStages
  <2>2. CASE Leave(c, "failed")
    <3>1. \A d \in Callers : land'[d].stage \notin WriteStages
      BY <1>1, <2>1, <2>2, LeaveUnlocks DEF WriteStages, LockedStages
    <3> QED
      BY <3>1, NobodyWrites
  <2>3. CASE \E s \in {"read_back", "confirm"} : Advance(c, s)
    <3>1. \A d \in Callers : land'[d].stage \notin WriteStages
      BY <1>1, <2>1, <2>3, AdvanceOne DEF WriteStages
    <3> QED
      BY <3>1, NobodyWrites
  <2> QED
    BY <1>6, <2>2, <2>3 DEF materializeCommit
<1>7. ASSUME NEW c \in Callers,
             \/ Join(c) \/ Derive(c) \/ ImportObjects(c) \/ AppendTaskCommits(c)
             \/ RecordDelivered(c) \/ Check(c) \/ LockTimeout(c) \/ Answered(c)
      PROVE  Judged'
  <2>1. UNCHANGED <<disk, late>>
    BY <1>7 DEF Join, Derive, ImportObjects, AppendTaskCommits, RecordDelivered, Check, LockTimeout, Answered
  <2>2. \A d \in Callers : land'[d].stage \in WriteStages => land'[d] = land[d]
    BY <1>1, <1>7, NewWriters
  <2> QED
    BY <1>2, <2>1, <2>2
<1>8. CASE \/ Provision \/ GuestCommit \/ Teardown \/ Add \/ Unstage \/ CreateCommit \/ ClearStaging
           \/ AddCommitToTask \/ CrashCommand \/ UNCHANGED vars
  <2>1. UNCHANGED <<land, disk, late>>
    BY <1>8 DEF Provision, GuestCommit, Teardown, Add, Unstage, CreateCommit, ClearStaging,
       AddCommitToTask, CrashCommand, vars
  <2> QED
    BY <1>2, <2>1
<1> QED
  BY <1>3, <1>4, <1>5, <1>6, <1>7, <1>8 DEF Next, LandStep

\* At the start nobody has the lock.
LEMMA LockInit ==
  ASSUME Init PROVE LockAlone /\ Judged
<1>1. \A c \in Callers : land[c].stage = "idle"
  BY DEF Init, Idle
<1> QED
  BY <1>1 DEF LockAlone, Judged, LockedStages, WriteStages

-----------------------------------------------------------------------------
(* The theorems. *)

\* A fresh task branch holds its fork base.
LEMMA SettledInit ==
  ASSUME Init PROVE Settled
<1>1. PICK t \in Trees : commits = <<ForkBase(t)>>
  BY DEF Init
<1>2. Len(commits) = 1 /\ Ids = {1} /\ Line(1) = {1}
  BY <1>1 DEF Ids, Line, ForkBase
<1>3. /\ whole = {1} /\ tip = 1 /\ rows = <<>> /\ cli.stage = "idle"
      /\ \A c \in Callers : land[c].stage = "idle"
  BY DEF Init, Idle
<1>4. 1..Len(rows) = {}
  BY <1>3
<1>5. DeliveredOnBranch /\ RowsOrdered
  BY <1>4 DEF DeliveredOnBranch, RowsOrdered
<1>6. LinesClosed
  BY <1>2 DEF LinesClosed
<1>7. StoreClosed
  BY Zenon, <1>2, <1>3, <1>4 DEF StoreClosed
<1>8. FlightAlone
  BY <1>3 DEF FlightAlone, FlightStages
<1>9. BatchFresh
  BY Zenon, <1>3, <1>4 DEF BatchFresh
<1> QED
  BY <1>5, <1>6, <1>7, <1>8, <1>9 DEF Settled

\* Types and the rest make the invariant: what is held with its history can be read back.
LEMMA SettledHolds ==
  ASSUME TypeOK, Settled, LockAlone, Judged PROVE LedgerHolds
BY DEF Settled, LedgerHolds, LedgerGrounded, StoreClosed

\* Every step keeps it, and takes no commit off the branch.
LEMMA LedgerStep ==
  ASSUME LedgerHolds, [Next]_vars
  PROVE  TypeOK' /\ Settled' /\ Line(tip) \subseteq Line(tip)'
<1>1. ASSUME Settled', UNCHANGED <<commits, tip>> PROVE Line(tip) \subseteq Line(tip)'
  BY <1>1 DEF Line
<1>2. CASE \/ Provision \/ Teardown \/ Edit \/ Add \/ Unstage \/ ClearStaging \/ CrashDaemon \/ CrashCommand
           \/ UNCHANGED vars
  <2>1. UNCHANGED <<commits, tip>>
    BY <1>2 DEF Provision, Teardown, Edit, Add, Unstage, ClearStaging, CrashDaemon,
       CrashCommand, vars
  <2> QED
    BY <1>1, <1>2, <2>1, CommandTypes, QuietCommands
<1>3. CASE GuestCommit
  <2>1. PICK t \in Trees : commits' = Append(commits, Child(commits, guest, t, "guest"))
    BY <1>3 DEF GuestCommit
  <2>2. guest \in Ids /\ tip' = tip /\ tip \in Ids
    BY <1>3 DEF GuestCommit, LedgerHolds, TypeOK, Ids
  <2>3. LinesKept
    BY Zenon, <1>3, <2>1, <2>2, ChildLines DEF GuestCommit
  <2>4. Line(tip) \subseteq Line(tip)'
    BY <2>2, <2>3 DEF LinesKept, Line
  <2> QED
    BY <1>3, <2>4, CommandTypes, QuietCommands
<1>4. CASE CreateCommit
  BY Zenon, <1>4, CommandTypes, CommitStep
<1>5. CASE AddCommitToTask
  BY <1>1, <1>5, CommandTypes, IndexStep DEF AddCommitToTask
<1>6. ASSUME NEW c \in Callers, Join(c) \/ Derive(c) \/ LandStep(c)
      PROVE  TypeOK' /\ Settled' /\ Line(tip) \subseteq Line(tip)'
  <2>1. TypeOK'
    BY <1>6, LandTypes
  <2>2. CASE materializeCommit(c)
    BY <2>1, <2>2, WriteStep
  <2>3. CASE AppendTaskCommits(c)
    <3>1. CASE rows' = rows /\ Leave(c, "failed")
      <4>1. Retreats /\ CommandQuiet /\ UNCHANGED <<commits, objects, whole, rows, tip>>
        <5>1. TypeOK
          BY Zenon DEF LedgerHolds
        <5>2. UNCHANGED <<commits, objects, whole, tip, cli>>
          BY <2>3 DEF AppendTaskCommits
        <5>3. Retreats
          BY Zenon, <3>1, <5>1, LeaveRetreats
        <5> QED
          BY <3>1, <5>2, <5>3 DEF CommandQuiet
      <4> QED
        BY <1>1, <2>1, <4>1, SameCommits, QuietStep
    <3>2. CASE rows' = rows \o Batch(c) /\ Advance(c, "publish")
      BY Zenon, <1>1, <2>1, <2>3, <3>2, AppendStep DEF AppendTaskCommits, Appends
    <3> QED
      BY Zenon, <2>3, <3>1, <3>2 DEF AppendTaskCommits, Batch
  <2>4. CASE ~materializeCommit(c) /\ ~AppendTaskCommits(c)
    <3>1. UNCHANGED <<commits, tip>>
      BY <1>6, <2>4 DEF LandStep, Join, Derive, ImportObjects, FastForward, RecordDelivered, Check,
         LockTimeout, Answered
    <3>2. Settled'
      BY <1>6, <2>4, DeriveStep, ImportStep, PublishStep, RecordStep, QuietLands DEF LandStep
    <3> QED
      BY Zenon, <1>1, <2>1, <3>1, <3>2
  <2> QED
    BY <2>2, <2>3, <2>4
<1> QED
  BY <1>2, <1>3, <1>4, <1>5, <1>6 DEF Next

\* However lands, retries, host commits and crashes interleave, the branch and every row
\* of the ledger can be read back with their whole history, and a row marked delivered is
\* on the branch (Lander.Land, publish, RecordDelivered).
THEOREM LedgerAlwaysHolds == Spec => []LedgerHolds
<1>1. Init => LedgerHolds
  BY Zenon, TypeInit, SettledInit, SettledHolds, LockInit
<1>2. LedgerHolds /\ [Next]_vars => LedgerHolds'
  <2> SUFFICES ASSUME LedgerHolds, [Next]_vars PROVE LedgerHolds'
    OBVIOUS
  <2>1. TypeOK' /\ Settled' /\ LockAlone' /\ Judged'
    BY LedgerStep, LockStep, JudgedStep
  <2> QED
    BY <2>1 DEF Settled, LedgerHolds, LedgerGrounded, StoreClosed
<1> QED
  BY <1>1, <1>2, PTL DEF Spec

\* Read by position and then by insertion, the ledger never has a commit before one of its
\* ancestors, although a land reads its base position before it takes the lock
\* (LandService.newChain, AppendTaskCommits, GetContentSnapshot).
THEOREM LedgerAlwaysOrdered == Spec => []LedgerFollowsHistory
<1>1. LedgerHolds => LedgerFollowsHistory
  BY Zenon DEF LedgerHolds, RowsOrdered, LedgerFollowsHistory
<1> QED
  BY <1>1, LedgerAlwaysHolds, PTL

\* A land that replaces or removes a file finds there what a stored commit has.
LEMMA WorktreeStep ==
  ASSUME LedgerHolds, [Next]_vars PROVE WorktreeKept
<1> SUFFICES ASSUME land' # land, NEW p \in Differ(disk, disk') \ late
             PROVE  Recorded(p)
  BY DEF WorktreeKept
<1>1. p \in Paths /\ disk[p] # disk'[p] /\ p \notin late
  BY DEF Differ
<1>2. PICK c \in Callers : materializeCommit(c)
  BY Zenon, <1>1 DEF Next, Provision, GuestCommit, Teardown, Edit, Add, Unstage,
     CreateCommit, ClearStaging, AddCommitToTask, Join, Derive, LandStep, ImportObjects,
     AppendTaskCommits, FastForward, RecordDelivered, Check, LockTimeout, Answered,
     CrashDaemon, CrashCommand, vars
<1> DEFINE target == land[c].target
           cur    == land[c].cur
<1>3. /\ land[c].stage \in WriteStages
      /\ \/ disk' = Materialized(Tree(cur), Tree(target), disk)
         \/ disk' \in PartlyMaterialized(Tree(cur), Tree(target), disk)
  BY Zenon, <1>2 DEF materializeCommit
<1>4. Tree(cur)[p] # Absent \/ Tree(target)[p] # Absent
  BY Zenon, <1>1, <1>3 DEF Materialized, PartlyMaterialized
<1>5. disk[p] \in {Tree(cur)[p], Tree(target)[p]}
  BY Zenon, <1>1, <1>3, <1>4 DEF LedgerHolds, Judged
<1>6. cur \in whole /\ target \in whole
  BY <1>3, WriteFacts
<1> QED
  BY <1>5, <1>6 DEF Recorded

\* No step takes a commit off the task branch, and no land destroys a file that only the
\* working copy had when it looked (Lander.Land, FastForwardDelivered).
THEOREM HostWorkAlwaysKept == Spec => HostWorkKept
<1>1. LedgerHolds /\ [Next]_vars => [HostWorkStep]_vars
  BY LedgerStep, WorktreeStep DEF HostWorkStep, BranchOnlyGrows
<1> QED
  BY <1>1, LedgerAlwaysHolds, PTL DEF Spec, HostWorkKept

==============================================================================
