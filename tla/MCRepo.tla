------------------------------- MODULE MCRepo -------------------------------
(* The parts of a served repository and its worktrees, with the bounds TLC   *)
(* checks them at; a behaviour is a behaviour of one of them.                *)
EXTENDS Naturals, TLC

CONSTANTS Nil, Null, c, d, m1, m2, v, w

\* What no component tells apart but by name may change names.
Symmetry == Permutations({m1, m2}) \cup Permutations({v, w})

\* One set of variables serves every component: only one of them runs in a
\* behaviour, and those it has no use for stay 0.
VARIABLES which, s1, s2, s3, s4, s5, s6, s7, s8, s9, s10, s11, s12

B == INSTANCE BaseSync WITH
       Paths <- {"p", "q"}, Contents <- {c, d}, First <- c, Tracked <- {"p", "q"},
       Ignored <- {"q"}, Large <- {d}, MaxGitCommits <- 1, MaxEdits <- 2, MaxSelects <- 1,
       MaxFaults <- 1, Absent <- Nil, work <- s1, tree <- s2, ghead <- s3, base <- s4,
       staging <- s5, sync <- s6, gate <- s7, wanted <- s8, edited <- s9, torn <- s10,
       spent <- s11
W == INSTANCE Workspaces WITH
       Tasks <- {v, w}, Dirs <- {"d1", "d2"}, Procs <- {m1, m2}, MaxCommits <- 2,
       MaxAdds <- 2, MaxDrops <- 1, MaxFaults <- 1, None <- Null, n <- s1, head <- s2,
       refs <- s3, rows <- s4, first <- s5, dir <- s6, add <- s7, strayed <- s8, spent <- s9
M == INSTANCE Merging WITH
       Paths <- {v, w}, Contents <- {m1, m2}, Branches <- {"main", "side"}, Main <- "main",
       MaxCommits <- 3, MaxEdits <- 1, MaxCrashes <- 1, None <- Null, Absent <- Nil,
       parents <- s1, files <- s2, refs <- s3, cur <- s4, work <- s5, staging <- s6,
       merge <- s7, edits <- s8, crashes <- s9
L == INSTANCE Landing WITH
       Callers <- {"c1"}, Paths <- {"p"}, Contents <- {m1, m2}, MaxCommits <- 3, MaxCrashes <- 1,
       Absent <- Nil, commits <- s1, objects <- s2, whole <- s3, rows <- s4, tip <- s5,
       disk <- s6, staged <- s7, guest <- s8, cli <- s9, land <- s10, crashes <- s11,
       late <- s12
\* A server and two commands at one root, and a server and a command with a worktree
\* beside it.
S == INSTANCE Serving WITH
       Clis <- {m1, m2}, Reqs <- {"request"}, Served <- "repo", Others <- {}, Keys <- {"k"},
       MaxCommits <- 3, MaxCrashes <- 1, lock <- s1, srv <- s2, act <- s3, tip <- s4,
       disk <- s5, edited <- s6, journal <- s7, behind <- s8, config <- s9, cached <- s10,
       crashes <- s11
R == INSTANCE Serving WITH
       Clis <- {"cli"}, Reqs <- {"request"}, Served <- "repo", Others <- {"wt"}, Keys <- {},
       MaxCommits <- 3, MaxCrashes <- 1, lock <- s1, srv <- s2, act <- s3, tip <- s4,
       disk <- s5, edited <- s6, journal <- s7, behind <- s8, config <- s9, cached <- s10,
       crashes <- s11

vars == <<which, s1, s2, s3, s4, s5, s6, s7, s8, s9, s10, s11, s12>>

Init ==
  \/ which = "base" /\ B!Init
     /\ s12 = 0
  \/ which = "worktrees" /\ W!Init
     /\ s10 = 0 /\ s11 = 0 /\ s12 = 0
  \/ which = "merge" /\ M!Init
     /\ s10 = 0 /\ s11 = 0 /\ s12 = 0
  \/ which = "land" /\ L!Init
  \/ which = "roots" /\ R!Init
     /\ s12 = 0
  \/ which = "serve" /\ S!Init
     /\ s12 = 0

BNext == /\ which = "base" /\ B!Next
         /\ UNCHANGED <<which, s12>>
WNext == /\ which = "worktrees" /\ W!Next
         /\ UNCHANGED <<which, s10, s11, s12>>
MNext == /\ which = "merge" /\ M!Next
         /\ UNCHANGED <<which, s10, s11, s12>>
LNext == /\ which = "land" /\ L!Next
         /\ UNCHANGED which
RNext == /\ which = "roots" /\ R!Next
         /\ UNCHANGED <<which, s12>>
SNext == /\ which = "serve" /\ S!Next
         /\ UNCHANGED <<which, s12>>

Next == BNext \/ WNext \/ MNext \/ LNext \/ RNext \/ SNext
Spec == Init /\ [][Next]_vars

\* A worktree's task keeps the fork point its directory was made at (Workspaces).
PinHolds == which = "worktrees" => W!TypeOK /\ W!PinHolds /\ W!Pinned

\* A base sync absorbs what was committed and loses nothing staged (BaseSync).
SyncIsHonest == [][which = "base" => B!SyncStep /\ B!TypeOK']_vars

\* A merge keeps both sides and the tracked work (Merging).
MergeLosesNothing == [][which = "merge" => M!MergeStep /\ M!TypeOK']_vars

\* A land takes nothing away from the branch or the worktree (Landing).
HostWorkKept == [][which = "land" => L!HostWorkStep /\ L!TypeOK']_vars

\* Only a process that was open before absorbs the stale files of an interrupted
\* apply (Serving).
StaleNeverAbsorbed == [][/\ which = "serve" => S!StaleStep /\ S!TypeOK'
                         /\ which = "roots" => R!StaleStep /\ R!TypeOK']_vars
=============================================================================
