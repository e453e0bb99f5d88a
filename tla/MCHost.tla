------------------------------- MODULE MCHost -------------------------------
(* The daemon process, its fleet, the commands that talk to it and the       *)
(* launches of agents, with the bounds TLC checks them at; a behaviour is a  *)
(* behaviour of one of them.                                                 *)
EXTENDS Integers, TLC

CONSTANTS Null, a, b

\* What no component tells apart but by name may change names.
Symmetry == Permutations({a, b})

\* One set of variables serves every component: only one of them runs in a
\* behaviour, and those it has no use for stay 0.
VARIABLES which, s1, s2, s3, s4, s5, s6, s7, s8, s9, s10, s11, s12, s13, s14, s15, s16, s17, s18, s19,
          s20, s21, s22

Protocols == [p \in {a, b, "c1", "c2"} |-> IF p = "c2" THEN 0 ELSE 1]

D == INSTANCE Daemon WITH
       Daemons <- {a, b}, Clients <- {"c1", "c2"}, Tasks <- {"t"}, Proto <- Protocols,
       MaxConns <- 1, MaxSpawns <- 2, MaxRequests <- 2, MaxFaults <- 1, MaxStops <- 1,
       None <- Null, pc <- s1, cancelled <- s2, claim <- s3, lock <- s4, sock <- s5,
       record <- s6, row <- s7, vms <- s8, quiet <- s9, authed <- s10, todo <- s11, conn <- s12,
       client <- s13, rootGone <- s14, stopper <- s15, spawned <- s16, asked <- s17,
       faults <- s18, stops <- s19, sealed <- s20, spared <- s21, unlisted <- s22
C == INSTANCE Fleet WITH
       Launches <- {a, b, "l"}, Requests <- {0, 1, 2}, Percents <- {-1, 0, 10, 50, 101},
       Flags <- {0, 2}, Counts <- {0, 2}, HostBytes <- {-1, 0, 150, 700}, MBUnit <- 100,
       Conservative <- 4, Fallback <- 2, MaxFaults <- 1, cap <- s1, call <- s2, live <- s3,
       reserved <- s4, faults <- s5, stuck <- s6
R == INSTANCE SandboxVerbs WITH
       Cmds <- {a, b}, Repos <- {"repo"}, Tasks <- {"t"},
       Wired <- {"land", "grants", "policySet", "export"}, MaxRestarts <- 1,
       bound <- s1, daemon <- s2, owner <- s3, decorated <- s4, cmd <- s5, inbox <- s6,
       restarts <- s7
A == INSTANCE AgentFiles WITH
       MaxRuns <- 1, MaxEdits <- 1, MaxCommits <- 1, MaxFaults <- 1, Named <- {"CLAUDE.md"},
       MarkerEdits <- FALSE, phase <- s1, disk <- s2, head <- s3, staged <- s4, generated <- s5,
       pend <- s6, wrote <- s7, listed <- s8, edited <- s9, rewrite <- s14, spoilt <- s15, runs <- s10, edits <- s11,
       commits <- s12, faults <- s13

vars == <<which, s1, s2, s3, s4, s5, s6, s7, s8, s9, s10, s11, s12, s13, s14, s15, s16, s17, s18, s19,
          s20, s21, s22>>

Init ==
  \/ which = "daemon" /\ D!Init
  \/ which = "fleet" /\ C!Init
     /\ s7 = 0 /\ s8 = 0 /\ s9 = 0 /\ s10 = 0 /\ s11 = 0 /\ s12 = 0 /\ s13 = 0 /\ s14 = 0
     /\ s15 = 0 /\ s16 = 0 /\ s17 = 0 /\ s18 = 0 /\ s19 = 0 /\ s20 = 0 /\ s21 = 0 /\ s22 = 0
  \/ which = "verbs" /\ R!Init
     /\ s8 = 0 /\ s9 = 0 /\ s10 = 0 /\ s11 = 0 /\ s12 = 0 /\ s13 = 0 /\ s14 = 0 /\ s15 = 0
     /\ s16 = 0 /\ s17 = 0 /\ s18 = 0 /\ s19 = 0 /\ s20 = 0 /\ s21 = 0 /\ s22 = 0
  \/ which = "agent" /\ A!Init
     /\ s16 = 0 /\ s17 = 0 /\ s18 = 0 /\ s19 = 0 /\ s20 = 0 /\ s21 = 0 /\ s22 = 0

DNext == /\ which = "daemon" /\ D!Next
         /\ UNCHANGED which
CNext == /\ which = "fleet" /\ C!Next
         /\ UNCHANGED <<which, s7, s8, s9, s10, s11, s12, s13, s14, s15, s16, s17, s18, s19, s20, s21,
                        s22>>
RNext == /\ which = "verbs" /\ R!Next
         /\ UNCHANGED <<which, s8, s9, s10, s11, s12, s13, s14, s15, s16, s17, s18, s19, s20, s21, s22>>
ANext == /\ which = "agent" /\ A!Next
         /\ UNCHANGED <<which, s16, s17, s18, s19, s20, s21, s22>>

Next == DNext \/ CNext \/ RNext \/ ANext
Spec == Init /\ [][Next]_vars

\* What a daemon answers for is supervised and on record, because one process at
\* a time is past the claim (Daemon).
DaemonStands == which = "daemon" => D!TypeOK /\ D!DaemonStands /\ D!Ownership

\* The fleet stays within its ceiling, and reservations balance (Fleet).
AdmissionIsSound == which = "fleet" => C!TypeOK /\ C!AdmissionIsSound

\* A command that reports nothing done did nothing (SandboxVerbs).
NothingMeansNothing == which = "verbs" => R!TypeOK /\ R!NothingMeansNothing

\* Generated and user text of one file stay apart (AgentFiles).
TextsStayApart == [][which = "agent" => A!ApartStep /\ A!TypeOK']_vars
=============================================================================
