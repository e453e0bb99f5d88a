------------------------------- MODULE MCLive -------------------------------
(* What must come about, in the components that promise it, with the bounds  *)
(* TLC checks them at; a behaviour is a behaviour of one of them.            *)
EXTENDS Naturals

CONSTANTS Nil, Null, c

\* One set of variables serves every component: only one of them runs in a
\* behaviour, and those it has no use for stay 0.
VARIABLES which, s1, s2, s3, s4, s5, s6, s7, s8, s9, s10, s11, s12, s13, s14, s15, s16, s17, s18, s19,
          s20, s21, s22

Handlers == {"h1", "h2", "h3"}
Callers == {"c1", "c2"}
Daemons == {"d1", "d2"}
Clients == {"c1", "c2"}
Ids == {"i", "j"}
Protocols == [p \in Daemons \cup Clients |-> IF p = "c2" THEN 0 ELSE 1]

S == INSTANCE SandboxService WITH
       Tasks <- {"t"}, Worktrees <- {"w"}, Ids <- {"i1", "i2"}, Handlers <- Handlers,
       Faulty <- {"audit", "launch", "wire", "remove"}, MaxRequests <- 4, MaxCrashes <- 1,
       None <- Null, up <- s1, byTask <- s2, task <- s3, worktree <- s4, state <- s5,
       booted <- s6, dead <- s7, boot <- s8, rows <- s9, trail <- s10, vm <- s11, dirs <- s12,
       wired <- s13, lost <- s14, pc <- s15, on <- s16, issued <- s17, crashes <- s18
L == INSTANCE Landing WITH
       Callers <- Callers, Paths <- {"p"}, Contents <- {c}, MaxCommits <- 2, MaxCrashes <- 0,
       Absent <- Nil, commits <- s1, objects <- s2, whole <- s3, rows <- s4, tip <- s5,
       disk <- s6, staged <- s7, guest <- s8, cli <- s9, land <- s10, crashes <- s11,
       late <- s12
D == INSTANCE Daemon WITH
       Daemons <- Daemons, Clients <- Clients, Tasks <- {"t"}, Proto <- Protocols,
       MaxConns <- 1, MaxSpawns <- 1, MaxRequests <- 2, MaxFaults <- 1, MaxStops <- 0,
       None <- Null, pc <- s1, cancelled <- s2, claim <- s3, lock <- s4, sock <- s5,
       record <- s6, row <- s7, vms <- s8, quiet <- s9, authed <- s10, todo <- s11, conn <- s12,
       client <- s13, rootGone <- s14, stopper <- s15, spawned <- s16, asked <- s17,
       faults <- s18, stops <- s19, sealed <- s20, spared <- s21, unlisted <- s22
V == INSTANCE GuestVM WITH
       Ids <- Ids, Dirs <- {"d", "e"}, Backends <- {"libkrun", "kvm"}, Modes <- {"none"},
       MaxLaunches <- 2, MaxFaults <- 1, None <- Null, backend <- s1, up <- s2, seg <- s3,
       dirs <- s4, mode <- s5, reg <- s6, ready <- s7, vmm <- s8, lifeline <- s22, handshake <- s9,
       control <- s10, guest <- s11, bound <- s12, notify <- s13, live <- s14, tap <- s15,
       pc <- s16, cmd <- s17, orphan <- s18, asked <- s19, strayTap <- s20, spent <- s21
E == INSTANCE ExecStream WITH
       Misses <- 3, MaxWedges <- 2, handler <- s1, runner <- s2, done <- s3, prober <- s4,
       due <- s5, answered <- s6, wedged <- s7, caller <- s8, silence <- s9, hung <- s10,
       since <- s11, wedges <- s12
Z == INSTANCE Snapshots WITH
       MaxVersion <- 2, MaxEdits <- 2, MaxFaults <- 1, Keep <- 1, Reverts <- FALSE,
       ClockSteps <- FALSE, wt <- s1, past <- s2, edits <- s3, listed <- s4, watch <- s5,
       pass <- s6, refs <- s7, now <- s8, dest <- s9, faults <- s10

vars == <<which, s1, s2, s3, s4, s5, s6, s7, s8, s9, s10, s11, s12, s13, s14, s15, s16, s17, s18, s19,
          s20, s21, s22>>

Init ==
  \/ which = "service" /\ S!Init
     /\ s19 = 0 /\ s20 = 0 /\ s21 = 0 /\ s22 = 0
  \/ which = "land" /\ L!Init
     /\ s13 = 0 /\ s14 = 0 /\ s15 = 0 /\ s16 = 0 /\ s17 = 0 /\ s18 = 0 /\ s19 = 0
     /\ s20 = 0 /\ s21 = 0 /\ s22 = 0
  \/ which = "daemon" /\ D!Init
  \/ which = "vm" /\ V!Init
  \/ which = "exec" /\ E!Init
     /\ s13 = 0 /\ s14 = 0 /\ s15 = 0 /\ s16 = 0 /\ s17 = 0 /\ s18 = 0 /\ s19 = 0 /\ s20 = 0
     /\ s21 = 0 /\ s22 = 0
  \/ which = "snapshots" /\ Z!Init
     /\ s11 = 0 /\ s12 = 0 /\ s13 = 0 /\ s14 = 0 /\ s15 = 0 /\ s16 = 0 /\ s17 = 0 /\ s18 = 0
     /\ s19 = 0 /\ s20 = 0 /\ s21 = 0 /\ s22 = 0

SNext == /\ which = "service" /\ S!Next
         /\ UNCHANGED <<which, s19, s20, s21, s22>>
LNext == /\ which = "land" /\ L!Next
         /\ UNCHANGED <<which, s13, s14, s15, s16, s17, s18, s19, s20, s21, s22>>
DNext == /\ which = "daemon" /\ D!Next
         /\ UNCHANGED which
VNext == /\ which = "vm" /\ V!Next
         /\ UNCHANGED which
ENext == /\ which = "exec" /\ E!Next
         /\ UNCHANGED <<which, s13, s14, s15, s16, s17, s18, s19, s20, s21, s22>>
ZNext == /\ which = "snapshots" /\ Z!Next
         /\ UNCHANGED <<which, s11, s12, s13, s14, s15, s16, s17, s18, s19, s20, s21, s22>>

Next == SNext \/ LNext \/ DNext \/ VNext \/ ENext \/ ZNext
Rest10 == <<which, s11, s12, s13, s14, s15, s16, s17, s18, s19, s20, s21, s22>>
Rest12 == <<which, s13, s14, s15, s16, s17, s18, s19, s20, s21, s22>>
Rest18 == <<which, s19, s20, s21, s22>>
Rest22 == <<which>>

Boots(h) == which = "service" /\ S!BootStep(h) /\ UNCHANGED Rest18
Resumes(h) == which = "service" /\ S!Resume(h) /\ UNCHANGED Rest18
Lands(c1) == which = "land" /\ L!LandStep(c1) /\ UNCHANGED Rest12
Serves(d1) == which = "daemon" /\ D!DaemonStep(d1) /\ UNCHANGED Rest22
Handles(c1) == which = "daemon" /\ D!ConnStep(c1) /\ UNCHANGED Rest22
Requests(c1) == which = "daemon" /\ D!ClientStep(c1) /\ UNCHANGED Rest22
Expires(c1) == which = "daemon" /\ D!PollEnds(c1) /\ UNCHANGED Rest22
Adopts(i) == which = "vm" /\ V!Adopts(i) /\ UNCHANGED Rest22
Watches(i) == which = "vm" /\ V!watchLifeline(i, TRUE) /\ UNCHANGED Rest22
Beats == which = "exec" /\ E!Daemon /\ UNCHANGED Rest12
Passes == which = "snapshots" /\ Z!startSnapshotPass /\ UNCHANGED Rest10
Observes == which = "snapshots" /\ Z!observeTask /\ UNCHANGED Rest10
Captures == which = "snapshots" /\ Z!Launch /\ UNCHANGED Rest10

\* The fairness of the components: see each of them for why the code has it.
Spec ==
  /\ Init /\ [][Next]_vars
  /\ \A h \in Handlers : WF_vars(Boots(h)) /\ WF_vars(Resumes(h))
  /\ \A c1 \in Callers : WF_vars(Lands(c1))
  /\ \A d1 \in Daemons : WF_vars(Serves(d1))
  /\ \A c1 \in Clients : WF_vars(Handles(c1)) /\ WF_vars(Requests(c1)) /\ WF_vars(Expires(c1))
  /\ \A i \in Ids : WF_vars(Adopts(i)) /\ WF_vars(Watches(i))
  /\ WF_vars(Beats)
  /\ WF_vars(Passes) /\ WF_vars(Observes) /\ WF_vars(Captures)

\* A stall is reported of a wedged daemon only, which cannot keep up its beat (ExecStream).
SilenceIsRead == which = "exec" => E!TypeOK /\ E!SilenceIsRead

\* Everyone who waits on a boot is released (SandboxService).
WaitersReturn ==
  \A h \in Handlers : []<>(which = "service" => ~S!Waiting(h))

\* Every caller of Land gets an answer (Landing).
LandsReturn ==
  \A c1 \in Callers : []<>(which = "land" => ~L!Answering(c1))

\* Every request of a client returns (Daemon).
RequestsReturn ==
  \A c1 \in Clients : []<>(which = "daemon" => ~D!Asking(c1))

\* No daemon lingers with nothing to supervise (Daemon).
NoLingeringDaemon ==
  []<>(which = "daemon" => ~D!Lingering)

\* A VMM whose daemon died ends (GuestVM).
OrphansEnd ==
  []<>(which = "vm" => V!NoOrphan)

\* The goroutine of an exec does not hang on its result (ExecStream).
RunnerEnds ==
  []<>(which = "exec" => ~E!Sending)

\* Work left alone is in a snapshot in the end (Snapshots).
QuietWorkIsSaved ==
  <>[](which = "snapshots" => Z!WorkIsSaved)
=============================================================================
