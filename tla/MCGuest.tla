------------------------------ MODULE MCGuest -------------------------------
(* A sandbox's guest and the host's side of it: worktree syncs, exported     *)
(* artifacts, the notify and port channels, the VM, and its packet filter,   *)
(* with the bounds TLC checks them at; a behaviour is one of one of them.    *)
EXTENDS Naturals, TLC

CONSTANTS Nil, Partial, Null, User, Nothing, Other, x, y, s, t, f1, f2

\* What no component tells apart but by name may change names.
Symmetry == Permutations({s, t}) \cup Permutations({f1, f2})

\* One set of variables serves every component: only one of them runs in a
\* behaviour, and those it has no use for stay 0.
VARIABLES which, s1, s2, s3, s4, s5, s6, s7, s8, s9, s10, s11, s12, s13, s14, s15, s16, s17, s18, s19,
          s20, s21, s22

Worktree == [r \in {"p", "q"} |-> IF r = "p" THEN x ELSE Nil]
GuestFiles == [r \in {f1, f2, "h"} |-> IF r = "h" THEN [kind |-> "link", size |-> 0]
                                          ELSE [kind |-> "file", size |-> 1]]

Y == INSTANCE WorktreeSync WITH
       First <- Worktree, Paths <- {"p", "q"}, Contents <- {x, y}, Links <- {y},
       Callers <- {s, t}, MaxHostEdits <- 2, MaxGuestEdits <- 1, MaxCalls <- 2,
       MaxFaults <- 1, None <- Null, Absent <- Nil, up <- s1, host <- s2, delivered <- s3,
       guest <- s4, view <- s5, syncMu <- s6, candidate <- s7, plan <- s8, todo <- s9,
       pc <- s10, call <- s11, edited <- s12, torn <- s13, stale <- s14, spent <- s15
X == INSTANCE ArtifactExport WITH
       Sandboxes <- {s, t}, Files <- {f1, f2, "h"}, First <- GuestFiles, MaxSize <- 2,
       MaxBytes <- 2, MaxFiles <- 2, MaxEdits <- 2, MaxExports <- 2, MaxFaults <- 1,
       guest <- s1, pc <- s2, single <- s3, planned <- s4, payload <- s5, dest <- s6,
       sidecar <- s7, trail <- s8, unwritten <- s9, spent <- s10
N == INSTANCE LandNotify WITH
       Execs <- {"e1", "e2"}, Handlers <- {"h1", "h2", "h3"}, MaxCommits <- 3, MaxExecs <- 3,
       MaxFaults <- 1, store <- s1, gate <- s2, exec <- s3, listening <- s4, life <- s5,
       handler <- s6, landed <- s7, missed <- s8, spent <- s9
P == INSTANCE PortPublish WITH
       Sandboxes <- {s, t}, HostPorts <- {"port1", "port2"}, Conns <- {"c1", "c2"},
       MaxPublishes <- 2, MaxFaults <- 1, None <- Null, active <- s1, opening <- s2,
       holder <- s3, conn <- s4, spent <- s5
V == INSTANCE GuestVM WITH
       Ids <- {s, t}, Dirs <- {f1, f2}, Backends <- {"libkrun", "kvm", "vzf"},
       Modes <- {"none", "allowlist"}, MaxLaunches <- 2, MaxFaults <- 1, None <- Null,
       backend <- s1, up <- s2, seg <- s3, dirs <- s4, mode <- s5, reg <- s6, ready <- s7,
       vmm <- s8, lifeline <- s22, handshake <- s9, control <- s10, guest <- s11, bound <- s12, notify <- s13,
       live <- s14, tap <- s15, pc <- s16, cmd <- s17, orphan <- s18, asked <- s19,
       strayTap <- s20, spent <- s21
F == INSTANCE TapFilter WITH
       Sandboxes <- {s, t}, Modes <- {"none", "allowlist", "open"}, Uplinks <- {"ext", ""},
       Policies <- {"ACCEPT", "DROP"}, MaxFaults <- 1, plan <- s1, pc <- s2, todo <- s3,
       taps <- s4, forwarding <- s5, chains <- s6, policy <- s7, botched <- s8, faults <- s9

vars == <<which, s1, s2, s3, s4, s5, s6, s7, s8, s9, s10, s11, s12, s13, s14, s15, s16, s17, s18, s19,
          s20, s21, s22>>

Init ==
  \/ which = "sync" /\ Y!Init
     /\ s16 = 0 /\ s17 = 0 /\ s18 = 0 /\ s19 = 0 /\ s20 = 0 /\ s21 = 0 /\ s22 = 0
  \/ which = "export" /\ X!Init
     /\ s11 = 0 /\ s12 = 0 /\ s13 = 0 /\ s14 = 0 /\ s15 = 0 /\ s16 = 0 /\ s17 = 0 /\ s18 = 0
     /\ s19 = 0 /\ s20 = 0 /\ s21 = 0 /\ s22 = 0
  \/ which = "notify" /\ N!Init
     /\ s10 = 0 /\ s11 = 0 /\ s12 = 0 /\ s13 = 0 /\ s14 = 0 /\ s15 = 0 /\ s16 = 0 /\ s17 = 0
     /\ s18 = 0 /\ s19 = 0 /\ s20 = 0 /\ s21 = 0 /\ s22 = 0
  \/ which = "ports" /\ P!Init
     /\ s6 = 0 /\ s7 = 0 /\ s8 = 0 /\ s9 = 0 /\ s10 = 0 /\ s11 = 0 /\ s12 = 0 /\ s13 = 0
     /\ s14 = 0 /\ s15 = 0 /\ s16 = 0 /\ s17 = 0 /\ s18 = 0 /\ s19 = 0 /\ s20 = 0 /\ s21 = 0 /\ s22 = 0
  \/ which = "vm" /\ V!Init
  \/ which = "filter" /\ F!Init
     /\ s10 = 0 /\ s11 = 0 /\ s12 = 0 /\ s13 = 0 /\ s14 = 0 /\ s15 = 0 /\ s16 = 0 /\ s17 = 0
     /\ s18 = 0 /\ s19 = 0 /\ s20 = 0 /\ s21 = 0 /\ s22 = 0

YNext == /\ which = "sync" /\ Y!Next
         /\ UNCHANGED <<which, s16, s17, s18, s19, s20, s21, s22>>
XNext == /\ which = "export" /\ X!Next
         /\ UNCHANGED <<which, s11, s12, s13, s14, s15, s16, s17, s18, s19, s20, s21, s22>>
NNext == /\ which = "notify" /\ N!Next
         /\ UNCHANGED <<which, s10, s11, s12, s13, s14, s15, s16, s17, s18, s19, s20, s21, s22>>
PNext == /\ which = "ports" /\ P!Next
         /\ UNCHANGED <<which, s6, s7, s8, s9, s10, s11, s12, s13, s14, s15, s16, s17, s18, s19, s20,
                        s21, s22>>
VNext == /\ which = "vm" /\ V!Next
         /\ UNCHANGED which
FNext == /\ which = "filter" /\ F!Next
         /\ UNCHANGED <<which, s10, s11, s12, s13, s14, s15, s16, s17, s18, s19, s20, s21, s22>>

Next == YNext \/ XNext \/ NNext \/ PNext \/ VNext \/ FNext
Spec == Init /\ [][Next]_vars

\* What an export leaves on the host is within limits and on record (ArtifactExport).
ExportIsAccounted == which = "export" => X!TypeOK /\ X!ExportIsAccounted

\* When all is quiet, every commit has landed that no lost, failed or late signal
\* left to the next land (LandNotify).
QuietMeansLanded == which = "notify" => N!TypeOK /\ N!QuietMeansLanded /\ N!LandPending

\* A host port is held exactly while it is on record (PortPublish).
PortsOnRecord == which = "ports" => P!TypeOK /\ P!PortsOnRecord /\ P!Reserved

\* What the host holds for a VM has a sandbox that owns it, alone (GuestVM).
HostStateOwned == which = "vm" => V!TypeOK /\ V!HostStateOwned

\* A tap reaches what its mode allows, and leaves no rule behind (TapFilter).
FilterFollowsLife == which = "filter" => F!TypeOK /\ F!FilterFollowsLife

\* A sync keeps the guest's work and its own baseline (WorktreeSync).
SyncKeepsGuest == [][which = "sync" => Y!SyncStep /\ Y!TypeOK']_vars
=============================================================================
