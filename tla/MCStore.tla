------------------------------ MODULE MCStore -------------------------------
(* The stores: the index of a repository, bundles, transferred objects, and  *)
(* the bases and images of sandboxes, with the bounds TLC checks them at; a  *)
(* behaviour is a behaviour of one of them.                                  *)
EXTENDS Naturals, TLC

CONSTANTS Nil, Null, TreeBase, OwnBase, OldBase, NewBase, a, b

\* What no component tells apart but by name may change names.
Symmetry == Permutations({a, b})

\* One set of variables serves every component: only one of them runs in a
\* behaviour, and those it has no use for stay 0.
VARIABLES which, s1, s2, s3, s4, s5, s6, s7, s8, s9, s10, s11, s12, s13, s14

\* Three processes open an index; one daemon after another appends to it.
I == INSTANCE IndexStore WITH
       Procs <- {"daemon", a, b}, Daemons <- {"daemon"}, Sandboxes <- {"sandbox"},
       MaxEvents <- 0, MaxTime <- 1, MaxFaults <- 1, None <- Null, mode <- s1, tables <- s2,
       cols <- s3, versions <- s4, writer <- s5, pc <- s6, clock <- s7, ulid <- s8,
       taken <- s9, derived <- s10, latest <- s11, behind <- s12, events <- s13, faults <- s14
E == INSTANCE IndexStore WITH
       Procs <- {"daemon"}, Daemons <- {"daemon"}, Sandboxes <- {a, b},
       MaxEvents <- 3, MaxTime <- 2, MaxFaults <- 1, None <- Null, mode <- s1, tables <- s2,
       cols <- s3, versions <- s4, writer <- s5, pc <- s6, clock <- s7, ulid <- s8,
       taken <- s9, derived <- s10, latest <- s11, behind <- s12, events <- s13, faults <- s14
U == INSTANCE Bundles WITH
       Tasks <- {"t", "u"}, MaxCommits <- 3, MaxExports <- 2, MaxImports <- 2, there <- s1,
       here <- s2, file <- s3, pc <- s4, mode <- s5, read <- s6, left <- s7, imported <- s8,
       skipped <- s9, result <- s10, committed <- s11, exports <- s12, imports <- s13
O == INSTANCE ObjectTransfer WITH
       MaxObjectsPerLand <- 12, MaxFaults <- 3, MaxSaves <- 1, host <- s1, tip <- s2,
       ledger <- s3, priv <- s4, head <- s5, copy <- s6, serve <- s7, land <- s8, policy <- s9,
       faults <- s10, saves <- s11
K == INSTANCE BaseCache WITH
       Roots <- {"A", "B"}, Names <- {"base"}, Digests <- {OldBase, NewBase}, Procs <- {"p1"},
       Default <- "base", OldPins <- {<<"B", OldBase>>},
       InTree <- [r \in {"A", "B"} |-> IF r = "A" THEN OldBase ELSE Nil], MaxRuns <- 2,
       MaxFaults <- 1, Absent <- Nil, Tree <- TreeBase, Own <- OwnBase, entries <- s1,
       full <- s2, pinners <- s3, lock <- s4, legacy <- s5, here <- s6, vm <- s7,
       rewritten <- s8, litter <- s9, proc <- s10, prune <- s11, lost <- s12, runs <- s13,
       faults <- s14
T == INSTANCE ImageTrust WITH
       Procs <- {a, b}, MaxBundles <- 2, MaxKeys <- 2, MaxCommands <- 3, MaxRestarts <- 1,
       key <- s1, pub <- s2, keys <- s3, disk <- s4, lock <- s5, proc <- s6, store <- s7,
       resolve <- s8, admitted <- s9, registered <- s10, commands <- s11, restarts <- s12
G == INSTANCE GuestTree WITH
       MaxLayers <- 2, MaxEntries <- 2, phase <- s1, want <- s2, pin <- s3, layers <- s4,
       genuine <- s5, tree <- s6

vars == <<which, s1, s2, s3, s4, s5, s6, s7, s8, s9, s10, s11, s12, s13, s14>>

Init ==
  \/ which = "index" /\ I!Init
  \/ which = "events" /\ E!Init
  \/ which = "bundles" /\ U!Init
     /\ s14 = 0
  \/ which = "objects" /\ O!Init
     /\ s12 = 0 /\ s13 = 0 /\ s14 = 0
  \/ which = "cache" /\ K!Init
  \/ which = "trust" /\ T!Init
     /\ s13 = 0 /\ s14 = 0
  \/ which = "tree" /\ G!Init
     /\ s7 = 0 /\ s8 = 0 /\ s9 = 0 /\ s10 = 0 /\ s11 = 0 /\ s12 = 0 /\ s13 = 0 /\ s14 = 0

INext == /\ which = "index" /\ I!Next
         /\ UNCHANGED which
ENext == /\ which = "events" /\ E!Next
         /\ UNCHANGED which
UNext == /\ which = "bundles" /\ U!Next
         /\ UNCHANGED <<which, s14>>
ONext == /\ which = "objects" /\ O!Next
         /\ UNCHANGED <<which, s12, s13, s14>>
KNext == /\ which = "cache" /\ K!Next
         /\ UNCHANGED which
TNext == /\ which = "trust" /\ T!Next
         /\ UNCHANGED <<which, s13, s14>>
GNext == /\ which = "tree" /\ G!Next
         /\ UNCHANGED <<which, s7, s8, s9, s10, s11, s12, s13, s14>>

Next == INext \/ ENext \/ UNext \/ ONext \/ KNext \/ TNext \/ GNext
Spec == Init /\ [][Next]_vars

\* Opens succeed, and the newest event decides a sandbox's state (IndexStore).
OpensAndOrders == /\ which = "index" => I!TypeOK /\ I!OpensAndOrders
                  /\ which = "events" => E!TypeOK /\ E!OpensAndOrders

\* An import converges, and foreign rows pass for no local content (Bundles).
ImportIsSound == which = "bundles" => U!TypeOK /\ U!ImportIsSound

\* What a ref of the shared store names is all there (ObjectTransfer).
RefsResolve == which = "objects" => O!TypeOK /\ O!RefsResolve

\* What a daemon boots was registered under the key it trusts (ImageTrust).
AdmittedWasRegistered == which = "trust" => T!TypeOK /\ T!AdmittedWasRegistered /\ T!LockedWasRegistered

\* A published base is the image its layers and its digest say (GuestTree).
BaseIsTheImage == which = "tree" => G!TypeOK /\ G!BaseIsTheImage

\* No pinned base is pruned or rewritten (BaseCache).
PinnedBasesKept == [][which = "cache" => K!PinnedStep /\ K!TypeOK']_vars
=============================================================================
