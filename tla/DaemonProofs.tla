---------------------------- MODULE DaemonProofs ----------------------------
(***************************************************************************)
(* Whatever processes compete for a host root, crash, are signalled or     *)
(* stopped, and however clients come and go, the daemon stands: its VMs    *)
(* are supervised, its socket is on record and a drain after a signal      *)
(* leaves nothing behind.  The argument is Ownership: a process past       *)
(* ClaimHostRoot is the claimer, so the writes of the record, of the rows  *)
(* and of the drain are never those of two processes at once.              *)
(*                                                                         *)
(* Two servers that run in the daemon follow: the ports the host holds for *)
(* a sandbox, and the signal that starts a land.                           *)
(***************************************************************************)
EXTENDS Daemon, TLAPS

-----------------------------------------------------------------------------
(* Types. *)

\* The daemon starts from typed state: no process, socket, record or row.
LEMMA TypeInit ==
  ASSUME WellFormed, Init PROVE TypeOK
<1>1. NoConn \in Conns
  BY DEF NoConn, Conns
<1>2. Idle \in Calls
  BY DEF Idle, Calls
<1>3. conn \in [Clients -> Conns] /\ client \in [Clients -> Calls]
  BY <1>1, <1>2 DEF Init
<1>4. /\ pc \in [Daemons -> Phases] /\ todo \in [Daemons -> SUBSET Tasks]
      /\ row \in [Tasks -> {"none", "created", "running"}]
      /\ stopper \in [rec : Daemons \cup {None}, alive : BOOLEAN]
  BY DEF Init, Phases
<1>5. /\ spawned \in 0..MaxSpawns /\ asked \in 0..MaxRequests
      /\ faults \in 0..MaxFaults /\ stops \in 0..MaxStops
  BY DEF Init, WellFormed
<1> QED
  BY Zenon, <1>3, <1>4, <1>5 DEF Init, TypeOK

\* What the client's helpers leave of its connection and its call is typed
\* (Client.roundTrip, dialOK, ensureRunning).
LEMMA CallTypes ==
  ASSUME TypeOK, NEW c \in Clients
  PROVE  /\ HangUp(c) => conn' \in [Clients -> Conns]
         /\ Frees(c) => conn' \in [Clients -> Conns]
         /\ Return(c) => client' \in [Clients -> Calls]
         /\ \A st \in Busy \cup {"idle", "gone"} : Step(c, st) => client' \in [Clients -> Calls]
<1>1. NoConn \in Conns /\ Idle \in Calls
  BY DEF NoConn, Conns, Idle, Calls
<1>2. HangUp(c) => conn' \in [Clients -> Conns]
  BY <1>1 DEF TypeOK, HangUp, Frees
<1>3. Frees(c) => conn' \in [Clients -> Conns]
  BY <1>1 DEF TypeOK, Frees
<1>4. Return(c) => client' \in [Clients -> Calls]
  BY <1>1 DEF TypeOK, Return
<1>5. ASSUME NEW st \in Busy \cup {"idle", "gone"}, Step(c, st)
      PROVE  client' \in [Clients -> Calls]
  BY <1>5 DEF TypeOK, Step, Calls
<1> QED
  BY <1>2, <1>3, <1>4, <1>5

\* The steps of a daemon process keep the types (Daemon.Run, run).
LEMMA DaemonTypes ==
  ASSUME WellFormed, TypeOK, NEW d \in Daemons, DaemonStep(d)
  PROVE  TypeOK'
<1>1. ASSUME ClaimHostRoot(d) PROVE TypeOK'
  BY <1>1 DEF ClaimHostRoot, Go, TypeOK, WellFormed, Phases, Conns, dvars,
     svars, cvars, bvars, hvars
<1>2. ASSUME Rehydrate(d) PROVE TypeOK'
  BY <1>2 DEF Rehydrate, Go, TypeOK, WellFormed, Phases, Conns, dvars, svars,
     cvars, bvars, hvars
<1>3. ASSUME WriteRecord(d) PROVE TypeOK'
  BY <1>3 DEF WriteRecord, Go, Fault, TypeOK, WellFormed, Phases, Conns,
     dvars, svars, cvars, bvars, hvars
<1>4. ASSUME Listen(d) PROVE TypeOK'
  BY <1>4 DEF Listen, Go, TypeOK, WellFormed, Phases, Conns, dvars, svars,
     cvars, bvars, hvars
<1>5. ASSUME Authed(d) PROVE TypeOK'
  BY <1>5 DEF Authed, TypeOK, WellFormed, Phases, Conns, dvars, svars, cvars,
     bvars, hvars
<1>6. ASSUME Poll(d) PROVE TypeOK'
  BY <1>6 DEF Poll, TypeOK, WellFormed, Phases, Conns, dvars, svars, cvars,
     bvars, hvars
<1>7. ASSUME Shutdown(d) PROVE TypeOK'
  BY <1>7 DEF Shutdown, Go, TypeOK, WellFormed, Phases, Conns, dvars, svars,
     cvars, bvars, hvars
<1>8. ASSUME DrainList(d) PROVE TypeOK'
  BY <1>8 DEF DrainList, Go, Fault, TypeOK, WellFormed, Phases, Conns, dvars,
     svars, cvars, bvars, hvars
<1>9. ASSUME CleanupSocket(d) PROVE TypeOK'
  BY <1>9 DEF CleanupSocket, NoConn, TypeOK, WellFormed, Phases, Conns, dvars,
     svars, cvars, bvars, hvars
<1>10. ASSUME RemoveRecord(d) PROVE TypeOK'
  BY <1>10 DEF RemoveRecord, Go, Fault, TypeOK, WellFormed, Phases, Conns,
     dvars, svars, cvars, bvars, hvars
<1>11. ASSUME Exit(d) PROVE TypeOK'
  BY <1>11 DEF Exit, Ends, NoConn, TypeOK, WellFormed, Phases, Conns, dvars,
     svars, cvars, bvars, hvars
<1>12. ASSUME NEW t \in Tasks, DrainOne(d, t) PROVE TypeOK'
  BY <1>12 DEF DrainOne, Fault, TypeOK, WellFormed, dvars, svars, cvars, bvars,
     hvars
<1>13. ASSUME NEW c \in Clients, Accept(d, c) PROVE TypeOK'
  <2>1. conn' \in [Clients -> Conns]
    BY CallTypes, <1>13 DEF Accept, TypeOK, Conns
  <2> QED
    BY <1>13, <2>1 DEF Accept, TypeOK, svars, bvars, hvars
<1> QED
  BY <1>1, <1>2, <1>3, <1>4, <1>5, <1>6, <1>7, <1>8, <1>9, <1>10, <1>11, <1>12,
     <1>13 DEF DaemonStep

\* The steps of a client keep the types (ensureRunning, Client.roundTrip).
LEMMA ClientTypes ==
  ASSUME WellFormed, TypeOK, NEW c \in Clients, ClientStep(c)
  PROVE  TypeOK'
<1>1. ASSUME Dial(c) PROVE TypeOK'
  <2>1. conn' \in [Clients -> Conns]
    BY <1>1 DEF Dial, Answering, TypeOK, Conns
  <2>2. client' \in [Clients -> Calls]
    BY CallTypes, <1>1 DEF Dial, Busy
  <2> QED
    BY <1>1, <2>1, <2>2 DEF Dial, TypeOK, dvars, svars, bvars, hvars
<1>2. ASSUME ProbeFails(c) PROVE TypeOK'
  <2>1. pc' \in [Daemons -> Phases]
    BY Zenon, <1>2 DEF ProbeFails, TypeOK, Phases
  <2>3. spawned' \in 0..MaxSpawns
    BY SMT, Z3, <1>2 DEF ProbeFails, TypeOK, WellFormed
  <2>2. conn' \in [Clients -> Conns] /\ client' \in [Clients -> Calls]
    BY CallTypes, <1>2 DEF ProbeFails, Busy
  <2> QED
    BY <1>2, <2>1, <2>2, <2>3 DEF ProbeFails, TypeOK, svars, hvars
<1>3. ASSUME PollAgain(c) PROVE TypeOK'
  <2>1. conn' \in [Clients -> Conns] /\ client' \in [Clients -> Calls]
    BY CallTypes, <1>3 DEF PollAgain, Busy
  <2> QED
    BY <1>3, <2>1 DEF PollAgain, TypeOK, dvars, svars, bvars, hvars
<1>4. ASSUME PollEnds(c) PROVE TypeOK'
  <2>1. conn' \in [Clients -> Conns] /\ client' \in [Clients -> Calls]
    BY CallTypes, <1>4 DEF PollEnds, Busy
  <2> QED
    BY <1>4, <2>1 DEF PollEnds, TypeOK, dvars, svars, bvars, hvars
<1>5. ASSUME CallFails(c) PROVE TypeOK'
  <2>1. conn' \in [Clients -> Conns] /\ client' \in [Clients -> Calls]
    BY CallTypes, <1>5 DEF CallFails, Busy
  <2> QED
    BY <1>5, <2>1 DEF CallFails, TypeOK, dvars, svars, bvars, hvars
<1>6. ASSUME ProbeOK(c) PROVE TypeOK'
  <2>1. conn' \in [Clients -> Conns] /\ client' \in [Clients -> Calls]
    BY CallTypes, <1>6 DEF ProbeOK, Busy
  <2> QED
    BY <1>6, <2>1 DEF ProbeOK, TypeOK, dvars, svars, bvars, hvars
<1>7. ASSUME Handshake(c) PROVE TypeOK'
  <2>1. conn' \in [Clients -> Conns] /\ client' \in [Clients -> Calls]
    BY CallTypes, <1>7 DEF Handshake, TypeOK, Conns
  <2> QED
    BY <1>7, <2>1 DEF Handshake, TypeOK, dvars, svars, bvars, hvars
<1> QED
  BY <1>1, <1>2, <1>3, <1>4, <1>5, <1>6, <1>7 DEF ClientStep

\* A handler's effect on the rows and the VMs is typed (Daemon.dispatch).
LEMMA ServeTypes ==
  ASSUME WellFormed, TypeOK, ServedIsAsked, NEW c \in Clients, ConnStep(c)
  PROVE  TypeOK'
<1>1. ASSUME Serve(c) PROVE TypeOK'
  <2>1. PICK ok \in BOOLEAN :
          /\ Effect(conn[c].to, c, ok)
          /\ conn' = [conn EXCEPT ![c].st = IF ok THEN "ok" ELSE "failed"]
    BY Zenon, <1>1 DEF Serve
  <2>2. conn' \in [Clients -> Conns]
    BY <2>1 DEF TypeOK, Conns
  <2>3. row' \in [Tasks -> {"none", "created", "running"}]
    BY <2>1 DEF Effect, TypeOK
  <2>4. vms' \subseteq Tasks
    <3>1. client[c].task \in Tasks
      BY <1>1 DEF Serve, ServedIsAsked
    <3> QED
      BY <2>1, <3>1 DEF Effect, TypeOK
  <2> QED
    BY <1>1, <2>2, <2>3, <2>4 DEF Serve, TypeOK, dvars, bvars, hvars
<1>2. ASSUME Reply(c) PROVE TypeOK'
  <2>1. conn' \in [Clients -> Conns] /\ client' \in [Clients -> Calls]
    BY CallTypes, <1>2 DEF Reply
  <2> QED
    BY <1>2, <2>1 DEF Reply, TypeOK, dvars, svars, bvars, hvars
<1> QED
  BY <1>1, <1>2 DEF ConnStep

\* The environment's steps keep the types: requests, crashes, signals, failures
\* and the stop command.
LEMMA EnvironmentTypes ==
  ASSUME WellFormed, TypeOK, Environment \/ StopActs
  PROVE  TypeOK'
<1>1. ASSUME NEW c \in Clients, Ask(c) PROVE TypeOK'
  BY <1>1 DEF Ask, TypeOK, WellFormed, Calls, Busy, dvars, svars, cvars,
     bvars, hvars
<1>2. ASSUME NEW d \in Daemons, Crash(d) PROVE TypeOK'
  BY <1>2 DEF Crash, Ends, Fault, NoConn, TypeOK, WellFormed, Conns, Phases,
     dvars, svars, cvars, bvars, hvars
<1>3. ASSUME NEW d \in Daemons, Signal(d) PROVE TypeOK'
  BY <1>3 DEF Signal, Fault, TypeOK, WellFormed, dvars, svars, cvars, bvars,
     hvars
<1>4. ASSUME NEW d \in Daemons, StartFails(d) PROVE TypeOK'
  BY <1>4 DEF StartFails, Ends, Fault, NoConn, TypeOK, WellFormed, Conns,
     Phases, dvars, svars, cvars, bvars, hvars
<1>5. ASSUME NEW d \in Daemons, AcceptFails(d) PROVE TypeOK'
  BY <1>5 DEF AcceptFails, Go, Fault, TypeOK, WellFormed, Phases, dvars,
     svars, cvars, bvars, hvars
<1>6. ASSUME RootVanishes PROVE TypeOK'
  BY <1>6 DEF RootVanishes, Fault, TypeOK, WellFormed, dvars, svars, cvars,
     bvars, hvars
<1>7. ASSUME StopLists PROVE TypeOK'
  BY <1>7 DEF StopLists, Alive, TypeOK, WellFormed, dvars, svars, cvars,
     bvars, hvars
<1>8. ASSUME StopActs PROVE TypeOK'
  BY <1>8 DEF StopActs, Alive, TypeOK, WellFormed, dvars, svars, cvars,
     bvars, hvars
<1> QED
  BY Zenon, <1>1, <1>2, <1>3, <1>4, <1>5, <1>6, <1>7, <1>8 DEF Environment

\* Every step keeps the types.
LEMMA TypeStep ==
  ASSUME WellFormed, TypeOK, ServedIsAsked, [Next]_vars PROVE TypeOK'
<1>1. CASE UNCHANGED vars
  BY <1>1 DEF TypeOK, vars, dvars, svars, cvars, bvars, hvars
<1> QED
  BY <1>1, DaemonTypes, ClientTypes, ServeTypes, EnvironmentTypes DEF Next
-----------------------------------------------------------------------------
(* The host root. *)

\* What follows from the claim, and the steps that leave it and the registry alone.
Rooted == OneClaimer /\ RecordKept /\ VMsOutlastBoot /\ SealedIsLast
          /\ VMsSupervised /\ SignalDrainComplete
Aside  == /\ UNCHANGED <<claim, record, todo, cancelled, svars, sealed, spared, unlisted>>
          /\ \A d \in Daemons : pc'[d] = pc[d] \/ (pc[d] = "absent" /\ pc'[d] = "started")

\* A process that merely starts, and a step of a client, change nothing of it.
LEMMA AsideKeeps ==
  ASSUME TypeOK, Rooted, Aside
  PROVE  Rooted'
<1> USE DEF Rooted, Aside, svars
<1>1. OneClaimer'
  BY DEF OneClaimer
<1>2. RecordKept'
  BY DEF RecordKept, Recorded, Bound
<1>3. VMsOutlastBoot'
  BY DEF VMsOutlastBoot
<1>4. SealedIsLast'
  BY DEF SealedIsLast, TypeOK
<1>5. VMsSupervised' /\ SignalDrainComplete'
  BY DEF VMsSupervised, SignalDrainComplete
<1> QED
  BY <1>1, <1>2, <1>3, <1>4, <1>5

\* The steps of a daemon process (Daemon.Run, run).
LEMMA DaemonRooted ==
  ASSUME WellFormed, TypeOK, Rooted, NEW d \in Daemons, DaemonStep(d)
  PROVE  Rooted'
<1> USE DEF WellFormed, TypeOK, Rooted, OneClaimer, RecordKept, VMsOutlastBoot, SealedIsLast,
           VMsSupervised, SignalDrainComplete, Recorded, Bound
<1>1. ASSUME ClaimHostRoot(d) PROVE Rooted'
  BY <1>1 DEF ClaimHostRoot, Go, dvars, svars, cvars, bvars, hvars
<1>2. ASSUME Rehydrate(d) PROVE Rooted'
  BY ZenonT(60), <1>2 DEF Rehydrate, Go, dvars, svars, cvars, bvars, hvars
<1>3. ASSUME WriteRecord(d) PROVE Rooted'
  BY ZenonT(60), <1>3 DEF WriteRecord, Go, Fault, dvars, svars, cvars, bvars, hvars
<1>4. ASSUME Listen(d) PROVE Rooted'
  BY <1>4 DEF Listen, Go, dvars, svars, cvars, bvars, hvars
<1>5. ASSUME Authed(d) PROVE Rooted'
  BY Zenon, <1>5 DEF Authed, dvars, svars, cvars, bvars, hvars
<1>6. ASSUME Poll(d) PROVE Rooted'
  BY <1>6 DEF Poll, dvars, svars, cvars, bvars, hvars
<1>7. ASSUME Shutdown(d) PROVE Rooted'
  BY ZenonT(60), <1>7 DEF Shutdown, Go, dvars, svars, cvars, bvars, hvars
<1>8. ASSUME DrainList(d) PROVE Rooted'
  BY SMT, Z3, <1>8 DEF DrainList, Go, Fault, dvars, svars, cvars, bvars, hvars
<1>9. ASSUME CleanupSocket(d) PROVE Rooted'
  BY <1>9 DEF CleanupSocket, NoConn, dvars, svars, cvars, bvars, hvars
<1>10. ASSUME RemoveRecord(d) PROVE Rooted'
  BY ZenonT(60), <1>10 DEF RemoveRecord, Go, Fault, dvars, svars, cvars, bvars, hvars
<1>11. ASSUME Exit(d) PROVE Rooted'
  BY ZenonT(60), <1>11 DEF Exit, Ends, NoConn, dvars, svars, cvars, bvars, hvars
<1>12. ASSUME NEW t \in Tasks, DrainOne(d, t) PROVE Rooted'
  BY <1>12 DEF DrainOne, Fault, dvars, svars, cvars, bvars, hvars
<1>13. ASSUME NEW c \in Clients, Accept(d, c) PROVE Rooted'
  BY <1>13 DEF Accept, Frees, NoConn, dvars, svars, cvars, bvars, hvars
<1> QED
  BY Zenon, <1>1, <1>2, <1>3, <1>4, <1>5, <1>6, <1>7, <1>8, <1>9, <1>10, <1>11,
     <1>12, <1>13 DEF DaemonStep

\* Crashes, signals, failures and the stop command.
LEMMA EnvironmentRooted ==
  ASSUME WellFormed, TypeOK, Rooted, Environment \/ StopActs
  PROVE  Rooted'
<1> USE DEF WellFormed, TypeOK, Rooted, OneClaimer, RecordKept, VMsOutlastBoot, SealedIsLast,
           VMsSupervised, SignalDrainComplete, Recorded, Bound
<1>1. ASSUME NEW c \in Clients, Ask(c) PROVE Rooted'
  BY Zenon, <1>1 DEF Ask, dvars, svars, cvars, bvars, hvars
<1>2. ASSUME NEW d \in Daemons, Crash(d) PROVE Rooted'
  BY ZenonT(60), <1>2 DEF Crash, Ends, Fault, NoConn, dvars, svars, cvars, bvars, hvars
<1>3. ASSUME NEW d \in Daemons, Signal(d) PROVE Rooted'
  BY Zenon, <1>3 DEF Signal, Fault, dvars, svars, cvars, bvars, hvars
<1>4. ASSUME NEW d \in Daemons, StartFails(d) PROVE Rooted'
  BY SMT, Z3, <1>4 DEF StartFails, Ends, Fault, NoConn, dvars, svars, cvars, bvars,
     hvars
<1>5. ASSUME NEW d \in Daemons, AcceptFails(d) PROVE Rooted'
  BY <1>5 DEF AcceptFails, Go, Fault, dvars, svars, cvars, bvars, hvars
<1>6. ASSUME RootVanishes PROVE Rooted'
  BY Zenon, <1>6 DEF RootVanishes, Fault, dvars, svars, cvars, bvars, hvars
<1>7. ASSUME StopLists PROVE Rooted'
  BY Zenon, <1>7 DEF StopLists, Alive, dvars, svars, cvars, bvars, hvars
<1>8. ASSUME StopActs PROVE Rooted'
  BY <1>8 DEF StopActs, Alive, dvars, svars, cvars, bvars, hvars
<1> QED
  BY Zenon, <1>1, <1>2, <1>3, <1>4, <1>5, <1>6, <1>7, <1>8 DEF Environment


\* A client's step, which may start a process, leaves the host root alone
\* (ensureRunning, Client.roundTrip).
LEMMA ClientAside ==
  ASSUME TypeOK, NEW c \in Clients, ClientStep(c)
  PROVE  Aside
<1>1. ASSUME ProbeFails(c) PROVE Aside
  <2>1. CASE UNCHANGED pc
    BY Zenon, <1>1, <2>1 DEF ProbeFails, Aside, svars, hvars
  <2>2. CASE \E d \in Spares : pc' = [pc EXCEPT ![d] = "started"]
    <3>1. PICK d \in Spares : pc' = [pc EXCEPT ![d] = "started"]
      BY ZenonT(60), <2>2
    <3>2. d \in Daemons /\ pc[d] = "absent"
      BY <3>1 DEF Spares, Alive
    <3> QED
      BY <1>1, <3>1, <3>2 DEF ProbeFails, Aside, TypeOK, svars, hvars
  <2> QED
    BY Zenon, <1>1, <2>1, <2>2 DEF ProbeFails
<1>2. ASSUME UNCHANGED <<dvars, svars, hvars>> PROVE Aside
  BY <1>2 DEF Aside, dvars, svars, hvars
<1> QED
  BY Zenon, <1>1, <1>2 DEF ClientStep, Dial, PollAgain, PollEnds, CallFails, ProbeOK, Handshake

\* A handler's effect on rows and VMs is that of the claimer, and none once the
\* claimer is cancelled (Daemon.dispatch).
LEMMA ServeRooted ==
  ASSUME WellFormed, TypeOK, Rooted, PeerIsUp, ServedIsAsked, NEW c \in Clients, ConnStep(c)
  PROVE  Rooted'
<1>1. ASSUME Serve(c) PROVE Rooted'
  <2>1. PICK ok \in BOOLEAN : Effect(conn[c].to, c, ok)
    BY <1>1 DEF Serve
  <2>2. PICK d \in Daemons : d = conn[c].to /\ pc[d] \in Connected
    BY <1>1 DEF Serve, PeerIsUp
  <2>3. PICK t \in Tasks : t = client[c].task
    BY <1>1 DEF Serve, ServedIsAsked
  <2>4. claim = d /\ pc[d] # "claimed"
    BY <2>2 DEF Rooted, OneClaimer, Connected, Bound
  <2>5. /\ ~ok => UNCHANGED <<row, vms>>
        /\ ok => /\ d \notin cancelled
                 /\ \/ row[t] = "none" /\ row' = [row EXCEPT ![t] = "created"] /\ vms' = vms
                    \/ row' = [row EXCEPT ![t] = "running"] /\ vms' = vms \cup {t}
                    \/ row' = [row EXCEPT ![t] = "none"] /\ vms' = vms \ {t}
    BY <2>1, <2>2, <2>3 DEF Effect
  <2>6. UNCHANGED <<pc, cancelled, claim, record, todo, sealed, spared, unlisted>>
    BY <1>1 DEF Serve, dvars, hvars
  <2>7. OneClaimer' /\ RecordKept' /\ SealedIsLast'
    BY <2>6 DEF Rooted, OneClaimer, RecordKept, SealedIsLast
  <2>8. VMsOutlastBoot'
    BY Zenon, <2>4, <2>6 DEF VMsOutlastBoot
  <2>9. VMsSupervised'
    BY SMT, Z3, <2>4, <2>5, <2>6 DEF WellFormed, Rooted, VMsSupervised, TypeOK
  <2>10. SignalDrainComplete'
    <3>1. ASSUME NEW e \in sealed PROVE ~ok
      BY <2>4, <2>5, <3>1 DEF Rooted, SealedIsLast, OneClaimer, TypeOK
    <3> QED
      BY <2>5, <2>6, <3>1 DEF Rooted, SignalDrainComplete
  <2> QED
    BY <2>7, <2>8, <2>9, <2>10 DEF Rooted
<1>2. ASSUME Reply(c) PROVE Rooted'
  BY <1>2, AsideKeeps DEF Reply, Aside, dvars, svars, hvars
<1> QED
  BY <1>1, <1>2 DEF ConnStep

-----------------------------------------------------------------------------
(* Connections. *)

\* The steps of a daemon process keep its connections its own (Daemon.Run).
LEMMA DaemonPeers ==
  ASSUME WellFormed, TypeOK, OneClaimer, PeerIsUp, NEW d \in Daemons, DaemonStep(d)
  PROVE  PeerIsUp'
<1> USE DEF WellFormed, TypeOK, OneClaimer, PeerIsUp, Conns, Connected, Bound
<1>1. ASSUME ClaimHostRoot(d) PROVE PeerIsUp'
  BY ZenonT(60), <1>1 DEF ClaimHostRoot, Go, dvars, svars, cvars, bvars, hvars
<1>2. ASSUME Rehydrate(d) PROVE PeerIsUp'
  BY Zenon, <1>2 DEF Rehydrate, Go, dvars, svars, cvars, bvars, hvars
<1>3. ASSUME WriteRecord(d) PROVE PeerIsUp'
  BY Zenon, <1>3 DEF WriteRecord, Go, Fault, dvars, svars, cvars, bvars, hvars
<1>4. ASSUME Listen(d) PROVE PeerIsUp'
  BY Zenon, <1>4 DEF Listen, Go, dvars, svars, cvars, bvars, hvars
<1>5. ASSUME Authed(d) PROVE PeerIsUp'
  BY Zenon, <1>5 DEF Authed, dvars, svars, cvars, bvars, hvars
<1>6. ASSUME Poll(d) PROVE PeerIsUp'
  BY ZenonT(60), <1>6 DEF Poll, dvars, svars, cvars, bvars, hvars
<1>7. ASSUME Shutdown(d) PROVE PeerIsUp'
  BY Zenon, <1>7 DEF Shutdown, Go, dvars, svars, cvars, bvars, hvars
<1>8. ASSUME DrainList(d) PROVE PeerIsUp'
  BY ZenonT(60), <1>8 DEF DrainList, Go, Fault, dvars, svars, cvars, bvars, hvars
<1>9. ASSUME CleanupSocket(d) PROVE PeerIsUp'
  BY Zenon, <1>9 DEF CleanupSocket, NoConn, dvars, svars, cvars, bvars, hvars
<1>10. ASSUME RemoveRecord(d) PROVE PeerIsUp'
  BY Zenon, <1>10 DEF RemoveRecord, Go, Fault, dvars, svars, cvars, bvars, hvars
<1>11. ASSUME Exit(d) PROVE PeerIsUp'
  BY Zenon, <1>11 DEF Exit, Ends, NoConn, dvars, svars, cvars, bvars, hvars
<1>12. ASSUME NEW t \in Tasks, DrainOne(d, t) PROVE PeerIsUp'
  BY <1>12 DEF DrainOne, Fault, dvars, svars, cvars, bvars, hvars
<1>13. ASSUME NEW c \in Clients, Accept(d, c) PROVE PeerIsUp'
  BY <1>13 DEF Accept, Frees, NoConn, dvars, svars, cvars, bvars, hvars
<1> QED
  BY Zenon, <1>1, <1>2, <1>3, <1>4, <1>5, <1>6, <1>7, <1>8, <1>9, <1>10, <1>11,
     <1>12, <1>13 DEF DaemonStep

\* So do crashes, signals and failures: a process takes its connections along.
LEMMA EnvironmentPeers ==
  ASSUME WellFormed, TypeOK, OneClaimer, PeerIsUp, Environment \/ StopActs
  PROVE  PeerIsUp'
<1> USE DEF WellFormed, TypeOK, OneClaimer, PeerIsUp, Conns, Connected, Bound
<1>1. ASSUME NEW c \in Clients, Ask(c) PROVE PeerIsUp'
  BY Zenon, <1>1 DEF Ask, dvars, svars, cvars, bvars, hvars
<1>2. ASSUME NEW d \in Daemons, Crash(d) PROVE PeerIsUp'
  BY Zenon, <1>2 DEF Crash, Ends, Fault, NoConn, dvars, svars, cvars, bvars, hvars
<1>3. ASSUME NEW d \in Daemons, Signal(d) PROVE PeerIsUp'
  BY Zenon, <1>3 DEF Signal, Fault, dvars, svars, cvars, bvars, hvars
<1>4. ASSUME NEW d \in Daemons, StartFails(d) PROVE PeerIsUp'
  BY Zenon, <1>4 DEF StartFails, Ends, Fault, NoConn, dvars, svars, cvars, bvars,
     hvars
<1>5. ASSUME NEW d \in Daemons, AcceptFails(d) PROVE PeerIsUp'
  BY Zenon, <1>5 DEF AcceptFails, Go, Fault, dvars, svars, cvars, bvars, hvars
<1>6. ASSUME RootVanishes PROVE PeerIsUp'
  BY Zenon, <1>6 DEF RootVanishes, Fault, dvars, svars, cvars, bvars, hvars
<1>7. ASSUME StopLists PROVE PeerIsUp'
  BY Zenon, <1>7 DEF StopLists, Alive, dvars, svars, cvars, bvars, hvars
<1>8. ASSUME StopActs PROVE PeerIsUp'
  BY Zenon, <1>8 DEF StopActs, Alive, dvars, svars, cvars, bvars, hvars
<1> QED
  BY Zenon, <1>1, <1>2, <1>3, <1>4, <1>5, <1>6, <1>7, <1>8 DEF Environment


\* A client connects to a socket somebody listens on, and a handler answers on the
\* connection it was given (dialOK, dialGreeted).
LEMMA ClientPeers ==
  ASSUME TypeOK, PeerIsUp, NEW c \in Clients, ClientStep(c) \/ ConnStep(c)
  PROVE  PeerIsUp'
<1>1. \A e \in Clients : conn'[e].st # "free" =>
        \/ conn[e].st # "free" /\ conn'[e].to = conn[e].to
        \/ conn'[e].to = sock /\ Answering
  <2>1. CASE UNCHANGED conn \/ Frees(c)
    BY <2>1 DEF Frees, NoConn, TypeOK
  <2>2. CASE Dial(c)
    BY <2>2 DEF Dial, TypeOK
  <2>3. CASE conn[c].st # "free" /\ \E st \in STRING : conn' = [conn EXCEPT ![c].st = st]
    BY <2>3 DEF TypeOK, Conns
  <2>4. CASE Handshake(c)
    <3>1. CASE Frees(c)
      BY Zenon, <2>1, <3>1
    <3>2. CASE conn' = [conn EXCEPT ![c].st = "agreed"]
      BY <2>3, <2>4, <3>2 DEF Handshake
    <3> QED
      BY <2>4, <3>1, <3>2 DEF Handshake
  <2>5. CASE Serve(c)
    BY <2>3, <2>5 DEF Serve
  <2> QED
    BY Zenon, <2>1, <2>2, <2>4, <2>5 DEF ClientStep, ConnStep, ProbeFails, PollAgain, PollEnds,
       CallFails, ProbeOK, Reply, HangUp
<1>2. \A d \in Daemons : pc[d] \in Connected => pc'[d] = pc[d]
  <2>1. CASE ClientStep(c)
    BY <2>1, ClientAside DEF Aside, Connected, Bound
  <2>2. CASE ConnStep(c)
    BY <2>2 DEF ConnStep, Serve, Reply, dvars
  <2> QED
    BY Zenon, <2>1, <2>2
<1>3. Answering => sock \in Daemons /\ pc[sock] \in Connected
  BY DEF Answering, TypeOK, Connected
<1> QED
  BY <1>1, <1>2, <1>3 DEF PeerIsUp

\* What a handler is asked for has a task, and the client that asked waits for the
\* answer or has given up (Daemon.handle, Client.roundTrip).
LEMMA AskedStep ==
  ASSUME TypeOK, ServedIsAsked, Next
  PROVE  ServedIsAsked'
<1>1. ASSUME UNCHANGED client, \A e \in Clients : conn'[e].st = "agreed" => conn[e].st = "agreed"
      PROVE  ServedIsAsked'
  BY <1>1 DEF ServedIsAsked
<1>2. ASSUME NEW d \in Daemons,
             DaemonStep(d) \/ Crash(d) \/ Signal(d) \/ StartFails(d) \/ AcceptFails(d)
      PROVE  ServedIsAsked'
  <2>1. ASSUME Ends(d) PROVE \A e \in Clients : conn'[e].st = "agreed" => conn[e].st = "agreed"
    BY <2>1 DEF Ends, NoConn
  <2>2. ASSUME CleanupSocket(d) PROVE ServedIsAsked'
    BY Zenon, <1>1, <2>2 DEF CleanupSocket, NoConn
  <2>3. ASSUME NEW c \in Clients, Accept(d, c) PROVE ServedIsAsked'
    <3>1. \A e \in Clients : conn'[e].st = "agreed" => conn[e].st = "agreed"
      <4>1. CASE conn' = [conn EXCEPT ![c].st = "greeted"]
        BY <4>1 DEF TypeOK, Conns
      <4>2. CASE Frees(c)
        BY <4>2 DEF Frees, NoConn, TypeOK
      <4> QED
        BY <2>3, <4>1, <4>2 DEF Accept
    <3> QED
      BY <1>1, <2>3, <3>1 DEF Accept
  <2>4. ASSUME UNCHANGED cvars PROVE ServedIsAsked'
    BY <1>1, <2>4 DEF cvars
  <2> QED
    BY ZenonT(60), <1>1, <1>2, <2>1, <2>2, <2>3, <2>4 DEF DaemonStep, ClaimHostRoot,
       Rehydrate, WriteRecord,
       Listen, Authed, Poll, Shutdown, DrainList, RemoveRecord, DrainOne, Exit, Crash,
       Signal, StartFails, AcceptFails
<1>3. ASSUME NEW c \in Clients, ClientStep(c) \/ ConnStep(c) \/ Ask(c)
      PROVE  ServedIsAsked'
  <2>1. CASE Ask(c)
    BY <2>1 DEF Ask, NoConn, TypeOK, ServedIsAsked
  <2>2. CASE Return(c) /\ (Frees(c) \/ (HangUp(c) /\ conn[c].st # "agreed"))
    BY <2>2 DEF Return, Idle, Frees, HangUp, NoConn, TypeOK, ServedIsAsked
  <2>3. ASSUME NEW st \in {"poll", "call", "gone"}, Step(c, st), Frees(c) \/ HangUp(c),
               client[c].st # "idle", conn[c].st = "agreed" => st = "gone"
        PROVE  ServedIsAsked'
    BY <2>3 DEF Step, Frees, HangUp, NoConn, TypeOK, Calls, ServedIsAsked
  <2>4. CASE Dial(c)
    BY <2>4 DEF Dial, Step, TypeOK, Calls, ServedIsAsked
  <2>5. CASE ProbeOK(c)
    BY Zenon, <2>3, <2>5 DEF ProbeOK
  <2>6. CASE ProbeFails(c)
    BY Zenon, <2>2, <2>3, <2>6 DEF ProbeFails, ServedIsAsked
  <2>7. CASE PollAgain(c) \/ PollEnds(c)
    BY <2>2, <2>3, <2>7 DEF PollAgain, PollEnds, ServedIsAsked
  <2>8. CASE CallFails(c)
    BY Zenon, <2>2, <2>3, <2>8 DEF CallFails, ServedIsAsked
  <2>9. CASE Handshake(c)
    <3>1. CASE Frees(c) /\ Return(c)
      BY <2>2, <3>1
    <3>2. CASE conn' = [conn EXCEPT ![c].st = "agreed"] /\ UNCHANGED client
      BY <2>9, <3>2 DEF Handshake, TypeOK, Conns, ServedIsAsked
    <3> QED
      BY Zenon, <2>9, <3>1, <3>2 DEF Handshake
  <2>10. CASE Serve(c)
    <3>1. \A e \in Clients : conn'[e].st = "agreed" => conn[e].st = "agreed"
      BY <2>10 DEF Serve, TypeOK, Conns
    <3> QED
      BY <1>1, <2>10, <3>1 DEF Serve
  <2>11. CASE Reply(c)
    BY Zenon, <2>2, <2>11 DEF Reply
  <2> QED
    BY Zenon, <1>3, <2>1, <2>4, <2>5, <2>6, <2>7, <2>8, <2>9, <2>10, <2>11 DEF ClientStep,
       ConnStep
<1>4. ASSUME StopActs \/ StopLists \/ RootVanishes PROVE ServedIsAsked'
  BY <1>1, <1>4 DEF StopActs, StopLists, RootVanishes, cvars
<1> QED
  BY Zenon, <1>2, <1>3, <1>4 DEF Next, Environment

-----------------------------------------------------------------------------
(* The theorem. *)

Invariant == TypeOK /\ Ownership /\ VMsSupervised /\ SignalDrainComplete

\* With no process and no row, nothing is owned.
LEMMA InvariantInit ==
  ASSUME WellFormed, Init PROVE Invariant
<1>1. TypeOK
  BY TypeInit
<1>2. OneClaimer /\ RecordKept /\ VMsOutlastBoot /\ SealedIsLast
  BY Zenon DEF Init, OneClaimer, RecordKept, Recorded, Bound, VMsOutlastBoot, SealedIsLast
<1>3. PeerIsUp /\ ServedIsAsked
  BY DEF Init, PeerIsUp, ServedIsAsked, NoConn, Idle
<1>4. VMsSupervised /\ SignalDrainComplete
  BY DEF Init, VMsSupervised, SignalDrainComplete
<1> QED
  BY <1>1, <1>2, <1>3, <1>4 DEF Invariant, Ownership

\* Every step of a daemon, a client, the stop command or the environment keeps it.
LEMMA InvariantStep ==
  ASSUME WellFormed, Invariant, [Next]_vars PROVE Invariant'
<1>1. TypeOK /\ Rooted /\ PeerIsUp /\ ServedIsAsked /\ OneClaimer
  BY DEF Invariant, Ownership, Rooted
<1>2. CASE UNCHANGED vars
  <2>1. TypeOK'
    BY <1>1, <1>2, TypeStep
  <2>2. Rooted'
    BY Zenon, <1>1, <1>2, AsideKeeps DEF Aside, vars, dvars, svars, hvars
  <2>3. PeerIsUp' /\ ServedIsAsked'
    BY <1>1, <1>2 DEF PeerIsUp, ServedIsAsked, vars, dvars, cvars
  <2> QED
    BY <2>1, <2>2, <2>3 DEF Invariant, Ownership, Rooted
<1>3. CASE Next
  <2>1. TypeOK' /\ ServedIsAsked'
    BY <1>1, <1>3, TypeStep, AskedStep
  <2>2. Rooted'
    BY <1>1, <1>3, DaemonRooted, EnvironmentRooted, ServeRooted, ClientAside, AsideKeeps DEF Next
  <2>3. PeerIsUp'
    BY <1>1, <1>3, DaemonPeers, EnvironmentPeers, ClientPeers DEF Next
  <2> QED
    BY <2>1, <2>2, <2>3 DEF Invariant, Ownership, Rooted
<1> QED
  BY <1>2, <1>3

\* Whatever processes compete for the host root and however clients, signals, crashes
\* and stops fall, a running VM has its supervisor, a socket that answers its record,
\* and a drain that listed after its signal leaves only what it could not tear down
\* (ClaimHostRoot, Daemon.Run).
THEOREM DaemonAlwaysStands ==
  ASSUME WellFormed
  PROVE  Spec => [](TypeOK /\ DaemonStands /\ Ownership)
<1>1. Init => Invariant
  BY InvariantInit
<1>2. Invariant /\ [Next]_vars => Invariant'
  BY InvariantStep
<1>3. Invariant => TypeOK /\ DaemonStands /\ Ownership
  <2>1. ASSUME Invariant, Answering PROVE record = sock \/ sock \in unlisted
    BY <2>1 DEF Invariant, Ownership, Answering, TypeOK, RecordKept, Recorded
  <2> QED
    BY <2>1 DEF Invariant, DaemonStands, AnswerImpliesRecord
<1> QED
  BY <1>1, <1>2, <1>3, PTL DEF Spec

-----------------------------------------------------------------------------
(* What the daemon runs beside its socket: the port controller and the land *)
(* notification server.  They share nothing with it that the theorems below *)
(* are about.                                                               *)

CONSTANTS Sandboxes, HostPorts, PortConns, Other, MaxPublishes,
          Execs, Handlers, MaxCommits, MaxExecs
VARIABLES active, opening, holder, portConn, spent,
          store, gate, exec, listening, life, handler, landed, missed

P == INSTANCE PortPublish WITH Conns <- PortConns, conn <- portConn
N == INSTANCE LandNotify

-----------------------------------------------------------------------------
(* Published ports (portpub.Controller). *)

PortInvariant == P!TypeOK /\ P!PortsOnRecord /\ P!Reserved

\* Nobody holds a port when the controller is new.
LEMMA PortInit ==
  ASSUME P!WellFormed, P!Init PROVE PortInvariant
<1>1. P!TypeOK
  BY Zenon DEF P!Init, P!TypeOK, P!NotOpening, P!Closed
<1>2. P!PortsOnRecord /\ P!Reserved
  BY Zenon DEF P!WellFormed, P!Init, P!PortsOnRecord, P!Reserved, P!NotOpening
<1> QED
  BY <1>1, <1>2 DEF PortInvariant

\* A step of the controller, of another program or of a connection keeps the types.
LEMMA PortTypes ==
  ASSUME P!TypeOK, [P!Next]_(P!vars) PROVE P!TypeOK'
<1> USE DEF P!TypeOK, P!NotOpening, P!Closed
<1>1. ASSUME NEW s \in Sandboxes, NEW ports \in SUBSET HostPorts, P!StartPublish(s, ports)
      PROVE  P!TypeOK'
  BY SMT, Z3, <1>1 DEF P!StartPublish, P!Spend
<1>2. ASSUME NEW s \in Sandboxes, NEW p \in HostPorts, P!openAll(s, p) PROVE P!TypeOK'
  <2>1. holder' \in [HostPorts -> Sandboxes \cup {Other, None}]
    BY ZenonT(60), <1>2 DEF P!openAll, P!closeAll
  <2>2. opening' \in [Sandboxes -> [on : BOOLEAN, todo : SUBSET HostPorts, open : SUBSET HostPorts]]
    <3>1. P!NotOpening \in [on : BOOLEAN, todo : SUBSET HostPorts, open : SUBSET HostPorts]
      BY Zenon
    <3>2. [on |-> TRUE, todo |-> opening[s].todo \ {p}, open |-> opening[s].open \cup {p}]
            \in [on : BOOLEAN, todo : SUBSET HostPorts, open : SUBSET HostPorts]
      BY Zenon
    <3>3. \/ opening' = [opening EXCEPT ![s] = P!NotOpening]
          \/ opening' = [opening EXCEPT ![s] = [on |-> TRUE, todo |-> opening[s].todo \ {p},
                                                open |-> opening[s].open \cup {p}]]
      BY Zenon, <1>2 DEF P!openAll
    <3> QED
      BY ZenonT(60), <3>1, <3>2, <3>3
  <2>3. active' \in [Sandboxes -> (SUBSET HostPorts) \cup {None}]
    BY Zenon, <1>2 DEF P!openAll
  <2> QED
    BY <1>2, <2>1, <2>2, <2>3 DEF P!openAll
<1>3. ASSUME NEW s \in Sandboxes, P!Published(s) PROVE P!TypeOK'
  BY Zenon, <1>3 DEF P!Published
<1>4. ASSUME NEW s \in Sandboxes, P!StopPublish(s) PROVE P!TypeOK'
  BY Zenon, <1>4 DEF P!StopPublish, P!closeAll
<1>5. ASSUME NEW p \in HostPorts, P!OtherTakes(p) PROVE P!TypeOK'
  BY <1>5 DEF P!OtherTakes
<1>6. ASSUME NEW p \in HostPorts, NEW c \in PortConns, P!serve(c, p) PROVE P!TypeOK'
  BY <1>6 DEF P!serve
<1>7. ASSUME NEW c \in PortConns, NEW ok \in BOOLEAN, P!forward(c, ok) PROVE P!TypeOK'
  BY <1>7 DEF P!forward
<1>8. ASSUME NEW c \in PortConns, NEW ok \in BOOLEAN, P!forwardToLoopback(c, ok) PROVE P!TypeOK'
  BY ZenonT(60), <1>8 DEF P!forwardToLoopback
<1>9. ASSUME NEW c \in PortConns, P!copyDuplex(c) PROVE P!TypeOK'
  BY Zenon, <1>9 DEF P!copyDuplex
<1>10. CASE UNCHANGED P!vars
  BY Zenon, <1>10 DEF P!vars
<1> QED
  BY ZenonT(60), <1>1, <1>2, <1>3, <1>4, <1>5, <1>6, <1>7, <1>8, <1>9, <1>10 DEF P!Next

\* It binds only free ports, and closes only ports of the sandbox it acts for.
LEMMA PortStep ==
  ASSUME P!WellFormed, PortInvariant, [P!Next]_(P!vars)
  PROVE  P!PortsOnRecord' /\ P!Reserved'
<1> USE DEF P!WellFormed, PortInvariant, P!TypeOK, P!PortsOnRecord, P!Reserved, P!NotOpening
<1>1. ASSUME NEW s \in Sandboxes, NEW ports \in SUBSET HostPorts, P!StartPublish(s, ports)
      PROVE  P!PortsOnRecord' /\ P!Reserved'
  BY <1>1 DEF P!StartPublish
<1>2. ASSUME NEW s \in Sandboxes, NEW p \in HostPorts, P!openAll(s, p)
      PROVE  P!PortsOnRecord' /\ P!Reserved'
  <2>1. CASE P!Publish(p)
    <3>1. /\ holder[p] = None /\ holder' = [holder EXCEPT ![p] = s] /\ UNCHANGED active
          /\ opening[s].on
          /\ opening' = [opening EXCEPT ![s] = [on |-> TRUE, todo |-> @.todo \ {p},
                                                 open |-> @.open \cup {p}]]
      BY Zenon, <1>2, <2>1 DEF P!openAll, P!Publish
    <3>2. P!Reserved'
      BY <3>1
    <3>3. P!PortsOnRecord'
      BY SMT, Z3, <3>1
    <3> QED
      BY Zenon, <3>2, <3>3
  <2>2. CASE ~P!Publish(p)
    BY <1>2, <2>2 DEF P!openAll, P!closeAll
  <2> QED
    BY Zenon, <2>1, <2>2
<1>3. ASSUME NEW s \in Sandboxes, P!Published(s) PROVE P!PortsOnRecord' /\ P!Reserved'
  BY <1>3 DEF P!Published
<1>4. ASSUME NEW s \in Sandboxes, P!StopPublish(s) PROVE P!PortsOnRecord' /\ P!Reserved'
  BY <1>4 DEF P!StopPublish, P!closeAll
<1>5. ASSUME NEW p \in HostPorts, P!OtherTakes(p) PROVE P!PortsOnRecord' /\ P!Reserved'
  BY <1>5 DEF P!OtherTakes
<1>6. CASE UNCHANGED <<active, opening, holder>>
  BY <1>6
<1> QED
  BY Zenon, <1>1, <1>2, <1>3, <1>4, <1>5, <1>6 DEF P!Next, P!serve, P!forward,
     P!forwardToLoopback,
     P!copyDuplex, P!vars

\* A host port is held for a sandbox exactly while it is on record or being opened,
\* however binds of several sandboxes and of other programs interleave and fail
\* (Controller.StartPublish, openAll, StopPublish).
THEOREM PortsStayOnRecord ==
  ASSUME P!WellFormed
  PROVE  P!Spec => [](P!TypeOK /\ P!PortsOnRecord)
<1>1. P!Init => PortInvariant
  BY PortInit
<1>2. PortInvariant /\ [P!Next]_(P!vars) => PortInvariant'
  BY PortTypes, PortStep DEF PortInvariant
<1> QED
  BY <1>1, <1>2, PTL DEF P!Spec, PortInvariant

-----------------------------------------------------------------------------
(* The signal that starts a land (landReadyGate, NotifyServer). *)

LandInvariant == N!TypeOK /\ N!LandPending
Stages == [at : {"idle", "authorize", "land", "pull", "import", "joined"}, pulled : 0..MaxCommits]
Lives == {"new", "bound", "up", "gone"}

\* A new guest has committed nothing.
LEMMA LandInit ==
  ASSUME N!WellFormed, N!Init PROVE LandInvariant
<1>1. N!IdleHandler \in Stages
  BY DEF N!WellFormed, N!IdleHandler, Stages
<1>2. N!TypeOK
  <2>1. store \in 0..MaxCommits /\ gate \in 0..MaxCommits /\ landed \in 0..MaxCommits
    BY DEF N!WellFormed, N!Init
  <2>2. exec \in [Execs -> {"idle", "running", "emit"}] /\ spent \in [N!Kinds -> Nat]
    BY DEF N!Init
  <2>3. handler \in [Handlers -> Stages]
    BY <1>1 DEF N!Init
  <2>4. listening \in BOOLEAN /\ life \in Lives /\ missed \in BOOLEAN
    BY Zenon DEF N!Init, Lives
  <2> QED
    BY <2>1, <2>2, <2>3, <2>4 DEF N!TypeOK, Stages, Lives
<1>3. N!LandPending
  BY DEF N!Init, N!IdleHandler, N!LandPending, N!NothingAhead, N!GateFollows, N!OnTheWay
<1> QED
  BY <1>2, <1>3 DEF LandInvariant

\* Commands, signals, handlers and the end of the sandbox keep the types.
LEMMA LandTypes ==
  ASSUME N!WellFormed, N!TypeOK, [N!Next]_(N!vars) PROVE N!TypeOK'
<1>1. ASSUME NEW h \in Handlers, NEW at \in {"authorize", "land", "pull", "joined"}
      PROVE  /\ [handler EXCEPT ![h] = N!IdleHandler] \in [Handlers -> Stages]
             /\ [handler EXCEPT ![h].at = at] \in [Handlers -> Stages]
             /\ [handler EXCEPT ![h] = [at |-> "import", pulled |-> store]] \in [Handlers -> Stages]
             /\ N!Finished(h) \in [Handlers -> Stages]
  <2>1. N!IdleHandler \in Stages
    BY DEF N!WellFormed, N!IdleHandler, Stages
  <2>2. [at |-> "import", pulled |-> store] \in Stages
    BY DEF N!TypeOK, Stages
  <2>3. [handler EXCEPT ![h].at = at] \in [Handlers -> Stages]
    BY DEF N!TypeOK, Stages
  <2>4. handler \in [Handlers -> Stages]
    BY DEF N!TypeOK, Stages
  <2> QED
    BY Zenon, <2>1, <2>2, <2>3, <2>4 DEF N!Finished
<1>2. N!TypeOK <=> /\ store \in 0..MaxCommits /\ gate \in 0..MaxCommits /\ landed \in 0..MaxCommits
                   /\ exec \in [Execs -> {"idle", "running", "emit"}]
                   /\ listening \in BOOLEAN /\ life \in Lives /\ missed \in BOOLEAN
                   /\ handler \in [Handlers -> Stages] /\ spent \in [N!Kinds -> Nat]
  BY DEF N!TypeOK, Stages, Lives
<1>3. \A k \in N!Kinds : \A limit : N!Spend(k, limit) => spent' \in [N!Kinds -> Nat]
  BY DEF N!TypeOK, N!Spend
<1>4. \A ok \in BOOLEAN : N!Try(ok) => spent' \in [N!Kinds -> Nat]
  BY <1>2, <1>3 DEF N!Try, N!Kinds
<1>5. ASSUME NEW e \in Execs, N!serveExecConn(e) \/ N!Commit(e) \/ N!changed(e) PROVE N!TypeOK'
  BY <1>3, <1>5 DEF N!TypeOK, N!WellFormed, N!Kinds, N!serveExecConn, N!Commit, N!changed,
     N!storeFingerprint
<1>6. ASSUME NEW e \in Execs, NEW ok \in BOOLEAN, N!emitLandReady(e, ok) PROVE N!TypeOK'
  <2>1. handler' \in [Handlers -> Stages]
    BY ZenonT(60), <1>1, <1>2, <1>6 DEF N!emitLandReady
  <2>2. spent' \in [N!Kinds -> Nat]
    BY Zenon, <1>4, <1>6 DEF N!emitLandReady
  <2> QED
    BY Zenon, <1>6, <2>1, <2>2 DEF N!emitLandReady, N!TypeOK, Stages
<1>7. ASSUME NEW h \in Handlers, N!handle(h) PROVE N!TypeOK'
  <2>1. handler' \in [Handlers -> Stages]
    BY Zenon, <1>1, <1>7 DEF N!handle
  <2> QED
    BY Zenon, <1>7, <2>1 DEF N!handle, N!TypeOK, Stages
<1>8. ASSUME NEW h \in Handlers, N!serveLand(h) \/ N!Land(h) PROVE N!TypeOK'
  <2>1. handler' \in [Handlers -> Stages]
    BY Zenon, <1>1, <1>8 DEF N!serveLand, N!Land
  <2>2. missed' \in BOOLEAN
    BY Zenon, <1>2, <1>8 DEF N!serveLand, N!Land
  <2> QED
    BY Zenon, <1>8, <2>1, <2>2 DEF N!serveLand, N!Land, N!TypeOK, Stages
<1>9. ASSUME NEW h \in Handlers, NEW ok \in BOOLEAN, N!ServeLandHead(h, ok) PROVE N!TypeOK'
  <2>1. handler' \in [Handlers -> Stages]
    BY Zenon, <1>1, <1>9 DEF N!ServeLandHead
  <2>2. spent' \in [N!Kinds -> Nat]
    BY Zenon, <1>4, <1>9 DEF N!ServeLandHead
  <2> QED
    BY Zenon, <1>9, <2>1, <2>2 DEF N!ServeLandHead, N!TypeOK, Stages
<1>10. ASSUME NEW h \in Handlers, NEW ok \in BOOLEAN, N!landOnce(h, ok) PROVE N!TypeOK'
  <2>1. handler' \in [Handlers -> Stages] /\ missed' \in BOOLEAN
    BY Zenon, <1>1, <1>10 DEF N!landOnce
  <2>2. spent' \in [N!Kinds -> Nat]
    BY Zenon, <1>4, <1>10 DEF N!landOnce
  <2>3. handler[h].pulled \in 0..MaxCommits
    BY DEF N!TypeOK
  <2>4. landed' \in 0..MaxCommits
    BY Zenon, <1>2, <1>10, <2>3 DEF N!landOnce
  <2> QED
    BY Zenon, <1>10, <2>1, <2>2, <2>4 DEF N!landOnce, N!TypeOK, Stages
<1>11. ASSUME NEW ok \in BOOLEAN, N!Register(ok) PROVE N!TypeOK'
  BY Zenon, <1>4, <1>11 DEF N!Register, N!TypeOK
<1>12. CASE N!Bind \/ N!Invalidate \/ N!Deregister
  BY Zenon, <1>3, <1>12 DEF N!Bind, N!Invalidate, N!Deregister, N!TypeOK, N!Kinds
<1>13. CASE UNCHANGED N!vars
  BY <1>13 DEF N!vars, N!TypeOK
<1> QED
  BY Zenon, <1>5, <1>6, <1>7, <1>8, <1>9, <1>10, <1>11, <1>12, <1>13 DEF N!Next

\* None of them loses the commit that a gate has yet to see or a host to land, but
\* where a signal or a land is missed.
LEMMA LandStep ==
  ASSUME N!WellFormed, LandInvariant, [N!Next]_(N!vars) PROVE N!LandPending'
<1> USE DEF N!WellFormed, LandInvariant, N!TypeOK, N!LandPending, N!NothingAhead, N!GateFollows,
            N!OnTheWay, N!IdleHandler
<1>1. ASSUME NEW e \in Execs, N!serveExecConn(e) PROVE N!LandPending'
  BY Zenon, <1>1 DEF N!serveExecConn
<1>2. ASSUME NEW e \in Execs, N!Commit(e) PROVE N!LandPending'
  BY <1>2 DEF N!Commit
<1>3. ASSUME NEW e \in Execs, N!changed(e) PROVE N!LandPending'
  BY <1>3 DEF N!changed, N!storeFingerprint
<1>4. ASSUME NEW e \in Execs, NEW ok \in BOOLEAN, N!emitLandReady(e, ok) PROVE N!LandPending'
  BY ZenonT(60), <1>4 DEF N!emitLandReady
<1>5. ASSUME NEW h \in Handlers, N!handle(h) PROVE N!LandPending'
  BY <1>5 DEF N!handle
<1>6. ASSUME NEW h \in Handlers, N!serveLand(h) PROVE N!LandPending'
  BY <1>6 DEF N!serveLand
<1>7. ASSUME NEW h \in Handlers, N!Land(h) PROVE N!LandPending'
  <2>1. /\ UNCHANGED <<store, gate, exec, life, landed>>
        /\ missed => missed'
        /\ \A g \in Handlers : g # h => handler'[g] = handler[g]
        /\ handler'[h].pulled = handler[h].pulled
    BY Zenon, <1>7 DEF N!Land
  <2>2. N!NothingAhead' /\ N!GateFollows'
    BY Zenon, <2>1
  <2>3. CASE N!Leading = {}
    <3>1. handler'[h].at = "pull"
      BY Zenon, <1>7, <2>3 DEF N!Land
    <3> QED
      BY Zenon, <2>2, <3>1
  <2>4. ASSUME NEW g \in N!Leading PROVE N!OnTheWay'
    <3>1. g \in Handlers /\ g # h /\ handler[g].at \in {"pull", "import"}
      BY <1>7 DEF N!Leading, N!Land
    <3>2. handler'[g] = handler[g]
      BY Zenon, <2>1, <3>1
    <3>3. CASE handler[g].at = "import" /\ handler[g].pulled < gate
      BY Zenon, <1>7, <3>3 DEF N!Land
    <3>4. CASE handler[g].at = "import" /\ handler[g].pulled >= gate
      BY Zenon, <2>1, <3>1, <3>2, <3>4
    <3>5. CASE handler[g].at = "pull"
      BY Zenon, <3>1, <3>2, <3>5
    <3> QED
      BY <3>1, <3>3, <3>4, <3>5
  <2> QED
    BY Zenon, <2>2, <2>3, <2>4
<1>8. ASSUME NEW h \in Handlers, NEW ok \in BOOLEAN, N!ServeLandHead(h, ok) PROVE N!LandPending'
  BY <1>8 DEF N!ServeLandHead, N!Finished, N!Bound
<1>9. ASSUME NEW h \in Handlers, NEW ok \in BOOLEAN, N!landOnce(h, ok) PROVE N!LandPending'
  <2>1. /\ UNCHANGED <<store, gate, exec, life>> /\ handler[h].at = "import"
        /\ missed' = (missed \/ ~ok)
        /\ handler' = N!Finished(h)
    BY Zenon, <1>9 DEF N!landOnce
  <2>2. /\ {landed', landed, gate, handler[h].pulled} \subseteq Nat
        /\ landed' <= store /\ landed' >= landed
        /\ ok => landed' >= handler[h].pulled
    BY <1>9 DEF N!landOnce
  <2>3. \A g \in Handlers : \/ handler'[g] = [at |-> "idle", pulled |-> 0]
                            \/ handler'[g] = handler[g]
    BY Zenon, <2>1 DEF N!Finished
  <2>4. \A g \in Handlers : g # h /\ handler[g].at # "joined" => handler'[g] = handler[g]
    BY Zenon, <2>1 DEF N!Finished
  <2>5. N!NothingAhead'
    <3>1. \A g \in Handlers : handler'[g].pulled <= store
      <4>1. [at |-> "idle", pulled |-> 0].pulled <= store
        OBVIOUS
      <4> QED
        BY Zenon, <2>3, <4>1
    <3> QED
      BY Zenon, <2>1, <2>2, <3>1
  <2>6. N!GateFollows'
    BY Zenon, <2>1
  <2>7. N!OnTheWay'
    <3>1. CASE missed \/ ~ok
      BY Zenon, <2>1, <3>1
    <3>2. CASE ok /\ landed >= gate
      BY <2>1, <2>2, <3>2
    <3>3. CASE \E e \in Execs : exec[e] = "emit"
      BY Zenon, <2>1, <3>3
    <3>4. ASSUME NEW g \in Handlers, handler[g].at \in {"authorize", "land", "pull"}
          PROVE  N!OnTheWay'
      <4>1. g # h /\ handler[g].at # "joined"
        BY <2>1, <3>4
      <4>2. handler'[g] = handler[g]
        BY Zenon, <2>4, <4>1
      <4> QED
        BY Zenon, <3>4, <4>2
    <3>5. ASSUME NEW g \in Handlers, handler[g].at = "import", handler[g].pulled >= gate, ok
          PROVE  N!OnTheWay'
      <4>1. CASE g = h
        <5>1. landed' >= gate'
          BY <2>1, <2>2, <3>5, <4>1
        <5> QED
          BY Zenon, <5>1
      <4>2. CASE g # h
        <5>1. handler'[g] = handler[g]
          BY <2>4, <3>5, <4>2
        <5> QED
          BY Zenon, <2>1, <3>5, <5>1
      <4> QED
        BY Zenon, <4>1, <4>2
    <3> QED
      BY Zenon, <3>1, <3>2, <3>3, <3>4, <3>5
  <2> QED
    BY Zenon, <2>5, <2>6, <2>7
<1>10. ASSUME NEW ok \in BOOLEAN, N!Register(ok) PROVE N!LandPending'
  BY <1>10 DEF N!Register
<1>11. CASE N!Bind \/ N!Invalidate \/ N!Deregister
  BY Zenon, <1>11 DEF N!Bind, N!Invalidate, N!Deregister
<1>12. CASE UNCHANGED N!vars
  BY <1>12 DEF N!vars
<1> QED
  BY Zenon, <1>1, <1>2, <1>3, <1>4, <1>5, <1>6, <1>7, <1>8, <1>9, <1>10, <1>11, <1>12 DEF N!Next

\* When commands and lands are quiet, all that the guest committed has landed, unless
\* since the last pull a signal was lost, a land failed, or a signal joined a land
\* that had read an older HEAD; for any number of overlapping commands and lands.  The
\* gate suppresses no signal that carried a commit, and the next pull makes good what
\* was missed (landReadyGate.changed, NotifyServer.handle, flight.Do).
THEOREM QuietAlwaysMeansLanded ==
  ASSUME N!WellFormed
  PROVE  N!Spec => [](N!TypeOK /\ N!QuietMeansLanded)
<1>1. N!Init => LandInvariant
  BY LandInit
<1>2. LandInvariant /\ [N!Next]_(N!vars) => LandInvariant'
  BY Zenon, LandTypes, LandStep DEF LandInvariant
<1>3. LandInvariant => N!TypeOK /\ N!QuietMeansLanded
  BY DEF N!WellFormed, LandInvariant, N!TypeOK, N!LandPending, N!NothingAhead,
     N!GateFollows, N!OnTheWay, N!Quiet, N!QuietMeansLanded
<1> QED
  BY <1>1, <1>2, <1>3, PTL DEF N!Spec
====
