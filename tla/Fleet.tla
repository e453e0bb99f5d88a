-------------------------------- MODULE Fleet --------------------------------
(***************************************************************************)
(* The host-wide ceiling on sandboxes: how the daemon resolves it from     *)
(* policy, flags and measured memory, and how CeilingManager holds it      *)
(* while launches overlap.  Memory is in MB; MBUnit bytes make one MB.     *)
(***************************************************************************)
EXTENDS Integers, FiniteSets, FiniteSetsExt

CONSTANTS Launches,      \* calls of CeilingManager.Launch
          Requests,      \* declared MemoryMB; 0 declares nothing
          Percents, Flags, Counts, HostBytes,    \* policy, flags, probe results
          MBUnit, Conservative, Fallback, MaxFaults

VARIABLES
  cap,      \* the fleetCeiling in force and what it was resolved from
  call,     \* each launch: how far, and the memory it is accounted at
  live,     \* launches whose sandbox the backend lists
  reserved, \* reservedCount and reservedMB
  faults,
  stuck     \* launches that panicked between reserve and unreserve

vars == <<cap, call, live, reserved, faults, stuck>>

-----------------------------------------------------------------------------
(* Resolution, at start-up. *)

Failed == -1     \* a probe that returned an error

\* ceilingFromPolicy: a percentage of what the probe measured, never below 1.
CeilingFromPolicy(percent, bytes) ==
  IF percent \notin 0..100 \/ bytes \in {Failed, 0} THEN Failed
  ELSE LET resolved == ((bytes \div MBUnit) * percent) \div 100
       IN IF resolved < 1 THEN 1 ELSE resolved

\* resolveFleetCeiling: flag, else policy, else a conservative absolute; zero
\* (no ceiling) only where policy says zero.
MemoryCap(percent, flag, bytes) ==
  IF flag > 0 THEN flag
  ELSE IF percent = 0 THEN 0
  ELSE LET mb == CeilingFromPolicy(percent, bytes)
       IN IF mb = Failed THEN Conservative ELSE mb

\* resolveFleetCount.
CountCap(policy, flag) == IF flag > 0 THEN flag ELSE policy

\* NewCeilingManager: what an undeclared launch is accounted at.
DefaultMB(policyMB) == IF policyMB <= 0 THEN Fallback ELSE policyMB

-----------------------------------------------------------------------------
TypeOK ==
  /\ cap.count \in Nat /\ cap.mb \in Nat /\ cap.default \in Nat \ {0}
  /\ \A l \in Launches :
       /\ call[l].st \in {"idle", "admitted", "listed", "failed", "refused", "done"}
       /\ call[l].mb \in Nat
       /\ call[l].why \in {"none", "count", "host", "left", "error"}
  /\ live \subseteq Launches /\ stuck \subseteq Launches
  /\ reserved.count \in Int /\ reserved.mb \in Int
  /\ faults \in 0..MaxFaults

Init ==
  /\ \E pc \in Percents, mf \in Flags, n \in Counts, nf \in Flags, b \in HostBytes, d \in Requests :
       cap = [count |-> CountCap(n, nf), mb |-> MemoryCap(pc, mf, b),
              default |-> DefaultMB(d), percent |-> pc, flag |-> mf]
  /\ call = [l \in Launches |-> [st |-> "idle", mb |-> 0, why |-> "none"]]
  /\ live = {} /\ stuck = {}
  /\ reserved = [count |-> 0, mb |-> 0]
  /\ faults = 0

Fault == faults < MaxFaults /\ faults' = faults + 1

\* usage: what the backend lists, each at its declared or the default size.
Usage(S) == [count |-> Cardinality(S), mb |-> MapThenSumSet(LAMBDA l : call[l].mb, S)]

\* admit: three refusals, the count first.
Admit(count, used, request) ==
  IF cap.count > 0 /\ count >= cap.count THEN "count"
  ELSE IF cap.mb <= 0 THEN "none"
  ELSE IF request > cap.mb THEN "host"
  ELSE IF used + request > cap.mb THEN "left" ELSE "none"

\* Mutant: launches being admitted are not counted.
ReserveListedOnly(l, r) ==
  LET mb == IF r <= 0 THEN cap.default ELSE r
      u  == Usage(live)
      why == Admit(u.count, u.mb, mb)
  IN /\ call[l].st = "idle"
     /\ call' = [call EXCEPT ![l] = [st |-> IF why = "none" THEN "admitted" ELSE "refused", mb |-> mb, why |-> why]]
     /\ reserved' = IF why = "none" THEN [count |-> reserved.count + 1, mb |-> reserved.mb + mb] ELSE reserved
     /\ UNCHANGED <<cap, live, faults, stuck>>

\* Launch up to the backend: reserve lists and decides under one mutex.
Reserve(l, r) ==
  LET mb == IF r <= 0 THEN cap.default ELSE r
      u  == Usage(live)
      why == Admit(u.count + reserved.count, u.mb + reserved.mb, mb)
  IN /\ call[l].st = "idle"
     /\ call' = [call EXCEPT ![l] = [st |-> IF why = "none" THEN "admitted" ELSE "refused", mb |-> mb, why |-> why]]
     /\ reserved' = IF why = "none" THEN [count |-> reserved.count + 1, mb |-> reserved.mb + mb] ELSE reserved
     /\ UNCHANGED <<cap, live, faults, stuck>>

\* The listing failed: the launch is refused, nothing is held.
ReserveFails(l) ==
  /\ call[l].st = "idle" /\ Fault
  /\ call' = [call EXCEPT ![l].st = "refused", ![l].why = "error"]
  /\ UNCHANGED <<cap, live, reserved, stuck>>

\* The backend registers the sandbox while its Launch is still running.
BackendLists(l) ==
  /\ call[l].st = "admitted"
  /\ call' = [call EXCEPT ![l].st = "listed"] /\ live' = live \cup {l}
  /\ UNCHANGED <<cap, reserved, faults, stuck>>

\* The backend's Launch fails, before or after it registered, and undoes it.
BackendFails(l) ==
  /\ call[l].st \in {"admitted", "listed"} /\ Fault
  /\ call' = [call EXCEPT ![l].st = "failed"] /\ live' = live \ {l}
  /\ UNCHANGED <<cap, reserved, stuck>>

\* A panic unwinds Launch past unreserve; the daemon's handler recovers it.
BackendPanics(l) ==
  /\ call[l].st \in {"admitted", "listed"} /\ Fault
  /\ call' = [call EXCEPT ![l].st = "done"] /\ stuck' = stuck \cup {l}
  /\ UNCHANGED <<cap, live, reserved>>

\* Launch returns: unreserve, whatever the backend answered.
Unreserve(l) ==
  /\ call[l].st \in {"listed", "failed"}
  /\ call' = [call EXCEPT ![l].st = "done"]
  /\ reserved' = [count |-> reserved.count - 1, mb |-> reserved.mb - call[l].mb]
  /\ UNCHANGED <<cap, live, faults, stuck>>

\* Remove, or an expiry: the backend no longer lists the sandbox.
Removed(l) ==
  /\ call[l].st = "done" /\ l \in live
  /\ live' = live \ {l}
  /\ UNCHANGED <<cap, call, reserved, faults, stuck>>

Next ==
  \E l \in Launches :
    \/ \E r \in Requests : Reserve(l, r)
    \/ ReserveFails(l) \/ BackendLists(l) \/ BackendFails(l) \/ BackendPanics(l)
    \/ Unreserve(l) \/ Removed(l)

Spec == Init /\ [][Next]_vars

-----------------------------------------------------------------------------
(* Properties. *)

InFlight == {l \in Launches : call[l].st \in {"admitted", "listed", "failed"}}

\* However launches overlap, what the backend lists stays within both dimensions
\* of the ceiling (CeilingManager.reserve holds capacity until the backend has
\* registered the sandbox).
FleetWithinCeiling ==
  LET u == Usage(live)
  IN /\ cap.count > 0 => u.count <= cap.count
     /\ cap.mb > 0 => u.mb <= cap.mb

\* Held capacity is exactly that of the launches in progress, plus what launches
\* that panicked never gave back: no other path leaks a reservation.
ReservationsBalance ==
  /\ reserved.count = Cardinality(InFlight \cup stuck)
  /\ reserved.mb = MapThenSumSet(LAMBDA l : call[l].mb, InFlight \cup stuck)

\* The memory ceiling is off only where policy says 0 and no flag was passed
\* ("It NEVER resolves to unlimited by accident").
UnlimitedOnPurpose == cap.mb = 0 => cap.percent = 0 /\ cap.flag = 0

\* Admission accounts for all there is: the fleet stays within a ceiling that is
\* never off by accident, and no reservation leaks (CeilingManager).
AdmissionIsSound == FleetWithinCeiling /\ ReservationsBalance /\ UnlimitedOnPurpose

\* A refused launch is told to free capacity or wait only if an idle host would
\* admit it (admit: telling the operator otherwise "is advice that can never work").
WaitingCanWork ==
  \A l \in Launches : call[l].why \in {"count", "left"} /\ cap.mb > 0 => call[l].mb <= cap.mb
==============================================================================
