--------------------------- MODULE SandboxEvents ---------------------------
(***************************************************************************)
(* The append-only sandbox audit trail: the state-bearing event types      *)
(* (internal/model/sandbox_event.go), the state each of them derives, and  *)
(* the store's DeriveState (internal/store/index/sandbox_events.go).       *)
(* Audit-only events (policy_granted, exec_privileged, ...) never change a *)
(* derived state and are not part of the lifecycle trail.                  *)
(***************************************************************************)
EXTENDS Sequences, Naturals

(* Lifecycle states of a sandbox (internal/model/sandbox.go). *)
States == {"created", "running", "suspended", "landed", "destroyed", "dead"}

(* The state-bearing event types. *)
Events == {"created", "resumed", "suspended", "landed", "destroyed",
           "ttl_expired", "killed", "guest_died"}

(* sandboxEventStates: the state an event moves its sandbox to. *)
EventState ==
  [created |-> "created", resumed |-> "running", suspended |-> "suspended",
   landed |-> "landed", destroyed |-> "destroyed", ttl_expired |-> "destroyed",
   killed |-> "destroyed", guest_died |-> "dead"]

(* The events that end a life: exactly those that derive "destroyed". *)
Terminal == {e \in Events : EventState[e] = "destroyed"}

(* DeriveState: the latest state-bearing event decides; no event, no state. *)
DeriveState(trail) ==
  IF trail = <<>> THEN "none" ELSE EventState[trail[Len(trail)]]

(* The trail has been closed: its latest event is terminal. *)
Ended(trail) == trail # <<>> /\ trail[Len(trail)] \in Terminal
=============================================================================
