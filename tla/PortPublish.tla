---------------------------- MODULE PortPublish ----------------------------
(***************************************************************************)
(* Published ports: portpub.Controller keeps one loopback listener of the  *)
(* host per mapping of a sandbox.  It reserves the sandbox under its lock, *)
(* binds the ports outside it and stores the listeners under it again;     *)
(* other sandboxes and other programs of the host take ports meanwhile.    *)
(* A connection to a published port is spliced to the same port of the     *)
(* guest over vsock, and by a bridge in the guest to its loopback.         *)
(***************************************************************************)
EXTENDS Naturals

CONSTANTS
  Sandboxes, HostPorts,
  Conns,                     \* connections of host programs to published ports
  Other, None,               \* another program of the host; nobody
  MaxPublishes, MaxFaults    \* bounds

VARIABLES
  active,     \* Controller.active: none, or the host ports of a sandbox
  opening,    \* the ports StartPublish has opened and still has to open
  holder,     \* who listens on a host port
  conn,       \* the hop a connection has reached, and the guest it goes to
  spent

vars == <<active, opening, holder, conn, spent>>

Closed == [at |-> "closed", guest |-> None]
NotOpening == [on |-> FALSE, todo |-> {}, open |-> {}]

TypeOK ==
  /\ active \in [Sandboxes -> (SUBSET HostPorts) \cup {None}]
  /\ opening \in [Sandboxes -> [on : BOOLEAN, todo : SUBSET HostPorts, open : SUBSET HostPorts]]
  /\ holder \in [HostPorts -> Sandboxes \cup {Other, None}]
  /\ conn \in [Conns -> [at : {"closed", "accepted", "vsock", "spliced"}, guest : Sandboxes \cup {None}]]
  /\ spent \in [{"publishes", "faults"} -> Nat]

Init ==
  /\ active = [s \in Sandboxes |-> None]
  /\ opening = [s \in Sandboxes |-> NotOpening]
  /\ holder = [p \in HostPorts |-> None]
  /\ conn = [c \in Conns |-> Closed]
  /\ spent = [k \in {"publishes", "faults"} |-> 0]

Spend(k, limit) == spent[k] < limit /\ spent' = [spent EXCEPT ![k] = @ + 1]

StartPublish(s, ports) ==
  /\ active[s] = None /\ ~opening[s].on /\ ports # {}
  /\ Spend("publishes", MaxPublishes)
  /\ active' = [active EXCEPT ![s] = {}]
  /\ opening' = [opening EXCEPT ![s] = [on |-> TRUE, todo |-> ports, open |-> {}]]
  /\ UNCHANGED <<holder, conn>>

(* Publish: the port is free on the loopback. *)
Publish(p) == holder[p] = None

(* closeAll *)
closeAll(ports) == [q \in HostPorts |-> IF q \in ports THEN None ELSE holder[q]]

(* Mutant: a failed bind leaves the ports opened before it.                 *)
openAllKeeps(s, p) ==
  /\ opening[s].on /\ p \in opening[s].todo
  /\ IF Publish(p)
     THEN /\ holder' = [holder EXCEPT ![p] = s]
          /\ opening' = [opening EXCEPT ![s] = [on |-> TRUE, todo |-> @.todo \ {p}, open |-> @.open \cup {p}]]
          /\ UNCHANGED active
     ELSE /\ opening' = [opening EXCEPT ![s] = NotOpening]
          /\ active' = [active EXCEPT ![s] = None]
          /\ UNCHANGED holder
  /\ UNCHANGED <<conn, spent>>

(* openAll: the next port is bound, or every port bound so far is closed    *)
(* and the reservation dropped.                                             *)
openAll(s, p) ==
  /\ opening[s].on /\ p \in opening[s].todo
  /\ IF Publish(p)
     THEN /\ holder' = [holder EXCEPT ![p] = s]
          /\ opening' = [opening EXCEPT ![s] = [on |-> TRUE, todo |-> @.todo \ {p}, open |-> @.open \cup {p}]]
          /\ UNCHANGED active
     ELSE /\ holder' = closeAll(opening[s].open)
          /\ opening' = [opening EXCEPT ![s] = NotOpening]
          /\ active' = [active EXCEPT ![s] = None]
  /\ UNCHANGED <<conn, spent>>

(* The end of StartPublish: the listeners are stored. *)
Published(s) ==
  /\ opening[s].on /\ opening[s].todo = {}
  /\ active' = [active EXCEPT ![s] = opening[s].open]
  /\ opening' = [opening EXCEPT ![s] = NotOpening]
  /\ UNCHANGED <<holder, conn, spent>>

(* StopPublish: the service calls it only after StartPublish has returned.  *)
StopPublish(s) ==
  /\ active[s] # None /\ ~opening[s].on
  /\ holder' = closeAll(active[s])
  /\ active' = [active EXCEPT ![s] = None]
  /\ UNCHANGED <<opening, conn, spent>>

(* Another program of the host takes or frees a port. *)
OtherTakes(p) ==
  /\ holder[p] \in {None, Other}
  /\ holder[p] = None => spent["faults"] < MaxFaults
  /\ spent' = [spent EXCEPT !["faults"] = IF holder[p] = None THEN @ + 1 ELSE @]
  /\ holder' = [holder EXCEPT ![p] = IF @ = None THEN Other ELSE None]
  /\ UNCHANGED <<active, opening, conn>>

-----------------------------------------------------------------------------
(* Connections *)

(* serve: a listener accepts, for the sandbox it was opened for. *)
serve(c, p) ==
  /\ conn[c].at = "closed" /\ holder[p] \in Sandboxes
  /\ conn' = [conn EXCEPT ![c] = [at |-> "accepted", guest |-> holder[p]]]
  /\ UNCHANGED <<active, opening, holder, spent>>

(* forward: the guest's port is dialed through the sandboxDialer, which     *)
(* names the sandbox, whoever holds the host port by now.                   *)
forward(c, ok) ==
  /\ conn[c].at = "accepted"
  /\ conn' = [conn EXCEPT ![c] = IF ok THEN [@ EXCEPT !.at = "vsock"] ELSE Closed]
  /\ UNCHANGED <<active, opening, holder, spent>>

(* runPublishBridge hands the vsock connection to forwardToLoopback, which  *)
(* dials the guest's loopback, or closes it.                                *)
forwardToLoopback(c, ok) ==
  /\ conn[c].at = "vsock"
  /\ conn' = [conn EXCEPT ![c] = IF ok THEN [@ EXCEPT !.at = "spliced"] ELSE Closed]
  /\ UNCHANGED <<active, opening, holder, spent>>

(* copyDuplex and Splice: either end closing closes every hop. *)
copyDuplex(c) ==
  /\ conn[c].at = "spliced"
  /\ conn' = [conn EXCEPT ![c] = Closed]
  /\ UNCHANGED <<active, opening, holder, spent>>

Next ==
  \/ \E s \in Sandboxes :
       \/ \E ports \in SUBSET HostPorts : StartPublish(s, ports)
       \/ \E p \in HostPorts : openAll(s, p)
       \/ Published(s) \/ StopPublish(s)
  \/ \E p \in HostPorts : OtherTakes(p) \/ \E c \in Conns : serve(c, p)
  \/ \E c \in Conns : copyDuplex(c) \/ \E ok \in BOOLEAN : forward(c, ok) \/ forwardToLoopback(c, ok)

Spec == Init /\ [][Next]_vars

-----------------------------------------------------------------------------
(* A host port is held for a sandbox exactly while the controller has it on *)
(* record or is opening it: a bind that fails half way and a StopPublish    *)
(* leave no listener behind (portpub.Controller).                           *)
PortsOnRecord ==
  \A p \in HostPorts, s \in Sandboxes :
    holder[p] = s <=> \/ p \in opening[s].open
                      \/ active[s] # None /\ ~opening[s].on /\ p \in active[s]
(* Why it holds: while the ports of a sandbox are being opened none is on   *)
(* record, and otherwise none is open (the reservation of StartPublish).    *)
Reserved ==
  \A s \in Sandboxes : IF opening[s].on THEN active[s] = {} ELSE opening[s].open = {}

(* The constants as the code has them: nobody and the others are no sandbox. *)
WellFormed ==
  /\ {Other, None} \cap Sandboxes = {} /\ None \notin SUBSET HostPorts
  /\ {MaxPublishes, MaxFaults} \subseteq Nat
=============================================================================
