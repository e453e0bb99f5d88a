--------------------------- MODULE ObjectTransfer ---------------------------
(***************************************************************************)
(* The git objects behind a sandbox: Provision copies the base commit into   *)
(* the guest's private store, the guest commits there, ServeLandHead streams *)
(* what its head reaches, and the host decodes, verifies and imports that    *)
(* pool and moves the task branch. Landing abstracts a commit to its         *)
(* content; here a commit is its tree, the tree its entries, and the streams *)
(* and imports move one object at a time and may break off between two.      *)
(*                                                                         *)
(* The object ids are the names below: a store is the set of ids it holds,   *)
(* and content addressing is that an id always names the same object.        *)
(***************************************************************************)
EXTENDS Naturals, Sequences, SequencesExt, FiniteSets

CONSTANTS MaxObjectsPerLand,   \* the ceiling on the objects of a pool
          MaxFaults,           \* bound: broken streams, failed reads and crashes
          MaxSaves             \* bound: changes of the host policy

VARIABLES
    host, tip, ledger,  \* the shared store, the task branch, the commits of task_commits
    priv, head,         \* the private store and its HEAD
    copy,               \* Provision's walk
    serve,              \* StreamReachable's walk, and the frames it wrote
    land,               \* the daemon's land: the pool it decoded and how far its import is
    policy,             \* require_sandbox as policy.json has it: on, off, or half written
    faults, saves
vars == <<host, tip, ledger, priv, head, copy, serve, land, policy, faults, saves>>
stores == <<host, tip, ledger, priv, head, copy>>

None == "none"
Base == "C0"

\* The history: C1 and F follow C0, C2 follows C1, M merges C1 and F.
Parents(c) == CASE c = "C0" -> <<>> [] c \in {"C1", "F"} -> <<"C0">> [] c = "C2" -> <<"C1">> [] c = "M" -> <<"C1", "F">>
TreeOf(c) == CASE c = "C0" -> "T0" [] c \in {"C1", "M"} -> "T1" [] c = "C2" -> "T2" [] c = "F" -> "TF"
Commits == {"C0", "C1", "C2", "F", "M"}

\* The trees: a file f, a directory d with a file g in it, a submodule m.
File(n, h) == [name |-> n, mode |-> "file", hash |-> h]
Dir(n, h) == [name |-> n, mode |-> "dir", hash |-> h]
Submodule(n, h) == [name |-> n, mode |-> "submodule", hash |-> h]
Entries(t) ==
    CASE t = "T0" -> <<Dir("d", "S0"), File("f", "b0")>>
      [] t = "T1" -> <<Dir("d", "S0"), File("f", "b2")>>
      [] t = "T2" -> <<Dir("d", "S2"), File("f", "b2")>>
      [] t = "TF" -> <<Dir("d", "S0"), File("f", "b0"), Submodule("m", "other")>>
      [] t = "S0" -> <<File("g", "b1")>>
      [] t = "S2" -> <<File("g", "b3")>>
Trees == {"T0", "T1", "T2", "TF", "S0", "S2"}
Blobs == {"b0", "b1", "b2", "b3"}
Objects == Commits \cup Trees \cup Blobs

\* Mutant: the tree is pushed last, so a commit's own objects go out before its parents'.
childrenTreeFirst(o) ==
    CASE o \in Commits -> Parents(o) \o <<TreeOf(o)>>
      [] o \in Trees -> LET kept == SelectSeq(Entries(o), LAMBDA e : e.mode # "submodule")
                        IN  [i \in DOMAIN kept |-> kept[i].hash]
      [] OTHER -> <<>>

\* children: a commit's tree and parents, a tree's entries other than submodules.
children(o) ==
    CASE o \in Commits -> <<TreeOf(o)>> \o Parents(o)
      [] o \in Trees -> LET kept == SelectSeq(Entries(o), LAMBDA e : e.mode # "submodule")
                        IN  [i \in DOMAIN kept |-> kept[i].hash]
      [] OTHER -> <<>>

RECURSIVE Reach(_)
Reach(S) == LET more == S \cup UNION {ToSet(children(o)) : o \in S}
            IN  IF more = S THEN S ELSE Reach(more)
Reachable(c) == Reach({c})

Idle == [at |-> "idle", work |-> <<>>, seen |-> {}, sent |-> <<>>]
NoLand == [at |-> "idle", pool |-> <<>>, chain |-> <<>>, attested |-> FALSE]
Fault == faults < MaxFaults /\ faults' = faults + 1

Init ==
    /\ host = Reachable(Base) /\ tip = None /\ ledger = {}
    /\ priv = {} /\ head = None
    /\ copy = Idle /\ serve = Idle /\ land = NoLand
    /\ policy = "off"
    /\ faults = 0 /\ saves = 0

----------------------------------------------------------------------------
(* Provision.                                                                *)

\* The task branch, or HEAD where the task has none.
resolveBase == IF tip # None THEN tip ELSE Base

Provision ==
    /\ copy = Idle /\ head = None /\ priv = {}
    /\ copy' = [at |-> "copy", work |-> <<resolveBase>>, seen |-> {}, sent |-> <<resolveBase>>]
    /\ UNCHANGED <<host, tip, ledger, priv, head, serve, land, faults, policy, saves>>

\* One round of the walk both sides make: take the last item, unless it was seen.
Pop(walk) == Last(walk.work)
Visit(walk, o, sent) == [walk EXCEPT !.work = Front(@) \o children(o), !.seen = @ \cup {o}, !.sent = sent]
Skip(walk) == [walk EXCEPT !.work = Front(@)]

\* copyReachable: the references are set once the walk is done; a failed read removes the
\* private store.
copyReachable ==
    /\ copy.at = "copy"
    /\ \/ /\ copy.work # <<>>
          /\ LET o == Pop(copy) IN
             IF o \in copy.seen THEN copy' = Skip(copy) /\ UNCHANGED priv
             ELSE o \in host /\ copy' = Visit(copy, o, copy.sent) /\ priv' = priv \cup {o}
          /\ UNCHANGED <<head, faults>>
       \/ copy.work = <<>> /\ head' = Head(copy.sent) /\ copy' = Idle /\ UNCHANGED <<priv, faults>>
       \/ /\ copy.work # <<>> /\ ((Pop(copy) \notin host /\ UNCHANGED faults) \/ Fault)
          /\ copy' = Idle /\ priv' = {} /\ UNCHANGED head
    /\ UNCHANGED <<host, tip, ledger, serve, land, policy, saves>>

----------------------------------------------------------------------------
(* The guest.                                                                *)

GuestCommit(c) ==
    /\ head # None /\ Parents(c) # <<>> /\ Parents(c)[1] = head /\ ToSet(Parents(c)) \subseteq priv
    /\ priv' = priv \cup Reachable(c) /\ head' = c
    /\ UNCHANGED <<host, tip, ledger, copy, serve, land, faults, policy, saves>>

\* A branch that F is on, so that M has something to merge.
GuestSideCommit ==
    /\ head # None /\ "F" \notin priv
    /\ priv' = priv \cup Reachable("F")
    /\ UNCHANGED <<host, tip, ledger, head, copy, serve, land, faults, policy, saves>>

\* ServeLandHead opens the store when the host connects and streams from HEAD.
ServeLandHead ==
    /\ land.at = "pull" /\ serve = Idle
    /\ serve' = [Idle EXCEPT !.at = "serve", !.work = IF head = None THEN <<>> ELSE <<head>>]
    /\ UNCHANGED <<stores, land, policy, saves, faults>>

\* serveObject writes one frame; an object that cannot be read ends the stream, and the
\* host sees the end of the last whole frame.
StreamReachable ==
    /\ serve.at = "serve"
    /\ \/ /\ serve.work # <<>>
          /\ LET o == Pop(serve) IN
             serve' = IF o \in serve.seen THEN Skip(serve) ELSE Visit(serve, o, Append(serve.sent, o))
          /\ UNCHANGED faults
       \/ serve.work = <<>> /\ serve' = [serve EXCEPT !.at = "closed"] /\ UNCHANGED faults
       \/ serve.work # <<>> /\ Fault /\ serve' = [serve EXCEPT !.at = "closed", !.work = <<>>]
    /\ UNCHANGED <<stores, land, policy, saves>>

----------------------------------------------------------------------------
(* The land.                                                                 *)

Pull ==
    /\ land.at = "idle" /\ serve = Idle /\ head # None
    /\ land' = [land EXCEPT !.at = "pull"]
    /\ UNCHANGED <<stores, serve, policy, saves, faults>>

\* DecodeObjects: frames up to the end of the stream, within the ceiling; a stream torn
\* inside a frame yields nothing.
DecodeObjects ==
    /\ land.at = "pull" /\ serve.at = "closed"
    /\ IF Len(serve.sent) > MaxObjectsPerLand THEN land' = NoLand
       ELSE land' = [land EXCEPT !.at = "claim", !.pool = serve.sent]
    /\ serve' = Idle
    /\ UNCHANGED <<stores, policy, saves, faults>>

TornFrame ==
    /\ serve.at = "serve" /\ Fault
    /\ serve' = Idle /\ land' = NoLand
    /\ UNCHANGED <<stores, policy, saves>>

\* A commit is new when it is neither in the ledger nor in the shared store.
newPoolCommits(pool) == {c \in ToSet(pool) \cap Commits : c \notin ledger /\ c \notin host}
FirstParent(c) == IF Parents(c) = <<>> THEN None ELSE Parents(c)[1]

\* orderChain: one root, and one child each, through every new commit.
orderChain(new) ==
    {ch \in SetToSeqs(new) :
        /\ new # {} /\ FirstParent(ch[1]) \notin new
        /\ \A i \in 1..(Len(ch) - 1) : FirstParent(ch[i + 1]) = ch[i]}

\* landedFileSet: the tree is walked in the given store, where every subtree must be; the
\* leaves are files and submodules.
Subtrees(t) == Reachable(t) \cap Trees
Resolvable(t, store) == Subtrees(t) \subseteq store
landedFileSet(t) ==
    {[path |-> e.name, hash |-> e.hash] : e \in {x \in UNION {ToSet(Entries(s)) : s \in Subtrees(t)} : x.mode # "dir"}}

\* diffFileSets, as the new side of it: what the landed tree has and the parent has not.
diffFileSets(parent, landed) == {f \in landed : f \notin parent}

\* ParentFileSet: the orchestrator's comes from the shared store, the registered pool
\* having been dropped when the request was built.
HasParentFileSet(c) == FirstParent(c) = None \/ (FirstParent(c) \in host /\ Resolvable(TreeOf(FirstParent(c)), host))
ParentFileSet(c) == IF FirstParent(c) = None THEN {} ELSE landedFileSet(TreeOf(FirstParent(c)))

\* VerifyTreeBinding: the tree is in the pool, and so is every blob the parent has not.
VerifyTreeBinding(pool, c) ==
    /\ HasParentFileSet(c) /\ Resolvable(TreeOf(c), ToSet(pool))
    /\ \A f \in diffFileSets(ParentFileSet(c), landedFileSet(TreeOf(c))) : f.hash \in ToSet(pool)

\* buildRequest: nothing new, or no single chain, and the pool is discarded. Where the
\* policy asks for it, each claimed commit is attested; an unreadable policy is an error.
Discard == land' = NoLand
buildRequest ==
    LET new == newPoolCommits(land.pool) IN
    /\ land.at = "claim"
    /\ \/ \E ch \in orderChain(new) :
            /\ policy # "torn" /\ \A c \in new : Resolvable(TreeOf(c), ToSet(land.pool))
            /\ land' = [land EXCEPT !.at = "verify", !.chain = ch, !.attested = (policy = "on")]
       \/ /\ orderChain(new) = {} \/ policy = "torn" \/ \E c \in new : ~Resolvable(TreeOf(c), ToSet(land.pool))
          /\ Discard
    /\ UNCHANGED <<stores, serve, policy, saves, faults>>

\* EnforceRequireSandbox: with the policy off a commit lands without provenance; with it
\* on the attestation made for it is required, and its row names the sandbox.
EnforceRequireSandbox == policy = "off" \/ (policy = "on" /\ land.attested)

\* verifyBatch reads the policy again and binds every commit before any is imported.
verifyBatch ==
    /\ land.at = "verify"
    /\ IF EnforceRequireSandbox /\ \A c \in ToSet(land.chain) : VerifyTreeBinding(land.pool, c)
       THEN land' = [land EXCEPT !.at = "import"]
       ELSE land' = NoLand
    /\ UNCHANGED <<stores, serve, policy, saves, faults>>

\* ImportObjects writes the pool object by object, in the order of the stream.
ImportObjects ==
    /\ land.at = "import"
    /\ IF land.pool # <<>>
       THEN host' = host \cup {Head(land.pool)} /\ land' = [land EXCEPT !.pool = Tail(@)]
       ELSE UNCHANGED host /\ land' = [land EXCEPT !.at = "append"]
    /\ UNCHANGED <<tip, ledger, priv, head, copy, serve, faults, policy, saves>>

\* Lander.Land: then one transaction for the rows, then the branch.
AppendTaskCommits ==
    /\ land.at = "append"
    /\ ledger' = ledger \cup ToSet(land.chain)
    /\ land' = [land EXCEPT !.at = "publish"]
    /\ UNCHANGED <<host, tip, priv, head, copy, serve, policy, saves, faults>>

FastForward ==
    /\ land.at = "publish"
    /\ tip' = IF tip = None \/ tip \in Reachable(Last(land.chain)) THEN Last(land.chain) ELSE tip
    /\ land' = NoLand
    /\ UNCHANGED <<host, ledger, priv, head, copy, serve, faults, policy, saves>>

Crash == /\ land # NoLand /\ Fault /\ land' = NoLand /\ serve' = Idle
         /\ UNCHANGED <<stores, policy, saves>>

\* policy.Store.save writes the file in place; a crash leaves it half written.
save ==
    /\ \/ policy # "torn" /\ saves < MaxSaves /\ saves' = saves + 1 /\ policy' = "torn" /\ UNCHANGED faults
       \/ policy = "torn" /\ policy' \in {"on", "off"} /\ UNCHANGED <<saves, faults>>
    /\ UNCHANGED <<stores, serve, land>>

Next ==
    \/ Provision \/ copyReachable
    \/ (\E c \in Commits : GuestCommit(c)) \/ GuestSideCommit
    \/ ServeLandHead \/ StreamReachable \/ TornFrame
    \/ Pull \/ DecodeObjects \/ buildRequest \/ verifyBatch \/ ImportObjects \/ AppendTaskCommits \/ FastForward
    \/ Crash \/ save

Spec == Init /\ [][Next]_vars

----------------------------------------------------------------------------
TypeOK ==
    /\ host \subseteq Objects /\ priv \subseteq Objects /\ ledger \subseteq Commits
    /\ tip \in Commits \cup {None} /\ head \in Commits \cup {None}
    /\ ToSet(land.pool) \subseteq Objects /\ ToSet(serve.work) \subseteq Objects

\* No reference names a commit whose objects are not all there: not the private store's
\* HEAD, whatever the copy met, and not the task branch, whichever frames of the stream
\* arrived and wherever an import stopped.
RefsResolve ==
    /\ head # None => Reachable(head) \subseteq priv
    /\ tip # None => Reachable(tip) \subseteq host
=============================================================================
