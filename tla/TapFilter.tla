------------------------------ MODULE TapFilter ------------------------------
(***************************************************************************)
(* The host-side packet filter of a sandbox's tap device                   *)
(* (internal/sandboxd/egress/hostfilter.go, run by                         *)
(* backend/firecracker/network.go).  Every sandbox has chains of its own,  *)
(* entered from the top of the host's shared chains; the commands of       *)
(* several sandboxes interleave, one ip or iptables call at a time, any of *)
(* which may fail.                                                         *)
(*                                                                         *)
(* What a command does to the kernel's tables, and how a packet walks      *)
(* them, is external.  A sandbox stands for its tap device, for its        *)
(* guest's address and for its gateway's.                                  *)
(***************************************************************************)
EXTENDS Naturals, FiniteSets, SequencesExt

CONSTANTS Sandboxes,
          Modes,       \* the network modes launched, of {"none", "allowlist", "open"}
          Uplinks,     \* what the default route's detection yields: "ext", or ""
          Policies,    \* the host's own default for its chains
          MaxFaults    \* bound on the commands that fail and the daemon's deaths

VARIABLES plan,       \* sandbox -> its TapPlan
          pc,         \* sandbox -> new | setup | booted | teardown | gone | failed
          todo,       \* sandbox -> the commands still to run
          taps, forwarding, chains,   \* the host
          policy,     \* the host's default verdict
          botched, faults  \* the sandboxes a command failed for; how often

vars == <<plan, pc, todo, taps, forwarding, chains, policy, botched, faults>>

-----------------------------------------------------------------------------
(* Rules and commands.                                                     *)

Wild == [in |-> "any", out |-> "any", src |-> "any", proto |-> "any", dst |-> "any", port |-> "any"]
Rule(match, to) == [match |-> match, to |-> to]

\* Chains and verdicts are named alike: a rule goes to either.
INPUT == <<"INPUT", "">>
FORWARD == <<"FORWARD", "">>
PREROUTING == <<"PREROUTING", "">>
POSTROUTING == <<"POSTROUTING", "">>
chainName(s) == <<"f", s>>
natChainName(s) == <<"n", s>>
Verdict(v) == <<v, "">>

Cmd(op, chain, rule) == [op |-> op, chain |-> chain, rule |-> rule]
NoRule == Rule(Wild, Verdict("RETURN"))
Entry(s, chain) == Rule([Wild EXCEPT !.in = s], chain)
Service(s, proto, port) ==
  Rule([Wild EXCEPT !.proto = proto, !.dst = s, !.port = port], Verdict("ACCEPT"))
Replies(s) == Rule([Wild EXCEPT !.in = "ext", !.out = s], Verdict("ACCEPT"))
Masked(s) == Rule([Wild EXCEPT !.src = s, !.out = "ext"], Verdict("MASQUERADE"))

\* The ports are constants; only open mode's uplink can be missing.
validate(p) == p.mode = "open" => p.ext # ""

linkUpCommands(s) == <<Cmd("tap", chainName(s), NoRule)>>

\* TCP goes to the transparent proxy, except to the gateway itself; the
\* gateway's services are accepted and everything else is dropped.
allowlistRules(s) ==
  LET c == chainName(s)  nc == natChainName(s) IN
  << Cmd("new", nc, NoRule),
     Cmd("append", nc, Rule([Wild EXCEPT !.proto = "tcp", !.dst = s], Verdict("RETURN"))),
     Cmd("append", nc, Rule([Wild EXCEPT !.proto = "tcp"], Verdict("REDIRECT"))),
     Cmd("insert", PREROUTING, Entry(s, nc)),
     Cmd("new", c, NoRule),
     Cmd("append", c, Service(s, "tcp", "transparent")),
     Cmd("append", c, Service(s, "tcp", "proxy")),
     Cmd("append", c, Service(s, "udp", "dns")),
     Cmd("append", c, Service(s, "tcp", "dns")),
     Cmd("append", c, Rule(Wild, Verdict("DROP"))),
     Cmd("insert", INPUT, Entry(s, c)),
     Cmd("insert", FORWARD, Entry(s, c)) >>

openRules(s) ==
  LET c == chainName(s) IN
  << Cmd("forward", FORWARD, NoRule),
     Cmd("new", c, NoRule),
     Cmd("append", c, Rule([Wild EXCEPT !.out = "ext"], Verdict("ACCEPT"))),
     Cmd("append", c, Service(s, "udp", "dns")),
     Cmd("append", c, Service(s, "tcp", "dns")),
     Cmd("insert", INPUT, Entry(s, c)),
     Cmd("insert", FORWARD, Entry(s, c)),
     Cmd("insert", FORWARD, Replies(s)),
     Cmd("insert", POSTROUTING, Masked(s)) >>

SetupCommands(s, mode) ==
  CASE mode = "none"      -> <<>>
    [] mode = "allowlist" -> linkUpCommands(s) \o allowlistRules(s)
    [] mode = "open"      -> linkUpCommands(s) \o openRules(s)

Own(s) ==
  LET c == chainName(s) IN
  << Cmd("flush", c, NoRule), Cmd("remove", c, NoRule), Cmd("untap", c, NoRule) >>

Unhook(s, mode) ==
  LET c == chainName(s)  nc == natChainName(s) IN
  IF mode = "allowlist"
  THEN << Cmd("delete", INPUT, Entry(s, c)), Cmd("delete", FORWARD, Entry(s, c)),
          Cmd("delete", PREROUTING, Entry(s, nc)),
          Cmd("flush", nc, NoRule), Cmd("remove", nc, NoRule) >>
  ELSE << Cmd("delete", POSTROUTING, Masked(s)), Cmd("delete", FORWARD, Replies(s)),
          Cmd("delete", FORWARD, Entry(s, c)), Cmd("delete", INPUT, Entry(s, c)) >>

\* A TeardownCommands that takes the chains away first.
TeardownChainsFirst(s, mode) == IF mode = "none" THEN <<>> ELSE Own(s) \o Unhook(s, mode)

\* What points to the chains goes before the chains.
TeardownCommands(s, mode) == IF mode = "none" THEN <<>> ELSE Unhook(s, mode) \o Own(s)

-----------------------------------------------------------------------------
(* The kernel: commands.                                                    *)

Referenced(c) == \E d \in DOMAIN chains : \E i \in DOMAIN chains[d] : chains[d][i].to = c

\* Whether a command can take effect.
Works(s, cmd) ==
  CASE cmd.op = "tap"     -> s \notin taps
    [] cmd.op = "untap"   -> s \in taps
    [] cmd.op = "new"     -> cmd.chain \notin DOMAIN chains
    [] cmd.op = "remove"  -> cmd.chain \in DOMAIN chains /\ chains[cmd.chain] = <<>> /\ ~Referenced(cmd.chain)
    [] cmd.op = "delete"  -> Contains(chains[cmd.chain], cmd.rule)
    [] cmd.op \in {"append", "insert", "flush"} -> cmd.chain \in DOMAIN chains
    [] OTHER -> TRUE

Run(s, cmd) ==
  LET c == cmd.chain IN
  /\ taps' = CASE cmd.op = "tap" -> taps \cup {s} [] cmd.op = "untap" -> taps \ {s} [] OTHER -> taps
  /\ forwarding' = (forwarding \/ cmd.op = "forward")
  /\ chains' = CASE cmd.op = "new"    -> [d \in DOMAIN chains \cup {c} |-> IF d = c THEN <<>> ELSE chains[d]]
                 [] cmd.op = "remove" -> [d \in DOMAIN chains \ {c} |-> chains[d]]
                 [] cmd.op = "flush"  -> [chains EXCEPT ![c] = <<>>]
                 [] cmd.op = "append" -> [chains EXCEPT ![c] = Append(@, cmd.rule)]
                 [] cmd.op = "insert" -> [chains EXCEPT ![c] = <<cmd.rule>> \o @]
                 [] cmd.op = "delete" -> [chains EXCEPT ![c] = RemoveFirst(@, cmd.rule)]
                 [] OTHER -> chains

Fault(s) ==
  /\ faults < MaxFaults /\ faults' = faults + 1
  /\ botched' = botched \cup {s}
Sound == UNCHANGED <<botched, faults>>
Unmoved == UNCHANGED <<taps, forwarding, chains>>

-----------------------------------------------------------------------------
(* The backend.                                                             *)

tapPlanFor(mode, ext) == [mode |-> mode, ext |-> ext]

\* CreateVM: the plan is made and refused before any command runs.
CreateVM(s, mode, ext) ==
  /\ pc[s] = "new"
  /\ plan' = [plan EXCEPT ![s] = tapPlanFor(mode, ext)]
  /\ LET ok == validate(tapPlanFor(mode, ext)) IN
     /\ pc' = [pc EXCEPT ![s] = IF ok THEN "setup" ELSE "failed"]
     /\ todo' = [todo EXCEPT ![s] = IF ok THEN SetupCommands(s, mode) ELSE <<>>]
  /\ Unmoved /\ Sound /\ UNCHANGED policy

\* One command at a time; the first that fails ends the launch, as it stands.
applyTapPlan(s) ==
  /\ pc[s] = "setup" /\ todo[s] # <<>>
  /\ LET cmd == Head(todo[s]) IN
     \/ /\ Works(s, cmd) /\ Run(s, cmd) /\ Sound
        /\ todo' = [todo EXCEPT ![s] = Tail(@)] /\ UNCHANGED pc
     \/ /\ IF Works(s, cmd) THEN Fault(s) ELSE Sound
        /\ Unmoved
        /\ pc' = [pc EXCEPT ![s] = "failed"] /\ todo' = [todo EXCEPT ![s] = <<>>]
  /\ UNCHANGED <<plan, policy>>

\* The VMM boots the guest once its filter stands.
Start(s) ==
  /\ pc[s] = "setup" /\ todo[s] = <<>>
  /\ pc' = [pc EXCEPT ![s] = "booted"]
  /\ Unmoved /\ Sound /\ UNCHANGED <<plan, todo, policy>>

\* Stop, or a boot that fails: the VMM ends, then its filter is removed.
teardown(s) ==
  /\ pc[s] \in {"setup", "booted"} /\ todo[s] = <<>>
  /\ pc' = [pc EXCEPT ![s] = "teardown"]
  /\ todo' = [todo EXCEPT ![s] = TeardownCommands(s, plan[s].mode)]
  /\ Unmoved /\ Sound /\ UNCHANGED <<plan, policy>>

\* Best effort: a command that fails is passed over.
removeTapPlan(s) ==
  /\ pc[s] = "teardown"
  /\ IF todo[s] = <<>>
     THEN pc' = [pc EXCEPT ![s] = "gone"] /\ Unmoved /\ Sound /\ UNCHANGED todo
     ELSE /\ \/ Works(s, Head(todo[s])) /\ Run(s, Head(todo[s])) /\ Sound
             \/ Works(s, Head(todo[s])) /\ Fault(s) /\ Unmoved
             \/ ~Works(s, Head(todo[s])) /\ Sound /\ Unmoved
          /\ todo' = [todo EXCEPT ![s] = Tail(@)] /\ UNCHANGED pc
  /\ UNCHANGED <<plan, policy>>

\* The daemon dies: its VMMs die with it, the host's tables stay.
DaemonDies ==
  /\ faults < MaxFaults /\ faults' = faults + 1
  /\ botched' = botched \cup {s \in Sandboxes : pc[s] # "new"}
  /\ pc' = [s \in Sandboxes |-> IF pc[s] = "new" THEN "new" ELSE "failed"]
  /\ todo' = [s \in Sandboxes |-> <<>>]
  /\ Unmoved /\ UNCHANGED <<plan, policy>>

-----------------------------------------------------------------------------
Init ==
  /\ plan = [s \in Sandboxes |-> tapPlanFor("none", "")]
  /\ pc = [s \in Sandboxes |-> "new"] /\ todo = [s \in Sandboxes |-> <<>>]
  /\ taps = {} /\ forwarding \in BOOLEAN
  /\ chains = [c \in {INPUT, FORWARD, PREROUTING, POSTROUTING} |-> <<>>]
  /\ policy \in Policies
  /\ botched = {} /\ faults = 0

Next ==
  \/ \E s \in Sandboxes :
       \/ \E mode \in Modes, ext \in Uplinks : CreateVM(s, mode, ext)
       \/ applyTapPlan(s) \/ Start(s) \/ teardown(s) \/ removeTapPlan(s)
  \/ DaemonDies

Spec == Init /\ [][Next]_vars

-----------------------------------------------------------------------------
(* The kernel: packets.                                                     *)

Packets(s) ==
  [in : {s}, out : {"none"}, src : {s}, proto : {"tcp", "udp"},
   dst : Sandboxes \cup {"outside"}, port : {"proxy", "dns", "transparent", "other"}]

Hits(c, k) ==
  SelectSeq(chains[c], LAMBDA r : \A f \in DOMAIN Wild : r.match[f] \in {"any", k[f]})

\* A chain of a sandbox decides up to a RETURN; the host's chain goes on.
Decided(r, k) ==
  IF r.to \notin DOMAIN chains THEN <<r.to[1]>>
  ELSE LET h == Hits(r.to, k)
           back == {i \in DOMAIN h : h[i].to = Verdict("RETURN")}
           n == IF back = {} THEN Len(h) ELSE (CHOOSE i \in back : \A j \in back : i <= j) - 1
       IN [i \in 1..n |-> h[i].to[1]]

Outcome(c, k) ==
  LET h == Hits(c, k)
      all == FlattenSeq([i \in DOMAIN h |-> Decided(h[i], k)])
  IN IF all = <<>> THEN policy ELSE all[1]

Routed(s, k) ==
  LET r == IF Outcome(PREROUTING, k) = "REDIRECT" THEN [k EXCEPT !.dst = s, !.port = "transparent"] ELSE k
  IN IF r.dst \in taps THEN r ELSE [r EXCEPT !.out = "ext"]

Accepted(s, k) ==
  LET r == Routed(s, k)
  IN IF r.out = "none" THEN Outcome(INPUT, r) = "ACCEPT"
                       ELSE forwarding /\ Outcome(FORWARD, r) = "ACCEPT"

Answered(s, k) ==
  /\ Outcome(POSTROUTING, Routed(s, k)) = "MASQUERADE"
  /\ Outcome(FORWARD, [k EXCEPT !.in = "ext", !.out = s, !.src = "outside", !.dst = "inside"]) = "ACCEPT"

-----------------------------------------------------------------------------
\* Every sandbox has at most its own chains and is where its commands are.
TypeOK ==
  /\ \A s \in Sandboxes : /\ pc[s] \in {"new", "setup", "booted", "teardown", "gone", "failed"}
                          /\ pc[s] \notin {"setup", "teardown"} => todo[s] = <<>>
  /\ taps \subseteq Sandboxes /\ faults \in 0..MaxFaults /\ botched \subseteq Sandboxes
  /\ DOMAIN chains \subseteq {INPUT, FORWARD, PREROUTING, POSTROUTING}
       \cup {chainName(s) : s \in Sandboxes} \cup {natChainName(s) : s \in Sandboxes}

\* What a running guest reaches is decided by its mode, whatever the host's
\* own policy and whatever the filters of other sandboxes are being set up,
\* removed or left half way (TapPlan's chains): under an allowlist all TCP that
\* is not for its gateway arrives at the transparent proxy, and it reaches
\* nothing but its gateway's services; an open guest reaches the outside, its
\* packets are masqueraded and the replies come back.
ModeDecidesReach ==
  \A s \in {x \in Sandboxes : pc[x] = "booted"} : \A k \in Packets(s) :
    CASE plan[s].mode = "allowlist" ->
           LET r == Routed(s, k)
               served == r.dst = s /\ (<<r.proto, r.port>> \in {"tcp"} \X {"proxy", "dns", "transparent"} \cup {<<"udp", "dns">>})
           IN Accepted(s, k) = served /\ (k.proto = "tcp" => r.dst = s)
      [] plan[s].mode = "open" -> k.dst = "outside" => Accepted(s, k) /\ Answered(s, k)
      [] OTHER -> TRUE

\* A sandbox that was torn down leaves nothing on the host (removeTapPlan,
\* "no residue"), though others' commands ran in between, unless one of its
\* own commands failed.
NoResidue ==
  \A s \in Sandboxes : pc[s] = "gone" /\ s \notin botched =>
    /\ s \notin taps /\ {chainName(s), natChainName(s)} \cap DOMAIN chains = {}
    /\ \A c \in DOMAIN chains : \A i \in DOMAIN chains[c] :
         LET r == chains[c][i] IN s \notin {r.match.in, r.match.out, r.match.src}

\* A sandbox's filter follows its life: while the guest runs its mode decides
\* what it reaches, and once it is gone nothing of it is left on the host
\* (TapPlan.SetupCommands, TeardownCommands).
FilterFollowsLife == ModeDecidesReach /\ NoResidue
=============================================================================
