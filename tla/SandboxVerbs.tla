---------------------------- MODULE SandboxVerbs ----------------------------
(***************************************************************************)
(* The sandbox verbs, from the command line to the daemon and back: the    *)
(* repository a directory belongs to (sandbox_connect.go), the calls each  *)
(* command makes (sandbox*.go, run.go), the control protocol's answers     *)
(* (controlproto.go, client.go, dispatch.go) and what the command tells    *)
(* its reader about a failure (sandbox_guest_failure.go).                  *)
(*                                                                         *)
(* An error is the set of marks its text carries: the only thing that      *)
(* crosses the wire, and what the classification reads.  What the service  *)
(* does for a verb is modelled elsewhere (SandboxService, Landing,         *)
(* EgressControl, WorktreeSync, ArtifactExport); here it is its outcome    *)
(* and whether anything was applied.                                       *)
(***************************************************************************)
EXTENDS Naturals, FiniteSets

CONSTANTS
  Cmds,         \* the commands run, each once
  Repos,        \* repositories, each with its daemon
  Tasks,
  Wired,        \* the optional verbs the daemon has a coordinator for
  MaxRestarts

\* Outside every repository lies the directory "wt"; "sub", inside it, is a
\* linked worktree of the repository "repo".
Dirs      == Repos \cup {"wt", "sub"}
Worktrees == {"wt", "sub"}
Linked    == {"sub"}
Up        == [d \in Dirs |-> IF d = "sub" THEN <<"sub", "wt">> ELSE <<d>>]

Optional == {"land", "grants", "grant", "policySet", "policyShow", "export", "syncVerify"}
Calls    == Optional \cup {"launch", "exec", "list", "remove", "status", "sync", "echo", "shell"}
Names    == Calls \cup {"run", "runCheck", "published", "policyRevoke"}

Marks == {"skew", "stall", "ceiling", "layout", "unbootable", "guestskew", "resolve",
          "krun", "notserving", "eof", "notfound", "unserved", "oversize", "invalid"}

None    == "none"
NoOwner == [repo |-> None, task |-> None]
Unbound == [wt |-> None, st |-> None]
States  == {"created", "running", "dead"}

VARIABLES
  bound,      \* bound[r][t]: the sandbox r's daemon has registered for t
  daemon,     \* what answers on r's socket: "down", "this" or "other" wire version
  owner,      \* the sandbox-owner record in a directory's .mgit
  decorated,  \* directories a launch wrote agent files into
  cmd,        \* the commands
  inbox,      \* requests a daemon has received and not yet served
  restarts

vars == <<bound, daemon, owner, decorated, cmd, inbox, restarts>>

Fresh == [name |-> None, at |-> "idle", dir |-> None, task |-> None, repo |-> None,
          call |-> None, seen |-> None, ok |-> FALSE, text |-> {}, why |-> {}, hit |-> FALSE,
          midway |-> FALSE, claim |-> None]

TypeOK ==
  /\ bound \in [Repos -> [Tasks -> {Unbound} \cup [wt : Worktrees, st : States]]]
  /\ daemon \in [Repos -> {"down", "this", "other"}]
  /\ owner \in [Dirs -> {NoOwner} \cup [repo : Repos, task : Tasks]]
  /\ decorated \subseteq Worktrees /\ inbox \subseteq Cmds \X Calls /\ restarts \in 0..MaxRestarts
  /\ \A c \in Cmds :
       /\ cmd[c].name \in Names \cup {None}
       /\ cmd[c].at \in {"idle", "connect", "dial", "sent", "answered", "told"}
       /\ cmd[c].call \in Calls \cup {None} /\ cmd[c].text \subseteq Marks
       /\ cmd[c].why \subseteq Marks /\ cmd[c].seen \in Worktrees \cup Tasks \cup {None}
       /\ cmd[c].claim \in {None, "nothing", "unsent", "midcommand"}
       /\ cmd[c].at \in {"sent", "answered"} => cmd[c].repo \in Repos

Init ==
  /\ bound = [r \in Repos |-> [t \in Tasks |-> Unbound]]
  /\ daemon \in [Repos -> {"down", "this"}]
  /\ owner = [d \in Dirs |-> NoOwner] /\ decorated = {}
  /\ cmd = [c \in Cmds |-> Fresh] /\ inbox = {} /\ restarts = 0

-----------------------------------------------------------------------------
(* Which daemon a directory's verbs reach. *)

HasMgit(d) == d \in Repos \cup decorated \cup Linked \/ owner[d] # NoOwner

findRepoRoot(d) ==
  LET roots == {i \in DOMAIN Up[d] : HasMgit(Up[d][i])} IN
  IF roots = {} THEN None
  ELSE Up[d][CHOOSE i \in roots : \A j \in roots : i <= j]

\* A linked worktree's marker names its store; otherwise the owner record does;
\* a directory that only carries a launch's agent files is refused.
sandboxRepoRoot(d) ==
  LET root == findRepoRoot(d) IN
  IF root = None THEN None
  ELSE IF root \in Linked THEN "repo"
  ELSE IF owner[root] # NoOwner THEN owner[root].repo
  ELSE IF root \in Repos THEN root
  ELSE None

WriteSandboxOwner(d, r, t) == owner' = [owner EXCEPT ![d] = [repo |-> r, task |-> t]]

ClearSandboxOwner(d, t) ==
  owner' = IF d # None /\ owner[d].task = t THEN [owner EXCEPT ![d] = NoOwner] ELSE owner

\* The nearest worktree around the directory that has a sandbox to route to.
sandboxForDir(reg, d) ==
  LET at == {i \in DOMAIN Up[d] : \E t \in Tasks : reg[t].wt = Up[d][i]} IN
  IF at = {} THEN None
  ELSE CHOOSE t \in Tasks : reg[t].wt = Up[d][CHOOSE i \in at : \A j \in at : i <= j]

-----------------------------------------------------------------------------
(* What a failed exec is said to be. *)

isLostServing(text) == "eof" \in text

\* The order is a precedence: what says nothing about a guest is settled first.
Precedence == <<"versionSkew", "daemonStalled", "admissionRefused", "layoutRefused",
                "baseUnbootable", "guestVersionSkew", "notLaunched", "neverStarted",
                "lostServing">>

\* Mutant: a broken connection is taken for a guest that never started.
showsNeverStarted(phase, text) ==
  CASE phase = "versionSkew"      -> "skew" \in text
    [] phase = "daemonStalled"    -> "stall" \in text
    [] phase = "neverStarted"     -> "notserving" \in text \/ isLostServing(text)
    [] OTHER                      -> FALSE

\* The evidence each phase asks for.
shows(phase, text) ==
  CASE phase = "versionSkew"      -> "skew" \in text
    [] phase = "daemonStalled"    -> "stall" \in text
    [] phase = "admissionRefused" -> "ceiling" \in text
    [] phase = "layoutRefused"    -> "layout" \in text
    [] phase = "baseUnbootable"   -> "unbootable" \in text
    [] phase = "guestVersionSkew" -> "guestskew" \in text
    [] phase = "notLaunched"      -> "resolve" \in text /\ "krun" \notin text
    [] phase = "neverStarted"     -> "krun" \in text \/ "notserving" \in text
    [] phase = "lostServing"      -> isLostServing(text)

classifyGuestFailure(text) ==
  LET shown == {i \in DOMAIN Precedence : shows(Precedence[i], text)} IN
  IF shown = {} THEN "unidentified"
  ELSE Precedence[CHOOSE i \in shown : \A j \in shown : i <= j]

\* What the phase's report claims about the command.
writeGuestFailure(phase) ==
  CASE phase \in {"versionSkew", "admissionRefused", "layoutRefused", "baseUnbootable",
                  "notLaunched", "neverStarted"} -> "nothing"
    [] phase = "lostServing" -> "midcommand"
    [] OTHER -> None

\* A refusal in the daemon's own words: a verb it does not serve, an answer over
\* the cap ("Nothing was applied"; a sync has run by then).
refusalClaim(c, text) ==
  CASE "oversize" \in text /\ cmd[c].name = "sync"   -> "unsent"
    [] text \cap {"unserved", "oversize", "skew"} # {} -> "nothing"
    [] OTHER                                          -> None

-----------------------------------------------------------------------------
(* A command runs. *)

Set(c, rec) == cmd' = [cmd EXCEPT ![c] = rec]

\* The command has printed its report; what it may have left at the daemon stays.
Tell(c, claim) ==
  [Fresh EXCEPT !.at = "told", !.claim = claim, !.repo = cmd[c].repo, !.task = cmd[c].task,
                !.hit = cmd[c].hit, !.midway = cmd[c].midway]

\* The command's flags are checked before anything is dialed; a refusal there is
\* its own report.
Begin(c, name, call) ==
  /\ cmd[c].at = "idle"
  /\ \E d \in Dirs, t \in Tasks :
       \/ Set(c, [Fresh EXCEPT !.name = name, !.at = "connect", !.dir = d, !.task = t,
                               !.call = call])
       \/ Set(c, [Fresh EXCEPT !.at = "told", !.claim = "nothing"])
  /\ UNCHANGED <<bound, daemon, owner, decorated, inbox, restarts>>

sandboxLaunchCmd(c)       == Begin(c, "launch", "launch")
sandboxExecCmd(c)         == Begin(c, "exec", "exec")
newRunCmd(c)              == Begin(c, "run", "list")
runCheck(c)               == Begin(c, "runCheck", "list")
sandboxLandCmd(c)         == Begin(c, "land", "land")
sandboxExportCmd(c)       == Begin(c, "export", "export")
sandboxSyncCmd(c)         == Begin(c, "sync", "sync")
sandboxListCmd(c)         == Begin(c, "list", "list")
sandboxStatusCmd(c)       == Begin(c, "status", "status")
sandboxPublishedCmd(c)    == Begin(c, "published", "status")
sandboxRemoveCmd(c)       == Begin(c, "remove", "status")
sandboxGrantsCmd(c)       == Begin(c, "grants", "grants")
sandboxGrantCmd(c)        == Begin(c, "grant", "grant")
sandboxPolicySetCmd(c)    == Begin(c, "policySet", "policySet")
sandboxPolicyRevokeCmd(c) == Begin(c, "policyRevoke", "policySet")
sandboxPolicyShowCmd(c)   == Begin(c, "policyShow", "policyShow")
sandboxShellCmd(c)        == Begin(c, "shell", "shell")
Echo(c)                   == Begin(c, "echo", "echo")
VerifyGuestView(c)        == Begin(c, "syncVerify", "syncVerify")

\* A registered sandbox that never booted, or is known dead, survives its daemon;
\* one that claims a VM does not.
Rehydrate(r) ==
  bound' = [bound EXCEPT ![r] =
              [t \in Tasks |-> IF bound[r][t].st = "running" THEN Unbound ELSE bound[r][t]]]

\* productionSandboxConnect: the directory's repository, its daemon (started when
\* nothing answers); no failure falls back to the host.  A shell has no transport.
productionSandboxConnect(c) ==
  LET r == sandboxRepoRoot(cmd[c].dir)
      go == IF cmd[c].call = "shell" THEN Tell(c, None)
            ELSE [cmd[c] EXCEPT !.at = "dial", !.repo = r]
  IN
  /\ cmd[c].at = "connect"
  /\ \/ r = None /\ Set(c, Tell(c, "nothing")) /\ UNCHANGED <<bound, daemon>>
     \/ r # None /\ daemon[r] # "down" /\ Set(c, go) /\ UNCHANGED <<bound, daemon>>
     \/ /\ r # None /\ daemon[r] = "down"
        /\ \/ Set(c, go) /\ daemon' = [daemon EXCEPT ![r] = "this"] /\ Rehydrate(r)
           \/ Set(c, Tell(c, "nothing")) /\ UNCHANGED <<bound, daemon>>
  /\ UNCHANGED <<owner, decorated, inbox, restarts>>

-----------------------------------------------------------------------------
(* What each command does with the answer, or the error, of a call. *)

callNext(c, call) ==
  [cmd[c] EXCEPT !.at = "dial", !.call = call, !.ok = FALSE, !.text = {}]

\* launch: the owner is named inside the worktree (a record that cannot be written
\* is a warning) and the agent files are generated there.
recordSandboxOwner(c, wt) ==
  /\ decorated' = decorated \cup {wt}
  /\ WriteSandboxOwner(wt, cmd[c].repo, cmd[c].task) \/ UNCHANGED owner
  /\ Set(c, Tell(c, None))

\* remove: where the worktree is, is asked first; the record retires with the binding.
Remove(c, ok, text, seen) ==
  CASE cmd[c].call = "status" -> Set(c, callNext(c, "remove")) /\ UNCHANGED owner
    [] cmd[c].call = "remove" /\ ok ->
         ClearSandboxOwner(cmd[c].seen, cmd[c].task) /\ Set(c, Tell(c, None))
    [] cmd[c].call = "remove" /\ ~ok /\ "notfound" \in text ->
         Set(c, callNext(c, "list")) /\ UNCHANGED owner
    [] OTHER -> Set(c, Tell(c, None)) /\ UNCHANGED owner

\* run: the sandbox around the directory is looked up, then the command sent to
\* its task; an unbound directory is refused, never run on the host.
resolveRun(c, ok, text, seen) ==
  IF ok /\ seen # None THEN [callNext(c, "exec") EXCEPT !.task = seen]
  ELSE Tell(c, IF ok \/ "skew" \in text THEN "nothing" ELSE None)

runExec(c, ok, text) ==
  Tell(c, IF ok THEN None ELSE writeGuestFailure(classifyGuestFailure(text)))

\* A daemon that stopped answering, or refused the version, is asked nothing more;
\* otherwise the sandbox is consulted, and no answer means no diagnosis.
execFailure(c, text) ==
  IF text \cap {"stall", "skew"} # {}
  THEN Tell(c, writeGuestFailure(classifyGuestFailure(text)))
  ELSE [callNext(c, "status") EXCEPT !.why = text]

execCmd(c, ok, text) ==
  CASE cmd[c].call = "exec" /\ ok -> {Tell(c, None), [callNext(c, "status") EXCEPT !.why = {}]}
    [] cmd[c].call = "exec" /\ ~ok ->
         {IF "notfound" \in text THEN [callNext(c, "list") EXCEPT !.why = text]
          ELSE execFailure(c, text)}
    [] cmd[c].call = "list" -> {execFailure(c, cmd[c].why \cup (IF ok THEN {} ELSE text))}
    [] cmd[c].call = "status" ->
         {Tell(c, IF ok THEN writeGuestFailure(classifyGuestFailure(cmd[c].why)) ELSE None)}

\* explainNotFound asks for the list before the refusal is printed.
explainNotFound(c, ok, text) ==
  IF cmd[c].call # "list" /\ ~ok /\ "notfound" \in text THEN callNext(c, "list")
  ELSE Tell(c, IF ok THEN None ELSE refusalClaim(c, text))

Continue(c, ok, text, seen) ==
  LET n == cmd[c].name IN
  CASE n = "launch" /\ ok -> recordSandboxOwner(c, seen)
    [] n = "remove" -> Remove(c, ok, text, seen) /\ UNCHANGED decorated
    [] OTHER ->
         /\ UNCHANGED <<owner, decorated>>
         /\ \E rec \in CASE n \in {"run", "runCheck"} /\ cmd[c].call = "list" ->
                              {IF n = "run" THEN resolveRun(c, ok, text, seen) ELSE Tell(c, None)}
                         [] n = "run" /\ cmd[c].call = "exec" -> {runExec(c, ok, text)}
                         [] n = "exec" -> execCmd(c, ok, text)
                         [] n \in {"status", "published", "sync"} -> {explainNotFound(c, ok, text)}
                         [] OTHER -> {Tell(c, IF ok THEN None ELSE refusalClaim(c, text))} :
              Set(c, rec)

-----------------------------------------------------------------------------
(* The wire. *)

\* dialGreeted, the handshake and WriteRequest: nobody there, another wire version,
\* a request over its cap, or a connection lost before the request was written.
dialGreeted(c) ==
  /\ cmd[c].at = "dial"
  /\ CASE daemon[cmd[c].repo] = "down"  -> Continue(c, FALSE, {"eof"}, None) /\ UNCHANGED inbox
       [] daemon[cmd[c].repo] = "other" -> Continue(c, FALSE, {"skew"}, None) /\ UNCHANGED inbox
       [] OTHER ->
            \/ /\ Set(c, [cmd[c] EXCEPT !.at = "sent"]) /\ inbox' = inbox \cup {<<c, cmd[c].call>>}
               /\ UNCHANGED <<owner, decorated>>
            \/ \E text \in {{}, {"eof"}} : Continue(c, FALSE, text, None) /\ UNCHANGED inbox
  /\ UNCHANGED <<bound, daemon, restarts>>

\* ReadResponse, or the frames of an exec.
readAnswer(c) ==
  /\ cmd[c].at = "answered"
  /\ Continue(c, cmd[c].ok, cmd[c].text, cmd[c].seen)
  /\ UNCHANGED <<bound, daemon, inbox, restarts>>

\* The connection is cut, or the answer (a beat, for an exec) does not come in time.
giveUp(c) ==
  /\ cmd[c].at = "sent"
  /\ \E text \in {{"eof"}, IF cmd[c].call = "exec" THEN {"stall"} ELSE {}} :
       Continue(c, FALSE, text, cmd[c].seen)
  /\ UNCHANGED <<bound, daemon, inbox, restarts>>

-----------------------------------------------------------------------------
(* The daemon serves a request: the outcomes of each verb for the task's      *)
(* registration now.                                                          *)

Out(ok, text, seen, hit, now) == [ok |-> ok, text |-> text, seen |-> seen, hit |-> hit, now |-> now]
Fails(text, now)  == {Out(FALSE, text, None, FALSE, now)}
\* The service ran the verb and answered, or failed having done some of it or none.
Applies(now) == {Out(TRUE, {}, None, h, now) : h \in BOOLEAN} \cup {Out(FALSE, {}, None, h, now) : h \in BOOLEAN}
Reads(now)   == {Out(TRUE, {}, None, FALSE, now)} \cup Fails({}, now)

Served(verb, now, outs) ==
  IF verb \notin Wired THEN Fails({"unserved"}, now)
  ELSE IF now = Unbound THEN Fails({"notfound"}, now)
  ELSE outs

\* WriteResponse refuses an answer over the cap, and the daemon answers with that
\* refusal instead.
writeResponseAs(outs) ==
  outs \cup {[o EXCEPT !.ok = FALSE, !.text = {"oversize"}, !.seen = None] : o \in {x \in outs : x.ok}}

Register(now) ==
  IF now # Unbound THEN Fails({}, now)
  ELSE {Out(TRUE, {}, wt, TRUE, [wt |-> wt, st |-> "created"]) : wt \in Worktrees} \cup Fails({}, now)

serveStatus(now) == IF now = Unbound THEN Fails({"notfound"}, now) ELSE {Out(TRUE, {}, now.wt, FALSE, now)}
serveList(r, c, now) ==
  LET pick == IF cmd[c].dir \in Dirs THEN sandboxForDir(bound[r], cmd[c].dir) ELSE None
  IN writeResponseAs({Out(TRUE, {}, pick, FALSE, now)})
serveRemove(now) ==
  IF now = Unbound THEN Fails({"notfound"}, now)
  ELSE {Out(TRUE, {}, None, TRUE, Unbound)} \cup Applies(now)
serveLand(now)       == Served("land", now, Applies(now))
serveGrants(now)     == Served("grants", now, writeResponseAs(Reads(now)))
serveGrant(now)      == Served("grant", now, Applies(now))
servePolicySet(now)  == Served("policySet", now, Applies(now))
servePolicyShow(now) == Served("policyShow", now, Reads(now))
serveExport(now)     == Served("export", now, Applies(now))
serveSyncVerify(now) == Served("syncVerify", now, Reads(now))
serveEcho(now)       == writeResponseAs(Reads(now))
serveSync(now)       ==
  IF now = Unbound THEN Fails({"notfound"}, now)
  ELSE writeResponseAs(Applies(now))

\* The refusals of a boot, before a guest runs anything; an image store's error or a
\* guest that never served can quote a broken connection too.
BootRefusals == {{"ceiling"}, {"layout"}, {"unbootable"}, {"resolve"}, {"resolve", "eof"}, {"krun"},
                 {"krun", "notserving"}, {"notserving"}, {"notserving", "eof"}}

\* A command in a running guest: it ran (to its end, past its deadline, or until the
\* guest was lost), or the guest's protocol or the request was refused.
runs(now) ==
  {Out(TRUE, {}, None, TRUE, [now EXCEPT !.st = "running"]),
   Out(FALSE, {}, None, TRUE, [now EXCEPT !.st = "running"]),
   Out(FALSE, {"eof"}, None, TRUE, [now EXCEPT !.st = "dead"]),
   Out(FALSE, {"guestskew"}, None, FALSE, [now EXCEPT !.st = "running"]),
   Out(FALSE, {}, None, FALSE, [now EXCEPT !.st = "running"])}

\* A dead guest's refusal quotes the failure it died of.
serveExec(now) ==
  IF now = Unbound THEN Fails({"notfound"}, now)
  ELSE CASE now.st = "dead"     -> Fails({"eof"}, now)
         [] now.st = "created"  -> runs(now) \cup UNION {Fails(text, now) : text \in BootRefusals}
         [] now.st = "running"  -> runs(now)

dispatch(r, c, call, now) ==
  CASE call = "launch"     -> Register(now)
    [] call = "exec"       -> serveExec(now)
    [] call = "list"       -> serveList(r, c, now)
    [] call = "remove"     -> serveRemove(now)
    [] call = "status"     -> serveStatus(now)
    [] call = "land"       -> serveLand(now)
    [] call = "grants"     -> serveGrants(now)
    [] call = "grant"      -> serveGrant(now)
    [] call = "sync"       -> serveSync(now)
    [] call = "policySet"  -> servePolicySet(now)
    [] call = "policyShow" -> servePolicyShow(now)
    [] call = "export"     -> serveExport(now)
    [] call = "syncVerify" -> serveSyncVerify(now)
    [] call = "echo"       -> serveEcho(now)

\* The answer reaches a client that still reads; a client that left is not waited for.
reply(c, call, o) ==
  LET m == cmd[c]
      hit == [m EXCEPT !.hit = m.hit \/ o.hit, !.midway = m.midway \/ (call = "exec" /\ o.now.st = "dead" /\ o.hit)]
  IN Set(c, IF m.at = "sent" /\ m.call = call
            THEN [hit EXCEPT !.at = "answered", !.ok = o.ok, !.text = o.text,
                             !.seen = IF call = "remove" THEN m.seen ELSE o.seen]
            ELSE hit)

\* readRequest refuses what does not validate; the rest is dispatched.
serveRequest(q) ==
  LET c == q[1]
      r == cmd[c].repo
      t == cmd[c].task
  IN
  /\ q \in inbox /\ daemon[r] = "this"
  /\ inbox' = inbox \ {q}
  /\ \E o \in dispatch(r, c, q[2], bound[r][t]) \cup Fails({"invalid"}, bound[r][t]) :
       reply(c, q[2], o) /\ bound' = [bound EXCEPT ![r][t] = o.now]
  /\ UNCHANGED <<daemon, owner, decorated, restarts>>

\* The daemon dies, its connections and VMs with it; or one of another release has
\* taken its place.
DaemonEnds(r) ==
  /\ restarts < MaxRestarts /\ restarts' = restarts + 1
  /\ daemon[r] = "this"
  /\ daemon' \in {[daemon EXCEPT ![r] = "down"], [daemon EXCEPT ![r] = "other"]}
  /\ inbox' = {q \in inbox : cmd[q[1]].repo # r}
  /\ Rehydrate(r)
  /\ UNCHANGED <<owner, decorated, cmd>>

Command(c) ==
  \/ sandboxLaunchCmd(c) \/ sandboxExecCmd(c) \/ newRunCmd(c) \/ runCheck(c) \/ sandboxLandCmd(c)
  \/ sandboxExportCmd(c) \/ sandboxSyncCmd(c) \/ sandboxListCmd(c) \/ sandboxStatusCmd(c)
  \/ sandboxPublishedCmd(c) \/ sandboxRemoveCmd(c) \/ sandboxGrantsCmd(c) \/ sandboxGrantCmd(c)
  \/ sandboxPolicySetCmd(c) \/ sandboxPolicyRevokeCmd(c) \/ sandboxPolicyShowCmd(c)
  \/ sandboxShellCmd(c) \/ Echo(c) \/ VerifyGuestView(c)
  \/ productionSandboxConnect(c) \/ dialGreeted(c) \/ readAnswer(c) \/ giveUp(c)

Next ==
  \/ \E c \in Cmds : Command(c)
  \/ \E q \in inbox : serveRequest(q)
  \/ \E r \in Repos : DaemonEnds(r)

Spec == Init /\ [][Next]_vars

-----------------------------------------------------------------------------
(* Properties. *)

\* A command that told its reader nothing ran and nothing was changed (a refusal of
\* the command line, an unreachable or incompatible daemon, a verb it does not
\* serve, a guest that never started) applied nothing, and no request of it still
\* waiting at the daemon will (sandbox_guest_failure.go:380-408, dispatch.go:297-301).
NothingMeansNothing ==
  \A c \in Cmds : cmd[c].claim = "nothing" =>
     /\ ~cmd[c].hit
     /\ \A q \in inbox : q[1] = c => q[2] \in {"list", "status", "echo"}

\* "Nothing was applied" (WriteResponse), said of a sync whose report was over the
\* cap: serveSync has applied the plan before the report is encoded.
UnsentMeansNothing == \A c \in Cmds : cmd[c].claim = "unsent" => ~cmd[c].hit

\* phaseLostServing: "the guest was reached and then stopped answering mid-command".
LostServingIsTrue == \A c \in Cmds : cmd[c].claim = "midcommand" => cmd[c].midway

\* A sandbox worktree that is registered with one daemon names that daemon's
\* repository: "so verbs run from inside it reach the daemon that holds the binding".
OwnerReachesBinding ==
  (\A c \in Cmds : cmd[c].at \in {"idle", "told"}) =>
    \A r \in Repos : (\E t \in Tasks : bound[r][t].wt = "wt")
                       /\ (\A r2 \in Repos \ {r}, t \in Tasks : bound[r2][t].wt # "wt")
                     => sandboxRepoRoot("wt") = r
=============================================================================
