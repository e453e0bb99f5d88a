----------------------------- MODULE ExecStream -----------------------------
(***************************************************************************)
(* One exec on an open stream: the daemon's handler and its ticker, the    *)
(* goroutine that runs the command, the goroutine that probes the service, *)
(* and the client that arms a read deadline for every frame.  Time passes  *)
(* in half heartbeat intervals, and a step that is due is taken before     *)
(* time passes.                                                            *)
(***************************************************************************)
EXTENDS Naturals

CONSTANTS Misses,      \* execwire.HeartbeatMisses
          MaxWedges    \* bound: how often the service stops answering

VARIABLES
  handler,   \* serveExec: "opening", "beating", "relaying", "gone"
  runner,    \* runExec: "none", "running", "sending", "ended"
  done,      \* the outcome channel, capacity one
  prober,    \* probeSelf: "none", "waiting", "asking", "ended"
  due,       \* half intervals to the ticker and to the probe's timer
  answered,  \* the answered channel, capacity one
  wedged,    \* the service does not answer Status
  caller,    \* the client: "reading", "result", "failed", "stalled", "cancelled"
  silence,   \* half intervals since the client's deadline was armed
  hung,      \* history: half intervals the service was wedged since the last frame
  since,     \* history: half intervals since the service answered a probe, capped
  wedges     \* bound counter

vars == <<handler, runner, done, prober, due, answered, wedged, caller, silence, hung, since, wedges>>

Stall  == 2 * Misses          \* execwire.StallTimeout
Cap    == Stall + 6
Here   == caller = "reading"

TypeOK ==
  /\ handler \in {"opening", "beating", "relaying", "gone"}
  /\ runner \in {"none", "running", "sending", "ended"}
  /\ done \in {"empty", "ok", "error"}
  /\ prober \in {"none", "waiting", "asking", "ended"}
  /\ due \in [tick : 0..2, probe : 0..1]
  /\ {answered, wedged} \subseteq BOOLEAN
  /\ caller \in {"reading", "result", "failed", "stalled", "cancelled"}
  /\ silence \in 0..Stall /\ hung \in 0..Stall /\ since \in 0..Cap /\ wedges \in 0..MaxWedges

Init ==
  /\ handler = "opening" /\ runner = "none" /\ done = "empty" /\ prober = "none"
  /\ due = [tick |-> 2, probe |-> 0]
  /\ answered = FALSE /\ wedged = FALSE /\ caller = "reading"
  /\ silence = 0 /\ hung = 0 /\ since = 0 /\ wedges = 0

\* A frame is written: it re-arms the deadline of a client that still reads; to
\* one that hung up the write fails.
Frame == silence' = 0 /\ hung' = 0

-----------------------------------------------------------------------------
(* The daemon. *)

\* serveExec: a beat first, so the stream is proved before the command starts.
Open ==
  /\ handler = "opening"
  /\ IF Here
     THEN /\ Frame /\ handler' = "beating" /\ runner' = "running" /\ prober' = "waiting"
     ELSE handler' = "gone" /\ UNCHANGED <<silence, hung, runner, prober>>
  /\ UNCHANGED <<done, due, answered, wedged, caller, since, wedges>>

\* Service.Exec returns, fails or panics; runExec has an outcome either way.
CommandEnds ==
  /\ runner = "running" /\ ~wedged /\ runner' = "sending"
  /\ UNCHANGED <<handler, done, prober, due, answered, wedged, caller, silence, hung, since, wedges>>

\* Mutant: the outcome channel has no buffer.
SendUnbuffered ==
  /\ runner = "sending" /\ handler = "beating"
  /\ runner' = "ended" /\ done' \in {"ok", "error"}
  /\ UNCHANGED <<handler, prober, due, answered, wedged, caller, silence, hung, since, wedges>>

\* The outcome goes into a channel of capacity one: nobody need receive it.
Send ==
  /\ runner = "sending" /\ done = "empty"
  /\ runner' = "ended" /\ done' \in {"ok", "error"}
  /\ UNCHANGED <<handler, prober, due, answered, wedged, caller, silence, hung, since, wedges>>

\* beatWhileExecuting: the outcome is there.
Outcome ==
  /\ handler = "beating" /\ done # "empty"
  /\ handler' = "relaying"
  /\ UNCHANGED <<runner, done, prober, due, answered, wedged, caller, silence, hung, since, wedges>>

\* Mutant: the ticker alone earns a beat.
BeatUnearned ==
  /\ handler = "beating" /\ due.tick = 0
  /\ due' = [due EXCEPT !.tick = 2] /\ answered' = FALSE
  /\ IF Here THEN Frame /\ UNCHANGED handler ELSE handler' = "gone" /\ UNCHANGED <<silence, hung>>
  /\ UNCHANGED <<runner, done, prober, wedged, caller, since, wedges>>

\* The ticker fires: a beat goes out only if the service answered since the last.
Beat ==
  /\ handler = "beating" /\ due.tick = 0
  /\ due' = [due EXCEPT !.tick = 2] /\ answered' = FALSE
  /\ IF ~answered THEN UNCHANGED <<handler, silence, hung>>
     ELSE IF Here THEN Frame /\ UNCHANGED handler
     ELSE handler' = "gone" /\ UNCHANGED <<silence, hung>>
  /\ UNCHANGED <<runner, done, prober, wedged, caller, since, wedges>>

\* probeSelf: the timer fires and Status is called, or stop was closed.
Ask ==
  /\ prober = "waiting" /\ due.probe = 0
  /\ prober' = IF handler \in {"opening", "beating"} THEN "asking" ELSE "ended"
  /\ UNCHANGED <<handler, runner, done, due, answered, wedged, caller, silence, hung, since, wedges>>

\* Status returns, with or without an error: an answer is offered, never queued
\* behind another, and the timer is set again.
Answer ==
  /\ prober = "asking" /\ ~wedged
  /\ prober' = "waiting" /\ due' = [due EXCEPT !.probe = 1]
  /\ answered' = (handler \in {"opening", "beating"})
  /\ since' = 0
  /\ UNCHANGED <<handler, runner, done, wedged, caller, silence, hung, wedges>>

\* The output, then the result frame; a write that fails ends the handler.
Relay ==
  /\ handler = "relaying" /\ handler' = "gone"
  /\ IF Here
     THEN Frame /\ caller' = IF done = "ok" THEN "result" ELSE "failed"
     ELSE UNCHANGED <<silence, hung, caller>>
  /\ UNCHANGED <<runner, done, prober, due, answered, wedged, since, wedges>>

-----------------------------------------------------------------------------
(* The client, the service and time. *)

\* relayFrames: the deadline of the read passed.
Stalls ==
  /\ Here /\ silence = Stall /\ caller' = "stalled"
  /\ UNCHANGED <<handler, runner, done, prober, due, answered, wedged, silence, hung, since, wedges>>

\* watchCancel: the caller's context ended and the connection was expired.
Cancels ==
  /\ Here /\ caller' = "cancelled"
  /\ UNCHANGED <<handler, runner, done, prober, due, answered, wedged, silence, hung, since, wedges>>

Wedge ==
  /\ ~wedged /\ wedges < MaxWedges
  /\ wedged' = TRUE /\ wedges' = wedges + 1
  /\ UNCHANGED <<handler, runner, done, prober, due, answered, caller, silence, hung, since>>

Unwedge ==
  /\ wedged /\ wedged' = FALSE
  /\ UNCHANGED <<handler, runner, done, prober, due, answered, caller, silence, hung, since, wedges>>

\* Something is due that takes no time.
Due ==
  \/ handler \in {"opening", "relaying"} \/ (handler = "beating" /\ (due.tick = 0 \/ done # "empty"))
  \/ runner = "sending"
  \/ (prober = "waiting" /\ due.probe = 0) \/ (prober = "asking" /\ ~wedged)
  \/ (Here /\ silence = Stall)

Down(n) == IF n = 0 THEN 0 ELSE n - 1

Tick ==
  /\ ~Due
  /\ due' = [tick |-> Down(due.tick), probe |-> Down(due.probe)]
  /\ silence' = IF Here THEN silence + 1 ELSE silence
  /\ hung' = IF wedged /\ Here THEN hung + 1 ELSE hung
  /\ since' = IF since < Cap THEN since + 1 ELSE since
  /\ UNCHANGED <<handler, runner, done, prober, answered, wedged, caller, wedges>>

Daemon == Open \/ Send \/ Outcome \/ Beat \/ Ask \/ Answer \/ Relay
Next   == Daemon \/ CommandEnds \/ Stalls \/ Cancels \/ Wedge \/ Unwedge \/ Tick
Spec   == Init /\ [][Next]_vars

\* Goroutines run.
FairSpec == Spec /\ WF_vars(Daemon)

-----------------------------------------------------------------------------
(* Properties. *)

\* A client reports a stalled daemon only if the service did not answer for at
\* least the stall timeout less one and a half intervals, however long the command runs
\* (stalledDaemonError: "silence means the daemon stopped answering").
StallMeansWedged == caller = "stalled" => hung >= Stall - 3

\* A daemon whose service hangs cannot keep a client waiting: an answer from
\* before the hang buys one beat at most (beatWhileExecuting).
WedgeIsNoticed == Here /\ handler = "beating" => since <= Stall + 2

\* The goroutine that runs the command ends once the command has, also when the
\* handler left first (runExec, done of capacity one).
Sending == runner = "sending"
RunnerEnds == []<>~Sending

\* Silence is read rightly on both sides: a stall is reported only of a wedged
\* daemon, and a wedged daemon cannot keep up a beat (beatWhileExecuting).
SilenceIsRead == StallMeansWedged /\ WedgeIsNoticed
=============================================================================
