----------------------------- MODULE ProcessRun -----------------------------
(***************************************************************************)
(* One call of run_process (src/lib/tools/run-process.ts): a child process *)
(* and what it forks, the timer of the call, the probe of a server that is *)
(* to become ready, the abort of the run, and the two signals.  A call is  *)
(* "plain" (it has no readiness), "probe" (it stops what it has found      *)
(* ready) or "service" (it leaves it running).  POSIX: a call with a       *)
(* readiness has a process group of its own.                               *)
(***************************************************************************)
CONSTANTS
    Run,      \* the run the call belongs to
    Kinds,    \* subset of {"plain", "probe", "service"}
    Forks     \* the child may have a worker

VARIABLES
    aborted,    \* the runs whose signal is aborted
    kind,       \* of the call, "none" before it
    outcome,    \* "none" while the promise is pending; "ok", "failed", "aborted",
                \* or "handed" for a service that is left running
    mode,       \* CompletionMode
    timer,      \* timeoutTimer
    escalation, \* the timer of the second signal
    probe,      \* "off", "armed" or "asked"
    stopping,   \* "off", "listening" to the run on behalf of a service that was
                \* handed over, or "armed": its second signal is to come
    alive,      \* the processes of the call
    dying,      \* those that have a signal they cannot ignore
    stubborn,   \* those that ignore SIGTERM
    piped       \* those that have the output of the call open

vars == <<aborted, kind, outcome, mode, timer, escalation, probe, stopping,
          alive, dying, stubborn, piped>>

Group == {"leader", "worker"}

Init ==
    /\ kind = "none" /\ outcome = "none" /\ mode = "running"
    /\ timer = FALSE /\ escalation = FALSE /\ probe = "off" /\ stopping = "off"
    /\ alive = {} /\ dying = {} /\ stubborn = {} /\ piped = {}

Waiting == kind # "none" /\ outcome = "none"

\* signalChild: the group, or the child alone where it has none.
Reached == IF kind = "plain" THEN alive \cap {"leader"} ELSE alive
Term == dying \cup (Reached \ stubborn)
Kill == dying \cup Reached

\* cleanup: every timer and listener of the wait.
Cleanup == timer' = FALSE /\ escalation' = FALSE /\ probe' = "off"

-----------------------------------------------------------------------------
Spawn(k) ==
    /\ kind = "none" /\ Run \notin aborted
    /\ kind' = k /\ timer' = TRUE /\ probe' = IF k = "plain" THEN "off" ELSE "armed"
    /\ alive' = {"leader"} /\ stubborn' \in SUBSET {"leader"} /\ piped' = {"leader"}
    /\ UNCHANGED <<aborted, outcome, mode, escalation, stopping, dying>>

\* The directory is not one of the workspace, spawn throws, or its error
\* event comes.
SpawnFails(k) ==
    /\ kind = "none"
    /\ kind' = k /\ outcome' = "failed"
    /\ UNCHANGED <<aborted, mode, timer, escalation, probe, stopping, alive,
                   dying, stubborn, piped>>

\* The call is refused because its run has been aborted.
SpawnRefused(k) ==
    /\ kind = "none" /\ Run \in aborted
    /\ kind' = k /\ outcome' = "aborted"
    /\ UNCHANGED <<aborted, mode, timer, escalation, probe, stopping, alive,
                   dying, stubborn, piped>>

\* terminateChild
Terminate == dying' = Term /\ escalation' = TRUE

\* Fault for ServiceLeftAlone: the timer does not ask whether it is still due.
TimeoutAlways ==
    /\ kind # "none" /\ mode # "timeout"
    /\ mode' = "timeout" /\ timer' = FALSE /\ probe' = "off" /\ Terminate
    /\ UNCHANGED <<aborted, kind, outcome, stopping, alive, stubborn, piped>>

Timeout ==
    /\ timer /\ timer' = FALSE
    /\ IF Waiting /\ mode = "running"
       THEN mode' = "timeout" /\ probe' = "off" /\ Terminate
       ELSE UNCHANGED <<mode, probe, dying, escalation>>
    /\ UNCHANGED <<aborted, kind, outcome, stopping, alive, stubborn, piped>>

\* Fault for AbortSettles: the second signal is the first one again.
EscalateGently ==
    /\ escalation /\ escalation' = FALSE /\ dying' = Term
    /\ UNCHANGED <<aborted, kind, outcome, mode, timer, probe, stopping, alive,
                   stubborn, piped>>

Escalate ==
    /\ escalation /\ escalation' = FALSE /\ dying' = Kill
    /\ UNCHANGED <<aborted, kind, outcome, mode, timer, probe, stopping, alive,
                   stubborn, piped>>

\* The listeners of the run's signal.
OnAbort ==
    /\ \/ /\ Waiting /\ mode = "running"
          /\ mode' = "abort" /\ probe' = "off" /\ Terminate
          /\ UNCHANGED stopping
       \/ /\ stopping = "listening"
          /\ stopping' = "armed" /\ dying' = Term
          /\ UNCHANGED <<mode, probe, escalation>>
       \/ /\ ~(Waiting /\ mode = "running") /\ stopping # "listening"
          /\ UNCHANGED <<mode, probe, escalation, dying, stopping>>
    /\ UNCHANGED <<kind, outcome, timer, alive, stubborn, piped>>

ServiceStopTimer ==
    /\ stopping = "armed" /\ stopping' = "off" /\ dying' = Kill
    /\ UNCHANGED <<aborted, kind, outcome, mode, timer, escalation, probe,
                   alive, stubborn, piped>>

Ask ==
    /\ probe = "armed" /\ probe' = "asked"
    /\ UNCHANGED <<aborted, kind, outcome, mode, timer, escalation, stopping,
                   alive, dying, stubborn, piped>>

\* Another status, or no connection: the next probe is scheduled.
NotReady ==
    /\ probe = "asked" /\ probe' = "armed"
    /\ UNCHANGED <<aborted, kind, outcome, mode, timer, escalation, stopping,
                   alive, dying, stubborn, piped>>

\* The expected status, whoever has sent it.
ProbeReady ==
    /\ probe = "asked" /\ probe' = "off" /\ mode' = "ready"
    /\ \/ /\ kind = "service" /\ outcome' = "handed" /\ stopping' = "listening"
          /\ Cleanup /\ UNCHANGED dying
       \/ /\ kind = "probe" /\ Terminate /\ UNCHANGED <<outcome, stopping, timer>>
    /\ UNCHANGED <<aborted, kind, alive, stubborn, piped>>

Outcome ==
    CASE mode = "abort" -> {"aborted"}
      [] mode = "timeout" -> {"failed"}
      [] mode = "ready" -> {"ok"}
      [] OTHER -> IF kind = "plain" THEN {"ok", "failed"} ELSE {"failed"}

\* Fault for NothingLeft: what the child has forked is forgotten.
GroupForgotten == dying

\* What is left of a group is killed once its child is gone.
GroupKilled == IF kind = "plain" THEN dying ELSE Kill

\* The child is gone and nobody has its output open.
Closable == kind # "none" /\ "leader" \notin alive /\ alive \cap piped = {}

Close ==
    /\ Closable /\ Waiting
    /\ outcome' \in Outcome /\ dying' = GroupKilled /\ Cleanup
    /\ UNCHANGED <<aborted, kind, mode, stopping, alive, stubborn, piped>>

\* A service that was handed over has ended.
ServiceCloses ==
    /\ Closable /\ stopping # "off" /\ stopping' = "off"
    /\ UNCHANGED <<aborted, kind, outcome, mode, timer, escalation, probe,
                   alive, dying, stubborn, piped>>

-----------------------------------------------------------------------------
(* The processes *)

Fork ==
    /\ Forks /\ "leader" \in alive \ dying /\ "worker" \notin alive \cup stubborn \cup piped
    /\ alive' = alive \cup {"worker"}
    /\ stubborn' \in {stubborn, stubborn \cup {"worker"}}
    /\ piped' \in {piped, piped \cup {"worker"}}
    /\ UNCHANGED <<aborted, kind, outcome, mode, timer, escalation, probe,
                   stopping, dying>>

Exit(p) ==
    /\ p \in alive /\ alive' = alive \ {p} /\ dying' = dying \ {p}
    /\ UNCHANGED <<aborted, kind, outcome, mode, timer, escalation, probe,
                   stopping, stubborn, piped>>

Die(p) == p \in dying /\ Exit(p)

Start == \E k \in Kinds : Spawn(k) \/ SpawnFails(k) \/ SpawnRefused(k)

\* What is bound to happen once it can.
Due ==
    \/ Timeout \/ Escalate \/ ServiceStopTimer \/ Close \/ ServiceCloses

Step ==
    \/ Due \/ Ask \/ NotReady \/ ProbeReady \/ Fork \/ \E p \in Group : Exit(p)

-----------------------------------------------------------------------------
(* Properties *)

\* A call that has ended leaves nothing of its process group running, unless it
\* was to leave a service: a plain call has no group, and answers for its child
\* alone (run-process.ts:244-255).
NoneLeft ==
    kind # "none" /\ outcome \notin {"none", "handed"} =>
        IF kind = "plain" THEN "leader" \notin alive ELSE alive \subseteq dying

\* The service that was handed over is left alone until its run is aborted: no
\* timer of the call that started it, no late answer and no listener of the
\* wait sends it a signal (run-process.ts:119-139, 191-206).
ServiceLeftAlone ==
    [][outcome = "handed" /\ Run \notin aborted' => dying' \subseteq dying]_vars

\* Once the child of a service is gone, a worker that has closed the output of
\* the call is out of reach: nobody is left who listens to the run for it.
OutOfReach == kind = "service" /\ "leader" \notin alive /\ "worker" \notin piped

=============================================================================
