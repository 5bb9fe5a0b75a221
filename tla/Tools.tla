------------------------------- MODULE Tools -------------------------------
(***************************************************************************)
(* The tools of a run (src/lib/tools/registry.ts): one call at a time, a   *)
(* process, a look or a write, under one signal; and what lives on beyond  *)
(* its call, a service that was handed over.  A rejected promise ends the  *)
(* call as an abort, whatever else goes wrong as a failure.                *)
(***************************************************************************)
EXTENDS FileWrites

CONSTANTS
    Run,      \* of Runs, the one that also looks and starts processes
    Kinds, Forks, Entries, Limit, MaxFiles,
    MaxCalls  \* of a run

ASSUME ToolsBounds ==
    /\ Run \in Runs /\ Kinds \subseteq {"plain", "probe", "service"} /\ Forks \in BOOLEAN
    /\ MaxCalls \in Nat /\ Entries \in Nat \ {0, 1} /\ Limit \in Nat \ {0} /\ MaxFiles \in Nat

VARIABLES kind, outcome, mode, timer, escalation, probe, stopping, alive, dying,
          stubborn, piped, look

fileVars == <<file, parent, temps, job, edits, ids>>
processVars == <<kind, outcome, mode, timer, escalation, probe, stopping, alive,
                 dying, stubborn, piped>>
toolVars == <<aborted, fileVars, processVars, look>>

P == INSTANCE ProcessRun
L == INSTANCE Lookups

ToolsInit == Init /\ P!Init /\ L!Init

-----------------------------------------------------------------------------
\* A run awaits each call before the next.
Busy(r) == Pending(r) \/ (r = Run /\ (P!Waiting \/ L!Looking))

Count(b) == IF b THEN 1 ELSE 0
Calls(r) ==
    job[r].calls + IF r = Run THEN Count(kind # "none") + Count(look.pc # "none") ELSE 0

OfFiles(A) == A /\ UNCHANGED <<processVars, look>>
OfProcess(A) == A /\ UNCHANGED <<fileVars, look>>
OfLook(A) == A /\ UNCHANGED <<fileVars, processVars>>

\* executePreparedLocalTool
Execute(r) ==
    /\ ~Busy(r) /\ Calls(r) < MaxCalls
    /\ \/ OfFiles(StartWrite(r) \/ StartReplace(r))
       \/ r = Run /\ OfProcess(P!Start)
       \/ r = Run /\ OfLook(L!Start)

\* A cancel, the timer of the run or its failure: every listener at once.
Abort(r) ==
    /\ r \notin aborted /\ aborted' = aborted \cup {r}
    /\ IF r = Run THEN P!OnAbort /\ L!OnAbort ELSE UNCHANGED <<processVars, look>>
    /\ UNCHANGED fileVars

ToolsNext ==
    \/ \E r \in Runs : Execute(r) \/ Abort(r) \/ OfFiles(Step(r))
    \/ OfFiles(Edit) \/ OfProcess(P!Step) \/ OfLook(L!Step)

\* The awaits of a call give something, timers fire, what has a signal it
\* cannot ignore dies, and the end of a child is seen.
ToolsFairness ==
    /\ \A r \in Runs : WF_toolVars(OfFiles(Step(r)))
    /\ WF_toolVars(OfLook(L!Due))
    /\ WF_toolVars(OfProcess(P!Timeout)) /\ WF_toolVars(OfProcess(P!Escalate))
    /\ WF_toolVars(OfProcess(P!ServiceStopTimer))
    /\ WF_toolVars(OfProcess(P!Close)) /\ WF_toolVars(OfProcess(P!ServiceCloses))
    /\ \A p \in P!Group : WF_toolVars(OfProcess(P!Die(p)))

ToolsSpec == ToolsInit /\ [][ToolsNext]_toolVars /\ ToolsFairness

-----------------------------------------------------------------------------
(* Properties *)

\* However a call ends, it leaves nothing of itself behind: no temporary file,
\* and no process of its group (atomic-write.ts:175-190, run-process.ts:244-255).
NothingLeft == NoTempLeft /\ P!NoneLeft

\* What the other modules state of a service and of a look.
ServiceLeftAlone == P!ServiceLeftAlone
LooksWhole == L!LooksWhole

\* What only a plain call, which has no process group, can leave waiting.
HeldOpen == kind = "plain" /\ "worker" \in alive \cap piped

Quiet(r) ==
    /\ ~Pending(r)
    /\ r = Run => /\ ~L!Looking /\ (P!Waiting => HeldOpen)
                  /\ "leader" \notin alive
                  /\ kind # "plain" => alive = {} \/ P!OutOfReach

\* Once a run is aborted its call ends, whatever it was at, and so does the
\* service an earlier call has left running: SIGTERM, then SIGKILL to the group
\* (run-process.ts:112-131, 194-197; search-text.ts:172-174; abort.ts:3-19).
AbortSettles ==
    \A r \in Runs : r \in aborted ~> Quiet(r)

\* What 18-agent-execution-precision-spec-revision-2.md says of the group of a
\* service: the cancellation of its run ends it.
ServiceStops == kind = "service" /\ Run \in aborted ~> alive = {}

=============================================================================
