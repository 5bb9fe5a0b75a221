----------------------------- MODULE AgentRuntime -----------------------------
(***************************************************************************)
(* The agent runtime of one session (src/lib/agent/runtime.ts and          *)
(* events.ts): startRun, executeRun and everything it calls, recovery,     *)
(* approvals of tools and plans, abort from four sources, crashes.         *)
(*                                                                         *)
(* The handler of a run is cut where the code awaits.  "pc" names where it *)
(* continues; "io" says what became of its last append: none (it runs),    *)
(* delivering (written, the event consumer has not taken it yet), or the   *)
(* two errors an append throws.                                            *)
(*                                                                         *)
(* An append takes effect when it is called.  The event store queues the   *)
(* operations of a session first in, first out from the moment of the      *)
(* call, reads included, so the order of the calls is the order in the     *)
(* file; the result arrives later, and anything may happen in between.     *)
(*                                                                         *)
(* Of a tool call the model keeps its kind; two calls of one kind have the *)
(* same arguments.  What the policies beside the runtime read out of the   *)
(* data (has a check covered the changed files, is a parent directory      *)
(* missing, does the answer name the service's URL, is a read the same as  *)
(* the one before) is a choice among the outcomes they can produce.        *)
(***************************************************************************)
EXTENDS ContextHistory, FiniteSets

CONSTANTS
    Deciders,            \* callers of the two approval endpoints
    PlanningModes,       \* subset of BOOLEAN: planningEnabled of a request
    PermissionModes,     \* subset of {"ask", "full"}
    Offers,              \* kinds of tool call the model may ask for
    Texts,               \* subset of {"chinese", "foreign", "empty"}
    ProcessVerdicts,     \* subset of {"denied", "authorized", "ask"}
    CompactsAfter,       \* the answers after which the context may need a
                         \* compaction, "none" for the first request
    MayMissParent,       \* a write may find its parent directory missing
    MayMisprepare,       \* a call may fail the validation of its arguments
    AbortSources,        \* subset of {"user", "external", "timeout", "sink"}
    StoreFailures,       \* subset of {"absent", "committed"}
    MaxBatch,            \* bound: tool calls in one answer
    MaxModelRequests,    \* limits.maxModelRequests of a request
    MaxToolCalls,        \* limits.maxToolCalls of a request
    MaxRestatements,     \* MAX_LANGUAGE_RESTATEMENT_ATTEMPTS, 2
    MaxReads,            \* MAX_CONSECUTIVE_NO_PROGRESS_READS, 3
    MaxRecoveryRequests, \* MAX_WRITE_RECOVERY_MODEL_REQUESTS, 4
    MaxRecoveryCalls,    \* MAX_WRITE_RECOVERY_TOOL_CALLS, 8
    MaxCrashes           \* bound: crashes of the process

ASSUME ConstantsAssumption ==
    /\ PlanningModes \subseteq BOOLEAN
    /\ PermissionModes \subseteq {"ask", "full"}
    /\ Offers \subseteq Kinds
    /\ Texts \subseteq {"chinese", "foreign", "empty"}
    /\ ProcessVerdicts \subseteq {"denied", "authorized", "ask"}
    /\ CompactsAfter \subseteq {"none", "tool_calls", "stop"}
    /\ MayMissParent \in BOOLEAN /\ MayMisprepare \in BOOLEAN
    /\ AbortSources \subseteq {"user", "external", "timeout", "sink"}
    /\ StoreFailures \subseteq {"absent", "committed"}
    /\ MaxBatch \in Nat /\ MaxModelRequests \in Nat /\ MaxToolCalls \in Nat
    /\ MaxRestatements \in Nat /\ MaxReads \in Nat
    /\ MaxRecoveryRequests \in Nat /\ MaxRecoveryCalls \in Nat
    /\ MaxCrashes \in Nat

VARIABLES
    disk,     \* what SessionHistory reads back from the file
    ctx,      \* what ContextHistory reads back from the file
    log,      \* how the file ends for each run, as inspectSession sees it
    last,     \* run and kind of the last event in the file
    synced,   \* the run's projection in memory has followed the file
    pc,       \* where the run continues
    io,       \* what became of the run's last append
    active,   \* ActiveRunState: identity, abort, waits
    turn,     \* the model round the run is in
    facts,    \* what the run remembers across rounds
    dec,      \* the approval calls in flight
    crashes

durable == <<disk, ctx, log, last, synced>>
vars == <<disk, ctx, log, last, synced, pc, io, active, turn, facts, dec,
          crashes>>

Labels == {"idle", "starting", "loop", "context", "compacted", "requesting",
           "model", "completed", "restate", "proposing", "plan_wait",
           "answer", "final", "batch", "narrate", "collect", "dispatch",
           "asking", "approval_wait", "granted", "tool", "recording",
           "settle", "hopeless", "finishing"}
Results == {"none", "delivering", "store_error", "history_error"}
Ends == {"completed", "failed", "cancelled"}
Waits == {"none", "pending", "approved", "rejected", "aborted",
          "store_error", "history_error"}

Actives ==
    [run : Runs \cup {NoRun}, full : BOOLEAN, phase : Phases,
     abort : {"none", "user", "external", "timeout", "sink"},
     ending : BOOLEAN, sink : {"open", "off"},
     ask : {"none", "open", "resolved"}, plan : {"none", "open"},
     wait : Waits]

Turns ==
    [requests : Nat, calls : Nat, finish : {"none", "stop", "tool_calls"},
     text : {"chinese", "foreign", "empty"}, batch : Seq(Kinds), at : Nat,
     blocked : BOOLEAN, failedCheck : BOOLEAN, code : Codes \cup {"none"},
     invoked : BOOLEAN]

Facts ==
    [restatements : Nat, unverified : BOOLEAN, corrected : BOOLEAN,
     service : {"none", "failed", "ready"}, handed : BOOLEAN,
     missing : BOOLEAN, stops : Nat, baseRequests : Nat, baseCalls : Nat,
     checkFailures : Nat, sig : Signatures, errs : Nat, reads : Nat]

Decisions ==
    [io : {"idle"} \cup Results, kind : {"approval", "plan"},
     run : Runs \cup {NoRun}, yes : BOOLEAN]

NoActive ==
    [run |-> NoRun, full |-> FALSE, phase |-> "normal", abort |-> "none",
     ending |-> FALSE, sink |-> "off", ask |-> "none", plan |-> "none",
     wait |-> "none"]

NoTurn ==
    [requests |-> 0, calls |-> 0, finish |-> "none", text |-> "empty",
     batch |-> << >>, at |-> 0, blocked |-> FALSE, failedCheck |-> FALSE,
     code |-> "none", invoked |-> FALSE]

NoFacts ==
    [restatements |-> 0, unverified |-> FALSE, corrected |-> FALSE,
     service |-> "none", handed |-> FALSE, missing |-> FALSE, stops |-> 0,
     baseRequests |-> 0, baseCalls |-> 0, checkFailures |-> 0,
     sig |-> NoSignature, errs |-> 0, reads |-> 0]

NoDecision == [io |-> "idle", kind |-> "plan", run |-> NoRun, yes |-> FALSE]

Init ==
    /\ disk = EmptyHistory /\ ctx = EmptyContext
    /\ log = [r \in Runs |-> "absent"] /\ last = <<NoRun, "terminal">>
    /\ synced = TRUE
    /\ pc = "idle" /\ io = "none"
    /\ active = NoActive /\ turn = NoTurn /\ facts = NoFacts
    /\ dec = [d \in Deciders |-> NoDecision]
    /\ crashes = 0

-----------------------------------------------------------------------------
(* Appending an event: AgentEventPublisher.append.                         *)

EndOf == [type \in Terminal |->
            CASE type = "run.completed" -> "completed"
              [] type = "run.failed" -> "failed"
              [] type = "run.cancelled" -> "cancelled"
              [] type = "run.interrupted" -> "interrupted"]

Written(type) ==
    CASE type = "run.started" -> "started"
      [] type \in Terminal -> "terminal"
      [] OTHER -> "ordinary"

\* The event reaches the file.
Write(e) ==
    /\ disk' = Project(disk, e)
    /\ ctx' = ProjectContext(ctx, e)
    /\ log' = [log EXCEPT ![e.run] =
                   CASE e.type = "run.started" -> "open"
                     [] e.type \in Terminal -> EndOf[e.type]
                     [] OTHER -> @]
    /\ last' = <<e.run, Written(e.type)>>

\* Three ways an append goes: written and then projected in memory (which
\* fails when the projection refuses the event or has lost step with the
\* file), not written, or written although the store reports an error.
Appends(e, result) ==
    \/ /\ Write(e)
       /\ synced' = (synced /\ Accepts(disk, e))
       /\ result = IF synced' THEN "delivering" ELSE "history_error"
    \/ /\ "absent" \in StoreFailures
       /\ result = "store_error"
       /\ UNCHANGED durable
    \/ /\ "committed" \in StoreFailures
       /\ result = "store_error"
       /\ Write(e)
       /\ synced' = FALSE

Outcomes == Results \ {"none"}

RunEvent(type, n, tag) == Event(type, active.run, n, tag)

\* What no step of a run touches.
others == <<dec, crashes>>

\* The run appends e and continues at l.
Send(e, l) ==
    /\ \E result \in Outcomes : Appends(e, result) /\ io' = result
    /\ pc' = l
    /\ UNCHANGED others

\* The run continues at l without an append.
Goto(l) == pc' = l /\ UNCHANGED <<io, durable, others>>

\* The run's handler is at l and no append of its own is outstanding.
At(l) == pc = l /\ io = "none"

Aborted == active.abort # "none"

\* Nothing is left of the run but its events.
Forget ==
    /\ active' = NoActive /\ turn' = NoTurn /\ facts' = NoFacts
    /\ pc' = "idle" /\ io' = "none" /\ synced' = TRUE
    /\ UNCHANGED <<disk, ctx, log, last>>

\* cleanupActiveRun
Leave == Forget /\ UNCHANGED others

\* finishFailed and finishCancelled.  A plan whose plan.proposed failed is
\* withdrawn before the error gets here.
FinishAs(how) ==
    /\ Send(RunEvent(how, turn.requests, ""), "finishing")
    /\ active' = [active EXCEPT
           !.ending = TRUE, !.plan = IF pc = "proposing" THEN "none" ELSE @]
    /\ UNCHANGED <<turn, facts>>

\* finishFromError: the source of the abort decides.
FinishFromError ==
    FinishAs(IF active.abort \in {"none", "timeout"} THEN "run.failed"
                                                     ELSE "run.cancelled")

\* A step of the run that only moves on.
Continue(l) == Goto(l) /\ UNCHANGED <<active, turn, facts>>

\* A step of the run that only appends.
Record(type, n, tag, l) ==
    /\ Send(RunEvent(type, n, tag), l)
    /\ UNCHANGED <<active, turn, facts>>

\* Fault for RunsEnd: an abort does not reach a pending wait.
AbortedByFlagOnly(a, source) ==
    IF a.abort = "none" /\ ~a.ending THEN [a EXCEPT !.abort = source] ELSE a

\* requestAbort: the first source wins, and a pending wait is rejected.
AbortedBy(a, source) ==
    IF a.abort = "none" /\ ~a.ending
    THEN [a EXCEPT !.abort = source,
                   !.wait = IF @ = "pending" THEN "aborted" ELSE @]
    ELSE a

\* The consumer of the run's events throws.
SinkThrows(a) == AbortedBy([a EXCEPT !.sink = "off"], "sink")

MaySinkThrow == "sink" \in AbortSources /\ active.sink = "open"

-----------------------------------------------------------------------------
(* Recovery and the start of a run, both under the session's lock.         *)

OpenRuns == {r \in Runs : log[r] = "open"}

\* Fault for LifecycleSpec: recovery takes a run that is alive for a dead one.
RecoverAnyOpenRun ==
    /\ disk.valid /\ disk.run # NoRun /\ OpenRuns = {disk.run}
    /\ Write(Event("run.interrupted", disk.run, 0, ""))
    /\ UNCHANGED <<synced, pc, io, active, turn, facts, others>>

\* recoverSession, and the recovery startRun begins with: a run nobody owns
\* is closed by run.interrupted.  The lock is held and no run is active, so
\* nothing comes between the parts of it.  When the store reports an error,
\* the caller only learns less: the event is in the file or it is not.
Recover ==
    /\ active.run = NoRun
    /\ disk.valid /\ disk.run # NoRun /\ OpenRuns = {disk.run}
    /\ Write(Event("run.interrupted", disk.run, 0, ""))
    /\ UNCHANGED <<synced, pc, io, active, turn, facts, others>>

\* Fault for Ownership: a run starts without the recovery of the last one.
StartUnrecovered(r, planning, full) ==
    /\ active.run = NoRun /\ log[r] = "absent"
    /\ active' = [NoActive EXCEPT !.run = r, !.full = full, !.sink = "open"]
    /\ Send(Event("run.started", r, 0, "normal"), "starting")
    /\ UNCHANGED <<turn, facts>>

\* The rest of startRun: the run is registered, its timer set, and
\* run.started appended.
StartRunOf(r, planning, full) ==
    /\ active.run = NoRun
    /\ disk.valid /\ disk.run = NoRun /\ OpenRuns = {}
    /\ log[r] = "absent"
    /\ active' = [NoActive EXCEPT
                     !.run = r, !.full = full, !.sink = "open",
                     !.phase = IF planning THEN "planning" ELSE "normal"]
    /\ Send(Event("run.started", r, 0, IF planning THEN "planning"
                                                   ELSE "normal"), "starting")
    /\ UNCHANGED <<turn, facts>>

-----------------------------------------------------------------------------
(* What happens to an append of the run.                                   *)

\* The consumer takes the event, or throws.
Deliver ==
    /\ io = "delivering"
    /\ io' = "none"
    /\ \/ UNCHANGED active
       \/ MaySinkThrow /\ active' = SinkThrows(active)
    /\ UNCHANGED <<durable, pc, turn, facts, others>>

\* EventStoreError: the run ends without a terminal event.  At "starting"
\* startRun itself cleans up and throws.
StoreError == io = "store_error" /\ Leave

\* The projection refused the event: the run ends with a terminal event,
\* unless it was starting or ending already.
HistoryError ==
    /\ io = "history_error"
    /\ IF pc = "starting" \/ active.ending THEN Leave ELSE FinishFromError

\* executeRun returns and the run is cleaned up.
Ended == At("finishing") /\ Leave

-----------------------------------------------------------------------------
(* executeRun, up to the answer of the model.                              *)

Goal ==
    /\ At("starting")
    /\ IF Aborted THEN FinishFromError ELSE Record("user.message", 0, "", "loop")

\* writeDependencyRecoveryBudgetExceeded
RecoveryBudgetExceeded ==
    /\ facts.missing
    /\ \/ turn.requests >= facts.baseRequests + MaxRecoveryRequests
       \/ turn.calls >= facts.baseCalls + MaxRecoveryCalls

Loop ==
    /\ At("loop")
    /\ IF Aborted \/ RecoveryBudgetExceeded \/ turn.requests >= MaxModelRequests
       THEN FinishFromError ELSE Continue("context")

RequestTheModel == Record("model.requested", turn.requests + 1, "", "requesting")

\* buildContext returns, with a compaction or without.
ContextBuilt ==
    /\ At("context") /\ ~Aborted /\ Buildable(ctx)
    /\ \/ RequestTheModel
       \/ /\ turn.finish \in CompactsAfter
          /\ Record("context.compacted", 0, "", "compacted")

\* buildContext throws, or the run was aborted while it ran.
ContextFailed == At("context") /\ FinishFromError

Compacted ==
    /\ At("compacted")
    /\ IF Aborted THEN FinishFromError ELSE RequestTheModel

Requested ==
    /\ At("requesting")
    /\ turn' = [turn EXCEPT !.requests = @ + 1]
    /\ Goto("model")
    /\ UNCHANGED <<active, facts>>

Batches == UNION {[1..n -> Offers] : n \in 0..MaxBatch}

\* modelClient.complete returns a stop or a batch of tool calls.
ModelAnswers ==
    /\ At("model") /\ ~Aborted
    /\ \E finish \in {"stop", "tool_calls"}, text \in Texts :
       \E batch \in IF finish = "stop" THEN {<< >>} ELSE Batches :
          /\ turn' = [turn EXCEPT !.finish = finish, !.text = text,
                                  !.batch = batch]
          /\ Send(RunEvent("model.completed", turn.requests, finish),
                  "completed")
    /\ UNCHANGED <<active, facts>>

\* It throws, or the run was aborted while it ran.
ModelFailed == At("model") /\ FinishFromError

\* publishLive: the consumer throws on a text delta.
LiveDeltaLost ==
    /\ pc \in {"model", "answer", "narrate"} /\ io = "none" /\ MaySinkThrow
    /\ active' = SinkThrows(active)
    /\ UNCHANGED <<durable, pc, io, turn, facts, others>>

-----------------------------------------------------------------------------
(* A stop.                                                                 *)

Stopped == At("completed") /\ turn.finish = "stop"

\* The text passed the language gate.
Restated == [facts EXCEPT !.restatements = 0]

\* rejectStopContent
StopRejected ==
    /\ Stopped /\ turn.text = "foreign"
    /\ facts' = [facts EXCEPT !.restatements = @ + 1]
    /\ Send(RunEvent("model.output.rejected", turn.requests, "retry"),
            "restate")
    /\ UNCHANGED <<active, turn>>

Restate ==
    /\ At("restate")
    /\ IF facts.restatements > MaxRestatements THEN FinishFromError
                                               ELSE Continue("loop")

\* proposeAndAwaitPlan, up to its append
ProposePlan ==
    /\ Stopped /\ turn.text # "foreign" /\ active.phase = "planning"
    /\ IF turn.text = "empty" THEN FinishFromError
       ELSE /\ active' = [active EXCEPT !.plan = "open", !.wait = "pending"]
            /\ facts' = Restated
            /\ Send(RunEvent("plan.proposed", 0, ""), "proposing")
            /\ UNCHANGED turn

\* Fault for TypeOK: the plan's status is stored as the run's phase.
PlanStatusAsPhase ==
    /\ At("proposing")
    /\ active' = [active EXCEPT !.phase = "proposed"]
    /\ Goto("plan_wait")
    /\ UNCHANGED <<turn, facts>>

\* ... and from there to the wait.
PlanProposed ==
    /\ At("proposing")
    /\ active' = [active EXCEPT
           !.phase = "awaiting",
           !.wait = IF Aborted /\ @ = "pending" THEN "aborted" ELSE @]
    /\ Goto("plan_wait")
    /\ UNCHANGED <<turn, facts>>

\* Fault for HistoryReplayable: a rejected plan goes back to the model.
RejectedPlanContinues ==
    /\ At("plan_wait") /\ active.wait # "pending"
    /\ IF active.wait \in {"approved", "rejected"}
       THEN /\ active' = [active EXCEPT !.wait = "none"]
            /\ Goto("loop") /\ UNCHANGED <<turn, facts>>
       ELSE FinishFromError

PlanAnswered ==
    /\ At("plan_wait") /\ active.wait # "pending"
    /\ CASE active.wait = "approved" ->
               /\ active' = [active EXCEPT !.wait = "none"]
               /\ Goto("loop")
               /\ UNCHANGED <<turn, facts>>
         [] active.wait = "rejected" -> FinishAs("run.cancelled")
         [] OTHER -> FinishFromError

\* The stop of a run that may finish.
FinalStop ==
    /\ Stopped /\ turn.text # "foreign" /\ active.phase # "planning"

StopWithMissingParent ==
    /\ FinalStop /\ facts.missing
    /\ IF facts.stops >= 1 THEN FinishFromError
       ELSE /\ facts' = [Restated EXCEPT !.stops = @ + 1]
            /\ Send(RunEvent("write.dependency.rejected", turn.requests, ""),
                    "loop")
            /\ UNCHANGED <<active, turn>>

StopUnverified ==
    /\ FinalStop /\ ~facts.missing
    /\ facts.unverified /\ ~facts.corrected
    /\ facts' = [Restated EXCEPT !.corrected = TRUE]
    /\ Send(RunEvent("completion.evidence.rejected", turn.requests, ""),
            "loop")
    /\ UNCHANGED <<active, turn>>

StopForGood ==
    /\ FinalStop /\ ~facts.missing
    /\ facts.unverified => facts.corrected

\* decideServiceFinal asks for one more answer, and records nothing.
StopWithoutService ==
    /\ StopForGood /\ facts.service # "none" /\ ~facts.handed
    /\ facts' = [Restated EXCEPT !.handed = TRUE]
    /\ Goto("loop")
    /\ UNCHANGED <<active, turn>>

\* The answer is accepted, as it is or with a warning or an appendix.  One
\* that names the service's URL needs no correction; an empty one fails.
StopAccepted ==
    /\ StopForGood
    /\ facts.service = "failed" \/ (facts.service = "ready" /\ turn.text = "empty")
          => facts.handed
    /\ IF turn.text = "empty" /\ ~facts.unverified /\ facts.service = "none"
       THEN FinishFromError
       ELSE Goto("answer") /\ facts' = Restated /\ UNCHANGED <<active, turn>>

\* completeTextRun
Answer ==
    /\ At("answer")
    /\ IF Aborted THEN FinishFromError
       ELSE Record("assistant.message", 0, "final", "final")

Complete ==
    /\ At("final")
    /\ IF Aborted THEN FinishFromError ELSE FinishAs("run.completed")

-----------------------------------------------------------------------------
(* A batch of tool calls.                                                  *)

Called == At("completed") /\ turn.finish = "tool_calls"

\* Tool calls instead of the restated answer
CallsInsteadOfText == Called /\ facts.restatements > 0 /\ FinishFromError

\* applyToolNarrativePolicy: a foreign text beside the calls is dropped.
NarrativeSuppressed ==
    /\ Called /\ facts.restatements = 0 /\ turn.text = "foreign"
    /\ turn' = [turn EXCEPT !.text = "empty"]
    /\ Send(RunEvent("model.output.rejected", turn.requests, "suppressed"),
            "batch")
    /\ UNCHANGED <<active, facts>>

\* processToolCalls up to the tool.requested events.  Which calls a missing
\* parent blocks is settled here, before the first of them runs.
TakeBatch ==
    /\ \/ Called /\ facts.restatements = 0 /\ turn.text # "foreign"
       \/ At("batch")
    /\ IF turn.batch = << >> \/ turn.calls + Len(turn.batch) > MaxToolCalls
       THEN FinishFromError
       ELSE /\ turn' = [turn EXCEPT !.at = 0, !.blocked = facts.missing,
                                    !.failedCheck = FALSE]
            /\ Goto(IF turn.text = "chinese" THEN "narrate" ELSE "collect")
            /\ UNCHANGED <<active, facts>>

Narrate ==
    /\ At("narrate")
    /\ IF Aborted THEN FinishFromError
       ELSE Record("assistant.message", 0, "intermediate", "collect")

\* One tool.requested after the other; an abort is not looked at here.
Collect ==
    /\ At("collect") /\ turn.at < Len(turn.batch)
    /\ turn' = [turn EXCEPT !.at = @ + 1, !.calls = @ + 1]
    /\ Send(RunEvent("tool.requested", turn.at + 1, turn.batch[turn.at + 1]),
            "collect")
    /\ UNCHANGED <<active, facts>>

\* The model used an identifier twice, in the batch or in the run.
CallsRepeatIdentifier ==
    /\ At("collect") /\ turn.at = 0
    /\ Len(turn.batch) > 1 \/ turn.calls > 0
    /\ FinishFromError

Collected ==
    /\ At("collect") /\ turn.at = Len(turn.batch)
    /\ turn' = [turn EXCEPT !.at = 1]
    /\ Goto("dispatch")
    /\ UNCHANGED <<active, facts>>

Kind == turn.batch[turn.at]

\* The result of the current call is known: tool.result is appended.
\* "invoked" says that the call had been prepared, so the policies see it.
Result(code, invoked) ==
    /\ turn' = [turn EXCEPT !.code = code, !.invoked = invoked]
    /\ Send(RunEvent("tool.result", turn.at, code), "recording")

PhaseDenied ==
    \/ active.phase = "planning" /\ ~IsPlanningTool(Kind)
    \/ turn.blocked /\ Kind = "write"

DispatchAborted == At("dispatch") /\ Aborted /\ FinishFromError

\* createToolPlan settled the call without an invocation.
DispatchDirect ==
    /\ At("dispatch") /\ ~Aborted
    /\ \/ Kind = "malformed" /\ Result("error", FALSE)
       \/ Kind # "malformed" /\ PhaseDenied /\ Result("phase_denied", FALSE)
       \/ /\ Kind # "malformed" /\ ~PhaseDenied /\ MayMisprepare
          /\ Result("error", FALSE)
    /\ UNCHANGED <<active, facts>>

Prepared == At("dispatch") /\ ~Aborted /\ Kind # "malformed" /\ ~PhaseDenied

\* A check of the batch failed before this one.
DispatchSkipped ==
    /\ Prepared /\ Kind = "check" /\ turn.failedCheck
    /\ Result("skipped", FALSE)
    /\ UNCHANGED <<active, facts>>

Runnable == Prepared /\ ~(Kind = "check" /\ turn.failedCheck)

\* evaluateWriteDependency: the parent directory is known to be missing.
DispatchWithoutParent ==
    /\ Runnable /\ Kind = "write" /\ MayMissParent
    /\ facts' = IF facts.missing THEN facts
                ELSE [facts EXCEPT !.missing = TRUE,
                                   !.baseRequests = turn.requests,
                                   !.baseCalls = turn.calls]
    /\ Result("parent_missing", TRUE)
    /\ UNCHANGED active

Verdicts(kind) ==
    IF kind \in {"read", "write"} THEN {"authorized"} ELSE ProcessVerdicts

\* authorizeAndExecute: policy first.
Denied ==
    /\ Runnable /\ "denied" \in Verdicts(Kind)
    /\ Result("denied", TRUE)
    /\ UNCHANGED <<active, facts>>

\* Fault for ExecutionAuthorized: the call runs whatever the policy says.
AuthorizedAlways == Runnable /\ Continue("granted")

Authorized ==
    Runnable /\ "authorized" \in Verdicts(Kind) /\ Continue("granted")

ApprovalRequired ==
    /\ Runnable /\ "ask" \in Verdicts(Kind)
    /\ Record("approval.required", turn.at, "", "asking")

\* With full access the runtime answers for the user, else it waits.
Asking ==
    /\ At("asking")
    /\ IF active.full
       THEN Record("approval.resolved", turn.at, "approved", "granted")
       ELSE /\ active' = [active EXCEPT
                   !.ask = "open",
                   !.wait = IF Aborted THEN "aborted" ELSE "pending"]
            /\ Goto("approval_wait")
            /\ UNCHANGED <<turn, facts>>

ApprovalAnswered ==
    /\ At("approval_wait") /\ active.wait # "pending"
    /\ CASE active.wait = "approved" ->
               /\ active' = [active EXCEPT !.ask = "none", !.wait = "none"]
               /\ Goto("granted")
               /\ UNCHANGED <<turn, facts>>
         [] active.wait = "rejected" ->
               /\ active' = [active EXCEPT !.ask = "none", !.wait = "none"]
               /\ Result("rejected", TRUE)
               /\ UNCHANGED facts
         [] active.wait = "store_error" -> Leave
         [] OTHER -> FinishFromError

\* Fault for AbortHonoured: no look at the abort after the approval.
ToolStartsUnchecked ==
    At("granted") /\ Record("tool.started", turn.at, "", "tool")

\* The last look at the abort before the tool runs.
ToolStarts ==
    /\ At("granted")
    /\ IF Aborted THEN FinishFromError
       ELSE Record("tool.started", turn.at, "", "tool")

\* updateWorkspaceObservations: a listing may show the missing parents.
ParentsSeen(kind, code) ==
    IF kind = "read" /\ code = "ok" /\ facts.missing
    THEN {facts, [facts EXCEPT !.missing = FALSE, !.stops = 0,
                               !.baseRequests = 0, !.baseCalls = 0]}
    ELSE {facts}

ToolReturns ==
    /\ At("tool")
    /\ \E code \in {"ok", "error"} :
          /\ facts' \in ParentsSeen(Kind, code)
          /\ Result(code, TRUE)
    /\ UNCHANGED active

ToolAborted == At("tool") /\ Aborted /\ FinishFromError

\* recordServiceHandoffToolResult, recordCompletionEvidenceToolResult and
\* recordValidationRepairToolResult, as far as a run depends on them.  A
\* write may be of no relevance; a check covers none, some or all of what
\* is unverified.
FactsAfter(kind, code) ==
    CASE kind = "service" ->
           {[facts EXCEPT !.service = IF code = "ok" THEN "ready"
                                                     ELSE "failed"]}
      [] kind = "write" /\ code = "ok" ->
           {facts, [facts EXCEPT !.unverified = TRUE]}
      [] kind = "check" /\ code = "ok" ->
           {[facts EXCEPT !.checkFailures = 0]} \cup
           (IF facts.unverified
            THEN {[facts EXCEPT !.checkFailures = 0, !.corrected = FALSE,
                                !.unverified = rest] : rest \in BOOLEAN}
            ELSE {})
      [] kind = "check" /\ code # "ok" ->
           {[facts EXCEPT !.checkFailures = @ + 1]}
      [] OTHER -> {facts}

\* The second failure of the same check is warned about; from the third on
\* the run may be given up.
Recorded ==
    /\ At("recording")
    /\ \E after \in IF turn.invoked THEN FactsAfter(Kind, turn.code)
                                    ELSE {facts} :
          /\ facts' = after
          /\ IF after.checkFailures > facts.checkFailures
                /\ after.checkFailures >= 2
             THEN \E l \in {"settle"} \cup (IF after.checkFailures >= 3
                                           THEN {"hopeless"} ELSE {}) :
                     Send(RunEvent("validation.repair.warning", 0, ""), l)
             ELSE Goto("settle")
    /\ UNCHANGED <<active, turn>>

GivenUp == At("hopeless") /\ FinishFromError

\* updateNoProgressReadStreak: how many like reads in a row, this one too.
ReadStreaks ==
    IF IsPlanningTool(Kind) /\ turn.code = "ok"
    THEN {1} \cup (IF facts.reads > 0 THEN {facts.reads + 1} ELSE {})
    ELSE {0}

\* Fault for CallInBatch: one call too many.
NextCallPastEnd ==
    /\ turn' = [turn EXCEPT !.at = @ + 1, !.code = "none", !.invoked = FALSE]
    /\ Goto(IF turn.at <= Len(turn.batch) THEN "dispatch" ELSE "loop")

NextCall ==
    /\ turn' = [turn EXCEPT
           !.at = IF @ < Len(turn.batch) THEN @ + 1 ELSE 0,
           !.failedCheck = @ \/ (Kind = "check" /\ turn.invoked
                                   /\ turn.code # "ok"),
           !.code = "none", !.invoked = FALSE]
    /\ Goto(IF turn.at < Len(turn.batch) THEN "dispatch" ELSE "loop")

\* updateToolErrorStreak comes first; a skipped check counts for neither.
Settle ==
    /\ At("settle")
    /\ IF turn.code = "skipped" THEN NextCall /\ UNCHANGED <<active, facts>>
       ELSE LET errors == Streak(facts.sig, facts.errs, Kind, turn.code) IN
            \E reads \in ReadStreaks :
               IF errors.errs >= MaxToolErrors \/ reads >= MaxReads
               THEN FinishFromError
               ELSE /\ facts' = [facts EXCEPT !.sig = errors.sig,
                                              !.errs = errors.errs,
                                              !.reads = reads]
                    /\ NextCall /\ UNCHANGED active

-----------------------------------------------------------------------------
(* Decisions of the user, aborts, crashes.                                 *)

AnswerTag(yes) == IF yes THEN "approved" ELSE "rejected"

\* A caller's append: its own result, the run's handler is not involved.
DecisionAppended(d, kind, yes, e) ==
    \E result \in Outcomes :
       /\ Appends(e, result)
       /\ dec' = [dec EXCEPT ![d] = [io |-> result, kind |-> kind,
                                     run |-> active.run, yes |-> yes]]

Deciding(d) ==
    /\ dec[d].io = "idle" /\ active.run # NoRun
    /\ ~Aborted /\ ~active.ending

\* resolveApproval up to its append.  The gateway lets one caller through.
DecideApproval(d, yes) ==
    /\ Deciding(d) /\ active.ask = "open"
    /\ active' = [active EXCEPT !.ask = "resolved"]
    /\ DecisionAppended(d, "approval", yes,
           RunEvent("approval.resolved", turn.at, AnswerTag(yes)))
    /\ UNCHANGED <<pc, io, turn, facts, crashes>>

\* resolvePlanApproval up to its append.  The plan stays open meanwhile.
DecidePlan(d, yes) ==
    /\ Deciding(d) /\ active.plan = "open" /\ active.phase = "awaiting"
    /\ DecisionAppended(d, "plan", yes,
           RunEvent("plan.approval.resolved", 0, AnswerTag(yes)))
    /\ UNCHANGED <<pc, io, active, turn, facts, crashes>>

Settled(a, kind, outcome) ==
    [a EXCEPT !.wait =
        IF @ = "pending" /\ (kind = "plan" => pc = "plan_wait")
        THEN outcome ELSE @]

\* What the caller changes in the run once its append has returned.
DecisionTakesEffect(a, decision) ==
    IF decision.kind = "approval"
    THEN [Settled(a, "approval", AnswerTag(decision.yes)) EXCEPT !.ask = "none"]
    ELSE [Settled(a, "plan", AnswerTag(decision.yes)) EXCEPT
             !.plan = "none",
             !.phase = IF decision.yes THEN "executing" ELSE @]

\* The append of a caller returns.  The run it was for may be over.
DecisionReturns(d) ==
    /\ dec[d].io = "delivering"
    /\ dec' = [dec EXCEPT ![d] = NoDecision]
    /\ IF dec[d].run # active.run THEN UNCHANGED active
       ELSE \E heard \in {active} \cup (IF MaySinkThrow THEN {SinkThrows(active)}
                                                       ELSE {}) :
               active' = DecisionTakesEffect(heard, dec[d])
    /\ UNCHANGED <<durable, pc, io, turn, facts, crashes>>

\* Fault for WaitAnswerable: nobody passes the error on to the run.
DecisionFailsSilently(d) ==
    /\ dec[d].io \in {"store_error", "history_error"}
    /\ dec' = [dec EXCEPT ![d] = NoDecision]
    /\ UNCHANGED <<durable, pc, io, active, turn, facts, crashes>>

\* It throws.  Only resolveApproval passes the error on to the run.
DecisionFails(d) ==
    /\ dec[d].io \in {"store_error", "history_error"}
    /\ dec' = [dec EXCEPT ![d] = NoDecision]
    /\ active' = IF dec[d].run = active.run /\ dec[d].kind = "approval"
                 THEN [Settled(active, "approval", dec[d].io) EXCEPT
                          !.ask = "none"]
                 ELSE active
    /\ UNCHANGED <<durable, pc, io, turn, facts, crashes>>

\* cancelRun, the caller's signal, the timer.
Abort(source) ==
    /\ active.run # NoRun /\ ~Aborted /\ ~active.ending
    /\ active' = AbortedBy(active, source)
    /\ UNCHANGED <<durable, pc, io, turn, facts, others>>

\* The process dies; only the file is left.
Crash ==
    /\ crashes < MaxCrashes
    /\ active.run # NoRun \/ \E d \in Deciders : dec[d].io # "idle"
    /\ Forget
    /\ dec' = [d \in Deciders |-> NoDecision]
    /\ crashes' = crashes + 1

-----------------------------------------------------------------------------

AppendReturns == Deliver \/ StoreError \/ HistoryError

StopStep ==
    \/ StopRejected \/ Restate
    \/ ProposePlan \/ PlanProposed \/ PlanAnswered
    \/ StopWithMissingParent \/ StopUnverified \/ StopWithoutService
    \/ StopAccepted \/ Answer \/ Complete

BatchStep ==
    \/ CallsInsteadOfText \/ NarrativeSuppressed \/ TakeBatch \/ Narrate
    \/ Collect \/ CallsRepeatIdentifier \/ Collected
    \/ DispatchAborted \/ DispatchDirect \/ DispatchSkipped
    \/ DispatchWithoutParent \/ Denied \/ Authorized \/ ApprovalRequired
    \/ Asking \/ ApprovalAnswered \/ ToolStarts \/ ToolReturns \/ ToolAborted
    \/ Recorded \/ GivenUp \/ Settle

ModelStep ==
    \/ Goal \/ Loop \/ ContextBuilt \/ ContextFailed \/ Compacted \/ Requested
    \/ ModelAnswers \/ ModelFailed \/ LiveDeltaLost

\* The steps of executeRun.
RunStep == AppendReturns \/ ModelStep \/ StopStep \/ BatchStep \/ Ended

RunStarts ==
    \E r \in Runs, planning \in PlanningModes, mode \in PermissionModes :
       StartRunOf(r, planning, mode = "full")

DecisionStep ==
    \E d \in Deciders :
       \/ \E yes \in BOOLEAN : DecideApproval(d, yes) \/ DecidePlan(d, yes)
       \/ DecisionReturns(d)
       \/ DecisionFails(d)

AbortStep == \E source \in AbortSources \ {"sink"} : Abort(source)

Next == RunStarts \/ Recover \/ RunStep \/ DecisionStep \/ AbortStep \/ Crash

Spec == Init /\ [][Next]_vars

\* The run's handler is not starved; the store, the consumer of the events,
\* the model and the tools answer; the timer fires.  Users need not answer.
Fairness ==
    /\ WF_vars(RunStep)
    /\ \A d \in Deciders : WF_vars(DecisionReturns(d) \/ DecisionFails(d))
    /\ "timeout" \in AbortSources => WF_vars(Abort("timeout"))

FairSpec == Spec /\ Fairness

-----------------------------------------------------------------------------
(* Properties.                                                             *)

\* Every variable stays in its set.
TypeOK ==
    /\ disk \in Histories /\ ctx \in Contexts
    /\ log \in [Runs -> {"absent", "open", "interrupted"} \cup Ends]
    /\ last \in (Runs \cup {NoRun}) \X {"started", "ordinary", "terminal"}
    /\ synced \in BOOLEAN /\ pc \in Labels /\ io \in Results
    /\ active \in Actives /\ turn \in Turns /\ facts \in Facts
    /\ dec \in [Deciders -> Decisions] /\ crashes \in 0..MaxCrashes

\* The events in the file can be projected again, whatever the order in which
\* answers, aborts and corrections interleave: the session can be recovered and
\* shown.  The code does not promise it everywhere: the run that checks this has
\* one caller, a store that works, no service and no compaction behind a stop,
\* and AlwaysReplayable (ReaderProofs) names the settings that must be left out.
HistoryReplayable == disk.valid

\* The three who follow the file agree.  An event order the projection of the
\* session accepts is one the context provider accepts, so the next request
\* gets a context; and between its appends the run has the phase, the number
\* of model requests and the current call the file has.
ReadersAgree ==
    /\ disk.valid => ctx.readable
    /\ io = "none" /\ synced /\ active.run # NoRun /\ ~active.ending =>
         /\ disk.run = active.run
         /\ pc # "requesting" => disk.iterations = turn.requests
         /\ pc \notin {"proposing", "plan_wait"} => disk.phase = active.phase
         /\ pc \in {"dispatch", "asking", "approval_wait", "granted", "tool"} =>
                IsCurrentTool(disk.round, turn.at)

\* The runtime does what RunLifecycle promises: one open run, one end of
\* it, no event after the end, no interruption of a run that is alive.
Lifecycle == INSTANCE RunLifecycle WITH owned <- active.run
LifecycleSpec == Lifecycle!Spec

\* What the handler, the run's identity and the file say of each other: a
\* run is owned from its start to its cleanup, no other run is open then,
\* and until its end is written its own is, unless the file never got it.
Ownership ==
    /\ (active.run = NoRun) = (pc = "idle")
    /\ pc = "idle" => io = "none"
    /\ active.ending = (pc = "finishing")
    /\ pc = "starting" => active.ask = "none" /\ active.plan = "none"
    /\ \A r \in OpenRuns :
          active.run \in {NoRun, r} /\ \A q \in OpenRuns : q = r
    /\ pc \notin {"idle", "finishing"} /\ ~(pc = "starting" /\ io = "store_error")
          => log[active.run] = "open"

\* A batch that is announced is not empty, and the call the run works on is
\* one of it.
CallInBatch ==
    /\ pc \in {"narrate", "collect"} => turn.batch # << >>
    /\ pc \in {"dispatch", "asking", "approval_wait", "granted", "tool",
               "recording", "settle", "hopeless"}
          => turn.at \in DOMAIN turn.batch

\* A tool that executes has been started in the file as the call the model
\* asked for, and where the policy does not authorize it the file holds the
\* user's (or the full access mode's) consent.
ExecutionAuthorized ==
    At("tool") /\ disk.valid =>
        LET call == disk.round.tools[turn.at] IN
        /\ call.kind = Kind /\ call.started /\ call.result = "none"
        /\ call.approval \in {"none", "approved"}
        /\ "authorized" \notin Verdicts(Kind) => call.approval = "approved"

\* In a run that plans first, nothing but a planning read executes until
\* the file holds the user's consent to the plan.
PlanGate ==
    At("tool") /\ disk.valid /\ ~IsPlanningTool(Kind) =>
        /\ disk.phase \in {"normal", "executing"}
        /\ disk.phase = "executing" => disk.plan = "approved"

\* A run that waits for the user can still be answered: its request is
\* open, or the answer is on its way.
WaitAnswerable ==
    active.wait = "pending" =>
        \/ pc = "approval_wait" /\ active.ask = "open"
        \/ pc \in {"proposing", "plan_wait"} /\ active.plan = "open"
        \/ pc = "approval_wait" /\ active.ask = "resolved" /\
              \E d \in Deciders : /\ dec[d].run = active.run
                                  /\ dec[d].kind = "approval"

\* However an abort meets the steps of the run: once it is there no tool
\* starts any more, and the run is not reported as completed.
AbortHonoured ==
    [][(\/ pc' = "tool" /\ pc # "tool"
        \/ \E r \in Runs : log[r] = "open" /\ log'[r] = "completed")
            => ~Aborted]_vars

\* The user's answer to a plan is written once: a second caller meets a plan
\* that is decided, and writes nothing.
PlanDecidedOnce ==
    [][\A d \in Deciders :
          dec[d].io = "idle" /\ dec'[d].io # "idle" /\ dec'[d].kind = "plan"
             => disk.plan = "proposed"]_vars

\* Every run comes to an end, whatever it waits for: the timer reaches a run
\* whose user does not answer, and a cancelled run, which the timer does not
\* reach any more, finds its abort wherever it is (approval-wait.ts,
\* waitForApproval and finishFromError of runtime.ts).
RunsEnd == \A r \in Runs : active.run = r ~> active.run # r

=============================================================================
