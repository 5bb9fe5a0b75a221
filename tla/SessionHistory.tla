---------------------------- MODULE SessionHistory ----------------------------
(***************************************************************************)
(* What the agent runtime can read back from the durable events of one     *)
(* session: projectAgentEvent of src/lib/agent/projection.ts as an         *)
(* operator on a small record.  Every event the runtime appends is         *)
(* projected twice: in memory, right after the append, and again from the  *)
(* file when the session is recovered.  An event that the projection       *)
(* refuses stays in the file, so one refusal makes the session unreadable  *)
(* for good: the record then is Unreadable.                                *)
(*                                                                         *)
(* Abstractions: a tool call is known by its kind and its position in the  *)
(* batch (the code's UUIDs are unique), an event carries the run, one      *)
(* number and one tag, and a finished run leaves nothing behind (lastRun   *)
(* only feeds the displayed snapshot).                                     *)
(***************************************************************************)
EXTENDS Naturals, Sequences

CONSTANTS Runs,            \* identities of the runs of the session
          NoRun,           \* "no run", not a member of Runs
          MaxToolErrors    \* 3 in the code: identical failures in a row

ASSUME RunsAssumption == NoRun \notin Runs
ASSUME MaxToolErrorsAssumption == MaxToolErrors \in Nat \ {0}

(* "read" stands for the three planning tools, "check" for a one-shot      *)
(* verification command, "service" for a run_process service, "malformed"  *)
(* for a call whose arguments could not be parsed (invalid_tool_call).     *)
Kinds == {"read", "write", "check", "service", "malformed"}
Codes == {"ok", "error", "denied", "rejected", "phase_denied",
          "parent_missing", "skipped"}
Phases == {"normal", "planning", "awaiting", "executing"}

IsPlanningTool(kind) == kind = "read"

Ordinary == {"user.message", "context.compacted", "model.requested",
             "model.completed", "model.output.rejected",
             "completion.evidence.rejected", "validation.repair.warning",
             "write.dependency.rejected", "assistant.message",
             "tool.requested", "approval.required", "approval.resolved",
             "tool.started", "tool.result", "plan.proposed",
             "plan.approval.resolved"}
Terminal == {"run.completed", "run.failed", "run.cancelled",
             "run.interrupted"}
EventTypes == {"run.started"} \cup Ordinary \cup Terminal

Tags == {"", "planning", "normal", "stop", "tool_calls", "retry",
         "suppressed", "final", "intermediate", "approved", "rejected_by_user"}
        \cup Kinds \cup Codes

Events == {e \in [type : EventTypes, run : Runs, n : Nat, tag : Tags] :
              /\ e.type = "tool.requested" => e.tag \in Kinds
              /\ e.type = "tool.result" => e.tag \in Codes}

Event(type, run, n, tag) ==
    [type |-> type, run |-> run, n |-> n, tag |-> tag]

-----------------------------------------------------------------------------
(* The projected state.                                                    *)

Tools == [kind : Kinds, planned : BOOLEAN,
          approval : {"none", "pending", "approved", "rejected"},
          started : BOOLEAN, result : Codes \cup {"none"}]

Rounds == [finish : {"none", "stop", "tool_calls"},
           rejected : {"none", "retry", "suppressed"},
           evidence : BOOLEAN, dependency : BOOLEAN,
           intermediate : BOOLEAN, locked : BOOLEAN, tools : Seq(Tools)]

Signatures == [kind : Kinds \cup {"none"}, code : Codes \cup {"none"}]

Histories ==
    [valid : BOOLEAN, run : Runs \cup {NoRun}, goal : BOOLEAN,
     phase : Phases, iterations : Nat, pending : BOOLEAN,
     round : Rounds, plan : {"none", "proposed", "approved", "rejected"},
     final : BOOLEAN, sig : Signatures, errs : Nat, handoff : BOOLEAN]

NewRound(finish) ==
    [finish |-> finish, rejected |-> "none", evidence |-> FALSE,
     dependency |-> FALSE, intermediate |-> FALSE, locked |-> FALSE,
     tools |-> << >>]

NoRound == NewRound("none")
NoSignature == [kind |-> "none", code |-> "none"]

EmptyHistory ==
    [valid |-> TRUE, run |-> NoRun, goal |-> FALSE, phase |-> "normal",
     iterations |-> 0, pending |-> FALSE, round |-> NoRound,
     plan |-> "none", final |-> FALSE, sig |-> NoSignature, errs |-> 0,
     handoff |-> FALSE]

Unreadable == [EmptyHistory EXCEPT !.valid = FALSE]

-----------------------------------------------------------------------------
(* Reading a round.                                                        *)

Unresolved(round) == {i \in DOMAIN round.tools : round.tools[i].result = "none"}

\* n is the call that runs next: the first one without a result.
IsCurrentTool(round, n) ==
    /\ n \in Unresolved(round)
    /\ \A i \in Unresolved(round) : n <= i

ToolRoundDone(round) == round.tools # << >> /\ Unresolved(round) = {}

Rejected(round) ==
    \/ round.rejected = "retry"
    \/ round.evidence
    \/ round.dependency

-----------------------------------------------------------------------------
(* Which event the projection accepts next.                                *)

AcceptsUserMessage(d) ==
    ~d.goal /\ d.iterations = 0 /\ ~d.pending /\ d.round.finish = "none"

\* assertStableForCompaction
AcceptsCompaction(d) ==
    /\ d.goal /\ ~d.pending /\ ~d.final
    /\ d.errs < MaxToolErrors
    /\ d.round.finish # "stop"
    /\ d.round.finish = "tool_calls" => ToolRoundDone(d.round)

\* startModelRound
AcceptsModelRequest(d, n) ==
    /\ d.goal /\ ~d.pending /\ ~d.final
    /\ d.round.finish = "stop" => Rejected(d.round) \/ d.handoff
    /\ d.round.finish = "tool_calls" => ToolRoundDone(d.round)
    /\ n = d.iterations + 1

AcceptsModelCompletion(d, n) == d.pending /\ n = d.iterations

InRound(d, n) == ~d.pending /\ d.round.finish # "none" /\ n = d.iterations

AcceptsOutputRejection(d, n, action) ==
    /\ InRound(d, n)
    /\ d.round.rejected = "none"
    /\ d.round.finish = IF action = "retry" THEN "stop" ELSE "tool_calls"

AcceptsEvidenceRejection(d, n) ==
    /\ InRound(d, n)
    /\ d.round.finish = "stop" /\ d.round.rejected = "none"
    /\ ~d.round.evidence /\ ~d.final

AcceptsRepairWarning(d) ==
    ~d.pending /\ d.round.finish # "none" /\ ~d.final

AcceptsDependencyRejection(d, n) ==
    /\ AcceptsEvidenceRejection(d, n)
    /\ ~d.round.dependency

AcceptsAssistantMessage(d, kind) ==
    /\ ~d.pending /\ d.round.finish # "none"
    /\ IF kind = "final"
       THEN /\ d.round.finish = "stop" /\ d.round.rejected = "none"
            /\ ~d.final /\ d.phase \notin {"planning", "awaiting"}
       ELSE /\ d.round.finish = "tool_calls" /\ d.round.rejected # "retry"
            /\ ~d.round.intermediate /\ d.round.tools = << >>
            /\ ~d.round.locked

InToolRound(d) == d.round.finish = "tool_calls"

AcceptsToolRequest(d, n) ==
    InToolRound(d) /\ ~d.round.locked /\ n = Len(d.round.tools) + 1

AcceptsApprovalRequest(d, n) ==
    /\ InToolRound(d) /\ IsCurrentTool(d.round, n)
    /\ d.phase # "planning"
    /\ d.round.tools[n].approval = "none" /\ ~d.round.tools[n].started

AcceptsApprovalResolution(d, n) ==
    /\ InToolRound(d) /\ IsCurrentTool(d.round, n)
    /\ d.round.tools[n].approval = "pending" /\ ~d.round.tools[n].started

AcceptsToolStart(d, n) ==
    /\ InToolRound(d) /\ IsCurrentTool(d.round, n)
    /\ LET tool == d.round.tools[n] IN
       /\ ~tool.started
       /\ tool.planned => IsPlanningTool(tool.kind)
       /\ tool.approval \in {"none", "approved"}

AcceptsToolResult(d, n, code) ==
    /\ InToolRound(d) /\ IsCurrentTool(d.round, n)
    /\ LET tool == d.round.tools[n] IN
       /\ tool.approval # "pending"
       /\ tool.approval = "approved" => tool.started
       /\ tool.approval = "rejected" => ~tool.started /\ code = "rejected"
       /\ tool.planned /\ ~IsPlanningTool(tool.kind)
            => ~tool.started /\ code = "phase_denied"

AcceptsPlanProposal(d) ==
    /\ d.phase = "planning" /\ d.plan = "none"
    /\ ~d.pending /\ d.round.finish = "stop"
    /\ d.round.rejected = "none" /\ ~d.final

AcceptsPlanResolution(d) == d.phase = "awaiting" /\ d.plan = "proposed"

AcceptsCompleted(d, n) ==
    /\ d.phase \notin {"planning", "awaiting"}
    /\ d.final /\ ~d.pending
    /\ d.round.finish = "stop" /\ d.round.rejected = "none"
    /\ n = d.iterations

\* Every event but run.started belongs to the run that is open.
Accepts(d, e) ==
    /\ d.valid
    /\ d.run = IF e.type = "run.started" THEN NoRun ELSE e.run
    /\ CASE e.type = "run.started" -> TRUE
         [] e.type = "user.message" -> AcceptsUserMessage(d)
         [] e.type = "context.compacted" -> AcceptsCompaction(d)
         [] e.type = "model.requested" -> AcceptsModelRequest(d, e.n)
         [] e.type = "model.completed" -> AcceptsModelCompletion(d, e.n)
         [] e.type = "model.output.rejected" ->
                AcceptsOutputRejection(d, e.n, e.tag)
         [] e.type = "completion.evidence.rejected" ->
                AcceptsEvidenceRejection(d, e.n)
         [] e.type = "validation.repair.warning" -> AcceptsRepairWarning(d)
         [] e.type = "write.dependency.rejected" ->
                AcceptsDependencyRejection(d, e.n)
         [] e.type = "assistant.message" -> AcceptsAssistantMessage(d, e.tag)
         [] e.type = "tool.requested" -> AcceptsToolRequest(d, e.n)
         [] e.type = "approval.required" -> AcceptsApprovalRequest(d, e.n)
         [] e.type = "approval.resolved" -> AcceptsApprovalResolution(d, e.n)
         [] e.type = "tool.started" -> AcceptsToolStart(d, e.n)
         [] e.type = "tool.result" -> AcceptsToolResult(d, e.n, e.tag)
         [] e.type = "plan.proposed" -> AcceptsPlanProposal(d)
         [] e.type = "plan.approval.resolved" -> AcceptsPlanResolution(d)
         [] e.type = "run.completed" -> AcceptsCompleted(d, e.n)
         [] e.type \in {"run.failed", "run.cancelled"} -> e.n = d.iterations
         [] e.type = "run.interrupted" -> TRUE

-----------------------------------------------------------------------------
(* What an accepted event changes.                                         *)

StartRun(d, e) ==
    [EmptyHistory EXCEPT
        !.run = e.run,
        !.phase = IF e.tag = "planning" THEN "planning" ELSE "normal"]

\* startModelRound: a stop whose rejection was not recorded uses up the
\* service correction.
RequestModel(d, n) ==
    [d EXCEPT
        !.handoff = @ /\ (d.round.finish = "stop" => Rejected(d.round)),
        !.iterations = n, !.pending = TRUE, !.round = NoRound]

RequestTool(d, kind) ==
    [d EXCEPT !.round.tools = Append(@,
        [kind |-> kind, planned |-> d.phase = "planning",
         approval |-> "none", started |-> FALSE, result |-> "none"])]

\* Every event after the requests of a batch closes the collection.
RoundWith(round, n, tool) ==
    [round EXCEPT !.locked = TRUE, !.tools = [@ EXCEPT ![n] = tool]]

UpdateTool(d, n, tool) == [d EXCEPT !.round = RoundWith(@, n, tool)]

RequireApproval(d, n) ==
    UpdateTool(d, n, [d.round.tools[n] EXCEPT !.approval = "pending"])

ResolveApproval(d, n, tag) ==
    UpdateTool(d, n, [d.round.tools[n] EXCEPT
        !.approval = IF tag = "approved" THEN "approved" ELSE "rejected"])

StartTool(d, n) == UpdateTool(d, n, [d.round.tools[n] EXCEPT !.started = TRUE])

\* createToolErrorSignature and the streak kept beside it
Streak(sig, errs, kind, code) ==
    LET new == [kind |-> kind, code |-> code] IN
    IF code = "ok" THEN [sig |-> NoSignature, errs |-> 0]
    ELSE [sig |-> new, errs |-> IF sig = new THEN errs + 1 ELSE 1]

RecordResult(d, n, code) ==
    LET tool == d.round.tools[n]
        streak == Streak(d.sig, d.errs, tool.kind, code)
    IN [UpdateTool(d, n, [tool EXCEPT !.result = code]) EXCEPT
            !.sig = streak.sig, !.errs = streak.errs,
            !.handoff = @ \/ (tool.started /\ tool.kind = "service")]

\* Fault for PlanGate: the plan's status does not follow the answer.
ResolvePlanPhaseOnly(d, tag) ==
    IF tag = "approved" THEN [d EXCEPT !.phase = "executing", !.round = NoRound]
                        ELSE d

ResolvePlan(d, tag) ==
    IF tag = "approved"
    THEN [d EXCEPT !.plan = "approved", !.phase = "executing",
                   !.round = NoRound]
    ELSE [d EXCEPT !.plan = "rejected"]

AssistantMessage(d, kind) ==
    IF kind = "final" THEN [d EXCEPT !.final = TRUE]
                      ELSE [d EXCEPT !.round.intermediate = TRUE]

Apply(d, e) ==
    CASE e.type = "run.started" -> StartRun(d, e)
      [] e.type = "user.message" -> [d EXCEPT !.goal = TRUE]
      [] e.type \in {"context.compacted", "validation.repair.warning"} -> d
      [] e.type = "model.requested" -> RequestModel(d, e.n)
      [] e.type = "model.completed" ->
             [d EXCEPT !.pending = FALSE,
                       !.round = NewRound(IF e.tag = "stop" THEN "stop"
                                                            ELSE "tool_calls")]
      [] e.type = "model.output.rejected" ->
             [d EXCEPT !.round.rejected = IF e.tag = "retry" THEN "retry"
                                                             ELSE "suppressed"]
      [] e.type = "completion.evidence.rejected" ->
             [d EXCEPT !.round.evidence = TRUE]
      [] e.type = "write.dependency.rejected" ->
             [d EXCEPT !.round.dependency = TRUE]
      [] e.type = "assistant.message" -> AssistantMessage(d, e.tag)
      [] e.type = "tool.requested" -> RequestTool(d, e.tag)
      [] e.type = "approval.required" -> RequireApproval(d, e.n)
      [] e.type = "approval.resolved" -> ResolveApproval(d, e.n, e.tag)
      [] e.type = "tool.started" -> StartTool(d, e.n)
      [] e.type = "tool.result" -> RecordResult(d, e.n, e.tag)
      [] e.type = "plan.proposed" ->
             [d EXCEPT !.plan = "proposed", !.phase = "awaiting"]
      [] e.type = "plan.approval.resolved" -> ResolvePlan(d, e.tag)
      [] e.type \in Terminal -> EmptyHistory

\* The state read back once e is in the file.
Project(d, e) == IF Accepts(d, e) THEN Apply(d, e) ELSE Unreadable

=============================================================================
