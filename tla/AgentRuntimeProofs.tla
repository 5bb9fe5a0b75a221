-------------------------- MODULE AgentRuntimeProofs --------------------------
(***************************************************************************)
(* The two readers of a session's file are total; and of the runtime, for  *)
(* every value of the constants: its types, its ownership of runs, that it *)
(* implements RunLifecycle, and what its handler knows of the file.        *)
(*                                                                         *)
(* The inductive invariant is TypeOK /\ Ownership /\ CallInBatch.  Every   *)
(* step is first shown to be of one of six kinds (Works, Finishes, Leaves, *)
(* Delivers, Aside, or the start or the recovery of a run), each a formula *)
(* about the handler's place, the run's identity and the ends the file     *)
(* holds.  Ownership, the refinement and AbortHonoured follow from the     *)
(* kinds alone.                                                            *)
(***************************************************************************)
EXTENDS AgentRuntime, TLAPS

-----------------------------------------------------------------------------
(* The two readers of a session's file are total: whatever event comes     *)
(* next, what they read back is a state of theirs (Unreadable and          *)
(* NoContext included).  The proofs go event by event, along Apply.        *)

\* The state before the first event, and the one nothing leads out of, are
\* states of the projection.
LEMMA EmptyHistoryType == EmptyHistory \in Histories /\ Unreadable \in Histories
<1>1. << >> \in Seq(Tools)
  OBVIOUS
<1>2. NoRound \in Rounds
  BY <1>1 DEF NoRound, NewRound, Rounds
<1> QED
  BY <1>2 DEF EmptyHistory, Unreadable, Histories, NoSignature, Signatures,
              Phases

\* Changing one call of a batch leaves a round a round.
LEMMA UpdateToolType ==
  ASSUME NEW d \in Histories, NEW n \in DOMAIN d.round.tools, NEW tool \in Tools
  PROVE  UpdateTool(d, n, tool) \in Histories
<1>1. d.round \in Rounds /\ d.round.tools \in Seq(Tools)
  BY DEF Histories, Rounds
<1>2. [d.round.tools EXCEPT ![n] = tool] \in Seq(Tools)
  BY <1>1
<1>3. RoundWith(d.round, n, tool) \in Rounds
  <2>1. RoundWith(d.round, n, tool) =
          [[d.round EXCEPT !.locked = TRUE] EXCEPT
              !.tools = [d.round.tools EXCEPT ![n] = tool]]
    BY <1>1 DEF RoundWith, Rounds
  <2>2. [d.round EXCEPT !.locked = TRUE] \in Rounds
    BY <1>1 DEF Rounds
  <2> QED
    BY <1>2, <2>1, <2>2 DEF Rounds
<1> QED
  BY <1>3 DEF UpdateTool, Histories

\* A fresh round, and the next model request.
LEMMA RequestModelType ==
  ASSUME NEW d \in Histories, NEW n \in Nat
  PROVE  RequestModel(d, n) \in Histories
<1>1. NoRound \in Rounds
  <2>1. << >> \in Seq(Tools)
    OBVIOUS
  <2> QED
    BY <2>1 DEF NoRound, NewRound, Rounds
<1> DEFINE handoff == d.handoff /\ (d.round.finish = "stop" => Rejected(d.round))
<1>2. handoff \in BOOLEAN
  BY DEF Histories
<1>3. RequestModel(d, n) = [d EXCEPT !.handoff = handoff, !.iterations = n,
                                     !.pending = TRUE, !.round = NoRound]
  BY DEF RequestModel, Histories
<1> HIDE DEF handoff
<1> QED
  BY <1>1, <1>2, <1>3 DEF Histories

\* One more call in the batch.
LEMMA RequestToolType ==
  ASSUME NEW d \in Histories, NEW kind \in Kinds
  PROVE  RequestTool(d, kind) \in Histories
<1> DEFINE tool == [kind |-> kind, planned |-> d.phase = "planning",
                    approval |-> "none", started |-> FALSE, result |-> "none"]
           tools == Append(d.round.tools, tool)
<1>1. d.round \in Rounds /\ d.round.tools \in Seq(Tools)
  BY DEF Histories, Rounds
<1>2. tool \in Tools
  BY DEF Tools
<1>3. tools \in Seq(Tools)
  BY <1>1, <1>2
<1>4. [d.round EXCEPT !.tools = tools] \in Rounds
  BY <1>1, <1>3 DEF Rounds
<1>5. RequestTool(d, kind) = [d EXCEPT !.round = [d.round EXCEPT !.tools = tools]]
  BY <1>1 DEF RequestTool, Histories, Rounds
<1> HIDE DEF tools
<1> QED
  BY <1>4, <1>5 DEF Histories

\* The streak of like errors.
LEMMA StreakType ==
  ASSUME NEW sig \in Signatures, NEW errs \in Nat,
         NEW kind \in Kinds, NEW code \in Codes \cup {"none"}
  PROVE  /\ Streak(sig, errs, kind, code).sig \in Signatures
         /\ Streak(sig, errs, kind, code).errs \in Nat
  BY DEF Streak, Signatures, NoSignature

\* The result of the current call.
LEMMA RecordResultType ==
  ASSUME NEW d \in Histories, NEW n \in DOMAIN d.round.tools, NEW code \in Codes
  PROVE  RecordResult(d, n, code) \in Histories
<1> DEFINE tool == d.round.tools[n]
           after == UpdateTool(d, n, [tool EXCEPT !.result = code])
           streak == Streak(d.sig, d.errs, tool.kind, code)
           handoff == d.handoff \/ (tool.started /\ tool.kind = "service")
<1>1. tool \in Tools
  BY DEF Histories, Rounds
<1>2. [tool EXCEPT !.result = code] \in Tools
  BY <1>1 DEF Tools
<1>3. after \in Histories
  BY <1>2, UpdateToolType
<1>4. after.handoff = d.handoff
  BY DEF UpdateTool, Histories
<1>5. streak.sig \in Signatures /\ streak.errs \in Nat
  BY <1>1, StreakType DEF Histories, Tools
<1>6. handoff \in BOOLEAN
  BY <1>1 DEF Histories, Tools
<1>7. RecordResult(d, n, code) =
        [after EXCEPT !.sig = streak.sig, !.errs = streak.errs,
                      !.handoff = handoff]
  BY <1>3, <1>4 DEF RecordResult, Histories
<1> HIDE DEF after, streak, handoff
<1> QED
  BY <1>3, <1>5, <1>6, <1>7 DEF Histories

\* A round that is marked.
LEMMA MarkRoundType ==
  ASSUME NEW d \in Histories
  PROVE  /\ \A action \in {"retry", "suppressed"} :
                [d EXCEPT !.round.rejected = action] \in Histories
         /\ [d EXCEPT !.round.evidence = TRUE] \in Histories
         /\ [d EXCEPT !.round.dependency = TRUE] \in Histories
         /\ [d EXCEPT !.round.intermediate = TRUE] \in Histories
<1>1. d.round \in Rounds
  BY DEF Histories
<1>2. /\ \A action \in {"retry", "suppressed"} :
            [d.round EXCEPT !.rejected = action] \in Rounds
      /\ [d.round EXCEPT !.evidence = TRUE] \in Rounds
      /\ [d.round EXCEPT !.dependency = TRUE] \in Rounds
      /\ [d.round EXCEPT !.intermediate = TRUE] \in Rounds
  BY <1>1 DEF Rounds
<1>3. \A action \in {"retry", "suppressed"} :
         [d EXCEPT !.round = [d.round EXCEPT !.rejected = action]] \in Histories
  BY <1>2 DEF Histories
<1>4. /\ [d EXCEPT !.round = [d.round EXCEPT !.evidence = TRUE]] \in Histories
      /\ [d EXCEPT !.round = [d.round EXCEPT !.dependency = TRUE]] \in Histories
      /\ [d EXCEPT !.round = [d.round EXCEPT !.intermediate = TRUE]] \in Histories
  BY <1>2 DEF Histories
<1> QED
  BY <1>3, <1>4 DEF Histories, Rounds

\* What Apply makes of an event that is accepted.
LEMMA ApplyType ==
  ASSUME NEW d \in Histories, NEW e \in Events, Accepts(d, e)
  PROVE  Apply(d, e) \in Histories
<1>1. /\ e.type \in EventTypes /\ e.run \in Runs /\ e.n \in Nat /\ e.tag \in Tags
      /\ e.type = "tool.requested" => e.tag \in Kinds
      /\ e.type = "tool.result" => e.tag \in Codes
  BY DEF Events
<1>2. CASE e.type = "run.started"
  <2>1. Apply(d, e) = StartRun(d, e)
    BY <1>2 DEF Apply, Terminal
  <2>2. StartRun(d, e) \in Histories
    BY <1>1, EmptyHistoryType DEF StartRun, Histories, Phases
  <2> QED
    BY <2>1, <2>2
<1>3. CASE e.type \in {"user.message", "context.compacted",
                       "validation.repair.warning"}
  BY <1>1, <1>3 DEF Apply, Terminal, Histories
<1>4. CASE e.type = "model.requested"
  BY <1>1, <1>4, RequestModelType DEF Apply, Terminal
<1>5. CASE e.type = "model.completed"
  <2>1. << >> \in Seq(Tools)
    OBVIOUS
  <2>2. \A finish \in {"stop", "tool_calls"} : NewRound(finish) \in Rounds
    BY <2>1 DEF NewRound, Rounds
  <2>3. \E finish \in {"stop", "tool_calls"} :
           Apply(d, e) = [d EXCEPT !.pending = FALSE, !.round = NewRound(finish)]
    BY <1>5 DEF Apply, Terminal
  <2>4. \A finish \in {"stop", "tool_calls"} :
           [d EXCEPT !.pending = FALSE, !.round = NewRound(finish)] \in Histories
    BY <2>2 DEF Histories
  <2> QED
    BY <2>3, <2>4
<1>6. CASE e.type \in {"model.output.rejected", "completion.evidence.rejected",
                       "write.dependency.rejected"}
  BY <1>6, MarkRoundType DEF Apply, Terminal
<1>7. CASE e.type = "assistant.message"
  <2>1. Apply(d, e) = AssistantMessage(d, e.tag)
    BY <1>7 DEF Apply, Terminal
  <2>2. AssistantMessage(d, e.tag) \in Histories
    BY MarkRoundType DEF AssistantMessage, Histories
  <2> QED
    BY <2>1, <2>2
<1>8. CASE e.type = "tool.requested"
  BY <1>1, <1>8, RequestToolType DEF Apply, Terminal
<1>9. ASSUME NEW n \in DOMAIN d.round.tools
      PROVE  /\ RequireApproval(d, n) \in Histories
             /\ \A tag \in Tags : ResolveApproval(d, n, tag) \in Histories
             /\ StartTool(d, n) \in Histories
  <2>1. d.round.tools[n] \in Tools
    BY <1>9 DEF Histories, Rounds
  <2>2. /\ [d.round.tools[n] EXCEPT !.approval = "pending"] \in Tools
        /\ [d.round.tools[n] EXCEPT !.approval = "approved"] \in Tools
        /\ [d.round.tools[n] EXCEPT !.approval = "rejected"] \in Tools
        /\ [d.round.tools[n] EXCEPT !.started = TRUE] \in Tools
    BY <2>1 DEF Tools
  <2> QED
    BY <1>9, <2>2, UpdateToolType
    DEF RequireApproval, ResolveApproval, StartTool
<1>10. CASE e.type = "approval.required"
  <2>1. e.n \in DOMAIN d.round.tools
    BY <1>10 DEF Accepts, AcceptsApprovalRequest, IsCurrentTool, Unresolved
  <2> QED
    BY <1>9, <1>10, <2>1 DEF Apply, Terminal
<1>11. CASE e.type = "approval.resolved"
  <2>1. e.n \in DOMAIN d.round.tools
    BY <1>11 DEF Accepts, AcceptsApprovalResolution, IsCurrentTool, Unresolved
  <2> QED
    BY <1>1, <1>9, <1>11, <2>1 DEF Apply, Terminal
<1>12. CASE e.type = "tool.started"
  <2>1. e.n \in DOMAIN d.round.tools
    BY <1>12 DEF Accepts, AcceptsToolStart, IsCurrentTool, Unresolved
  <2> QED
    BY <1>9, <1>12, <2>1 DEF Apply, Terminal
<1>13. CASE e.type = "tool.result"
  <2>1. e.n \in DOMAIN d.round.tools
    BY <1>13 DEF Accepts, AcceptsToolResult, IsCurrentTool, Unresolved
  <2> QED
    BY <1>1, <1>13, <2>1, RecordResultType DEF Apply, Terminal
<1>14. CASE e.type = "plan.proposed"
  <2>1. Apply(d, e) = [d EXCEPT !.plan = "proposed", !.phase = "awaiting"]
    BY <1>14 DEF Apply, Terminal
  <2>2. [d EXCEPT !.plan = "proposed", !.phase = "awaiting"] \in Histories
    BY DEF Histories, Phases
  <2> QED
    BY <2>1, <2>2
<1>15. CASE e.type = "plan.approval.resolved"
  <2>1. Apply(d, e) = ResolvePlan(d, e.tag)
    BY <1>15 DEF Apply, Terminal
  <2>2. ResolvePlan(d, e.tag) \in Histories
    BY EmptyHistoryType DEF ResolvePlan, Histories, Phases, EmptyHistory
  <2> QED
    BY <2>1, <2>2
<1>16. CASE e.type \in Terminal
  BY <1>16, EmptyHistoryType DEF Apply, Terminal
<1> QED
  BY <1>1, <1>2, <1>3, <1>4, <1>5, <1>6, <1>7, <1>8, <1>10, <1>11, <1>12,
     <1>13, <1>14, <1>15, <1>16 DEF EventTypes, Ordinary

\* Whatever event comes next, projectAgentEvent reads back a state.
THEOREM ProjectType ==
  ASSUME NEW d \in Histories, NEW e \in Events
  PROVE  Project(d, e) \in Histories
  BY ApplyType, EmptyHistoryType DEF Project

-----------------------------------------------------------------------------

\* The context before the first event, and the one that is lost for good.
LEMMA EmptyContextType == EmptyContext \in Contexts /\ NoContext \in Contexts
  BY DEF EmptyContext, NoContext, Contexts, Phases

\* A round that starts over.
LEMMA FreshRoundType ==
  ASSUME NEW c \in Contexts
  PROVE  FreshRound(c) \in Contexts
  BY ZenonT(60) DEF FreshRound, Contexts

\* What appendContextHistoryEvents makes of an event it takes.
LEMMA ContextApplyType ==
  ASSUME NEW c \in Contexts, NEW e \in Events
  PROVE  ContextApply(c, e) \in Contexts
<1>1. e.type \in EventTypes /\ e.run \in Runs /\ e.n \in Nat /\ e.tag \in Tags
  BY DEF Events
<1>2. CASE e.type = "run.started"
  <2> DEFINE phase == IF e.tag = "planning" THEN "planning" ELSE "normal"
  <2>1. phase \in Phases /\ c.goalless \in BOOLEAN
    BY DEF Phases, Contexts
  <2>2. ContextApply(c, e) = [EmptyContext EXCEPT
            !.goalless = c.goalless, !.run = e.run, !.phase = phase]
    BY <1>2 DEF ContextApply, Terminal
  <2> HIDE DEF phase
  <2> QED
    BY <1>1, <2>1, <2>2, EmptyContextType, ZenonT(60) DEF Contexts
<1>3. CASE e.type \in {"user.message", "assistant.message",
                       "completion.evidence.rejected",
                       "write.dependency.rejected", "plan.proposed"}
  <2>1. CASE e.type = "user.message"
    <3>1. ContextApply(c, e) = [c EXCEPT !.goal = TRUE]
      BY <2>1 DEF ContextApply, Terminal
    <3> QED
      BY <3>1 DEF Contexts
  <2>2. CASE e.type = "assistant.message"
    <3>1. ContextApply(c, e) = [c EXCEPT !.final = TRUE]
            \/ ContextApply(c, e) = [c EXCEPT !.content = TRUE]
      BY <2>2 DEF ContextApply, Terminal
    <3> QED
      BY <3>1, ZenonT(60) DEF Contexts
  <2>3. CASE e.type = "completion.evidence.rejected"
    <3>1. ContextApply(c, e) = [c EXCEPT !.evidence = TRUE]
      BY <2>3 DEF ContextApply, Terminal
    <3> QED
      BY <3>1 DEF Contexts
  <2>4. CASE e.type = "write.dependency.rejected"
    <3>1. ContextApply(c, e) = [c EXCEPT !.dependency = TRUE]
      BY <2>4 DEF ContextApply, Terminal
    <3> QED
      BY <3>1 DEF Contexts
  <2>5. CASE e.type = "plan.proposed"
    <3>1. ContextApply(c, e) = [c EXCEPT !.planned = TRUE, !.committed = TRUE,
                                      !.phase = "awaiting"]
      BY <2>5 DEF ContextApply, Terminal
    <3> QED
      BY <3>1, ZenonT(60) DEF Contexts, Phases
  <2> QED
    BY <1>3, <2>1, <2>2, <2>3, <2>4, <2>5
<1>4. CASE e.type = "model.requested"
  <2>1. ContextApply(c, e) =
          [FreshRound(c) EXCEPT !.requests = e.n, !.pending = TRUE]
    BY <1>4 DEF ContextApply, Terminal
  <2>2. FreshRound(c) \in Contexts
    BY FreshRoundType
  <2>3. [FreshRound(c) EXCEPT !.requests = e.n, !.pending = TRUE] \in Contexts
    BY <1>1, <2>2 DEF Contexts
  <2> QED
    BY <2>1, <2>3
<1>5. CASE e.type \in {"model.completed", "model.output.rejected"}
  <2>1. CASE e.type = "model.completed"
    <3> DEFINE finish == IF e.tag = "stop" THEN "stop" ELSE "tool_calls"
    <3>1. ContextApply(c, e) = [c EXCEPT !.pending = FALSE, !.finish = finish]
      BY <2>1 DEF ContextApply, Terminal
    <3>2. finish \in {"none", "stop", "tool_calls"}
      OBVIOUS
    <3> HIDE DEF finish
    <3> QED
      BY <3>1, <3>2 DEF Contexts
  <2>2. CASE e.type = "model.output.rejected"
    <3>1. ContextApply(c, e) = [c EXCEPT !.rejected = "retry"]
            \/ ContextApply(c, e) = [c EXCEPT !.rejected = "suppressed"]
      BY <2>2 DEF ContextApply, Terminal
    <3> QED
      BY <3>1 DEF Contexts
  <2> QED
    BY <1>5, <2>1, <2>2
<1>6. CASE e.type = "plan.approval.resolved"
  <2>1. ContextApply(c, e) = ContextResolvePlan(c, e.tag)
    BY <1>6 DEF ContextApply, Terminal
  <2>2. CASE e.tag = "approved"
    <3>1. ContextResolvePlan(c, e.tag) =
            [FreshRound(c) EXCEPT !.decided = TRUE, !.phase = "executing"]
      BY <2>2 DEF ContextResolvePlan
    <3>2. FreshRound(c) \in Contexts
      BY FreshRoundType
    <3>3. [FreshRound(c) EXCEPT !.decided = TRUE, !.phase = "executing"] \in Contexts
      BY <3>2 DEF Contexts, Phases
    <3> QED
      BY <2>1, <3>1, <3>3
  <2>3. CASE e.tag # "approved"
    <3>1. ContextResolvePlan(c, e.tag) = [c EXCEPT !.decided = TRUE]
      BY <2>3 DEF ContextResolvePlan
    <3>2. [c EXCEPT !.decided = TRUE] \in Contexts
      BY DEF Contexts
    <3> QED
      BY <2>1, <3>1, <3>2
  <2> QED
    BY <2>2, <2>3
<1>7. CASE e.type = "tool.requested"
  <2>1. ContextApply(c, e) = [c EXCEPT !.calls = e.n]
    BY <1>7 DEF ContextApply, Terminal
  <2> QED
    BY <1>1, <2>1 DEF Contexts
<1>8. CASE e.type \in {"approval.required", "approval.resolved", "tool.result"}
  <2>1. /\ c.asked \cup {e.n} \in SUBSET Nat
        /\ c.answered \cup {e.n} \in SUBSET Nat
        /\ c.results \cup {e.n} \in SUBSET Nat
    BY <1>1 DEF Contexts
  <2>2. CASE e.type = "approval.required"
    <3>1. ContextApply(c, e) = [c EXCEPT !.asked = @ \cup {e.n}]
      BY <2>2 DEF ContextApply, Terminal
    <3> QED
      BY <3>1, <2>1 DEF Contexts
  <2>3. CASE e.type = "approval.resolved"
    <3>1. ContextApply(c, e) = [c EXCEPT !.answered = @ \cup {e.n}]
      BY <2>3 DEF ContextApply, Terminal
    <3> QED
      BY <3>1, <2>1 DEF Contexts
  <2>4. CASE e.type = "tool.result"
    <3>1. ContextApply(c, e) = [c EXCEPT !.results = @ \cup {e.n}]
      BY <2>4 DEF ContextApply, Terminal
    <3> QED
      BY <3>1, <2>1 DEF Contexts
  <2> QED
    BY <1>8, <2>2, <2>3, <2>4
<1>9. CASE e.type \in Terminal
  <2> DEFINE goalless == c.goalless \/ ~c.goal
  <2>1. goalless \in BOOLEAN
    BY DEF Contexts
  <2>2. ContextApply(c, e) = [EmptyContext EXCEPT !.goalless = goalless]
    BY <1>9 DEF ContextApply, ContextEndRun, Terminal
  <2> HIDE DEF goalless
  <2> QED
    BY <2>1, <2>2, EmptyContextType DEF Contexts
<1>10. CASE e.type \in {"context.compacted", "validation.repair.warning",
                        "tool.started"}
  BY <1>10 DEF ContextApply, Terminal
<1> QED
  BY <1>1, <1>2, <1>3, <1>4, <1>5, <1>6, <1>7, <1>8, <1>9, <1>10
  DEF EventTypes, Ordinary

\* Whatever event comes next, the context provider keeps a state of its own.
THEOREM ProjectContextType ==
  ASSUME NEW c \in Contexts, NEW e \in Events
  PROVE  ProjectContext(c, e) \in Contexts
  BY ContextApplyType, EmptyContextType DEF ProjectContext

-----------------------------------------------------------------------------
(* The runtime.                                                            *)

\* The file's part of TypeOK.
DurableOK ==
    /\ disk \in Histories /\ ctx \in Contexts
    /\ log \in [Runs -> {"absent", "open", "interrupted"} \cup Ends]
    /\ last \in (Runs \cup {NoRun}) \X {"started", "ordinary", "terminal"}
    /\ synced \in BOOLEAN

-----------------------------------------------------------------------------
(* Types.                                                                  *)

\* An event of the run is an event.
LEMMA EventType ==
  ASSUME NEW type \in EventTypes, NEW run \in Runs, NEW n \in Nat,
         NEW tag \in Tags,
         type = "tool.requested" => tag \in Kinds,
         type = "tool.result" => tag \in Codes
  PROVE  Event(type, run, n, tag) \in Events
  BY DEF Event, Events

\* Writing an event leaves the file's part of the state well-typed.
LEMMA WriteType ==
  ASSUME DurableOK, NEW e \in Events, Write(e)
  PROVE  /\ disk' \in Histories /\ ctx' \in Contexts
         /\ log' \in [Runs -> {"absent", "open", "interrupted"} \cup Ends]
         /\ last' \in (Runs \cup {NoRun}) \X {"started", "ordinary", "terminal"}
<1>1. e.run \in Runs /\ e.type \in EventTypes
  BY DEF Events
<1>2. disk' \in Histories /\ ctx' \in Contexts
  BY ProjectType, ProjectContextType DEF DurableOK, Write
<1> DEFINE end == CASE e.type = "run.started" -> "open"
                    [] e.type \in Terminal -> EndOf[e.type]
                    [] OTHER -> log[e.run]
<1>3. end \in {"absent", "open", "interrupted"} \cup Ends
  BY <1>1 DEF DurableOK, EndOf, Terminal, Ends
<1>4. log' = [log EXCEPT ![e.run] = end]
  BY DEF Write
<1>5. log' \in [Runs -> {"absent", "open", "interrupted"} \cup Ends]
  <2> HIDE DEF end
  <2> QED
    BY <1>1, <1>3, <1>4 DEF DurableOK
<1>6. last' = <<e.run, Written(e.type)>>
  BY DEF Write
<1>7. Written(e.type) \in {"started", "ordinary", "terminal"}
  BY DEF Written
<1> QED
  BY <1>1, <1>2, <1>5, <1>6, <1>7

\* However an append goes, the file's part stays well-typed.
LEMMA AppendsType ==
  ASSUME DurableOK, NEW e \in Events, NEW result, Appends(e, result)
  PROVE  DurableOK'
<1>1. CASE Write(e) /\ synced' = (synced /\ Accepts(disk, e))
  <2>1. synced' \in BOOLEAN
    BY <1>1
  <2> QED
    BY <1>1, <2>1, WriteType DEF DurableOK
<1>2. CASE UNCHANGED durable
  BY <1>2 DEF DurableOK, durable
<1>3. CASE Write(e) /\ synced' = FALSE
  BY <1>3, WriteType DEF DurableOK
<1> QED
  BY <1>1, <1>2, <1>3 DEF Appends

\* A step that appends.
LEMMA SendType ==
  ASSUME DurableOK, NEW e \in Events, NEW l \in Labels, Send(e, l)
  PROVE  /\ DurableOK' /\ io' \in Results /\ pc' = l
         /\ dec' = dec /\ crashes' = crashes
  BY AppendsType DEF Send, Outcomes, Results, others

\* A step that does not.
LEMMA GotoType ==
  ASSUME DurableOK, NEW l, Goto(l)
  PROVE  /\ DurableOK' /\ io' = io /\ pc' = l
         /\ dec' = dec /\ crashes' = crashes
  BY DEF Goto, DurableOK, durable, others

\* TypeOK once the parts of a step of the run are known.
LEMMA StepType ==
  ASSUME TypeOK, DurableOK', pc' \in Labels, io' \in Results,
         active' \in Actives, turn' \in Turns, facts' \in Facts,
         dec' = dec, crashes' = crashes
  PROVE  TypeOK'
  BY DEF TypeOK, DurableOK

LEMMA DurableType == TypeOK => DurableOK
  BY DEF TypeOK, DurableOK

LEMMA RunEventType ==
  ASSUME active.run \in Runs, NEW type \in EventTypes, NEW n \in Nat,
         NEW tag \in Tags,
         type = "tool.requested" => tag \in Kinds,
         type = "tool.result" => tag \in Codes
  PROVE  RunEvent(type, n, tag) \in Events
  BY EventType DEF RunEvent

LEMMA RecordType ==
  ASSUME TypeOK, active.run \in Runs, NEW type \in EventTypes, NEW n \in Nat,
         NEW tag \in Tags, NEW l \in Labels,
         type = "tool.requested" => tag \in Kinds,
         type = "tool.result" => tag \in Codes,
         Record(type, n, tag, l)
  PROVE  TypeOK'
<1>1. RunEvent(type, n, tag) \in Events
  BY RunEventType
<1>2. Send(RunEvent(type, n, tag), l) /\ UNCHANGED <<active, turn, facts>>
  BY DEF Record
<1>3. /\ DurableOK' /\ io' \in Results /\ pc' = l
      /\ dec' = dec /\ crashes' = crashes
  BY <1>1, <1>2, SendType, DurableType
<1> QED
  BY <1>2, <1>3, StepType DEF TypeOK

LEMMA ContinueType ==
  ASSUME TypeOK, NEW l \in Labels, Continue(l)
  PROVE  TypeOK'
<1>1. Goto(l) /\ UNCHANGED <<active, turn, facts>>
  BY DEF Continue
<1>2. /\ DurableOK' /\ io' = io /\ pc' = l
      /\ dec' = dec /\ crashes' = crashes
  BY <1>1, GotoType, DurableType
<1> QED
  BY <1>1, <1>2, StepType DEF TypeOK

LEMMA FinishAsType ==
  ASSUME TypeOK, active.run \in Runs, NEW how \in Terminal, FinishAs(how)
  PROVE  TypeOK'
<1>1. RunEvent(how, turn.requests, "") \in Events
  <2>1. turn.requests \in Nat
    BY DEF TypeOK, Turns
  <2>2. how \in EventTypes /\ how # "tool.requested" /\ how # "tool.result"
    BY DEF EventTypes, Terminal
  <2> QED
    BY <2>1, <2>2, RunEventType DEF Tags
<1>2. Send(RunEvent(how, turn.requests, ""), "finishing")
  BY DEF FinishAs
<1>3. /\ DurableOK' /\ io' \in Results /\ pc' = "finishing"
      /\ dec' = dec /\ crashes' = crashes
  BY <1>1, <1>2, SendType, DurableType DEF Labels
<1>4. active' \in Actives
  <2> DEFINE plan == IF pc = "proposing" THEN "none" ELSE active.plan
  <2>1. plan \in {"none", "open"}
    BY DEF TypeOK, Actives
  <2>2. active' = [active EXCEPT !.ending = TRUE, !.plan = plan]
    BY DEF FinishAs, TypeOK, Actives
  <2> HIDE DEF plan
  <2> QED
    BY <2>1, <2>2 DEF TypeOK, Actives
<1>5. UNCHANGED <<turn, facts>>
  BY DEF FinishAs
<1> QED
  BY <1>3, <1>4, <1>5, StepType DEF TypeOK, Labels

LEMMA FinishFromErrorType ==
  ASSUME TypeOK, active.run \in Runs, FinishFromError
  PROVE  TypeOK'
  BY FinishAsType DEF FinishFromError, Terminal

LEMMA InitialType ==
  /\ NoActive \in Actives /\ NoTurn \in Turns /\ NoFacts \in Facts
  /\ NoDecision \in Decisions
<1>1. << >> \in Seq(Kinds)
  OBVIOUS
<1> QED
  BY <1>1 DEF NoActive, Actives, NoTurn, Turns, NoFacts, Facts, NoDecision,
              Decisions, Phases, Waits, Results, NoSignature, Signatures

LEMMA ForgetType ==
  ASSUME TypeOK, Forget
  PROVE  /\ DurableOK' /\ pc' = "idle" /\ io' = "none"
         /\ active' = NoActive /\ turn' = NoTurn /\ facts' = NoFacts
         /\ log' = log /\ last' = last
  BY DEF TypeOK, DurableOK, Forget

LEMMA LeaveType ==
  ASSUME TypeOK, Leave
  PROVE  TypeOK'
<1>1. Forget /\ dec' = dec /\ crashes' = crashes
  BY DEF Leave, others
<1> QED
  BY <1>1, ForgetType, InitialType, StepType DEF Labels, Results

\* Appends that wait are rejected, those that do not are left alone.
LEMMA AbortedByType ==
  ASSUME NEW a \in Actives, NEW source \in {"user", "external", "timeout", "sink"}
  PROVE  /\ AbortedBy(a, source) \in Actives
         /\ AbortedBy(a, source).run = a.run
         /\ AbortedBy(a, source).ending = a.ending
         /\ AbortedBy(a, source).ask = a.ask
         /\ AbortedBy(a, source).plan = a.plan
<1> DEFINE wait == IF a.wait = "pending" THEN "aborted" ELSE a.wait
<1>1. wait \in Waits
  BY DEF Actives, Waits
<1>2. CASE a.abort = "none" /\ ~a.ending
  <2>1. AbortedBy(a, source) = [a EXCEPT !.abort = source, !.wait = wait]
    BY <1>2 DEF AbortedBy, Actives
  <2> HIDE DEF wait
  <2> QED
    BY <1>1, <2>1 DEF Actives
<1>3. CASE ~(a.abort = "none" /\ ~a.ending)
  BY <1>3 DEF AbortedBy
<1> QED
  BY <1>2, <1>3

LEMMA SinkThrowsType ==
  ASSUME NEW a \in Actives
  PROVE  /\ SinkThrows(a) \in Actives
         /\ SinkThrows(a).run = a.run
         /\ SinkThrows(a).ending = a.ending
         /\ SinkThrows(a).ask = a.ask
         /\ SinkThrows(a).plan = a.plan
<1> DEFINE off == [a EXCEPT !.sink = "off"]
<1>1. /\ off \in Actives /\ off.run = a.run /\ off.ending = a.ending
      /\ off.ask = a.ask /\ off.plan = a.plan
  BY DEF Actives
<1>2. SinkThrows(a) = AbortedBy(off, "sink")
  BY DEF SinkThrows
<1> HIDE DEF off
<1> QED
  BY <1>1, <1>2, AbortedByType

LEMMA Owned ==
  ASSUME TypeOK, Ownership, pc # "idle" \/ io # "none"
  PROVE  pc # "idle" /\ active.run \in Runs /\ active.run # NoRun
  BY DEF TypeOK, Ownership, Actives

\* The steps that take the result of an append.
LEMMA AppendReturnsType ==
  ASSUME TypeOK, Ownership, AppendReturns
  PROVE  TypeOK'
<1>1. CASE Deliver
  <2>1. UNCHANGED <<durable, pc, turn, facts, others>> /\ io' = "none"
    BY <1>1 DEF Deliver
  <2>2. active' = active \/ active' = SinkThrows(active)
    BY <1>1 DEF Deliver
  <2>3. active' \in Actives
    BY <2>2, SinkThrowsType DEF TypeOK
  <2> QED
    BY <2>1, <2>3 DEF TypeOK, durable, others, Results
<1>2. CASE StoreError
  BY <1>2, LeaveType DEF StoreError
<1>3. CASE HistoryError
  BY <1>3, LeaveType, FinishFromErrorType, Owned DEF HistoryError
<1> QED
  BY <1>1, <1>2, <1>3 DEF AppendReturns

\* What the model may ask for is a sequence of calls.
LEMMA BatchesType ==
  /\ << >> \in Seq(Kinds)
  /\ \A batch \in Batches : batch \in Seq(Kinds)
<1>1. SUFFICES ASSUME NEW batch \in Batches PROVE batch \in Seq(Kinds)
  OBVIOUS
<1>2. PICK n \in 0..MaxBatch : batch \in [1..n -> Offers]
  BY DEF Batches
<1>3. n \in Nat /\ batch \in [1..n -> Kinds]
  BY <1>2, ConstantsAssumption
<1> QED
  BY <1>3

\* The steps up to the answer of the model.
LEMMA ModelStepType ==
  ASSUME TypeOK, Ownership, ModelStep
  PROVE  TypeOK'
<1>1. /\ turn.requests \in Nat /\ turn.requests + 1 \in Nat
      /\ active \in Actives /\ turn \in Turns /\ facts \in Facts
      /\ io \in Results /\ pc \in Labels
  BY DEF TypeOK, Turns
<1>2. CASE Goal
  <2>1. active.run \in Runs
    BY <1>2, Owned DEF Goal, At
  <2>2. FinishFromError \/ Record("user.message", 0, "", "loop")
    BY <1>2 DEF Goal
  <2> QED
    BY <2>1, <2>2, FinishFromErrorType, RecordType
    DEF EventTypes, Ordinary, Tags, Labels
<1>3. CASE Loop
  <2>1. active.run \in Runs
    BY <1>3, Owned DEF Loop, At
  <2>2. FinishFromError \/ Continue("context")
    BY <1>3 DEF Loop
  <2> QED
    BY <2>1, <2>2, FinishFromErrorType, ContinueType DEF Labels
<1>4. RequestTheModel /\ active.run \in Runs => TypeOK'
  BY <1>1, RecordType DEF RequestTheModel, EventTypes, Ordinary, Tags, Labels
<1>5. CASE ContextBuilt
  <2>1. active.run \in Runs
    BY <1>5, Owned DEF ContextBuilt, At
  <2>2. RequestTheModel \/ Record("context.compacted", 0, "", "compacted")
    BY <1>5 DEF ContextBuilt
  <2> QED
    BY <1>4, <2>1, <2>2, RecordType DEF EventTypes, Ordinary, Tags, Labels
<1>6. CASE ContextFailed \/ ModelFailed
  BY <1>6, FinishFromErrorType, Owned DEF ContextFailed, ModelFailed, At
<1>7. CASE Compacted
  BY <1>4, <1>7, FinishFromErrorType, Owned DEF Compacted, At
<1>8. CASE Requested
  <2>1. Goto("model") /\ active' = active /\ facts' = facts
    BY <1>8 DEF Requested
  <2>2. turn' \in Turns
    BY <1>1, <1>8 DEF Requested, Turns
  <2> QED
    BY <1>1, <2>1, <2>2, GotoType, DurableType, StepType DEF Labels
<1>9. CASE ModelAnswers
  <2>1. PICK finish \in {"stop", "tool_calls"}, text \in Texts :
          \E batch \in IF finish = "stop" THEN {<< >>} ELSE Batches :
             /\ turn' = [turn EXCEPT !.finish = finish, !.text = text,
                                     !.batch = batch]
             /\ Send(RunEvent("model.completed", turn.requests, finish),
                     "completed")
    BY <1>9 DEF ModelAnswers
  <2>2. PICK batch \in IF finish = "stop" THEN {<< >>} ELSE Batches :
             /\ turn' = [turn EXCEPT !.finish = finish, !.text = text,
                                     !.batch = batch]
             /\ Send(RunEvent("model.completed", turn.requests, finish),
                     "completed")
    BY <2>1
  <2>3. batch \in Seq(Kinds)
    BY BatchesType
  <2>4. text \in {"chinese", "foreign", "empty"}
    BY ConstantsAssumption
  <2>5. turn' \in Turns
    BY <1>1, <2>2, <2>3, <2>4 DEF Turns
  <2>6. active.run \in Runs
    BY <1>9, Owned DEF ModelAnswers, At
  <2>7. RunEvent("model.completed", turn.requests, finish) \in Events
    BY <1>1, <2>6, RunEventType DEF EventTypes, Ordinary, Tags
  <2>8. UNCHANGED <<active, facts>>
    BY <1>9 DEF ModelAnswers
  <2> QED
    BY <1>1, <2>2, <2>5, <2>7, <2>8, SendType, DurableType, StepType DEF Labels
<1>10. CASE LiveDeltaLost
  <2>1. /\ active' = SinkThrows(active)
        /\ UNCHANGED <<durable, pc, io, turn, facts, others>>
    BY <1>10 DEF LiveDeltaLost
  <2>2. active' \in Actives
    BY <1>1, <2>1, SinkThrowsType
  <2> QED
    BY <2>1, <2>2 DEF TypeOK, durable, others
<1> QED
  BY <1>2, <1>3, <1>5, <1>6, <1>7, <1>8, <1>9, <1>10 DEF ModelStep

\* The steps of a stop.
LEMMA StopStepType ==
  ASSUME TypeOK, Ownership, StopStep
  PROVE  TypeOK'
<1>1. /\ turn.requests \in Nat
      /\ active \in Actives /\ turn \in Turns /\ facts \in Facts
      /\ io \in Results /\ pc \in Labels
  BY DEF TypeOK, Turns
<1>2. pc # "idle" /\ active.run \in Runs
  BY Owned DEF StopStep, StopRejected, Restate, ProposePlan, PlanProposed,
     PlanAnswered, StopWithMissingParent, StopUnverified, StopWithoutService,
     StopAccepted, Answer, Complete, StopForGood, FinalStop, Stopped, At
<1>3. Restated \in Facts
  BY <1>1 DEF Restated, Facts
<1>4. CASE StopRejected
  <2>1. /\ Send(RunEvent("model.output.rejected", turn.requests, "retry"),
                "restate")
        /\ UNCHANGED <<active, turn>>
        /\ facts' = [facts EXCEPT !.restatements = @ + 1]
    BY <1>4 DEF StopRejected
  <2>2. RunEvent("model.output.rejected", turn.requests, "retry") \in Events
    BY <1>1, <1>2, RunEventType DEF EventTypes, Ordinary, Tags
  <2>3. facts' \in Facts
    BY <1>1, <2>1 DEF Facts
  <2> QED
    BY <1>1, <2>1, <2>2, <2>3, SendType, DurableType, StepType DEF Labels
<1>5. CASE Restate
  BY <1>2, <1>5, FinishFromErrorType, ContinueType DEF Restate, Labels
<1>6. CASE ProposePlan
  <2>1. CASE FinishFromError
    BY <1>2, <2>1, FinishFromErrorType
  <2>2. CASE /\ active' = [active EXCEPT !.plan = "open", !.wait = "pending"]
             /\ facts' = Restated
             /\ Send(RunEvent("plan.proposed", 0, ""), "proposing")
             /\ UNCHANGED turn
    <3>1. RunEvent("plan.proposed", 0, "") \in Events
      BY <1>2, RunEventType DEF EventTypes, Ordinary, Tags
    <3>2. active' \in Actives
      BY <1>1, <2>2 DEF Actives, Waits
    <3> QED
      BY <1>1, <1>3, <2>2, <3>1, <3>2, SendType, DurableType, StepType
      DEF Labels
  <2> QED
    BY <1>6, <2>1, <2>2 DEF ProposePlan
<1>7. CASE PlanProposed
  <2> DEFINE wait == IF Aborted /\ active.wait = "pending" THEN "aborted"
                                                           ELSE active.wait
  <2>1. /\ active' = [active EXCEPT !.phase = "awaiting", !.wait = wait]
        /\ Goto("plan_wait") /\ UNCHANGED <<turn, facts>>
    BY <1>1, <1>7 DEF PlanProposed, Actives
  <2>2. wait \in Waits
    BY <1>1 DEF Actives, Waits
  <2>3. active' \in Actives
    <3> HIDE DEF wait
    <3> QED
      BY <1>1, <2>1, <2>2 DEF Actives, Phases
  <2> QED
    BY <1>1, <2>1, <2>3, GotoType, DurableType, StepType DEF Labels
<1>8. CASE PlanAnswered
  <2>1. CASE /\ active' = [active EXCEPT !.wait = "none"]
             /\ Goto("loop") /\ UNCHANGED <<turn, facts>>
    <3>1. active' \in Actives
      BY <1>1, <2>1 DEF Actives, Waits
    <3> QED
      BY <1>1, <2>1, <3>1, GotoType, DurableType, StepType DEF Labels
  <2>2. CASE FinishAs("run.cancelled")
    BY <1>2, <2>2, FinishAsType DEF Terminal
  <2>3. CASE FinishFromError
    BY <1>2, <2>3, FinishFromErrorType
  <2> QED
    BY <1>8, <2>1, <2>2, <2>3 DEF PlanAnswered
<1>9. ASSUME NEW type \in {"write.dependency.rejected",
                           "completion.evidence.rejected"},
             Send(RunEvent(type, turn.requests, ""), "loop"),
             facts' \in Facts, UNCHANGED <<active, turn>>
      PROVE  TypeOK'
  <2>1. RunEvent(type, turn.requests, "") \in Events
    BY <1>1, <1>2, <1>9, RunEventType DEF EventTypes, Ordinary, Tags
  <2> QED
    BY <1>1, <1>9, <2>1, SendType, DurableType, StepType DEF Labels
<1>10. CASE StopWithMissingParent
  <2>1. CASE FinishFromError
    BY <1>2, <2>1, FinishFromErrorType
  <2>2. CASE ~FinishFromError
    <3>1. /\ facts' = [Restated EXCEPT !.stops = @ + 1]
          /\ Send(RunEvent("write.dependency.rejected", turn.requests, ""),
                  "loop")
          /\ UNCHANGED <<active, turn>>
      BY <1>10, <2>2 DEF StopWithMissingParent
    <3>2. \A f \in Facts : [f EXCEPT !.stops = @ + 1] \in Facts
      BY DEF Facts
    <3>3. facts' \in Facts
      BY <1>3, <3>1, <3>2
    <3> QED
      BY <1>9, <3>1, <3>3
  <2> QED
    BY <2>1, <2>2
<1>11. CASE StopUnverified
  <2>1. /\ facts' = [Restated EXCEPT !.corrected = TRUE]
        /\ Send(RunEvent("completion.evidence.rejected", turn.requests, ""),
                "loop")
        /\ UNCHANGED <<active, turn>>
    BY <1>11 DEF StopUnverified
  <2>2. facts' \in Facts
    BY <1>3, <2>1 DEF Facts
  <2> QED
    BY <1>9, <2>1, <2>2
<1>12. CASE StopWithoutService
  <2>1. /\ facts' = [Restated EXCEPT !.handed = TRUE]
        /\ Goto("loop") /\ UNCHANGED <<active, turn>>
    BY <1>12 DEF StopWithoutService
  <2>2. facts' \in Facts
    BY <1>3, <2>1 DEF Facts
  <2> QED
    BY <1>1, <2>1, <2>2, GotoType, DurableType, StepType DEF Labels
<1>13. CASE StopAccepted
  <2>1. \/ FinishFromError
        \/ Goto("answer") /\ facts' = Restated /\ UNCHANGED <<active, turn>>
    BY <1>13 DEF StopAccepted
  <2> QED
    BY <1>1, <1>2, <1>3, <2>1, FinishFromErrorType, GotoType, DurableType,
       StepType DEF Labels
<1>14. CASE Answer
  <2>1. FinishFromError \/ Record("assistant.message", 0, "final", "final")
    BY <1>14 DEF Answer
  <2> QED
    BY <1>2, <2>1, FinishFromErrorType, RecordType
    DEF EventTypes, Ordinary, Tags, Labels
<1>15. CASE Complete
  BY <1>2, <1>15, FinishFromErrorType, FinishAsType DEF Complete, Terminal
<1> QED
  BY <1>4, <1>5, <1>6, <1>7, <1>8, <1>10, <1>11, <1>12, <1>13, <1>14, <1>15
  DEF StopStep

\* The call the run works on.
LEMMA KindType ==
  ASSUME TypeOK, CallInBatch,
         pc \in {"dispatch", "asking", "approval_wait", "granted", "tool",
                 "recording", "settle", "hopeless"}
  PROVE  Kind \in Kinds /\ turn.at \in 1..Len(turn.batch)
<1>1. turn.batch \in Seq(Kinds) /\ turn.at \in DOMAIN turn.batch
  BY DEF TypeOK, Turns, CallInBatch
<1> QED
  BY <1>1 DEF Kind

\* Recording the result of the current call.
LEMMA ResultType ==
  ASSUME TypeOK, active.run \in Runs, NEW code \in Codes, NEW invoked \in BOOLEAN,
         Result(code, invoked), active' \in Actives, facts' \in Facts
  PROVE  TypeOK'
<1>1. /\ turn' = [turn EXCEPT !.code = code, !.invoked = invoked]
      /\ Send(RunEvent("tool.result", turn.at, code), "recording")
  BY DEF Result
<1>2. RunEvent("tool.result", turn.at, code) \in Events
  <2>1. turn.at \in Nat
    BY DEF TypeOK, Turns
  <2> QED
    BY <2>1, RunEventType DEF EventTypes, Ordinary, Tags
<1>3. turn' \in Turns
  BY <1>1 DEF TypeOK, Turns
<1> QED
  BY <1>1, <1>2, <1>3, SendType, DurableType, StepType DEF Labels

\* The policies beside the runtime.
LEMMA FactsAfterType ==
  ASSUME facts \in Facts, NEW kind, NEW code
  PROVE  FactsAfter(kind, code) \subseteq Facts
<1>1. CASE kind = "service"
  BY <1>1 DEF FactsAfter, Facts
<1>2. CASE kind = "write"
  BY <1>2, ZenonT(60) DEF FactsAfter, Facts
<1>3. CASE kind = "check"
  <2>1. [facts EXCEPT !.checkFailures = 0] \in Facts
    BY DEF Facts
  <2>2. \A rest \in BOOLEAN : [facts EXCEPT !.checkFailures = 0,
            !.corrected = FALSE, !.unverified = rest] \in Facts
    BY DEF Facts
  <2>3. [facts EXCEPT !.checkFailures = @ + 1] \in Facts
    BY DEF Facts
  <2> QED
    BY <1>3, <2>1, <2>2, <2>3 DEF FactsAfter
<1>4. CASE kind \notin {"service", "write", "check"}
  BY <1>4 DEF FactsAfter
<1> QED
  BY <1>1, <1>2, <1>3, <1>4

\* A batch up to its last tool.requested.
LEMMA CollectStepType ==
  ASSUME TypeOK, Ownership,
         CallsInsteadOfText \/ NarrativeSuppressed \/ TakeBatch \/ Narrate
           \/ Collect \/ CallsRepeatIdentifier \/ Collected
  PROVE  TypeOK'
<1>1. /\ turn.requests \in Nat /\ turn.at \in Nat /\ turn.calls \in Nat
      /\ turn.batch \in Seq(Kinds)
      /\ active \in Actives /\ turn \in Turns /\ facts \in Facts
      /\ io \in Results /\ pc \in Labels
  BY DEF TypeOK, Turns
<1>2. active.run \in Runs
  BY Owned DEF CallsInsteadOfText, NarrativeSuppressed, TakeBatch, Narrate,
     Collect, CallsRepeatIdentifier, Collected, Called, At
<1>3. CASE CallsInsteadOfText \/ CallsRepeatIdentifier
  BY <1>2, <1>3, FinishFromErrorType DEF CallsInsteadOfText, CallsRepeatIdentifier
<1>4. CASE NarrativeSuppressed
  <2>1. /\ turn' = [turn EXCEPT !.text = "empty"]
        /\ Send(RunEvent("model.output.rejected", turn.requests, "suppressed"),
                "batch")
        /\ UNCHANGED <<active, facts>>
    BY <1>4 DEF NarrativeSuppressed
  <2>2. RunEvent("model.output.rejected", turn.requests, "suppressed") \in Events
    BY <1>1, <1>2, RunEventType DEF EventTypes, Ordinary, Tags
  <2>3. turn' \in Turns
    BY <1>1, <2>1 DEF Turns
  <2> QED
    BY <1>1, <2>1, <2>2, <2>3, SendType, DurableType, StepType DEF Labels
<1>5. CASE TakeBatch
  <2>1. CASE FinishFromError
    BY <1>2, <2>1, FinishFromErrorType
  <2>2. CASE ~FinishFromError
    <3>1. /\ turn' = [turn EXCEPT !.at = 0, !.blocked = facts.missing,
                                  !.failedCheck = FALSE]
          /\ Goto("narrate") \/ Goto("collect")
          /\ UNCHANGED <<active, facts>>
      BY <1>5, <2>2 DEF TakeBatch
    <3>2. facts.missing \in BOOLEAN
      BY <1>1 DEF Facts
    <3>3. turn' \in Turns
      BY <1>1, <3>1, <3>2 DEF Turns
    <3> QED
      BY <1>1, <3>1, <3>3, GotoType, DurableType, StepType DEF Labels
  <2> QED
    BY <2>1, <2>2
<1>6. CASE Narrate
  <2>1. FinishFromError
          \/ Record("assistant.message", 0, "intermediate", "collect")
    BY <1>6 DEF Narrate
  <2> QED
    BY <1>2, <2>1, FinishFromErrorType, RecordType
    DEF EventTypes, Ordinary, Tags, Labels
<1>7. CASE Collect
  <2>1. /\ turn.at < Len(turn.batch)
        /\ turn' = [turn EXCEPT !.at = @ + 1, !.calls = @ + 1]
        /\ Send(RunEvent("tool.requested", turn.at + 1,
                         turn.batch[turn.at + 1]), "collect")
        /\ UNCHANGED <<active, facts>>
    BY <1>7 DEF Collect
  <2>2. turn.batch[turn.at + 1] \in Kinds
    BY <1>1, <2>1
  <2>3. RunEvent("tool.requested", turn.at + 1, turn.batch[turn.at + 1])
          \in Events
    <3>1. turn.at + 1 \in Nat
      BY <1>1
    <3>2. ASSUME NEW n \in Nat, NEW kind \in Kinds
          PROVE  RunEvent("tool.requested", n, kind) \in Events
      BY <1>2, <3>2 DEF RunEvent, Event, Events, EventTypes, Ordinary, Tags
    <3> QED
      BY <2>2, <3>1, <3>2
  <2>4. turn' \in Turns
    <3>1. turn.at + 1 \in Nat /\ turn.calls + 1 \in Nat
      BY <1>1
    <3> QED
      BY <1>1, <2>1, <3>1 DEF Turns
  <2> QED
    BY <1>1, <2>1, <2>3, <2>4, SendType, DurableType, StepType DEF Labels
<1>8. CASE Collected
  <2>1. /\ turn' = [turn EXCEPT !.at = 1]
        /\ Goto("dispatch") /\ UNCHANGED <<active, facts>>
    BY <1>8 DEF Collected
  <2>2. turn' \in Turns
    BY <1>1, <2>1 DEF Turns
  <2> QED
    BY <1>1, <2>1, <2>2, GotoType, DurableType, StepType DEF Labels
<1> QED
  BY <1>3, <1>4, <1>5, <1>6, <1>7, <1>8

\* A call up to its execution.
LEMMA DispatchStepType ==
  ASSUME TypeOK, Ownership,
         DispatchAborted \/ DispatchDirect \/ DispatchSkipped
           \/ DispatchWithoutParent \/ Denied \/ Authorized
           \/ ApprovalRequired \/ Asking \/ ApprovalAnswered \/ ToolStarts
  PROVE  TypeOK'
<1>1. /\ turn.requests \in Nat /\ turn.at \in Nat /\ turn.calls \in Nat
      /\ active \in Actives /\ turn \in Turns /\ facts \in Facts
      /\ io \in Results /\ pc \in Labels
  BY DEF TypeOK, Turns
<1>2. active.run \in Runs
  BY Owned DEF DispatchAborted, DispatchDirect, DispatchSkipped,
     DispatchWithoutParent, Denied, Authorized, ApprovalRequired, Asking,
     ApprovalAnswered, ToolStarts, Runnable, Prepared, At
<1>3. CASE DispatchAborted
  BY <1>2, <1>3, FinishFromErrorType DEF DispatchAborted
<1>4. CASE DispatchDirect \/ DispatchSkipped \/ Denied
  <2>1. /\ \E code \in Codes, invoked \in BOOLEAN : Result(code, invoked)
        /\ UNCHANGED <<active, facts>>
    BY <1>4 DEF DispatchDirect, DispatchSkipped, Denied, Codes
  <2> QED
    BY <1>1, <1>2, <2>1, ResultType
<1>5. CASE DispatchWithoutParent
  <2>1. Result("parent_missing", TRUE) /\ active' = active
    BY <1>5 DEF DispatchWithoutParent
  <2>2. \/ facts' = facts
        \/ facts' = [facts EXCEPT !.missing = TRUE,
                                  !.baseRequests = turn.requests,
                                  !.baseCalls = turn.calls]
    BY <1>5 DEF DispatchWithoutParent
  <2>3. facts' \in Facts
    BY <1>1, <2>2 DEF Facts
  <2> QED
    BY <1>1, <1>2, <2>1, <2>3, ResultType DEF Codes
<1>6. CASE Authorized
  BY <1>6, ContinueType DEF Authorized, Labels
<1>7. CASE ApprovalRequired
  BY <1>1, <1>2, <1>7, RecordType
  DEF ApprovalRequired, EventTypes, Ordinary, Tags, Labels
<1>8. CASE Asking
  <2>1. CASE active.full
    <3>1. Record("approval.resolved", turn.at, "approved", "granted")
      BY <1>8, <2>1 DEF Asking
    <3> QED
      BY <1>1, <1>2, <3>1, RecordType DEF EventTypes, Ordinary, Tags, Labels
  <2>2. CASE ~active.full
    <3> DEFINE wait == IF Aborted THEN "aborted" ELSE "pending"
    <3>1. /\ active' = [active EXCEPT !.ask = "open", !.wait = wait]
          /\ Goto("approval_wait") /\ UNCHANGED <<turn, facts>>
      BY <1>8, <2>2 DEF Asking
    <3>2. wait \in Waits
      BY DEF Waits
    <3>3. active' \in Actives
      <4> HIDE DEF wait
      <4> QED
        BY <1>1, <3>1, <3>2 DEF Actives
    <3> QED
      BY <1>1, <3>1, <3>3, GotoType, DurableType, StepType DEF Labels
  <2> QED
    BY <2>1, <2>2
<1>9. CASE ApprovalAnswered
  <2>1. [active EXCEPT !.ask = "none", !.wait = "none"] \in Actives
    BY <1>1 DEF Actives, Waits
  <2>2. CASE active.wait = "approved"
    <3>1. /\ active' = [active EXCEPT !.ask = "none", !.wait = "none"]
          /\ Goto("granted") /\ UNCHANGED <<turn, facts>>
      BY <1>9, <2>2 DEF ApprovalAnswered
    <3> QED
      BY <1>1, <2>1, <3>1, GotoType, DurableType, StepType DEF Labels
  <2>3. CASE active.wait = "rejected"
    <3>1. /\ active' = [active EXCEPT !.ask = "none", !.wait = "none"]
          /\ Result("rejected", TRUE) /\ facts' = facts
      BY <1>9, <2>3 DEF ApprovalAnswered
    <3> QED
      BY <1>1, <1>2, <2>1, <3>1, ResultType DEF Codes
  <2>4. CASE active.wait \notin {"approved", "rejected"}
    <3>1. Leave \/ FinishFromError
      BY <1>9, <2>4 DEF ApprovalAnswered
    <3> QED
      BY <1>2, <3>1, LeaveType, FinishFromErrorType
  <2> QED
    BY <2>2, <2>3, <2>4
<1>10. CASE ToolStarts
  <2>1. FinishFromError \/ Record("tool.started", turn.at, "", "tool")
    BY <1>10 DEF ToolStarts
  <2> QED
    BY <1>1, <1>2, <2>1, FinishFromErrorType, RecordType
    DEF EventTypes, Ordinary, Tags, Labels
<1> QED
  BY <1>3, <1>4, <1>5, <1>6, <1>7, <1>8, <1>9, <1>10

\* A call from its execution to the next call.
LEMMA SettleStepType ==
  ASSUME TypeOK, Ownership, CallInBatch,
         ToolReturns \/ ToolAborted \/ Recorded \/ GivenUp \/ Settle
  PROVE  TypeOK'
<1>1. /\ turn.at \in Nat /\ turn.batch \in Seq(Kinds) /\ facts.reads \in Nat
      /\ facts.sig \in Signatures /\ facts.errs \in Nat
      /\ turn.code \in Codes \cup {"none"} /\ turn.failedCheck \in BOOLEAN
      /\ turn.invoked \in BOOLEAN
      /\ active \in Actives /\ turn \in Turns /\ facts \in Facts
      /\ io \in Results /\ pc \in Labels
  BY DEF TypeOK, Turns, Facts
<1>2. active.run \in Runs /\ Kind \in Kinds
  BY Owned, KindType DEF ToolReturns, ToolAborted, Recorded, GivenUp, Settle, At
<1>3. CASE ToolReturns
  <2>1. PICK code \in {"ok", "error"} :
          facts' \in ParentsSeen(Kind, code) /\ Result(code, TRUE)
    BY <1>3 DEF ToolReturns
  <2>2. [facts EXCEPT !.missing = FALSE, !.stops = 0, !.baseRequests = 0,
                      !.baseCalls = 0] \in Facts
    BY <1>1 DEF Facts
  <2>3. facts' \in Facts
    BY <1>1, <2>1, <2>2 DEF ParentsSeen
  <2>4. active' = active
    BY <1>3 DEF ToolReturns
  <2> QED
    BY <1>1, <1>2, <2>1, <2>3, <2>4, ResultType DEF Codes
<1>4. CASE ToolAborted \/ GivenUp
  BY <1>2, <1>4, FinishFromErrorType DEF ToolAborted, GivenUp
<1>5. CASE Recorded
  <2>1. PICK after \in IF turn.invoked THEN FactsAfter(Kind, turn.code)
                                       ELSE {facts} :
          /\ facts' = after
          /\ \/ \E l \in {"settle", "hopeless"} :
                   Send(RunEvent("validation.repair.warning", 0, ""), l)
             \/ Goto("settle")
    BY <1>5 DEF Recorded
  <2>2. facts' \in Facts
    BY <1>1, <2>1, FactsAfterType
  <2>3. UNCHANGED <<active, turn>>
    BY <1>5 DEF Recorded
  <2>4. RunEvent("validation.repair.warning", 0, "") \in Events
    BY <1>2, RunEventType DEF EventTypes, Ordinary, Tags
  <2> QED
    BY <1>1, <2>1, <2>2, <2>3, <2>4, SendType, GotoType, DurableType, StepType
    DEF Labels
<1>6. ASSUME NextCall, active' = active, facts' \in Facts
      PROVE  TypeOK'
  <2> DEFINE at == IF turn.at < Len(turn.batch) THEN turn.at + 1 ELSE 0
             failed == turn.failedCheck \/ (Kind = "check" /\ turn.invoked
                                              /\ turn.code # "ok")
  <2>1. turn' = [turn EXCEPT !.at = at, !.failedCheck = failed,
                             !.code = "none", !.invoked = FALSE]
    BY <1>1, <1>6 DEF NextCall, Turns
  <2>2. at \in Nat /\ failed \in BOOLEAN
    BY <1>1
  <2>3. turn' \in Turns
    <3> HIDE DEF at, failed
    <3> QED
      BY <1>1, <2>1, <2>2 DEF Turns
  <2>4. Goto("dispatch") \/ Goto("loop")
    BY <1>6 DEF NextCall
  <2> QED
    BY <1>1, <1>6, <2>3, <2>4, GotoType, DurableType, StepType DEF Labels
<1>7. CASE Settle
  <2> DEFINE errors == Streak(facts.sig, facts.errs, Kind, turn.code)
  <2>1. CASE turn.code = "skipped"
    BY <1>1, <1>6, <1>7, <2>1 DEF Settle
  <2>2. CASE turn.code # "skipped"
    <3>1. PICK reads \in ReadStreaks :
            \/ FinishFromError
            \/ /\ facts' = [facts EXCEPT !.sig = errors.sig,
                                         !.errs = errors.errs,
                                         !.reads = reads]
               /\ NextCall /\ UNCHANGED active
      BY <1>7, <2>2 DEF Settle
    <3>2. errors.sig \in Signatures /\ errors.errs \in Nat
      BY <1>1, <1>2, StreakType
    <3>3. reads \in Nat
      BY <1>1, <3>1 DEF ReadStreaks
    <3>4. CASE FinishFromError
      BY <1>2, <3>4, FinishFromErrorType
    <3>5. CASE ~FinishFromError
      <4> HIDE DEF errors
      <4>1. facts' \in Facts
        BY <1>1, <3>1, <3>2, <3>3, <3>5 DEF Facts
      <4> QED
        BY <1>6, <3>1, <3>5, <4>1
    <3> QED
      BY <3>4, <3>5
  <2> QED
    BY <2>1, <2>2
<1> QED
  BY <1>3, <1>4, <1>5, <1>7

\* A caller settles the wait of the run.
LEMMA SettledType ==
  ASSUME NEW a \in Actives, NEW kind, NEW outcome \in Waits
  PROVE  /\ Settled(a, kind, outcome) \in Actives
         /\ Settled(a, kind, outcome).run = a.run
         /\ Settled(a, kind, outcome).ending = a.ending
         /\ Settled(a, kind, outcome).ask = a.ask
         /\ Settled(a, kind, outcome).plan = a.plan
<1> DEFINE wait == IF a.wait = "pending" /\ (kind = "plan" => pc = "plan_wait")
                   THEN outcome ELSE a.wait
<1>1. wait \in Waits
  BY DEF Actives
<1>2. Settled(a, kind, outcome) = [a EXCEPT !.wait = wait]
  BY DEF Settled, Actives
<1> HIDE DEF wait
<1> QED
  BY <1>1, <1>2 DEF Actives

\* ... and withdraws the request it answered.
LEMMA DecisionTakesEffectType ==
  ASSUME NEW a \in Actives, NEW decision \in Decisions
  PROVE  /\ DecisionTakesEffect(a, decision) \in Actives
         /\ DecisionTakesEffect(a, decision).run = a.run
         /\ DecisionTakesEffect(a, decision).ending = a.ending
         /\ DecisionTakesEffect(a, decision).ask \in {a.ask, "none"}
         /\ DecisionTakesEffect(a, decision).plan \in {a.plan, "none"}
<1>1. decision.yes \in BOOLEAN /\ AnswerTag(decision.yes) \in Waits
  BY DEF Decisions, AnswerTag, Waits
<1>2. CASE decision.kind = "approval"
  <2> DEFINE s == Settled(a, "approval", AnswerTag(decision.yes))
  <2>1. /\ s \in Actives /\ s.run = a.run /\ s.ending = a.ending
        /\ s.ask = a.ask /\ s.plan = a.plan
    BY <1>1, SettledType
  <2>2. DecisionTakesEffect(a, decision) = [s EXCEPT !.ask = "none"]
    BY <1>2 DEF DecisionTakesEffect
  <2> HIDE DEF s
  <2> QED
    BY <2>1, <2>2 DEF Actives
<1>3. CASE decision.kind # "approval"
  <2> DEFINE s == Settled(a, "plan", AnswerTag(decision.yes))
             phase == IF decision.yes THEN "executing" ELSE s.phase
  <2>1. /\ s \in Actives /\ s.run = a.run /\ s.ending = a.ending
        /\ s.ask = a.ask /\ s.plan = a.plan
    BY <1>1, SettledType
  <2>2. phase \in Phases
    BY <2>1 DEF Actives, Phases
  <2>3. DecisionTakesEffect(a, decision) =
          [s EXCEPT !.plan = "none", !.phase = phase]
    BY <1>3, <2>1 DEF DecisionTakesEffect, Actives
  <2> HIDE DEF s, phase
  <2> QED
    BY <2>1, <2>2, <2>3, ZenonT(60) DEF Actives
<1> QED
  BY <1>2, <1>3

LEMMA DecisionAppendedType ==
  ASSUME TypeOK, active.run \in Runs, NEW d \in Deciders,
         NEW kind \in {"approval", "plan"}, NEW yes \in BOOLEAN,
         NEW e \in Events, DecisionAppended(d, kind, yes, e)
  PROVE  DurableOK' /\ dec' \in [Deciders -> Decisions]
<1>1. PICK result \in Outcomes :
        /\ Appends(e, result)
        /\ dec' = [dec EXCEPT ![d] = [io |-> result, kind |-> kind,
                                      run |-> active.run, yes |-> yes]]
  BY DEF DecisionAppended
<1>2. [io |-> result, kind |-> kind, run |-> active.run, yes |-> yes]
        \in Decisions
  BY DEF Outcomes, Decisions
<1> QED
  BY <1>1, <1>2, AppendsType, DurableType DEF TypeOK

LEMMA DecisionStepType ==
  ASSUME TypeOK, DecisionStep
  PROVE  TypeOK'
<1>1. PICK d \in Deciders :
        \/ \E yes \in BOOLEAN : DecideApproval(d, yes) \/ DecidePlan(d, yes)
        \/ DecisionReturns(d)
        \/ DecisionFails(d)
  BY DEF DecisionStep
<1>2. /\ turn.at \in Nat /\ dec \in [Deciders -> Decisions]
      /\ dec[d] \in Decisions /\ active \in Actives
  BY DEF TypeOK, Turns
<1>3. ASSUME NEW yes \in BOOLEAN, DecideApproval(d, yes)
      PROVE  TypeOK'
  <2>1. active.run \in Runs
    BY <1>2, <1>3 DEF DecideApproval, Deciding, Actives
  <2>2. RunEvent("approval.resolved", turn.at, AnswerTag(yes)) \in Events
    BY <1>2, <2>1, RunEventType DEF AnswerTag, EventTypes, Ordinary, Tags, Codes
  <2>3. DurableOK' /\ dec' \in [Deciders -> Decisions]
    BY <1>3, <2>1, <2>2, DecisionAppendedType DEF DecideApproval
  <2>4. active' \in Actives
    BY <1>2, <1>3 DEF DecideApproval, Actives
  <2> QED
    BY <1>3, <2>3, <2>4 DEF DecideApproval, TypeOK, DurableOK
<1>4. ASSUME NEW yes \in BOOLEAN, DecidePlan(d, yes)
      PROVE  TypeOK'
  <2>1. active.run \in Runs
    BY <1>2, <1>4 DEF DecidePlan, Deciding, Actives
  <2>2. RunEvent("plan.approval.resolved", 0, AnswerTag(yes)) \in Events
    BY <2>1, RunEventType DEF AnswerTag, EventTypes, Ordinary, Tags, Codes
  <2>3. DurableOK' /\ dec' \in [Deciders -> Decisions]
    BY <1>4, <2>1, <2>2, DecisionAppendedType DEF DecidePlan
  <2> QED
    BY <1>4, <2>3 DEF DecidePlan, TypeOK, DurableOK
<1>5. CASE DecisionReturns(d)
  <2>1. active' \in Actives
    <3>1. \/ active' = active
          \/ \E heard \in {active, SinkThrows(active)} :
                active' = DecisionTakesEffect(heard, dec[d])
      BY <1>5 DEF DecisionReturns
    <3>2. SinkThrows(active) \in Actives
      BY <1>2, SinkThrowsType
    <3> QED
      BY <1>2, <3>1, <3>2, DecisionTakesEffectType
  <2>2. dec' \in [Deciders -> Decisions]
    BY <1>2, <1>5, InitialType DEF DecisionReturns
  <2> QED
    BY <1>5, <2>1, <2>2 DEF DecisionReturns, TypeOK, durable
<1>6. CASE DecisionFails(d)
  <2>1. dec[d].io \in Waits
    BY <1>6 DEF DecisionFails, Waits
  <2>2. [Settled(active, "approval", dec[d].io) EXCEPT !.ask = "none"] \in Actives
    <3>1. \A a \in Actives : [a EXCEPT !.ask = "none"] \in Actives
      BY DEF Actives
    <3> QED
      BY <1>2, <2>1, <3>1, SettledType
  <2>3. active' \in Actives
    BY <1>2, <1>6, <2>2 DEF DecisionFails
  <2>4. dec' \in [Deciders -> Decisions]
    BY <1>2, <1>6, InitialType DEF DecisionFails
  <2> QED
    BY <1>6, <2>3, <2>4 DEF DecisionFails, TypeOK, durable
<1> QED
  BY <1>1, <1>3, <1>4, <1>5, <1>6

LEMMA StartType ==
  ASSUME TypeOK, RunStarts
  PROVE  TypeOK'
<1>1. PICK r \in Runs, planning \in BOOLEAN, mode \in PermissionModes :
        StartRunOf(r, planning, mode = "full")
  BY ConstantsAssumption DEF RunStarts
<1> DEFINE full == mode = "full"
<1> DEFINE phase == IF planning THEN "planning" ELSE "normal"
<1>2. /\ active' = [NoActive EXCEPT !.run = r, !.full = full, !.sink = "open",
                                    !.phase = phase]
      /\ Send(Event("run.started", r, 0, phase), "starting")
      /\ UNCHANGED <<turn, facts>>
  BY <1>1 DEF StartRunOf
<1>3. phase \in Phases /\ phase \in Tags /\ full \in BOOLEAN
  BY DEF Phases, Tags
<1> HIDE DEF phase, full
<1>4. active' \in Actives
  BY <1>2, <1>3, InitialType DEF Actives
<1>5. Event("run.started", r, 0, phase) \in Events
  BY <1>3, EventType DEF EventTypes
<1> QED
  BY <1>2, <1>4, <1>5, SendType, DurableType, StepType DEF Labels, TypeOK

LEMMA RecoverType ==
  ASSUME TypeOK, Recover
  PROVE  TypeOK'
<1>1. /\ disk.run \in Runs
      /\ Write(Event("run.interrupted", disk.run, 0, ""))
      /\ UNCHANGED <<synced, pc, io, active, turn, facts, others>>
  BY DEF Recover, OpenRuns
<1>2. Event("run.interrupted", disk.run, 0, "") \in Events
  BY <1>1, EventType DEF EventTypes, Terminal, Tags
<1>3. DurableOK'
  BY <1>1, <1>2, WriteType, DurableType DEF DurableOK
<1> QED
  BY <1>1, <1>3 DEF TypeOK, DurableOK, others

LEMMA AbortType ==
  ASSUME TypeOK, AbortStep
  PROVE  TypeOK'
<1>1. PICK source \in AbortSources : Abort(source)
  BY DEF AbortStep
<1>2. source \in {"user", "external", "timeout", "sink"}
  BY ConstantsAssumption
<1>3. active' \in Actives
  BY <1>1, <1>2, AbortedByType DEF Abort, TypeOK
<1> QED
  BY <1>1, <1>3 DEF Abort, TypeOK, durable, others

LEMMA CrashType ==
  ASSUME TypeOK, Crash
  PROVE  TypeOK'
<1>1. /\ Forget /\ dec' = [d \in Deciders |-> NoDecision]
      /\ crashes < MaxCrashes /\ crashes' = crashes + 1
  BY DEF Crash
<1>2. dec' \in [Deciders -> Decisions]
  BY <1>1, InitialType
<1>3. crashes' \in 0..MaxCrashes
  BY <1>1, ConstantsAssumption DEF TypeOK
<1> QED
  BY <1>1, <1>2, <1>3, ForgetType, InitialType
  DEF TypeOK, DurableOK, Labels, Results

-----------------------------------------------------------------------------
(* The kinds of steps.                                                     *)

\* The handler moves on inside the run.
Works ==
    /\ pc \notin {"idle", "finishing"} /\ io = "none"
    /\ pc' \notin {"idle", "starting", "finishing"}
    /\ active'.run = active.run /\ active'.ending = active.ending
    /\ log' = log /\ last' \in {last, <<active.run, "ordinary">>}
    /\ pc' = "tool" => pc = "tool" \/ ~Aborted

\* The run writes its end, or fails to.
Finishes ==
    /\ pc \notin {"idle", "finishing"}
    /\ ~(pc = "starting" /\ io = "store_error")
    /\ pc' = "finishing"
    /\ active'.run = active.run /\ active'.ending = TRUE
    /\ \/ UNCHANGED <<log, last>>
       \/ \E how \in Ends :
             /\ how = "completed" => ~Aborted
             /\ log' = [log EXCEPT ![active.run] = how]
             /\ last' = <<active.run, "terminal">>

\* The run is cleaned up, or dies.
Leaves ==
    /\ pc' = "idle" /\ io' = "none" /\ active' = NoActive
    /\ UNCHANGED <<log, last>>

\* The result of an append arrives.
Delivers ==
    /\ io = "delivering" /\ io' = "none" /\ pc' = pc
    /\ active'.run = active.run /\ active'.ending = active.ending
    /\ active'.ask = active.ask /\ active'.plan = active.plan
    /\ UNCHANGED <<log, last>>

\* Somebody else: a caller of the approval endpoints, an abort.
Aside ==
    /\ pc' = pc /\ io' = io
    /\ active'.run = active.run /\ active'.ending = active.ending
    /\ active.ask = "none" => active'.ask = "none"
    /\ active'.plan \in {active.plan, "none"}
    /\ log' = log
    /\ \/ last' = last
       \/ /\ last' = <<active.run, "ordinary">>
          /\ active.run # NoRun /\ log[active.run] = "open"

\* An ordinary event of the run leaves the ends of the runs alone.
LEMMA SendKind ==
  ASSUME TypeOK, active.run \in Runs, NEW type \in Ordinary, NEW n, NEW tag,
         NEW l, Send(RunEvent(type, n, tag), l)
  PROVE  /\ log' = log /\ last' \in {last, <<active.run, "ordinary">>}
         /\ pc' = l
<1>1. PICK result \in Outcomes : Appends(RunEvent(type, n, tag), result)
  BY DEF Send
<1>2. type \notin Terminal /\ type # "run.started"
  BY DEF Ordinary, Terminal
<1>3. Write(RunEvent(type, n, tag)) =>
         log' = log /\ last' = <<active.run, "ordinary">>
  <2>1. SUFFICES ASSUME Write(RunEvent(type, n, tag))
                 PROVE  log' = log /\ last' = <<active.run, "ordinary">>
    OBVIOUS
  <2>2. log' = [log EXCEPT ![active.run] = log[active.run]]
    BY <1>2, <2>1 DEF Write, RunEvent, Event
  <2>3. last' = <<active.run, "ordinary">>
    BY <1>2, <2>1 DEF Write, Written, RunEvent, Event
  <2> QED
    BY <2>2, <2>3 DEF TypeOK
<1>4. log' = log /\ last' \in {last, <<active.run, "ordinary">>}
  BY <1>1, <1>3 DEF Appends, durable
<1> QED
  BY <1>4 DEF Send

\* A terminal event of the run ends it, or does not reach the file.
LEMMA FinishAsKind ==
  ASSUME TypeOK, active.run \in Runs,
         NEW how \in {"run.completed", "run.failed", "run.cancelled"},
         how = "run.completed" => ~Aborted,
         pc \notin {"idle", "finishing"},
         ~(pc = "starting" /\ io = "store_error"),
         FinishAs(how)
  PROVE  Finishes
<1> DEFINE e == RunEvent(how, turn.requests, "")
<1>1. PICK result \in Outcomes : Appends(e, result)
  BY DEF FinishAs, Send
<1>2. Write(e) => /\ log' = [log EXCEPT ![active.run] = EndOf[how]]
                  /\ last' = <<active.run, "terminal">>
  BY DEF Write, Written, RunEvent, Event, Terminal
<1>3. EndOf[how] \in Ends /\ (EndOf[how] = "completed" => how = "run.completed")
  BY DEF EndOf, Ends, Terminal
<1>4. UNCHANGED <<log, last>> \/ Write(e)
  BY <1>1 DEF Appends, durable
<1>5. /\ pc' = "finishing" /\ active'.run = active.run
      /\ active'.ending = TRUE
  BY DEF FinishAs, Send, TypeOK, Actives
<1> QED
  BY <1>2, <1>3, <1>4, <1>5 DEF Finishes

LEMMA FinishFromErrorKind ==
  ASSUME TypeOK, active.run \in Runs, pc \notin {"idle", "finishing"},
         ~(pc = "starting" /\ io = "store_error"), FinishFromError
  PROVE  Finishes
  BY FinishAsKind DEF FinishFromError

LEMMA LeaveKind == Leave => Leaves
  BY DEF Leave, Forget, Leaves

LEMMA RecordKind ==
  ASSUME TypeOK, active.run \in Runs, pc \notin {"idle", "finishing"},
         io = "none", NEW type \in Ordinary, NEW n, NEW tag, NEW l,
         l \notin {"idle", "starting", "finishing"}, l = "tool" => ~Aborted,
         Record(type, n, tag, l)
  PROVE  Works /\ pc' = l /\ turn' = turn
  BY SendKind DEF Record, Works

LEMMA ContinueKind ==
  ASSUME pc \notin {"idle", "finishing"}, io = "none", NEW l,
         l \notin {"idle", "starting", "finishing", "tool"}, Continue(l)
  PROVE  Works /\ pc' = l /\ turn' = turn
  BY DEF Continue, Goto, durable, Works

\* A run that is over works on no batch.
LEMMA OverKind == Finishes \/ Leaves => CallInBatch'
  BY DEF Finishes, Leaves, CallInBatch

LEMMA AppendReturnsKind ==
  ASSUME TypeOK, Ownership, CallInBatch, AppendReturns
  PROVE  (Finishes \/ Leaves \/ Delivers) /\ CallInBatch'
<1>1. CASE Deliver
  <2>1. Delivers
    BY <1>1, SinkThrowsType DEF Deliver, Delivers, durable, TypeOK
  <2>2. CallInBatch'
    BY <1>1 DEF Deliver, CallInBatch
  <2> QED
    BY <2>1, <2>2
<1>2. CASE StoreError
  BY <1>2, LeaveKind, OverKind DEF StoreError
<1>3. CASE HistoryError
  <2>1. active.run \in Runs /\ pc # "idle"
    BY <1>3, Owned DEF HistoryError
  <2>2. CASE pc = "starting" \/ active.ending
    BY <1>3, <2>2, LeaveKind, OverKind DEF HistoryError
  <2>3. CASE ~(pc = "starting" \/ active.ending)
    BY <1>3, <2>1, <2>3, FinishFromErrorKind, OverKind DEF HistoryError, Ownership
  <2> QED
    BY <2>2, <2>3
<1> QED
  BY <1>1, <1>2, <1>3 DEF AppendReturns

LEMMA ModelStepKind ==
  ASSUME TypeOK, Ownership, CallInBatch, ModelStep
  PROVE  (Works \/ Finishes) /\ CallInBatch'
<1>1. /\ pc \notin {"idle", "finishing"} /\ io = "none"
      /\ active.run \in Runs /\ active \in Actives
  <2>1. pc \notin {"idle", "finishing"} /\ io = "none"
    BY DEF ModelStep, Goal, Loop, ContextBuilt, ContextFailed, Compacted,
       Requested, ModelAnswers, ModelFailed, LiveDeltaLost, At
  <2> QED
    BY <2>1, Owned DEF TypeOK
<1>2. FinishFromError => Finishes /\ CallInBatch'
  BY <1>1, FinishFromErrorKind, OverKind
<1>3. ASSUME NEW type \in Ordinary, NEW n, NEW l \in {"loop", "requesting", "compacted"},
             Record(type, n, "", l)
      PROVE  Works /\ CallInBatch'
  BY <1>1, <1>3, RecordKind DEF CallInBatch
<1>4. CASE Goal
  BY <1>2, <1>3, <1>4 DEF Goal, Ordinary
<1>5. CASE Loop
  BY <1>1, <1>2, <1>5, ContinueKind DEF Loop, CallInBatch
<1>6. CASE ContextBuilt
  BY <1>3, <1>6 DEF ContextBuilt, RequestTheModel, Ordinary
<1>7. CASE ContextFailed \/ ModelFailed
  BY <1>2, <1>7 DEF ContextFailed, ModelFailed
<1>8. CASE Compacted
  BY <1>2, <1>3, <1>8 DEF Compacted, RequestTheModel, Ordinary
<1>9. CASE Requested
  BY <1>1, <1>9 DEF Requested, Goto, durable, Works, CallInBatch
<1>10. CASE ModelAnswers
  <2>1. \E finish \in {"stop", "tool_calls"} :
          Send(RunEvent("model.completed", turn.requests, finish), "completed")
    BY <1>10 DEF ModelAnswers
  <2>2. /\ log' = log /\ last' \in {last, <<active.run, "ordinary">>}
        /\ pc' = "completed"
    BY <1>1, <2>1, SendKind DEF Ordinary
  <2>3. active' = active
    BY <1>10 DEF ModelAnswers
  <2> QED
    BY <1>1, <2>2, <2>3 DEF Works, CallInBatch
<1>11. CASE LiveDeltaLost
  BY <1>1, <1>11, SinkThrowsType DEF LiveDeltaLost, durable, Works, CallInBatch
<1> QED
  BY <1>4, <1>5, <1>6, <1>7, <1>8, <1>9, <1>10, <1>11 DEF ModelStep

LEMMA StopStepKind ==
  ASSUME TypeOK, Ownership, CallInBatch, StopStep
  PROVE  (Works \/ Finishes) /\ CallInBatch'
<1>1. /\ pc \notin {"idle", "finishing", "starting"} /\ io = "none"
      /\ active.run \in Runs /\ active \in Actives
  <2>1. pc \notin {"idle", "finishing", "starting"} /\ io = "none"
    BY DEF StopStep, StopRejected, Restate, ProposePlan, PlanProposed,
       PlanAnswered, StopWithMissingParent, StopUnverified, StopWithoutService,
       StopAccepted, Answer, Complete, StopForGood, FinalStop, Stopped, At
  <2> QED
    BY <2>1, Owned DEF TypeOK
<1>2. FinishFromError => Finishes /\ CallInBatch'
  BY <1>1, FinishFromErrorKind, OverKind
<1>3. ASSUME NEW type \in Ordinary, NEW n, NEW tag,
             NEW l \in {"restate", "proposing", "loop", "final"},
             Send(RunEvent(type, n, tag), l),
             active'.run = active.run, active'.ending = active.ending
      PROVE  Works /\ CallInBatch'
  <2>1. /\ log' = log /\ last' \in {last, <<active.run, "ordinary">>}
        /\ pc' = l
    BY <1>1, <1>3, SendKind
  <2> QED
    BY <1>1, <1>3, <2>1 DEF Works, CallInBatch
<1>4. ASSUME NEW l \in {"loop", "plan_wait", "answer"}, Goto(l),
             active'.run = active.run, active'.ending = active.ending
      PROVE  Works /\ CallInBatch'
  BY <1>1, <1>4 DEF Goto, durable, Works, CallInBatch
<1>5. CASE StopRejected
  BY <1>3, <1>5 DEF StopRejected, Ordinary
<1>6. CASE Restate
  BY <1>2, <1>4, <1>6 DEF Restate, Continue
<1>7. CASE ProposePlan
  <2>1. CASE FinishFromError
    BY <1>2, <2>1
  <2>2. CASE /\ active' = [active EXCEPT !.plan = "open", !.wait = "pending"]
             /\ Send(RunEvent("plan.proposed", 0, ""), "proposing")
    BY <1>1, <1>3, <2>2 DEF Ordinary, Actives
  <2> QED
    BY <1>7, <2>1, <2>2 DEF ProposePlan
<1>8. CASE PlanProposed
  BY <1>1, <1>4, <1>8 DEF PlanProposed, Actives
<1>9. CASE PlanAnswered
  <2>1. CASE active' = [active EXCEPT !.wait = "none"] /\ Goto("loop")
    BY <1>1, <1>4, <2>1 DEF Actives
  <2>2. CASE FinishAs("run.cancelled")
    BY <1>1, <2>2, FinishAsKind, OverKind
  <2>3. CASE FinishFromError
    BY <1>2, <2>3
  <2> QED
    BY <1>9, <2>1, <2>2, <2>3 DEF PlanAnswered
<1>10. CASE StopWithMissingParent
  BY <1>2, <1>3, <1>10 DEF StopWithMissingParent, Ordinary
<1>11. CASE StopUnverified
  BY <1>3, <1>11 DEF StopUnverified, Ordinary
<1>12. CASE StopWithoutService
  BY <1>4, <1>12 DEF StopWithoutService
<1>13. CASE StopAccepted
  BY <1>2, <1>4, <1>13 DEF StopAccepted
<1>14. CASE Answer
  BY <1>2, <1>3, <1>14 DEF Answer, Record, Ordinary
<1>15. CASE Complete
  <2>1. CASE Aborted
    BY <1>2, <1>15, <2>1 DEF Complete
  <2>2. CASE ~Aborted
    BY <1>1, <1>15, <2>2, FinishAsKind, OverKind DEF Complete
  <2> QED
    BY <2>1, <2>2
<1> QED
  BY <1>5, <1>6, <1>7, <1>8, <1>9, <1>10, <1>11, <1>12, <1>13, <1>14, <1>15
  DEF StopStep

LEMMA BatchStepKind ==
  ASSUME TypeOK, Ownership, CallInBatch, BatchStep
  PROVE  (Works \/ Finishes \/ Leaves) /\ CallInBatch'
<1>1. /\ pc \notin {"idle", "finishing", "starting"} /\ io = "none"
      /\ active.run \in Runs /\ active \in Actives
      /\ turn \in Turns /\ turn.at \in Nat /\ turn.batch \in Seq(Kinds)
  <2>1. pc \notin {"idle", "finishing", "starting"} /\ io = "none"
    BY DEF BatchStep, CallsInsteadOfText, NarrativeSuppressed, TakeBatch,
       Narrate, Collect, CallsRepeatIdentifier, Collected, DispatchAborted,
       DispatchDirect, DispatchSkipped, DispatchWithoutParent, Denied,
       Authorized, ApprovalRequired, Asking, ApprovalAnswered, ToolStarts,
       ToolReturns, ToolAborted, Recorded, GivenUp, Settle, Called, Runnable,
       Prepared, At
  <2> QED
    BY <2>1, Owned DEF TypeOK, Turns
<1>2. FinishFromError => Finishes /\ CallInBatch'
  BY <1>1, FinishFromErrorKind, OverKind
<1>3. ASSUME NEW type \in Ordinary, NEW n, NEW tag, NEW l \in Labels,
             l \notin {"idle", "starting", "finishing", "tool"},
             Send(RunEvent(type, n, tag), l),
             active'.run = active.run, active'.ending = active.ending
      PROVE  Works /\ pc' = l
  <2>1. /\ log' = log /\ last' \in {last, <<active.run, "ordinary">>}
        /\ pc' = l
    BY <1>1, <1>3, SendKind
  <2> QED
    BY <1>1, <1>3, <2>1 DEF Works
<1>4. ASSUME NEW l \in Labels,
             l \notin {"idle", "starting", "finishing", "tool"}, Goto(l),
             active'.run = active.run, active'.ending = active.ending
      PROVE  Works /\ pc' = l
  BY <1>1, <1>4 DEF Goto, durable, Works
<1>5. CASE CallsInsteadOfText \/ CallsRepeatIdentifier \/ DispatchAborted
             \/ ToolAborted \/ GivenUp
  BY <1>2, <1>5 DEF CallsInsteadOfText, CallsRepeatIdentifier, DispatchAborted,
     ToolAborted, GivenUp
<1>6. CASE NarrativeSuppressed
  <2>1. Works /\ pc' = "batch"
    BY <1>3, <1>6 DEF NarrativeSuppressed, Ordinary, Labels
  <2> QED
    BY <2>1 DEF CallInBatch
<1>7. CASE TakeBatch
  <2>1. CASE FinishFromError
    BY <1>2, <2>1
  <2>2. CASE ~FinishFromError
    <3>1. /\ turn.batch # << >>
          /\ turn' = [turn EXCEPT !.at = 0, !.blocked = facts.missing,
                                  !.failedCheck = FALSE]
          /\ Goto("narrate") \/ Goto("collect")
          /\ active' = active
      BY <1>7, <2>2 DEF TakeBatch
    <3>2. Works /\ pc' \in {"narrate", "collect"}
      BY <1>4, <3>1 DEF Labels
    <3>3. turn'.batch = turn.batch
      BY <1>1, <3>1 DEF Turns
    <3> QED
      BY <3>1, <3>2, <3>3 DEF CallInBatch
  <2> QED
    BY <2>1, <2>2
<1>8. CASE Narrate
  <2>1. CASE FinishFromError
    BY <1>2, <2>1
  <2>2. CASE Record("assistant.message", 0, "intermediate", "collect")
    <3>1. Works /\ pc' = "collect" /\ turn' = turn
      BY <1>3, <2>2 DEF Record, Ordinary, Labels
    <3>2. pc = "narrate"
      BY <1>8 DEF Narrate, At
    <3> QED
      BY <3>1, <3>2 DEF CallInBatch
  <2> QED
    BY <1>8, <2>1, <2>2 DEF Narrate
<1>9. CASE Collect
  <2>1. Works /\ pc' = "collect"
    BY <1>3, <1>9 DEF Collect, Ordinary, Labels
  <2>2. pc = "collect" /\ turn'.batch = turn.batch
    BY <1>1, <1>9 DEF Collect, At, Turns
  <2> QED
    BY <2>1, <2>2 DEF CallInBatch
<1>10. CASE Collected
  <2>1. Works /\ pc' = "dispatch"
    BY <1>4, <1>10 DEF Collected, Labels
  <2>2. /\ pc = "collect" /\ turn.at = Len(turn.batch)
        /\ turn'.batch = turn.batch /\ turn'.at = 1
    BY <1>1, <1>10 DEF Collected, At, Turns
  <2>3. 1 \in DOMAIN turn.batch
    BY <1>1, <2>2 DEF CallInBatch
  <2> QED
    BY <2>1, <2>2, <2>3 DEF CallInBatch
\* From here on the run works on one call.
<1> DEFINE Places == {"dispatch", "asking", "approval_wait", "granted",
                      "tool", "recording", "settle", "hopeless"}
<1>11. ASSUME pc \in Places, pc' \in Places,
              turn'.at = turn.at, turn'.batch = turn.batch
       PROVE  CallInBatch'
  BY <1>11 DEF CallInBatch
<1>12. ASSUME NEW code, NEW invoked, Result(code, invoked), pc \in Places,
              active'.run = active.run, active'.ending = active.ending
       PROVE  Works /\ CallInBatch'
  <2>1. Works /\ pc' = "recording"
    BY <1>3, <1>12 DEF Result, Ordinary, Labels
  <2>2. turn'.at = turn.at /\ turn'.batch = turn.batch
    BY <1>1, <1>12 DEF Result, Turns
  <2> QED
    BY <1>11, <1>12, <2>1, <2>2
<1>13. CASE DispatchDirect \/ DispatchSkipped \/ DispatchWithoutParent \/ Denied
  <2>1. /\ \E code \in Codes, invoked \in BOOLEAN : Result(code, invoked)
        /\ active' = active /\ pc = "dispatch"
    BY <1>13 DEF DispatchDirect, DispatchSkipped, DispatchWithoutParent, Denied,
       Codes, Runnable, Prepared, At
  <2> QED
    BY <1>12, <2>1
<1>14. CASE Authorized
  <2>1. pc = "dispatch" /\ Goto("granted") /\ UNCHANGED <<active, turn>>
    BY <1>14 DEF Authorized, Runnable, Prepared, At, Continue
  <2> QED
    BY <1>4, <1>11, <2>1 DEF Labels
<1>15. CASE ApprovalRequired
  <2>1. /\ pc = "dispatch" /\ UNCHANGED <<active, turn>>
        /\ Send(RunEvent("approval.required", turn.at, ""), "asking")
    BY <1>15 DEF ApprovalRequired, Runnable, Prepared, At, Record
  <2> QED
    BY <1>3, <1>11, <2>1 DEF Ordinary, Labels
<1>16. CASE Asking
  <2>1. CASE active.full
    <3>1. /\ pc = "asking" /\ UNCHANGED <<active, turn>>
          /\ Send(RunEvent("approval.resolved", turn.at, "approved"), "granted")
      BY <1>16, <2>1 DEF Asking, At, Record
    <3> QED
      BY <1>3, <1>11, <3>1 DEF Ordinary, Labels
  <2>2. CASE ~active.full
    <3>1. /\ pc = "asking" /\ Goto("approval_wait") /\ turn' = turn
          /\ active'.run = active.run /\ active'.ending = active.ending
      BY <1>1, <1>16, <2>2 DEF Asking, At, Actives
    <3> QED
      BY <1>4, <1>11, <3>1 DEF Labels
  <2> QED
    BY <2>1, <2>2
<1>17. CASE ApprovalAnswered
  <2>1. pc = "approval_wait"
    BY <1>17 DEF ApprovalAnswered, At
  <2>2. CASE active' = [active EXCEPT !.ask = "none", !.wait = "none"]
             /\ Goto("granted") /\ turn' = turn
    BY <1>1, <1>4, <1>11, <2>1, <2>2 DEF Labels, Actives
  <2>3. CASE active' = [active EXCEPT !.ask = "none", !.wait = "none"]
             /\ Result("rejected", TRUE)
    BY <1>1, <1>12, <2>1, <2>3 DEF Actives
  <2>4. CASE Leave
    BY <2>4, LeaveKind, OverKind
  <2>5. CASE FinishFromError
    BY <1>2, <2>5
  <2> QED
    BY <1>17, <2>2, <2>3, <2>4, <2>5 DEF ApprovalAnswered
<1>18. CASE ToolStarts
  <2>1. CASE FinishFromError
    BY <1>2, <2>1
  <2>2. CASE ~Aborted /\ Record("tool.started", turn.at, "", "tool")
    <3>1. Works /\ pc' = "tool" /\ turn' = turn
      <4>1. /\ Send(RunEvent("tool.started", turn.at, ""), "tool")
            /\ UNCHANGED <<active, turn>>
        BY <2>2 DEF Record
      <4>2. /\ log' = log /\ last' \in {last, <<active.run, "ordinary">>}
            /\ pc' = "tool"
        BY <1>1, <4>1, SendKind DEF Ordinary
      <4> QED
        BY <1>1, <2>2, <4>1, <4>2 DEF Works
    <3>2. pc = "granted"
      BY <1>18 DEF ToolStarts, At
    <3> QED
      BY <1>11, <3>1, <3>2
  <2> QED
    BY <1>18, <2>1, <2>2 DEF ToolStarts
<1>19. CASE ToolReturns
  <2>1. /\ \E code \in {"ok", "error"} : Result(code, TRUE)
        /\ active' = active /\ pc = "tool"
    BY <1>19 DEF ToolReturns, At
  <2> QED
    BY <1>12, <2>1
<1>20. CASE Recorded
  <2>1. /\ \/ \E l \in {"settle", "hopeless"} :
                 Send(RunEvent("validation.repair.warning", 0, ""), l)
           \/ Goto("settle")
        /\ UNCHANGED <<active, turn>> /\ pc = "recording"
    BY <1>20 DEF Recorded, At
  <2>2. Works /\ pc' \in {"settle", "hopeless"}
    BY <1>3, <1>4, <2>1 DEF Ordinary, Labels
  <2> QED
    BY <1>11, <2>1, <2>2
<1>21. CASE Settle
  <2>1. CASE FinishFromError
    BY <1>2, <2>1
  <2>2. CASE NextCall /\ active' = active
    <3>1. CASE turn.at < Len(turn.batch)
      <4>1. Goto("dispatch") /\ turn'.at = turn.at + 1
              /\ turn'.batch = turn.batch
        <5>1. Goto("dispatch")
          BY <2>2, <3>1 DEF NextCall
        <5>2. \E failed : turn' = [turn EXCEPT !.at = turn.at + 1,
                   !.failedCheck = failed, !.code = "none", !.invoked = FALSE]
          BY <1>1, <2>2, <3>1 DEF NextCall, Turns
        <5> QED
          BY <1>1, <5>1, <5>2 DEF Turns
      <4>2. turn.at + 1 \in DOMAIN turn.batch
        BY <1>1, <3>1
      <4>3. Works /\ pc' = "dispatch"
        BY <1>4, <2>2, <4>1 DEF Labels
      <4> QED
        BY <4>1, <4>2, <4>3 DEF CallInBatch
    <3>2. CASE ~(turn.at < Len(turn.batch))
      <4>1. Works /\ pc' = "loop"
        BY <1>4, <2>2, <3>2 DEF NextCall, Labels
      <4> QED
        BY <4>1 DEF CallInBatch
    <3> QED
      BY <3>1, <3>2
  <2> QED
    BY <1>21, <2>1, <2>2 DEF Settle
<1> QED
  BY <1>5, <1>6, <1>7, <1>8, <1>9, <1>10, <1>13, <1>14, <1>15, <1>16, <1>17,
     <1>18, <1>19, <1>20, <1>21 DEF BatchStep

\* A caller's append is an ordinary event of the run, which is open.
LEMMA DecisionAppendedKind ==
  ASSUME TypeOK, Ownership, active.run \in Runs, ~active.ending,
         active.ask = "open" \/ active.plan = "open",
         NEW d, NEW kind, NEW yes, NEW type \in Ordinary, NEW n, NEW tag,
         DecisionAppended(d, kind, yes, RunEvent(type, n, tag))
  PROVE  /\ log' = log /\ log[active.run] = "open"
         /\ last' \in {last, <<active.run, "ordinary">>}
<1>1. PICK result \in Outcomes : Appends(RunEvent(type, n, tag), result)
  BY DEF DecisionAppended
<1>2. type \notin Terminal /\ type # "run.started"
  BY DEF Ordinary, Terminal
<1>3. ASSUME Write(RunEvent(type, n, tag))
      PROVE  log' = log /\ last' = <<active.run, "ordinary">>
  <2>1. log' = [log EXCEPT ![active.run] = log[active.run]]
    BY <1>2, <1>3 DEF Write, RunEvent, Event
  <2>2. last' = <<active.run, "ordinary">>
    BY <1>2, <1>3 DEF Write, Written, RunEvent, Event
  <2> QED
    BY <2>1, <2>2 DEF TypeOK
<1>4. log' = log /\ last' \in {last, <<active.run, "ordinary">>}
  BY <1>1, <1>3 DEF Appends, durable
<1>5. pc \notin {"idle", "finishing", "starting"}
  BY RunsAssumption DEF Ownership
<1> QED
  BY <1>4, <1>5 DEF Ownership

LEMMA DecisionStepKind ==
  ASSUME TypeOK, Ownership, CallInBatch, DecisionStep
  PROVE  Aside /\ CallInBatch'
<1>1. PICK d \in Deciders :
        \/ \E yes \in BOOLEAN : DecideApproval(d, yes) \/ DecidePlan(d, yes)
        \/ DecisionReturns(d)
        \/ DecisionFails(d)
  BY DEF DecisionStep
<1>2. active \in Actives /\ dec[d] \in Decisions
  BY DEF TypeOK
<1>3. pc' = pc /\ io' = io /\ turn' = turn
  BY <1>1 DEF DecideApproval, DecidePlan, DecisionReturns, DecisionFails
<1>4. CallInBatch'
  BY <1>3 DEF CallInBatch
<1>5. ASSUME NEW yes \in BOOLEAN, DecideApproval(d, yes)
      PROVE  Aside
  <2>1. active.run \in Runs /\ ~active.ending /\ active.ask = "open"
    BY <1>2, <1>5 DEF DecideApproval, Deciding, Actives
  <2>2. /\ log' = log /\ log[active.run] = "open"
        /\ last' \in {last, <<active.run, "ordinary">>}
    BY <1>5, <2>1, DecisionAppendedKind DEF DecideApproval, Ordinary
  <2> QED
    BY <1>2, <1>3, <1>5, <2>1, <2>2, RunsAssumption
    DEF DecideApproval, Aside, Actives
<1>6. ASSUME NEW yes \in BOOLEAN, DecidePlan(d, yes)
      PROVE  Aside
  <2>1. active.run \in Runs /\ ~active.ending /\ active.plan = "open"
    BY <1>2, <1>6 DEF DecidePlan, Deciding, Actives
  <2>2. /\ log' = log /\ log[active.run] = "open"
        /\ last' \in {last, <<active.run, "ordinary">>}
    BY <1>6, <2>1, DecisionAppendedKind DEF DecidePlan, Ordinary
  <2> QED
    BY <1>2, <1>3, <1>6, <2>1, <2>2, RunsAssumption
    DEF DecidePlan, Aside, Actives
<1>7. DecisionReturns(d) \/ DecisionFails(d) => log' = log /\ last' = last
  BY DEF DecisionReturns, DecisionFails, durable
<1>8. CASE DecisionReturns(d)
  <2>1. \/ active' = active
        \/ \E heard \in {active, SinkThrows(active)} :
              active' = DecisionTakesEffect(heard, dec[d])
    BY <1>8 DEF DecisionReturns
  <2>2. CASE active' = active
    BY <1>3, <1>4, <1>7, <1>8, <2>2 DEF Aside
  <2>3. ASSUME NEW heard \in {active, SinkThrows(active)},
               active' = DecisionTakesEffect(heard, dec[d])
        PROVE  Aside
    <3>1. /\ heard \in Actives /\ heard.run = active.run
          /\ heard.ending = active.ending /\ heard.ask = active.ask
          /\ heard.plan = active.plan
      BY <1>2, <2>3, SinkThrowsType
    <3>2. /\ active'.run = active.run /\ active'.ending = active.ending
          /\ active'.ask \in {active.ask, "none"}
          /\ active'.plan \in {active.plan, "none"}
      BY <1>2, <2>3, <3>1, DecisionTakesEffectType
    <3> QED
      BY <1>3, <1>7, <1>8, <3>2 DEF Aside
  <2> QED
    BY <1>4, <2>1, <2>2, <2>3
<1>9. CASE DecisionFails(d)
  <2>1. active' = active
          \/ active' = [Settled(active, "approval", dec[d].io) EXCEPT
                           !.ask = "none"]
    BY <1>9 DEF DecisionFails
  <2>2. dec[d].io \in Waits
    BY <1>9 DEF DecisionFails, Waits
  <2>3. /\ Settled(active, "approval", dec[d].io) \in Actives
        /\ Settled(active, "approval", dec[d].io).run = active.run
        /\ Settled(active, "approval", dec[d].io).ending = active.ending
        /\ Settled(active, "approval", dec[d].io).plan = active.plan
    BY <1>2, <2>2, SettledType
  <2>4. /\ active'.run = active.run /\ active'.ending = active.ending
        /\ active'.ask \in {active.ask, "none"}
        /\ active'.plan \in {active.plan, "none"}
    BY <1>2, <2>1, <2>3 DEF Actives
  <2> QED
    BY <1>3, <1>4, <1>7, <1>9, <2>4 DEF Aside
<1> QED
  BY <1>1, <1>4, <1>5, <1>6, <1>8, <1>9

LEMMA AbortStepKind ==
  ASSUME TypeOK, CallInBatch, AbortStep
  PROVE  Aside /\ CallInBatch'
<1>1. PICK source \in AbortSources : Abort(source)
  BY DEF AbortStep
<1>2. source \in {"user", "external", "timeout", "sink"} /\ active \in Actives
  BY ConstantsAssumption DEF TypeOK
<1>3. /\ active' = AbortedBy(active, source)
      /\ UNCHANGED <<durable, pc, io, turn, facts, others>>
  BY <1>1 DEF Abort
<1> QED
  BY <1>2, <1>3, AbortedByType DEF Aside, durable, CallInBatch

-----------------------------------------------------------------------------
(* Theorems.                                                               *)

Inv == TypeOK /\ Ownership /\ CallInBatch

LEMMA InitInv == Init => Inv
<1> SUFFICES ASSUME Init PROVE Inv
  OBVIOUS
<1>1. TypeOK
  <2>1. dec \in [Deciders -> Decisions] /\ crashes \in 0..MaxCrashes
    BY InitialType, ConstantsAssumption DEF Init
  <2> QED
    BY <2>1, InitialType, EmptyHistoryType, EmptyContextType
    DEF Init, TypeOK, Labels, Results
<1>2. Ownership
  BY DEF Init, Ownership, NoActive, OpenRuns
<1>3. CallInBatch
  BY DEF Init, CallInBatch
<1> QED
  BY <1>1, <1>2, <1>3 DEF Inv

\* A run that starts, and one that is recovered.
Starts(r) ==
    /\ active.run = NoRun /\ log[r] = "absent" /\ OpenRuns = {}
    /\ pc' = "starting" /\ active'.run = r /\ active'.ending = FALSE
    /\ active'.ask = "none" /\ active'.plan = "none"
    /\ \/ log' = [log EXCEPT ![r] = "open"] /\ last' = <<r, "started">>
       \/ UNCHANGED <<log, last>> /\ io' = "store_error"

Recovers(r) ==
    /\ active.run = NoRun /\ log[r] = "open"
    /\ OpenRuns = {r}
    /\ log' = [log EXCEPT ![r] = "interrupted"] /\ last' = <<r, "terminal">>
    /\ UNCHANGED <<pc, io, active, turn>>

LEMMA StartKind ==
  ASSUME TypeOK, Ownership, RunStarts
  PROVE  (\E r \in Runs : Starts(r)) /\ CallInBatch'
<1>1. PICK r \in Runs, planning \in BOOLEAN, mode \in PermissionModes :
        StartRunOf(r, planning, mode = "full")
  BY ConstantsAssumption DEF RunStarts
<1> DEFINE phase == IF planning THEN "planning" ELSE "normal"
           e == Event("run.started", r, 0, phase)
<1>2. /\ active' = [NoActive EXCEPT !.run = r, !.full = (mode = "full"),
                                    !.sink = "open", !.phase = phase]
      /\ Send(e, "starting") /\ active.run = NoRun
      /\ log[r] = "absent" /\ OpenRuns = {}
  BY <1>1 DEF StartRunOf
<1>3. /\ active'.run = r /\ active'.ending = FALSE
      /\ active'.ask = "none" /\ active'.plan = "none"
  BY <1>2 DEF NoActive
<1>4. PICK result \in Outcomes : Appends(e, result) /\ io' = result
  BY <1>2 DEF Send
<1>5. Write(e) => log' = [log EXCEPT ![r] = "open"] /\ last' = <<r, "started">>
  BY DEF Write, Written, Event, Terminal
<1>6. \/ log' = [log EXCEPT ![r] = "open"] /\ last' = <<r, "started">>
      \/ UNCHANGED <<log, last>> /\ io' = "store_error"
  BY <1>4, <1>5 DEF Appends, durable
<1>7. pc' = "starting"
  BY <1>2 DEF Send
<1> QED
  BY <1>2, <1>3, <1>6, <1>7 DEF Starts, CallInBatch

LEMMA RecoverKind ==
  ASSUME TypeOK, CallInBatch, Recover
  PROVE  (\E r \in Runs : Recovers(r)) /\ CallInBatch'
<1>1. /\ active.run = NoRun /\ OpenRuns = {disk.run}
      /\ Write(Event("run.interrupted", disk.run, 0, ""))
      /\ UNCHANGED <<pc, io, active, turn>>
  BY DEF Recover
<1>2. disk.run \in Runs /\ log[disk.run] = "open"
  BY <1>1 DEF OpenRuns
<1>3. log' = [log EXCEPT ![disk.run] = "interrupted"]
  BY <1>1 DEF Write, Event, EndOf, Terminal
<1>4. last' = <<disk.run, "terminal">>
  BY <1>1 DEF Write, Written, Event, Terminal
<1> QED
  BY <1>1, <1>2, <1>3, <1>4 DEF Recovers, CallInBatch

LEMMA CrashKind ==
  ASSUME Crash
  PROVE  Leaves /\ CallInBatch'
  BY DEF Crash, Forget, Leaves, CallInBatch

StepKind ==
    \/ Works \/ Finishes \/ Leaves \/ Delivers \/ Aside
    \/ \E r \in Runs : Starts(r) \/ Recovers(r)

LEMMA NextKind ==
  ASSUME Inv, Next
  PROVE  StepKind /\ CallInBatch'
<1>1. TypeOK /\ Ownership /\ CallInBatch
  BY DEF Inv
<1>2. CASE RunStarts
  BY <1>1, <1>2, StartKind DEF StepKind
<1>3. CASE Recover
  BY <1>1, <1>3, RecoverKind DEF StepKind
<1>4. CASE RunStep
  <2>1. CASE AppendReturns
    BY <1>1, <2>1, AppendReturnsKind DEF StepKind
  <2>2. CASE ModelStep
    BY <1>1, <2>2, ModelStepKind DEF StepKind
  <2>3. CASE StopStep
    BY <1>1, <2>3, StopStepKind DEF StepKind
  <2>4. CASE BatchStep
    BY <1>1, <2>4, BatchStepKind DEF StepKind
  <2>5. CASE Ended
    BY <2>5, LeaveKind, OverKind DEF Ended, StepKind
  <2> QED
    BY <1>4, <2>1, <2>2, <2>3, <2>4, <2>5 DEF RunStep
<1>5. CASE DecisionStep
  BY <1>1, <1>5, DecisionStepKind DEF StepKind
<1>6. CASE AbortStep
  BY <1>1, <1>6, AbortStepKind DEF StepKind
<1>7. CASE Crash
  BY <1>7, CrashKind DEF StepKind
<1> QED
  BY <1>2, <1>3, <1>4, <1>5, <1>6, <1>7 DEF Next

LEMMA NextType ==
  ASSUME Inv, Next
  PROVE  TypeOK'
<1>1. TypeOK /\ Ownership /\ CallInBatch
  BY DEF Inv
<1>2. CASE RunStep
  <2>1. CASE BatchStep
    BY <1>1, <2>1, CollectStepType, DispatchStepType, SettleStepType
    DEF BatchStep
  <2>2. CASE Ended
    BY <1>1, <2>2, LeaveType DEF Ended
  <2> QED
    BY <1>1, <1>2, <2>1, <2>2, AppendReturnsType, ModelStepType, StopStepType
    DEF RunStep
<1> QED
  BY <1>1, <1>2, StartType, RecoverType, DecisionStepType, AbortType, CrashType
  DEF Next

LEMMA NextOwnership ==
  ASSUME Inv, StepKind
  PROVE  Ownership'
<1>1. /\ TypeOK /\ Ownership /\ active \in Actives
      /\ log \in [Runs -> {"absent", "open", "interrupted"} \cup Ends]
  BY DEF Inv, TypeOK
<1>2. CASE Works
  BY <1>1, <1>2 DEF Works, Ownership, OpenRuns
<1>3. CASE Finishes
  <2>1. log[active.run] = "open" /\ active.run \in Runs
    BY <1>1, <1>3, Owned DEF Finishes, Ownership
  <2>2. OpenRuns' \subseteq OpenRuns
    BY <1>1, <1>3, <2>1 DEF Finishes, OpenRuns, Ends
  <2> QED
    BY <1>1, <1>3, <2>2 DEF Finishes, Ownership
<1>4. CASE Leaves
  BY <1>1, <1>4 DEF Leaves, Ownership, OpenRuns, NoActive
<1>5. CASE Delivers
  BY <1>1, <1>5 DEF Delivers, Ownership, OpenRuns
<1>6. CASE Aside
  BY <1>1, <1>6 DEF Aside, Ownership, OpenRuns, Actives
<1>7. ASSUME NEW r \in Runs, Starts(r) PROVE Ownership'
  <2>1. OpenRuns' \subseteq {r}
    BY <1>1, <1>7 DEF Starts, OpenRuns
  <2>2. r # NoRun
    BY RunsAssumption
  <2>3. ~(pc' = "starting" /\ io' = "store_error") => log'[active'.run] = "open"
    BY <1>1, <1>7 DEF Starts
  <2> QED
    BY <1>7, <2>1, <2>2, <2>3 DEF Starts, Ownership
<1>8. ASSUME NEW r \in Runs, Recovers(r) PROVE Ownership'
  <2>1. OpenRuns' = {}
    BY <1>1, <1>8 DEF Recovers, OpenRuns
  <2>2. pc = "idle"
    BY <1>1, <1>8 DEF Recovers, Ownership
  <2> QED
    BY <1>1, <1>8, <2>1, <2>2 DEF Recovers, Ownership
<1> QED
  BY <1>2, <1>3, <1>4, <1>5, <1>6, <1>7, <1>8 DEF StepKind

LEMMA StutterInv ==
  ASSUME Inv, UNCHANGED vars
  PROVE  Inv'
  BY DEF Inv, vars, TypeOK, Ownership, OpenRuns, CallInBatch

\* The invariant is inductive.
THEOREM Invariance == Spec => []Inv
<1>1. Inv /\ [Next]_vars => Inv'
  BY NextType, NextKind, NextOwnership, StutterInv DEF Inv
<1> QED
  BY <1>1, InitInv, PTL DEF Spec

\* Every variable of the runtime stays in its set, whatever the runs, the
\* callers, the limits and the failures.
THEOREM TypeCorrect == Spec => []TypeOK
<1>1. Inv => TypeOK
  BY DEF Inv
<1> QED
  BY <1>1, Invariance, PTL

\* The process owns a run from its start to its cleanup, no other run is
\* open meanwhile, and until its end is written the run is open in the file.
THEOREM OwnsOneRun == Spec => []Ownership
<1>1. Inv => Ownership
  BY DEF Inv
<1> QED
  BY <1>1, Invariance, PTL

\* The call the runtime authorizes, executes and settles is always one of
\* the batch the model asked for.
THEOREM WorksOnACall == Spec => []CallInBatch
<1>1. Inv => CallInBatch
  BY DEF Inv
<1> QED
  BY <1>1, Invariance, PTL

-----------------------------------------------------------------------------
(* What follows from the kinds of steps.                                   *)

\* Each kind of step is one of RunLifecycle's, or none.
LEMMA KindImplements ==
  ASSUME Inv, StepKind
  PROVE  [Lifecycle!Next]_(Lifecycle!vars)
<1>1. /\ TypeOK /\ Ownership /\ active \in Actives
      /\ log \in [Runs -> {"absent", "open", "interrupted"} \cup Ends]
  BY DEF Inv, TypeOK
<1>2. CASE Works
  <2>1. /\ active.run \in Runs /\ log[active.run] = "open"
        /\ active'.run = active.run /\ log' = log
        /\ last' \in {last, <<active.run, "ordinary">>}
    BY <1>1, <1>2, Owned DEF Works, Ownership
  <2> QED
    BY <2>1 DEF Lifecycle!Next, Lifecycle!Record, Lifecycle!vars
<1>3. CASE Finishes
  <2>1. /\ active.run \in Runs /\ log[active.run] = "open"
        /\ active'.run = active.run
    BY <1>1, <1>3, Owned DEF Finishes, Ownership
  <2>2. CASE UNCHANGED <<log, last>>
    BY <2>1, <2>2 DEF Lifecycle!vars
  <2>3. CASE \E how \in Ends : /\ log' = [log EXCEPT ![active.run] = how]
                               /\ last' = <<active.run, "terminal">>
    <3>1. Lifecycle!Close(active.run)
      BY <2>1, <2>3 DEF Lifecycle!Close, Lifecycle!Ends, Ends
    <3> QED
      BY <2>1, <3>1 DEF Lifecycle!Next
  <2> QED
    BY <1>3, <2>2, <2>3 DEF Finishes
<1>4. CASE Leaves
  BY <1>4 DEF Leaves, NoActive, Lifecycle!Next, Lifecycle!Leave, Lifecycle!vars
<1>5. CASE Delivers
  BY <1>5 DEF Delivers, Lifecycle!vars
<1>6. CASE Aside
  <2>1. CASE last' = last
    BY <1>6, <2>1 DEF Aside, Lifecycle!vars
  <2>2. CASE /\ last' = <<active.run, "ordinary">>
             /\ active.run # NoRun /\ log[active.run] = "open"
    <3>1. active.run \in Runs
      BY <1>1, <2>2 DEF Actives
    <3> QED
      BY <1>6, <2>2, <3>1 DEF Aside, Lifecycle!Next, Lifecycle!Record
  <2> QED
    BY <1>6, <2>1, <2>2 DEF Aside
<1>7. ASSUME NEW r \in Runs, Starts(r) PROVE Lifecycle!Next
  <2>1. Lifecycle!NoneOpen
    BY <1>7 DEF Starts, OpenRuns, Lifecycle!NoneOpen
  <2>2. Lifecycle!Begin(r)
    BY <1>7, <2>1 DEF Starts, Lifecycle!Begin
  <2> QED
    BY <2>2 DEF Lifecycle!Next
<1>8. ASSUME NEW r \in Runs, Recovers(r) PROVE Lifecycle!Next
  BY <1>8 DEF Recovers, Lifecycle!Next, Lifecycle!Interrupt
<1> QED
  BY <1>2, <1>3, <1>4, <1>5, <1>6, <1>7, <1>8 DEF StepKind

\* The runtime implements RunLifecycle: a run is opened once, written to by
\* its owner only, ended once, and interrupted only when nobody owns it.
THEOREM ImplementsLifecycle == Spec => LifecycleSpec
<1>1. Init => Lifecycle!Init
  BY DEF Init, NoActive, Lifecycle!Init
<1>2. Inv /\ [Next]_vars => [Lifecycle!Next]_(Lifecycle!vars)
  <2>1. ASSUME Inv, Next PROVE [Lifecycle!Next]_(Lifecycle!vars)
    BY <2>1, NextKind, KindImplements
  <2>2. ASSUME UNCHANGED vars PROVE UNCHANGED Lifecycle!vars
    BY <2>2 DEF vars, Lifecycle!vars
  <2> QED
    BY <2>1, <2>2
<1> QED
  BY <1>1, <1>2, Invariance, PTL DEF Spec, LifecycleSpec, Lifecycle!Spec

\* A step that is to honour the abort.
Commits ==
    \/ pc' = "tool" /\ pc # "tool"
    \/ \E r \in Runs : log[r] = "open" /\ log'[r] = "completed"

LEMMA KindHonours ==
  ASSUME Inv, StepKind, Commits
  PROVE  ~Aborted
<1>1. /\ TypeOK /\ Ownership /\ active \in Actives
      /\ log \in [Runs -> {"absent", "open", "interrupted"} \cup Ends]
  BY DEF Inv, TypeOK
<1>2. CASE Works
  BY <1>2 DEF Works, Commits
<1>3. CASE Finishes
  <2>1. active.run \in Runs
    BY <1>1, <1>3, Owned DEF Finishes
  <2>2. PICK r \in Runs : log[r] = "open" /\ log'[r] = "completed"
    BY <1>3 DEF Finishes, Commits
  <2>3. PICK how \in Ends : /\ how = "completed" => ~Aborted
                            /\ log' = [log EXCEPT ![active.run] = how]
    BY <1>3, <2>2 DEF Finishes
  <2>4. how = "completed"
    BY <1>1, <2>1, <2>2, <2>3
  <2> QED
    BY <2>3, <2>4
<1>4. CASE Leaves
  BY <1>4 DEF Leaves, Commits
<1>5. CASE Delivers
  BY <1>5 DEF Delivers, Commits
<1>6. CASE Aside
  BY <1>6 DEF Aside, Commits
<1>7. ASSUME NEW r \in Runs, Starts(r) PROVE FALSE
  <2>1. log' \in {log, [log EXCEPT ![r] = "open"]} /\ pc' # "tool"
    BY <1>7 DEF Starts
  <2> QED
    BY <1>1, <2>1 DEF Commits
<1>8. ASSUME NEW r \in Runs, Recovers(r) PROVE FALSE
  BY <1>1, <1>8 DEF Recovers, Commits
<1> QED
  BY <1>2, <1>3, <1>4, <1>5, <1>6, <1>7, <1>8 DEF StepKind

\* Once a run is aborted, no tool of it starts and it is not completed,
\* wherever between two of its steps the abort comes.
THEOREM HonoursAbort == Spec => AbortHonoured
<1>1. Inv /\ [Next]_vars => [Commits => ~Aborted]_vars
  BY NextKind, KindHonours
<1> QED
  BY <1>1, Invariance, PTL DEF Spec, AbortHonoured, Commits

-----------------------------------------------------------------------------
(***************************************************************************)
(* What the handler of a run knows about its file: the strengthening that  *)
(* carries ExecutionAuthorized, PlanGate and WaitAnswerable for every      *)
(* value of the constants.                                                 *)
(*                                                                         *)
(* HandlerInv relates the place of the handler with the round in the file  *)
(* (FileFollows), with the answers of callers that are on their way        *)
(* (Answers), with what the run waits for (Waiting), and with the          *)
(* projection in memory (Synced).  FileFollows speaks only of a file that  *)
(* can be read and of a handler whose last append was not refused; for an  *)
(* append that was delivered the projection has accepted the event, so     *)
(* what it changes is what Apply says.                                     *)
(***************************************************************************)

\* A call as tool.requested writes it.
Fresh(kind, planned) ==
    [kind |-> kind, planned |-> planned, approval |-> "none",
     started |-> FALSE, result |-> "none"]

Running == pc \notin {"idle", "finishing"} /\ io \in {"none", "delivering"}
Followed == Running /\ disk.valid
Planned == active.phase = "planning"

Counters ==
    /\ disk.run = active.run
    /\ disk.goal <=> pc # "starting"
    /\ disk.final <=> pc = "final"
    /\ disk.pending <=> pc \in {"requesting", "model"}
    /\ disk.iterations = IF pc = "requesting" THEN turn.requests + 1
                                              ELSE turn.requests

\* The phase in the file is the run's, but while a plan is decided.
PhaseFollows ==
    /\ pc = "proposing" =>
         active.phase = "planning" /\ disk.phase = "awaiting"
    /\ pc = "plan_wait" =>
         /\ active.phase \in {"awaiting", "executing"}
         /\ disk.phase \in {"awaiting", "executing"}
         /\ active.phase = "executing" => disk.phase = "executing"
         /\ active.wait = "approved" => active.phase = "executing"
         /\ disk.phase = "executing" => disk.round = NoRound
    /\ pc \notin {"proposing", "plan_wait"} =>
         disk.phase = active.phase /\ active.phase # "awaiting"
    /\ pc \in {"answer", "final"} => active.phase # "planning"
    /\ disk.phase = "planning" => disk.plan = "none"
    /\ disk.phase = "executing" => disk.plan = "approved"

\* The calls of the batch before the current one have their results, those
\* behind it are as they were asked for.
BatchFollows ==
    LET tools == disk.round.tools IN
    /\ disk.round.finish = "tool_calls"
    /\ DOMAIN tools = DOMAIN turn.batch
    /\ \A i \in DOMAIN tools :
          /\ tools[i].kind = turn.batch[i] /\ tools[i].planned = Planned
          /\ i < turn.at => tools[i].result # "none"
          /\ i > turn.at => tools[i] = Fresh(turn.batch[i], Planned)

\* The current call, at each place where the handler works on it.
CallFollows(tool) ==
    /\ pc = "dispatch" => tool = Fresh(Kind, Planned)
    /\ pc \in {"asking", "approval_wait", "granted"} =>
         ~tool.started /\ tool.result = "none"
    /\ pc = "tool" => /\ tool.started /\ tool.result = "none"
                      /\ tool.planned => IsPlanningTool(tool.kind)
    /\ pc = "asking" => tool.approval = "pending"
    /\ pc = "approval_wait" =>
         /\ active.wait = "approved" => tool.approval = "approved"
         /\ active.wait = "rejected" => tool.approval = "rejected"
         /\ active.ask = "open" => tool.approval = "pending"
    /\ pc \in {"granted", "tool"} =>
         /\ tool.approval \in {"none", "approved"}
         /\ "authorized" \notin Verdicts(Kind) => tool.approval = "approved"
    /\ pc \in {"recording", "settle", "hopeless"} =>
         tool.result = turn.code /\ turn.code # "none"

AtCall == pc \in {"dispatch", "asking", "approval_wait", "granted", "tool",
                  "recording", "settle", "hopeless"}

\* The round that a model request may follow.
RoundOver ==
    /\ disk.round.finish = "stop" =>
         Rejected(disk.round) \/ facts.service # "none"
    /\ disk.round.finish = "tool_calls" => ToolRoundDone(disk.round)
    /\ turn.finish = "none" => disk.round.finish = "none"
    /\ turn.finish = "tool_calls" => disk.round.finish = "tool_calls"

Collecting ==
    /\ turn.at <= Len(turn.batch) /\ Len(disk.round.tools) = turn.at
    /\ \A i \in 1..turn.at :
          disk.round.tools[i] = Fresh(turn.batch[i], Planned)

RoundFollows ==
    /\ pc = "starting" => disk.round = NoRound
    /\ pc \in {"loop", "context", "compacted"} => RoundOver
    /\ pc = "completed" =>
         disk.round = NewRound(turn.finish) /\ turn.finish # "none"
    /\ pc \in {"proposing", "plan_wait"} => turn.finish = "stop"
    /\ pc = "restate" =>
         /\ turn.finish = "stop" /\ disk.round.finish = "stop"
         /\ disk.round.rejected = "retry"
    /\ pc \in {"answer", "final"} => disk.round = NewRound("stop")
    /\ pc \in {"batch", "narrate", "collect"} =>
         /\ turn.finish = "tool_calls" /\ disk.round.finish = "tool_calls"
         /\ disk.round.rejected # "retry" /\ ~disk.round.locked
    /\ pc \in {"batch", "narrate"} =>
         disk.round.tools = << >> /\ ~disk.round.intermediate
    /\ pc = "narrate" => turn.at = 0
    /\ pc = "collect" => Collecting
    /\ AtCall => turn.finish = "tool_calls" /\ BatchFollows
                 /\ CallFollows(disk.round.tools[turn.at])

FileFollows == Followed => Counters /\ PhaseFollows /\ RoundFollows

Answering(d, kind) ==
    dec[d].io # "idle" /\ dec[d].kind = kind /\ dec[d].run = active.run

\* An answer on its way is for a run the file knows.
Addressed ==
    \A d \in Deciders : dec[d].io # "idle" =>
        /\ dec[d].io # "none" /\ dec[d].run \in Runs
        /\ log[dec[d].run] # "absent"

\* An answer to an approval: the only one, and the run waits for it.
ApprovalsAnswered ==
    \A d \in Deciders : Answering(d, "approval") =>
        /\ pc \in {"approval_wait", "finishing"} /\ active.ask = "resolved"
        /\ active.wait \in {"pending", "aborted"}
        /\ \A c \in Deciders : Answering(c, "approval") => c = d
        /\ dec[d].io = "delivering" /\ Followed =>
             disk.round.tools[turn.at].approval = AnswerTag(dec[d].yes)

\* An answer to a plan; of two that were written the file keeps none.
PlansAnswered ==
    \A d \in Deciders : Answering(d, "plan") =>
        /\ active.phase \in {"awaiting", "executing"}
        /\ dec[d].io = "delivering" /\ Followed =>
             /\ pc = "plan_wait" /\ active.wait # "approved"
             /\ disk.plan = AnswerTag(dec[d].yes)
             /\ dec[d].yes => disk.phase = "executing"
             /\ \A c \in Deciders :
                   Answering(c, "plan") /\ dec[c].io = "delivering" => c = d

Answers ==
    /\ Addressed
    /\ active.run # NoRun => ApprovalsAnswered /\ PlansAnswered

\* Where the run waits, and for what.
Waiting ==
    /\ pc \in {"asking", "approval_wait"} => active.phase # "planning"
    /\ pc \in {"approval_wait", "plan_wait"} => io = "none"
    /\ active.wait = "pending" =>
         pc \in {"approval_wait", "proposing", "plan_wait"}
    /\ active.ask = "open" => /\ pc \in {"approval_wait", "finishing"}
                              /\ active.wait \in {"pending", "aborted"}
    /\ active.plan = "open" => /\ pc \in {"proposing", "plan_wait", "finishing"}
                               /\ active.wait \in {"pending", "aborted"}
    /\ pc \in {"proposing", "plan_wait"} /\ active.wait = "pending" =>
         active.plan = "open"
    /\ pc = "approval_wait" /\ active.wait = "pending" =>
         \/ active.ask = "open"
         \/ active.ask = "resolved" /\ \E d \in Deciders : Answering(d, "approval")
    /\ pc = "proposing" =>
         active.wait \in {"pending", "aborted"} /\ active.phase = "planning"

\* The projection in memory: as long as it follows, the file can be read.
Synced ==
    /\ pc = "idle" => synced
    /\ pc # "idle" /\ synced => disk.valid
    /\ io = "delivering" => synced
    /\ Running /\ (Planned \/ pc = "proposing") => synced
    /\ pc = "proposing" => io # "history_error"
    /\ pc \in {"idle", "starting"} => turn = NoTurn /\ facts = NoFacts

HandlerInv == FileFollows /\ Answers /\ Waiting /\ Synced
Strong == Inv /\ HandlerInv

-----------------------------------------------------------------------------
(* What an accepted event changes.                                         *)

\* Everything but the round and the goal.
Same(d, u) ==
    /\ u.valid = d.valid /\ u.run = d.run /\ u.final = d.final
    /\ u.pending = d.pending /\ u.iterations = d.iterations
    /\ u.phase = d.phase /\ u.plan = d.plan

\* The goal, a compaction, a warning.
LEMMA GoalApplied ==
  ASSUME NEW d \in Histories, NEW e, e.type = "user.message"
  PROVE  LET u == Apply(d, e) IN
         Same(d, u) /\ u.goal = TRUE /\ u.round = d.round
<1>1. Apply(d, e) = [d EXCEPT !.goal = TRUE]
  BY DEF Apply, Terminal
<1> QED
  BY <1>1 DEF Histories, Same

LEMMA NothingApplied ==
  ASSUME NEW d \in Histories, NEW e,
         e.type \in {"context.compacted", "validation.repair.warning"}
  PROVE  Apply(d, e) = d
  BY DEF Apply, Terminal

\* A model request and its answer.
LEMMA RequestApplied ==
  ASSUME NEW d \in Histories, NEW e, e.type = "model.requested"
  PROVE  LET u == Apply(d, e) IN
         /\ u.valid = d.valid /\ u.run = d.run /\ u.final = d.final
         /\ u.phase = d.phase /\ u.plan = d.plan /\ u.goal = d.goal
         /\ u.iterations = e.n /\ u.pending = TRUE /\ u.round = NoRound
<1>1. Apply(d, e) = RequestModel(d, e.n)
  BY DEF Apply, Terminal
<1> QED
  BY <1>1 DEF Histories, RequestModel

LEMMA CompletionApplied ==
  ASSUME NEW d \in Histories, NEW e, e.type = "model.completed",
         e.tag \in {"stop", "tool_calls"}
  PROVE  LET u == Apply(d, e) IN
         /\ u.valid = d.valid /\ u.run = d.run /\ u.final = d.final
         /\ u.phase = d.phase /\ u.plan = d.plan /\ u.goal = d.goal
         /\ u.iterations = d.iterations /\ u.pending = FALSE
         /\ u.round = NewRound(e.tag)
<1>1. Apply(d, e) = [d EXCEPT !.pending = FALSE, !.round = NewRound(e.tag)]
  BY DEF Apply, Terminal
<1> QED
  BY <1>1 DEF Histories

\* The corrections of a round.
LEMMA CorrectionApplied ==
  ASSUME NEW d \in Histories, NEW e,
         e.type \in {"model.output.rejected", "completion.evidence.rejected",
                     "write.dependency.rejected"}
  PROVE  LET u == Apply(d, e) IN
         /\ Same(d, u) /\ u.goal = d.goal
         /\ u.round.finish = d.round.finish /\ u.round.tools = d.round.tools
         /\ u.round.locked = d.round.locked
         /\ u.round.intermediate = d.round.intermediate
         /\ e.type = "model.output.rejected" => u.round.rejected =
              (IF e.tag = "retry" THEN "retry" ELSE "suppressed")
         /\ e.type # "model.output.rejected" => Rejected(u.round)
<1>1. d.round \in Rounds
  BY DEF Histories
<1>2. \/ /\ e.type = "model.output.rejected"
         /\ Apply(d, e) = [d EXCEPT !.round = [d.round EXCEPT !.rejected =
              IF e.tag = "retry" THEN "retry" ELSE "suppressed"]]
      \/ /\ e.type # "model.output.rejected"
         /\ \/ Apply(d, e) = [d EXCEPT !.round = [d.round EXCEPT !.evidence = TRUE]]
            \/ Apply(d, e) = [d EXCEPT !.round = [d.round EXCEPT !.dependency = TRUE]]
  BY <1>1 DEF Apply, Terminal, Histories
<1> QED
  BY <1>1, <1>2 DEF Histories, Rounds, Same, Rejected

\* Messages of the assistant.
LEMMA FinalApplied ==
  ASSUME NEW d \in Histories, NEW e, e.type = "assistant.message",
         e.tag = "final"
  PROVE  LET u == Apply(d, e) IN
         /\ u.valid = d.valid /\ u.run = d.run /\ u.final = TRUE
         /\ u.pending = d.pending /\ u.iterations = d.iterations
         /\ u.phase = d.phase /\ u.plan = d.plan /\ u.goal = d.goal
         /\ u.round = d.round
<1>1. Apply(d, e) = [d EXCEPT !.final = TRUE]
  BY DEF Apply, Terminal, AssistantMessage
<1> QED
  BY <1>1 DEF Histories

LEMMA NarrativeApplied ==
  ASSUME NEW d \in Histories, NEW e, e.type = "assistant.message",
         e.tag # "final"
  PROVE  LET u == Apply(d, e) IN
         /\ Same(d, u) /\ u.goal = d.goal
         /\ u.round.finish = d.round.finish /\ u.round.tools = d.round.tools
         /\ u.round.locked = d.round.locked
         /\ u.round.rejected = d.round.rejected
<1>1. d.round \in Rounds
  BY DEF Histories
<1>2. Apply(d, e) = [d EXCEPT !.round = [d.round EXCEPT !.intermediate = TRUE]]
  BY DEF Apply, Terminal, AssistantMessage, Histories
<1> QED
  BY <1>1, <1>2 DEF Histories, Rounds, Same

\* A call that is asked for.
LEMMA RequestedApplied ==
  ASSUME NEW d \in Histories, NEW e, e.type = "tool.requested"
  PROVE  LET u == Apply(d, e) IN
         /\ Same(d, u) /\ u.goal = d.goal
         /\ u.round.finish = d.round.finish /\ u.round.locked = d.round.locked
         /\ u.round.rejected = d.round.rejected
         /\ u.round.tools = Append(d.round.tools,
                                   Fresh(e.tag, d.phase = "planning"))
<1>1. d.round \in Rounds
  BY DEF Histories
<1> DEFINE tools == Append(d.round.tools, Fresh(e.tag, d.phase = "planning"))
<1>2. Apply(d, e) = [d EXCEPT !.round = [d.round EXCEPT !.tools = tools]]
  BY DEF Apply, Terminal, RequestTool, Histories, Fresh
<1> HIDE DEF tools
<1>3. Apply(d, e).round.tools = tools
  BY <1>1, <1>2 DEF Histories, Rounds
<1>4. /\ Same(d, Apply(d, e)) /\ Apply(d, e).goal = d.goal
      /\ Apply(d, e).round.finish = d.round.finish
      /\ Apply(d, e).round.locked = d.round.locked
      /\ Apply(d, e).round.rejected = d.round.rejected
  BY <1>1, <1>2 DEF Histories, Rounds, Same
<1> QED
  BY <1>3, <1>4 DEF tools

\* One call of the round is another; the others stay.
Updated(d, u, n, tool) ==
    /\ Same(d, u) /\ u.goal = d.goal /\ u.round.finish = d.round.finish
    /\ u.round.tools = [d.round.tools EXCEPT ![n] = tool]

LEMMA UpdateApplied ==
  ASSUME NEW d \in Histories, NEW n, NEW tool
  PROVE  Updated(d, UpdateTool(d, n, tool), n, tool)
<1>1. d.round \in Rounds
  BY DEF Histories
<1> DEFINE tools == [d.round.tools EXCEPT ![n] = tool]
           round == RoundWith(d.round, n, tool)
<1>2. round = [d.round EXCEPT !.locked = TRUE, !.tools = tools]
  BY <1>1 DEF RoundWith, Rounds
<1>3. UpdateTool(d, n, tool) = [d EXCEPT !.round = round]
  BY DEF UpdateTool
<1> HIDE DEF tools
<1>4. round.finish = d.round.finish /\ round.tools = tools
  BY <1>1, <1>2 DEF Rounds
<1> HIDE DEF round
<1>5. UpdateTool(d, n, tool).round = round
  BY <1>3 DEF Histories
<1>6. Same(d, UpdateTool(d, n, tool)) /\ UpdateTool(d, n, tool).goal = d.goal
  BY <1>3 DEF Histories, Same
<1> QED
  BY <1>4, <1>5, <1>6 DEF Updated, tools

LEMMA CallApplied ==
  ASSUME NEW d \in Histories, NEW e
  PROVE  LET tool == d.round.tools[e.n] IN
         /\ e.type = "approval.required" =>
              Updated(d, Apply(d, e), e.n, [tool EXCEPT !.approval = "pending"])
         /\ e.type = "approval.resolved" =>
              Updated(d, Apply(d, e), e.n, [tool EXCEPT !.approval =
                         IF e.tag = "approved" THEN "approved" ELSE "rejected"])
         /\ e.type = "tool.started" =>
              Updated(d, Apply(d, e), e.n, [tool EXCEPT !.started = TRUE])
<1>1. CASE e.type = "approval.required"
  BY <1>1, UpdateApplied DEF Apply, Terminal, RequireApproval
<1>2. CASE e.type = "approval.resolved"
  BY <1>2, UpdateApplied DEF Apply, Terminal, ResolveApproval
<1>3. CASE e.type = "tool.started"
  BY <1>3, UpdateApplied DEF Apply, Terminal, StartTool
<1> QED
  BY <1>1, <1>2, <1>3

LEMMA ResultApplied ==
  ASSUME NEW d \in Histories, NEW e, e.type = "tool.result", e.tag \in Codes
  PROVE  Updated(d, Apply(d, e), e.n, [d.round.tools[e.n] EXCEPT !.result = e.tag])
<1> DEFINE tool == d.round.tools[e.n]
           after == [tool EXCEPT !.result = e.tag]
           u == UpdateTool(d, e.n, after)
           streak == Streak(d.sig, d.errs, tool.kind, e.tag)
           handoff == d.handoff \/ (tool.started /\ tool.kind = "service")
           v == [u EXCEPT !.sig = streak.sig, !.errs = streak.errs,
                          !.handoff = handoff]
<1>1. Updated(d, u, e.n, after)
  BY UpdateApplied
<1>2. Apply(d, e) = RecordResult(d, e.n, e.tag)
  BY DEF Apply, Terminal
<1>3. u = [d EXCEPT !.round = RoundWith(d.round, e.n, after)]
  BY DEF UpdateTool
<1>4. u.handoff = d.handoff
  BY <1>3 DEF Histories
<1>5. RecordResult(d, e.n, e.tag) = v
  BY <1>4 DEF RecordResult
<1> HIDE DEF streak, handoff, after
<1>6. Same(u, v) /\ v.goal = u.goal /\ v.round = u.round
  BY <1>3 DEF Histories, Same
<1> HIDE DEF u, v
<1>7. Updated(d, v, e.n, after)
  BY <1>1, <1>6 DEF Updated, Same
<1> QED
  BY <1>2, <1>5, <1>7 DEF after

\* A plan and the answer to it.
LEMMA ProposalApplied ==
  ASSUME NEW d \in Histories, NEW e, e.type = "plan.proposed"
  PROVE  LET u == Apply(d, e) IN
         /\ u.valid = d.valid /\ u.run = d.run /\ u.final = d.final
         /\ u.pending = d.pending /\ u.iterations = d.iterations
         /\ u.goal = d.goal /\ u.round = d.round
         /\ u.plan = "proposed" /\ u.phase = "awaiting"
<1>1. Apply(d, e) = [d EXCEPT !.plan = "proposed", !.phase = "awaiting"]
  BY DEF Apply, Terminal
<1> QED
  BY <1>1 DEF Histories

LEMMA AnswerApplied ==
  ASSUME NEW d \in Histories, NEW e, e.type = "plan.approval.resolved"
  PROVE  LET u == Apply(d, e) IN
         /\ u.valid = d.valid /\ u.run = d.run /\ u.final = d.final
         /\ u.pending = d.pending /\ u.iterations = d.iterations
         /\ u.goal = d.goal
         /\ e.tag = "approved" => /\ u.plan = "approved" /\ u.phase = "executing"
                                  /\ u.round = NoRound
         /\ e.tag # "approved" => /\ u.plan = "rejected" /\ u.phase = d.phase
                                  /\ u.round = d.round
<1>1. Apply(d, e) = ResolvePlan(d, e.tag)
  BY DEF Apply, Terminal
<1> QED
  BY <1>1 DEF Histories, ResolvePlan

LEMMA StartApplied ==
  ASSUME NEW d \in Histories, NEW e, e.type = "run.started"
  PROVE  LET u == Apply(d, e) IN
         /\ u.valid = TRUE /\ u.run = e.run /\ u.final = FALSE
         /\ u.pending = FALSE /\ u.iterations = 0 /\ u.goal = FALSE
         /\ u.plan = "none" /\ u.round = NoRound
         /\ u.phase = IF e.tag = "planning" THEN "planning" ELSE "normal"
<1>1. Apply(d, e) = StartRun(d, e)
  BY DEF Apply, Terminal
<1> QED
  BY <1>1 DEF StartRun, EmptyHistory

-----------------------------------------------------------------------------
(* An append, of the handler or of a caller.                               *)

\* An event that is accepted leaves a file that can be read.
LEMMA ValidApplied ==
  ASSUME NEW d \in Histories, NEW e \in Events, Accepts(d, e)
  PROVE  Apply(d, e).valid
<1>1. /\ d.valid /\ e.type \in EventTypes /\ e.tag \in Tags
      /\ e.type = "tool.result" => e.tag \in Codes
  BY DEF Accepts, Events
<1>2. CASE e.type = "run.started"
  BY <1>2, StartApplied
<1>3. CASE e.type \in {"user.message", "context.compacted",
                       "validation.repair.warning"}
  <2>1. CASE e.type = "user.message"
    BY <1>1, <2>1, GoalApplied DEF Same
  <2> QED
    BY <1>1, <1>3, <2>1, NothingApplied
<1>4. CASE e.type \in {"model.requested", "plan.proposed",
                       "plan.approval.resolved"}
  BY <1>1, <1>4, RequestApplied, ProposalApplied, AnswerApplied
<1>5. CASE e.type = "model.completed"
  <2>1. \E finish : Apply(d, e) = [d EXCEPT !.pending = FALSE,
                                           !.round = NewRound(finish)]
    BY <1>5 DEF Apply, Terminal
  <2> QED
    BY <1>1, <2>1 DEF Histories
<1>6. CASE e.type \in {"model.output.rejected", "completion.evidence.rejected",
                       "write.dependency.rejected", "assistant.message",
                       "tool.requested"}
  <2>1. CASE e.type \in {"model.output.rejected",
                         "completion.evidence.rejected",
                         "write.dependency.rejected"}
    BY <1>1, <2>1, CorrectionApplied DEF Same
  <2>2. CASE e.type = "assistant.message" /\ e.tag = "final"
    BY <1>1, <2>2, FinalApplied
  <2>3. CASE e.type = "assistant.message" /\ e.tag # "final"
    BY <1>1, <2>3, NarrativeApplied DEF Same
  <2>4. CASE e.type = "tool.requested"
    BY <1>1, <2>4, RequestedApplied DEF Same
  <2> QED
    BY <1>6, <2>1, <2>2, <2>3, <2>4
<1>7. CASE e.type \in {"approval.required", "approval.resolved",
                       "tool.started", "tool.result"}
  BY <1>1, <1>7, CallApplied, ResultApplied DEF Updated, Same
<1>8. CASE e.type \in Terminal
  BY <1>8 DEF Apply, Terminal, EmptyHistory
<1> QED
  BY <1>1, <1>2, <1>3, <1>4, <1>5, <1>6, <1>7, <1>8 DEF EventTypes, Ordinary

\* What an append does to the file and to the projection in memory.
LEMMA Appended ==
  ASSUME TypeOK, synced => disk.valid,
         NEW e \in Events, NEW result, Appends(e, result)
  PROVE  /\ synced' => disk'.valid
         /\ result = "delivering" => synced' /\ Accepts(disk, e)
                                     /\ disk' = Apply(disk, e)
         /\ disk'.valid => \/ disk' = disk
                           \/ Accepts(disk, e) /\ disk' = Apply(disk, e)
         /\ synced /\ Accepts(disk, e) => result # "history_error"
<1>1. disk \in Histories
  BY DEF TypeOK
<1>2. ASSUME Write(e)
      PROVE  /\ Accepts(disk, e) => disk' = Apply(disk, e) /\ disk'.valid
             /\ ~Accepts(disk, e) => ~disk'.valid
  <2>1. CASE Accepts(disk, e)
    BY <1>1, <1>2, <2>1, ValidApplied DEF Write, Project
  <2>2. CASE ~Accepts(disk, e)
    BY <1>2, <2>2 DEF Write, Project, Unreadable, EmptyHistory
  <2> QED
    BY <2>1, <2>2
<1>3. CASE /\ Write(e) /\ synced' = (synced /\ Accepts(disk, e))
           /\ result = IF synced' THEN "delivering" ELSE "history_error"
  <2>1. synced' <=> synced /\ Accepts(disk, e)
    BY <1>3
  <2> QED
    BY <1>2, <1>3, <2>1
<1>4. CASE result = "store_error" /\ UNCHANGED durable
  BY <1>4 DEF durable
<1>5. CASE result = "store_error" /\ Write(e) /\ synced' = FALSE
  BY <1>2, <1>5
<1> QED
  BY <1>3, <1>4, <1>5 DEF Appends

\* The handler has appended e and continues at l.
Writes(e, l) ==
    /\ pc' = l /\ dec' = dec /\ log' = log /\ io' \in Outcomes
    /\ synced' => disk'.valid
    /\ io' = "delivering" => synced' /\ Accepts(disk, e)
                             /\ disk' = Apply(disk, e)
    /\ synced /\ Accepts(disk, e) => io' # "history_error"

LEMMA SentWrites ==
  ASSUME Strong, pc # "idle", NEW type \in Ordinary, NEW n \in Nat,
         NEW tag \in Tags, NEW l,
         type = "tool.requested" => tag \in Kinds,
         type = "tool.result" => tag \in Codes,
         Send(RunEvent(type, n, tag), l)
  PROVE  \E e \in Events : /\ e.type = type /\ e.n = n /\ e.tag = tag
                           /\ e.run = active.run /\ Writes(e, l)
<1>1. TypeOK /\ Ownership /\ (synced => disk.valid)
  BY DEF Strong, Inv, HandlerInv, Synced
<1>2. active.run \in Runs
  BY <1>1, Owned
<1> DEFINE e == RunEvent(type, n, tag)
<1>3. e \in Events
  BY <1>2, RunEventType DEF EventTypes
<1>4. e.type = type /\ e.n = n /\ e.tag = tag /\ e.run = active.run
  BY DEF RunEvent, Event
<1>5. PICK result \in Outcomes : Appends(e, result) /\ io' = result
  BY DEF Send
<1>6. log' = log /\ pc' = l /\ dec' = dec
  BY <1>1, <1>2, SendKind DEF Send, others
<1> HIDE DEF e
<1>7. Writes(e, l)
  BY <1>1, <1>3, <1>5, <1>6, Appended DEF Writes
<1> QED
  BY <1>3, <1>4, <1>7

\* If the file is followed after an append, it was followed before, and the
\* event has been accepted.
LEMMA WritesFollow ==
  ASSUME Strong, io = "none", pc \notin {"idle", "finishing"},
         NEW e, NEW l, Writes(e, l), Followed'
  PROVE  /\ Accepts(disk, e) /\ disk' = Apply(disk, e)
         /\ disk.valid /\ Counters /\ PhaseFollows /\ RoundFollows
<1>1. Accepts(disk, e) /\ disk' = Apply(disk, e)
  BY DEF Writes, Followed, Running, Outcomes
<1>2. disk.valid
  BY <1>1 DEF Accepts
<1> QED
  BY <1>1, <1>2 DEF Strong, HandlerInv, FileFollows, Followed, Running

-----------------------------------------------------------------------------
(* The steps that leave the run, and the aborts.                           *)

\* The run writes its end.
LEMMA FinishKeeps ==
  ASSUME Strong, Inv', NEW how \in {"run.completed", "run.failed", "run.cancelled"},
         pc \notin {"idle", "finishing"},
         pc \in {"approval_wait", "proposing", "plan_wait"} =>
             active.wait # "pending",
         ~(pc = "starting" /\ io = "store_error"),
         how = "run.completed" => ~Aborted,
         FinishAs(how)
  PROVE  HandlerInv'
<1>1. TypeOK /\ Ownership /\ Answers /\ Waiting /\ Synced /\ active \in Actives
  BY DEF Strong, Inv, HandlerInv, TypeOK
<1>2. active.run \in Runs /\ active.run # NoRun
  BY <1>1, Owned
<1>3. /\ pc' = "finishing" /\ dec' = dec
      /\ active'.run = active.run /\ active'.phase = active.phase
      /\ active'.ask = active.ask /\ active'.wait = active.wait
      /\ active'.plan \in {active.plan, "none"}
  BY <1>1 DEF FinishAs, Send, others, Actives
<1>4. active.wait # "pending"
  BY <1>1 DEF Waiting
<1>5. \A r \in Runs : log[r] # "absent" => log'[r] # "absent"
  <2>1. Finishes
    BY <1>1, <1>2, FinishAsKind
  <2>2. log' = log \/ \E end \in Ends : log' = [log EXCEPT ![active.run] = end]
    BY <2>1 DEF Finishes
  <2> QED
    BY <1>1, <2>2 DEF TypeOK, Ends
<1>6. (synced' => disk'.valid) /\ (io' = "delivering" => synced')
  <2> DEFINE e == RunEvent(how, turn.requests, "")
  <2>1. PICK result \in Outcomes : Appends(e, result) /\ io' = result
    BY DEF FinishAs, Send
  <2>2. e \in Events
    <3>1. turn.requests \in Nat
      BY <1>1 DEF TypeOK, Turns
    <3> QED
      BY <1>2, <3>1, RunEventType DEF EventTypes, Terminal, Tags
  <2> HIDE DEF e
  <2> QED
    BY <1>1, <2>1, <2>2, Appended DEF Synced
<1>7. FileFollows'
  BY <1>3 DEF FileFollows, Followed, Running
<1>8. Answers'
  BY <1>1, <1>2, <1>3, <1>4, <1>5 DEF Answers, Addressed, ApprovalsAnswered,
     PlansAnswered, Answering, Followed, Running
<1>9. Waiting'
  BY <1>1, <1>3, <1>4 DEF Waiting
<1>10. Synced'
  BY <1>3, <1>6 DEF Synced, Running
<1> QED
  BY <1>7, <1>8, <1>9, <1>10 DEF HandlerInv

LEMMA FinishFromErrorKeeps ==
  ASSUME Strong, Inv', pc \notin {"idle", "finishing"},
         pc \in {"approval_wait", "proposing", "plan_wait"} =>
             active.wait # "pending",
         ~(pc = "starting" /\ io = "store_error"),
         FinishFromError
  PROVE  HandlerInv'
  BY FinishKeeps DEF FinishFromError

\* The run is forgotten; the answers on their way are not, or all are.
LEMMA ForgetKeeps ==
  ASSUME Strong, Forget,
         dec' = dec \/ dec' = [d \in Deciders |-> NoDecision]
  PROVE  HandlerInv'
<1>1. Addressed /\ TypeOK
  BY DEF Strong, Inv, HandlerInv, Answers
<1>2. /\ active' = NoActive /\ turn' = NoTurn /\ facts' = NoFacts
      /\ pc' = "idle" /\ io' = "none" /\ synced' = TRUE /\ log' = log
  BY DEF Forget
<1>3. Addressed'
  <2>1. CASE dec' = dec
    BY <1>1, <1>2, <2>1 DEF Addressed
  <2>2. CASE dec' = [d \in Deciders |-> NoDecision]
    BY <2>2 DEF Addressed, NoDecision
  <2> QED
    BY <2>1, <2>2
<1> QED
  BY <1>2, <1>3 DEF HandlerInv, FileFollows, Followed, Running, Answers,
     Waiting, Synced, NoActive

\* Only an abort, and whether the last append has been taken.
Touched ==
    /\ pc' = pc /\ turn' = turn /\ facts' = facts /\ dec' = dec
    /\ disk' = disk /\ synced' = synced /\ log' = log
    /\ io' = io \/ (io = "delivering" /\ io' = "none")
    /\ active'.run = active.run /\ active'.phase = active.phase
    /\ active'.ask = active.ask /\ active'.plan = active.plan
    /\ \/ active'.wait = active.wait
       \/ active.wait = "pending" /\ active'.wait = "aborted"

LEMMA TouchedFile ==
  ASSUME Strong, Touched
  PROVE  FileFollows'
<1>1. SUFFICES ASSUME Followed' PROVE Counters' /\ PhaseFollows' /\ RoundFollows'
  BY DEF FileFollows
<1>2. Counters /\ PhaseFollows /\ RoundFollows
  BY <1>1 DEF Strong, HandlerInv, FileFollows, Followed, Running, Touched
<1>3. Counters'
  BY <1>2 DEF Counters, Touched
<1>4. PhaseFollows'
  BY <1>2 DEF PhaseFollows, Touched
<1>5. Kind' = Kind /\ Planned' = Planned
  BY DEF Kind, Planned, Touched
<1>6. \A tool : CallFollows(tool) => CallFollows(tool)'
  BY <1>5 DEF CallFollows, Touched, Verdicts
<1>7. RoundFollows'
  BY <1>2, <1>5, <1>6 DEF RoundFollows, RoundOver, Collecting, AtCall,
     BatchFollows, Touched
<1> QED
  BY <1>3, <1>4, <1>7

LEMMA TouchedKeeps ==
  ASSUME Strong, Touched
  PROVE  HandlerInv'
<1>1. TypeOK /\ Ownership /\ Answers /\ Waiting /\ Synced /\ active \in Actives
  BY DEF Strong, Inv, HandlerInv, TypeOK
<1>2. Followed' <=> Followed
  BY DEF Touched, Followed, Running
<1>3. \A d, kind : Answering(d, kind)' <=> Answering(d, kind)
  BY DEF Touched, Answering
<1>4. Answers'
  <2>1. Addressed'
    BY <1>1 DEF Touched, Answers, Addressed
  <2>2. active.run # NoRun => ApprovalsAnswered'
    BY <1>1, <1>2, <1>3 DEF Touched, Answers, ApprovalsAnswered
  <2>3. active.run # NoRun => PlansAnswered'
    BY <1>1, <1>2, <1>3 DEF Touched, Answers, PlansAnswered
  <2> QED
    BY <2>1, <2>2, <2>3 DEF Answers, Touched
<1>5. Waiting'
  BY <1>1, <1>3 DEF Touched, Waiting
<1>6. Synced'
  BY <1>1 DEF Touched, Synced, Running, Planned
<1> QED
  BY <1>4, <1>5, <1>6, TouchedFile DEF HandlerInv

\* An abort rejects the wait and changes nothing else the run waits for.
LEMMA AbortedByTouches ==
  ASSUME NEW a \in Actives, NEW source
  PROVE  LET b == AbortedBy(a, source) IN
         /\ b.run = a.run /\ b.phase = a.phase /\ b.ask = a.ask
         /\ b.plan = a.plan
         /\ b.wait = a.wait \/ (a.wait = "pending" /\ b.wait = "aborted")
<1> DEFINE wait == IF a.wait = "pending" THEN "aborted" ELSE a.wait
<1>1. CASE a.abort = "none" /\ ~a.ending
  <2>1. AbortedBy(a, source) = [a EXCEPT !.abort = source, !.wait = wait]
    BY <1>1 DEF AbortedBy, Actives
  <2>2. wait = a.wait \/ (a.wait = "pending" /\ wait = "aborted")
    OBVIOUS
  <2> HIDE DEF wait
  <2> QED
    BY <2>1, <2>2 DEF Actives
<1>2. CASE ~(a.abort = "none" /\ ~a.ending)
  BY <1>2 DEF AbortedBy
<1> QED
  BY <1>1, <1>2

LEMMA SinkThrowsTouches ==
  ASSUME NEW a \in Actives
  PROVE  LET b == SinkThrows(a) IN
         /\ b.run = a.run /\ b.phase = a.phase /\ b.ask = a.ask
         /\ b.plan = a.plan
         /\ b.wait = a.wait \/ (a.wait = "pending" /\ b.wait = "aborted")
<1> DEFINE off == [a EXCEPT !.sink = "off"]
<1>1. /\ off \in Actives /\ off.run = a.run /\ off.phase = a.phase
      /\ off.ask = a.ask /\ off.plan = a.plan /\ off.wait = a.wait
  BY DEF Actives
<1>2. SinkThrows(a) = AbortedBy(off, "sink")
  BY DEF SinkThrows
<1> HIDE DEF off
<1> QED
  BY <1>1, <1>2, AbortedByTouches

\* The result of an append arrives.
LEMMA AppendReturnsKeeps ==
  ASSUME Strong, Inv', AppendReturns
  PROVE  HandlerInv'
<1>1. TypeOK /\ Ownership /\ Waiting /\ Synced /\ active \in Actives
  BY DEF Strong, Inv, HandlerInv, TypeOK
<1>2. CASE Deliver
  <2>1. active' = active \/ active' = SinkThrows(active)
    BY <1>2 DEF Deliver
  <2>2. Touched
    BY <1>1, <1>2, <2>1, SinkThrowsTouches DEF Deliver, Touched, durable, others
  <2> QED
    BY <2>2, TouchedKeeps
<1>3. CASE Leave
  BY <1>3, ForgetKeeps DEF Leave, others
<1>4. CASE HistoryError
  <2>1. CASE Leave
    BY <1>3, <2>1
  <2>2. CASE FinishFromError /\ pc # "starting" /\ ~active.ending
    <3>1. pc \notin {"idle", "finishing"} /\ io = "history_error"
      BY <1>1, <1>4, <2>2 DEF HistoryError, Ownership
    <3>2. pc \notin {"approval_wait", "proposing", "plan_wait"}
      BY <1>1, <3>1 DEF Waiting, Synced
    <3> QED
      BY <2>2, <3>1, <3>2, FinishFromErrorKeeps
  <2> QED
    BY <1>4, <2>1, <2>2 DEF HistoryError
<1> QED
  BY <1>2, <1>3, <1>4 DEF AppendReturns, StoreError

LEMMA AbortStepKeeps ==
  ASSUME Strong, AbortStep
  PROVE  HandlerInv'
<1>1. PICK source : /\ active' = AbortedBy(active, source)
                    /\ UNCHANGED <<durable, pc, io, turn, facts, others>>
  BY DEF AbortStep, Abort
<1>2. active \in Actives
  BY DEF Strong, Inv, TypeOK
<1>3. Touched
  BY <1>1, <1>2, AbortedByTouches DEF Touched, durable, others
<1> QED
  BY <1>3, TouchedKeeps

-----------------------------------------------------------------------------
(* The steps that stay in the run.                                         *)

Moves ==
    /\ pc \notin {"idle", "finishing"} /\ io = "none"
    /\ pc' \notin {"idle", "starting", "finishing"}
    /\ active'.run = active.run /\ dec' = dec /\ log' = log
    /\ pc = "approval_wait" => active.wait \in {"approved", "rejected"}
    /\ pc = "plan_wait" => active.wait = "approved"
    /\ active'.phase = active.phase \/ pc = "proposing"
    /\ \/ /\ disk' = disk /\ synced' = synced /\ io' = io
          /\ pc' # "proposing"
       \/ /\ io' \in Outcomes /\ (synced' => disk'.valid)
          /\ io' = "delivering" => synced' /\ disk.valid
    /\ pc' = "proposing" => io' # "history_error"

LEMMA MovesFollow ==
  ASSUME Moves, Followed'
  PROVE  Followed
  BY DEF Moves, Followed, Running, Outcomes

LEMMA MovesKeep ==
  ASSUME Strong, Moves, Waiting', FileFollows'
  PROVE  HandlerInv'
<1>1. TypeOK /\ Ownership /\ Answers /\ Waiting /\ Synced
  BY DEF Strong, Inv, HandlerInv
<1>2. \A d, kind : Answering(d, kind)' <=> Answering(d, kind)
  BY DEF Moves, Answering
<1>3. Addressed'
  BY <1>1 DEF Moves, Answers, Addressed
<1>4. active.run # NoRun => ApprovalsAnswered /\ PlansAnswered
  BY <1>1 DEF Answers
<1>5. active.run # NoRun => ApprovalsAnswered'
  <2>1. active.run # NoRun => \A d \in Deciders : ~Answering(d, "approval")
    BY <1>4 DEF Moves, ApprovalsAnswered
  <2> QED
    BY <1>2, <2>1 DEF ApprovalsAnswered
<1>6. active.run # NoRun => PlansAnswered'
  <2>1. SUFFICES ASSUME active.run # NoRun, NEW d \in Deciders,
                        Answering(d, "plan")
                 PROVE  /\ active'.phase \in {"awaiting", "executing"}
                        /\ ~(dec[d].io = "delivering" /\ Followed')
    BY <1>2 DEF PlansAnswered, Moves
  <2>2. active.phase \in {"awaiting", "executing"}
    BY <1>4, <2>1 DEF PlansAnswered
  <2>3. pc # "proposing"
    BY <1>1, <2>2 DEF Waiting
  <2>4. ~(dec[d].io = "delivering" /\ Followed)
    BY <1>4, <2>1 DEF PlansAnswered, Moves
  <2> QED
    BY <2>2, <2>3, <2>4, MovesFollow DEF Moves
<1>7. Answers'
  BY <1>3, <1>5, <1>6 DEF Answers, Moves
<1>8. Synced'
  <2>1. synced' => disk'.valid
    BY <1>1 DEF Moves, Synced
  <2>2. Running' /\ (Planned' \/ pc' = "proposing") => synced'
    <3>1. CASE disk' = disk /\ synced' = synced /\ io' = io /\ pc' # "proposing"
      BY <1>1, <3>1 DEF Moves, Synced, Running, Planned
    <3>2. CASE io' \in Outcomes
      BY <3>2 DEF Moves, Running, Outcomes
    <3> QED
      BY <3>1, <3>2 DEF Moves
  <2> QED
    BY <1>1, <2>1, <2>2 DEF Moves, Synced
<1> QED
  BY <1>7, <1>8 DEF HandlerInv

\* Most steps are between places where the run waits for nobody.
Places == {"starting", "loop", "context", "compacted", "requesting", "model",
           "completed", "restate", "answer", "final", "batch", "narrate",
           "collect", "dispatch", "asking", "granted", "tool", "recording",
           "settle", "hopeless"}
Targets == Places \ {"starting", "asking"}

LEMMA PlainWaiting ==
  ASSUME Strong, pc \in Places, pc' \in Targets, active' = active
  PROVE  Waiting'
  BY DEF Strong, HandlerInv, Waiting, Places, Targets

LEMMA PlainWrites ==
  ASSUME Strong, pc \in Places, io = "none", active' = active,
         NEW l \in Targets, NEW e, Writes(e, l), FileFollows'
  PROVE  HandlerInv'
<1>1. Moves
  BY DEF Moves, Writes, Places, Targets, Accepts
<1>2. Waiting'
  BY PlainWaiting DEF Writes
<1> QED
  BY <1>1, <1>2, MovesKeep

LEMMA PlainGoto ==
  ASSUME Strong, pc \in Places, io = "none", active' = active,
         NEW l \in Targets, Goto(l), FileFollows'
  PROVE  HandlerInv'
<1>1. log' = log /\ disk' = disk /\ synced' = synced /\ io' = io
      /\ dec' = dec /\ pc' = l
  BY DEF Goto, durable, others
<1>2. Moves
  BY <1>1 DEF Moves, Places, Targets
<1>3. Waiting'
  BY <1>1, PlainWaiting
<1> QED
  BY <1>2, <1>3, MovesKeep

\* What is known where the handler goes on without an append.
LEMMA GotoFollows ==
  ASSUME Strong, io = "none", pc \notin {"idle", "finishing"},
         NEW l, Goto(l), Followed'
  PROVE  /\ disk' = disk /\ disk.valid /\ pc' = l
         /\ Counters /\ PhaseFollows /\ RoundFollows
  BY DEF Strong, HandlerInv, FileFollows, Followed, Running, Goto, durable

-----------------------------------------------------------------------------
(* The steps of the handler, one after the other.                          *)

LEMMA Followings ==
  ASSUME Followed' => Counters' /\ PhaseFollows' /\ RoundFollows'
  PROVE  FileFollows'
  BY DEF FileFollows

LEMMA NoRoundFields ==
  /\ NoRound.finish = "none" /\ NoRound = NewRound("none")
  /\ \A finish : /\ NewRound(finish).finish = finish
                 /\ NewRound(finish).rejected = "none"
                 /\ ~NewRound(finish).locked /\ ~NewRound(finish).intermediate
                 /\ NewRound(finish).tools = << >>
  BY DEF NoRound, NewRound

\* The goal, and the check of the limits before a request.
LEMMA GoalKeeps ==
  ASSUME Strong, Inv', Goal
  PROVE  HandlerInv'
<1>1. pc = "starting" /\ io = "none" /\ disk \in Histories /\ turn = NoTurn
  BY DEF Goal, At, Strong, Inv, TypeOK, HandlerInv, Synced
<1>2. CASE FinishFromError
  BY <1>1, <1>2, FinishFromErrorKeeps
<1>3. CASE Record("user.message", 0, "", "loop")
  <2>1. PICK e \in Events : e.type = "user.message" /\ Writes(e, "loop")
    BY <1>1, <1>3, SentWrites DEF Record, Ordinary, Tags
  <2>2. active' = active /\ turn' = turn /\ facts' = facts /\ pc' = "loop"
    BY <1>3 DEF Record, Send
  <2>3. ASSUME Followed' PROVE Counters' /\ PhaseFollows' /\ RoundFollows'
    <3>1. /\ disk' = Apply(disk, e)
          /\ Counters /\ PhaseFollows /\ RoundFollows
      BY <1>1, <2>1, <2>3, WritesFollow
    <3>2. Same(disk, disk') /\ disk'.goal /\ disk'.round = disk.round
      BY <1>1, <2>1, <3>1, GoalApplied
    <3>3. Counters'
      BY <1>1, <2>2, <3>1, <3>2 DEF Counters, Same
    <3>4. PhaseFollows'
      BY <1>1, <2>2, <3>1, <3>2 DEF PhaseFollows, Same
    <3>5. RoundFollows'
      BY <1>1, <2>2, <3>1, <3>2, NoRoundFields
      DEF RoundFollows, RoundOver, AtCall, NoTurn
    <3> QED
      BY <3>3, <3>4, <3>5
  <2> QED
    BY <1>1, <2>1, <2>2, <2>3, Followings, PlainWrites DEF Places, Targets
<1> QED
  BY <1>2, <1>3 DEF Goal

LEMMA LoopKeeps ==
  ASSUME Strong, Inv', Loop
  PROVE  HandlerInv'
<1>1. pc = "loop" /\ io = "none"
  BY DEF Loop, At
<1>2. CASE FinishFromError
  BY <1>1, <1>2, FinishFromErrorKeeps
<1>3. CASE Continue("context")
  <2>1. /\ Goto("context") /\ active' = active /\ turn' = turn
        /\ facts' = facts /\ pc' = "context"
    BY <1>3 DEF Continue, Goto
  <2>2. ASSUME Followed' PROVE Counters' /\ PhaseFollows' /\ RoundFollows'
    <3>1. disk' = disk /\ Counters /\ PhaseFollows /\ RoundFollows
      BY <1>1, <2>1, <2>2, GotoFollows
    <3> QED
      BY <1>1, <2>1, <3>1
      DEF Counters, PhaseFollows, RoundFollows, RoundOver, AtCall
  <2> QED
    BY <1>1, <2>1, <2>2, Followings, PlainGoto DEF Places, Targets
<1> QED
  BY <1>2, <1>3 DEF Loop

\* The context, its compaction, and the request.
LEMMA RequestKeeps ==
  ASSUME Strong, Inv', pc \in {"context", "compacted"}, io = "none",
         RequestTheModel
  PROVE  HandlerInv'
<1> DEFINE n == turn.requests + 1
<1>1. disk \in Histories /\ n \in Nat
  BY DEF Strong, Inv, TypeOK, Turns
<1>2. PICK tag \in Tags : Send(RunEvent("model.requested", n, tag), "requesting")
  BY DEF RequestTheModel, Record, Tags
<1> HIDE DEF n
<1>3. PICK e \in Events : /\ e.type = "model.requested"
                          /\ e.n = n /\ Writes(e, "requesting")
  BY <1>1, <1>2, SentWrites DEF Ordinary
<1>4. active' = active /\ turn' = turn /\ facts' = facts /\ pc' = "requesting"
  BY DEF RequestTheModel, Record, Send
<1>5. ASSUME Followed' PROVE Counters' /\ PhaseFollows' /\ RoundFollows'
  <2>1. /\ disk' = Apply(disk, e)
        /\ Counters /\ PhaseFollows /\ RoundFollows
    BY <1>3, <1>5, WritesFollow
  <2>2. /\ disk'.run = disk.run /\ disk'.final = disk.final
        /\ disk'.phase = disk.phase /\ disk'.plan = disk.plan
        /\ disk'.goal = disk.goal /\ disk'.pending = TRUE
        /\ disk'.iterations = n /\ disk'.round = NoRound
    BY <1>1, <1>3, <2>1, RequestApplied
  <2>3. Counters'
    BY <1>4, <2>1, <2>2 DEF Counters, n
  <2>4. PhaseFollows'
    BY <1>4, <2>1, <2>2 DEF PhaseFollows
  <2>5. RoundFollows'
    BY <1>4, <2>2 DEF RoundFollows, AtCall
  <2> QED
    BY <2>3, <2>4, <2>5
<1> QED
  BY <1>3, <1>4, <1>5, Followings, PlainWrites DEF Places, Targets

LEMMA ContextBuiltKeeps ==
  ASSUME Strong, Inv', ContextBuilt
  PROVE  HandlerInv'
<1>1. pc = "context" /\ io = "none" /\ disk \in Histories
  BY DEF ContextBuilt, At, Strong, Inv, TypeOK
<1>2. CASE RequestTheModel
  BY <1>1, <1>2, RequestKeeps
<1>3. CASE Record("context.compacted", 0, "", "compacted")
  <2>1. PICK e \in Events : /\ e.type = "context.compacted"
                            /\ Writes(e, "compacted")
    BY <1>1, <1>3, SentWrites DEF Record, Ordinary, Tags
  <2>2. /\ active' = active /\ turn' = turn /\ facts' = facts
        /\ pc' = "compacted"
    BY <1>3 DEF Record, Send
  <2>3. ASSUME Followed' PROVE Counters' /\ PhaseFollows' /\ RoundFollows'
    <3>1. disk' = disk /\ Counters /\ PhaseFollows /\ RoundFollows
      BY <1>1, <2>1, <2>3, WritesFollow, NothingApplied
    <3> QED
      BY <1>1, <2>2, <3>1
      DEF Counters, PhaseFollows, RoundFollows, RoundOver, AtCall
  <2> QED
    BY <1>1, <2>1, <2>2, <2>3, Followings, PlainWrites DEF Places, Targets
<1> QED
  BY <1>2, <1>3 DEF ContextBuilt

\* The request is in the file, and the model's answer.
LEMMA RequestedKeeps ==
  ASSUME Strong, Inv', Requested
  PROVE  HandlerInv'
<1>1. pc = "requesting" /\ io = "none" /\ turn \in Turns
  BY DEF Requested, At, Strong, Inv, TypeOK
<1>2. /\ Goto("model") /\ active' = active /\ facts' = facts /\ pc' = "model"
      /\ turn'.requests = turn.requests + 1
  BY <1>1 DEF Requested, Goto, Turns
<1>3. ASSUME Followed' PROVE Counters' /\ PhaseFollows' /\ RoundFollows'
  <2>1. disk' = disk /\ Counters /\ PhaseFollows /\ RoundFollows
    BY <1>1, <1>2, <1>3, GotoFollows
  <2> QED
    BY <1>1, <1>2, <2>1 DEF Counters, PhaseFollows, RoundFollows, AtCall
<1> QED
  BY <1>1, <1>2, <1>3, Followings, PlainGoto DEF Places, Targets

LEMMA ModelAnswersKeeps ==
  ASSUME Strong, Inv', ModelAnswers
  PROVE  HandlerInv'
<1>1. /\ pc = "model" /\ io = "none" /\ turn \in Turns /\ turn' \in Turns
      /\ turn.requests \in Nat /\ disk \in Histories
  BY DEF ModelAnswers, At, Strong, Inv, TypeOK, Turns
<1>2. PICK finish \in {"stop", "tool_calls"} :
        \E text \in Texts :
        \E batch \in IF finish = "stop" THEN {<< >>} ELSE Batches :
          /\ turn' = [turn EXCEPT !.finish = finish, !.text = text,
                                  !.batch = batch]
          /\ Send(RunEvent("model.completed", turn.requests, finish),
                  "completed")
  BY DEF ModelAnswers
<1>3. /\ turn'.finish = finish /\ turn'.requests = turn.requests
      /\ Send(RunEvent("model.completed", turn.requests, finish), "completed")
  BY <1>1, <1>2 DEF Turns
<1>4. PICK e \in Events : /\ e.type = "model.completed" /\ e.tag = finish
                          /\ Writes(e, "completed")
  <2>1. finish \in Tags
    BY DEF Tags
  <2> QED
    BY <1>1, <1>3, <2>1, SentWrites DEF Ordinary
<1>5. active' = active /\ facts' = facts /\ pc' = "completed"
  BY <1>4 DEF ModelAnswers, Writes
<1>6. ASSUME Followed' PROVE Counters' /\ PhaseFollows' /\ RoundFollows'
  <2>1. /\ disk' = Apply(disk, e)
        /\ Counters /\ PhaseFollows /\ RoundFollows
    BY <1>1, <1>4, <1>6, WritesFollow
  <2>2. /\ disk'.run = disk.run /\ disk'.final = disk.final
        /\ disk'.phase = disk.phase /\ disk'.plan = disk.plan
        /\ disk'.goal = disk.goal /\ disk'.iterations = disk.iterations
        /\ disk'.pending = FALSE /\ disk'.round = NewRound(finish)
    BY <1>1, <1>4, <2>1, CompletionApplied
  <2>3. Counters'
    BY <1>1, <1>3, <1>5, <2>1, <2>2 DEF Counters
  <2>4. PhaseFollows'
    BY <1>1, <1>5, <2>1, <2>2 DEF PhaseFollows
  <2>5. RoundFollows'
    BY <1>3, <1>5, <2>2 DEF RoundFollows, AtCall
  <2> QED
    BY <2>3, <2>4, <2>5
<1> QED
  BY <1>1, <1>4, <1>5, <1>6, Followings, PlainWrites DEF Places, Targets

LEMMA ModelStepKeeps ==
  ASSUME Strong, Inv', ModelStep
  PROVE  HandlerInv'
<1>1. CASE ContextFailed \/ ModelFailed
  BY <1>1, FinishFromErrorKeeps DEF ContextFailed, ModelFailed, At
<1>2. CASE Compacted
  <2>1. pc = "compacted" /\ io = "none"
    BY <1>2 DEF Compacted, At
  <2> QED
    BY <1>2, <2>1, FinishFromErrorKeeps, RequestKeeps DEF Compacted
<1>3. CASE LiveDeltaLost
  <2>1. /\ active' = SinkThrows(active) /\ active \in Actives
        /\ UNCHANGED <<durable, pc, io, turn, facts, others>>
    BY <1>3 DEF LiveDeltaLost, Strong, Inv, TypeOK
  <2>2. Touched
    BY <2>1, SinkThrowsTouches DEF Touched, durable, others
  <2> QED
    BY <2>2, TouchedKeeps
<1> QED
  BY <1>1, <1>2, <1>3, GoalKeeps, LoopKeeps, ContextBuiltKeeps,
     RequestedKeeps, ModelAnswersKeeps DEF ModelStep

\* A stop that is rejected, with a correction in the file.
LEMMA CorrectionKeeps ==
  ASSUME Strong, Inv', pc = "completed", io = "none", turn.finish = "stop",
         UNCHANGED <<active, turn>>,
         NEW type \in {"model.output.rejected", "write.dependency.rejected",
                       "completion.evidence.rejected"},
         NEW tag \in Tags,
         NEW l \in {"restate", "loop"},
         l = "restate" <=> type = "model.output.rejected",
         l = "restate" => tag = "retry",
         Send(RunEvent(type, turn.requests, tag), l)
  PROVE  HandlerInv'
<1>1. disk \in Histories /\ turn.requests \in Nat
  BY DEF Strong, Inv, TypeOK, Turns
<1>2. PICK e \in Events : e.type = type /\ e.tag = tag /\ Writes(e, l)
  BY <1>1, SentWrites DEF Ordinary
<1>3. active' = active /\ turn' = turn /\ pc' = l
  BY <1>2 DEF Writes
<1>4. ASSUME Followed' PROVE Counters' /\ PhaseFollows' /\ RoundFollows'
  <2>1. /\ disk' = Apply(disk, e)
        /\ Counters /\ PhaseFollows /\ RoundFollows
    BY <1>2, <1>4, WritesFollow
  <2>2. disk.round.finish = "stop"
    BY <2>1, NoRoundFields DEF RoundFollows
  <2>3. /\ Same(disk, disk') /\ disk'.goal = disk.goal
        /\ disk'.round.finish = disk.round.finish
        /\ l = "restate" => disk'.round.rejected = "retry"
        /\ l = "loop" => Rejected(disk'.round)
    BY <1>1, <1>2, <2>1, CorrectionApplied
  <2>4. Counters'
    BY <1>3, <2>1, <2>3 DEF Counters, Same
  <2>5. PhaseFollows'
    BY <1>3, <2>1, <2>3 DEF PhaseFollows, Same
  <2>6. RoundFollows'
    BY <1>3, <2>2, <2>3 DEF RoundFollows, RoundOver, AtCall
  <2> QED
    BY <2>4, <2>5, <2>6
<1> QED
  BY <1>2, <1>3, <1>4, Followings, PlainWrites DEF Places, Targets

LEMMA StopCorrectedKeeps ==
  ASSUME Strong, Inv', StopRejected \/ StopWithMissingParent \/ StopUnverified
  PROVE  HandlerInv'
<1>1. pc = "completed" /\ io = "none" /\ turn.finish = "stop"
  BY DEF StopRejected, StopWithMissingParent, StopUnverified, FinalStop,
     Stopped, At
<1>2. CASE FinishFromError
  BY <1>1, <1>2, FinishFromErrorKeeps
<1>3. CASE ~FinishFromError
  <2>1. /\ UNCHANGED <<active, turn>>
        /\ \/ Send(RunEvent("model.output.rejected", turn.requests, "retry"),
                   "restate")
           \/ \E type \in {"write.dependency.rejected",
                           "completion.evidence.rejected"}, tag \in Tags :
                 Send(RunEvent(type, turn.requests, tag), "loop")
    BY <1>3 DEF StopRejected, StopWithMissingParent, StopUnverified, Tags
  <2>2. "retry" \in Tags
    BY DEF Tags
  <2> QED
    BY <1>1, <2>1, <2>2, CorrectionKeeps
<1> QED
  BY <1>2, <1>3

LEMMA RestateKeeps ==
  ASSUME Strong, Inv', Restate
  PROVE  HandlerInv'
<1>1. pc = "restate" /\ io = "none"
  BY DEF Restate, At
<1>2. CASE FinishFromError
  BY <1>1, <1>2, FinishFromErrorKeeps
<1>3. CASE Continue("loop")
  <2>1. Goto("loop") /\ active' = active /\ turn' = turn /\ pc' = "loop"
    BY <1>3 DEF Continue, Goto
  <2>2. ASSUME Followed' PROVE Counters' /\ PhaseFollows' /\ RoundFollows'
    <3>1. disk' = disk /\ Counters /\ PhaseFollows /\ RoundFollows
      BY <1>1, <2>1, <2>2, GotoFollows
    <3> QED
      BY <1>1, <2>1, <3>1
      DEF Counters, PhaseFollows, RoundFollows, RoundOver, Rejected, AtCall
  <2> QED
    BY <1>1, <2>1, <2>2, Followings, PlainGoto DEF Places, Targets
<1> QED
  BY <1>2, <1>3 DEF Restate

\* The plan is written: its projection is never refused.
LEMMA ProposalAccepted ==
  ASSUME Strong, pc = "completed", io = "none", turn.finish = "stop", Planned,
         NEW e, e.type = "plan.proposed", e.run = active.run
  PROVE  synced /\ Accepts(disk, e)
<1>1. synced /\ disk.valid
  BY DEF Strong, HandlerInv, Synced, Running
<1>2. Counters /\ PhaseFollows /\ RoundFollows
  BY <1>1 DEF Strong, HandlerInv, FileFollows, Followed, Running
<1>3. AcceptsPlanProposal(disk)
  BY <1>2, NoRoundFields
  DEF Counters, PhaseFollows, RoundFollows, Planned, AcceptsPlanProposal
<1>4. disk.run = e.run
  BY <1>2 DEF Counters
<1> QED
  BY <1>1, <1>3, <1>4 DEF Accepts, Terminal

LEMMA ProposePlanKeeps ==
  ASSUME Strong, Inv', ProposePlan
  PROVE  HandlerInv'
<1>1. /\ pc = "completed" /\ io = "none" /\ turn.finish = "stop" /\ Planned
      /\ disk \in Histories /\ active \in Actives /\ Waiting
  BY DEF ProposePlan, Stopped, At, Strong, Inv, TypeOK, Planned, HandlerInv
<1>2. CASE FinishFromError
  BY <1>1, <1>2, FinishFromErrorKeeps
<1>3. CASE ~FinishFromError
  <2>1. /\ active' = [active EXCEPT !.plan = "open", !.wait = "pending"]
        /\ turn' = turn
    BY <1>3 DEF ProposePlan
  <2>2. PICK tag \in Tags : Send(RunEvent("plan.proposed", 0, tag), "proposing")
    BY <1>3 DEF ProposePlan, Tags
  <2>3. PICK e \in Events : /\ e.type = "plan.proposed" /\ e.run = active.run
                            /\ Writes(e, "proposing")
    BY <1>1, <2>2, SentWrites DEF Ordinary
  <2>4. /\ active'.run = active.run /\ active'.phase = active.phase
        /\ active'.ask = active.ask /\ active'.plan = "open"
        /\ active'.wait = "pending" /\ pc' = "proposing"
    BY <1>1, <2>1, <2>3 DEF Actives, Writes
  <2>5. io' # "history_error"
    BY <1>1, <2>3, ProposalAccepted DEF Writes
  <2>6. Moves
    BY <1>1, <2>3, <2>4, <2>5 DEF Moves, Writes, Accepts
  <2>7. Waiting'
    BY <1>1, <2>4 DEF Waiting, Planned
  <2>8. ASSUME Followed' PROVE Counters' /\ PhaseFollows' /\ RoundFollows'
    <3>1. /\ disk' = Apply(disk, e)
          /\ Counters /\ PhaseFollows /\ RoundFollows
      BY <1>1, <2>3, <2>8, WritesFollow
    <3>2. /\ disk'.run = disk.run /\ disk'.final = disk.final
          /\ disk'.pending = disk.pending /\ disk'.goal = disk.goal
          /\ disk'.iterations = disk.iterations /\ disk'.phase = "awaiting"
      BY <1>1, <2>3, <3>1, ProposalApplied
    <3>3. Counters'
      BY <1>1, <2>1, <2>4, <3>1, <3>2 DEF Counters
    <3>4. PhaseFollows'
      BY <1>1, <2>4, <3>2 DEF PhaseFollows, Planned
    <3>5. RoundFollows'
      BY <1>1, <2>1, <2>4 DEF RoundFollows, AtCall
    <3> QED
      BY <3>3, <3>4, <3>5
  <2> QED
    BY <2>6, <2>7, <2>8, Followings, MovesKeep
<1> QED
  BY <1>2, <1>3

\* From the proposal to the wait, and from there to the loop.
LEMMA PlanProposedKeeps ==
  ASSUME Strong, Inv', PlanProposed
  PROVE  HandlerInv'
<1>1. /\ pc = "proposing" /\ io = "none" /\ active \in Actives /\ Waiting
      /\ Goto("plan_wait") /\ turn' = turn
  BY DEF PlanProposed, At, Strong, Inv, TypeOK, HandlerInv
<1> DEFINE wait == IF Aborted /\ active.wait = "pending" THEN "aborted"
                                                         ELSE active.wait
<1>2. active' = [active EXCEPT !.phase = "awaiting", !.wait = wait]
  BY <1>1 DEF PlanProposed, Actives
<1>3. wait = active.wait \/ wait = "aborted"
  OBVIOUS
<1>4. active.wait \in {"pending", "aborted"}
  BY <1>1 DEF Waiting
<1> HIDE DEF wait
<1>5. /\ active'.run = active.run /\ active'.phase = "awaiting"
      /\ active'.ask = active.ask /\ active'.plan = active.plan
      /\ active'.wait = wait
  BY <1>1, <1>2 DEF Actives
<1>6. /\ pc' = "plan_wait" /\ disk' = disk /\ synced' = synced /\ io' = io
      /\ dec' = dec /\ log' = log
  BY <1>1 DEF Goto, durable, others
<1>7. Moves
  BY <1>1, <1>5, <1>6 DEF Moves
<1>8. Waiting'
  BY <1>1, <1>3, <1>4, <1>5, <1>6 DEF Waiting
<1>9. ASSUME Followed' PROVE Counters' /\ PhaseFollows' /\ RoundFollows'
  <2>1. disk' = disk /\ Counters /\ PhaseFollows /\ RoundFollows
    BY <1>1, <1>9, GotoFollows
  <2> QED
    BY <1>1, <1>3, <1>4, <1>5, <1>6, <2>1
    DEF Counters, PhaseFollows, RoundFollows, AtCall
<1> QED
  BY <1>7, <1>8, <1>9, Followings, MovesKeep

LEMMA PlanAnsweredKeeps ==
  ASSUME Strong, Inv', PlanAnswered
  PROVE  HandlerInv'
<1>1. /\ pc = "plan_wait" /\ io = "none" /\ active.wait # "pending"
      /\ active \in Actives /\ Waiting
  BY DEF PlanAnswered, At, Strong, Inv, TypeOK, HandlerInv
<1>2. CASE FinishFromError \/ FinishAs("run.cancelled")
  BY <1>1, <1>2, FinishFromErrorKeeps, FinishKeeps
<1>3. CASE /\ active.wait = "approved"
           /\ active' = [active EXCEPT !.wait = "none"]
           /\ Goto("loop") /\ turn' = turn
  <2>1. /\ active'.run = active.run /\ active'.phase = active.phase
        /\ active'.ask = active.ask /\ active'.plan = active.plan
        /\ active'.wait = "none"
    BY <1>1, <1>3 DEF Actives
  <2>2. /\ pc' = "loop" /\ disk' = disk /\ synced' = synced /\ io' = io
        /\ dec' = dec /\ log' = log
    BY <1>3 DEF Goto, durable, others
  <2>3. Moves
    BY <1>1, <1>3, <2>1, <2>2 DEF Moves
  <2>4. Waiting'
    BY <1>1, <1>3, <2>1, <2>2 DEF Waiting
  <2>5. ASSUME Followed' PROVE Counters' /\ PhaseFollows' /\ RoundFollows'
    <3>1. disk' = disk /\ Counters /\ PhaseFollows /\ RoundFollows
      BY <1>1, <1>3, <2>5, GotoFollows
    <3>2. disk.phase = "executing" /\ active.phase = "executing"
            /\ disk.round = NoRound
      BY <1>1, <1>3, <3>1 DEF PhaseFollows
    <3> QED
      BY <1>1, <1>3, <2>1, <2>2, <3>1, <3>2, NoRoundFields
      DEF Counters, PhaseFollows, RoundFollows, RoundOver, AtCall
  <2> QED
    BY <2>3, <2>4, <2>5, Followings, MovesKeep
<1> QED
  BY <1>2, <1>3 DEF PlanAnswered

\* A stop without a correction in the file, and the answer.
LEMMA StopAcceptedKeeps ==
  ASSUME Strong, Inv', StopWithoutService \/ StopAccepted
  PROVE  HandlerInv'
<1>1. /\ pc = "completed" /\ io = "none" /\ turn.finish = "stop"
      /\ active.phase # "planning" /\ facts \in Facts
  BY DEF StopWithoutService, StopAccepted, StopForGood, FinalStop, Stopped,
     At, Strong, Inv, TypeOK
<1>2. CASE FinishFromError
  BY <1>1, <1>2, FinishFromErrorKeeps
<1>3. CASE ~FinishFromError
  <2>1. PICK l \in {"loop", "answer"} :
          /\ Goto(l) /\ UNCHANGED <<active, turn>>
          /\ l = "loop" => /\ facts.service # "none"
                           /\ facts' = [Restated EXCEPT !.handed = TRUE]
    BY <1>3 DEF StopWithoutService, StopAccepted
  <2>2. active' = active /\ turn' = turn /\ pc' = l
    BY <2>1 DEF Goto
  <2>3. l = "loop" => facts'.service # "none"
    BY <1>1, <2>1 DEF Facts, Restated
  <2>4. ASSUME Followed' PROVE Counters' /\ PhaseFollows' /\ RoundFollows'
    <3>1. disk' = disk /\ Counters /\ PhaseFollows /\ RoundFollows
      BY <1>1, <2>1, <2>4, GotoFollows
    <3> QED
      BY <1>1, <2>2, <2>3, <3>1, NoRoundFields
      DEF Counters, PhaseFollows, RoundFollows, RoundOver, AtCall
  <2> QED
    BY <1>1, <2>1, <2>2, <2>4, Followings, PlainGoto DEF Places, Targets
<1> QED
  BY <1>2, <1>3

LEMMA AnswerKeeps ==
  ASSUME Strong, Inv', Answer
  PROVE  HandlerInv'
<1>1. pc = "answer" /\ io = "none" /\ disk \in Histories
  BY DEF Answer, At, Strong, Inv, TypeOK
<1>2. CASE FinishFromError
  BY <1>1, <1>2, FinishFromErrorKeeps
<1>3. CASE Record("assistant.message", 0, "final", "final")
  <2>1. PICK e \in Events : /\ e.type = "assistant.message" /\ e.tag = "final"
                            /\ Writes(e, "final")
    <3>1. "final" \in Tags
      BY DEF Tags
    <3> QED
      BY <1>1, <1>3, <3>1, SentWrites DEF Record, Ordinary
  <2>2. active' = active /\ turn' = turn /\ pc' = "final"
    BY <1>3 DEF Record, Send
  <2>3. ASSUME Followed' PROVE Counters' /\ PhaseFollows' /\ RoundFollows'
    <3>1. /\ disk' = Apply(disk, e)
          /\ Counters /\ PhaseFollows /\ RoundFollows
      BY <1>1, <2>1, <2>3, WritesFollow
    <3>2. /\ disk'.run = disk.run /\ disk'.final = TRUE
          /\ disk'.pending = disk.pending /\ disk'.goal = disk.goal
          /\ disk'.iterations = disk.iterations /\ disk'.phase = disk.phase
          /\ disk'.plan = disk.plan /\ disk'.round = disk.round
      BY <1>1, <2>1, <3>1, FinalApplied
    <3> QED
      BY <1>1, <2>2, <3>1, <3>2
      DEF Counters, PhaseFollows, RoundFollows, AtCall
  <2> QED
    BY <1>1, <2>1, <2>2, <2>3, Followings, PlainWrites DEF Places, Targets
<1> QED
  BY <1>2, <1>3 DEF Answer

LEMMA StopStepKeeps ==
  ASSUME Strong, Inv', StopStep
  PROVE  HandlerInv'
<1>1. CASE Complete
  <2>1. pc = "final" /\ io = "none"
    BY <1>1 DEF Complete, At
  <2> QED
    BY <1>1, <2>1, FinishFromErrorKeeps, FinishKeeps DEF Complete
<1> QED
  BY <1>1, StopCorrectedKeeps, RestateKeeps, ProposePlanKeeps,
     PlanProposedKeeps, PlanAnsweredKeeps, StopAcceptedKeeps, AnswerKeeps
  DEF StopStep

\* A batch up to its last tool.requested.
LEMMA NarrativeSuppressedKeeps ==
  ASSUME Strong, Inv', NarrativeSuppressed
  PROVE  HandlerInv'
<1>1. /\ pc = "completed" /\ io = "none" /\ turn.finish = "tool_calls"
      /\ disk \in Histories /\ turn.requests \in Nat /\ turn \in Turns
  BY DEF NarrativeSuppressed, Called, At, Strong, Inv, TypeOK, Turns
<1>2. PICK e \in Events : /\ e.type = "model.output.rejected"
                          /\ e.tag = "suppressed" /\ Writes(e, "batch")
  <2>1. "suppressed" \in Tags
    BY DEF Tags
  <2> QED
    BY <1>1, <2>1, SentWrites DEF NarrativeSuppressed, Ordinary
<1>3. /\ active' = active /\ pc' = "batch"
      /\ turn'.requests = turn.requests /\ turn'.finish = turn.finish
  BY <1>1, <1>2 DEF NarrativeSuppressed, Writes, Turns
<1>4. ASSUME Followed' PROVE Counters' /\ PhaseFollows' /\ RoundFollows'
  <2>1. /\ disk' = Apply(disk, e)
        /\ Counters /\ PhaseFollows /\ RoundFollows
    BY <1>1, <1>2, <1>4, WritesFollow
  <2>2. /\ disk.round.finish = "tool_calls" /\ ~disk.round.locked
        /\ disk.round.tools = << >> /\ ~disk.round.intermediate
    BY <1>1, <2>1, NoRoundFields DEF RoundFollows
  <2>3. /\ Same(disk, disk') /\ disk'.goal = disk.goal
        /\ disk'.round.finish = disk.round.finish
        /\ disk'.round.tools = disk.round.tools
        /\ disk'.round.locked = disk.round.locked
        /\ disk'.round.intermediate = disk.round.intermediate
        /\ disk'.round.rejected = "suppressed"
    BY <1>1, <1>2, <2>1, CorrectionApplied
  <2>4. Counters'
    BY <1>1, <1>3, <2>1, <2>3 DEF Counters, Same
  <2>5. PhaseFollows'
    BY <1>1, <1>3, <2>1, <2>3 DEF PhaseFollows, Same
  <2>6. RoundFollows'
    BY <1>1, <1>3, <2>2, <2>3 DEF RoundFollows, AtCall
  <2> QED
    BY <2>4, <2>5, <2>6
<1> QED
  BY <1>1, <1>2, <1>3, <1>4, Followings, PlainWrites DEF Places, Targets

LEMMA TakeBatchKeeps ==
  ASSUME Strong, Inv', TakeBatch
  PROVE  HandlerInv'
<1>1. /\ pc \in {"completed", "batch"} /\ io = "none" /\ turn \in Turns
      /\ pc = "completed" => turn.finish = "tool_calls"
      /\ turn.batch \in Seq(Kinds)
  BY DEF TakeBatch, Called, At, Strong, Inv, TypeOK, Turns
<1>2. CASE FinishFromError
  BY <1>1, <1>2, FinishFromErrorKeeps
<1>3. CASE ~FinishFromError
  <2>1. PICK l \in {"narrate", "collect"} : Goto(l)
    BY <1>3 DEF TakeBatch
  <2>2. /\ turn' = [turn EXCEPT !.at = 0, !.blocked = facts.missing,
                                !.failedCheck = FALSE]
        /\ active' = active
    BY <1>3 DEF TakeBatch
  <2>3. /\ turn'.at = 0 /\ turn'.batch = turn.batch
        /\ turn'.requests = turn.requests /\ turn'.finish = turn.finish
        /\ pc' = l
    BY <1>1, <2>1, <2>2 DEF Turns, Goto
  <2>4. ASSUME Followed' PROVE Counters' /\ PhaseFollows' /\ RoundFollows'
    <3>1. disk' = disk /\ Counters /\ PhaseFollows /\ RoundFollows
      BY <1>1, <2>1, <2>4, GotoFollows
    <3>2. /\ disk.round.finish = "tool_calls" /\ ~disk.round.locked
          /\ disk.round.tools = << >> /\ ~disk.round.intermediate
          /\ disk.round.rejected # "retry" /\ turn.finish = "tool_calls"
      BY <1>1, <3>1, NoRoundFields DEF RoundFollows
    <3>3. Collecting'
      BY <1>1, <2>3, <3>1, <3>2 DEF Collecting
    <3> QED
      BY <1>1, <2>2, <2>3, <3>1, <3>2, <3>3
      DEF Counters, PhaseFollows, RoundFollows, AtCall
  <2> QED
    BY <1>1, <2>1, <2>2, <2>4, Followings, PlainGoto DEF Places, Targets
<1> QED
  BY <1>2, <1>3

LEMMA NarrateKeeps ==
  ASSUME Strong, Inv', Narrate
  PROVE  HandlerInv'
<1>1. /\ pc = "narrate" /\ io = "none" /\ disk \in Histories
      /\ turn.batch \in Seq(Kinds)
  BY DEF Narrate, At, Strong, Inv, TypeOK, Turns
<1>2. CASE FinishFromError
  BY <1>1, <1>2, FinishFromErrorKeeps
<1>3. CASE Record("assistant.message", 0, "intermediate", "collect")
  <2>1. PICK e \in Events : /\ e.type = "assistant.message"
                            /\ e.tag = "intermediate" /\ Writes(e, "collect")
    <3>1. "intermediate" \in Tags
      BY DEF Tags
    <3> QED
      BY <1>1, <1>3, <3>1, SentWrites DEF Record, Ordinary
  <2>2. active' = active /\ turn' = turn /\ pc' = "collect"
    BY <1>3 DEF Record, Send
  <2>3. ASSUME Followed' PROVE Counters' /\ PhaseFollows' /\ RoundFollows'
    <3>1. /\ disk' = Apply(disk, e)
          /\ Counters /\ PhaseFollows /\ RoundFollows
      BY <1>1, <2>1, <2>3, WritesFollow
    <3>2. /\ Same(disk, disk') /\ disk'.goal = disk.goal
          /\ disk'.round.finish = disk.round.finish
          /\ disk'.round.tools = disk.round.tools
          /\ disk'.round.locked = disk.round.locked
          /\ disk'.round.rejected = disk.round.rejected
      BY <1>1, <2>1, <3>1, NarrativeApplied
    <3>3. disk.round.tools = << >> /\ turn.at = 0
      BY <1>1, <3>1 DEF RoundFollows
    <3>4. Collecting'
      BY <1>1, <2>2, <3>2, <3>3 DEF Collecting
    <3>5. Counters'
      BY <1>1, <2>2, <3>1, <3>2 DEF Counters, Same
    <3>6. PhaseFollows'
      BY <1>1, <2>2, <3>1, <3>2 DEF PhaseFollows, Same
    <3>7. RoundFollows'
      BY <1>1, <2>2, <3>1, <3>2, <3>4 DEF RoundFollows, AtCall
    <3> QED
      BY <3>5, <3>6, <3>7
  <2> QED
    BY <1>1, <2>1, <2>2, <2>3, Followings, PlainWrites DEF Places, Targets
<1> QED
  BY <1>2, <1>3 DEF Narrate

LEMMA CollectKeeps ==
  ASSUME Strong, Inv', Collect
  PROVE  HandlerInv'
<1> DEFINE n == turn.at + 1
           kind == turn.batch[turn.at + 1]
<1>1. /\ pc = "collect" /\ io = "none" /\ disk \in Histories
      /\ turn \in Turns /\ turn.batch \in Seq(Kinds) /\ turn.at \in Nat
      /\ turn.at < Len(turn.batch) /\ active' = active
  BY DEF Collect, At, Strong, Inv, TypeOK, Turns
<1>2. n \in Nat /\ n \in 1..Len(turn.batch) /\ kind \in Kinds
  BY <1>1
<1>3. PICK e \in Events : /\ e.type = "tool.requested" /\ e.tag = kind
                          /\ Writes(e, "collect")
  <2>1. Send(RunEvent("tool.requested", n, kind), "collect")
    BY DEF Collect
  <2>2. kind \in Tags
    BY <1>2 DEF Tags
  <2> HIDE DEF n, kind
  <2> QED
    BY <1>1, <1>2, <2>1, <2>2, SentWrites DEF Ordinary
<1>4. /\ turn'.at = n /\ turn'.batch = turn.batch
      /\ turn'.requests = turn.requests /\ turn'.finish = turn.finish
      /\ pc' = "collect"
  <2>1. turn' = [turn EXCEPT !.at = @ + 1, !.calls = @ + 1]
    BY DEF Collect
  <2> QED
    BY <1>1, <1>3, <2>1 DEF Turns, Writes
<1>5. ASSUME Followed' PROVE Counters' /\ PhaseFollows' /\ RoundFollows'
  <2>1. /\ disk' = Apply(disk, e)
        /\ Counters /\ PhaseFollows /\ RoundFollows
    BY <1>1, <1>3, <1>5, WritesFollow
  <2> DEFINE call == Fresh(kind, disk.phase = "planning")
  <2>2. /\ Same(disk, disk') /\ disk'.goal = disk.goal
        /\ disk'.round.finish = disk.round.finish
        /\ disk'.round.locked = disk.round.locked
        /\ disk'.round.rejected = disk.round.rejected
        /\ disk'.round.tools = Append(disk.round.tools, call)
    BY <1>1, <1>3, <2>1, RequestedApplied
  <2>3. disk.round.tools \in Seq(Tools)
    BY <1>1 DEF Histories, Rounds
  <2>4. Collecting /\ disk.phase = active.phase
    BY <1>1, <2>1 DEF RoundFollows, PhaseFollows
  <2>5. call = Fresh(turn.batch[n], Planned)
    BY <2>4 DEF Planned
  <2> HIDE DEF call
  <2>6. /\ Len(disk'.round.tools) = n
        /\ \A i \in 1..n : disk'.round.tools[i] = Fresh(turn.batch[i], Planned)
    <3> DEFINE tools == disk.round.tools
               after == disk'.round.tools
    <3>1. tools \in Seq(Tools) /\ Len(tools) = turn.at
      BY <2>3, <2>4 DEF Collecting
    <3>2. after = Append(tools, call) /\ call \in Tools
      <4>1. call \in Tools
        BY <1>2, <2>5 DEF Fresh, Tools, Planned
      <4> QED
        BY <2>2, <4>1
    <3>3. \A i \in 1..turn.at : tools[i] = Fresh(turn.batch[i], Planned)
      BY <2>4 DEF Collecting
    <3> HIDE DEF tools, after
    <3>4. /\ Len(after) = turn.at + 1
          /\ \A i \in 1..turn.at : after[i] = tools[i]
          /\ after[turn.at + 1] = call
      BY <1>1, <3>1, <3>2
    <3>5. \A i \in 1..n : i \in 1..turn.at \/ i = n
      BY <1>1
    <3> QED
      BY <2>5, <3>3, <3>4, <3>5 DEF after
  <2>7. Collecting'
    <3>1. Planned' = Planned
      BY <1>1 DEF Planned
    <3> QED
      BY <1>1, <1>2, <1>4, <2>6, <3>1 DEF Collecting
  <2>8. Counters'
    BY <1>1, <1>4, <2>1, <2>2 DEF Counters, Same
  <2>9. PhaseFollows'
    BY <1>1, <1>4, <2>1, <2>2 DEF PhaseFollows, Same
  <2>10. RoundFollows'
    BY <1>1, <1>4, <2>1, <2>2, <2>7 DEF RoundFollows, AtCall
  <2> QED
    BY <2>8, <2>9, <2>10
<1> QED
  BY <1>1, <1>3, <1>5, Followings, PlainWrites DEF Places, Targets

LEMMA CollectedKeeps ==
  ASSUME Strong, Inv', Collected
  PROVE  HandlerInv'
<1>1. /\ pc = "collect" /\ io = "none" /\ disk \in Histories
      /\ turn \in Turns /\ turn.batch \in Seq(Kinds)
      /\ turn.at = Len(turn.batch) /\ turn.batch # << >>
      /\ Goto("dispatch") /\ active' = active
  BY DEF Collected, At, Strong, Inv, TypeOK, Turns, CallInBatch
<1>2. /\ turn'.at = 1 /\ turn'.batch = turn.batch
      /\ turn'.requests = turn.requests /\ turn'.finish = turn.finish
      /\ pc' = "dispatch"
  BY <1>1 DEF Collected, Turns, Goto
<1>3. ASSUME Followed' PROVE Counters' /\ PhaseFollows' /\ RoundFollows'
  <2>1. disk' = disk /\ Counters /\ PhaseFollows /\ RoundFollows
    BY <1>1, <1>3, GotoFollows
  <2>2. /\ turn.finish = "tool_calls" /\ disk.round.finish = "tool_calls"
        /\ Collecting
    BY <1>1, <2>1 DEF RoundFollows
  <2>3. disk.round.tools \in Seq(Tools)
    BY <1>1 DEF Histories, Rounds
  <2>4. /\ DOMAIN disk.round.tools = DOMAIN turn.batch
        /\ 1 \in DOMAIN turn.batch
        /\ \A i \in DOMAIN turn.batch :
              disk.round.tools[i] = Fresh(turn.batch[i], Planned)
    BY <1>1, <2>2, <2>3 DEF Collecting
  <2>5. Planned' = Planned
    BY <1>1 DEF Planned
  <2>6. BatchFollows'
    BY <1>1, <1>2, <2>1, <2>2, <2>4, <2>5 DEF BatchFollows, Fresh
  <2>7. CallFollows(disk.round.tools[turn.at])'
    BY <1>2, <2>1, <2>4, <2>5 DEF CallFollows, Kind
  <2> QED
    BY <1>1, <1>2, <2>1, <2>2, <2>6, <2>7
    DEF Counters, PhaseFollows, RoundFollows, AtCall
<1> QED
  BY <1>1, <1>2, <1>3, Followings, PlainGoto DEF Places, Targets

\* A call of the batch: the steps that leave it the current one.
Calling ==
    /\ pc \in {"dispatch", "asking", "approval_wait", "granted", "tool",
               "recording", "settle", "hopeless"}
    /\ io = "none"

SameCall ==
    /\ active'.run = active.run /\ active'.phase = active.phase
    /\ turn'.requests = turn.requests /\ turn'.finish = turn.finish
    /\ turn'.batch = turn.batch /\ turn'.at = turn.at
    /\ AtCall'

LEMMA CallTyped ==
  ASSUME Strong, Calling, disk.valid
  PROVE  /\ Counters /\ PhaseFollows /\ RoundFollows /\ BatchFollows
         /\ CallFollows(disk.round.tools[turn.at])
         /\ turn.finish = "tool_calls"
         /\ turn.at \in DOMAIN disk.round.tools
         /\ disk.round.tools[turn.at] \in Tools
         /\ disk.round.tools \in Seq(Tools)
<1>1. Counters /\ PhaseFollows /\ RoundFollows
  BY DEF Calling, Strong, HandlerInv, FileFollows, Followed, Running
<1>2. /\ BatchFollows /\ CallFollows(disk.round.tools[turn.at])
      /\ turn.finish = "tool_calls"
  BY <1>1 DEF RoundFollows, AtCall, Calling
<1>3. turn.at \in DOMAIN turn.batch
  BY DEF Strong, Inv, CallInBatch, Calling
<1>4. disk.round.tools \in Seq(Tools)
  BY DEF Strong, Inv, TypeOK, Histories, Rounds
<1>5. turn.at \in DOMAIN disk.round.tools
  BY <1>2, <1>3 DEF BatchFollows
<1>6. disk.round.tools[turn.at] \in Tools
  BY <1>4, <1>5
<1> QED
  BY <1>1, <1>2, <1>4, <1>5, <1>6

\* Without an append the call is as it was.
LEMMA CallStays ==
  ASSUME Strong, Calling, SameCall, disk' = disk, disk.valid,
         CallFollows(disk.round.tools[turn.at])'
  PROVE  Counters' /\ PhaseFollows' /\ RoundFollows'
<1>1. /\ Counters /\ PhaseFollows /\ BatchFollows
      /\ turn.finish = "tool_calls"
  BY CallTyped
<1>2. Planned' = Planned
  BY DEF Planned, SameCall
<1>3. BatchFollows'
  BY <1>1, <1>2 DEF BatchFollows, SameCall
<1>4. Counters'
  BY <1>1 DEF Counters, SameCall, AtCall, Calling
<1>5. PhaseFollows'
  BY <1>1 DEF PhaseFollows, SameCall, AtCall, Calling
<1>6. RoundFollows'
  BY <1>1, <1>3 DEF RoundFollows, SameCall, AtCall
<1> QED
  BY <1>4, <1>5, <1>6

\* An append changes it, and no other.
LEMMA CallChanges ==
  ASSUME Strong, Calling, SameCall, disk.valid,
         NEW tool, Updated(disk, disk', turn.at, tool),
         tool.kind = disk.round.tools[turn.at].kind,
         tool.planned = disk.round.tools[turn.at].planned,
         CallFollows(tool)'
  PROVE  Counters' /\ PhaseFollows' /\ RoundFollows'
<1>1. /\ Counters /\ PhaseFollows /\ BatchFollows
      /\ turn.finish = "tool_calls"
      /\ turn.at \in DOMAIN disk.round.tools
      /\ disk.round.tools \in Seq(Tools)
  BY CallTyped
<1> DEFINE tools == disk.round.tools
           after == disk'.round.tools
<1>2. Planned' = Planned
  BY DEF Planned, SameCall
<1>3. /\ Same(disk, disk') /\ disk'.goal = disk.goal
      /\ disk'.round.finish = disk.round.finish
      /\ after = [tools EXCEPT ![turn.at] = tool]
  BY DEF Updated
<1>4. /\ DOMAIN after = DOMAIN tools /\ after[turn.at] = tool
      /\ \A i \in DOMAIN tools : i # turn.at => after[i] = tools[i]
  BY <1>1, <1>3
<1>5. turn.at \in Nat /\ DOMAIN tools \subseteq Nat
  BY <1>1
<1>6. BatchFollows'
  <2>1. \A i \in DOMAIN tools :
          /\ tools[i].kind = turn.batch[i] /\ tools[i].planned = Planned
          /\ i < turn.at => tools[i].result # "none"
          /\ i > turn.at => tools[i] = Fresh(turn.batch[i], Planned)
    BY <1>1 DEF BatchFollows
  <2> HIDE DEF tools, after
  <2>2. \A i \in DOMAIN after :
          /\ after[i].kind = turn.batch[i] /\ after[i].planned = Planned
          /\ i < turn.at => after[i].result # "none"
          /\ i > turn.at => after[i] = Fresh(turn.batch[i], Planned)
    <3>1. SUFFICES ASSUME NEW i \in DOMAIN tools
                   PROVE  /\ after[i].kind = turn.batch[i]
                          /\ after[i].planned = Planned
                          /\ i < turn.at => after[i].result # "none"
                          /\ i > turn.at => after[i] = Fresh(turn.batch[i], Planned)
      BY <1>4
    <3>2. CASE i = turn.at
      <4>1. ~(i < turn.at) /\ ~(i > turn.at)
        BY <1>5, <3>2
      <4>2. tool.kind = tools[i].kind /\ tool.planned = tools[i].planned
        BY <3>2 DEF tools
      <4> QED
        BY <1>4, <2>1, <3>2, <4>1, <4>2
    <3>3. CASE i # turn.at
      BY <1>4, <2>1, <3>1, <3>3
    <3> QED
      BY <3>2, <3>3
  <2>3. /\ disk.round.finish = "tool_calls" /\ DOMAIN tools = DOMAIN turn.batch
    BY <1>1 DEF BatchFollows, tools
  <2> QED
    BY <1>2, <1>3, <1>4, <2>2, <2>3 DEF BatchFollows, SameCall, after
<1>7. CallFollows(disk.round.tools[turn.at])'
  <2>1. disk'.round.tools[turn'.at] = tool
    BY <1>4 DEF SameCall
  <2> QED
    BY <2>1
<1>8. Counters'
  BY <1>1, <1>3 DEF Counters, SameCall, AtCall, Calling, Same
<1>9. PhaseFollows'
  BY <1>1, <1>3 DEF PhaseFollows, SameCall, AtCall, Calling, Same
<1>10. RoundFollows'
  BY <1>1, <1>6, <1>7 DEF RoundFollows, SameCall, AtCall
<1> QED
  BY <1>8, <1>9, <1>10

\* The result of the call is appended.
LEMMA ResultFollows ==
  ASSUME Strong, Calling, NEW code \in Codes, NEW invoked,
         Result(code, invoked),
         active'.run = active.run, active'.phase = active.phase
  PROVE  FileFollows' /\ \E e \in Events : Writes(e, "recording")
<1>1. /\ pc \notin {"idle", "finishing"} /\ io = "none" /\ disk \in Histories
      /\ turn \in Turns /\ turn.at \in Nat
  BY DEF Calling, Strong, Inv, TypeOK, Turns
<1>2. PICK e \in Events : /\ e.type = "tool.result" /\ e.n = turn.at
                          /\ e.tag = code /\ Writes(e, "recording")
  <2>1. Send(RunEvent("tool.result", turn.at, code), "recording")
    BY DEF Result
  <2>2. code \in Tags
    BY DEF Tags
  <2> QED
    BY <1>1, <2>1, <2>2, SentWrites DEF Ordinary
<1>3. /\ turn'.requests = turn.requests /\ turn'.finish = turn.finish
      /\ turn'.batch = turn.batch /\ turn'.at = turn.at /\ turn'.code = code
  <2>1. turn' = [turn EXCEPT !.code = code, !.invoked = invoked]
    BY DEF Result
  <2> QED
    BY <1>1, <2>1 DEF Turns
<1>4. pc' = "recording"
  BY <1>2 DEF Writes
<1>5. SameCall
  BY <1>3, <1>4 DEF SameCall, AtCall
<1>6. ASSUME Followed' PROVE Counters' /\ PhaseFollows' /\ RoundFollows'
  <2>1. disk' = Apply(disk, e) /\ disk.valid
    BY <1>1, <1>2, <1>6, WritesFollow
  <2> DEFINE tool == disk.round.tools[turn.at]
  <2>2. PICK after : after = [tool EXCEPT !.result = code]
    OBVIOUS
  <2>3. tool \in Tools
    BY <2>1, CallTyped
  <2>4. Updated(disk, disk', turn.at, after)
    BY <1>1, <1>2, <2>1, <2>2, ResultApplied
  <2>5. /\ after.kind = tool.kind /\ after.planned = tool.planned
        /\ after.result = code
    BY <2>3, <2>2 DEF Tools
  <2> HIDE DEF tool
  <2>6. CallFollows(after)'
    BY <1>3, <1>4, <2>5 DEF CallFollows, Codes
  <2> QED
    BY <1>5, <2>1, <2>4, <2>5, <2>6, CallChanges DEF tool
<1> QED
  BY <1>2, <1>6, Followings

LEMMA ResultKeeps ==
  ASSUME Strong, Calling, pc # "approval_wait", NEW code \in Codes,
         NEW invoked, Result(code, invoked), active' = active
  PROVE  HandlerInv'
<1>1. FileFollows' /\ \E e \in Events : Writes(e, "recording")
  BY ResultFollows
<1> QED
  BY <1>1, PlainWrites DEF Calling, Places, Targets

LEMMA DispatchKeeps ==
  ASSUME Strong, Inv',
         \/ DispatchDirect \/ DispatchSkipped \/ DispatchWithoutParent
         \/ Denied \/ ToolReturns
  PROVE  HandlerInv'
<1>1. Calling /\ pc # "approval_wait" /\ active' = active
  BY DEF Calling, DispatchDirect, DispatchSkipped, DispatchWithoutParent,
     Denied, Runnable, Prepared, ToolReturns, At
<1>2. PICK code \in Codes, invoked \in BOOLEAN : Result(code, invoked)
  BY DEF DispatchDirect, DispatchSkipped, DispatchWithoutParent, Denied,
     ToolReturns, Codes
<1> QED
  BY <1>1, <1>2, ResultKeeps

\* Without an approval the call may run.
LEMMA AuthorizedKeeps ==
  ASSUME Strong, Inv', Authorized
  PROVE  HandlerInv'
<1>1. /\ pc = "dispatch" /\ io = "none" /\ Calling
      /\ "authorized" \in Verdicts(Kind) /\ Goto("granted")
      /\ active' = active /\ turn' = turn /\ pc' = "granted"
  BY DEF Authorized, Runnable, Prepared, At, Continue, Goto, Calling
<1>2. ASSUME Followed' PROVE Counters' /\ PhaseFollows' /\ RoundFollows'
  <2>1. disk' = disk /\ disk.valid
    BY <1>1, <1>2, GotoFollows
  <2>2. CallFollows(disk.round.tools[turn.at])
    BY <1>1, <2>1, CallTyped
  <2>3. disk.round.tools[turn.at] = Fresh(Kind, Planned)
    BY <1>1, <2>2 DEF CallFollows
  <2>4. Verdicts(Kind)' = Verdicts(Kind)
    BY <1>1 DEF Verdicts, Kind
  <2>5. CallFollows(disk.round.tools[turn.at])'
    BY <1>1, <2>1, <2>3, <2>4 DEF CallFollows, Fresh
  <2>6. SameCall
    BY <1>1 DEF SameCall, AtCall
  <2> QED
    BY <1>1, <2>1, <2>5, <2>6, CallStays
<1> QED
  BY <1>1, <1>2, Followings, PlainGoto DEF Places, Targets

\* An approval is asked for; never of a run that plans.
LEMMA ApprovalRequiredKeeps ==
  ASSUME Strong, Inv', ApprovalRequired
  PROVE  HandlerInv'
<1>1. /\ pc = "dispatch" /\ io = "none" /\ Calling /\ ~PhaseDenied
      /\ "ask" \in Verdicts(Kind) /\ active' = active /\ turn' = turn
      /\ disk \in Histories /\ turn.at \in Nat
  BY DEF ApprovalRequired, Runnable, Prepared, At, Calling, Record, Strong,
     Inv, TypeOK, Turns
<1>2. PICK e \in Events : /\ e.type = "approval.required" /\ e.n = turn.at
                          /\ Writes(e, "asking")
  <2>1. PICK tag \in Tags : Send(RunEvent("approval.required", turn.at, tag),
                                 "asking")
    BY DEF ApprovalRequired, Record, Tags
  <2> QED
    BY <1>1, <2>1, SentWrites DEF Ordinary
<1>3. pc' = "asking"
  BY <1>2 DEF Writes
<1>4. active.phase # "planning"
  <2>1. Kind \notin {"read", "write"}
    BY <1>1 DEF Verdicts
  <2> QED
    BY <1>1, <2>1 DEF PhaseDenied, IsPlanningTool
<1>5. SameCall
  BY <1>1, <1>3 DEF SameCall, AtCall
<1>6. ASSUME Followed' PROVE Counters' /\ PhaseFollows' /\ RoundFollows'
  <2>1. disk' = Apply(disk, e) /\ disk.valid
    BY <1>1, <1>2, <1>6, WritesFollow
  <2> DEFINE tool == disk.round.tools[turn.at]
  <2>2. PICK after : after = [tool EXCEPT !.approval = "pending"]
    OBVIOUS
  <2>3. tool \in Tools /\ tool = Fresh(Kind, Planned)
    BY <1>1, <2>1, CallTyped DEF CallFollows
  <2>4. Updated(disk, disk', turn.at, after)
    BY <1>1, <1>2, <2>1, <2>2, CallApplied
  <2>5. /\ after.kind = tool.kind /\ after.planned = tool.planned
        /\ after.approval = "pending" /\ ~after.started
        /\ after.result = "none"
    BY <2>3, <2>2 DEF Tools, Fresh
  <2> HIDE DEF tool
  <2>6. CallFollows(after)'
    BY <1>3, <2>5 DEF CallFollows
  <2> QED
    BY <1>1, <1>5, <2>1, <2>4, <2>5, <2>6, CallChanges DEF tool
<1>7. Waiting'
  BY <1>1, <1>3, <1>4 DEF Strong, HandlerInv, Waiting
<1>8. Moves
  BY <1>1, <1>2 DEF Moves, Writes, Accepts
<1> QED
  BY <1>6, <1>7, <1>8, Followings, MovesKeep

LEMMA AskingKeeps ==
  ASSUME Strong, Inv', Asking
  PROVE  HandlerInv'
<1>1. /\ pc = "asking" /\ io = "none" /\ Calling /\ turn' = turn
      /\ disk \in Histories /\ turn.at \in Nat /\ active \in Actives
  BY DEF Asking, At, Calling, Record, Strong, Inv, TypeOK, Turns
<1>2. CASE active.full
  <2>1. /\ Record("approval.resolved", turn.at, "approved", "granted")
        /\ active' = active
    BY <1>2 DEF Asking, Record
  <2>2. PICK e \in Events : /\ e.type = "approval.resolved" /\ e.n = turn.at
                            /\ e.tag = "approved" /\ Writes(e, "granted")
    <3>1. "approved" \in Tags
      BY DEF Tags
    <3> QED
      BY <1>1, <2>1, <3>1, SentWrites DEF Ordinary, Record
  <2>3. pc' = "granted"
    BY <2>2 DEF Writes
  <2>4. SameCall
    BY <1>1, <2>1, <2>3 DEF SameCall, AtCall
  <2>5. ASSUME Followed' PROVE Counters' /\ PhaseFollows' /\ RoundFollows'
    <3>1. disk' = Apply(disk, e) /\ disk.valid
      BY <1>1, <2>2, <2>5, WritesFollow
    <3> DEFINE tool == disk.round.tools[turn.at]
    <3>2. PICK after : after = [tool EXCEPT !.approval = "approved"]
      OBVIOUS
    <3>3. tool \in Tools /\ CallFollows(tool)
      BY <1>1, <3>1, CallTyped
    <3>4. Updated(disk, disk', turn.at, after)
      BY <1>1, <2>2, <3>1, <3>2, CallApplied
    <3>5. /\ after.kind = tool.kind /\ after.planned = tool.planned
          /\ after.approval = "approved" /\ after.started = tool.started
          /\ after.result = tool.result
      BY <3>3, <3>2 DEF Tools
    <3>6. ~tool.started /\ tool.result = "none"
      BY <1>1, <3>3 DEF CallFollows
    <3> HIDE DEF tool
    <3>7. CallFollows(after)'
      BY <2>3, <3>5, <3>6 DEF CallFollows
    <3> QED
      BY <1>1, <2>4, <3>1, <3>4, <3>5, <3>7, CallChanges DEF tool
  <2> QED
    BY <1>1, <2>1, <2>2, <2>5, Followings, PlainWrites DEF Places, Targets
<1>3. CASE ~active.full
  <2> DEFINE wait == IF Aborted THEN "aborted" ELSE "pending"
  <2>1. /\ active' = [active EXCEPT !.ask = "open", !.wait = wait]
        /\ Goto("approval_wait")
    BY <1>3 DEF Asking
  <2>2. wait \in {"aborted", "pending"}
    OBVIOUS
  <2> HIDE DEF wait
  <2>3. /\ active'.run = active.run /\ active'.phase = active.phase
        /\ active'.ask = "open" /\ active'.wait = wait
        /\ active'.plan = active.plan /\ pc' = "approval_wait"
    BY <1>1, <2>1 DEF Actives, Goto
  <2>4. SameCall
    BY <1>1, <2>3 DEF SameCall, AtCall
  <2>5. ASSUME Followed' PROVE Counters' /\ PhaseFollows' /\ RoundFollows'
    <3>1. disk' = disk /\ disk.valid
      BY <1>1, <2>1, <2>5, GotoFollows
    <3>2. CallFollows(disk.round.tools[turn.at])
      BY <1>1, <3>1, CallTyped
    <3>3. CallFollows(disk.round.tools[turn.at])'
      BY <1>1, <2>2, <2>3, <3>1, <3>2 DEF CallFollows
    <3> QED
      BY <1>1, <2>4, <3>1, <3>3, CallStays
  <2>6. Waiting'
    <3>1. /\ active.phase # "planning" /\ active.plan # "open"
          /\ io' = "none"
      BY <1>1, <2>1 DEF Strong, HandlerInv, Waiting, Goto
    <3> QED
      BY <2>2, <2>3, <3>1 DEF Waiting
  <2>7. Moves
    BY <1>1, <2>1, <2>3 DEF Moves, Goto, durable, others
  <2> QED
    BY <2>5, <2>6, <2>7, Followings, MovesKeep
<1> QED
  BY <1>2, <1>3

LEMMA ApprovalAnsweredKeeps ==
  ASSUME Strong, Inv', ApprovalAnswered
  PROVE  HandlerInv'
<1>1. /\ pc = "approval_wait" /\ io = "none" /\ Calling
      /\ active.wait # "pending" /\ disk \in Histories /\ active \in Actives
      /\ active.phase # "planning" /\ active.plan # "open"
  BY DEF ApprovalAnswered, At, Calling, Strong, Inv, TypeOK, HandlerInv, Waiting
<1>2. CASE /\ active.wait = "approved"
           /\ active' = [active EXCEPT !.ask = "none", !.wait = "none"]
           /\ Goto("granted") /\ UNCHANGED <<turn, facts>>
  <2>1. /\ active'.run = active.run /\ active'.phase = active.phase
        /\ active'.ask = "none" /\ active'.wait = "none"
        /\ active'.plan = active.plan /\ pc' = "granted" /\ turn' = turn
    BY <1>1, <1>2 DEF Actives, Goto
  <2>2. SameCall
    BY <1>1, <2>1 DEF SameCall, AtCall
  <2>3. ASSUME Followed' PROVE Counters' /\ PhaseFollows' /\ RoundFollows'
    <3>1. disk' = disk /\ disk.valid
      BY <1>1, <1>2, <2>3, GotoFollows
    <3>2. CallFollows(disk.round.tools[turn.at])
      BY <1>1, <3>1, CallTyped
    <3>3. CallFollows(disk.round.tools[turn.at])'
      BY <1>1, <1>2, <2>1, <3>1, <3>2 DEF CallFollows
    <3> QED
      BY <1>1, <2>2, <3>1, <3>3, CallStays
  <2>4. Waiting'
    BY <1>1, <2>1 DEF Waiting
  <2>5. Moves
    BY <1>1, <1>2, <2>1 DEF Moves, Goto, durable, others
  <2> QED
    BY <2>3, <2>4, <2>5, Followings, MovesKeep
<1>3. CASE /\ active.wait = "rejected"
           /\ active' = [active EXCEPT !.ask = "none", !.wait = "none"]
           /\ Result("rejected", TRUE)
  <2>1. /\ active'.run = active.run /\ active'.phase = active.phase
        /\ active'.ask = "none" /\ active'.wait = "none"
        /\ active'.plan = active.plan
    BY <1>1, <1>3 DEF Actives
  <2>2. FileFollows' /\ \E e \in Events : Writes(e, "recording")
    <3>1. "rejected" \in Codes
      BY DEF Codes
    <3> QED
      BY <1>1, <1>3, <2>1, <3>1, ResultFollows
  <2>3. pc' = "recording"
    BY <2>2 DEF Writes
  <2>4. Waiting'
    BY <1>1, <2>1, <2>3 DEF Waiting
  <2>5. Moves
    BY <1>1, <1>3, <2>1, <2>2 DEF Moves, Writes, Accepts
  <2> QED
    BY <2>2, <2>4, <2>5, MovesKeep
<1>4. CASE Leave
  BY <1>4, ForgetKeeps DEF Leave, others
<1>5. CASE FinishFromError
  BY <1>1, <1>5, FinishFromErrorKeeps
<1> QED
  BY <1>2, <1>3, <1>4, <1>5 DEF ApprovalAnswered

\* What is written is what the projection lets start.
LEMMA ToolStartsKeeps ==
  ASSUME Strong, Inv', ToolStarts
  PROVE  HandlerInv'
<1>1. /\ pc = "granted" /\ io = "none" /\ Calling
      /\ disk \in Histories /\ turn.at \in Nat
  BY DEF ToolStarts, At, Calling, Strong, Inv, TypeOK, Turns
<1>2. CASE FinishFromError
  BY <1>1, <1>2, FinishFromErrorKeeps
<1>3. CASE ~FinishFromError
  <2>1. /\ active' = active /\ turn' = turn
        /\ \E tag \in Tags : Send(RunEvent("tool.started", turn.at, tag), "tool")
    BY <1>3 DEF ToolStarts, Record, Tags
  <2>2. PICK e \in Events : /\ e.type = "tool.started" /\ e.n = turn.at
                            /\ Writes(e, "tool")
    BY <1>1, <2>1, SentWrites DEF Ordinary
  <2>3. pc' = "tool"
    BY <2>2 DEF Writes
  <2>4. SameCall
    BY <2>1, <2>3 DEF SameCall, AtCall
  <2>5. ASSUME Followed' PROVE Counters' /\ PhaseFollows' /\ RoundFollows'
    <3>1. disk' = Apply(disk, e) /\ disk.valid /\ Accepts(disk, e)
      BY <1>1, <2>2, <2>5, WritesFollow
    <3> DEFINE tool == disk.round.tools[turn.at]
    <3>2. PICK after : after = [tool EXCEPT !.started = TRUE]
      OBVIOUS
    <3>3. tool \in Tools /\ CallFollows(tool)
      BY <1>1, <3>1, CallTyped
    <3>4. Updated(disk, disk', turn.at, after)
      BY <1>1, <2>2, <3>1, <3>2, CallApplied
    <3>5. /\ after.kind = tool.kind /\ after.planned = tool.planned
          /\ after.approval = tool.approval /\ after.started
          /\ after.result = tool.result
      BY <3>2, <3>3 DEF Tools
    <3>6. tool.planned => IsPlanningTool(tool.kind)
      <4>1. AcceptsToolStart(disk, e.n)
        BY <2>2, <3>1 DEF Accepts
      <4> QED
        BY <2>2, <4>1 DEF AcceptsToolStart
    <3>7. /\ tool.result = "none" /\ tool.approval \in {"none", "approved"}
          /\ "authorized" \notin Verdicts(Kind) => tool.approval = "approved"
      BY <1>1, <3>3 DEF CallFollows
    <3>8. Verdicts(Kind)' = Verdicts(Kind)
      BY <2>1 DEF Verdicts, Kind
    <3> HIDE DEF tool
    <3>9. CallFollows(after)'
      BY <2>3, <3>5, <3>6, <3>7, <3>8 DEF CallFollows
    <3> QED
      BY <1>1, <2>4, <3>1, <3>4, <3>5, <3>9, CallChanges DEF tool
  <2> QED
    BY <1>1, <2>1, <2>2, <2>5, Followings, PlainWrites DEF Places, Targets
<1> QED
  BY <1>2, <1>3

\* The result has been recorded.
LEMMA RecordedKeeps ==
  ASSUME Strong, Inv', Recorded
  PROVE  HandlerInv'
<1>1. /\ pc = "recording" /\ io = "none" /\ Calling
      /\ disk \in Histories /\ active' = active /\ turn' = turn
  BY DEF Recorded, At, Calling, Strong, Inv, TypeOK
<1>2. ASSUME disk' = disk, disk.valid, pc' \in {"settle", "hopeless"}
      PROVE  Counters' /\ PhaseFollows' /\ RoundFollows'
  <2>1. SameCall
    BY <1>1, <1>2 DEF SameCall, AtCall
  <2>2. CallFollows(disk.round.tools[turn.at])
    BY <1>1, <1>2, CallTyped
  <2>3. CallFollows(disk.round.tools[turn.at])'
    BY <1>1, <1>2, <2>2 DEF CallFollows
  <2> QED
    BY <1>1, <1>2, <2>1, <2>3, CallStays
<1>3. CASE Goto("settle")
  <2>1. ASSUME Followed' PROVE Counters' /\ PhaseFollows' /\ RoundFollows'
    BY <1>1, <1>2, <1>3, <2>1, GotoFollows
  <2> QED
    BY <1>1, <1>3, <2>1, Followings, PlainGoto DEF Places, Targets
<1>4. CASE ~Goto("settle")
  <2>1. PICK l \in {"settle", "hopeless"}, tag \in Tags :
          Send(RunEvent("validation.repair.warning", 0, tag), l)
    BY <1>4 DEF Recorded, Tags
  <2>2. PICK e \in Events : /\ e.type = "validation.repair.warning"
                            /\ Writes(e, l)
    BY <1>1, <2>1, SentWrites DEF Ordinary
  <2>3. ASSUME Followed' PROVE Counters' /\ PhaseFollows' /\ RoundFollows'
    <3>1. disk' = Apply(disk, e) /\ disk.valid
      BY <1>1, <2>2, <2>3, WritesFollow
    <3>2. disk' = disk
      BY <1>1, <2>2, <3>1, NothingApplied
    <3> QED
      BY <1>2, <2>2, <3>1, <3>2 DEF Writes
  <2> QED
    BY <1>1, <2>1, <2>2, <2>3, Followings, PlainWrites DEF Places, Targets
<1> QED
  BY <1>3, <1>4

\* The next call, or the end of the batch.
LEMMA NextCallKeeps ==
  ASSUME Strong, Inv', At("settle"), NextCall, active' = active
  PROVE  HandlerInv'
<1> DEFINE n == Len(turn.batch)
<1>1. /\ pc = "settle" /\ io = "none" /\ Calling /\ disk \in Histories
      /\ turn \in Turns /\ turn.at \in Nat /\ turn.batch \in Seq(Kinds)
      /\ turn.at \in 1..n /\ n \in Nat
  BY DEF At, Calling, Strong, Inv, TypeOK, Turns, CallInBatch
<1>2. /\ turn'.at = IF turn.at < n THEN turn.at + 1 ELSE 0
      /\ turn'.batch = turn.batch /\ turn'.requests = turn.requests
      /\ turn'.finish = turn.finish
  BY <1>1 DEF NextCall, Turns
<1>3. PICK l \in {"dispatch", "loop"} : Goto(l) /\ (l = "dispatch" <=> turn.at < n)
  BY DEF NextCall
<1>4. ASSUME Followed' PROVE Counters' /\ PhaseFollows' /\ RoundFollows'
  <2>1. disk' = disk /\ disk.valid /\ pc' = l
    BY <1>1, <1>3, <1>4, GotoFollows
  <2>2. /\ Counters /\ PhaseFollows /\ RoundFollows /\ BatchFollows
        /\ CallFollows(disk.round.tools[turn.at])
        /\ turn.finish = "tool_calls" /\ disk.round.tools \in Seq(Tools)
    BY <1>1, <2>1, CallTyped
  <2> DEFINE tools == disk.round.tools
  <2>3. /\ DOMAIN tools = 1..n /\ disk.round.finish = "tool_calls"
        /\ \A i \in 1..n :
              /\ tools[i].kind = turn.batch[i] /\ tools[i].planned = Planned
              /\ i <= turn.at => tools[i].result # "none"
              /\ i > turn.at => tools[i] = Fresh(turn.batch[i], Planned)
    <3>1. tools[turn.at].result # "none"
      BY <1>1, <2>2 DEF CallFollows
    <3>2. DOMAIN turn.batch = 1..n
      BY <1>1
    <3> HIDE DEF n
    <3> QED
      BY <1>1, <2>2, <3>1, <3>2 DEF BatchFollows
  <2>4. Planned' = Planned
    BY DEF Planned
  <2>5. Counters' /\ PhaseFollows'
    BY <1>1, <1>2, <2>1, <2>2 DEF Counters, PhaseFollows
  <2>6. CASE l = "dispatch"
    <3>1. turn'.at = turn.at + 1 /\ turn.at + 1 \in 1..n
      BY <1>1, <1>2, <1>3, <2>6
    <3>2. \A i \in 1..n : (i < turn'.at => i <= turn.at) /\ (i > turn'.at => i > turn.at)
      BY <1>1, <3>1
    <3>3. DOMAIN turn.batch = 1..n
      BY <1>1
    <3> HIDE DEF n
    <3>4. BatchFollows'
      BY <1>2, <2>1, <2>3, <2>4, <3>2, <3>3 DEF BatchFollows
    <3>5. CallFollows(disk.round.tools[turn.at])'
      <4>1. tools[turn.at + 1] = Fresh(turn.batch[turn.at + 1], Planned)
        BY <1>1, <2>3, <3>1
      <4> QED
        BY <1>2, <2>1, <2>4, <2>6, <3>1, <4>1 DEF CallFollows, Kind
    <3> QED
      BY <1>2, <2>1, <2>2, <2>5, <2>6, <3>4, <3>5 DEF RoundFollows, AtCall
  <2>7. CASE l = "loop"
    <3>1. turn.at = n
      BY <1>1, <1>3, <2>7
    <3>2. n \in 1..n /\ \A i \in 1..n : tools[i].result # "none"
      BY <1>1, <2>3, <3>1
    <3> HIDE DEF n
    <3>3. ToolRoundDone(disk.round)
      <4>1. disk.round.tools # << >>
        BY <2>3, <3>2
      <4>2. Unresolved(disk.round) = {}
        BY <2>3, <3>2 DEF Unresolved
      <4> QED
        BY <4>1, <4>2 DEF ToolRoundDone
    <3>4. RoundOver'
      BY <1>2, <2>1, <2>2, <2>3, <3>3 DEF RoundOver
    <3> QED
      BY <1>2, <2>1, <2>5, <2>7, <3>4 DEF RoundFollows, AtCall
  <2> QED
    BY <2>6, <2>7
<1> QED
  BY <1>1, <1>3, <1>4, Followings, PlainGoto DEF Places, Targets

LEMMA SettleKeeps ==
  ASSUME Strong, Inv', Settle
  PROVE  HandlerInv'
<1>1. At("settle")
  BY DEF Settle
<1>2. CASE FinishFromError
  BY <1>1, <1>2, FinishFromErrorKeeps DEF At
<1>3. CASE NextCall /\ active' = active
  BY <1>1, <1>3, NextCallKeeps
<1> QED
  BY <1>2, <1>3 DEF Settle

LEMMA BatchStepKeeps ==
  ASSUME Strong, Inv', BatchStep
  PROVE  HandlerInv'
<1>1. CASE \/ CallsInsteadOfText \/ CallsRepeatIdentifier \/ DispatchAborted
           \/ ToolAborted \/ GivenUp
  BY <1>1, FinishFromErrorKeeps
  DEF CallsInsteadOfText, Called, CallsRepeatIdentifier, DispatchAborted,
      ToolAborted, GivenUp, At
<1> QED
  BY <1>1, NarrativeSuppressedKeeps, TakeBatchKeeps, NarrateKeeps, CollectKeeps,
     CollectedKeeps, DispatchKeeps, AuthorizedKeeps, ApprovalRequiredKeeps,
     AskingKeeps, ApprovalAnsweredKeeps, ToolStartsKeeps, RecordedKeeps,
     SettleKeeps
  DEF BatchStep

-----------------------------------------------------------------------------
(* The callers who answer.                                                 *)

\* An ordinary event leaves the ends of the runs alone, whoever appends it.
LEMMA AppendedKind ==
  ASSUME TypeOK, NEW e, e.type \in Ordinary, e.run \in Runs, NEW result,
         Appends(e, result)
  PROVE  log' = log
<1>1. e.type \notin Terminal /\ e.type # "run.started"
  BY DEF Ordinary, Terminal
<1>2. ASSUME Write(e) PROVE log' = log
  <2>1. log' = [log EXCEPT ![e.run] = log[e.run]]
    BY <1>1, <1>2 DEF Write
  <2> QED
    BY <2>1 DEF TypeOK
<1> QED
  BY <1>2 DEF Appends, durable

\* An answer for the run is appended while the run waits for it.
LEMMA DecideApprovalKeeps ==
  ASSUME Strong, Inv', NEW d \in Deciders, NEW yes \in BOOLEAN,
         DecideApproval(d, yes)
  PROVE  HandlerInv'
<1>1. /\ TypeOK /\ Ownership /\ Answers /\ Waiting /\ Synced
      /\ disk \in Histories /\ active \in Actives /\ turn.at \in Nat
      /\ dec \in [Deciders -> Decisions]
  BY DEF Strong, Inv, HandlerInv, TypeOK, Turns
<1>2. /\ active.run # NoRun /\ active.ask = "open" /\ ~active.ending
      /\ active' = [active EXCEPT !.ask = "resolved"]
      /\ pc' = pc /\ io' = io /\ turn' = turn /\ facts' = facts
  BY DEF DecideApproval, Deciding
<1>3. /\ pc = "approval_wait" /\ io = "none" /\ Calling
      /\ active.wait \in {"pending", "aborted"}
      /\ active.phase # "planning" /\ active.plan # "open"
  BY <1>1, <1>2 DEF Ownership, Waiting, Calling
<1>4. active.run \in Runs /\ log[active.run] = "open"
  BY <1>1, <1>3, Owned DEF Ownership
<1> DEFINE tag == AnswerTag(yes)
           e == RunEvent("approval.resolved", turn.at, tag)
<1>5. tag \in Tags /\ tag \in {"approved", "rejected"}
  BY DEF Tags, AnswerTag, Codes
<1>6. e \in Events
  BY <1>1, <1>4, <1>5, RunEventType DEF EventTypes, Ordinary
<1>7. /\ e.type = "approval.resolved" /\ e.n = turn.at /\ e.tag = tag
      /\ e.run = active.run
  BY DEF RunEvent, Event
<1>8. PICK result \in Outcomes :
        /\ Appends(e, result)
        /\ dec' = [dec EXCEPT ![d] = [io |-> result, kind |-> "approval",
                                      run |-> active.run, yes |-> yes]]
  BY DEF DecideApproval, DecisionAppended
<1> HIDE DEF e, tag
<1>9. log' = log
  BY <1>1, <1>4, <1>7, <1>8, AppendedKind DEF Ordinary
<1>10. /\ synced' => disk'.valid
       /\ result = "delivering" => disk' = Apply(disk, e)
       /\ disk'.valid => disk.valid /\ disk' \in {disk, Apply(disk, e)}
  BY <1>1, <1>3, <1>6, <1>8, Appended DEF Accepts, Synced
<1>11. /\ active'.run = active.run /\ active'.phase = active.phase
       /\ active'.ask = "resolved" /\ active'.plan = active.plan
       /\ active'.wait = active.wait
  BY <1>1, <1>2 DEF Actives
<1>12. SameCall
  BY <1>2, <1>3, <1>11 DEF SameCall, AtCall
<1>13. ASSUME Followed'
       PROVE  /\ Followed /\ Counters' /\ PhaseFollows' /\ RoundFollows'
              /\ result = "delivering" => disk'.round.tools[turn.at].approval = tag
  <2>1. disk'.valid /\ disk.valid /\ Followed
    BY <1>2, <1>10, <1>13 DEF Followed, Running
  <2> DEFINE tool == disk.round.tools[turn.at]
  <2>2. PICK after : after = [tool EXCEPT !.approval = tag]
    OBVIOUS
  <2>3. /\ tool \in Tools /\ CallFollows(tool) /\ disk.round.tools \in Seq(Tools)
        /\ turn.at \in DOMAIN disk.round.tools
    BY <1>3, <2>1, CallTyped
  <2>4. ~tool.started /\ tool.result = "none"
    BY <1>3, <2>3 DEF CallFollows
  <2>5. /\ after.kind = tool.kind /\ after.planned = tool.planned
        /\ after.started = tool.started /\ after.result = tool.result
        /\ after.approval = tag
    BY <2>2, <2>3 DEF Tools
  <2>6. CASE disk' = Apply(disk, e)
    <3>1. (IF e.tag = "approved" THEN "approved" ELSE "rejected") = tag
      BY <1>5, <1>7
    <3>2. Updated(disk, disk', turn.at, after)
      BY <1>1, <1>7, <2>2, <2>6, <3>1, CallApplied
    <3>3. disk'.round.tools[turn.at] = after
      BY <2>3, <3>2 DEF Updated
    <3> HIDE DEF tool
    <3>4. CallFollows(after)'
      BY <1>2, <1>3, <1>11, <2>4, <2>5 DEF CallFollows
    <3> QED
      BY <1>3, <1>12, <2>1, <2>5, <3>2, <3>3, <3>4, CallChanges DEF tool
  <2>7. CASE disk' = disk /\ disk' # Apply(disk, e)
    <3>1. CallFollows(disk.round.tools[turn.at])'
      BY <1>2, <1>3, <1>11, <2>4, <2>7 DEF CallFollows
    <3> QED
      BY <1>3, <1>10, <1>12, <2>1, <2>7, <3>1, CallStays
  <2> QED
    BY <1>10, <2>1, <2>6, <2>7
<1>14. FileFollows'
  BY <1>13, Followings
<1>15. dec'[d] = [io |-> result, kind |-> "approval", run |-> active.run,
                  yes |-> yes]
  BY <1>1, <1>8
<1>16. \A c \in Deciders : c # d => dec'[c] = dec[c]
  BY <1>1, <1>8
<1>17. result # "idle" /\ result # "none"
  BY DEF Outcomes, Results
<1>18. Answering(d, "approval")' /\ dec'[d].kind = "approval"
  BY <1>11, <1>15, <1>17 DEF Answering
<1>19. Addressed'
  <2>1. log[active.run] # "absent"
    BY <1>4
  <2> QED
    BY <1>1, <1>4, <1>9, <1>15, <1>16, <1>17, <2>1 DEF Answers, Addressed
<1>20. \A c \in Deciders : Answering(c, "approval")' => c = d
  <2>1. \A c \in Deciders : ~Answering(c, "approval")
    BY <1>1, <1>2 DEF Answers, ApprovalsAnswered
  <2> QED
    BY <1>11, <1>16, <2>1 DEF Answering
<1>21. ApprovalsAnswered'
  BY <1>2, <1>3, <1>11, <1>13, <1>15, <1>20 DEF ApprovalsAnswered, tag
<1>22. PlansAnswered'
  <2>1. \A c \in Deciders : Answering(c, "plan")' =>
          Answering(c, "plan") /\ dec'[c] = dec[c]
    BY <1>11, <1>16, <1>18 DEF Answering
  <2>2. PlansAnswered
    BY <1>1, <1>2 DEF Answers
  <2> QED
    BY <1>3, <1>11, <1>13, <2>1, <2>2 DEF PlansAnswered
<1>23. Waiting'
  BY <1>2, <1>3, <1>11, <1>18 DEF Waiting
<1>24. Synced'
  BY <1>1, <1>2, <1>3, <1>10, <1>11 DEF Synced, Running, Planned
<1> QED
  BY <1>14, <1>19, <1>21, <1>22, <1>23, <1>24 DEF HandlerInv, Answers

LEMMA DecidePlanKeeps ==
  ASSUME Strong, Inv', NEW d \in Deciders, NEW yes \in BOOLEAN,
         DecidePlan(d, yes)
  PROVE  HandlerInv'
<1>1. /\ TypeOK /\ Ownership /\ Answers /\ Waiting /\ Synced
      /\ disk \in Histories /\ active \in Actives
      /\ dec \in [Deciders -> Decisions]
  BY DEF Strong, Inv, HandlerInv, TypeOK
<1>2. /\ active.run # NoRun /\ active.plan = "open" /\ ~active.ending
      /\ active.phase = "awaiting" /\ active' = active
      /\ pc' = pc /\ io' = io /\ turn' = turn /\ facts' = facts
  BY DEF DecidePlan, Deciding
<1>3. /\ pc = "plan_wait" /\ io = "none"
      /\ active.wait \in {"pending", "aborted"}
  BY <1>1, <1>2 DEF Ownership, Waiting
<1>4. active.run \in Runs /\ log[active.run] = "open"
  BY <1>1, <1>3, Owned DEF Ownership
<1> DEFINE tag == AnswerTag(yes)
           e == RunEvent("plan.approval.resolved", 0, tag)
<1>5. tag \in Tags /\ tag \in {"approved", "rejected"} /\ (yes <=> tag = "approved")
  BY DEF Tags, AnswerTag, Codes
<1>6. e \in Events
  BY <1>1, <1>4, <1>5, RunEventType DEF EventTypes, Ordinary
<1>7. /\ e.type = "plan.approval.resolved" /\ e.tag = tag
      /\ e.run = active.run
  BY DEF RunEvent, Event
<1>8. PICK result \in Outcomes :
        /\ Appends(e, result)
        /\ dec' = [dec EXCEPT ![d] = [io |-> result, kind |-> "plan",
                                      run |-> active.run, yes |-> yes]]
  BY DEF DecidePlan, DecisionAppended
<1> HIDE DEF e, tag
<1>9. log' = log
  BY <1>1, <1>4, <1>7, <1>8, AppendedKind DEF Ordinary
<1>10. /\ synced' => disk'.valid
       /\ result = "delivering" => Accepts(disk, e) /\ disk' = Apply(disk, e)
       /\ disk'.valid => \/ disk' = disk
                         \/ Accepts(disk, e) /\ disk' = Apply(disk, e)
  BY <1>1, <1>3, <1>6, <1>8, Appended DEF Synced
<1>11. ASSUME Accepts(disk, e)
       PROVE  disk.valid /\ disk.phase = "awaiting" /\ disk.plan = "proposed"
  <2>1. AcceptsPlanResolution(disk) /\ disk.valid
    BY <1>7, <1>11 DEF Accepts, Terminal
  <2> QED
    BY <2>1 DEF AcceptsPlanResolution
<1>12. /\ disk'.valid => disk.valid
       /\ Followed' => Followed
  BY <1>2, <1>10, <1>11 DEF Followed, Running
<1>13. ASSUME Accepts(disk, e), disk' = Apply(disk, e)
       PROVE  /\ disk'.run = disk.run /\ disk'.final = disk.final
              /\ disk'.pending = disk.pending
              /\ disk'.iterations = disk.iterations /\ disk'.goal = disk.goal
              /\ disk'.plan = tag
              /\ tag = "approved" => disk'.phase = "executing"
                                     /\ disk'.round = NoRound
              /\ tag = "rejected" => disk'.phase = "awaiting"
                                     /\ disk'.round = disk.round
  BY <1>1, <1>5, <1>7, <1>11, <1>13, AnswerApplied
<1>14. ASSUME Followed' PROVE Counters' /\ PhaseFollows' /\ RoundFollows'
  <2>1. Counters /\ PhaseFollows /\ RoundFollows /\ disk'.valid
    BY <1>12, <1>14 DEF Strong, HandlerInv, FileFollows, Followed
  <2>2. RoundFollows'
    BY <1>2, <1>3, <2>1 DEF RoundFollows, AtCall
  <2>3. CASE disk' = disk
    BY <1>2, <1>3, <2>1, <2>2, <2>3 DEF Counters, PhaseFollows
  <2>4. CASE Accepts(disk, e) /\ disk' = Apply(disk, e)
    <3>1. Counters'
      BY <1>2, <1>3, <1>13, <2>1, <2>4 DEF Counters
    <3>2. PhaseFollows'
      BY <1>2, <1>3, <1>5, <1>13, <2>4 DEF PhaseFollows
    <3> QED
      BY <2>2, <3>1, <3>2
  <2> QED
    BY <1>10, <2>1, <2>3, <2>4
<1>15. dec'[d] = [io |-> result, kind |-> "plan", run |-> active.run,
                  yes |-> yes]
  BY <1>1, <1>8
<1>16. \A c \in Deciders : c # d => dec'[c] = dec[c]
  BY <1>1, <1>8
<1>17. result # "idle" /\ result # "none"
  BY DEF Outcomes, Results
<1>18. Answering(d, "plan")' /\ dec'[d].kind = "plan"
  BY <1>2, <1>15, <1>17 DEF Answering
<1>19. Addressed'
  <2>1. log[active.run] # "absent"
    BY <1>4
  <2> QED
    BY <1>1, <1>4, <1>9, <1>15, <1>16, <1>17, <2>1 DEF Answers, Addressed
<1>20. ApprovalsAnswered /\ PlansAnswered
  BY <1>1, <1>2 DEF Answers
<1>21. ApprovalsAnswered'
  <2>1. \A c \in Deciders : ~Answering(c, "approval")
    BY <1>3, <1>20 DEF ApprovalsAnswered
  <2>2. \A c \in Deciders : ~Answering(c, "approval")'
    BY <1>2, <1>15, <1>16, <2>1 DEF Answering
  <2> QED
    BY <2>2 DEF ApprovalsAnswered
<1>22. PlansAnswered'
  <2>1. \A c \in Deciders : c # d =>
          (Answering(c, "plan")' <=> Answering(c, "plan")) /\ dec'[c] = dec[c]
    BY <1>2, <1>16 DEF Answering
  <2>2. \A c \in Deciders : c # d /\ Answering(c, "plan")
            /\ dec[c].io = "delivering" /\ Followed' => ~Accepts(disk, e)
    <3>1. SUFFICES ASSUME NEW c \in Deciders, Answering(c, "plan"),
                          dec[c].io = "delivering", Followed'
                   PROVE  disk.plan # "proposed"
      BY <1>11
    <3>2. disk.plan = AnswerTag(dec[c].yes)
      BY <1>12, <1>20, <3>1 DEF PlansAnswered
    <3> QED
      BY <3>2 DEF AnswerTag
  <2>3. SUFFICES ASSUME NEW c \in Deciders, Answering(c, "plan")',
                        dec'[c].io = "delivering", Followed'
                 PROVE  /\ disk'.plan = AnswerTag(dec'[c].yes)
                        /\ dec'[c].yes => disk'.phase = "executing"
                        /\ \A b \in Deciders : Answering(b, "plan")'
                              /\ dec'[b].io = "delivering" => b = c
    BY <1>2, <1>3 DEF PlansAnswered
  <2>4. CASE c = d
    <3>1. result = "delivering"
      BY <1>15, <2>3, <2>4
    <3>2. Accepts(disk, e) /\ disk' = Apply(disk, e)
      BY <1>10, <3>1
    <3>3. disk'.plan = tag /\ (yes => disk'.phase = "executing")
      BY <1>5, <1>13, <3>2
    <3>4. \A b \in Deciders : Answering(b, "plan")'
             /\ dec'[b].io = "delivering" => b = d
      BY <2>1, <2>2, <2>3, <3>2
    <3> QED
      BY <1>15, <2>4, <3>3, <3>4 DEF tag
  <2>5. CASE c # d
    <3>1. Answering(c, "plan") /\ dec[c].io = "delivering" /\ dec'[c] = dec[c]
      BY <2>1, <2>3, <2>5
    <3>2. ~Accepts(disk, e) /\ Followed
      BY <1>12, <2>2, <2>3, <2>5, <3>1
    <3>3. disk' = disk /\ result # "delivering"
      BY <1>10, <2>3, <3>2 DEF Followed
    <3>4. \A b \in Deciders : Answering(b, "plan")'
             /\ dec'[b].io = "delivering" => b = c
      BY <1>15, <1>20, <2>1, <3>1, <3>2, <3>3 DEF PlansAnswered
    <3> QED
      BY <1>20, <3>1, <3>2, <3>3, <3>4 DEF PlansAnswered
  <2> QED
    BY <2>4, <2>5
<1>23. Waiting'
  BY <1>1, <1>2, <1>3 DEF Waiting
<1>24. Synced'
  BY <1>1, <1>2, <1>3, <1>10 DEF Synced, Running, Planned
<1> QED
  BY <1>14, <1>19, <1>21, <1>22, <1>23, <1>24, Followings DEF HandlerInv, Answers

\* A caller's append has returned: its answer is not on its way any more.
Heard(d) ==
    /\ dec' = [dec EXCEPT ![d] = NoDecision]
    /\ pc' = pc /\ io' = io /\ turn' = turn /\ facts' = facts
    /\ disk' = disk /\ log' = log /\ synced' = synced
    /\ active'.run = active.run

LEMMA HeardAnswers ==
  ASSUME Strong, NEW d \in Deciders, Heard(d)
  PROVE  /\ Followed' <=> Followed
         /\ Addressed'
         /\ \A c \in Deciders, kind \in {"approval", "plan"} :
              /\ Answering(c, kind)' <=> c # d /\ Answering(c, kind)
              /\ Answering(c, kind)' => dec'[c] = dec[c]
<1>1. dec \in [Deciders -> Decisions] /\ Addressed
  BY DEF Strong, Inv, TypeOK, HandlerInv, Answers
<1>2. dec'[d].io = "idle" /\ \A c \in Deciders : c # d => dec'[c] = dec[c]
  BY <1>1 DEF Heard, NoDecision
<1> QED
  BY <1>1, <1>2 DEF Heard, Followed, Running, Addressed, Answering

\* The answer was for another run, or nobody passes its failure on.
LEMMA UnheardKeeps ==
  ASSUME Strong, NEW d \in Deciders, Heard(d), active' = active,
         active.run # NoRun => ~Answering(d, "approval")
  PROVE  HandlerInv'
<1>1. Answers /\ Waiting /\ Synced /\ FileFollows /\ Ownership
  BY DEF Strong, Inv, HandlerInv
<1>2. FileFollows'
  <2>1. /\ Counters' <=> Counters
        /\ PhaseFollows' <=> PhaseFollows
    BY DEF Heard, Counters, PhaseFollows
  <2>2. Kind' = Kind /\ Planned' = Planned
    BY DEF Heard, Kind, Planned
  <2>3. \A tool : CallFollows(tool) => CallFollows(tool)'
    BY <2>2 DEF CallFollows, Heard, Verdicts
  <2>4. RoundFollows => RoundFollows'
    BY <2>2, <2>3 DEF RoundFollows, RoundOver, Collecting, AtCall,
       BatchFollows, Heard
  <2> QED
    BY <1>1, <2>1, <2>4, HeardAnswers DEF FileFollows
<1>3. Answers'
  <2>1. Addressed'
    BY HeardAnswers
  <2>2. active.run # NoRun => ApprovalsAnswered'
    BY <1>1, HeardAnswers DEF Heard, Answers, ApprovalsAnswered
  <2>3. active.run # NoRun => PlansAnswered'
    <3>1. SUFFICES ASSUME PlansAnswered, NEW c \in Deciders,
                          Answering(c, "plan")'
                   PROVE  /\ active.phase \in {"awaiting", "executing"}
                          /\ dec'[c].io = "delivering" /\ Followed =>
                               /\ pc = "plan_wait" /\ active.wait # "approved"
                               /\ disk.plan = AnswerTag(dec'[c].yes)
                               /\ dec'[c].yes => disk.phase = "executing"
                               /\ \A b \in Deciders : Answering(b, "plan")'
                                     /\ dec'[b].io = "delivering" => b = c
      BY <1>1, HeardAnswers DEF Heard, Answers, PlansAnswered
    <3>2. Answering(c, "plan") /\ dec'[c] = dec[c]
      BY <3>1, HeardAnswers
    <3>3. \A b \in Deciders : Answering(b, "plan")' =>
            Answering(b, "plan") /\ dec'[b] = dec[b]
      BY HeardAnswers
    <3> QED
      BY <3>1, <3>2, <3>3 DEF PlansAnswered
  <2> QED
    BY <2>1, <2>2, <2>3 DEF Answers
<1>4. Waiting'
  <2>1. pc = "approval_wait" => active.run # NoRun
    BY <1>1 DEF Ownership
  <2>2. \A c \in Deciders : active.run # NoRun /\ Answering(c, "approval") =>
          Answering(c, "approval")'
    BY HeardAnswers
  <2> QED
    BY <1>1, <2>1, <2>2 DEF Heard, Waiting
<1>5. Synced'
  BY <1>1 DEF Heard, Synced, Running, Planned
<1> QED
  BY <1>2, <1>3, <1>4, <1>5 DEF HandlerInv

\* The answer to an approval, or the failure to write it.
LEMMA ApprovalTakenKeeps ==
  ASSUME Strong, NEW d \in Deciders, Heard(d), active.run # NoRun,
         Answering(d, "approval"),
         NEW outcome \in {"approved", "rejected", "store_error", "history_error"},
         outcome \in {"approved", "rejected"} =>
            dec[d].io = "delivering" /\ outcome = AnswerTag(dec[d].yes),
         active'.phase = active.phase, active'.plan = active.plan,
         active'.ask = "none", active'.wait \in {outcome, "aborted"},
         active.wait = "aborted" => active'.wait = "aborted"
  PROVE  HandlerInv'
<1>1. Answers /\ Waiting /\ Synced /\ FileFollows /\ Ownership
  BY DEF Strong, Inv, HandlerInv
<1>2. /\ pc \in {"approval_wait", "finishing"}
      /\ active.wait \in {"pending", "aborted"}
      /\ \A c \in Deciders : Answering(c, "approval") => c = d
      /\ dec[d].io = "delivering" /\ Followed =>
           disk.round.tools[turn.at].approval = AnswerTag(dec[d].yes)
  BY <1>1 DEF Answers, ApprovalsAnswered
<1>3. active'.wait # "pending"
  BY <1>2
<1>4. ASSUME Followed' PROVE Counters' /\ PhaseFollows' /\ RoundFollows'
  <2>1. Followed
    BY <1>4, HeardAnswers
  <2>2. pc = "approval_wait" /\ io = "none" /\ Calling /\ disk.valid
    BY <1>1, <1>2, <2>1 DEF Followed, Running, Waiting, Calling
  <2>3. CallFollows(disk.round.tools[turn.at])
    BY <2>2, CallTyped
  <2>4. CallFollows(disk.round.tools[turn.at])'
    BY <1>2, <2>1, <2>2, <2>3 DEF CallFollows, Heard
  <2>5. SameCall
    BY <2>2 DEF SameCall, AtCall, Heard
  <2> QED
    BY <2>2, <2>4, <2>5, CallStays DEF Heard
<1>5. Answers'
  <2>1. ApprovalsAnswered'
    BY <1>2, HeardAnswers DEF ApprovalsAnswered
  <2>2. PlansAnswered'
    <3>1. \A c \in Deciders : Answering(c, "plan") =>
             /\ active.phase \in {"awaiting", "executing"}
             /\ ~(dec[c].io = "delivering" /\ Followed)
      BY <1>1, <1>2 DEF Answers, PlansAnswered, Followed, Running
    <3> QED
      BY <3>1, HeardAnswers DEF PlansAnswered
  <2> QED
    BY <2>1, <2>2, HeardAnswers DEF Answers
<1>6. Waiting'
  <2>1. active.plan = "open" => pc = "finishing" /\ active.wait = "aborted"
    BY <1>1, <1>2 DEF Waiting
  <2> QED
    BY <1>1, <1>2, <1>3, <2>1 DEF Waiting, Heard
<1>7. Synced'
  BY <1>1 DEF Heard, Synced, Running, Planned
<1> QED
  BY <1>4, <1>5, <1>6, <1>7, Followings DEF HandlerInv

\* The answer to a plan.
LEMMA PlanTakenKeeps ==
  ASSUME Strong, NEW d \in Deciders, Heard(d), active.run # NoRun,
         Answering(d, "plan"), dec[d].io = "delivering",
         NEW wait, wait = active.wait \/ (active.wait = "pending" /\ wait = "aborted"),
         active'.wait = (IF wait = "pending" /\ pc = "plan_wait"
                         THEN AnswerTag(dec[d].yes) ELSE wait),
         active'.phase = (IF dec[d].yes THEN "executing" ELSE active.phase),
         active'.plan = "none", active'.ask = active.ask
  PROVE  HandlerInv'
<1>1. Answers /\ Waiting /\ Synced /\ FileFollows /\ Ownership
  BY DEF Strong, Inv, HandlerInv
<1>2. /\ active.phase \in {"awaiting", "executing"}
      /\ Followed => /\ pc = "plan_wait" /\ active.wait # "approved"
                     /\ disk.plan = AnswerTag(dec[d].yes)
                     /\ dec[d].yes => disk.phase = "executing"
                     /\ \A c \in Deciders : Answering(c, "plan")
                           /\ dec[c].io = "delivering" => c = d
  BY <1>1 DEF Answers, PlansAnswered
<1>3. /\ active'.phase \in {"awaiting", "executing"} /\ pc # "proposing"
      /\ AnswerTag(dec[d].yes) \in {"approved", "rejected"}
      /\ AnswerTag(dec[d].yes) = "approved" <=> dec[d].yes
  BY <1>1, <1>2 DEF Waiting, AnswerTag
<1>4. ASSUME Followed' PROVE Counters' /\ PhaseFollows' /\ RoundFollows'
  <2>1. Followed /\ pc = "plan_wait"
    BY <1>2, <1>4, HeardAnswers
  <2>2. Counters /\ PhaseFollows /\ RoundFollows
    BY <1>1, <2>1 DEF FileFollows
  <2>3. Counters'
    BY <2>1, <2>2 DEF Counters, Heard
  <2>4. RoundFollows'
    BY <2>1, <2>2 DEF RoundFollows, AtCall, Heard
  <2>5. PhaseFollows'
    <3>1. active'.wait = "approved" => dec[d].yes
      BY <1>2, <1>3, <2>1
    <3>2. active'.phase = "executing" => disk.phase = "executing"
      BY <1>2, <2>1, <2>2 DEF PhaseFollows
    <3> QED
      BY <1>3, <2>1, <2>2, <3>1, <3>2 DEF PhaseFollows, Heard
  <2> QED
    BY <2>3, <2>4, <2>5
<1>5. Answers'
  <2>1. ApprovalsAnswered'
    <3>1. SUFFICES ASSUME NEW c \in Deciders, Answering(c, "approval")'
                   PROVE  /\ pc \in {"approval_wait", "finishing"}
                          /\ active'.ask = "resolved"
                          /\ active'.wait \in {"pending", "aborted"}
                          /\ \A b \in Deciders : Answering(b, "approval")' => b = c
                          /\ dec'[c].io = "delivering" /\ Followed' =>
                               disk.round.tools[turn.at].approval
                                   = AnswerTag(dec'[c].yes)
      BY DEF ApprovalsAnswered, Heard
    <3>2. Answering(c, "approval") /\ dec'[c] = dec[c]
      BY <3>1, HeardAnswers
    <3>3. ApprovalsAnswered
      BY <1>1 DEF Answers
    <3> QED
      BY <3>2, <3>3, HeardAnswers DEF ApprovalsAnswered
  <2>2. PlansAnswered'
    BY <1>2, <1>3, HeardAnswers DEF PlansAnswered
  <2> QED
    BY <2>1, <2>2, HeardAnswers DEF Answers
<1>6. Waiting'
  <2>1. \A c \in Deciders : Answering(c, "approval") => Answering(c, "approval")'
    <3>1. ~Answering(d, "approval")
      BY DEF Answering
    <3> QED
      BY <3>1, HeardAnswers
  <2>2. active'.wait = "pending" => active.wait = "pending" /\ pc # "plan_wait"
    BY <1>3
  <2>3. pc # "plan_wait" /\ active.wait \in {"pending", "aborted"} =>
          active'.wait \in {"pending", "aborted"}
    OBVIOUS
  <2>4. active.ask = "open" => pc # "plan_wait"
    BY <1>1 DEF Waiting
  <2> QED
    BY <1>1, <1>3, <2>1, <2>2, <2>3, <2>4 DEF Waiting, Heard
<1>7. Synced'
  BY <1>1, <1>3 DEF Heard, Synced, Running, Planned
<1> QED
  BY <1>4, <1>5, <1>6, <1>7, Followings DEF HandlerInv

LEMMA DecisionReturnsKeeps ==
  ASSUME Strong, NEW d \in Deciders, DecisionReturns(d)
  PROVE  HandlerInv'
<1>1. /\ active \in Actives /\ dec[d] \in Decisions /\ Answers
  BY DEF Strong, Inv, TypeOK, HandlerInv
<1>2. /\ dec' = [dec EXCEPT ![d] = NoDecision]
      /\ UNCHANGED <<durable, pc, io, turn, facts, crashes>>
      /\ dec[d].io = "delivering"
  BY DEF DecisionReturns
<1>3. CASE dec[d].run # active.run
  <2>1. active' = active
    BY <1>3 DEF DecisionReturns
  <2>2. Heard(d)
    BY <1>2, <2>1 DEF Heard, durable
  <2> QED
    BY <1>3, <2>1, <2>2, UnheardKeeps DEF Answering
<1>4. CASE dec[d].run = active.run
  <2>1. PICK a \in {active, SinkThrows(active)} :
          active' = DecisionTakesEffect(a, dec[d])
    BY <1>4 DEF DecisionReturns
  <2>2. /\ a \in Actives /\ a.run = active.run /\ a.phase = active.phase
        /\ a.ask = active.ask /\ a.plan = active.plan
        /\ a.wait = active.wait \/ (active.wait = "pending" /\ a.wait = "aborted")
    BY <1>1, SinkThrowsTouches, SinkThrowsType
  <2>3. active.run # NoRun
    BY <1>1, <1>2, <1>4, RunsAssumption DEF Answers, Addressed
  <2> DEFINE tag == AnswerTag(dec[d].yes)
  <2>4. tag \in {"approved", "rejected"}
    BY DEF AnswerTag
  <2>5. CASE dec[d].kind = "approval"
    <3>1. Answering(d, "approval")
      BY <1>2, <1>4, <2>5 DEF Answering
    <3>2. active.wait \in {"pending", "aborted"}
      BY <1>1, <2>3, <3>1 DEF Answers, ApprovalsAnswered
    <3> DEFINE wait == IF a.wait = "pending" THEN tag ELSE a.wait
    <3>3. active' = [[a EXCEPT !.wait = wait] EXCEPT !.ask = "none"]
      BY <2>1, <2>5 DEF DecisionTakesEffect, Settled
    <3>4. /\ wait \in {tag, "aborted"}
          /\ active.wait = "aborted" => wait = "aborted"
      BY <2>2, <3>2
    <3> HIDE DEF wait, tag
    <3>5. /\ active'.run = active.run /\ active'.phase = active.phase
          /\ active'.plan = active.plan /\ active'.ask = "none"
          /\ active'.wait = wait
      BY <2>2, <3>3 DEF Actives
    <3>6. Heard(d)
      BY <1>2, <3>5 DEF Heard, durable
    <3> QED
      BY <1>2, <2>3, <2>4, <3>1, <3>4, <3>5, <3>6, ApprovalTakenKeeps DEF tag
  <2>6. CASE dec[d].kind = "plan"
    <3>1. Answering(d, "plan")
      BY <1>2, <1>4, <2>6 DEF Answering
    <3> DEFINE wait == IF a.wait = "pending" /\ pc = "plan_wait" THEN tag
                                                                 ELSE a.wait
               phase == IF dec[d].yes THEN "executing" ELSE a.phase
    <3>2. active' = [[a EXCEPT !.wait = wait] EXCEPT !.plan = "none",
                                                     !.phase = phase]
      <4>1. Settled(a, "plan", tag) = [a EXCEPT !.wait = wait]
        BY DEF Settled
      <4>2. [a EXCEPT !.wait = wait].phase = a.phase
        BY <2>2 DEF Actives
      <4> HIDE DEF wait
      <4> QED
        BY <2>1, <2>6, <4>1, <4>2 DEF DecisionTakesEffect, tag
    <3> HIDE DEF wait, phase
    <3>3. /\ active'.run = active.run /\ active'.phase = phase
          /\ active'.plan = "none" /\ active'.ask = active.ask
          /\ active'.wait = wait
      BY <2>2, <3>2 DEF Actives
    <3>4. Heard(d)
      BY <1>2, <3>3 DEF Heard, durable
    <3> QED
      BY <1>2, <2>2, <2>3, <3>1, <3>3, <3>4, PlanTakenKeeps DEF wait, phase
  <2> QED
    BY <1>1, <2>5, <2>6 DEF Decisions
<1> QED
  BY <1>3, <1>4

LEMMA DecisionFailsKeeps ==
  ASSUME Strong, NEW d \in Deciders, DecisionFails(d)
  PROVE  HandlerInv'
<1>1. /\ active \in Actives /\ Answers
  BY DEF Strong, Inv, TypeOK, HandlerInv
<1>2. /\ dec' = [dec EXCEPT ![d] = NoDecision]
      /\ UNCHANGED <<durable, pc, io, turn, facts, crashes>>
      /\ dec[d].io \in {"store_error", "history_error"}
  BY DEF DecisionFails
<1>3. CASE dec[d].run = active.run /\ dec[d].kind = "approval"
  <2>1. active.run # NoRun
    BY <1>1, <1>2, <1>3, RunsAssumption DEF Answers, Addressed
  <2>2. Answering(d, "approval")
    BY <1>2, <1>3 DEF Answering
  <2>3. active.wait \in {"pending", "aborted"}
    BY <1>1, <2>1, <2>2 DEF Answers, ApprovalsAnswered
  <2> DEFINE outcome == dec[d].io
             wait == IF active.wait = "pending" THEN outcome ELSE active.wait
  <2>4. active' = [[active EXCEPT !.wait = wait] EXCEPT !.ask = "none"]
    BY <1>3 DEF DecisionFails, Settled
  <2>5. /\ wait \in {outcome, "aborted"}
        /\ active.wait = "aborted" => wait = "aborted"
    BY <2>3
  <2> HIDE DEF wait
  <2>6. /\ active'.run = active.run /\ active'.phase = active.phase
        /\ active'.plan = active.plan /\ active'.ask = "none"
        /\ active'.wait = wait
    BY <1>1, <2>4 DEF Actives
  <2>7. Heard(d)
    BY <1>2, <2>6 DEF Heard, durable
  <2> QED
    BY <1>2, <2>1, <2>2, <2>5, <2>6, <2>7, ApprovalTakenKeeps
<1>4. CASE ~(dec[d].run = active.run /\ dec[d].kind = "approval")
  <2>1. active' = active
    BY <1>4 DEF DecisionFails
  <2>2. Heard(d)
    BY <1>2, <2>1 DEF Heard, durable
  <2> QED
    BY <1>4, <2>1, <2>2, UnheardKeeps DEF Answering
<1> QED
  BY <1>3, <1>4

LEMMA DecisionStepKeeps ==
  ASSUME Strong, Inv', DecisionStep
  PROVE  HandlerInv'
  BY DecideApprovalKeeps, DecidePlanKeeps, DecisionReturnsKeeps,
     DecisionFailsKeeps DEF DecisionStep

-----------------------------------------------------------------------------
(* Starts, recoveries, crashes.                                            *)

LEMMA RecoverKeeps ==
  ASSUME Strong, Recover
  PROVE  HandlerInv'
<1>1. TypeOK /\ Ownership /\ Answers /\ Waiting /\ Synced
  BY DEF Strong, Inv, HandlerInv
<1>2. /\ active.run = NoRun /\ disk.run \in Runs
      /\ UNCHANGED <<synced, pc, io, active, turn, facts, others>>
      /\ \E n, tag : Write(Event("run.interrupted", disk.run, n, tag))
  BY DEF Recover, OpenRuns
<1>3. pc = "idle" /\ io = "none"
  BY <1>1, <1>2 DEF Ownership
<1>4. log' = [log EXCEPT ![disk.run] = "interrupted"]
  <2>1. PICK n, tag : Write(Event("run.interrupted", disk.run, n, tag))
    BY <1>2
  <2> DEFINE e == Event("run.interrupted", disk.run, n, tag)
  <2>2. /\ e.run = disk.run /\ e.type = "run.interrupted"
        /\ e.type # "run.started" /\ e.type \in Terminal
    BY DEF Event, Terminal
  <2>3. EndOf[e.type] = "interrupted"
    BY <2>2 DEF EndOf, Terminal
  <2> HIDE DEF e
  <2>4. Write(e)
    BY <2>1 DEF e
  <2> QED
    BY <2>2, <2>3, <2>4 DEF Write
<1>5. \A r \in Runs : log[r] # "absent" => log'[r] # "absent"
  BY <1>1, <1>2, <1>4 DEF TypeOK
<1>6. Answers'
  BY <1>1, <1>2, <1>5 DEF Answers, Addressed, others
<1>7. Waiting' /\ Synced' /\ FileFollows'
  BY <1>1, <1>2, <1>3 DEF Waiting, Answering, others, Synced, FileFollows,
     Followed, Running
<1> QED
  BY <1>6, <1>7 DEF HandlerInv

\* No answer on its way can be for the run that starts: it is not yet known.
LEMMA RunStartsKeeps ==
  ASSUME Strong, Inv', RunStarts
  PROVE  HandlerInv'
<1>1. /\ TypeOK /\ Ownership /\ Answers /\ Waiting /\ Synced
      /\ disk \in Histories
  BY DEF Strong, Inv, HandlerInv, TypeOK
<1>2. PICK r \in Runs, planning \in BOOLEAN, mode \in PermissionModes :
        StartRunOf(r, planning, mode = "full")
  BY ConstantsAssumption DEF RunStarts
<1> DEFINE full == mode = "full"
           phase == IF planning THEN "planning" ELSE "normal"
           e == Event("run.started", r, 0, phase)
<1>3. /\ active.run = NoRun /\ disk.valid /\ log[r] = "absent"
      /\ active' = [NoActive EXCEPT !.run = r, !.full = full, !.sink = "open",
                                    !.phase = phase]
      /\ Send(e, "starting") /\ UNCHANGED <<turn, facts>>
  BY <1>2 DEF StartRunOf
<1>4. pc = "idle" /\ turn = NoTurn /\ facts = NoFacts
  BY <1>1, <1>3 DEF Ownership, Synced
<1>5. /\ e.type = "run.started" /\ e.run = r
      /\ e.tag = "planning" <=> phase = "planning"
      /\ phase \in {"planning", "normal"}
  BY DEF Event
<1>6. e \in Events
  <2>1. phase \in Tags
    BY DEF Tags
  <2> HIDE DEF phase
  <2> QED
    BY <2>1, EventType DEF EventTypes
<1>7. PICK result \in Outcomes : Appends(e, result) /\ io' = result
  BY <1>3 DEF Send
<1>8. pc' = "starting" /\ dec' = dec
  BY <1>3 DEF Send, others
<1> HIDE DEF e, phase, full
<1>9. /\ active'.run = r /\ active'.phase = phase /\ active'.wait = "none"
      /\ active'.ask = "none" /\ active'.plan = "none"
  BY <1>3 DEF NoActive
<1>10. /\ synced' => disk'.valid
       /\ io' = "delivering" => synced' /\ disk' = Apply(disk, e)
       /\ io' # "none"
  BY <1>1, <1>3, <1>6, <1>7, Appended DEF Outcomes
<1>11. log' \in {log, [log EXCEPT ![r] = "open"]}
  <2>1. Write(e) => log' = [log EXCEPT ![r] = "open"]
    BY <1>5 DEF Write, Terminal
  <2> QED
    BY <1>7, <2>1 DEF Appends, durable
<1>12. \A q \in Runs : log[q] # "absent" => log'[q] # "absent"
  BY <1>1, <1>11 DEF TypeOK
<1>13. ASSUME Followed' PROVE Counters' /\ PhaseFollows' /\ RoundFollows'
  <2>1. disk' = Apply(disk, e)
    BY <1>10, <1>13 DEF Followed, Running
  <2>2. /\ disk'.run = r /\ disk'.final = FALSE /\ disk'.pending = FALSE
        /\ disk'.iterations = 0 /\ disk'.goal = FALSE
        /\ disk'.plan = "none" /\ disk'.round = NoRound
        /\ disk'.phase = phase
    BY <1>1, <1>5, <2>1, StartApplied
  <2>3. turn'.requests = 0
    BY <1>3, <1>4 DEF NoTurn
  <2>4. Counters'
    BY <1>8, <1>9, <2>2, <2>3 DEF Counters
  <2>5. PhaseFollows'
    BY <1>5, <1>8, <1>9, <2>2 DEF PhaseFollows
  <2>6. RoundFollows'
    BY <1>8, <2>2 DEF RoundFollows, AtCall
  <2> QED
    BY <2>4, <2>5, <2>6
<1>14. Answers'
  <2>1. Addressed
    BY <1>1 DEF Answers
  <2>2. Addressed'
    BY <1>8, <1>12, <2>1 DEF Addressed
  <2>3. \A d \in Deciders : \A kind : ~Answering(d, kind)'
    BY <1>3, <1>8, <1>9, <2>1 DEF Addressed, Answering
  <2> QED
    BY <2>2, <2>3 DEF Answers, ApprovalsAnswered, PlansAnswered
<1>15. Waiting'
  BY <1>8, <1>9 DEF Waiting
<1>16. Synced'
  BY <1>3, <1>4, <1>8, <1>10 DEF Synced, Running, Outcomes
<1> QED
  BY <1>13, <1>14, <1>15, <1>16, Followings DEF HandlerInv

LEMMA StutterKeeps ==
  ASSUME Strong, UNCHANGED vars
  PROVE  HandlerInv'
<1>1. /\ pc' = pc /\ turn' = turn /\ facts' = facts /\ dec' = dec
      /\ disk' = disk /\ synced' = synced /\ log' = log /\ io' = io
      /\ active' = active
  BY DEF vars
<1> QED
  BY <1>1, TouchedKeeps DEF Touched

LEMMA HandlerNext ==
  ASSUME Strong, Inv', [Next]_vars
  PROVE  HandlerInv'
<1>1. CASE RunStarts
  BY <1>1, RunStartsKeeps
<1>2. CASE Recover
  BY <1>2, RecoverKeeps
<1>3. CASE RunStep
  <2>1. CASE Ended
    BY <2>1, ForgetKeeps DEF Ended, Leave, others
  <2> QED
    BY <1>3, <2>1, AppendReturnsKeeps, ModelStepKeeps, StopStepKeeps,
       BatchStepKeeps DEF RunStep
<1>4. CASE DecisionStep
  BY <1>4, DecisionStepKeeps
<1>5. CASE AbortStep
  BY <1>5, AbortStepKeeps
<1>6. CASE Crash
  BY <1>6, ForgetKeeps DEF Crash
<1>7. CASE UNCHANGED vars
  BY <1>7, StutterKeeps
<1> QED
  BY <1>1, <1>2, <1>3, <1>4, <1>5, <1>6, <1>7 DEF Next

LEMMA HandlerInit == Init => HandlerInv
<1> SUFFICES ASSUME Init PROVE HandlerInv
  OBVIOUS
<1>1. /\ pc = "idle" /\ io = "none" /\ synced = TRUE /\ active = NoActive
      /\ turn = NoTurn /\ facts = NoFacts
      /\ dec = [d \in Deciders |-> NoDecision]
  BY DEF Init
<1> QED
  BY <1>1 DEF HandlerInv, FileFollows, Followed, Running, Answers, Addressed,
     Waiting, Synced, NoActive, NoDecision

-----------------------------------------------------------------------------
(* The theorems.                                                           *)

\* What the handler of a run knows about its file holds whatever the order of
\* appends, answers, aborts, failures and crashes (executeRun, resolveApproval
\* and resolvePlanApproval of runtime.ts).
THEOREM HandlerInvariance == Spec => []HandlerInv
<1>1. Init => HandlerInv
  BY HandlerInit
<1>2. Inv /\ Inv' /\ HandlerInv /\ [Next]_vars => HandlerInv'
  BY HandlerNext DEF Strong
<1> QED
  BY <1>1, <1>2, Invariance, PTL DEF Spec

\* A call that executes is the current one of a round that is followed.
LEMMA ToolPlace ==
  ASSUME Strong, At("tool"), disk.valid
  PROVE  LET call == disk.round.tools[turn.at] IN
         /\ call.kind = Kind /\ call.planned = Planned /\ CallFollows(call)
         /\ PhaseFollows /\ pc = "tool"
<1>1. pc = "tool" /\ Calling
  BY DEF At, Calling
<1>2. /\ PhaseFollows /\ BatchFollows /\ CallFollows(disk.round.tools[turn.at])
      /\ turn.at \in DOMAIN disk.round.tools
  BY <1>1, CallTyped
<1>3. /\ disk.round.tools[turn.at].kind = Kind
      /\ disk.round.tools[turn.at].planned = Planned
  BY <1>2 DEF BatchFollows, Kind
<1> QED
  BY <1>1, <1>2, <1>3

\* A tool that executes has been started in the file as the call the model
\* asked for, and where the policy does not authorize it the file holds the
\* consent to it: for any number of callers, calls, failures and crashes
\* (authorizeAndExecute, waitForApproval, resolveApproval).
THEOREM AlwaysAuthorized == Spec => []ExecutionAuthorized
<1>1. Strong => ExecutionAuthorized
  <2> SUFFICES ASSUME Strong, At("tool"), disk.valid
               PROVE  LET call == disk.round.tools[turn.at] IN
                      /\ call.kind = Kind /\ call.started /\ call.result = "none"
                      /\ call.approval \in {"none", "approved"}
                      /\ "authorized" \notin Verdicts(Kind)
                           => call.approval = "approved"
    BY DEF ExecutionAuthorized
  <2> QED
    BY ToolPlace DEF CallFollows
<1> QED
  BY <1>1, HandlerInvariance, Invariance, PTL DEF Strong

\* In a run that plans first, nothing but a planning read executes until the
\* file holds the user's consent to the plan (proposeAndAwaitPlan,
\* resolvePlanApproval, createToolPlan).
THEOREM PlansGateTools == Spec => []PlanGate
<1>1. Strong => PlanGate
  <2> SUFFICES ASSUME Strong, At("tool"), disk.valid, ~IsPlanningTool(Kind)
               PROVE  /\ disk.phase \in {"normal", "executing"}
                      /\ disk.phase = "executing" => disk.plan = "approved"
    BY DEF PlanGate
  <2>1. disk.phase \in Phases
    BY DEF Strong, Inv, TypeOK, Histories
  <2>2. PhaseFollows /\ pc = "tool" /\ ~Planned
    BY ToolPlace DEF CallFollows
  <2> QED
    BY <2>1, <2>2 DEF PhaseFollows, Planned, Phases
<1> QED
  BY <1>1, HandlerInvariance, Invariance, PTL DEF Strong

\* A run that waits for the user can be answered, or its answer is on its
\* way: no interleaving of callers, aborts and failed appends leaves a wait
\* behind that only the timer ends (resolveApproval passes its error on).
THEOREM WaitsAreAnswerable == Spec => []WaitAnswerable
<1>1. Strong => WaitAnswerable
  BY DEF Strong, HandlerInv, Waiting, WaitAnswerable, Answering
<1> QED
  BY <1>1, HandlerInvariance, Invariance, PTL DEF Strong

=============================================================================
