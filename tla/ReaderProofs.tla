------------------------------ MODULE ReaderProofs ------------------------------
(***************************************************************************)
(* That the readers of a session's file agree (ReadersAgree), for every    *)
(* value of the constants that offers no service: what the code decides    *)
(* about a service in the run, it does not decide in the file.  The proof  *)
(* is about the two projections alone, but for three kinds of event that   *)
(* the context provider accepts under narrower conditions: the handler of  *)
(* a run appends those only where it accepts them (Usual).                 *)
(*                                                                         *)
(* And that the file can always be read (HistoryReplayable), where none of *)
(* the known divergences of run and projection can occur (Undiverted): the *)
(* handler knows what its file accepts, counts its errors as the file      *)
(* does, and no caller answers a question that the file has closed.        *)
(***************************************************************************)
EXTENDS AgentRuntimeProofs, Integers

-----------------------------------------------------------------------------
(* Two projections of one file.                                            *)

\* What concerns the run as a whole.
CoupledRun(d, c) ==
    /\ c.readable /\ c.run = d.run /\ c.goal = d.goal
    /\ c.requests = d.iterations /\ c.pending = d.pending
    /\ c.phase = d.phase
    /\ c.planned <=> d.plan # "none"
    /\ c.decided <=> d.plan \in {"approved", "rejected"}
    /\ c.committed => d.phase # "planning"
    /\ c.final => d.final
    /\ ~d.handoff
    /\ d.pending => d.round = NoRound

\* The flags of a round.
CoupledRound(d, c) ==
    /\ c.finish = d.round.finish /\ c.rejected = d.round.rejected
    /\ c.evidence = d.round.evidence /\ c.dependency = d.round.dependency
    /\ c.content = d.round.intermediate

\* Its calls, of which none is for a service.
CoupledCalls(d, c) ==
    LET tools == d.round.tools IN
    /\ c.calls = Len(tools)
    /\ c.results = {i \in DOMAIN tools : tools[i].result # "none"}
    /\ c.asked = {i \in DOMAIN tools : tools[i].approval # "none"}
    /\ c.answered =
         {i \in DOMAIN tools : tools[i].approval \in {"approved", "rejected"}}
    /\ ~d.round.locked => c.results = {}
    /\ \A i \in DOMAIN tools : tools[i].kind # "service"

Coupled(d, c) == CoupledRun(d, c) /\ CoupledRound(d, c) /\ CoupledCalls(d, c)

\* The events the context provider is stricter about.
Usual(d, e) ==
    /\ e.type = "assistant.message" /\ e.tag # "final" =>
         d.round.rejected = "none"
    /\ e.type = "validation.repair.warning" => d.round.finish = "tool_calls"
    /\ e.type = "tool.requested" => e.tag # "service"

\* Accepts, one kind of event at a time.
LEMMA AcceptedAs ==
  ASSUME NEW d, NEW e, Accepts(d, e)
  PROVE  /\ d.valid /\ (e.type # "run.started" => d.run = e.run)
         /\ e.type = "run.started" => d.run = NoRun
         /\ e.type = "user.message" => AcceptsUserMessage(d)
         /\ e.type = "model.requested" => AcceptsModelRequest(d, e.n)
         /\ e.type = "model.completed" => AcceptsModelCompletion(d, e.n)
         /\ e.type = "model.output.rejected" =>
              AcceptsOutputRejection(d, e.n, e.tag)
         /\ e.type = "completion.evidence.rejected" =>
              AcceptsEvidenceRejection(d, e.n)
         /\ e.type = "validation.repair.warning" => AcceptsRepairWarning(d)
         /\ e.type = "write.dependency.rejected" =>
              AcceptsDependencyRejection(d, e.n)
         /\ e.type = "assistant.message" => AcceptsAssistantMessage(d, e.tag)
         /\ e.type = "tool.requested" => AcceptsToolRequest(d, e.n)
         /\ e.type = "approval.required" => AcceptsApprovalRequest(d, e.n)
         /\ e.type = "approval.resolved" => AcceptsApprovalResolution(d, e.n)
         /\ e.type = "tool.started" => AcceptsToolStart(d, e.n)
         /\ e.type = "tool.result" => AcceptsToolResult(d, e.n, e.tag)
         /\ e.type = "plan.proposed" => AcceptsPlanProposal(d)
         /\ e.type = "plan.approval.resolved" => AcceptsPlanResolution(d)
<1>1. /\ d.valid /\ (e.type # "run.started" => d.run = e.run)
      /\ e.type = "run.started" => d.run = NoRun
  BY DEF Accepts
<1>2. /\ e.type = "user.message" => AcceptsUserMessage(d)
      /\ e.type = "model.requested" => AcceptsModelRequest(d, e.n)
      /\ e.type = "model.completed" => AcceptsModelCompletion(d, e.n)
      /\ e.type = "model.output.rejected" =>
           AcceptsOutputRejection(d, e.n, e.tag)
      /\ e.type = "completion.evidence.rejected" =>
           AcceptsEvidenceRejection(d, e.n)
      /\ e.type = "validation.repair.warning" => AcceptsRepairWarning(d)
  BY DEF Accepts
<1>3. /\ e.type = "write.dependency.rejected" =>
           AcceptsDependencyRejection(d, e.n)
      /\ e.type = "assistant.message" => AcceptsAssistantMessage(d, e.tag)
      /\ e.type = "tool.requested" => AcceptsToolRequest(d, e.n)
      /\ e.type = "approval.required" => AcceptsApprovalRequest(d, e.n)
      /\ e.type = "approval.resolved" => AcceptsApprovalResolution(d, e.n)
  BY DEF Accepts
<1>4. /\ e.type = "tool.started" => AcceptsToolStart(d, e.n)
      /\ e.type = "tool.result" => AcceptsToolResult(d, e.n, e.tag)
      /\ e.type = "plan.proposed" => AcceptsPlanProposal(d)
      /\ e.type = "plan.approval.resolved" => AcceptsPlanResolution(d)
  BY DEF Accepts
<1> QED
  BY <1>1, <1>2, <1>3, <1>4

\* A round that has just begun.
LEMMA FreshCoupled ==
  ASSUME NEW u, NEW g, NEW f, u.round = NewRound(f),
         g.finish = f, g.rejected = "none", g.evidence = FALSE,
         g.dependency = FALSE, g.content = FALSE, g.calls = 0,
         g.results = {}, g.asked = {}, g.answered = {}
  PROVE  CoupledRound(u, g) /\ CoupledCalls(u, g)
<1>1. /\ u.round.finish = f /\ u.round.rejected = "none"
      /\ u.round.evidence = FALSE /\ u.round.dependency = FALSE
      /\ u.round.intermediate = FALSE /\ u.round.tools = << >>
      /\ u.round.locked = FALSE
  BY DEF NewRound
<1>2. CoupledRound(u, g)
  BY <1>1 DEF CoupledRound
<1>3. Len(u.round.tools) = 0 /\ DOMAIN u.round.tools = {}
  BY <1>1
<1>4. CoupledCalls(u, g)
  BY <1>3 DEF CoupledCalls
<1> QED
  BY <1>2, <1>4

LEMMA EmptyFields ==
  /\ EmptyHistory.run = NoRun /\ EmptyHistory.goal = FALSE
  /\ EmptyHistory.phase = "normal" /\ EmptyHistory.iterations = 0
  /\ EmptyHistory.pending = FALSE /\ EmptyHistory.round = NoRound
  /\ EmptyHistory.plan = "none" /\ EmptyHistory.final = FALSE
  /\ EmptyHistory.handoff = FALSE
  BY DEF EmptyHistory

LEMMA EmptyContextFields ==
  /\ EmptyContext.readable = TRUE /\ EmptyContext.run = NoRun
  /\ EmptyContext.goal = FALSE /\ EmptyContext.requests = 0
  /\ EmptyContext.pending = FALSE /\ EmptyContext.phase = "normal"
  /\ EmptyContext.planned = FALSE /\ EmptyContext.decided = FALSE
  /\ EmptyContext.committed = FALSE /\ EmptyContext.final = FALSE
  /\ EmptyContext.finish = "none" /\ EmptyContext.rejected = "none"
  /\ EmptyContext.evidence = FALSE /\ EmptyContext.dependency = FALSE
  /\ EmptyContext.content = FALSE /\ EmptyContext.calls = 0
  /\ EmptyContext.results = {} /\ EmptyContext.asked = {}
  /\ EmptyContext.answered = {}
  BY DEF EmptyContext

\* The start and the end of a run.
LEMMA StartCoupled ==
  ASSUME NEW d \in Histories, NEW c \in Contexts, NEW e \in Events,
         Coupled(d, c), Accepts(d, e), e.type = "run.started"
  PROVE  ContextAccepts(c, e) /\ Coupled(Apply(d, e), ContextApply(c, e))
<1>1. ContextAccepts(c, e)
  BY AcceptedAs DEF ContextAccepts, Coupled, CoupledRun
<1>2. PICK phase : phase = IF e.tag = "planning" THEN "planning" ELSE "normal"
  OBVIOUS
<1>3. PICK u : u = Apply(d, e)
  OBVIOUS
<1>4. PICK g : g = ContextApply(c, e)
  OBVIOUS
<1>5. u = [EmptyHistory EXCEPT !.run = e.run, !.phase = phase]
  BY <1>2, <1>3 DEF Apply, StartRun, Terminal
<1>6. g = [EmptyContext EXCEPT !.goalless = c.goalless, !.run = e.run,
                               !.phase = phase]
  BY <1>2, <1>4 DEF ContextApply, Terminal
<1>7. EmptyHistory \in Histories /\ EmptyContext \in Contexts
  BY EmptyHistoryType, EmptyContextType
<1>8. /\ u.run = e.run /\ u.goal = FALSE /\ u.phase = phase
      /\ u.iterations = 0 /\ u.pending = FALSE /\ u.round = NoRound
      /\ u.plan = "none" /\ u.final = FALSE /\ u.handoff = FALSE
  BY <1>5, <1>7, EmptyFields DEF Histories
<1>9. /\ g.readable = TRUE /\ g.run = e.run /\ g.goal = FALSE
      /\ g.requests = 0 /\ g.pending = FALSE /\ g.phase = phase
      /\ g.planned = FALSE /\ g.decided = FALSE
      /\ g.committed = FALSE /\ g.final = FALSE
      /\ g.finish = "none" /\ g.rejected = "none"
      /\ g.evidence = FALSE /\ g.dependency = FALSE
      /\ g.content = FALSE /\ g.calls = 0
      /\ g.results = {} /\ g.asked = {} /\ g.answered = {}
  BY <1>6, <1>7, EmptyContextFields DEF Contexts
<1>10. CoupledRun(u, g)
  BY <1>8, <1>9 DEF CoupledRun
<1>11. CoupledRound(u, g) /\ CoupledCalls(u, g)
  BY <1>8, <1>9, FreshCoupled DEF NoRound
<1> QED
  BY <1>1, <1>3, <1>4, <1>10, <1>11 DEF Coupled

LEMMA EndCoupled ==
  ASSUME NEW d \in Histories, NEW c \in Contexts, NEW e \in Events,
         Coupled(d, c), Accepts(d, e), e.type \in Terminal
  PROVE  ContextAccepts(c, e) /\ Coupled(Apply(d, e), ContextApply(c, e))
<1>1. ContextAccepts(c, e)
  BY AcceptedAs DEF ContextAccepts, Coupled, CoupledRun, Terminal
<1>2. Apply(d, e) = EmptyHistory
  BY DEF Apply, Terminal
<1>3. PICK g : g = ContextApply(c, e)
  OBVIOUS
<1>4. g = [EmptyContext EXCEPT !.goalless = c.goalless \/ ~c.goal]
  BY <1>3 DEF ContextApply, ContextEndRun, Terminal
<1>5. EmptyContext \in Contexts
  BY EmptyContextType
<1>6. /\ g.readable = TRUE /\ g.run = NoRun /\ g.goal = FALSE
      /\ g.requests = 0 /\ g.pending = FALSE /\ g.phase = "normal"
      /\ g.planned = FALSE /\ g.decided = FALSE
      /\ g.committed = FALSE /\ g.final = FALSE
      /\ g.finish = "none" /\ g.rejected = "none"
      /\ g.evidence = FALSE /\ g.dependency = FALSE
      /\ g.content = FALSE /\ g.calls = 0
      /\ g.results = {} /\ g.asked = {} /\ g.answered = {}
  BY <1>4, <1>5, EmptyContextFields DEF Contexts
<1>7. CoupledRun(EmptyHistory, g)
  BY <1>6, EmptyFields DEF CoupledRun
<1>8. CoupledRound(EmptyHistory, g) /\ CoupledCalls(EmptyHistory, g)
  BY <1>6, EmptyFields, FreshCoupled DEF NoRound
<1> QED
  BY <1>1, <1>2, <1>3, <1>7, <1>8 DEF Coupled

\* What a projection keeps of a run, and of a round.
SameRun(d, u) ==
    /\ u.run = d.run /\ u.goal = d.goal /\ u.iterations = d.iterations
    /\ u.pending = d.pending /\ u.phase = d.phase /\ u.plan = d.plan
    /\ u.final = d.final /\ u.handoff = d.handoff

SameContextRun(c, g) ==
    /\ g.readable = c.readable /\ g.run = c.run /\ g.goal = c.goal
    /\ g.requests = c.requests /\ g.pending = c.pending
    /\ g.phase = c.phase /\ g.planned = c.planned /\ g.decided = c.decided
    /\ g.committed = c.committed /\ g.final = c.final

SameMarks(d, u) ==
    /\ u.round.finish = d.round.finish /\ u.round.rejected = d.round.rejected
    /\ u.round.evidence = d.round.evidence
    /\ u.round.dependency = d.round.dependency
    /\ u.round.intermediate = d.round.intermediate

SameContextMarks(c, g) ==
    /\ g.finish = c.finish /\ g.rejected = c.rejected
    /\ g.evidence = c.evidence /\ g.dependency = c.dependency
    /\ g.content = c.content

SameContextCalls(c, g) ==
    /\ g.calls = c.calls /\ g.results = c.results /\ g.asked = c.asked
    /\ g.answered = c.answered

LEMMA SameRunCoupled ==
  ASSUME NEW d, NEW c, NEW u, NEW g, CoupledRun(d, c), SameRun(d, u),
         SameContextRun(c, g), d.pending => u.round = NoRound
  PROVE  CoupledRun(u, g)
  BY DEF CoupledRun, SameRun, SameContextRun

LEMMA SameMarksCoupled ==
  ASSUME NEW d, NEW c, NEW u, NEW g, CoupledRound(d, c), SameMarks(d, u),
         SameContextMarks(c, g)
  PROVE  CoupledRound(u, g)
  BY DEF CoupledRound, SameMarks, SameContextMarks

LEMMA SameCallsCoupled ==
  ASSUME NEW d, NEW c, NEW u, NEW g, CoupledCalls(d, c),
         u.round.tools = d.round.tools, u.round.locked = d.round.locked,
         SameContextCalls(c, g)
  PROVE  CoupledCalls(u, g)
  BY DEF CoupledCalls, SameContextCalls

\* The goal, a compaction, a warning.
LEMMA GoalCoupled ==
  ASSUME NEW d \in Histories, NEW c \in Contexts, NEW e \in Events,
         Coupled(d, c), Accepts(d, e), Usual(d, e),
         e.type \in {"user.message", "context.compacted",
                     "validation.repair.warning"}
  PROVE  ContextAccepts(c, e) /\ Coupled(Apply(d, e), ContextApply(c, e))
<1>1. ContextAccepts(c, e)
  BY AcceptedAs DEF ContextAccepts, Coupled, CoupledRun, CoupledRound, Usual,
     AcceptsUserMessage, AcceptsRepairWarning
<1>2. CASE e.type = "user.message"
  <2>1. PICK u : u = Apply(d, e)
    OBVIOUS
  <2>2. PICK g : g = ContextApply(c, e)
    OBVIOUS
  <2>3. u = [d EXCEPT !.goal = TRUE]
    BY <1>2, <2>1 DEF Apply, Terminal
  <2>4. g = [c EXCEPT !.goal = TRUE]
    BY <1>2, <2>2 DEF ContextApply, Terminal
  <2>5. CoupledRun(u, g)
    BY <2>3, <2>4 DEF Coupled, CoupledRun, Histories, Contexts
  <2>6. u.round = d.round
    BY <2>3 DEF Histories
  <2>7. SameContextMarks(c, g) /\ SameContextCalls(c, g)
    BY <2>4 DEF Contexts, SameContextMarks, SameContextCalls
  <2>8. CoupledRound(u, g) /\ CoupledCalls(u, g)
    BY <2>6, <2>7, SameMarksCoupled, SameCallsCoupled DEF Coupled, SameMarks
  <2> QED
    BY <1>1, <2>1, <2>2, <2>5, <2>8 DEF Coupled
<1>3. CASE e.type # "user.message"
  <2>1. Apply(d, e) = d /\ ContextApply(c, e) = c
    BY <1>3 DEF Apply, ContextApply, Terminal
  <2> QED
    BY <1>1, <2>1
<1> QED
  BY <1>2, <1>3

\* A model request and its answer.
LEMMA RequestCoupled ==
  ASSUME NEW d \in Histories, NEW c \in Contexts, NEW e \in Events,
         Coupled(d, c), Accepts(d, e), e.type = "model.requested"
  PROVE  ContextAccepts(c, e) /\ Coupled(Apply(d, e), ContextApply(c, e))
<1>1. AcceptsModelRequest(d, e.n) /\ d.run = e.run
  BY AcceptedAs
<1>2. RoundCommits(c)
  <2>1. CASE d.round.finish = "stop"
    BY <1>1, <2>1 DEF AcceptsModelRequest, RoundCommits, Coupled, CoupledRun,
       CoupledRound, Rejected
  <2>2. CASE d.round.finish = "tool_calls"
    <3> DEFINE tools == d.round.tools
    <3>1. tools \in Seq(Tools)
      BY DEF Histories, Rounds
    <3>2. tools # << >> /\ \A i \in DOMAIN tools : tools[i].result # "none"
      BY <1>1, <2>2 DEF AcceptsModelRequest, ToolRoundDone, Unresolved
    <3>3. c.calls = Len(tools) /\ c.results = DOMAIN tools
      BY <3>2 DEF Coupled, CoupledCalls
    <3>4. c.calls > 0 /\ c.results = 1..c.calls
      BY <3>1, <3>2, <3>3
    <3> QED
      BY <2>2, <3>4 DEF RoundCommits, Coupled, CoupledRound
  <2>3. CASE d.round.finish = "none"
    BY <2>3 DEF RoundCommits, Coupled, CoupledRound
  <2> QED
    BY <2>1, <2>2, <2>3 DEF Histories, Rounds
<1>3. ContextAccepts(c, e)
  BY <1>1, <1>2 DEF ContextAccepts, ContextAcceptsRequest, AcceptsModelRequest,
     Coupled, CoupledRun
<1>4. PICK u : u = Apply(d, e)
  OBVIOUS
<1>5. PICK g : g = ContextApply(c, e)
  OBVIOUS
<1>6. PICK f : f = FreshRound(c)
  OBVIOUS
<1>7. u = RequestModel(d, e.n)
  BY <1>4 DEF Apply, Terminal
<1>8. g = [f EXCEPT !.requests = e.n, !.pending = TRUE]
  BY <1>5, <1>6 DEF ContextApply, Terminal
<1>9. /\ f.finish = "none" /\ f.rejected = "none" /\ f.evidence = FALSE
      /\ f.dependency = FALSE /\ f.committed = FALSE /\ f.final = FALSE
      /\ f.content = FALSE /\ f.calls = 0 /\ f.results = {} /\ f.asked = {}
      /\ f.answered = {} /\ f.readable = c.readable /\ f.run = c.run
      /\ f.goal = c.goal /\ f.phase = c.phase /\ f.planned = c.planned
      /\ f.decided = c.decided
  BY <1>6 DEF FreshRound, Contexts
<1>10. f \in Contexts
  BY <1>6, FreshRoundType
<1>11. u.run = d.run /\ u.goal = d.goal /\ u.phase = d.phase /\ u.plan = d.plan
       /\ u.iterations = e.n /\ u.pending = TRUE /\ u.round = NoRound
  BY <1>4, RequestApplied
<1>12. ~u.handoff
  BY <1>7 DEF RequestModel, Histories, Coupled, CoupledRun
<1>13. /\ g.requests = e.n /\ g.pending = TRUE
       /\ g.readable = f.readable /\ g.run = f.run /\ g.goal = f.goal
       /\ g.phase = f.phase /\ g.planned = f.planned /\ g.decided = f.decided
       /\ g.committed = f.committed /\ g.final = f.final
  BY <1>8, <1>10 DEF Contexts
<1>14. SameContextMarks(f, g) /\ SameContextCalls(f, g)
  BY <1>8, <1>10 DEF Contexts, SameContextMarks, SameContextCalls
<1>15. CoupledRun(u, g)
  BY <1>9, <1>11, <1>12, <1>13 DEF Coupled, CoupledRun
<1>16. CoupledRound(u, g) /\ CoupledCalls(u, g)
  BY <1>9, <1>11, <1>14, FreshCoupled
  DEF NoRound, SameContextMarks, SameContextCalls
<1> QED
  BY <1>3, <1>4, <1>5, <1>15, <1>16 DEF Coupled

LEMMA CompletionCoupled ==
  ASSUME NEW d \in Histories, NEW c \in Contexts, NEW e \in Events,
         Coupled(d, c), Accepts(d, e), e.type = "model.completed"
  PROVE  ContextAccepts(c, e) /\ Coupled(Apply(d, e), ContextApply(c, e))
<1>1. AcceptsModelCompletion(d, e.n) /\ d.run = e.run
  BY AcceptedAs
<1>2. ContextAccepts(c, e)
  BY <1>1 DEF ContextAccepts, AcceptsModelCompletion, Coupled, CoupledRun
<1>3. PICK finish : finish = IF e.tag = "stop" THEN "stop" ELSE "tool_calls"
  OBVIOUS
<1>4. PICK u : u = Apply(d, e)
  OBVIOUS
<1>5. PICK g : g = ContextApply(c, e)
  OBVIOUS
<1>6. u = [d EXCEPT !.pending = FALSE, !.round = NewRound(finish)]
  BY <1>3, <1>4 DEF Apply, Terminal
<1>7. g = [c EXCEPT !.pending = FALSE, !.finish = finish]
  BY <1>3, <1>5 DEF ContextApply, Terminal
<1>8. d.round = NoRound
  BY <1>1 DEF AcceptsModelCompletion, Coupled, CoupledRun
<1>9. /\ u.run = d.run /\ u.goal = d.goal /\ u.iterations = d.iterations
      /\ u.phase = d.phase /\ u.plan = d.plan /\ u.final = d.final
      /\ u.handoff = d.handoff /\ u.pending = FALSE
      /\ u.round = NewRound(finish)
  BY <1>6 DEF Histories
<1>10. /\ g.readable = c.readable /\ g.run = c.run /\ g.goal = c.goal
       /\ g.requests = c.requests /\ g.pending = FALSE
       /\ g.phase = c.phase /\ g.planned = c.planned /\ g.decided = c.decided
       /\ g.committed = c.committed /\ g.final = c.final
       /\ g.finish = finish /\ g.rejected = c.rejected
       /\ g.evidence = c.evidence /\ g.dependency = c.dependency
       /\ g.content = c.content
  BY <1>7 DEF Contexts
<1>11. SameContextCalls(c, g)
  BY <1>7 DEF Contexts, SameContextCalls
<1>12. /\ c.rejected = "none" /\ c.evidence = FALSE /\ c.dependency = FALSE
       /\ c.content = FALSE
  BY <1>8 DEF Coupled, CoupledRound, NoRound, NewRound
<1>13. /\ c.calls = 0 /\ c.results = {} /\ c.asked = {} /\ c.answered = {}
  <2>1. d.round.tools = << >>
    BY <1>8 DEF NoRound, NewRound
  <2>2. Len(d.round.tools) = 0 /\ DOMAIN d.round.tools = {}
    BY <2>1
  <2> QED
    BY <2>2 DEF Coupled, CoupledCalls
<1>14. CoupledRun(u, g)
  BY <1>9, <1>10 DEF Coupled, CoupledRun
<1>15. CoupledRound(u, g) /\ CoupledCalls(u, g)
  BY <1>9, <1>10, <1>11, <1>12, <1>13, FreshCoupled DEF SameContextCalls
<1> QED
  BY <1>2, <1>4, <1>5, <1>14, <1>15 DEF Coupled

\* A mark on the round.
LEMMA MarkCoupled ==
  ASSUME NEW d \in Histories, NEW c \in Contexts, NEW round, NEW g,
         Coupled(d, c), ~d.pending,
         round.tools = d.round.tools, round.locked = d.round.locked,
         SameContextRun(c, g), SameContextCalls(c, g),
         CoupledRound([d EXCEPT !.round = round], g)
  PROVE  Coupled([d EXCEPT !.round = round], g)
<1>1. PICK u : u = [d EXCEPT !.round = round]
  OBVIOUS
<1>2. SameRun(d, u) /\ u.round = round
  BY <1>1 DEF Histories, SameRun
<1>3. CoupledRun(u, g)
  BY <1>2, SameRunCoupled DEF Coupled
<1>4. CoupledCalls(u, g)
  BY <1>2, SameCallsCoupled DEF Coupled
<1> QED
  BY <1>1, <1>3, <1>4 DEF Coupled

LEMMA CorrectionCoupled ==
  ASSUME NEW d \in Histories, NEW c \in Contexts, NEW e \in Events,
         Coupled(d, c), Accepts(d, e),
         e.type \in {"model.output.rejected", "completion.evidence.rejected",
                     "write.dependency.rejected"}
  PROVE  ContextAccepts(c, e) /\ Coupled(Apply(d, e), ContextApply(c, e))
<1>1. /\ d.run = e.run
      /\ e.type = "model.output.rejected" =>
           AcceptsOutputRejection(d, e.n, e.tag)
      /\ e.type = "completion.evidence.rejected" =>
           AcceptsEvidenceRejection(d, e.n)
      /\ e.type = "write.dependency.rejected" =>
           AcceptsDependencyRejection(d, e.n)
  BY AcceptedAs
<1>2. ~d.pending
  BY <1>1 DEF AcceptsOutputRejection, AcceptsDependencyRejection,
     AcceptsEvidenceRejection, InRound
<1>3. ContextAccepts(c, e)
  <2>1. CASE e.type = "model.output.rejected"
    BY <1>1, <2>1 DEF ContextAccepts, ContextAcceptsRejection, ContextInRound,
       AcceptsOutputRejection, InRound, Coupled, CoupledRun, CoupledRound
  <2>2. CASE e.type = "completion.evidence.rejected"
    BY <1>1, <2>2 DEF ContextAccepts, ContextAcceptsCorrection, ContextInRound,
       AcceptsEvidenceRejection, InRound, Coupled, CoupledRun, CoupledRound
  <2>3. CASE e.type = "write.dependency.rejected"
    BY <1>1, <2>3 DEF ContextAccepts, ContextAcceptsCorrection, ContextInRound,
       AcceptsDependencyRejection, AcceptsEvidenceRejection, InRound, Coupled,
       CoupledRun, CoupledRound
  <2> QED
    BY <2>1, <2>2, <2>3
<1>4. d.round \in Rounds
  BY DEF Histories
<1>5. PICK g : g = ContextApply(c, e)
  OBVIOUS
<1>6. CASE e.type = "model.output.rejected"
  <2>1. PICK mark : mark = IF e.tag = "retry" THEN "retry" ELSE "suppressed"
    OBVIOUS
  <2>2. PICK round : round = [d.round EXCEPT !.rejected = mark]
    OBVIOUS
  <2>3. Apply(d, e) = [d EXCEPT !.round = round]
    BY <1>4, <1>6, <2>1, <2>2 DEF Apply, Terminal, Histories
  <2>4. g = [c EXCEPT !.rejected = mark]
    BY <1>5, <1>6, <2>1 DEF ContextApply, Terminal
  <2>5. /\ SameContextRun(c, g) /\ SameContextCalls(c, g)
        /\ g.finish = c.finish /\ g.rejected = mark /\ g.evidence = c.evidence
        /\ g.dependency = c.dependency /\ g.content = c.content
    BY <2>4 DEF Contexts, SameContextRun, SameContextCalls
  <2>6. /\ round.finish = d.round.finish /\ round.rejected = mark
        /\ round.evidence = d.round.evidence
        /\ round.dependency = d.round.dependency
        /\ round.intermediate = d.round.intermediate
        /\ round.tools = d.round.tools /\ round.locked = d.round.locked
    BY <1>4, <2>2 DEF Rounds
  <2>7. CoupledRound([d EXCEPT !.round = round], g)
    BY <2>5, <2>6 DEF Coupled, CoupledRound, Histories
  <2> QED
    BY <1>2, <1>3, <1>5, <2>3, <2>5, <2>6, <2>7, MarkCoupled
<1>7. CASE e.type = "completion.evidence.rejected"
  <2>1. PICK round : round = [d.round EXCEPT !.evidence = TRUE]
    OBVIOUS
  <2>2. Apply(d, e) = [d EXCEPT !.round = round]
    BY <1>4, <1>7, <2>1 DEF Apply, Terminal, Histories
  <2>3. g = [c EXCEPT !.evidence = TRUE]
    BY <1>5, <1>7 DEF ContextApply, Terminal
  <2>4. /\ SameContextRun(c, g) /\ SameContextCalls(c, g)
        /\ g.finish = c.finish /\ g.rejected = c.rejected /\ g.evidence = TRUE
        /\ g.dependency = c.dependency /\ g.content = c.content
    BY <2>3 DEF Contexts, SameContextRun, SameContextCalls
  <2>5. /\ round.finish = d.round.finish /\ round.rejected = d.round.rejected
        /\ round.evidence = TRUE /\ round.dependency = d.round.dependency
        /\ round.intermediate = d.round.intermediate
        /\ round.tools = d.round.tools /\ round.locked = d.round.locked
    BY <1>4, <2>1 DEF Rounds
  <2>6. CoupledRound([d EXCEPT !.round = round], g)
    BY <2>4, <2>5 DEF Coupled, CoupledRound, Histories
  <2> QED
    BY <1>2, <1>3, <1>5, <2>2, <2>4, <2>5, <2>6, MarkCoupled
<1>8. CASE e.type = "write.dependency.rejected"
  <2>1. PICK round : round = [d.round EXCEPT !.dependency = TRUE]
    OBVIOUS
  <2>2. Apply(d, e) = [d EXCEPT !.round = round]
    BY <1>4, <1>8, <2>1 DEF Apply, Terminal, Histories
  <2>3. g = [c EXCEPT !.dependency = TRUE]
    BY <1>5, <1>8 DEF ContextApply, Terminal
  <2>4. /\ SameContextRun(c, g) /\ SameContextCalls(c, g)
        /\ g.finish = c.finish /\ g.rejected = c.rejected
        /\ g.evidence = c.evidence /\ g.dependency = TRUE
        /\ g.content = c.content
    BY <2>3 DEF Contexts, SameContextRun, SameContextCalls
  <2>5. /\ round.finish = d.round.finish /\ round.rejected = d.round.rejected
        /\ round.evidence = d.round.evidence /\ round.dependency = TRUE
        /\ round.intermediate = d.round.intermediate
        /\ round.tools = d.round.tools /\ round.locked = d.round.locked
    BY <1>4, <2>1 DEF Rounds
  <2>6. CoupledRound([d EXCEPT !.round = round], g)
    BY <2>4, <2>5 DEF Coupled, CoupledRound, Histories
  <2> QED
    BY <1>2, <1>3, <1>5, <2>2, <2>4, <2>5, <2>6, MarkCoupled
<1> QED
  BY <1>6, <1>7, <1>8

\* Messages of the assistant.
LEMMA MessageCoupled ==
  ASSUME NEW d \in Histories, NEW c \in Contexts, NEW e \in Events,
         Coupled(d, c), Accepts(d, e), Usual(d, e),
         e.type = "assistant.message"
  PROVE  ContextAccepts(c, e) /\ Coupled(Apply(d, e), ContextApply(c, e))
<1>1. AcceptsAssistantMessage(d, e.tag) /\ d.run = e.run
  BY AcceptedAs
<1>2. ~d.pending
  BY <1>1 DEF AcceptsAssistantMessage
<1>3. d.round \in Rounds
  BY DEF Histories
<1>4. ContextAcceptsMessage(c, e.tag)
  <2>1. CASE e.tag = "final"
    BY <1>1, <2>1 DEF ContextAcceptsMessage, AcceptsAssistantMessage, Coupled,
       CoupledRun, CoupledRound
  <2>2. CASE e.tag # "final"
    <3>1. d.round.tools = << >> /\ d.round.rejected = "none"
      BY <1>1, <2>2 DEF AcceptsAssistantMessage, Usual
    <3>2. Len(d.round.tools) = 0
      BY <3>1
    <3> QED
      BY <1>1, <2>2, <3>1, <3>2 DEF ContextAcceptsMessage,
         AcceptsAssistantMessage, Coupled, CoupledRound, CoupledCalls
  <2> QED
    BY <2>1, <2>2
<1>5. ContextAccepts(c, e)
  BY <1>1, <1>4 DEF ContextAccepts, Coupled, CoupledRun
<1>6. PICK g : g = ContextApply(c, e)
  OBVIOUS
<1>7. CASE e.tag = "final"
  <2>1. PICK u : u = Apply(d, e)
    OBVIOUS
  <2>2. u = [d EXCEPT !.final = TRUE]
    BY <1>7, <2>1 DEF Apply, Terminal, AssistantMessage
  <2>3. g = [c EXCEPT !.final = TRUE]
    BY <1>6, <1>7 DEF ContextApply, Terminal
  <2>4. CoupledRun(u, g)
    BY <2>2, <2>3 DEF Coupled, CoupledRun, Histories, Contexts
  <2>5. u.round = d.round
    BY <2>2 DEF Histories
  <2>6. SameContextMarks(c, g) /\ SameContextCalls(c, g)
    BY <2>3 DEF Contexts, SameContextMarks, SameContextCalls
  <2>7. CoupledRound(u, g) /\ CoupledCalls(u, g)
    BY <2>5, <2>6, SameMarksCoupled, SameCallsCoupled DEF Coupled, SameMarks
  <2> QED
    BY <1>5, <1>6, <2>1, <2>4, <2>7 DEF Coupled
<1>8. CASE e.tag # "final"
  <2>1. PICK round : round = [d.round EXCEPT !.intermediate = TRUE]
    OBVIOUS
  <2>2. Apply(d, e) = [d EXCEPT !.round = round]
    BY <1>3, <1>8, <2>1 DEF Apply, Terminal, AssistantMessage, Histories
  <2>3. g = [c EXCEPT !.content = TRUE]
    BY <1>6, <1>8 DEF ContextApply, Terminal
  <2>4. /\ SameContextRun(c, g) /\ SameContextCalls(c, g)
        /\ g.finish = c.finish /\ g.rejected = c.rejected
        /\ g.evidence = c.evidence /\ g.dependency = c.dependency
        /\ g.content = TRUE
    BY <2>3 DEF Contexts, SameContextRun, SameContextCalls
  <2>5. /\ round.finish = d.round.finish /\ round.rejected = d.round.rejected
        /\ round.evidence = d.round.evidence
        /\ round.dependency = d.round.dependency /\ round.intermediate = TRUE
        /\ round.tools = d.round.tools /\ round.locked = d.round.locked
    BY <1>3, <2>1 DEF Rounds
  <2>6. CoupledRound([d EXCEPT !.round = round], g)
    BY <2>4, <2>5 DEF Coupled, CoupledRound, Histories
  <2> QED
    BY <1>2, <1>5, <1>6, <2>2, <2>4, <2>5, <2>6, MarkCoupled
<1> QED
  BY <1>7, <1>8

\* A plan and the answer to it.
LEMMA ProposalCoupled ==
  ASSUME NEW d \in Histories, NEW c \in Contexts, NEW e \in Events,
         Coupled(d, c), Accepts(d, e), e.type = "plan.proposed"
  PROVE  ContextAccepts(c, e) /\ Coupled(Apply(d, e), ContextApply(c, e))
<1>1. AcceptsPlanProposal(d) /\ d.run = e.run
  BY AcceptedAs
<1>2. ContextAccepts(c, e)
  BY <1>1 DEF ContextAccepts, ContextAcceptsPlan, AcceptsPlanProposal, Coupled,
     CoupledRun, CoupledRound
<1>3. PICK u : u = Apply(d, e)
  OBVIOUS
<1>4. PICK g : g = ContextApply(c, e)
  OBVIOUS
<1>5. u = [d EXCEPT !.plan = "proposed", !.phase = "awaiting"]
  BY <1>3 DEF Apply, Terminal
<1>6. g = [c EXCEPT !.planned = TRUE, !.committed = TRUE,
                    !.phase = "awaiting"]
  BY <1>4 DEF ContextApply, Terminal
<1>7. /\ u.run = d.run /\ u.goal = d.goal /\ u.iterations = d.iterations
      /\ u.pending = d.pending /\ u.round = d.round /\ u.final = d.final
      /\ u.handoff = d.handoff /\ u.plan = "proposed" /\ u.phase = "awaiting"
  BY <1>5 DEF Histories
<1>8. /\ g.readable = c.readable /\ g.run = c.run /\ g.goal = c.goal
      /\ g.requests = c.requests /\ g.pending = c.pending
      /\ g.phase = "awaiting" /\ g.planned = TRUE /\ g.decided = c.decided
      /\ g.committed = TRUE /\ g.final = c.final
  BY <1>6 DEF Contexts
<1>9. SameContextMarks(c, g) /\ SameContextCalls(c, g)
  BY <1>6 DEF Contexts, SameContextMarks, SameContextCalls
<1>10. CoupledRun(u, g)
  BY <1>1, <1>7, <1>8 DEF Coupled, CoupledRun, AcceptsPlanProposal, Contexts
<1>11. CoupledRound(u, g) /\ CoupledCalls(u, g)
  BY <1>7, <1>9, SameMarksCoupled, SameCallsCoupled DEF Coupled, SameMarks
<1> QED
  BY <1>2, <1>3, <1>4, <1>10, <1>11 DEF Coupled

LEMMA AnswerCoupled ==
  ASSUME NEW d \in Histories, NEW c \in Contexts, NEW e \in Events,
         Coupled(d, c), Accepts(d, e), e.type = "plan.approval.resolved"
  PROVE  ContextAccepts(c, e) /\ Coupled(Apply(d, e), ContextApply(c, e))
<1>1. AcceptsPlanResolution(d) /\ d.run = e.run
  BY AcceptedAs
<1>2. ContextAccepts(c, e)
  BY <1>1 DEF ContextAccepts, AcceptsPlanResolution, Coupled, CoupledRun
<1>3. PICK u : u = Apply(d, e)
  OBVIOUS
<1>4. PICK g : g = ContextApply(c, e)
  OBVIOUS
<1>5. CASE e.tag = "approved"
  <2>1. u = [d EXCEPT !.plan = "approved", !.phase = "executing",
                      !.round = NoRound]
    BY <1>3, <1>5 DEF Apply, Terminal, ResolvePlan
  <2>2. PICK f : f = FreshRound(c)
    OBVIOUS
  <2>3. g = [f EXCEPT !.decided = TRUE, !.phase = "executing"]
    BY <1>4, <1>5, <2>2 DEF ContextApply, ContextResolvePlan, Terminal
  <2>4. /\ f.finish = "none" /\ f.rejected = "none" /\ f.evidence = FALSE
        /\ f.dependency = FALSE /\ f.committed = FALSE /\ f.final = FALSE
        /\ f.content = FALSE /\ f.calls = 0 /\ f.results = {} /\ f.asked = {}
        /\ f.answered = {} /\ f.readable = c.readable /\ f.run = c.run
        /\ f.goal = c.goal /\ f.requests = c.requests
        /\ f.pending = c.pending /\ f.planned = c.planned
    BY <2>2 DEF FreshRound, Contexts
  <2>5. f \in Contexts
    BY <2>2, FreshRoundType
  <2>6. /\ u.run = d.run /\ u.goal = d.goal /\ u.iterations = d.iterations
        /\ u.pending = d.pending /\ u.final = d.final
        /\ u.handoff = d.handoff /\ u.plan = "approved"
        /\ u.phase = "executing" /\ u.round = NoRound
    BY <2>1 DEF Histories
  <2>7. /\ g.readable = f.readable /\ g.run = f.run /\ g.goal = f.goal
        /\ g.requests = f.requests /\ g.pending = f.pending
        /\ g.phase = "executing" /\ g.planned = f.planned
        /\ g.decided = TRUE /\ g.committed = f.committed
        /\ g.final = f.final
    BY <2>3, <2>5 DEF Contexts
  <2>8. SameContextMarks(f, g) /\ SameContextCalls(f, g)
    BY <2>3, <2>5 DEF Contexts, SameContextMarks, SameContextCalls
  <2>9. CoupledRun(u, g)
    BY <1>1, <2>4, <2>6, <2>7 DEF Coupled, CoupledRun, AcceptsPlanResolution
  <2>10. CoupledRound(u, g) /\ CoupledCalls(u, g)
    BY <2>4, <2>6, <2>8, FreshCoupled
    DEF NoRound, SameContextMarks, SameContextCalls
  <2> QED
    BY <1>2, <1>3, <1>4, <2>9, <2>10 DEF Coupled
<1>6. CASE e.tag # "approved"
  <2>1. u = [d EXCEPT !.plan = "rejected"]
    BY <1>3, <1>6 DEF Apply, Terminal, ResolvePlan
  <2>2. g = [c EXCEPT !.decided = TRUE]
    BY <1>4, <1>6 DEF ContextApply, ContextResolvePlan, Terminal
  <2>3. CoupledRun(u, g)
    BY <1>1, <2>1, <2>2 DEF Coupled, CoupledRun, AcceptsPlanResolution,
       Histories, Contexts
  <2>4. u.round = d.round
    BY <2>1 DEF Histories
  <2>5. SameContextMarks(c, g) /\ SameContextCalls(c, g)
    BY <2>2 DEF Contexts, SameContextMarks, SameContextCalls
  <2>6. CoupledRound(u, g) /\ CoupledCalls(u, g)
    BY <2>4, <2>5, SameMarksCoupled, SameCallsCoupled DEF Coupled, SameMarks
  <2> QED
    BY <1>2, <1>3, <1>4, <2>3, <2>6 DEF Coupled
<1> QED
  BY <1>5, <1>6

\* A call that is asked for.
LEMMA RequestedCoupled ==
  ASSUME NEW d \in Histories, NEW c \in Contexts, NEW e \in Events,
         Coupled(d, c), Accepts(d, e), Usual(d, e), e.type = "tool.requested"
  PROVE  ContextAccepts(c, e) /\ Coupled(Apply(d, e), ContextApply(c, e))
<1>1. AcceptsToolRequest(d, e.n) /\ d.run = e.run
  BY AcceptedAs
<1>2. PICK tools : tools = d.round.tools
  OBVIOUS
<1>3. d.round \in Rounds /\ tools \in Seq(Tools)
  BY <1>2 DEF Histories, Rounds
<1>4. /\ d.round.finish = "tool_calls" /\ ~d.round.locked
      /\ e.n = Len(tools) + 1
  BY <1>1, <1>2 DEF AcceptsToolRequest, InToolRound
<1>5. /\ c.finish = "tool_calls" /\ c.calls = Len(tools) /\ c.results = {}
      /\ c.readable /\ c.run = d.run
  BY <1>2, <1>4 DEF Coupled, CoupledRun, CoupledRound, CoupledCalls
<1>6. ContextAccepts(c, e)
  BY <1>1, <1>4, <1>5 DEF ContextAccepts
<1>7. ~d.pending
  BY <1>4 DEF Coupled, CoupledRun, NoRound, NewRound
<1>8. PICK u : u = Apply(d, e)
  OBVIOUS
<1>9. PICK g : g = ContextApply(c, e)
  OBVIOUS
<1>10. PICK call : call = Fresh(e.tag, d.phase = "planning")
  OBVIOUS
<1>11. PICK after : after = Append(tools, call)
  OBVIOUS
<1>12. PICK round : round = [d.round EXCEPT !.tools = after]
  OBVIOUS
<1>13. u = [d EXCEPT !.round = round]
  BY <1>2, <1>3, <1>8, <1>10, <1>11, <1>12
  DEF Apply, Terminal, RequestTool, Fresh, Histories
<1>14. g = [c EXCEPT !.calls = e.n]
  BY <1>9 DEF ContextApply, Terminal
<1>15. /\ round.tools = after /\ round.locked = d.round.locked
       /\ round.finish = d.round.finish /\ round.rejected = d.round.rejected
       /\ round.evidence = d.round.evidence
       /\ round.dependency = d.round.dependency
       /\ round.intermediate = d.round.intermediate
  BY <1>3, <1>12 DEF Rounds
<1>16. SameRun(d, u) /\ u.round = round
  BY <1>13 DEF Histories, SameRun
<1>17. /\ SameContextRun(c, g) /\ SameContextMarks(c, g)
       /\ g.calls = e.n /\ g.results = c.results /\ g.asked = c.asked
       /\ g.answered = c.answered
  BY <1>14 DEF Contexts, SameContextRun, SameContextMarks
<1>18. CoupledRun(u, g)
  BY <1>7, <1>16, <1>17, SameRunCoupled DEF Coupled
<1>19. CoupledRound(u, g)
  BY <1>15, <1>16, <1>17, SameMarksCoupled DEF Coupled, SameMarks
<1>20. /\ call.kind = e.tag /\ call.approval = "none" /\ call.result = "none"
  BY <1>10 DEF Fresh
<1>21. e.tag # "service"
  BY DEF Usual
<1>22. /\ Len(after) = Len(tools) + 1
       /\ DOMAIN after = DOMAIN tools \cup {Len(tools) + 1}
       /\ Len(tools) + 1 \notin DOMAIN tools
       /\ \A i \in DOMAIN tools : after[i] = tools[i]
       /\ after[Len(tools) + 1] = call
  BY <1>3, <1>11
<1>23. CoupledCalls(u, g)
  <2>1. /\ g.calls = Len(after)
        /\ \A i \in DOMAIN after : after[i].kind # "service"
    BY <1>2, <1>4, <1>17, <1>20, <1>21, <1>22 DEF Coupled, CoupledCalls
  <2>2. /\ g.results = {i \in DOMAIN after : after[i].result # "none"}
        /\ g.asked = {i \in DOMAIN after : after[i].approval # "none"}
        /\ g.answered = {i \in DOMAIN after :
                           after[i].approval \in {"approved", "rejected"}}
    BY <1>2, <1>17, <1>20, <1>22 DEF Coupled, CoupledCalls
  <2> QED
    BY <1>5, <1>15, <1>16, <1>17, <2>1, <2>2 DEF CoupledCalls
<1> QED
  BY <1>6, <1>8, <1>9, <1>18, <1>19, <1>23 DEF Coupled

\* A call that changes.
LEMMA ChangeCoupled ==
  ASSUME NEW d \in Histories, NEW c \in Contexts, NEW n, NEW tool, NEW u, NEW g,
         Coupled(d, c), InToolRound(d), n \in DOMAIN d.round.tools,
         tool.kind = d.round.tools[n].kind,
         SameRun(d, u), u.round = RoundWith(d.round, n, tool),
         SameContextRun(c, g), SameContextMarks(c, g), g.calls = c.calls,
         g.results = c.results \cup (IF tool.result # "none" THEN {n} ELSE {}),
         g.asked = c.asked \cup (IF tool.approval # "none" THEN {n} ELSE {}),
         g.answered = c.answered \cup
            (IF tool.approval \in {"approved", "rejected"} THEN {n} ELSE {}),
         d.round.tools[n].result # "none" => tool.result # "none",
         d.round.tools[n].approval # "none" => tool.approval # "none",
         d.round.tools[n].approval \in {"approved", "rejected"} =>
            tool.approval \in {"approved", "rejected"}
  PROVE  Coupled(u, g)
<1>1. PICK tools : tools = d.round.tools
  OBVIOUS
<1>2. d.round \in Rounds /\ tools \in Seq(Tools)
  BY <1>1 DEF Histories, Rounds
<1>3. ~d.pending
  BY DEF Coupled, CoupledRun, InToolRound, NoRound, NewRound
<1>4. CoupledRun(u, g)
  BY <1>3, SameRunCoupled DEF Coupled
<1>5. PICK after : after = [tools EXCEPT ![n] = tool]
  OBVIOUS
<1>6. u.round = [d.round EXCEPT !.locked = TRUE, !.tools = after]
  BY <1>1, <1>2, <1>5 DEF RoundWith, Rounds
<1>7. SameMarks(d, u) /\ u.round.tools = after /\ u.round.locked = TRUE
  BY <1>2, <1>6 DEF Rounds, SameMarks
<1>8. CoupledRound(u, g)
  BY <1>7, SameMarksCoupled DEF Coupled
<1>9. /\ Len(after) = Len(tools) /\ DOMAIN after = DOMAIN tools
      /\ n \in DOMAIN tools /\ after[n] = tool
      /\ \A i \in DOMAIN tools \ {n} : after[i] = tools[i]
  BY <1>1, <1>2, <1>5
<1>10. g.calls = Len(after) /\ \A i \in DOMAIN after : after[i].kind # "service"
  BY <1>1, <1>9 DEF Coupled, CoupledCalls
<1>11. g.results = {i \in DOMAIN after : after[i].result # "none"}
  BY <1>1, <1>9 DEF Coupled, CoupledCalls
<1>12. g.asked = {i \in DOMAIN after : after[i].approval # "none"}
  BY <1>1, <1>9 DEF Coupled, CoupledCalls
<1>13. g.answered = {i \in DOMAIN after :
                       after[i].approval \in {"approved", "rejected"}}
  BY <1>1, <1>9 DEF Coupled, CoupledCalls
<1>14. CoupledCalls(u, g)
  BY <1>7, <1>10, <1>11, <1>12, <1>13 DEF CoupledCalls
<1> QED
  BY <1>4, <1>8, <1>14 DEF Coupled

LEMMA CurrentTool ==
  ASSUME NEW d \in Histories, NEW n, IsCurrentTool(d.round, n)
  PROVE  /\ n \in DOMAIN d.round.tools /\ d.round.tools[n] \in Tools
         /\ d.round.tools[n].result = "none"
         /\ n \in 1..Len(d.round.tools)
<1>1. n \in DOMAIN d.round.tools /\ d.round.tools[n].result = "none"
  BY DEF IsCurrentTool, Unresolved
<1>2. d.round.tools \in Seq(Tools)
  BY DEF Histories, Rounds
<1> QED
  BY <1>1, <1>2

\* The consent to a call, and its start.
LEMMA ConsentCoupled ==
  ASSUME NEW d \in Histories, NEW c \in Contexts, NEW e \in Events,
         Coupled(d, c), Accepts(d, e),
         e.type \in {"approval.required", "approval.resolved", "tool.started"}
  PROVE  ContextAccepts(c, e) /\ Coupled(Apply(d, e), ContextApply(c, e))
<1>1. /\ d.run = e.run /\ InToolRound(d) /\ IsCurrentTool(d.round, e.n)
      /\ e.type = "approval.required" =>
           d.round.tools[e.n].approval = "none"
      /\ e.type = "approval.resolved" =>
           d.round.tools[e.n].approval = "pending"
  BY AcceptedAs DEF AcceptsApprovalRequest, AcceptsApprovalResolution,
     AcceptsToolStart
<1>2. PICK n : n = e.n
  OBVIOUS
<1>3. PICK tool : tool = d.round.tools[n]
  OBVIOUS
<1>4. /\ n \in DOMAIN d.round.tools /\ tool \in Tools
      /\ tool.result = "none" /\ n \in 1..Len(d.round.tools)
  BY <1>1, <1>2, <1>3, CurrentTool
<1>5. c.finish = "tool_calls" /\ n \in 1..c.calls /\ c.run = e.run /\ c.readable
  BY <1>1, <1>4 DEF Coupled, CoupledRun, CoupledRound, CoupledCalls, InToolRound
<1>6. /\ n \in c.asked <=> tool.approval # "none"
      /\ n \in c.answered <=> tool.approval \in {"approved", "rejected"}
      /\ n \notin c.results
  BY <1>3, <1>4 DEF Coupled, CoupledCalls
<1>7. ContextAccepts(c, e)
  BY <1>1, <1>2, <1>3, <1>5, <1>6 DEF ContextAccepts, ContextAcceptsTool
<1>8. PICK u : u = Apply(d, e)
  OBVIOUS
<1>9. PICK g : g = ContextApply(c, e)
  OBVIOUS
<1>10. ASSUME NEW after, u = UpdateTool(d, n, after)
       PROVE  SameRun(d, u) /\ u.round = RoundWith(d.round, n, after)
  <2>1. PICK round : round = RoundWith(d.round, n, after)
    OBVIOUS
  <2>2. u = [d EXCEPT !.round = round]
    BY <1>10, <2>1 DEF UpdateTool
  <2> QED
    BY <2>1, <2>2 DEF Histories, SameRun
<1>11. CASE e.type = "approval.required"
  <2>1. PICK after : after = [tool EXCEPT !.approval = "pending"]
    OBVIOUS
  <2>2. u = UpdateTool(d, n, after)
    BY <1>2, <1>3, <1>8, <1>11, <2>1 DEF Apply, Terminal, RequireApproval
  <2>3. /\ after.kind = tool.kind /\ after.result = "none"
        /\ after.approval = "pending"
    BY <1>4, <2>1 DEF Tools
  <2>4. g = [c EXCEPT !.asked = c.asked \cup {n}]
    BY <1>2, <1>9, <1>11 DEF ContextApply, Terminal
  <2>5. /\ SameContextRun(c, g) /\ SameContextMarks(c, g) /\ g.calls = c.calls
        /\ g.results = c.results /\ g.asked = c.asked \cup {n}
        /\ g.answered = c.answered
    BY <2>4 DEF Contexts, SameContextRun, SameContextMarks
  <2>6. tool.approval = "none"
    BY <1>1, <1>2, <1>3, <1>11
  <2>7. Coupled(u, g)
    BY <1>1, <1>3, <1>4, <1>10, <2>2, <2>3, <2>5, <2>6, ChangeCoupled
  <2> QED
    BY <1>7, <1>8, <1>9, <2>7
<1>12. CASE e.type = "approval.resolved"
  <2>1. PICK given : given = IF e.tag = "approved" THEN "approved" ELSE "rejected"
    OBVIOUS
  <2>2. PICK after : after = [tool EXCEPT !.approval = given]
    OBVIOUS
  <2>3. u = UpdateTool(d, n, after)
    BY <1>2, <1>3, <1>8, <1>12, <2>1, <2>2 DEF Apply, Terminal, ResolveApproval
  <2>4. /\ after.kind = tool.kind /\ after.result = "none"
        /\ after.approval \in {"approved", "rejected"}
    BY <1>4, <2>1, <2>2 DEF Tools
  <2>5. g = [c EXCEPT !.answered = c.answered \cup {n}]
    BY <1>2, <1>9, <1>12 DEF ContextApply, Terminal
  <2>6. /\ SameContextRun(c, g) /\ SameContextMarks(c, g) /\ g.calls = c.calls
        /\ g.results = c.results /\ g.asked = c.asked
        /\ g.answered = c.answered \cup {n}
    BY <2>5 DEF Contexts, SameContextRun, SameContextMarks
  <2>7. g.asked = c.asked \cup {n}
    BY <1>1, <1>2, <1>3, <1>6, <1>12, <2>6
  <2>8. Coupled(u, g)
    BY <1>1, <1>3, <1>4, <1>10, <2>3, <2>4, <2>6, <2>7, ChangeCoupled
  <2> QED
    BY <1>7, <1>8, <1>9, <2>8
<1>13. CASE e.type = "tool.started"
  <2>1. PICK after : after = [tool EXCEPT !.started = TRUE]
    OBVIOUS
  <2>2. u = UpdateTool(d, n, after)
    BY <1>2, <1>3, <1>8, <1>13, <2>1 DEF Apply, Terminal, StartTool
  <2>3. /\ after.kind = tool.kind /\ after.result = "none"
        /\ after.approval = tool.approval
    BY <1>4, <2>1 DEF Tools
  <2>4. g = c
    BY <1>9, <1>13 DEF ContextApply, Terminal
  <2>5. /\ SameContextRun(c, g) /\ SameContextMarks(c, g)
        /\ g.calls = c.calls /\ g.results = c.results
    BY <2>4 DEF SameContextRun, SameContextMarks
  <2>6. /\ g.asked = c.asked \cup (IF tool.approval # "none" THEN {n} ELSE {})
        /\ g.answered = c.answered \cup
            (IF tool.approval \in {"approved", "rejected"} THEN {n} ELSE {})
    BY <1>6, <2>4
  <2>7. Coupled(u, g)
    BY <1>1, <1>3, <1>4, <1>10, <2>2, <2>3, <2>5, <2>6, ChangeCoupled
  <2> QED
    BY <1>7, <1>8, <1>9, <2>7
<1> QED
  BY <1>11, <1>12, <1>13

\* The result of a call.
LEMMA ResultCoupled ==
  ASSUME NEW d \in Histories, NEW c \in Contexts, NEW e \in Events,
         Coupled(d, c), Accepts(d, e), e.type = "tool.result"
  PROVE  ContextAccepts(c, e) /\ Coupled(Apply(d, e), ContextApply(c, e))
<1>1. d.run = e.run /\ InToolRound(d) /\ IsCurrentTool(d.round, e.n)
  BY AcceptedAs DEF AcceptsToolResult
<1>2. PICK n : n = e.n
  OBVIOUS
<1>3. PICK tool : tool = d.round.tools[n]
  OBVIOUS
<1>4. /\ n \in DOMAIN d.round.tools /\ tool \in Tools
      /\ tool.result = "none" /\ n \in 1..Len(d.round.tools)
  BY <1>1, <1>2, <1>3, CurrentTool
<1>5. c.finish = "tool_calls" /\ n \in 1..c.calls /\ c.run = e.run /\ c.readable
  BY <1>1, <1>4 DEF Coupled, CoupledRun, CoupledRound, CoupledCalls, InToolRound
<1>6. /\ n \in c.asked <=> tool.approval # "none"
      /\ n \in c.answered <=> tool.approval \in {"approved", "rejected"}
      /\ n \notin c.results /\ tool.kind # "service" /\ ~d.handoff
  BY <1>3, <1>4 DEF Coupled, CoupledRun, CoupledCalls
<1>7. ContextAccepts(c, e)
  BY <1>2, <1>5, <1>6 DEF ContextAccepts, ContextAcceptsTool
<1>8. PICK u : u = Apply(d, e)
  OBVIOUS
<1>9. PICK g : g = ContextApply(c, e)
  OBVIOUS
<1>10. e.tag \in Codes
  BY DEF Events
<1>11. PICK after : after = [tool EXCEPT !.result = e.tag]
  OBVIOUS
<1>12. /\ after.kind = tool.kind /\ after.result # "none"
       /\ after.approval = tool.approval
  BY <1>4, <1>10, <1>11 DEF Tools, Codes
<1>13. PICK v : v = UpdateTool(d, n, after)
  OBVIOUS
<1>14. PICK round : round = RoundWith(d.round, n, after)
  OBVIOUS
<1>15. v = [d EXCEPT !.round = round]
  BY <1>13, <1>14 DEF UpdateTool
<1>16. PICK streak : streak = Streak(d.sig, d.errs, tool.kind, e.tag)
  OBVIOUS
<1>17. PICK handoff :
         handoff = (v.handoff \/ (tool.started /\ tool.kind = "service"))
  OBVIOUS
<1>18. u = [v EXCEPT !.sig = streak.sig, !.errs = streak.errs,
                     !.handoff = handoff]
  BY <1>2, <1>3, <1>8, <1>11, <1>13, <1>16, <1>17
  DEF Apply, Terminal, RecordResult
<1>19. ~handoff
  BY <1>6, <1>15, <1>17 DEF Histories
<1>20. /\ u.run = d.run /\ u.goal = d.goal /\ u.iterations = d.iterations
       /\ u.pending = d.pending /\ u.phase = d.phase /\ u.plan = d.plan
       /\ u.final = d.final /\ u.handoff = handoff /\ u.round = round
  BY <1>15, <1>18 DEF Histories
<1>21. SameRun(d, u)
  <2>1. d.handoff \in BOOLEAN
    BY DEF Histories
  <2>2. handoff \in BOOLEAN
    BY <1>6, <1>15, <1>17, <2>1 DEF Histories
  <2> QED
    BY <1>6, <1>19, <1>20, <2>1, <2>2 DEF SameRun
<1>22. g = [c EXCEPT !.results = c.results \cup {n}]
  BY <1>2, <1>9 DEF ContextApply, Terminal
<1>23. /\ SameContextRun(c, g) /\ SameContextMarks(c, g) /\ g.calls = c.calls
       /\ g.results = c.results \cup {n} /\ g.asked = c.asked
       /\ g.answered = c.answered
  BY <1>22 DEF Contexts, SameContextRun, SameContextMarks
<1>24. /\ g.asked = c.asked \cup (IF tool.approval # "none" THEN {n} ELSE {})
       /\ g.answered = c.answered \cup
            (IF tool.approval \in {"approved", "rejected"} THEN {n} ELSE {})
  BY <1>6, <1>23
<1>25. Coupled(u, g)
  BY <1>1, <1>3, <1>4, <1>12, <1>14, <1>20, <1>21, <1>23, <1>24, ChangeCoupled
<1> QED
  BY <1>7, <1>8, <1>9, <1>25

\* An event that is accepted, and usual, keeps the two projections together.
LEMMA EventCoupled ==
  ASSUME NEW d \in Histories, NEW c \in Contexts, NEW e \in Events,
         Coupled(d, c), Accepts(d, e), Usual(d, e)
  PROVE  Coupled(Apply(d, e), ProjectContext(c, e))
<1>1. e.type \in EventTypes
  BY DEF Events
<1>2. ContextAccepts(c, e) /\ Coupled(Apply(d, e), ContextApply(c, e))
  BY <1>1, StartCoupled, EndCoupled, GoalCoupled, RequestCoupled,
     CompletionCoupled, CorrectionCoupled, MessageCoupled, ProposalCoupled,
     AnswerCoupled, RequestedCoupled, ConsentCoupled, ResultCoupled
  DEF EventTypes, Ordinary
<1> QED
  BY <1>2 DEF ProjectContext

-----------------------------------------------------------------------------
(* The readers agree.                                                      *)

\* What the handler knows when it appends one of the three events that the
\* context provider is stricter about.
OnOffer == \A i \in DOMAIN turn.batch : turn.batch[i] \in Offers
Narrating ==
    /\ pc = "batch" => turn.text = "empty"
    /\ pc = "narrate" /\ Followed => disk.round.rejected = "none"
Coupling == disk.valid => Coupled(disk, ctx)
CouplingInv == OnOffer /\ Narrating /\ Coupling

\* What a step does to the file.
Special == {"assistant.message", "validation.repair.warning", "tool.requested"}
Reads ==
    \/ UNCHANGED <<disk, ctx>>
    \/ \E e \in Events : Write(e) /\ (disk.valid => Usual(disk, e))

LEMMA ReadsCouple ==
  ASSUME TypeOK, Coupling, Reads
  PROVE  Coupling'
<1>1. disk \in Histories /\ ctx \in Contexts
  BY DEF TypeOK
<1>2. CASE UNCHANGED <<disk, ctx>>
  BY <1>2 DEF Coupling
<1>3. ASSUME NEW e \in Events, Write(e), disk.valid => Usual(disk, e)
      PROVE  Coupling'
  <2>1. disk' = Project(disk, e) /\ ctx' = ProjectContext(ctx, e)
    BY <1>3 DEF Write
  <2>2. CASE Accepts(disk, e)
    <3>1. disk.valid
      BY <2>2 DEF Accepts
    <3>2. Coupled(Apply(disk, e), ProjectContext(ctx, e))
      BY <1>1, <1>3, <2>2, <3>1, EventCoupled DEF Coupling
    <3> QED
      BY <2>1, <2>2, <3>2 DEF Project, Coupling
  <2>3. CASE ~Accepts(disk, e)
    BY <2>1, <2>3 DEF Project, Unreadable, EmptyHistory, Coupling
  <2> QED
    BY <2>2, <2>3
<1> QED
  BY <1>2, <1>3 DEF Reads

LEMMA AppendsRead ==
  ASSUME NEW e \in Events, NEW result, Appends(e, result),
         disk.valid => Usual(disk, e)
  PROVE  Reads
  BY DEF Appends, Reads, durable

LEMMA UsualEvents ==
  ASSUME NEW e, e.type \notin Special
  PROVE  Usual(disk, e)
  BY DEF Usual, Special

\* The event of a step of the run.
LEMMA SentReads ==
  ASSUME Strong, pc # "idle", NEW type \in EventTypes \ Special, NEW n \in Nat,
         NEW tag \in Tags, NEW l,
         type = "tool.result" => tag \in Codes,
         Send(RunEvent(type, n, tag), l)
  PROVE  Reads
<1>1. active.run \in Runs
  BY Owned DEF Strong, Inv
<1> DEFINE e == RunEvent(type, n, tag)
<1>2. e \in Events
  BY <1>1, RunEventType DEF Special
<1>3. e.type = type
  BY DEF RunEvent, Event
<1>4. PICK result \in Outcomes : Appends(e, result)
  BY DEF Send
<1> HIDE DEF e
<1> QED
  BY <1>2, <1>3, <1>4, AppendsRead, UsualEvents

LEMMA GotoReads == \A l : Goto(l) => Reads
  BY DEF Goto, Reads, durable

LEMMA FinishReads ==
  ASSUME Strong, pc # "idle", FinishFromError \/ FinishAs("run.completed")
                               \/ FinishAs("run.cancelled")
  PROVE  /\ Reads /\ pc' = "finishing" /\ turn' = turn
         /\ (OnOffer => OnOffer') /\ Narrating'
<1>1. PICK how \in Terminal : FinishAs(how)
  BY DEF FinishFromError, Terminal
<1>2. turn.requests \in Nat
  BY DEF Strong, Inv, TypeOK, Turns
<1>3. "" \in Tags
  BY DEF Tags
<1>4. PICK tag \in Tags : Send(RunEvent(how, turn.requests, tag), "finishing")
  BY <1>1, <1>3 DEF FinishAs
<1>5. how \in EventTypes \ Special /\ how # "tool.result"
  BY DEF EventTypes, Terminal, Special
<1>6. Reads
  BY <1>2, <1>4, <1>5, SentReads
<1>7. pc' = "finishing" /\ turn' = turn
  BY <1>1 DEF FinishAs, Send
<1> QED
  BY <1>6, <1>7 DEF OnOffer, Narrating

LEMMA LeaveReads ==
  ASSUME Forget
  PROVE  /\ Reads /\ pc' = "idle" /\ OnOffer' /\ Narrating'
  BY DEF Forget, Reads, OnOffer, Narrating, NoTurn

\* Steps whose place says nothing about a batch.
LEMMA ElsewhereNarrating ==
  ASSUME pc' \notin {"batch", "narrate"}
  PROVE  Narrating'
  BY DEF Narrating

LEMMA SameOnOffer ==
  ASSUME OnOffer, turn'.batch = turn.batch
  PROVE  OnOffer'
  BY DEF OnOffer

\* A place that stays while the file does.
LEMMA SameNarrating ==
  ASSUME Narrating, pc' = pc, turn' = turn,
         Followed' => Followed, disk' = disk \/ pc # "narrate"
  PROVE  Narrating'
  BY DEF Narrating

LEMMA AppendReturnsCouple ==
  ASSUME Strong, CouplingInv, AppendReturns
  PROVE  Reads /\ OnOffer' /\ Narrating'
<1>1. CASE Deliver
  <2>1. UNCHANGED <<durable, pc, turn>> /\ io = "delivering" /\ io' = "none"
    BY <1>1 DEF Deliver
  <2>2. Followed' => Followed
    BY <2>1 DEF Followed, Running, durable
  <2> QED
    BY <2>1, <2>2, SameNarrating, SameOnOffer DEF CouplingInv, Reads, durable
<1>2. CASE StoreError
  BY <1>2, LeaveReads DEF StoreError, Leave
<1>3. CASE HistoryError
  <2>1. pc # "idle"
    BY <1>3 DEF HistoryError, Strong, Inv, Ownership
  <2> QED
    BY <1>3, <2>1, LeaveReads, FinishReads DEF HistoryError, Leave, CouplingInv
<1> QED
  BY <1>1, <1>2, <1>3 DEF AppendReturns

LEMMA ModelStepCouple ==
  ASSUME Strong, CouplingInv, ModelStep
  PROVE  Reads /\ OnOffer' /\ Narrating'
<1>1. /\ pc # "idle" /\ io = "none" /\ turn \in Turns /\ turn.requests \in Nat
      /\ turn.requests + 1 \in Nat
  <2>1. pc # "idle" /\ io = "none"
    BY DEF ModelStep, Goal, Loop, ContextBuilt, ContextFailed, Compacted,
       Requested, ModelAnswers, ModelFailed, LiveDeltaLost, At
  <2> QED
    BY <2>1 DEF Strong, Inv, TypeOK, Turns
<1>2. FinishFromError => Reads /\ OnOffer' /\ Narrating'
  BY <1>1, FinishReads DEF CouplingInv
<1>3. ASSUME NEW type \in {"user.message", "model.requested",
                           "context.compacted"},
             NEW n \in Nat, NEW l \in {"loop", "requesting", "compacted"},
             Record(type, n, "", l)
      PROVE  Reads /\ OnOffer' /\ Narrating'
  <2>1. "" \in Tags
    BY DEF Tags
  <2>2. PICK tag \in Tags : Send(RunEvent(type, n, tag), l)
    BY <1>3, <2>1 DEF Record
  <2>3. type \in EventTypes \ Special /\ type # "tool.result"
    BY DEF EventTypes, Ordinary, Special
  <2>4. pc' = l /\ turn' = turn
    BY <1>3 DEF Record, Send
  <2> QED
    BY <1>1, <2>2, <2>3, <2>4, SentReads, ElsewhereNarrating, SameOnOffer
    DEF CouplingInv
<1>4. CASE Goal
  BY <1>2, <1>3, <1>4 DEF Goal
<1>5. CASE Loop
  <2>1. CASE Continue("context")
    <3>1. Goto("context") /\ turn' = turn /\ pc' = "context"
      BY <2>1 DEF Continue, Goto
    <3> QED
      BY <3>1, GotoReads, ElsewhereNarrating, SameOnOffer DEF CouplingInv
  <2> QED
    BY <1>2, <1>5, <2>1 DEF Loop
<1>6. CASE ContextBuilt \/ Compacted
  BY <1>1, <1>2, <1>3, <1>6 DEF ContextBuilt, Compacted, RequestTheModel
<1>7. CASE ContextFailed \/ ModelFailed
  BY <1>2, <1>7 DEF ContextFailed, ModelFailed
<1>8. CASE Requested
  <2>1. Goto("model") /\ pc' = "model" /\ turn'.batch = turn.batch
    BY <1>1, <1>8 DEF Requested, Goto, Turns
  <2> QED
    BY <2>1, GotoReads, ElsewhereNarrating, SameOnOffer DEF CouplingInv
<1>9. CASE ModelAnswers
  <2> DEFINE Answered(finish) == IF finish = "stop" THEN {<< >>} ELSE Batches
  <2>1. PICK finish \in {"stop", "tool_calls"}, text \in Texts :
        \E batch \in Answered(finish) :
           /\ turn' = [turn EXCEPT !.finish = finish, !.text = text,
                                   !.batch = batch]
           /\ Send(RunEvent("model.completed", turn.requests, finish),
                   "completed")
    BY <1>9 DEF ModelAnswers
  <2>2. PICK batch \in Answered(finish) :
           turn' = [turn EXCEPT !.finish = finish, !.text = text,
                                !.batch = batch]
    BY <2>1
  <2>3. OnOffer'
    <3>1. \A i \in DOMAIN batch : batch[i] \in Offers
      BY <2>2 DEF Batches
    <3>2. turn'.batch = batch
      BY <1>1, <2>2 DEF Turns
    <3> QED
      BY <3>1, <3>2 DEF OnOffer
  <2>4. PICK tag \in Tags :
           Send(RunEvent("model.completed", turn.requests, tag), "completed")
    BY <2>1 DEF Tags
  <2>5. Reads
    BY <1>1, <2>4, SentReads DEF EventTypes, Ordinary, Special
  <2>6. pc' = "completed"
    BY <2>1 DEF Send
  <2> QED
    BY <2>3, <2>5, <2>6, ElsewhereNarrating
<1>10. CASE LiveDeltaLost
  <2>1. UNCHANGED <<durable, pc, io, turn>>
    BY <1>10 DEF LiveDeltaLost
  <2> QED
    BY <2>1, SameNarrating, SameOnOffer
    DEF CouplingInv, Reads, durable, Followed, Running
<1> QED
  BY <1>4, <1>5, <1>6, <1>7, <1>8, <1>9, <1>10 DEF ModelStep

LEMMA StopStepCouple ==
  ASSUME Strong, CouplingInv, StopStep
  PROVE  Reads /\ OnOffer' /\ Narrating'
<1>1. /\ pc # "idle" /\ io = "none" /\ turn.requests \in Nat
  <2>1. pc # "idle" /\ io = "none"
    BY DEF StopStep, StopRejected, Restate, ProposePlan, PlanProposed,
       PlanAnswered, StopWithMissingParent, StopUnverified, StopWithoutService,
       StopAccepted, Answer, Complete, StopForGood, FinalStop, Stopped, At
  <2> QED
    BY <2>1 DEF Strong, Inv, TypeOK, Turns
<1>2. FinishFromError => Reads /\ OnOffer' /\ Narrating'
  BY <1>1, FinishReads DEF CouplingInv
<1>3. ASSUME NEW l \in {"loop", "plan_wait", "answer"}, Goto(l), turn' = turn
      PROVE  Reads /\ OnOffer' /\ Narrating'
  BY <1>3, GotoReads, ElsewhereNarrating, SameOnOffer DEF CouplingInv, Goto
<1>4. ASSUME NEW type \in EventTypes \ Special, type # "tool.result",
             NEW n \in Nat, NEW tag \in Tags,
             NEW l \in {"restate", "proposing", "loop"},
             Send(RunEvent(type, n, tag), l), turn' = turn
      PROVE  Reads /\ OnOffer' /\ Narrating'
  <2>1. Reads
    BY <1>1, <1>4, SentReads
  <2>2. pc' = l
    BY <1>4 DEF Send
  <2> QED
    BY <1>4, <2>1, <2>2, ElsewhereNarrating, SameOnOffer DEF CouplingInv
<1>5. CASE StopRejected
  <2>1. PICK tag \in Tags :
           Send(RunEvent("model.output.rejected", turn.requests, tag), "restate")
    BY <1>5 DEF StopRejected, Tags
  <2>2. turn' = turn
    BY <1>5 DEF StopRejected
  <2> QED
    BY <1>1, <1>4, <2>1, <2>2 DEF EventTypes, Ordinary, Special
<1>6. CASE Restate
  BY <1>2, <1>3, <1>6 DEF Restate, Continue
<1>7. CASE ProposePlan
  <2>1. CASE turn.text # "empty"
    <3>1. PICK tag \in Tags : Send(RunEvent("plan.proposed", 0, tag), "proposing")
      BY <1>7, <2>1 DEF ProposePlan, Tags
    <3>2. turn' = turn
      BY <1>7, <2>1 DEF ProposePlan
    <3> QED
      BY <1>1, <1>4, <3>1, <3>2 DEF EventTypes, Ordinary, Special
  <2> QED
    BY <1>2, <1>7, <2>1 DEF ProposePlan
<1>8. CASE PlanProposed
  BY <1>3, <1>8 DEF PlanProposed
<1>9. CASE PlanAnswered
  <2>1. CASE Goto("loop") /\ turn' = turn
    BY <1>3, <2>1
  <2>2. CASE FinishAs("run.cancelled")
    BY <1>1, <2>2, FinishReads DEF CouplingInv
  <2> QED
    BY <1>2, <1>9, <2>1, <2>2 DEF PlanAnswered
<1>10. CASE StopWithMissingParent
  <2>1. CASE ~FinishFromError
    <3>1. PICK tag \in Tags :
             Send(RunEvent("write.dependency.rejected", turn.requests, tag), "loop")
      <4>1. "" \in Tags
        BY DEF Tags
      <4> QED
        BY <1>10, <2>1, <4>1 DEF StopWithMissingParent
    <3>2. turn' = turn
      BY <1>10, <2>1 DEF StopWithMissingParent
    <3> QED
      BY <1>1, <1>4, <3>1, <3>2 DEF EventTypes, Ordinary, Special
  <2> QED
    BY <1>2, <2>1
<1>11. CASE StopUnverified
  <2>1. PICK tag \in Tags :
           Send(RunEvent("completion.evidence.rejected", turn.requests, tag), "loop")
    BY <1>11 DEF StopUnverified, Tags
  <2>2. turn' = turn
    BY <1>11 DEF StopUnverified
  <2> QED
    BY <1>1, <1>4, <2>1, <2>2 DEF EventTypes, Ordinary, Special
<1>12. CASE StopWithoutService
  BY <1>3, <1>12 DEF StopWithoutService
<1>13. CASE StopAccepted
  BY <1>2, <1>3, <1>13 DEF StopAccepted
<1>14. CASE Answer
  <2>1. CASE Record("assistant.message", 0, "final", "final")
    <3>1. "final" \in Tags /\ "assistant.message" \in EventTypes
      BY DEF Tags, EventTypes, Ordinary
    <3>2. active.run \in Runs
      BY <1>1, Owned DEF Strong, Inv
    <3>3. PICK e : e = RunEvent("assistant.message", 0, "final")
      OBVIOUS
    <3>4. e \in Events
      BY <3>1, <3>2, <3>3, RunEventType
    <3>5. e.type = "assistant.message" /\ e.tag = "final"
      BY <3>3 DEF RunEvent, Event
    <3>6. PICK result \in Outcomes : Appends(e, result)
      BY <2>1, <3>3 DEF Record, Send
    <3>7. Reads
      BY <3>4, <3>5, <3>6, AppendsRead DEF Usual
    <3>8. pc' = "final" /\ turn' = turn
      BY <2>1 DEF Record, Send
    <3> QED
      BY <3>7, <3>8, ElsewhereNarrating, SameOnOffer DEF CouplingInv
  <2> QED
    BY <1>2, <1>14, <2>1 DEF Answer
<1>15. CASE Complete
  BY <1>1, <1>15, FinishReads DEF Complete, CouplingInv
<1> QED
  BY <1>5, <1>6, <1>7, <1>8, <1>9, <1>10, <1>11, <1>12, <1>13, <1>14, <1>15
  DEF StopStep

\* A batch is announced: what is said beside it, and its calls.
LEMMA BatchTakenCouple ==
  ASSUME "service" \notin Offers, Strong, CouplingInv,
         NarrativeSuppressed \/ TakeBatch \/ Narrate \/ Collect \/ Collected
  PROVE  Reads /\ OnOffer' /\ Narrating'
<1>1. /\ pc \notin {"idle", "finishing"} /\ io = "none" /\ turn \in Turns
      /\ turn.requests \in Nat /\ turn.at \in Nat /\ turn.batch \in Seq(Kinds)
      /\ active.run \in Runs
  <2>1. pc \notin {"idle", "finishing"} /\ io = "none"
    BY DEF NarrativeSuppressed, TakeBatch, Narrate, Collect, Collected, Called, At
  <2> QED
    BY <2>1, Owned DEF Strong, Inv, TypeOK, Turns
<1>2. FinishFromError => Reads /\ OnOffer' /\ Narrating'
  BY <1>1, FinishReads DEF CouplingInv
<1>3. CASE NarrativeSuppressed
  <2>1. PICK tag \in Tags :
           Send(RunEvent("model.output.rejected", turn.requests, tag), "batch")
    BY <1>3 DEF NarrativeSuppressed, Tags
  <2>2. Reads
    BY <1>1, <2>1, SentReads DEF EventTypes, Ordinary, Special
  <2>3. pc' = "batch" /\ turn'.batch = turn.batch /\ turn'.text = "empty"
    BY <1>1, <1>3 DEF NarrativeSuppressed, Send, Turns
  <2> QED
    BY <2>2, <2>3, SameOnOffer DEF CouplingInv, Narrating
<1>4. CASE TakeBatch
  <2>1. CASE ~FinishFromError
    <3>1. PICK l \in {"narrate", "collect"} :
             Goto(l) /\ (l = "narrate" <=> turn.text = "chinese")
      BY <1>4, <2>1 DEF TakeBatch
    <3>2. turn'.batch = turn.batch
      BY <1>1, <1>4, <2>1 DEF TakeBatch, Turns
    <3>3. Narrating'
      <4>1. SUFFICES ASSUME l = "narrate", Followed'
                     PROVE  disk'.round.rejected = "none"
        BY <3>1 DEF Goto, Narrating
      <4>2. pc = "completed"
        BY <1>4, <3>1, <4>1 DEF CouplingInv, Narrating, TakeBatch, Called, At
      <4>3. disk' = disk /\ disk.valid /\ RoundFollows
        BY <1>1, <3>1, <4>1, GotoFollows
      <4> QED
        BY <4>2, <4>3, NoRoundFields DEF RoundFollows
    <3> QED
      BY <3>1, <3>2, <3>3, GotoReads, SameOnOffer DEF CouplingInv
  <2> QED
    BY <1>2, <2>1
<1>5. CASE Narrate
  <2>1. CASE Record("assistant.message", 0, "intermediate", "collect")
    <3>1. /\ "intermediate" \in Tags /\ "assistant.message" \in EventTypes
          /\ "assistant.message" # "tool.requested"
          /\ "assistant.message" # "tool.result"
      BY DEF Tags, EventTypes, Ordinary
    <3>2. PICK e : e = RunEvent("assistant.message", 0, "intermediate")
      OBVIOUS
    <3>3. e \in Events
      BY <1>1, <3>1, <3>2, RunEventType
    <3>4. e.type = "assistant.message"
      BY <3>2 DEF RunEvent, Event
    <3>5. PICK result \in Outcomes : Appends(e, result)
      BY <2>1, <3>2 DEF Record, Send
    <3>6. disk.valid => disk.round.rejected = "none"
      BY <1>1, <1>5 DEF Narrate, At, CouplingInv, Narrating, Followed, Running
    <3>7. Reads
      BY <3>3, <3>4, <3>5, <3>6, AppendsRead DEF Usual
    <3>8. pc' = "collect" /\ turn' = turn
      BY <2>1 DEF Record, Send
    <3> QED
      BY <3>7, <3>8, ElsewhereNarrating, SameOnOffer DEF CouplingInv
  <2> QED
    BY <1>2, <1>5, <2>1 DEF Narrate
<1>6. CASE Collect
  <2>1. turn.at + 1 \in DOMAIN turn.batch /\ turn.at + 1 \in Nat
    BY <1>1, <1>6 DEF Collect
  <2>2. PICK kind : kind = turn.batch[turn.at + 1]
    OBVIOUS
  <2>3. kind \in Offers /\ kind \in Kinds
    BY <1>1, <2>1, <2>2 DEF CouplingInv, OnOffer
  <2>4. kind # "service"
    BY <2>3
  <2>5. kind \in Tags /\ "tool.requested" \in EventTypes
    BY <2>3 DEF Tags, EventTypes, Ordinary
  <2>6. PICK e : e = RunEvent("tool.requested", turn.at + 1, kind)
    OBVIOUS
  <2>7. e \in Events
    BY <1>1, <2>1, <2>3, <2>5, <2>6, RunEventType
  <2>8. e.type = "tool.requested" /\ e.tag = kind
    BY <2>6 DEF RunEvent, Event
  <2>9. PICK result \in Outcomes : Appends(e, result)
    BY <1>6, <2>2, <2>6 DEF Collect, Send
  <2>10. Reads
    BY <2>4, <2>7, <2>8, <2>9, AppendsRead DEF Usual
  <2>11. pc' = "collect" /\ turn'.batch = turn.batch
    BY <1>1, <1>6 DEF Collect, Send, Turns
  <2> QED
    BY <2>10, <2>11, ElsewhereNarrating, SameOnOffer DEF CouplingInv
<1>7. CASE Collected
  <2>1. Goto("dispatch") /\ pc' = "dispatch" /\ turn'.batch = turn.batch
    BY <1>1, <1>7 DEF Collected, Goto, Turns
  <2> QED
    BY <2>1, GotoReads, ElsewhereNarrating, SameOnOffer DEF CouplingInv
<1> QED
  BY <1>3, <1>4, <1>5, <1>6, <1>7

\* The current call, and the rest of the steps of a batch.
LEMMA CallStepCouple ==
  ASSUME Strong, CouplingInv, BatchStep,
         ~(NarrativeSuppressed \/ TakeBatch \/ Narrate \/ Collect \/ Collected)
  PROVE  Reads /\ OnOffer' /\ Narrating'
<1>1. /\ pc \notin {"idle", "finishing"} /\ io = "none" /\ turn \in Turns
      /\ turn.at \in Nat
  <2>1. pc \notin {"idle", "finishing"} /\ io = "none"
    BY DEF BatchStep, CallsInsteadOfText, NarrativeSuppressed, TakeBatch,
       Narrate, Collect, CallsRepeatIdentifier, Collected, DispatchAborted,
       DispatchDirect, DispatchSkipped, DispatchWithoutParent, Denied,
       Authorized, ApprovalRequired, Asking, ApprovalAnswered, ToolStarts,
       ToolReturns, ToolAborted, Recorded, GivenUp, Settle, Called, Runnable,
       Prepared, At
  <2> QED
    BY <2>1 DEF Strong, Inv, TypeOK, Turns
<1>2. FinishFromError => Reads /\ OnOffer' /\ Narrating'
  BY <1>1, FinishReads DEF CouplingInv
<1>3. Leave => Reads /\ OnOffer' /\ Narrating'
  BY LeaveReads DEF Leave
<1>4. ASSUME NEW l, l \notin {"batch", "narrate"}, Goto(l),
             turn'.batch = turn.batch
      PROVE  Reads /\ OnOffer' /\ Narrating'
  BY <1>4, GotoReads, ElsewhereNarrating, SameOnOffer DEF CouplingInv, Goto
<1>5. ASSUME NEW type \in {"approval.required", "approval.resolved",
                           "tool.started"},
             NEW tag \in Tags, NEW l, l \notin {"batch", "narrate"},
             Send(RunEvent(type, turn.at, tag), l), turn' = turn
      PROVE  Reads /\ OnOffer' /\ Narrating'
  <2>1. type \in EventTypes \ Special /\ type # "tool.result"
    BY DEF EventTypes, Ordinary, Special
  <2>2. Reads
    BY <1>1, <1>5, <2>1, SentReads
  <2>3. pc' = l
    BY <1>5 DEF Send
  <2> QED
    BY <1>5, <2>2, <2>3, ElsewhereNarrating, SameOnOffer DEF CouplingInv
<1>6. ASSUME NEW code \in Codes, NEW invoked, Result(code, invoked)
      PROVE  Reads /\ OnOffer' /\ Narrating'
  <2>1. /\ "tool.result" \in EventTypes \ Special /\ code \in Tags
    BY DEF EventTypes, Ordinary, Special, Tags
  <2>2. Reads
    BY <1>1, <1>6, <2>1, SentReads DEF Result
  <2>3. pc' = "recording" /\ turn'.batch = turn.batch
    BY <1>1, <1>6 DEF Result, Send, Turns
  <2> QED
    BY <2>2, <2>3, ElsewhereNarrating, SameOnOffer DEF CouplingInv
<1>7. CASE CallsInsteadOfText \/ CallsRepeatIdentifier \/ DispatchAborted
           \/ ToolAborted \/ GivenUp
  BY <1>2, <1>7 DEF CallsInsteadOfText, CallsRepeatIdentifier, DispatchAborted,
     ToolAborted, GivenUp
<1>8. CASE DispatchDirect \/ DispatchSkipped \/ DispatchWithoutParent \/ Denied
  BY <1>6, <1>8 DEF DispatchDirect, DispatchSkipped, DispatchWithoutParent,
     Denied, Codes
<1>9. CASE Authorized
  BY <1>4, <1>9 DEF Authorized, Continue
<1>10. CASE ApprovalRequired
  <2>1. "" \in Tags
    BY DEF Tags
  <2>2. PICK tag \in Tags :
           Send(RunEvent("approval.required", turn.at, tag), "asking")
    BY <1>10, <2>1 DEF ApprovalRequired, Record
  <2>3. turn' = turn
    BY <1>10 DEF ApprovalRequired, Record
  <2> QED
    BY <1>5, <2>2, <2>3
<1>11. CASE Asking
  <2>1. CASE Record("approval.resolved", turn.at, "approved", "granted")
    <3>1. PICK tag \in Tags :
             Send(RunEvent("approval.resolved", turn.at, tag), "granted")
      BY <2>1 DEF Record, Tags
    <3>2. turn' = turn
      BY <2>1 DEF Record
    <3> QED
      BY <1>5, <3>1, <3>2
  <2>2. CASE Goto("approval_wait") /\ turn' = turn
    BY <1>4, <2>2
  <2> QED
    BY <1>11, <2>1, <2>2 DEF Asking
<1>12. CASE ApprovalAnswered
  <2>1. CASE Goto("granted") /\ turn' = turn
    BY <1>4, <2>1
  <2>2. CASE Result("rejected", TRUE)
    BY <1>6, <2>2 DEF Codes
  <2> QED
    BY <1>2, <1>3, <1>12, <2>1, <2>2 DEF ApprovalAnswered
<1>13. CASE ToolStarts
  <2>1. CASE Record("tool.started", turn.at, "", "tool")
    <3>1. "" \in Tags
      BY DEF Tags
    <3>2. PICK tag \in Tags :
             Send(RunEvent("tool.started", turn.at, tag), "tool")
      BY <2>1, <3>1 DEF Record
    <3>3. turn' = turn
      BY <2>1 DEF Record
    <3> QED
      BY <1>5, <3>2, <3>3
  <2> QED
    BY <1>2, <1>13, <2>1 DEF ToolStarts
<1>14. CASE ToolReturns
  BY <1>6, <1>14 DEF ToolReturns, Codes
<1>15. CASE Recorded
  <2>1. turn' = turn
    BY <1>15 DEF Recorded
  <2>2. CASE Goto("settle")
    BY <1>4, <2>1, <2>2
  <2>3. ASSUME NEW l \in {"settle", "hopeless"},
               Send(RunEvent("validation.repair.warning", 0, ""), l)
        PROVE  Reads /\ OnOffer' /\ Narrating'
    <3>1. PICK tag \in Tags :
             Send(RunEvent("validation.repair.warning", 0, tag), l)
      BY <2>3 DEF Tags
    <3>2. PICK e : e = RunEvent("validation.repair.warning", 0, tag)
      OBVIOUS
    <3>3. /\ "validation.repair.warning" \in EventTypes
          /\ "validation.repair.warning" # "tool.requested"
          /\ "validation.repair.warning" # "tool.result"
          /\ active.run \in Runs
      BY <1>1, Owned DEF EventTypes, Ordinary, Strong, Inv
    <3>4. e \in Events
      BY <3>2, <3>3, RunEventType
    <3>5. e.type = "validation.repair.warning"
      BY <3>2 DEF RunEvent, Event
    <3>6. PICK result \in Outcomes : Appends(e, result)
      BY <3>1, <3>2 DEF Send
    <3>7. disk.valid => disk.round.finish = "tool_calls"
      BY <1>1, <1>15 DEF Recorded, At, Strong, HandlerInv, FileFollows, Followed,
         Running, RoundFollows, AtCall, BatchFollows
    <3>8. Reads
      BY <3>4, <3>5, <3>6, <3>7, AppendsRead DEF Usual
    <3>9. pc' = l
      BY <2>3 DEF Send
    <3> QED
      BY <2>1, <3>8, <3>9, ElsewhereNarrating, SameOnOffer DEF CouplingInv
  <2> QED
    BY <1>15, <2>2, <2>3 DEF Recorded
<1>16. CASE Settle
  <2>1. CASE NextCall
    <3>1. PICK l \in {"dispatch", "loop"} : Goto(l)
      BY <2>1 DEF NextCall
    <3>2. turn'.batch = turn.batch
      BY <1>1, <2>1 DEF NextCall, Turns
    <3> QED
      BY <1>4, <3>1, <3>2
  <2> QED
    BY <1>2, <1>16, <2>1 DEF Settle
<1> QED
  BY <1>7, <1>8, <1>9, <1>10, <1>11, <1>12, <1>13, <1>14, <1>15, <1>16
  DEF BatchStep

\* The callers who answer.
LEMMA DecisionStepCouple ==
  ASSUME Strong, CouplingInv, DecisionStep
  PROVE  Reads /\ OnOffer' /\ Narrating'
<1>1. Waiting /\ Ownership /\ turn.at \in Nat
  BY DEF Strong, HandlerInv, Inv, TypeOK, Turns
<1>2. pc' = pc /\ io' = io /\ turn' = turn
  BY DEF DecisionStep, DecideApproval, DecidePlan, DecisionReturns, DecisionFails
<1>3. OnOffer'
  BY <1>2, SameOnOffer DEF CouplingInv
<1>4. ASSUME UNCHANGED durable PROVE Reads /\ Narrating'
  <2>1. Followed' => Followed
    BY <1>2, <1>4 DEF Followed, Running, durable
  <2> QED
    BY <1>2, <1>4, <2>1, SameNarrating DEF Reads, CouplingInv, durable
<1>5. ASSUME NEW type \in {"approval.resolved", "plan.approval.resolved"},
             NEW n \in Nat, NEW tag \in {"approved", "rejected"}, NEW result,
             Appends(RunEvent(type, n, tag), result), active.run # NoRun,
             pc \notin {"batch", "narrate"}
      PROVE  Reads /\ Narrating'
  <2>1. active.run \in Runs
    BY <1>5 DEF Strong, Inv, TypeOK, Actives
  <2>2. PICK e : e = RunEvent(type, n, tag)
    OBVIOUS
  <2>3. type \in EventTypes \ Special /\ type # "tool.result" /\ tag \in Tags
    BY DEF EventTypes, Ordinary, Special, Tags, Codes
  <2>4. e \in Events
    BY <2>1, <2>2, <2>3, RunEventType DEF Special
  <2>5. e.type = type
    BY <2>2 DEF RunEvent, Event
  <2> QED
    BY <1>2, <1>5, <2>2, <2>3, <2>4, <2>5, AppendsRead, UsualEvents,
       ElsewhereNarrating
<1>6. ASSUME NEW d \in Deciders, NEW yes \in BOOLEAN,
             DecideApproval(d, yes) \/ DecidePlan(d, yes)
      PROVE  Reads /\ Narrating'
  <2>1. active.run # NoRun /\ pc \notin {"batch", "narrate"}
    BY <1>1, <1>6 DEF DecideApproval, DecidePlan, Deciding, Waiting
  <2>2. AnswerTag(yes) \in {"approved", "rejected"}
    BY DEF AnswerTag
  <2> QED
    BY <1>1, <1>5, <1>6, <2>1, <2>2
    DEF DecideApproval, DecidePlan, DecisionAppended
<1>7. ASSUME NEW d \in Deciders, DecisionReturns(d) \/ DecisionFails(d)
      PROVE  Reads /\ Narrating'
  BY <1>4, <1>7 DEF DecisionReturns, DecisionFails
<1> QED
  BY <1>3, <1>6, <1>7 DEF DecisionStep

\* A recovery and the start of a run.
LEMMA OutsideCouple ==
  ASSUME Strong, CouplingInv, Recover \/ RunStarts
  PROVE  Reads /\ OnOffer' /\ Narrating'
<1>1. Synced /\ TypeOK /\ Ownership
  BY DEF Strong, HandlerInv, Inv
<1>2. CASE Recover
  <2>1. "" \in Tags
    BY DEF Tags
  <2>2. PICK tag \in Tags : Write(Event("run.interrupted", disk.run, 0, tag))
    BY <1>2, <2>1 DEF Recover
  <2>3. PICK e : e = Event("run.interrupted", disk.run, 0, tag)
    OBVIOUS
  <2>4. disk.run \in Runs /\ pc = "idle" /\ pc' = pc /\ turn' = turn
    BY <1>1, <1>2 DEF Recover, OpenRuns, Ownership
  <2>5. e \in Events
    BY <2>3, <2>4, EventType DEF EventTypes, Terminal
  <2>6. e.type = "run.interrupted"
    BY <2>3 DEF Event
  <2>7. Usual(disk, e)
    BY <2>6, UsualEvents DEF Special
  <2> QED
    BY <2>2, <2>3, <2>4, <2>5, <2>7, ElsewhereNarrating, SameOnOffer
    DEF Reads, CouplingInv
<1>3. CASE RunStarts
  <2>1. PICK r \in Runs, tag \in {"planning", "normal"} :
           /\ Send(Event("run.started", r, 0, tag), "starting")
           /\ turn' = turn
    BY <1>3 DEF RunStarts, StartRunOf
  <2>2. PICK e : e = Event("run.started", r, 0, tag)
    OBVIOUS
  <2>3. tag \in Tags
    BY DEF Tags
  <2>4. e \in Events
    BY <2>2, <2>3, EventType DEF EventTypes
  <2>5. e.type = "run.started"
    BY <2>2 DEF Event
  <2>6. PICK result \in Outcomes : Appends(e, result)
    BY <2>1, <2>2 DEF Send
  <2>7. Reads
    BY <2>4, <2>5, <2>6, AppendsRead, UsualEvents DEF Special
  <2>8. pc' = "starting"
    BY <2>1 DEF Send
  <2> QED
    BY <2>1, <2>7, <2>8, ElsewhereNarrating, SameOnOffer DEF CouplingInv
<1> QED
  BY <1>2, <1>3

LEMMA CouplingNext ==
  ASSUME "service" \notin Offers, Strong, CouplingInv, [Next]_vars
  PROVE  CouplingInv'
<1>1. Reads /\ OnOffer' /\ Narrating'
  <2>1. CASE RunStep
    <3>1. CASE Ended \/ ModelStep \/ StopStep \/ AppendReturns
      BY <3>1, LeaveReads, ModelStepCouple, StopStepCouple, AppendReturnsCouple
      DEF Ended, Leave
    <3>2. CASE BatchStep
      BY <3>2, BatchTakenCouple, CallStepCouple
    <3> QED
      BY <2>1, <3>1, <3>2 DEF RunStep
  <2>2. CASE AbortStep \/ UNCHANGED vars
    <3>1. UNCHANGED <<durable, pc, io, turn>>
      BY <2>2 DEF AbortStep, Abort, vars, durable
    <3> QED
      BY <3>1, SameNarrating, SameOnOffer
      DEF CouplingInv, Reads, durable, Followed, Running
  <2>3. CASE Crash
    BY <2>3, LeaveReads DEF Crash
  <2> QED
    BY <2>1, <2>2, <2>3, OutsideCouple, DecisionStepCouple DEF Next
<1> QED
  BY <1>1, ReadsCouple DEF CouplingInv, Strong, Inv

LEMMA CouplingInit == Init => CouplingInv
<1> SUFFICES ASSUME Init PROVE CouplingInv
  OBVIOUS
<1>1. disk = EmptyHistory /\ ctx = EmptyContext /\ turn = NoTurn /\ pc = "idle"
  BY DEF Init
<1>2. OnOffer /\ Narrating
  BY <1>1 DEF OnOffer, Narrating, NoTurn
<1>3. CoupledRun(EmptyHistory, EmptyContext)
  BY EmptyFields, EmptyContextFields DEF CoupledRun
<1>4. /\ CoupledRound(EmptyHistory, EmptyContext)
      /\ CoupledCalls(EmptyHistory, EmptyContext)
  BY EmptyFields, EmptyContextFields, FreshCoupled DEF NoRound
<1> QED
  BY <1>1, <1>2, <1>3, <1>4 DEF CouplingInv, Coupling, Coupled

\* Between its appends the run has what the file has.
LEMMA RunAgrees ==
  ASSUME Strong, io = "none", synced, active.run # NoRun, ~active.ending
  PROVE  /\ disk.run = active.run
         /\ pc # "requesting" => disk.iterations = turn.requests
         /\ pc \notin {"proposing", "plan_wait"} => disk.phase = active.phase
         /\ pc \in {"dispatch", "asking", "approval_wait", "granted", "tool"} =>
                IsCurrentTool(disk.round, turn.at)
<1>1. Ownership /\ Synced /\ FileFollows
  BY DEF Strong, Inv, HandlerInv
<1>2. Followed
  BY <1>1 DEF Ownership, Synced, Followed, Running
<1>3. Counters /\ PhaseFollows
  BY <1>1, <1>2 DEF FileFollows
<1>4. ASSUME pc \in {"dispatch", "asking", "approval_wait", "granted", "tool"}
      PROVE  IsCurrentTool(disk.round, turn.at)
  <2>1. PICK tools : tools = disk.round.tools
    OBVIOUS
  <2>2. /\ CallFollows(tools[turn.at]) /\ BatchFollows
        /\ turn.at \in DOMAIN tools /\ tools \in Seq(Tools)
    BY <1>2, <1>4, <2>1, CallTyped DEF Calling, AtCall, Followed
  <2>3. tools[turn.at].result = "none"
    BY <1>4, <2>2 DEF CallFollows, Fresh
  <2>4. \A i \in DOMAIN tools : tools[i].result = "none" => ~(i < turn.at)
    BY <2>1, <2>2 DEF BatchFollows
  <2>5. \A i \in DOMAIN tools : tools[i].result = "none" => turn.at <= i
    BY <2>2, <2>4
  <2> QED
    BY <2>1, <2>2, <2>3, <2>5 DEF IsCurrentTool, Unresolved
<1> QED
  BY <1>3, <1>4 DEF Counters, PhaseFollows

\* The context provider can read whatever file the projection of the session
\* can read, and the run knows what both know: in every interleaving, for any
\* number of runs and callers, as long as no service is on offer, whose
\* correction leaves two stops in a row (decideServiceFinal,
\* history-projector.ts).
THEOREM ReadersAlwaysAgree ==
  ASSUME "service" \notin Offers
  PROVE  Spec => []ReadersAgree
<1>1. Init => CouplingInv
  BY CouplingInit
<1>2. Strong /\ CouplingInv /\ [Next]_vars => CouplingInv'
  BY CouplingNext
<1>3. Strong /\ CouplingInv => ReadersAgree
  <2>1. CouplingInv => (disk.valid => ctx.readable)
    BY DEF CouplingInv, Coupling, Coupled, CoupledRun
  <2> QED
    BY <2>1, RunAgrees DEF ReadersAgree
<1> QED
  BY <1>1, <1>2, <1>3, HandlerInvariance, Invariance, PTL DEF Strong, Spec

-----------------------------------------------------------------------------
(* The file can be read.                                                   *)

\* The divergences between the run and the projection of its file that the
\* code has, kept out: each line names one.
Undiverted ==
    /\ "service" \notin Offers
    /\ "stop" \notin CompactsAfter
    /\ "check" \in Offers /\ "tool_calls" \in CompactsAfter =>
         MaxBatch <= MaxToolErrors
    /\ TRUE \in PlanningModes =>
         /\ "malformed" \notin Offers /\ "committed" \notin StoreFailures
         /\ \A c, d \in Deciders : c = d

\* What the handler remembers.
Remembered ==
    /\ Len(turn.batch) <= MaxBatch
    /\ facts.service = "none"
    /\ active.phase # "normal" => TRUE \in PlanningModes
    /\ pc = "granted" /\ Planned => IsPlanningTool(Kind)
    /\ pc \in {"narrate", "collect"} => ~turn.failedCheck
    /\ AtCall /\ turn.failedCheck => turn.at >= 2
    /\ facts.errs < MaxToolErrors /\ facts.sig.code # "skipped"

\* The errors in a row: the file has counted no more of them than the run,
\* or the last ones were skipped checks, which the run does not count.
Counted(sig, errs) ==
    disk.errs = 0 \/ (disk.sig = sig /\ disk.errs <= errs)
Skipping(n) ==
    "check" \in Offers /\ disk.sig.code = "skipped" /\ disk.errs <= n

Over == {"recording", "settle", "hopeless"}
Skips == AtCall /\ turn.failedCheck
SkipBound == IF Skips THEN turn.at - 2 ELSE MaxBatch - 1

StreakFollows ==
    /\ turn.finish = "none" => disk.errs = 0
    /\ pc \in Over /\ turn.code = "skipped" => Skipping(turn.at - 1)
    /\ pc \in Over /\ turn.code # "skipped" =>
         LET streak == Streak(facts.sig, facts.errs, Kind, turn.code) IN
         Counted(streak.sig, streak.errs)
    /\ pc \notin Over => Counted(facts.sig, facts.errs) \/ Skipping(SkipBound)
ErrorsFollow == Followed => StreakFollows

\* The projection refuses nothing.  The handler may still miss an append: the
\* answer to an approval, of which it then hears by an error.
InStep ==
    /\ io = "history_error" => pc = "finishing"
    /\ Running /\ pc # "approval_wait" => synced
    /\ pc = "approval_wait" /\ ~synced =>
         /\ active.wait \notin {"approved", "rejected"} /\ active.ask # "open"
         /\ \A d \in Deciders :
               Answering(d, "approval") => dec[d].io # "delivering"

\* A plan that is open in memory is open in the file.
Decidable ==
    /\ pc = "proposing" /\ Followed => disk.plan = "proposed"
    /\ (/\ pc = "plan_wait" /\ active.plan = "open"
        /\ \A d \in Deciders :
              Answering(d, "plan") => dec[d].io # "delivering")
         => disk.phase = "awaiting" /\ disk.plan = "proposed"

Replay == disk.valid /\ ErrorsFollow /\ InStep /\ Decidable

-----------------------------------------------------------------------------
(* What the handler remembers, step by step.                               *)

\* Steps that remember no more.
LEMMA SameRemembered ==
  ASSUME Remembered, turn' = turn, active'.phase = active.phase,
         facts'.service = facts.service, facts'.errs = facts.errs,
         facts'.sig = facts.sig,
         pc' = "granted" /\ pc # "granted" =>
             (Planned => IsPlanningTool(Kind)),
         pc' \in {"narrate", "collect"} => pc \in {"narrate", "collect"},
         AtCall' => AtCall
  PROVE  Remembered'
<1>1. Kind' = Kind /\ Planned' = Planned
  BY DEF Kind, Planned
<1> QED
  BY <1>1 DEF Remembered

LEMMA FinishRemembered ==
  ASSUME Strong, Remembered,
         FinishFromError \/ FinishAs("run.completed") \/ FinishAs("run.cancelled")
  PROVE  Remembered'
<1>1. pc' = "finishing" /\ turn' = turn /\ facts' = facts
  BY DEF FinishFromError, FinishAs, Send
<1>2. active'.phase = active.phase
  BY DEF FinishFromError, FinishAs, Strong, Inv, TypeOK, Actives
<1> QED
  BY <1>1, <1>2, SameRemembered DEF AtCall

LEMMA ForgetRemembered ==
  ASSUME Forget
  PROVE  Remembered'
<1>1. turn' = NoTurn /\ facts' = NoFacts /\ active' = NoActive /\ pc' = "idle"
  BY DEF Forget
<1>2. MaxToolErrors \in Nat \ {0} /\ MaxBatch \in Nat
  BY MaxToolErrorsAssumption, ConstantsAssumption
<1> QED
  BY <1>1, <1>2 DEF Remembered, NoTurn, NoFacts, NoActive, NoSignature, AtCall

LEMMA TouchedRemembered ==
  ASSUME Remembered, Touched
  PROVE  Remembered'
  BY SameRemembered DEF Touched, AtCall

LEMMA RestatedFields ==
  ASSUME facts \in Facts
  PROVE  /\ Restated \in Facts /\ Restated.service = facts.service
         /\ Restated.errs = facts.errs /\ Restated.sig = facts.sig
  BY DEF Restated, Facts

LEMMA ModelStepRemembered ==
  ASSUME Strong, Remembered, ModelStep
  PROVE  Remembered'
<1>1. turn \in Turns /\ facts \in Facts /\ active \in Actives
  BY DEF Strong, Inv, TypeOK
<1>2. FinishFromError => Remembered'
  BY FinishRemembered
<1>3. ASSUME NEW type, NEW n, NEW tag,
             NEW l \in {"loop", "requesting", "compacted"},
             Record(type, n, tag, l)
      PROVE  Remembered'
  BY <1>3, SameRemembered DEF Record, Send, AtCall
<1>4. CASE Goal
  BY <1>2, <1>3, <1>4 DEF Goal
<1>5. CASE Loop
  BY <1>2, <1>5, SameRemembered DEF Loop, Continue, Goto, AtCall
<1>6. CASE ContextBuilt \/ Compacted
  BY <1>2, <1>3, <1>6 DEF ContextBuilt, Compacted, RequestTheModel
<1>7. CASE ContextFailed \/ ModelFailed
  BY <1>2, <1>7 DEF ContextFailed, ModelFailed
<1>8. CASE Requested
  <2>1. pc' = "model" /\ turn'.batch = turn.batch /\ facts' = facts
        /\ active' = active
    BY <1>1, <1>8 DEF Requested, Goto, Turns
  <2> QED
    BY <2>1 DEF Remembered, AtCall
<1>9. CASE ModelAnswers
  <2>1. PICK finish \in {"stop", "tool_calls"}, text \in Texts :
        \E batch \in IF finish = "stop" THEN {<< >>} ELSE Batches :
           turn' = [turn EXCEPT !.finish = finish, !.text = text,
                                !.batch = batch]
    BY <1>9 DEF ModelAnswers
  <2>2. PICK batch \in {<< >>} \cup Batches :
           turn' = [turn EXCEPT !.finish = finish, !.text = text,
                                !.batch = batch]
    BY <2>1
  <2>3. pc' = "completed" /\ facts' = facts /\ active' = active
    BY <1>9 DEF ModelAnswers, Send
  <2>4. Len(batch) <= MaxBatch
    <3>1. CASE batch = << >>
      BY <3>1, ConstantsAssumption
    <3>2. ASSUME NEW n \in 0..MaxBatch, batch \in [1..n -> Offers]
          PROVE  Len(batch) <= MaxBatch
      BY <3>2, ConstantsAssumption
    <3> QED
      BY <2>2, <3>1, <3>2 DEF Batches
  <2>5. turn'.batch = batch
    BY <1>1, <2>2 DEF Turns
  <2> QED
    BY <2>3, <2>4, <2>5 DEF Remembered, AtCall
<1>10. CASE LiveDeltaLost
  <2>1. active' = SinkThrows(active) /\ UNCHANGED <<pc, turn, facts>>
    BY <1>10 DEF LiveDeltaLost
  <2>2. active'.phase = active.phase
    BY <1>1, <2>1, SinkThrowsTouches
  <2> QED
    BY <2>1, <2>2, SameRemembered DEF AtCall
<1> QED
  BY <1>4, <1>5, <1>6, <1>7, <1>8, <1>9, <1>10 DEF ModelStep

LEMMA StopStepRemembered ==
  ASSUME Strong, Remembered, StopStep
  PROVE  Remembered'
<1>1. turn \in Turns /\ facts \in Facts /\ active \in Actives
  BY DEF Strong, Inv, TypeOK
<1>2. FinishFromError \/ FinishAs("run.cancelled") => Remembered'
  BY FinishRemembered
<1>3. ASSUME NEW l \in {"restate", "loop", "proposing", "answer", "final"},
             pc' = l, turn' = turn, active'.phase = active.phase,
             facts'.service = facts.service, facts'.errs = facts.errs,
             facts'.sig = facts.sig
      PROVE  Remembered'
  BY <1>3, SameRemembered DEF AtCall
<1>4. CASE StopRejected
  <2>1. pc' = "restate" /\ turn' = turn /\ active' = active
    BY <1>4 DEF StopRejected, Send
  <2>2. /\ facts'.service = facts.service /\ facts'.errs = facts.errs
        /\ facts'.sig = facts.sig
    BY <1>1, <1>4 DEF StopRejected, Facts
  <2> QED
    BY <1>3, <2>1, <2>2
<1>5. CASE Restate
  BY <1>2, <1>3, <1>5 DEF Restate, Continue, Goto
<1>6. CASE ProposePlan
  <2>1. CASE ~FinishFromError
    <3>1. pc' = "proposing" /\ turn' = turn /\ facts' = Restated
      BY <1>6, <2>1 DEF ProposePlan, Send
    <3>2. active'.phase = active.phase
      BY <1>1, <1>6, <2>1 DEF ProposePlan, Actives
    <3> QED
      BY <1>1, <1>3, <3>1, <3>2, RestatedFields
  <2> QED
    BY <1>2, <2>1
<1>7. CASE PlanProposed
  <2>1. /\ pc' = "plan_wait" /\ turn' = turn /\ facts' = facts
        /\ active.phase = "planning"
    BY <1>7 DEF PlanProposed, Goto, At, Strong, HandlerInv, Waiting
  <2>2. Remembered => TRUE \in PlanningModes
    BY <2>1 DEF Remembered
  <2> QED
    BY <2>1, <2>2 DEF Remembered, AtCall
<1>8. CASE PlanAnswered
  <2>1. CASE Goto("loop") /\ active' = [active EXCEPT !.wait = "none"]
             /\ UNCHANGED <<turn, facts>>
    <3>1. active'.phase = active.phase /\ pc' = "loop"
      BY <1>1, <2>1 DEF Actives, Goto
    <3> QED
      BY <1>3, <2>1, <3>1
  <2> QED
    BY <1>2, <1>8, <2>1 DEF PlanAnswered
<1>9. CASE StopWithMissingParent
  <2>1. CASE ~FinishFromError
    <3>1. pc' = "loop" /\ turn' = turn /\ active' = active
      BY <1>9, <2>1 DEF StopWithMissingParent, Send
    <3>2. facts' = [Restated EXCEPT !.stops = Restated.stops + 1]
      BY <1>9, <2>1 DEF StopWithMissingParent
    <3>3. /\ facts'.service = facts.service /\ facts'.errs = facts.errs
          /\ facts'.sig = facts.sig
      BY <1>1, <3>2, RestatedFields DEF Facts
    <3> QED
      BY <1>3, <3>1, <3>3
  <2> QED
    BY <1>2, <2>1
<1>10. CASE StopUnverified
  <2>1. pc' = "loop" /\ turn' = turn /\ active' = active
    BY <1>10 DEF StopUnverified, Send
  <2>2. facts' = [Restated EXCEPT !.corrected = TRUE]
    BY <1>10 DEF StopUnverified
  <2>3. /\ facts'.service = facts.service /\ facts'.errs = facts.errs
        /\ facts'.sig = facts.sig
    BY <1>1, <2>2, RestatedFields DEF Facts
  <2> QED
    BY <1>3, <2>1, <2>3
<1>11. CASE StopWithoutService
  BY <1>11 DEF StopWithoutService, Remembered
<1>12. CASE StopAccepted
  <2>1. CASE ~FinishFromError
    <3>1. /\ pc' = "answer" /\ turn' = turn /\ active' = active
          /\ facts' = Restated
      BY <1>12, <2>1 DEF StopAccepted, Goto
    <3> QED
      BY <1>1, <1>3, <3>1, RestatedFields
  <2> QED
    BY <1>2, <2>1
<1>13. CASE Answer
  BY <1>2, <1>3, <1>13 DEF Answer, Record, Send
<1>14. CASE Complete
  BY <1>14, FinishRemembered DEF Complete
<1> QED
  BY <1>4, <1>5, <1>6, <1>7, <1>8, <1>9, <1>10, <1>11, <1>12, <1>13, <1>14
  DEF StopStep

\* What a call adds to it.
LEMMA FactsAfterRemember ==
  ASSUME facts \in Facts, NEW kind, kind # "service", NEW code,
         NEW after \in FactsAfter(kind, code)
  PROVE  /\ after.service = facts.service /\ after.errs = facts.errs
         /\ after.sig = facts.sig
<1>1. \/ after = facts
      \/ after = [facts EXCEPT !.unverified = TRUE]
      \/ after = [facts EXCEPT !.checkFailures = 0]
      \/ \E rest \in BOOLEAN :
            after = [facts EXCEPT !.checkFailures = 0, !.corrected = FALSE,
                                  !.unverified = rest]
      \/ after = [facts EXCEPT !.checkFailures = facts.checkFailures + 1]
  BY DEF FactsAfter
<1> QED
  BY <1>1 DEF Facts

LEMMA NextCallFields ==
  ASSUME turn \in Turns, NextCall
  PROVE  LET n == Len(turn.batch) IN
         /\ turn'.at = IF turn.at < n THEN turn.at + 1 ELSE 0
         /\ turn'.batch = turn.batch /\ turn'.finish = turn.finish
         /\ turn'.failedCheck = (turn.failedCheck \/
              (Kind = "check" /\ turn.invoked /\ turn.code # "ok"))
<1> DEFINE n == Len(turn.batch)
<1>1. turn.at \in Nat /\ turn.batch \in Seq(Kinds) /\ n \in Nat
  BY DEF Turns
<1>2. /\ turn'.at = IF turn.at < n THEN turn.at + 1 ELSE 0
      /\ turn'.batch = turn.batch /\ turn'.finish = turn.finish
  BY <1>1 DEF NextCall, Turns
<1> HIDE DEF n
<1>3. turn'.failedCheck = (turn.failedCheck \/
              (Kind = "check" /\ turn.invoked /\ turn.code # "ok"))
  BY <1>1 DEF NextCall, Turns
<1> QED
  BY <1>2, <1>3 DEF n

LEMMA BatchStepRemembered ==
  ASSUME "service" \notin Offers, Strong, CouplingInv, Remembered, BatchStep
  PROVE  Remembered'
<1>1. /\ turn \in Turns /\ facts \in Facts /\ active \in Actives
      /\ turn.at \in Nat
  BY DEF Strong, Inv, TypeOK, Turns
<1>2. FinishFromError => Remembered'
  BY FinishRemembered
<1>3. Leave => Remembered'
  BY ForgetRemembered DEF Leave
<1>4. CASE CallsInsteadOfText \/ CallsRepeatIdentifier \/ DispatchAborted
           \/ ToolAborted \/ GivenUp
  BY <1>2, <1>4 DEF CallsInsteadOfText, CallsRepeatIdentifier, DispatchAborted,
     ToolAborted, GivenUp
<1>5. CASE NarrativeSuppressed
  <2>1. pc' = "batch" /\ active' = active /\ facts' = facts
        /\ turn' = [turn EXCEPT !.text = "empty"]
    BY <1>5 DEF NarrativeSuppressed, Send
  <2>2. turn'.batch = turn.batch
    BY <1>1, <2>1 DEF Turns
  <2> QED
    BY <2>1, <2>2 DEF Remembered, AtCall
<1>6. CASE TakeBatch
  <2>1. CASE ~FinishFromError
    <3>1. PICK l \in {"narrate", "collect"} : Goto(l)
      BY <1>6, <2>1 DEF TakeBatch
    <3>2. /\ active' = active /\ facts' = facts
          /\ turn' = [turn EXCEPT !.at = 0, !.blocked = facts.missing,
                                  !.failedCheck = FALSE]
      BY <1>6, <2>1 DEF TakeBatch
    <3>3. turn'.batch = turn.batch /\ turn'.failedCheck = FALSE
      BY <1>1, <3>2 DEF Turns
    <3> QED
      BY <3>1, <3>2, <3>3 DEF Remembered, AtCall, Goto
  <2> QED
    BY <1>2, <2>1
<1>7. CASE Narrate
  BY <1>2, <1>7, SameRemembered DEF Narrate, Record, Send, At, AtCall
<1>8. CASE Collect \/ Collected
  <2>1. /\ pc = "collect" /\ pc' \in {"collect", "dispatch"}
        /\ active' = active /\ facts' = facts
    BY <1>8 DEF Collect, Collected, Send, Goto, At
  <2>2. turn'.batch = turn.batch /\ turn'.failedCheck = turn.failedCheck
    BY <1>1, <1>8 DEF Collect, Collected, Turns
  <2> QED
    BY <2>1, <2>2 DEF Remembered, AtCall
<1>9. ASSUME NEW code, NEW invoked, Result(code, invoked), AtCall,
             active'.phase = active.phase,
             facts'.service = facts.service, facts'.errs = facts.errs,
             facts'.sig = facts.sig
      PROVE  Remembered'
  <2>1. pc' = "recording" /\ turn' = [turn EXCEPT !.code = code,
                                                  !.invoked = invoked]
    BY <1>9 DEF Result, Send
  <2>2. /\ turn'.batch = turn.batch /\ turn'.failedCheck = turn.failedCheck
        /\ turn'.at = turn.at
    BY <1>1, <2>1 DEF Turns
  <2> QED
    BY <1>9, <2>1, <2>2 DEF Remembered, AtCall
<1>10. CASE DispatchDirect \/ DispatchSkipped \/ Denied
  <2>1. AtCall /\ active' = active /\ facts' = facts
    BY <1>10 DEF DispatchDirect, DispatchSkipped, Denied, Runnable, Prepared,
       At, AtCall
  <2> QED
    BY <1>9, <1>10, <2>1 DEF DispatchDirect, DispatchSkipped, Denied
<1>11. CASE DispatchWithoutParent
  <2>1. AtCall /\ active' = active /\ Result("parent_missing", TRUE)
    BY <1>11 DEF DispatchWithoutParent, Runnable, Prepared, At, AtCall
  <2>2. /\ facts'.service = facts.service /\ facts'.errs = facts.errs
        /\ facts'.sig = facts.sig
    BY <1>1, <1>11 DEF DispatchWithoutParent, Facts
  <2> QED
    BY <1>9, <2>1, <2>2
<1>12. CASE Authorized
  <2>1. /\ AtCall /\ active' = active /\ facts' = facts /\ turn' = turn
        /\ pc' = "granted" /\ (Planned => IsPlanningTool(Kind))
    BY <1>12 DEF Authorized, Continue, Goto, Runnable, Prepared, At, AtCall,
       PhaseDenied, Planned
  <2> QED
    BY <2>1, SameRemembered
<1>13. CASE ApprovalRequired
  <2>1. /\ AtCall /\ active' = active /\ facts' = facts /\ turn' = turn
        /\ pc' = "asking"
    BY <1>13 DEF ApprovalRequired, Record, Send, Runnable, Prepared, At, AtCall
  <2> QED
    BY <2>1, SameRemembered
<1>14. CASE Asking
  <2>1. /\ AtCall /\ facts' = facts /\ turn' = turn
        /\ pc' \in {"granted", "approval_wait"}
    BY <1>14 DEF Asking, Record, Send, Goto, At, AtCall
  <2>2. active'.phase = active.phase
    BY <1>1, <1>14 DEF Asking, Record, Actives
  <2>3. ~Planned
    BY <1>14 DEF Asking, At, Strong, HandlerInv, Waiting, Planned
  <2> QED
    BY <2>1, <2>2, <2>3, SameRemembered
<1>15. CASE ApprovalAnswered
  <2>1. AtCall /\ ~Planned
    BY <1>15 DEF ApprovalAnswered, At, AtCall, Strong, HandlerInv, Waiting,
       Planned
  <2>2. CASE active' = [active EXCEPT !.ask = "none", !.wait = "none"]
    <3>1. active'.phase = active.phase
      BY <1>1, <2>2 DEF Actives
    <3>2. CASE Goto("granted") /\ UNCHANGED <<turn, facts>>
      <4>1. pc' = "granted"
        BY <3>2 DEF Goto
      <4> QED
        BY <2>1, <3>1, <3>2, <4>1, SameRemembered
    <3>3. CASE Result("rejected", TRUE) /\ facts' = facts
      BY <1>9, <2>1, <3>1, <3>3
    <3> QED
      BY <1>2, <1>3, <1>15, <3>2, <3>3 DEF ApprovalAnswered
  <2> QED
    BY <1>2, <1>3, <1>15, <2>2 DEF ApprovalAnswered
<1>16. CASE ToolStarts
  <2>1. CASE Record("tool.started", turn.at, "", "tool")
    <3>1. /\ AtCall /\ active' = active /\ facts' = facts /\ turn' = turn
          /\ pc' = "tool"
      BY <1>16, <2>1 DEF ToolStarts, Record, Send, At, AtCall
    <3> QED
      BY <3>1, SameRemembered
  <2> QED
    BY <1>2, <1>16, <2>1 DEF ToolStarts
<1>17. CASE ToolReturns
  <2>1. PICK code \in {"ok", "error"} : Result(code, TRUE)
                                        /\ facts' \in ParentsSeen(Kind, code)
    BY <1>17 DEF ToolReturns
  <2>2. AtCall /\ active' = active
    BY <1>17 DEF ToolReturns, At, AtCall
  <2>3. /\ facts'.service = facts.service /\ facts'.errs = facts.errs
        /\ facts'.sig = facts.sig
    BY <1>1, <2>1 DEF ParentsSeen, Facts
  <2> QED
    BY <1>9, <2>1, <2>2, <2>3
<1>18. CASE Recorded
  <2>1. /\ AtCall /\ active' = active /\ turn' = turn
        /\ pc' \in {"settle", "hopeless"}
    BY <1>18 DEF Recorded, Send, Goto, At, AtCall
  <2>2. Kind # "service"
    BY <1>18 DEF Recorded, At, CouplingInv, OnOffer, Kind, Strong, Inv, CallInBatch
  <2>3. facts' = facts \/ facts' \in FactsAfter(Kind, turn.code)
    BY <1>18 DEF Recorded
  <2>4. /\ facts'.service = facts.service /\ facts'.errs = facts.errs
        /\ facts'.sig = facts.sig
    BY <1>1, <2>2, <2>3, FactsAfterRemember
  <2> QED
    BY <2>1, <2>4, SameRemembered DEF AtCall
<1>19. CASE Settle
  <2>1. ASSUME NextCall, active' = active, facts'.service = facts.service,
               facts'.errs < MaxToolErrors, facts'.sig.code # "skipped"
        PROVE  Remembered'
    <3>1. PICK l \in {"dispatch", "loop"} : Goto(l) /\
             (l = "dispatch" <=> turn.at < Len(turn.batch))
      BY <2>1 DEF NextCall
    <3>2. /\ turn'.batch = turn.batch
          /\ turn.at < Len(turn.batch) => turn'.at = turn.at + 1
      BY <1>1, <2>1, NextCallFields
    <3>4. turn.at >= 1
      <4>1. turn.at \in DOMAIN turn.batch
        BY <1>19 DEF Settle, At, Strong, Inv, CallInBatch
      <4>2. turn.batch \in Seq(Kinds)
        BY <1>1 DEF Turns
      <4> QED
        BY <4>1, <4>2
    <3>5. l = "dispatch" => turn'.at >= 2
      BY <1>1, <3>1, <3>2, <3>4
    <3> QED
      BY <2>1, <3>1, <3>2, <3>5 DEF Remembered, Goto, AtCall
  <2>2. CASE turn.code = "skipped"
    BY <1>19, <2>1, <2>2 DEF Settle, Remembered
  <2>3. CASE turn.code # "skipped" /\ ~FinishFromError
    <3>1. PICK streak : streak = Streak(facts.sig, facts.errs, Kind, turn.code)
      OBVIOUS
    <3>2. PICK reads \in ReadStreaks :
             /\ ~(streak.errs >= MaxToolErrors)
             /\ facts' = [facts EXCEPT !.sig = streak.sig, !.errs = streak.errs,
                                       !.reads = reads]
             /\ NextCall /\ active' = active
      BY <1>19, <2>3, <3>1 DEF Settle
    <3>3. streak.sig.code # "skipped"
      BY <2>3, <3>1 DEF Streak, NoSignature
    <3>4. streak.errs \in Nat
      BY <1>1, <3>1 DEF Streak, Facts
    <3>5. /\ facts'.service = facts.service /\ facts'.errs = streak.errs
          /\ facts'.sig = streak.sig
      BY <1>1, <3>2 DEF Facts
    <3>6. facts'.errs < MaxToolErrors
      BY <3>2, <3>4, <3>5, MaxToolErrorsAssumption
    <3> QED
      BY <2>1, <3>2, <3>3, <3>5, <3>6
  <2> QED
    BY <1>2, <2>2, <2>3
<1> QED
  BY <1>4, <1>5, <1>6, <1>7, <1>8, <1>10, <1>11, <1>12, <1>13, <1>14, <1>15,
     <1>16, <1>17, <1>18, <1>19 DEF BatchStep

LEMMA DecisionStepRemembered ==
  ASSUME Strong, Remembered, DecisionStep
  PROVE  Remembered'
<1>1. /\ active \in Actives /\ Answers /\ pc' = pc /\ turn' = turn
      /\ facts' = facts
  BY DEF Strong, Inv, TypeOK, HandlerInv, DecisionStep, DecideApproval,
     DecidePlan, DecisionReturns, DecisionFails
<1>2. ASSUME active'.phase = active.phase
      PROVE  Remembered'
  BY <1>1, <1>2, SameRemembered DEF AtCall
<1>3. ASSUME NEW d \in Deciders, NEW yes \in BOOLEAN,
             DecideApproval(d, yes) \/ DecidePlan(d, yes)
      PROVE  Remembered'
  <2>1. active'.phase = active.phase
    BY <1>1, <1>3 DEF DecideApproval, DecidePlan, Actives
  <2> QED
    BY <1>2, <2>1
<1>4. ASSUME NEW d \in Deciders, DecisionFails(d)
      PROVE  Remembered'
  <2>1. active'.phase = active.phase
    BY <1>1, <1>4 DEF DecisionFails, Settled, Actives
  <2> QED
    BY <1>2, <2>1
<1>5. ASSUME NEW d \in Deciders, DecisionReturns(d)
      PROVE  Remembered'
  <2>1. CASE active' = active
    BY <1>2, <2>1
  <2>2. CASE dec[d].run = active.run
    <3>1. PICK heard \in {active, SinkThrows(active)} :
             active' = DecisionTakesEffect(heard, dec[d])
      BY <1>5, <2>2 DEF DecisionReturns
    <3>2. heard.phase = active.phase /\ heard \in Actives
      <4>1. SinkThrows(active) \in Actives
        BY <1>1, SinkThrowsType
      <4> QED
        BY <1>1, <3>1, <4>1, SinkThrowsTouches
    <3>3. CASE dec[d].kind = "approval"
      <4>1. active'.phase = active.phase
        BY <3>1, <3>2, <3>3 DEF DecisionTakesEffect, Settled, Actives
      <4> QED
        BY <1>2, <4>1
    <3>4. CASE dec[d].kind # "approval"
      <4>1. active.phase \in {"awaiting", "executing"}
        <5>1. dec[d].io # "idle" /\ dec[d].kind = "plan" /\ dec[d].run \in Runs
          BY <1>1, <1>5, <3>4 DEF DecisionReturns, Answers, Addressed, Strong,
             Inv, TypeOK, Decisions
        <5>2. active.run # NoRun
          BY <2>2, <5>1, RunsAssumption
        <5> QED
          BY <1>1, <2>2, <5>1, <5>2 DEF Answers, PlansAnswered, Answering
      <4>2. active'.phase \in {active.phase, "executing"}
        BY <3>1, <3>2, <3>4 DEF DecisionTakesEffect, Settled, Actives
      <4>3. Planned' = Planned /\ Kind' = Kind
        BY <1>1, <4>1, <4>2 DEF Planned, Kind
      <4> QED
        BY <1>1, <4>1, <4>3 DEF Remembered, AtCall
    <3> QED
      BY <3>3, <3>4
  <2> QED
    BY <1>5, <2>1, <2>2 DEF DecisionReturns
<1> QED
  BY <1>3, <1>4, <1>5 DEF DecisionStep

LEMMA RememberedNext ==
  ASSUME "service" \notin Offers, Strong, CouplingInv, Remembered, [Next]_vars
  PROVE  Remembered'
<1>1. CASE RunStep
  <2>1. CASE AppendReturns
    <3>1. CASE Deliver
      <4>1. /\ pc' = pc /\ turn' = turn /\ facts' = facts
            /\ active' = active \/ active' = SinkThrows(active)
        BY <3>1 DEF Deliver
      <4>2. active'.phase = active.phase
        BY <4>1, SinkThrowsTouches DEF Strong, Inv, TypeOK
      <4> QED
        BY <4>1, <4>2, SameRemembered DEF AtCall
    <3> QED
      BY <2>1, <3>1, ForgetRemembered, FinishRemembered
      DEF AppendReturns, StoreError, HistoryError, Leave
  <2> QED
    BY <1>1, <2>1, ModelStepRemembered, StopStepRemembered,
       BatchStepRemembered, ForgetRemembered DEF RunStep, Ended, Leave
<1>2. CASE RunStarts
  <2>1. PICK planning \in PlanningModes, full \in BOOLEAN, r \in Runs :
           /\ active' = [NoActive EXCEPT
                 !.run = r, !.full = full, !.sink = "open",
                 !.phase = IF planning THEN "planning" ELSE "normal"]
           /\ turn' = turn /\ facts' = facts /\ pc' = "starting"
    BY <1>2 DEF RunStarts, StartRunOf, Send
  <2>2. active'.phase # "normal" => TRUE \in PlanningModes
    BY <2>1, ConstantsAssumption DEF NoActive
  <2> QED
    BY <2>1, <2>2 DEF Remembered, AtCall
<1>3. CASE Recover \/ UNCHANGED vars
  BY <1>3, SameRemembered DEF Recover, vars, AtCall
<1>4. CASE AbortStep
  <2>1. PICK source : active' = AbortedBy(active, source)
                      /\ UNCHANGED <<pc, turn, facts>>
    BY <1>4 DEF AbortStep, Abort
  <2>2. active'.phase = active.phase
    BY <2>1, AbortedByTouches DEF Strong, Inv, TypeOK
  <2> QED
    BY <2>1, <2>2, SameRemembered DEF AtCall
<1>5. CASE Crash
  BY <1>5, ForgetRemembered DEF Crash
<1> QED
  BY <1>1, <1>2, <1>3, <1>4, <1>5, DecisionStepRemembered DEF Next

LEMMA RememberedInit == Init => Remembered
<1>1. MaxToolErrors \in Nat \ {0} /\ MaxBatch \in Nat
  BY MaxToolErrorsAssumption, ConstantsAssumption
<1> QED
  BY <1>1 DEF Init, Remembered, NoTurn, NoFacts, NoActive, NoSignature, AtCall

-----------------------------------------------------------------------------
(* What an event does to the errors in a row.                              *)

\* The events that leave them alone.
Still == Ordinary \ {"tool.result"}

LEMMA SameStreak ==
  ASSUME NEW d \in Histories, NEW e, e.type \in Still
  PROVE  Apply(d, e).sig = d.sig /\ Apply(d, e).errs = d.errs
<1>1. ASSUME NEW round, Apply(d, e) = [d EXCEPT !.round = round]
      PROVE  Apply(d, e).sig = d.sig /\ Apply(d, e).errs = d.errs
  BY <1>1 DEF Histories
<1>2. CASE e.type = "user.message"
  <2>1. Apply(d, e) = [d EXCEPT !.goal = TRUE]
    BY <1>2 DEF Apply, Terminal
  <2> QED
    BY <2>1 DEF Histories
<1>3. CASE e.type \in {"context.compacted", "validation.repair.warning"}
  BY <1>3, NothingApplied
<1>4. CASE e.type = "model.requested"
  <2>1. Apply(d, e) = RequestModel(d, e.n)
    BY <1>4 DEF Apply, Terminal
  <2> QED
    BY <2>1 DEF RequestModel, Histories
<1>5. CASE e.type = "model.completed"
  <2>1. PICK finish : Apply(d, e) =
           [d EXCEPT !.pending = FALSE, !.round = NewRound(finish)]
    BY <1>5 DEF Apply, Terminal
  <2> QED
    BY <2>1 DEF Histories
<1>6. CASE e.type \in {"model.output.rejected", "completion.evidence.rejected",
                       "write.dependency.rejected", "tool.requested"}
  <2>1. PICK round : Apply(d, e) = [d EXCEPT !.round = round]
    BY <1>6 DEF Apply, Terminal, RequestTool
  <2> QED
    BY <1>1, <2>1
<1>7. CASE e.type = "assistant.message"
  <2>1. \/ Apply(d, e) = [d EXCEPT !.final = TRUE]
        \/ \E round : Apply(d, e) = [d EXCEPT !.round = round]
    BY <1>7 DEF Apply, Terminal, AssistantMessage
  <2> QED
    BY <1>1, <2>1 DEF Histories
<1>8. CASE e.type \in {"approval.required", "approval.resolved", "tool.started"}
  <2>1. PICK round : Apply(d, e) = [d EXCEPT !.round = round]
    BY <1>8 DEF Apply, Terminal, RequireApproval, ResolveApproval, StartTool,
       UpdateTool
  <2> QED
    BY <1>1, <2>1
<1>9. CASE e.type = "plan.proposed"
  <2>1. Apply(d, e) = [d EXCEPT !.plan = "proposed", !.phase = "awaiting"]
    BY <1>9 DEF Apply, Terminal
  <2> QED
    BY <2>1 DEF Histories
<1>10. CASE e.type = "plan.approval.resolved"
  <2>1. Apply(d, e) = ResolvePlan(d, e.tag)
    BY <1>10 DEF Apply, Terminal
  <2> QED
    BY <2>1 DEF ResolvePlan, Histories
<1> QED
  BY <1>2, <1>3, <1>4, <1>5, <1>6, <1>7, <1>8, <1>9, <1>10 DEF Still, Ordinary

LEMMA ResultStreak ==
  ASSUME NEW d \in Histories, NEW e, e.type = "tool.result"
  PROVE  LET streak == Streak(d.sig, d.errs, d.round.tools[e.n].kind, e.tag) IN
         Apply(d, e).sig = streak.sig /\ Apply(d, e).errs = streak.errs
<1> DEFINE tool == d.round.tools[e.n]
           streak == Streak(d.sig, d.errs, tool.kind, e.tag)
           u == UpdateTool(d, e.n, [tool EXCEPT !.result = e.tag])
<1>1. Apply(d, e) = RecordResult(d, e.n, e.tag)
  BY DEF Apply, Terminal
<1>2. PICK round : u = [d EXCEPT !.round = round]
  BY DEF UpdateTool
<1>3. PICK handoff : RecordResult(d, e.n, e.tag) =
         [u EXCEPT !.sig = streak.sig, !.errs = streak.errs, !.handoff = handoff]
  BY DEF RecordResult
<1> HIDE DEF streak, u
<1>4. RecordResult(d, e.n, e.tag).sig = streak.sig
      /\ RecordResult(d, e.n, e.tag).errs = streak.errs
  BY <1>2, <1>3 DEF Histories
<1> QED
  BY <1>1, <1>4 DEF streak

\* Two counts of the same results stay in step; a skipped check that one of
\* them has counted makes it start again.
LEMMA StreaksInStep ==
  ASSUME NEW sig, NEW errs \in Nat, NEW sig2, NEW errs2 \in Nat,
         errs = 0 \/ (sig = sig2 /\ errs <= errs2) \/ sig.code = "skipped",
         NEW kind, NEW code, code # "skipped"
  PROVE  \/ Streak(sig, errs, kind, code).errs = 0
         \/ /\ Streak(sig, errs, kind, code).sig = Streak(sig2, errs2, kind, code).sig
            /\ Streak(sig, errs, kind, code).errs <= Streak(sig2, errs2, kind, code).errs
<1> DEFINE new == [kind |-> kind, code |-> code]
<1>1. CASE code = "ok"
  BY <1>1 DEF Streak
<1>2. CASE code # "ok"
  <2>1. new.code # "skipped"
    OBVIOUS
  <2>2. Streak(sig, errs, kind, code) =
          [sig |-> new, errs |-> IF sig = new THEN errs + 1 ELSE 1]
    BY <1>2 DEF Streak
  <2>3. Streak(sig2, errs2, kind, code) =
          [sig |-> new, errs |-> IF sig2 = new THEN errs2 + 1 ELSE 1]
    BY <1>2 DEF Streak
  <2> HIDE DEF new
  <2> QED
    BY <2>1, <2>2, <2>3
<1> QED
  BY <1>1, <1>2

-----------------------------------------------------------------------------
(* The projection accepts what the run appends.                            *)

\* What is known of the file where the run takes its next step.
LEMMA Known ==
  ASSUME Strong, Replay, io = "none", pc \notin {"idle", "finishing"}
  PROVE  /\ Followed /\ Running /\ disk \in Histories /\ disk.valid
         /\ Counters /\ PhaseFollows /\ RoundFollows /\ StreakFollows
         /\ pc # "approval_wait" => synced
  BY DEF Strong, Inv, TypeOK, HandlerInv, FileFollows, Replay, ErrorsFollow,
     InStep, Followed, Running

LEMMA SentEvent ==
  ASSUME Strong, pc # "idle", NEW type \in EventTypes, NEW n \in Nat,
         NEW tag \in Tags, NEW l,
         type = "tool.requested" => tag \in Kinds,
         type = "tool.result" => tag \in Codes,
         Send(RunEvent(type, n, tag), l)
  PROVE  \E e \in Events : /\ e.type = type /\ e.n = n /\ e.tag = tag
                           /\ e.run = active.run /\ Send(e, l)
<1>1. active.run \in Runs
  BY Owned DEF Strong, Inv
<1> DEFINE e == RunEvent(type, n, tag)
<1>2. e \in Events
  BY <1>1, RunEventType
<1>3. e.type = type /\ e.n = n /\ e.tag = tag /\ e.run = active.run
  BY DEF RunEvent, Event
<1> HIDE DEF e
<1>4. Send(e, l)
  BY DEF e
<1> QED
  BY <1>2, <1>3, <1>4

LEMMA AcceptedAppend ==
  ASSUME TypeOK, NEW e \in Events, Accepts(disk, e), NEW result,
         Appends(e, result)
  PROVE  /\ disk'.valid
         /\ disk' = disk \/ disk' = Apply(disk, e)
         /\ synced => result # "history_error"
         /\ result = "delivering" => synced' /\ disk' = Apply(disk, e)
         /\ synced' => synced
         /\ (disk' = disk /\ synced' = synced) \/ disk' = Apply(disk, e)
         /\ synced /\ "committed" \notin StoreFailures => synced'
<1>1. disk \in Histories /\ disk.valid /\ synced \in BOOLEAN
  BY DEF TypeOK, Accepts
<1>2. Write(e) => disk' = Apply(disk, e) /\ disk'.valid
  BY <1>1, ValidApplied DEF Write, Project
<1>3. CASE /\ Write(e) /\ synced' = (synced /\ Accepts(disk, e))
           /\ result = IF synced' THEN "delivering" ELSE "history_error"
  <2>1. synced' = synced
    BY <1>1, <1>3
  <2> QED
    BY <1>2, <1>3, <2>1
<1>4. CASE result = "store_error" /\ UNCHANGED durable
  BY <1>1, <1>4 DEF durable
<1>5. CASE /\ "committed" \in StoreFailures /\ result = "store_error"
           /\ Write(e) /\ synced' = FALSE
  BY <1>2, <1>5
<1> QED
  BY <1>3, <1>4, <1>5 DEF Appends

\* An append of the run that the projection accepts.
LEMMA SentReplays ==
  ASSUME TypeOK, synced, NEW e \in Events, NEW l, Send(e, l),
         Accepts(disk, e), l \notin {"approval_wait", "plan_wait"},
         l = "proposing" => e.type = "plan.proposed",
         Followed' /\ disk' = Apply(disk, e) => StreakFollows'
  PROVE  Replay'
<1>1. PICK result \in Outcomes : Appends(e, result) /\ io' = result
  BY DEF Send
<1>2. pc' = l
  BY DEF Send
<1>3. /\ disk'.valid /\ io' # "history_error" /\ io' # "none"
      /\ io' = "delivering" => synced' /\ disk' = Apply(disk, e)
  BY <1>1, AcceptedAppend DEF Outcomes
<1>4. Running' => synced' /\ disk' = Apply(disk, e)
  BY <1>3 DEF Running
<1>5. ErrorsFollow'
  BY <1>4 DEF ErrorsFollow, Followed
<1>6. InStep'
  BY <1>2, <1>3, <1>4 DEF InStep
<1>7. Decidable'
  <2>1. disk \in Histories
    BY DEF TypeOK
  <2> QED
    BY <1>2, <1>4, <2>1, ProposalApplied DEF Decidable, Followed
<1> QED
  BY <1>3, <1>5, <1>6, <1>7 DEF Replay

\* Steps that leave the count as it was.
SamePlace ==
    \/ pc \notin Over /\ pc' \notin Over /\ SkipBound' = SkipBound
    \/ pc \in Over /\ pc' \in Over /\ turn' = turn
SameCount ==
    /\ facts'.sig = facts.sig /\ facts'.errs = facts.errs
    /\ turn'.finish = "none" => turn.finish = "none"
    /\ SamePlace

LEMMA StreakStays ==
  ASSUME StreakFollows, SameCount, disk'.sig = disk.sig, disk'.errs = disk.errs
  PROVE  StreakFollows'
<1>1. \A sig, errs : Counted(sig, errs)' <=> Counted(sig, errs)
  BY DEF Counted
<1>2. \A n : Skipping(n)' <=> Skipping(n)
  BY DEF Skipping
<1>3. CASE pc \notin Over /\ pc' \notin Over /\ SkipBound' = SkipBound
  BY <1>1, <1>2, <1>3 DEF StreakFollows, SameCount, Counted, Skipping
<1>4. CASE pc \in Over /\ pc' \in Over /\ turn' = turn
  <2>1. Kind' = Kind
    BY <1>4 DEF Kind
  <2> QED
    BY <1>4, <2>1 DEF StreakFollows, SameCount, Counted, Skipping
<1> QED
  BY <1>3, <1>4 DEF SameCount, SamePlace

LEMMA StillReplays ==
  ASSUME TypeOK, synced, StreakFollows, NEW e \in Events, e.type \in Still,
         NEW l, Send(e, l), Accepts(disk, e),
         l \notin {"approval_wait", "plan_wait"},
         l = "proposing" => e.type = "plan.proposed", SameCount
  PROVE  Replay'
<1>1. disk \in Histories
  BY DEF TypeOK
<1>2. disk' = Apply(disk, e) => StreakFollows'
  BY <1>1, SameStreak, StreakStays
<1> QED
  BY <1>2, SentReplays

LEMMA GotoReplays ==
  ASSUME synced, disk.valid, io = "none", NEW l, Goto(l), l # "proposing",
         l = "plan_wait" => disk.phase = "awaiting" /\ disk.plan = "proposed",
         StreakFollows'
  PROVE  Replay'
<1>1. disk' = disk /\ synced' = synced /\ io' = io /\ pc' = l
  BY DEF Goto, durable
<1> QED
  BY <1>1 DEF Replay, ErrorsFollow, InStep, Decidable

LEMMA MovedReplays ==
  ASSUME synced, disk.valid, StreakFollows, io = "none", NEW l, Goto(l),
         l # "proposing",
         l = "plan_wait" => disk.phase = "awaiting" /\ disk.plan = "proposed",
         SameCount
  PROVE  Replay'
<1>1. disk' = disk
  BY DEF Goto, durable
<1>2. StreakFollows'
  BY <1>1, StreakStays
<1> QED
  BY <1>2, GotoReplays

\* The last append of a run.
LEMMA EndReplays ==
  ASSUME TypeOK, NEW e \in Events, Accepts(disk, e), Send(e, "finishing")
  PROVE  Replay'
<1>1. PICK result \in Outcomes : Appends(e, result)
  BY DEF Send
<1>2. disk'.valid /\ pc' = "finishing"
  BY <1>1, AcceptedAppend DEF Send
<1> QED
  BY <1>2 DEF Replay, ErrorsFollow, InStep, Decidable, Followed, Running

\* The end of a run.
LEMMA FinishReplays ==
  ASSUME Strong, Replay, io = "none", pc \notin {"idle", "finishing", "requesting"},
         FinishFromError \/ FinishAs("run.cancelled")
  PROVE  Replay'
<1>1. PICK how \in {"run.failed", "run.cancelled"} : FinishAs(how)
  BY DEF FinishFromError
<1>2. turn.requests \in Nat
  BY DEF Strong, Inv, TypeOK, Turns
<1>3. "" \in Tags
  BY DEF Tags
<1>4. PICK tag \in Tags : Send(RunEvent(how, turn.requests, tag), "finishing")
  BY <1>1, <1>3 DEF FinishAs
<1>5. how \in EventTypes /\ how \in Terminal /\ how # "tool.requested"
      /\ how # "tool.result"
  BY DEF EventTypes, Terminal
<1>6. PICK e \in Events :
         /\ e.type = how /\ e.n = turn.requests /\ e.run = active.run
         /\ Send(e, "finishing")
  BY <1>2, <1>4, <1>5, SentEvent
<1>7. Counters /\ disk.valid
  BY Known
<1>8. disk.run = e.run /\ e.n = disk.iterations
  BY <1>6, <1>7 DEF Counters
<1>9. Accepts(disk, e)
  BY <1>6, <1>7, <1>8 DEF Accepts
<1> QED
  BY <1>6, <1>9, EndReplays DEF Strong, Inv

LEMMA CompleteReplays ==
  ASSUME Strong, Replay, At("final"), FinishAs("run.completed")
  PROVE  Replay'
<1>1. turn.requests \in Nat /\ pc = "final" /\ io = "none"
  BY DEF Strong, Inv, TypeOK, Turns, At
<1>2. "" \in Tags
  BY DEF Tags
<1>3. PICK tag \in Tags :
         Send(RunEvent("run.completed", turn.requests, tag), "finishing")
  BY <1>2 DEF FinishAs
<1>4. PICK e \in Events :
         /\ e.type = "run.completed" /\ e.n = turn.requests
         /\ e.run = active.run /\ Send(e, "finishing")
  BY <1>1, <1>3, SentEvent DEF EventTypes, Terminal
<1>5. Counters /\ PhaseFollows /\ RoundFollows /\ disk.valid
  BY <1>1, Known
<1>6. AcceptsCompleted(disk, e.n)
  BY <1>1, <1>4, <1>5, NoRoundFields
  DEF AcceptsCompleted, Counters, PhaseFollows, RoundFollows
<1>7. Accepts(disk, e)
  BY <1>4, <1>5, <1>6 DEF Accepts, Counters, Terminal
<1> QED
  BY <1>4, <1>7, EndReplays DEF Strong, Inv

\* The run is gone.
LEMMA ForgetReplays ==
  ASSUME disk.valid, Forget
  PROVE  Replay'
  BY DEF Forget, Replay, ErrorsFollow, InStep, Decidable, Followed, Running

\* An abort, an event that was delivered.
LEMMA StepsTouch ==
  ASSUME Strong, Deliver \/ LiveDeltaLost \/ AbortStep
  PROVE  Touched
<1>1. active \in Actives
  BY DEF Strong, Inv, TypeOK
<1>2. CASE Deliver
  BY <1>1, <1>2, SinkThrowsTouches DEF Deliver, Touched, durable, others
<1>3. CASE LiveDeltaLost
  BY <1>1, <1>3, SinkThrowsTouches DEF LiveDeltaLost, Touched, durable, others
<1>4. CASE AbortStep
  <2>1. PICK source : /\ active' = AbortedBy(active, source)
                      /\ UNCHANGED <<durable, pc, io, turn, facts, others>>
    BY <1>4 DEF AbortStep, Abort
  <2> QED
    BY <1>1, <2>1, AbortedByTouches DEF Touched, durable, others
<1> QED
  BY <1>2, <1>3, <1>4

LEMMA TouchedReplays ==
  ASSUME Strong, Replay, Touched
  PROVE  Replay'
<1>1. /\ pc' = pc /\ disk' = disk /\ synced' = synced /\ turn' = turn
      /\ facts' = facts /\ dec' = dec
      /\ active'.ask = active.ask /\ active'.plan = active.plan
      /\ active'.wait = active.wait \/ active'.wait = "aborted"
      /\ io' # "history_error" \/ io' = io
      /\ Running' => Running
  BY DEF Touched, Running
<1>2. \A d, kind : Answering(d, kind)' <=> Answering(d, kind)
  BY DEF Touched, Answering
<1>3. ErrorsFollow'
  <2>1. StreakFollows => StreakFollows'
    BY <1>1, StreakStays DEF SameCount, SamePlace, SkipBound, Skips, AtCall
  <2> QED
    BY <1>1, <2>1 DEF Replay, ErrorsFollow, Followed
<1>4. InStep'
  BY <1>1, <1>2 DEF Replay, InStep
<1>5. Decidable'
  BY <1>1, <1>2 DEF Replay, Decidable, Followed
<1> QED
  BY <1>1, <1>3, <1>4, <1>5 DEF Replay

-----------------------------------------------------------------------------
(* The file stays readable, step by step.                                  *)

\* No call is at work: the bound of the skipped checks is the batch's.
LEMMA SameBound ==
  ASSUME pc \notin Over, pc' \notin Over, ~AtCall, ~AtCall'
  PROVE  SamePlace
  BY DEF SamePlace, SkipBound, Skips

LEMMA RequestReplays ==
  ASSUME Strong, Remembered, Replay, pc \in {"context", "compacted"},
         io = "none", RequestTheModel
  PROVE  Replay'
<1>1. turn.requests \in Nat /\ turn.requests + 1 \in Nat
  BY DEF Strong, Inv, TypeOK, Turns
<1>2. "" \in Tags
  BY DEF Tags
<1>3. PICK n \in Nat, tag \in Tags :
         /\ n = turn.requests + 1
         /\ Record("model.requested", n, tag, "requesting")
  BY <1>1, <1>2 DEF RequestTheModel
<1>4. PICK e \in Events :
         /\ e.type = "model.requested" /\ e.n = n
         /\ e.run = active.run /\ Send(e, "requesting")
  <2>1. pc # "idle" /\ Send(RunEvent("model.requested", n, tag), "requesting")
    BY <1>3 DEF Record
  <2>2. "model.requested" \in EventTypes
    BY DEF EventTypes, Ordinary
  <2> QED
    BY <2>1, <2>2, SentEvent
<1>5. /\ Counters /\ RoundFollows /\ StreakFollows /\ disk.valid /\ synced
  BY Known
<1>6. AcceptsModelRequest(disk, e.n)
  BY <1>3, <1>4, <1>5 DEF AcceptsModelRequest, Counters, RoundFollows, RoundOver,
     Remembered
<1>7. Accepts(disk, e)
  BY <1>4, <1>5, <1>6 DEF Accepts, Counters, Terminal
<1>8. pc' = "requesting"
  BY <1>3 DEF Record, Send
<1>9. SameCount
  BY <1>3, <1>8, SameBound DEF SameCount, Record, Over, AtCall
<1> QED
  BY <1>4, <1>5, <1>7, <1>9, StillReplays DEF Still, Ordinary, Strong, Inv

\* Short of the limit whenever a context may be compacted.
LEMMA CompactionAccepted ==
  ASSUME Undiverted, Strong, Remembered, Replay, At("context"),
         turn.finish \in CompactsAfter
  PROVE  AcceptsCompaction(disk)
<1>1. pc = "context" /\ io = "none" /\ disk \in Histories
  BY DEF At, Strong, Inv, TypeOK
<1>2. Counters /\ RoundOver /\ StreakFollows
  BY <1>1, Known DEF RoundFollows
<1>3. turn.finish \in {"none", "tool_calls"}
  BY DEF Undiverted, Strong, Inv, TypeOK, Turns
<1>4. disk.errs \in Nat /\ facts.errs \in Nat /\ MaxToolErrors \in Nat \ {0}
      /\ MaxBatch \in Nat
  BY <1>1, MaxToolErrorsAssumption, ConstantsAssumption
  DEF Histories, Strong, Inv, TypeOK, Facts
<1>5. disk.errs < MaxToolErrors
  <2>1. CASE turn.finish = "none"
    BY <1>2, <1>4, <2>1 DEF StreakFollows
  <2>2. CASE turn.finish = "tool_calls"
    <3>1. SkipBound = MaxBatch - 1
      BY <1>1 DEF SkipBound, Skips, AtCall
    <3>2. Counted(facts.sig, facts.errs) \/ Skipping(MaxBatch - 1)
      BY <1>1, <1>2, <3>1 DEF StreakFollows, Over
    <3>3. CASE Counted(facts.sig, facts.errs)
      BY <1>4, <3>3 DEF Counted, Remembered
    <3>4. CASE Skipping(MaxBatch - 1)
      BY <1>4, <2>2, <3>4 DEF Skipping, Undiverted
    <3> QED
      BY <3>2, <3>3, <3>4
  <2> QED
    BY <1>3, <2>1, <2>2
<1> QED
  BY <1>1, <1>2, <1>3, <1>5 DEF AcceptsCompaction, Counters, RoundOver

LEMMA ModelStepReplays ==
  ASSUME Undiverted, Strong, Remembered, Replay, ModelStep
  PROVE  Replay'
<1>1. /\ turn \in Turns /\ turn.requests \in Nat /\ TypeOK
      /\ pc # "idle" /\ io = "none" /\ pc # "finishing"
  <2>1. pc # "idle" /\ io = "none" /\ pc # "finishing"
    BY DEF ModelStep, Goal, Loop, ContextBuilt, ContextFailed, Compacted,
       Requested, ModelAnswers, ModelFailed, LiveDeltaLost, At
  <2> QED
    BY <2>1 DEF Strong, Inv, TypeOK, Turns
<1>2. /\ Counters /\ PhaseFollows /\ RoundFollows /\ StreakFollows
      /\ disk.valid /\ (pc # "approval_wait" => synced)
  BY <1>1, Known
<1>3. "" \in Tags
  BY DEF Tags
<1>4. FinishFromError /\ pc # "requesting" => Replay'
  BY <1>1, FinishReplays
<1>5. CASE Goal
  <2>1. pc = "starting"
    BY <1>5 DEF Goal, At
  <2>2. CASE ~FinishFromError
    <3>1. PICK tag \in Tags : Record("user.message", 0, tag, "loop")
      BY <1>3, <1>5, <2>2 DEF Goal
    <3>2. PICK e \in Events : /\ e.type = "user.message" /\ e.run = active.run
                              /\ Send(e, "loop")
      BY <1>1, <3>1, SentEvent DEF Record, EventTypes, Ordinary
    <3>3. turn.requests = 0
      BY <2>1 DEF Strong, HandlerInv, Synced, NoTurn
    <3>4. AcceptsUserMessage(disk)
      BY <1>2, <2>1, <3>3, NoRoundFields
      DEF AcceptsUserMessage, Counters, RoundFollows
    <3>5. Accepts(disk, e)
      BY <1>2, <3>2, <3>4 DEF Accepts, Counters, Terminal
    <3>6. pc' = "loop"
      BY <3>1 DEF Record, Send
    <3>7. SameCount
      BY <2>1, <3>1, <3>6, SameBound DEF SameCount, Record, Over, AtCall
    <3> QED
      BY <1>1, <1>2, <2>1, <3>2, <3>5, <3>7, StillReplays DEF Still, Ordinary
  <2> QED
    BY <1>4, <2>1, <2>2
<1>6. CASE Loop
  <2>1. pc = "loop"
    BY <1>6 DEF Loop, At
  <2>2. CASE Continue("context")
    <3>1. pc' = "context" /\ turn' = turn /\ facts' = facts
      BY <2>2 DEF Continue, Goto
    <3>2. SameCount
      BY <2>1, <3>1, SameBound DEF SameCount, Over, AtCall
    <3> QED
      BY <1>1, <1>2, <2>1, <2>2, <3>2, MovedReplays DEF Continue
  <2> QED
    BY <1>4, <1>6, <2>1, <2>2 DEF Loop
<1>7. CASE ContextBuilt
  <2>1. pc = "context" /\ At("context")
    BY <1>7 DEF ContextBuilt, At
  <2>2. CASE ~RequestTheModel
    <3>1. PICK tag \in Tags : Record("context.compacted", 0, tag, "compacted")
      BY <1>3, <1>7, <2>2 DEF ContextBuilt
    <3>2. PICK e \in Events :
             /\ e.type = "context.compacted" /\ e.run = active.run
             /\ Send(e, "compacted")
      BY <1>1, <3>1, SentEvent DEF Record, EventTypes, Ordinary
    <3>3. AcceptsCompaction(disk)
      BY <1>7, <2>1, <2>2, CompactionAccepted DEF ContextBuilt
    <3>4. Accepts(disk, e)
      BY <1>2, <3>2, <3>3 DEF Accepts, Counters, Terminal
    <3>5. pc' = "compacted"
      BY <3>1 DEF Record, Send
    <3>6. SameCount
      BY <2>1, <3>1, <3>5, SameBound DEF SameCount, Record, Over, AtCall
    <3> QED
      BY <1>1, <1>2, <2>1, <3>2, <3>4, <3>6, StillReplays DEF Still, Ordinary
  <2> QED
    BY <1>1, <2>1, <2>2, RequestReplays
<1>8. CASE Compacted
  <2>1. pc = "compacted"
    BY <1>8 DEF Compacted, At
  <2> QED
    BY <1>1, <1>4, <1>8, <2>1, RequestReplays DEF Compacted
<1>9. CASE ContextFailed \/ ModelFailed
  BY <1>4, <1>9 DEF ContextFailed, ModelFailed, At
<1>10. CASE Requested
  <2>1. /\ pc = "requesting" /\ pc' = "model" /\ Goto("model")
        /\ facts' = facts /\ turn'.finish = turn.finish
    BY <1>1, <1>10 DEF Requested, At, Goto, Turns
  <2>2. SameCount
    BY <2>1, SameBound DEF SameCount, Over, AtCall
  <2> QED
    BY <1>1, <1>2, <2>1, <2>2, MovedReplays
<1>11. CASE ModelAnswers
  <2>1. PICK finish \in {"stop", "tool_calls"} :
           /\ turn'.finish = finish
           /\ Send(RunEvent("model.completed", turn.requests, finish), "completed")
    BY <1>1, <1>11 DEF ModelAnswers, Turns
  <2>2. finish \in Tags
    BY DEF Tags
  <2>3. PICK e \in Events :
           /\ e.type = "model.completed" /\ e.n = turn.requests
           /\ e.run = active.run /\ Send(e, "completed")
    BY <1>1, <2>1, <2>2, SentEvent DEF EventTypes, Ordinary
  <2>4. pc = "model" /\ pc' = "completed" /\ facts' = facts
    BY <1>11, <2>1 DEF ModelAnswers, At, Send
  <2>5. Accepts(disk, e)
    BY <1>2, <2>3, <2>4
    DEF Accepts, AcceptsModelCompletion, Counters, Terminal
  <2>6. SameCount
    BY <2>1, <2>4, SameBound DEF SameCount, Over, AtCall
  <2> QED
    BY <1>1, <1>2, <2>3, <2>4, <2>5, <2>6, StillReplays DEF Still, Ordinary
<1>12. CASE LiveDeltaLost
  BY <1>12, StepsTouch, TouchedReplays
<1> QED
  BY <1>5, <1>6, <1>7, <1>8, <1>9, <1>10, <1>11, <1>12 DEF ModelStep

LEMMA StopStepReplays ==
  ASSUME Undiverted, Strong, Remembered, Replay, StopStep
  PROVE  Replay'
<1>1. /\ turn \in Turns /\ turn.requests \in Nat /\ TypeOK /\ facts \in Facts
      /\ pc \notin {"idle", "finishing", "requesting", "approval_wait"}
      /\ pc \notin Over /\ ~AtCall /\ io = "none"
  <2>1. /\ pc \in {"completed", "restate", "proposing", "plan_wait", "answer",
                   "final"}
        /\ io = "none"
    BY DEF StopStep, StopRejected, Restate, ProposePlan, PlanProposed,
       PlanAnswered, StopWithMissingParent, StopUnverified, StopWithoutService,
       StopAccepted, Answer, Complete, StopForGood, FinalStop, Stopped, At
  <2> QED
    BY <2>1 DEF Strong, Inv, TypeOK, Turns, Over, AtCall
<1>2. /\ Counters /\ PhaseFollows /\ RoundFollows /\ StreakFollows
      /\ disk.valid /\ synced
  BY <1>1, Known
<1>3. "" \in Tags
  BY DEF Tags
<1>4. FinishFromError \/ FinishAs("run.cancelled") => Replay'
  BY <1>1, FinishReplays
<1>5. /\ Restated.sig = facts.sig /\ Restated.errs = facts.errs
      /\ Restated \in Facts
  BY <1>1, RestatedFields
<1>6. ASSUME NEW l \in {"restate", "loop", "proposing", "plan_wait", "answer",
                        "final"},
             pc' = l, turn' = turn, facts'.sig = facts.sig,
             facts'.errs = facts.errs
      PROVE  SameCount
  BY <1>1, <1>6, SameBound DEF SameCount, Over, AtCall
<1>7. ASSUME NEW type \in Still, NEW n \in Nat, NEW tag \in Tags,
             NEW l \in {"restate", "loop", "proposing", "final"},
             Send(RunEvent(type, n, tag), l),
             type # "tool.requested", l = "proposing" => type = "plan.proposed",
             turn' = turn, facts'.sig = facts.sig, facts'.errs = facts.errs,
             \A e : e.type = type /\ e.n = n /\ e.tag = tag
                    /\ e.run = active.run => Accepts(disk, e)
      PROVE  Replay'
  <2>1. type \in EventTypes /\ type # "tool.result"
    BY DEF Still, Ordinary, EventTypes
  <2>2. PICK e \in Events :
           /\ e.type = type /\ e.n = n /\ e.tag = tag /\ e.run = active.run
           /\ Send(e, l)
    BY <1>1, <1>7, <2>1, SentEvent
  <2>3. pc' = l
    BY <1>7 DEF Send
  <2>4. SameCount
    BY <1>6, <1>7, <2>3
  <2> QED
    BY <1>1, <1>2, <1>7, <2>2, <2>4, StillReplays
<1>8. CASE \/ StopRejected
           \/ StopWithMissingParent /\ ~FinishFromError
           \/ StopUnverified
  <2>1. pc = "completed" /\ turn.finish = "stop"
    BY <1>8 DEF StopRejected, StopWithMissingParent, StopUnverified, FinalStop,
       Stopped, At
  <2>2. /\ ~disk.pending /\ disk.round.finish = "stop" /\ ~disk.final
        /\ disk.round.rejected = "none" /\ ~disk.round.evidence
        /\ ~disk.round.dependency
        /\ disk.iterations = turn.requests /\ disk.run = active.run
    BY <1>2, <2>1 DEF Counters, RoundFollows, NewRound
  <2>3. CASE StopRejected
    <3>1. "retry" \in Tags /\ "model.output.rejected" \in Still
      BY DEF Tags, Still, Ordinary
    <3>2. \A e : e.type = "model.output.rejected" /\ e.n = turn.requests
                 /\ e.tag = "retry" /\ e.run = active.run => Accepts(disk, e)
      BY <1>2, <2>2 DEF Accepts, AcceptsOutputRejection, InRound, Terminal
    <3>3. /\ turn' = turn /\ facts'.sig = facts.sig /\ facts'.errs = facts.errs
          /\ Send(RunEvent("model.output.rejected", turn.requests, "retry"),
                  "restate")
      BY <1>1, <2>3 DEF StopRejected, Facts
    <3> QED
      BY <1>1, <1>7, <3>1, <3>2, <3>3
  <2>4. CASE StopWithMissingParent /\ ~FinishFromError
    <3>1. "write.dependency.rejected" \in Still
      BY DEF Still, Ordinary
    <3>2. \A e : e.type = "write.dependency.rejected" /\ e.n = turn.requests
                 /\ e.run = active.run => Accepts(disk, e)
      BY <1>2, <2>2 DEF Accepts, AcceptsDependencyRejection,
         AcceptsEvidenceRejection, InRound, Terminal
    <3>3. /\ turn' = turn /\ facts' = [Restated EXCEPT !.stops = Restated.stops + 1]
      BY <2>4 DEF StopWithMissingParent
    <3>4. PICK tag \in Tags :
             Send(RunEvent("write.dependency.rejected", turn.requests, tag), "loop")
      BY <1>3, <2>4 DEF StopWithMissingParent
    <3>5. facts'.sig = facts.sig /\ facts'.errs = facts.errs
      BY <1>5, <3>3 DEF Facts
    <3> QED
      BY <1>1, <1>7, <3>1, <3>2, <3>3, <3>4, <3>5
  <2>5. CASE StopUnverified
    <3>1. "completion.evidence.rejected" \in Still
      BY DEF Still, Ordinary
    <3>2. \A e : e.type = "completion.evidence.rejected" /\ e.n = turn.requests
                 /\ e.run = active.run => Accepts(disk, e)
      BY <1>2, <2>2 DEF Accepts, AcceptsEvidenceRejection, InRound, Terminal
    <3>3. turn' = turn /\ facts' = [Restated EXCEPT !.corrected = TRUE]
      BY <2>5 DEF StopUnverified
    <3>4. PICK tag \in Tags :
             Send(RunEvent("completion.evidence.rejected", turn.requests, tag),
                  "loop")
      BY <1>3, <2>5 DEF StopUnverified
    <3>5. facts'.sig = facts.sig /\ facts'.errs = facts.errs
      BY <1>5, <3>3 DEF Facts
    <3> QED
      BY <1>1, <1>7, <3>1, <3>2, <3>3, <3>4, <3>5
  <2> QED
    BY <1>8, <2>3, <2>4, <2>5
<1>9. CASE Restate
  <2>1. CASE Continue("loop")
    <3>1. pc' = "loop" /\ turn' = turn /\ facts' = facts /\ Goto("loop")
      BY <2>1 DEF Continue, Goto
    <3>2. SameCount
      BY <1>6, <3>1
    <3> QED
      BY <1>1, <1>2, <3>1, <3>2, MovedReplays
  <2> QED
    BY <1>4, <1>9, <2>1 DEF Restate
<1>10. CASE ProposePlan
  <2>1. CASE ~FinishFromError
    <3>1. PICK tag \in Tags : Send(RunEvent("plan.proposed", 0, tag), "proposing")
      BY <1>3, <1>10, <2>1 DEF ProposePlan
    <3>2. turn' = turn /\ facts' = Restated
      BY <1>10, <2>1 DEF ProposePlan
    <3>3. "plan.proposed" \in Still
      BY DEF Still, Ordinary
    <3>4. \A e : e.type = "plan.proposed" /\ e.run = active.run => Accepts(disk, e)
      BY <1>10, ProposalAccepted DEF ProposePlan, Stopped, At, Planned
    <3> QED
      BY <1>5, <1>7, <3>1, <3>2, <3>3, <3>4
  <2> QED
    BY <1>4, <2>1
<1>11. CASE PlanProposed
  <2>1. /\ pc = "proposing" /\ Goto("plan_wait") /\ turn' = turn
        /\ facts' = facts /\ pc' = "plan_wait"
    BY <1>11 DEF PlanProposed, At, Goto
  <2>2. disk.phase = "awaiting" /\ disk.plan = "proposed"
    BY <1>1, <1>2, <2>1, Known DEF PhaseFollows, Replay, Decidable
  <2>3. SameCount
    BY <1>6, <2>1
  <2> QED
    BY <1>1, <1>2, <2>1, <2>2, <2>3, MovedReplays
<1>12. CASE PlanAnswered
  <2>1. CASE Goto("loop") /\ UNCHANGED <<turn, facts>>
    <3>1. pc' = "loop"
      BY <2>1 DEF Goto
    <3>2. SameCount
      BY <1>6, <2>1, <3>1
    <3> QED
      BY <1>1, <1>2, <2>1, <3>2, MovedReplays
  <2> QED
    BY <1>4, <1>12, <2>1 DEF PlanAnswered
<1>13. CASE StopWithMissingParent /\ FinishFromError
  BY <1>4, <1>13
<1>14. CASE StopWithoutService
  BY <1>14 DEF StopWithoutService, Remembered
<1>15. CASE StopAccepted
  <2>1. CASE Goto("answer") /\ facts' = Restated /\ UNCHANGED turn
    <3>1. pc' = "answer"
      BY <2>1 DEF Goto
    <3>2. SameCount
      BY <1>5, <1>6, <2>1, <3>1
    <3> QED
      BY <1>1, <1>2, <2>1, <3>2, MovedReplays
  <2> QED
    BY <1>4, <1>15, <2>1 DEF StopAccepted
<1>16. CASE Answer
  <2>1. CASE Record("assistant.message", 0, "final", "final")
    <3>1. pc = "answer"
      BY <1>16 DEF Answer, At
    <3>2. AcceptsAssistantMessage(disk, "final")
      BY <1>2, <3>1, NoRoundFields
      DEF AcceptsAssistantMessage, Counters, PhaseFollows, RoundFollows
    <3>3. \A e : e.type = "assistant.message" /\ e.tag = "final"
                 /\ e.run = active.run => Accepts(disk, e)
      BY <1>2, <3>2 DEF Accepts, Counters, Terminal
    <3>4. "final" \in Tags /\ "assistant.message" \in Still
      BY DEF Tags, Still, Ordinary
    <3> QED
      BY <1>7, <2>1, <3>3, <3>4 DEF Record
  <2> QED
    BY <1>4, <1>16, <2>1 DEF Answer
<1>17. CASE Complete
  BY <1>4, <1>17, CompleteReplays DEF Complete
<1> QED
  BY <1>8, <1>9, <1>10, <1>11, <1>12, <1>13, <1>14, <1>15, <1>16, <1>17
  DEF StopStep

\* A batch that is taken and asked for.
LEMMA BatchTakenReplays ==
  ASSUME Undiverted, Strong, Remembered, Replay,
         \/ CallsInsteadOfText \/ NarrativeSuppressed \/ TakeBatch \/ Narrate
         \/ Collect \/ CallsRepeatIdentifier \/ Collected
  PROVE  Replay'
<1>1. /\ turn \in Turns /\ turn.requests \in Nat /\ TypeOK
      /\ turn.at \in Nat /\ turn.batch \in Seq(Kinds)
      /\ pc \in {"completed", "batch", "narrate", "collect"}
      /\ pc \notin {"idle", "finishing", "requesting", "approval_wait"}
      /\ pc \notin Over /\ ~AtCall /\ io = "none"
  <2>1. pc \in {"completed", "batch", "narrate", "collect"} /\ io = "none"
    BY DEF CallsInsteadOfText, NarrativeSuppressed, TakeBatch, Narrate,
       Collect, CallsRepeatIdentifier, Collected, Called, At
  <2> QED
    BY <2>1 DEF Strong, Inv, TypeOK, Turns, Over, AtCall
<1>2. /\ Counters /\ PhaseFollows /\ RoundFollows /\ StreakFollows
      /\ disk.valid /\ synced
  BY <1>1, Known
<1>3. FinishFromError => Replay'
  BY <1>1, FinishReplays
<1>4. ASSUME NEW l \in {"batch", "narrate", "collect"}, pc' = l,
             turn'.finish = turn.finish, facts' = facts
      PROVE  SameCount
  BY <1>1, <1>4, SameBound DEF SameCount, Over, AtCall
<1>5. ASSUME NEW type \in Still, NEW n \in Nat, NEW tag \in Tags,
             type = "tool.requested" => tag \in Kinds,
             NEW l \in {"batch", "collect"}, Send(RunEvent(type, n, tag), l),
             turn'.finish = turn.finish, facts' = facts,
             \A e : e.type = type /\ e.n = n /\ e.tag = tag
                    /\ e.run = active.run => Accepts(disk, e)
      PROVE  Replay'
  <2>1. type \in EventTypes /\ type # "tool.result"
    BY DEF Still, Ordinary, EventTypes
  <2>2. PICK e \in Events :
           /\ e.type = type /\ e.n = n /\ e.tag = tag /\ e.run = active.run
           /\ Send(e, l)
    BY <1>1, <1>5, <2>1, SentEvent
  <2>3. pc' = l
    BY <1>5 DEF Send
  <2>4. SameCount
    BY <1>4, <1>5, <2>3
  <2> QED
    BY <1>1, <1>2, <1>5, <2>2, <2>4, StillReplays
<1>6. CASE CallsInsteadOfText \/ CallsRepeatIdentifier
  BY <1>3, <1>6 DEF CallsInsteadOfText, CallsRepeatIdentifier
<1>7. CASE NarrativeSuppressed
  <2>1. /\ pc = "completed" /\ turn.finish = "tool_calls" /\ facts' = facts
        /\ turn'.finish = turn.finish
    BY <1>1, <1>7 DEF NarrativeSuppressed, Called, At, Turns
  <2>2. /\ ~disk.pending /\ disk.round.finish = "tool_calls"
        /\ disk.round.rejected = "none"
        /\ disk.iterations = turn.requests /\ disk.run = active.run
    BY <1>2, <2>1 DEF Counters, RoundFollows, NewRound
  <2>3. \A e : e.type = "model.output.rejected" /\ e.n = turn.requests
               /\ e.tag = "suppressed" /\ e.run = active.run => Accepts(disk, e)
    BY <1>2, <2>2 DEF Accepts, AcceptsOutputRejection, InRound, Terminal
  <2>4. "suppressed" \in Tags /\ "model.output.rejected" \in Still
    BY DEF Tags, Still, Ordinary
  <2> QED
    BY <1>1, <1>5, <1>7, <2>1, <2>3, <2>4 DEF NarrativeSuppressed
<1>8. CASE TakeBatch
  <2>1. CASE ~FinishFromError
    <3>1. PICK l \in {"narrate", "collect"} : Goto(l)
      BY <1>8, <2>1 DEF TakeBatch
    <3>2. pc' = l /\ facts' = facts /\ turn'.finish = turn.finish
      BY <1>1, <1>8, <2>1, <3>1 DEF TakeBatch, Goto, Turns
    <3>3. SameCount
      BY <1>4, <3>2
    <3> QED
      BY <1>1, <1>2, <3>1, <3>3, MovedReplays
  <2> QED
    BY <1>3, <2>1
<1>9. CASE Narrate
  <2>1. CASE Record("assistant.message", 0, "intermediate", "collect")
    <3>1. pc = "narrate"
      BY <1>9 DEF Narrate, At
    <3>2. AcceptsAssistantMessage(disk, "intermediate")
      BY <1>2, <3>1 DEF AcceptsAssistantMessage, Counters, RoundFollows
    <3>3. \A e : e.type = "assistant.message" /\ e.tag = "intermediate"
                 /\ e.run = active.run => Accepts(disk, e)
      BY <1>2, <3>2 DEF Accepts, Counters, Terminal
    <3>4. "intermediate" \in Tags /\ "assistant.message" \in Still
      BY DEF Tags, Still, Ordinary
    <3> QED
      BY <1>5, <2>1, <3>3, <3>4 DEF Record
  <2> QED
    BY <1>3, <1>9, <2>1 DEF Narrate
<1>10. CASE Collect
  <2>1. PICK n \in Nat, kind \in {turn.batch[turn.at + 1]} : n = turn.at + 1
    BY <1>1
  <2>2. /\ pc = "collect" /\ turn.at < Len(turn.batch) /\ facts' = facts
        /\ Send(RunEvent("tool.requested", n, kind), "collect")
    BY <1>10, <2>1 DEF Collect, At
  <2>3. kind \in Kinds
    BY <1>1, <2>1, <2>2
  <2>4. turn'.finish = turn.finish
    BY <1>1, <1>10 DEF Collect, Turns
  <2>5. AcceptsToolRequest(disk, n)
    BY <1>2, <2>1, <2>2
    DEF AcceptsToolRequest, InToolRound, RoundFollows, Collecting
  <2>6. \A e : e.type = "tool.requested" /\ e.n = n /\ e.run = active.run
               => Accepts(disk, e)
    BY <1>2, <2>5 DEF Accepts, Counters, Terminal
  <2>7. kind \in Tags /\ "tool.requested" \in Still
    BY <2>3 DEF Tags, Still, Ordinary
  <2> QED
    BY <1>5, <2>2, <2>3, <2>4, <2>6, <2>7
<1>11. CASE Collected
  <2>1. /\ pc = "collect" /\ Goto("dispatch") /\ pc' = "dispatch"
        /\ facts' = facts /\ turn'.finish = turn.finish
        /\ turn'.failedCheck = turn.failedCheck
    BY <1>1, <1>11 DEF Collected, At, Goto, Turns
  <2>2. ~turn.failedCheck
    BY <2>1 DEF Remembered
  <2>3. SameCount
    BY <1>1, <2>1, <2>2 DEF SameCount, SamePlace, SkipBound, Skips, Over
  <2> QED
    BY <1>1, <1>2, <2>1, <2>3, MovedReplays
<1> QED
  BY <1>6, <1>7, <1>8, <1>9, <1>10, <1>11

\* The call the handler works on, in the file.
LEMMA CallIsCurrent ==
  ASSUME Strong, disk.valid, io = "none",
         pc \in {"dispatch", "asking", "approval_wait", "granted", "tool"}
  PROVE  /\ InToolRound(disk) /\ IsCurrentTool(disk.round, turn.at)
         /\ LET tool == disk.round.tools[turn.at] IN
            /\ tool \in Tools /\ tool.kind = Kind /\ tool.planned = Planned
            /\ CallFollows(tool)
<1>1. PICK tools : tools = disk.round.tools
  OBVIOUS
<1>2. /\ CallFollows(tools[turn.at]) /\ BatchFollows
      /\ turn.at \in DOMAIN tools /\ tools \in Seq(Tools)
      /\ tools[turn.at] \in Tools
  BY <1>1, CallTyped DEF Calling
<1>3. tools[turn.at].result = "none"
  BY <1>2 DEF CallFollows, Fresh
<1>4. \A i \in DOMAIN tools : tools[i].result = "none" => ~(i < turn.at)
  BY <1>1, <1>2 DEF BatchFollows
<1>5. \A i \in DOMAIN tools : tools[i].result = "none" => turn.at <= i
  BY <1>2, <1>4
<1>6. IsCurrentTool(disk.round, turn.at)
  BY <1>1, <1>2, <1>3, <1>5 DEF IsCurrentTool, Unresolved
<1>7. tools[turn.at].kind = Kind /\ tools[turn.at].planned = Planned
  BY <1>1, <1>2 DEF BatchFollows, Kind
<1> QED
  BY <1>1, <1>2, <1>6, <1>7 DEF BatchFollows, InToolRound

\* The result of a call, with the count of the errors in a row.
LEMMA ResultReplays ==
  ASSUME Undiverted, Strong, CouplingInv, Remembered, Replay, io = "none",
         pc \in {"dispatch", "approval_wait", "tool"}, synced,
         NEW code \in Codes, NEW invoked, Result(code, invoked),
         AcceptsToolResult(disk, turn.at, code),
         code = "skipped" =>
            pc = "dispatch" /\ Kind = "check" /\ turn.failedCheck,
         facts'.sig = facts.sig, facts'.errs = facts.errs
  PROVE  Replay'
<1>1. /\ turn \in Turns /\ turn.at \in Nat /\ TypeOK /\ disk \in Histories
      /\ facts \in Facts /\ disk.errs \in Nat /\ facts.errs \in Nat
  BY DEF Strong, Inv, TypeOK, Turns, Facts, Histories
<1>2. /\ Counters /\ RoundFollows /\ StreakFollows /\ disk.valid
  BY Known
<1>3. code \in Tags
  BY DEF Tags
<1>4. PICK e \in Events :
         /\ e.type = "tool.result" /\ e.n = turn.at /\ e.tag = code
         /\ e.run = active.run /\ Send(e, "recording")
  <2>1. pc # "idle" /\ "tool.result" \in EventTypes
    BY DEF EventTypes, Ordinary
  <2> QED
    BY <1>1, <1>3, <2>1, SentEvent DEF Result
<1>5. Accepts(disk, e)
  BY <1>2, <1>4 DEF Accepts, Counters, Terminal
<1>6. /\ pc' = "recording" /\ turn'.code = code /\ turn'.at = turn.at
      /\ turn'.batch = turn.batch /\ turn'.finish = turn.finish
  <2>1. turn' = [turn EXCEPT !.code = code, !.invoked = invoked]
        /\ pc' = "recording"
    BY DEF Result, Send
  <2> QED
    BY <1>1, <2>1 DEF Turns
<1>7. Kind' = Kind /\ turn.finish = "tool_calls"
  BY <1>2, <1>6 DEF Kind, RoundFollows, AtCall
<1>8. disk.round.tools[turn.at].kind = Kind
  BY <1>2, CallIsCurrent
<1>9. Counted(facts.sig, facts.errs) \/ Skipping(SkipBound)
  BY <1>2 DEF StreakFollows, Over
<1>10. ASSUME disk' = Apply(disk, e) PROVE StreakFollows'
  <2>1. PICK streak : streak = Streak(disk.sig, disk.errs, Kind, code)
    OBVIOUS
  <2>2. disk'.sig = streak.sig /\ disk'.errs = streak.errs
    BY <1>1, <1>4, <1>8, <1>10, <2>1, ResultStreak
  <2>3. CASE code = "skipped"
    <3>1. turn.at >= 2 /\ "check" \in Offers /\ Skips
      <4>1. AtCall /\ turn.failedCheck
        BY <2>3 DEF AtCall
      <4>2. turn.at \in DOMAIN turn.batch
        BY DEF Strong, Inv, CallInBatch
      <4> QED
        BY <2>3, <4>1, <4>2 DEF Remembered, Skips, CouplingInv, OnOffer, Kind
    <3>2. PICK new : new = [kind |-> Kind, code |-> code]
      OBVIOUS
    <3>3. streak = [sig |-> new, errs |-> IF disk.sig = new THEN disk.errs + 1
                                                           ELSE 1]
      BY <2>1, <2>3, <3>2 DEF Streak
    <3>4. new.code = "skipped"
      BY <2>3, <3>2
    <3>5. disk.sig = new => disk.errs = 0 \/ disk.errs <= turn.at - 2
      BY <1>9, <3>1, <3>4 DEF Counted, Skipping, SkipBound, Remembered
    <3>6. streak.errs <= turn.at - 1 /\ streak.sig.code = "skipped"
      BY <1>1, <3>1, <3>3, <3>4, <3>5
    <3>7. Skipping(turn.at - 1)'
      BY <1>6, <2>2, <3>1, <3>6 DEF Skipping
    <3> QED
      BY <1>6, <1>7, <2>3, <3>7 DEF StreakFollows, Over, Skipping
  <2>4. CASE code # "skipped"
    <3>1. disk.errs = 0 \/ (disk.sig = facts.sig /\ disk.errs <= facts.errs)
          \/ disk.sig.code = "skipped"
      BY <1>9 DEF Counted, Skipping
    <3>2. PICK two : two = Streak(facts.sig, facts.errs, Kind, code)
      OBVIOUS
    <3>3. streak.errs = 0 \/ (streak.sig = two.sig /\ streak.errs <= two.errs)
      <4>1. PICK sig, sig2 : sig = disk.sig /\ sig2 = facts.sig
        OBVIOUS
      <4>2. PICK errs \in Nat, errs2 \in Nat :
               errs = disk.errs /\ errs2 = facts.errs
        BY <1>1
      <4>3. errs = 0 \/ (sig = sig2 /\ errs <= errs2) \/ sig.code = "skipped"
        BY <3>1, <4>1, <4>2
      <4>4. streak = Streak(sig, errs, Kind, code)
            /\ two = Streak(sig2, errs2, Kind, code)
        BY <2>1, <3>2, <4>1, <4>2
      <4>5. \/ Streak(sig, errs, Kind, code).errs = 0
            \/ /\ Streak(sig, errs, Kind, code).sig
                    = Streak(sig2, errs2, Kind, code).sig
               /\ Streak(sig, errs, Kind, code).errs
                    <= Streak(sig2, errs2, Kind, code).errs
        BY <2>4, <4>3, StreaksInStep
      <4> QED
        BY <4>4, <4>5
    <3>4. Streak(facts.sig, facts.errs, Kind, turn.code)' = two
      BY <1>6, <1>7, <3>2
    <3>5. Counted(two.sig, two.errs)'
      BY <2>2, <3>3 DEF Counted
    <3>6. /\ pc' \in Over /\ turn'.code # "skipped"
          /\ turn'.finish # "none"
      BY <1>6, <1>7, <2>4 DEF Over
    <3> QED
      BY <3>4, <3>5, <3>6 DEF StreakFollows, Counted
  <2> QED
    BY <2>3, <2>4
<1> QED
  BY <1>1, <1>4, <1>5, <1>10, SentReplays

\* The next call leaves room for one skipped check more.
LEMMA SettledBound ==
  ASSUME Strong, Remembered, pc = "settle", NextCall
  PROVE  SkipBound' \in Int /\ turn.at - 1 <= SkipBound'
<1>1. turn \in Turns /\ turn.at \in Nat /\ MaxBatch \in Nat
  BY ConstantsAssumption DEF Strong, Inv, TypeOK, Turns
<1>2. PICK n \in Nat : n = Len(turn.batch)
  BY <1>1 DEF Turns
<1>3. turn.at \in 1..n
  <2>1. turn.at \in DOMAIN turn.batch
    BY DEF Strong, Inv, CallInBatch
  <2>2. turn.batch \in Seq(Kinds)
    BY <1>1 DEF Turns
  <2> QED
    BY <1>2, <2>1, <2>2
<1>4. n <= MaxBatch
  BY <1>2 DEF Remembered
<1>5. turn'.at = IF turn.at < n THEN turn.at + 1 ELSE 0
  BY <1>1, <1>2, NextCallFields
<1>6. pc' = IF turn.at < n THEN "dispatch" ELSE "loop"
  BY <1>2 DEF NextCall, Goto
<1>7. CASE turn.at < n
  <2>1. turn'.at = turn.at + 1
    BY <1>5, <1>7
  <2> QED
    BY <1>1, <1>3, <1>4, <2>1 DEF SkipBound
<1>8. CASE ~(turn.at < n)
  <2>1. ~Skips'
    BY <1>6, <1>8 DEF Skips, AtCall
  <2> QED
    BY <1>1, <1>3, <1>4, <2>1 DEF SkipBound
<1> QED
  BY <1>7, <1>8

\* The steps on a call.
LEMMA CallMovesReplay ==
  ASSUME Undiverted, Strong, CouplingInv, Remembered, Replay,
         \/ Authorized \/ ApprovalRequired \/ Asking \/ ToolStarts
         \/ Recorded \/ Settle
  PROVE  Replay'
<1>1. /\ turn \in Turns /\ turn.at \in Nat /\ TypeOK /\ disk \in Histories
      /\ facts \in Facts
      /\ pc \in {"dispatch", "asking", "granted", "recording", "settle"}
      /\ pc \notin {"idle", "finishing", "requesting", "approval_wait"}
      /\ AtCall /\ io = "none"
  <2>1. /\ pc \in {"dispatch", "asking", "granted", "recording", "settle"}
        /\ io = "none"
    BY DEF Authorized, ApprovalRequired, Asking, ToolStarts, Recorded, Settle,
       Runnable, Prepared, At
  <2> QED
    BY <2>1 DEF Strong, Inv, TypeOK, Turns, AtCall
<1>2. /\ Counters /\ PhaseFollows /\ RoundFollows /\ StreakFollows
      /\ disk.valid /\ synced
  BY <1>1, Known
<1>3. FinishFromError => Replay'
  BY <1>1, FinishReplays
<1>4. PICK tool : tool = disk.round.tools[turn.at]
  OBVIOUS
<1>5. pc \in {"dispatch", "asking", "granted"} =>
         /\ InToolRound(disk) /\ IsCurrentTool(disk.round, turn.at)
         /\ tool \in Tools /\ tool.kind = Kind /\ tool.planned = Planned
         /\ CallFollows(tool)
  BY <1>1, <1>2, <1>4, CallIsCurrent
<1>6. "" \in Tags
  BY DEF Tags
<1>7. ASSUME NEW l \in {"asking", "approval_wait", "granted", "tool"}, pc' = l,
             turn' = turn, facts' = facts, pc \notin Over
      PROVE  SameCount
  BY <1>1, <1>7 DEF SameCount, SamePlace, SkipBound, Skips, AtCall, Over
<1>8. ASSUME NEW type \in Still, NEW tag \in Tags,
             NEW l \in {"asking", "granted", "tool"},
             Record(type, turn.at, tag, l), type # "tool.requested",
             pc \notin Over,
             \A e : e.type = type /\ e.n = turn.at /\ e.tag = tag
                    /\ e.run = active.run => Accepts(disk, e)
      PROVE  Replay'
  <2>1. type \in EventTypes /\ type # "tool.result"
    BY DEF Still, Ordinary, EventTypes
  <2>2. PICK e \in Events :
           /\ e.type = type /\ e.n = turn.at /\ e.tag = tag
           /\ e.run = active.run /\ Send(e, l)
    BY <1>1, <1>8, <2>1, SentEvent DEF Record
  <2>3. pc' = l /\ turn' = turn /\ facts' = facts
    BY <1>8 DEF Record, Send
  <2>4. SameCount
    BY <1>7, <1>8, <2>3
  <2> QED
    BY <1>1, <1>2, <1>8, <2>2, <2>4, StillReplays
<1>9. CASE Authorized
  <2>1. /\ pc = "dispatch" /\ Goto("granted") /\ pc' = "granted"
        /\ turn' = turn /\ facts' = facts
    BY <1>9 DEF Authorized, Continue, Goto, Runnable, Prepared, At
  <2>2. SameCount
    BY <1>7, <2>1 DEF Over
  <2> QED
    BY <1>1, <1>2, <2>1, <2>2, MovedReplays
<1>10. CASE ApprovalRequired
  <2>1. /\ pc = "dispatch" /\ ~PhaseDenied /\ "ask" \in Verdicts(Kind)
    BY <1>10 DEF ApprovalRequired, Runnable, Prepared, At
  <2>2. active.phase # "planning"
    BY <2>1 DEF Verdicts, PhaseDenied, IsPlanningTool
  <2>3. tool.approval = "none" /\ ~tool.started
    BY <1>5, <2>1 DEF CallFollows, Fresh
  <2>4. AcceptsApprovalRequest(disk, turn.at)
    BY <1>2, <1>4, <1>5, <2>1, <2>2, <2>3
    DEF AcceptsApprovalRequest, PhaseFollows
  <2>5. \A e : e.type = "approval.required" /\ e.n = turn.at
               /\ e.run = active.run => Accepts(disk, e)
    BY <1>2, <2>4 DEF Accepts, Counters, Terminal
  <2>6. "approval.required" \in Still /\ pc \notin Over
    BY <2>1 DEF Still, Ordinary, Over
  <2>7. PICK tag \in Tags : Record("approval.required", turn.at, tag, "asking")
    BY <1>6, <1>10 DEF ApprovalRequired
  <2> QED
    BY <1>8, <2>5, <2>6, <2>7
<1>11. CASE Asking
  <2>1. pc = "asking" /\ pc \notin Over
    BY <1>11 DEF Asking, At, Over
  <2>2. CASE Record("approval.resolved", turn.at, "approved", "granted")
    <3>1. tool.approval = "pending" /\ ~tool.started
      BY <1>5, <2>1 DEF CallFollows
    <3>2. AcceptsApprovalResolution(disk, turn.at)
      BY <1>4, <1>5, <2>1, <3>1 DEF AcceptsApprovalResolution
    <3>3. \A e : e.type = "approval.resolved" /\ e.n = turn.at
                 /\ e.run = active.run => Accepts(disk, e)
      BY <1>2, <3>2 DEF Accepts, Counters, Terminal
    <3>4. "approved" \in Tags /\ "approval.resolved" \in Still
      BY DEF Tags, Still, Ordinary
    <3> QED
      BY <1>8, <2>1, <2>2, <3>3, <3>4
  <2>3. CASE Goto("approval_wait") /\ UNCHANGED <<turn, facts>>
    <3>1. pc' = "approval_wait"
      BY <2>3 DEF Goto
    <3>2. SameCount
      BY <1>7, <2>1, <2>3, <3>1
    <3> QED
      BY <1>1, <1>2, <2>3, <3>2, MovedReplays
  <2> QED
    BY <1>11, <2>2, <2>3 DEF Asking
<1>12. CASE ToolStarts
  <2>1. pc = "granted" /\ pc \notin Over
    BY <1>12 DEF ToolStarts, At, Over
  <2>2. CASE ~FinishFromError
    <3>1. /\ ~tool.started /\ tool.approval \in {"none", "approved"}
          /\ tool.planned => IsPlanningTool(tool.kind)
      BY <1>5, <2>1 DEF CallFollows, Remembered
    <3>2. AcceptsToolStart(disk, turn.at)
      BY <1>4, <1>5, <2>1, <3>1 DEF AcceptsToolStart
    <3>3. \A e : e.type = "tool.started" /\ e.n = turn.at
                 /\ e.run = active.run => Accepts(disk, e)
      BY <1>2, <3>2 DEF Accepts, Counters, Terminal
    <3>4. "tool.started" \in Still
      BY DEF Still, Ordinary
    <3>5. PICK tag \in Tags : Record("tool.started", turn.at, tag, "tool")
      BY <1>6, <1>12, <2>2 DEF ToolStarts
    <3> QED
      BY <1>8, <2>1, <3>3, <3>4, <3>5
  <2> QED
    BY <1>3, <2>2
<1>13. CASE Recorded
  <2>1. /\ pc = "recording" /\ turn' = turn /\ Kind # "service"
    BY <1>13 DEF Recorded, At, Undiverted, CouplingInv, OnOffer, Kind, Strong,
       Inv, CallInBatch
  <2>2. facts' = facts \/ facts' \in FactsAfter(Kind, turn.code)
    BY <1>13 DEF Recorded
  <2>3. facts'.errs = facts.errs /\ facts'.sig = facts.sig
    BY <1>1, <2>1, <2>2, FactsAfterRemember
  <2>4. ASSUME NEW l \in {"settle", "hopeless"}, pc' = l PROVE SameCount
    BY <2>1, <2>3, <2>4 DEF SameCount, SamePlace, Over
  <2>5. CASE Goto("settle")
    <3>1. pc' = "settle"
      BY <2>5 DEF Goto
    <3> QED
      BY <1>1, <1>2, <2>4, <2>5, <3>1, MovedReplays
  <2>6. CASE ~Goto("settle")
    <3>1. PICK l \in {"settle", "hopeless"}, tag \in Tags :
             Send(RunEvent("validation.repair.warning", 0, tag), l)
      BY <1>6, <1>13, <2>6 DEF Recorded
    <3>2. PICK e \in Events :
             /\ e.type = "validation.repair.warning" /\ e.run = active.run
             /\ Send(e, l)
      <4>1. "validation.repair.warning" \in EventTypes
        BY DEF EventTypes, Ordinary
      <4> QED
        BY <1>1, <3>1, <4>1, SentEvent
    <3>3. AcceptsRepairWarning(disk)
      BY <1>1, <1>2, <2>1
      DEF AcceptsRepairWarning, Counters, RoundFollows, BatchFollows
    <3>4. Accepts(disk, e)
      BY <1>2, <3>2, <3>3 DEF Accepts, Counters, Terminal
    <3>5. pc' = l
      BY <3>1 DEF Send
    <3>6. SameCount
      BY <2>4, <3>5
    <3> QED
      BY <1>1, <1>2, <3>2, <3>4, <3>6, StillReplays DEF Still, Ordinary
  <2> QED
    BY <2>5, <2>6
<1>14. CASE Settle
  <2>1. pc = "settle" /\ pc \in Over
    BY <1>14 DEF Settle, At, Over
  <2>2. ASSUME NextCall,
               \/ turn.code = "skipped" /\ facts' = facts
               \/ /\ turn.code # "skipped"
                  /\ LET streak == Streak(facts.sig, facts.errs, Kind, turn.code)
                     IN facts'.sig = streak.sig /\ facts'.errs = streak.errs
        PROVE  Replay'
    <3>1. PICK l \in {"dispatch", "loop"} : Goto(l)
      BY <2>2 DEF NextCall
    <3>2. /\ disk' = disk /\ pc' = l
      BY <3>1 DEF Goto, durable
    <3>3. turn'.finish = "tool_calls"
      BY <1>1, <1>2, <2>2, NextCallFields DEF RoundFollows
    <3>4. Counted(facts.sig, facts.errs)' \/ Skipping(SkipBound)'
      <4>1. CASE turn.code = "skipped"
        <5>1. Skipping(turn.at - 1)
          BY <1>2, <2>1, <4>1 DEF StreakFollows
        <5>2. turn.at - 1 <= SkipBound' /\ SkipBound' \in Int
          BY <2>1, <2>2, SettledBound
        <5>3. disk.errs \in Nat
          BY <1>1 DEF Histories
        <5> QED
          BY <1>1, <3>2, <5>1, <5>2, <5>3 DEF Skipping
      <4>2. CASE turn.code # "skipped"
        <5>1. PICK streak : streak = Streak(facts.sig, facts.errs, Kind, turn.code)
          OBVIOUS
        <5>2. Counted(streak.sig, streak.errs)
          BY <1>2, <2>1, <4>2, <5>1 DEF StreakFollows
        <5>3. facts'.sig = streak.sig /\ facts'.errs = streak.errs
          BY <2>2, <4>2, <5>1
        <5> QED
          BY <3>2, <5>2, <5>3 DEF Counted
      <4> QED
        BY <4>1, <4>2
    <3>5. StreakFollows'
      BY <3>2, <3>3, <3>4 DEF StreakFollows, Over, Counted, Skipping
    <3> QED
      BY <1>1, <1>2, <3>1, <3>5, GotoReplays
  <2>3. CASE ~FinishFromError
    <3>1. CASE turn.code = "skipped"
      BY <1>14, <2>2, <3>1 DEF Settle
    <3>2. CASE turn.code # "skipped"
      <4>1. PICK streak : streak = Streak(facts.sig, facts.errs, Kind, turn.code)
        OBVIOUS
      <4>2. PICK reads \in ReadStreaks :
               /\ facts' = [facts EXCEPT !.sig = streak.sig,
                                         !.errs = streak.errs, !.reads = reads]
               /\ NextCall
        BY <1>14, <2>3, <3>2, <4>1 DEF Settle
      <4>3. facts'.sig = streak.sig /\ facts'.errs = streak.errs
        BY <1>1, <4>2 DEF Facts
      <4> QED
        BY <2>2, <3>2, <4>1, <4>2, <4>3
    <3> QED
      BY <3>1, <3>2
  <2> QED
    BY <1>3, <2>3
<1> QED
  BY <1>9, <1>10, <1>11, <1>12, <1>13, <1>14

\* The steps that end a call.
LEMMA CallEndsReplay ==
  ASSUME Undiverted, Strong, CouplingInv, Remembered, Replay,
         \/ DispatchAborted \/ ToolAborted \/ GivenUp \/ DispatchDirect
         \/ DispatchSkipped \/ DispatchWithoutParent \/ Denied
         \/ ApprovalAnswered \/ ToolReturns
  PROVE  Replay'
<1>1. /\ turn.at \in Nat /\ TypeOK /\ disk \in Histories /\ facts \in Facts
      /\ active \in Actives
      /\ pc \in {"dispatch", "approval_wait", "tool", "hopeless"}
      /\ pc \notin {"idle", "finishing", "requesting"} /\ io = "none"
  <2>1. pc \in {"dispatch", "approval_wait", "tool", "hopeless"} /\ io = "none"
    BY DEF DispatchAborted, ToolAborted, GivenUp, DispatchDirect,
       DispatchSkipped, DispatchWithoutParent, Denied, ApprovalAnswered,
       ToolReturns, Runnable, Prepared, At
  <2> QED
    BY <2>1 DEF Strong, Inv, TypeOK, Turns
<1>2. /\ Counters /\ PhaseFollows /\ RoundFollows /\ StreakFollows
      /\ disk.valid /\ (pc # "approval_wait" => synced)
  BY <1>1, Known
<1>3. FinishFromError => Replay'
  BY <1>1, FinishReplays
<1>4. PICK tool : tool = disk.round.tools[turn.at]
  OBVIOUS
<1>5. pc \in {"dispatch", "approval_wait", "tool"} =>
         /\ InToolRound(disk) /\ IsCurrentTool(disk.round, turn.at)
         /\ tool \in Tools /\ tool.kind = Kind /\ tool.planned = Planned
         /\ CallFollows(tool)
  BY <1>1, <1>2, <1>4, CallIsCurrent
<1>6. CASE DispatchAborted \/ ToolAborted \/ GivenUp
  BY <1>3, <1>6 DEF DispatchAborted, ToolAborted, GivenUp
<1>7. ASSUME At("dispatch"), NEW code \in Codes, NEW invoked,
             Result(code, invoked),
             Planned /\ ~IsPlanningTool(Kind) => code = "phase_denied",
             code = "skipped" => Kind = "check" /\ turn.failedCheck,
             facts'.sig = facts.sig, facts'.errs = facts.errs
      PROVE  Replay'
  <2>1. pc = "dispatch" /\ synced
    BY <1>2, <1>7 DEF At
  <2>2. tool.approval = "none" /\ ~tool.started
    BY <1>5, <2>1 DEF CallFollows, Fresh
  <2>3. AcceptsToolResult(disk, turn.at, code)
    BY <1>4, <1>5, <1>7, <2>1, <2>2 DEF AcceptsToolResult
  <2> QED
    BY <1>1, <1>7, <2>1, <2>3, ResultReplays
<1>8. CASE DispatchDirect
  <2>1. At("dispatch") /\ facts' = facts
    BY <1>8 DEF DispatchDirect
  <2>2. {"error", "phase_denied"} \subseteq Codes
    BY DEF Codes
  <2>3. Planned => Kind # "malformed"
    <3>1. Planned => TRUE \in PlanningModes
      BY DEF Planned, Remembered
    <3>2. Kind \in Offers
      BY <2>1 DEF At, CouplingInv, OnOffer, Kind, Strong, Inv, CallInBatch
    <3> QED
      BY <3>1, <3>2 DEF Undiverted
  <2> QED
    BY <1>7, <1>8, <2>1, <2>2, <2>3 DEF DispatchDirect, PhaseDenied, Planned
<1>9. CASE DispatchSkipped
  <2>1. /\ At("dispatch") /\ facts' = facts /\ ~PhaseDenied
        /\ Kind = "check" /\ turn.failedCheck /\ Result("skipped", FALSE)
    BY <1>9 DEF DispatchSkipped, Prepared
  <2>2. "skipped" \in Codes
    BY DEF Codes
  <2> QED
    BY <1>7, <2>1, <2>2 DEF PhaseDenied, Planned
<1>10. CASE DispatchWithoutParent
  <2>1. /\ At("dispatch") /\ ~PhaseDenied /\ Result("parent_missing", TRUE)
    BY <1>10 DEF DispatchWithoutParent, Runnable, Prepared
  <2>2. "parent_missing" \in Codes
    BY DEF Codes
  <2>3. facts'.sig = facts.sig /\ facts'.errs = facts.errs
    BY <1>1, <1>10 DEF DispatchWithoutParent, Facts
  <2> QED
    BY <1>7, <2>1, <2>2, <2>3 DEF PhaseDenied, Planned
<1>11. CASE Denied
  <2>1. At("dispatch") /\ ~PhaseDenied /\ Result("denied", TRUE)
        /\ facts' = facts
    BY <1>11 DEF Denied, Runnable, Prepared
  <2>2. "denied" \in Codes
    BY DEF Codes
  <2> QED
    BY <1>7, <2>1, <2>2 DEF PhaseDenied, Planned
<1>12. CASE ApprovalAnswered
  <2>1. pc = "approval_wait" /\ active.wait # "pending"
    BY <1>12 DEF ApprovalAnswered, At
  <2>2. active.wait \in {"approved", "rejected"} => synced
    BY <1>1, <2>1 DEF Replay, InStep
  <2>3. CASE active.wait = "approved"
    <3>1. Goto("granted") /\ turn' = turn /\ facts' = facts
          /\ pc' = "granted"
      BY <1>12, <2>3 DEF ApprovalAnswered, Goto
    <3>2. SameCount
      BY <2>1, <3>1 DEF SameCount, SamePlace, SkipBound, Skips, AtCall, Over
    <3> QED
      BY <1>1, <1>2, <2>2, <2>3, <3>1, <3>2, MovedReplays
  <2>4. CASE active.wait = "rejected"
    <3>1. Result("rejected", TRUE) /\ facts' = facts
      BY <1>12, <2>4 DEF ApprovalAnswered
    <3>2. tool.approval = "rejected" /\ ~tool.started
      BY <1>5, <2>1, <2>4 DEF CallFollows
    <3>3. ~Planned
      BY <2>1 DEF Strong, HandlerInv, Waiting, Planned
    <3>4. AcceptsToolResult(disk, turn.at, "rejected")
      BY <1>4, <1>5, <2>1, <3>2, <3>3 DEF AcceptsToolResult
    <3>5. "rejected" \in Codes
      BY DEF Codes
    <3> QED
      BY <1>1, <2>1, <2>2, <2>4, <3>1, <3>4, <3>5, ResultReplays
  <2>5. CASE active.wait = "store_error"
    <3>1. Forget
      BY <1>12, <2>5 DEF ApprovalAnswered, Leave
    <3> QED
      BY <1>2, <3>1, ForgetReplays
  <2>6. CASE active.wait \notin {"approved", "rejected", "store_error"}
    BY <1>3, <1>12, <2>6 DEF ApprovalAnswered
  <2> QED
    BY <2>3, <2>4, <2>5, <2>6
<1>13. CASE ToolReturns
  <2>1. PICK code \in {"ok", "error"} : Result(code, TRUE)
                                        /\ facts' \in ParentsSeen(Kind, code)
    BY <1>13 DEF ToolReturns
  <2>2. pc = "tool"
    BY <1>13 DEF ToolReturns, At
  <2>3. /\ tool.started /\ tool.approval \in {"none", "approved"}
        /\ tool.planned => IsPlanningTool(tool.kind)
    BY <1>5, <2>2 DEF CallFollows
  <2>4. AcceptsToolResult(disk, turn.at, code)
    BY <1>4, <1>5, <2>2, <2>3 DEF AcceptsToolResult
  <2>5. facts'.sig = facts.sig /\ facts'.errs = facts.errs
    BY <1>1, <2>1 DEF ParentsSeen, Facts
  <2>6. code \in Codes /\ code # "skipped"
    BY DEF Codes
  <2> QED
    BY <1>1, <1>2, <2>1, <2>2, <2>4, <2>5, <2>6, ResultReplays
<1> QED
  BY <1>6, <1>8, <1>9, <1>10, <1>11, <1>12, <1>13

LEMMA BatchStepReplays ==
  ASSUME Undiverted, Strong, CouplingInv, Remembered, Replay, BatchStep
  PROVE  Replay'
  BY BatchTakenReplays, CallMovesReplay, CallEndsReplay DEF BatchStep

\* An append of the run has returned.
LEMMA AppendReturnsReplays ==
  ASSUME Strong, Replay, AppendReturns
  PROVE  Replay'
<1>1. CASE Deliver
  BY <1>1, StepsTouch, TouchedReplays
<1>2. CASE StoreError
  BY <1>2, ForgetReplays DEF StoreError, Leave, Replay
<1>3. CASE HistoryError
  <2>1. active.ending
    BY <1>3 DEF HistoryError, Replay, InStep, Strong, Inv, Ownership
  <2> QED
    BY <1>3, <2>1, ForgetReplays DEF HistoryError, Leave, Replay
<1> QED
  BY <1>1, <1>2, <1>3 DEF AppendReturns

\* The answers of callers.
LEMMA DecideApprovalReplays ==
  ASSUME Strong, Replay, NEW d \in Deciders, NEW yes \in BOOLEAN,
         DecideApproval(d, yes)
  PROVE  Replay'
<1>1. /\ TypeOK /\ Ownership /\ Answers /\ Waiting /\ disk \in Histories
      /\ active \in Actives /\ turn.at \in Nat /\ dec \in [Deciders -> Decisions]
  BY DEF Strong, Inv, HandlerInv, TypeOK, Turns
<1>2. /\ active.run # NoRun /\ ~active.ending /\ active.ask = "open"
      /\ active' = [active EXCEPT !.ask = "resolved"]
      /\ dec[d].io = "idle"
      /\ UNCHANGED <<pc, io, turn, facts>>
  BY DEF DecideApproval, Deciding
<1>3. pc = "approval_wait" /\ io = "none" /\ active.wait \in {"pending", "aborted"}
  BY <1>1, <1>2 DEF Waiting, Ownership
<1>4. synced /\ disk.valid /\ Counters /\ StreakFollows /\ Running
  BY <1>2, <1>3, Known DEF Replay, InStep
<1>5. PICK result \in Outcomes, tag \in {"approved", "rejected"} :
         /\ Appends(RunEvent("approval.resolved", turn.at, tag), result)
         /\ dec' = [dec EXCEPT ![d] = [io |-> result, kind |-> "approval",
                                       run |-> active.run, yes |-> yes]]
  BY DEF DecideApproval, DecisionAppended, AnswerTag
<1>6. PICK e \in Events :
         /\ e.type = "approval.resolved" /\ e.n = turn.at /\ e.run = active.run
         /\ Appends(e, result)
  <2>1. active.run \in Runs
    BY <1>1, <1>2 DEF Actives
  <2>2. PICK e : e = RunEvent("approval.resolved", turn.at, tag)
    OBVIOUS
  <2>3. tag \in Tags /\ "approval.resolved" \in EventTypes
    BY DEF Tags, Codes, EventTypes, Ordinary
  <2>4. e \in Events
    BY <1>1, <2>1, <2>2, <2>3, RunEventType
  <2>5. e.type = "approval.resolved" /\ e.n = turn.at /\ e.run = active.run
    BY <2>2 DEF RunEvent, Event
  <2> QED
    BY <1>5, <2>2, <2>4, <2>5
<1>7. Accepts(disk, e)
  <2>1. PICK tool : tool = disk.round.tools[turn.at]
    OBVIOUS
  <2>2. /\ InToolRound(disk) /\ IsCurrentTool(disk.round, turn.at)
        /\ CallFollows(tool)
    BY <1>3, <1>4, <2>1, CallIsCurrent
  <2>3. tool.approval = "pending" /\ ~tool.started
    BY <1>2, <1>3, <2>2 DEF CallFollows
  <2>4. AcceptsApprovalResolution(disk, turn.at)
    BY <2>1, <2>2, <2>3 DEF AcceptsApprovalResolution
  <2> QED
    BY <1>4, <1>6, <2>4 DEF Accepts, Counters, Terminal
<1>8. /\ disk'.valid
      /\ disk' = disk \/ disk' = Apply(disk, e)
      /\ result = "delivering" => synced'
  BY <1>1, <1>6, <1>7, AcceptedAppend
<1>9. ErrorsFollow'
  <2>1. disk'.sig = disk.sig /\ disk'.errs = disk.errs
    BY <1>1, <1>6, <1>8, SameStreak DEF Still, Ordinary
  <2>2. SameCount
    BY <1>2 DEF SameCount, SamePlace, SkipBound, Skips, AtCall
  <2> QED
    BY <1>4, <2>1, <2>2, StreakStays DEF ErrorsFollow
<1>10. InStep'
  <2>1. active'.ask = "resolved" /\ active'.wait = active.wait
        /\ active'.run = active.run
    BY <1>1, <1>2 DEF Actives
  <2>2. \A c \in Deciders : Answering(c, "approval")' /\ ~synced'
                            => dec'[c].io # "delivering"
    <3>1. \A c \in Deciders : ~Answering(c, "approval")
      BY <1>1, <1>2 DEF Answers, ApprovalsAnswered
    <3>2. \A c \in Deciders : c # d => dec'[c] = dec[c]
      BY <1>1, <1>5
    <3>3. dec'[d].io = result
      BY <1>1, <1>5
    <3> QED
      BY <1>8, <2>1, <3>1, <3>2, <3>3 DEF Answering
  <2> QED
    BY <1>2, <1>3, <2>1, <2>2 DEF InStep, Running
<1>11. Decidable'
  <2>1. pc' = "approval_wait"
    BY <1>2, <1>3
  <2> QED
    BY <2>1 DEF Decidable
<1> QED
  BY <1>8, <1>9, <1>10, <1>11 DEF Replay

LEMMA DecidePlanReplays ==
  ASSUME Undiverted, Strong, Remembered, Replay, NEW d \in Deciders,
         NEW yes \in BOOLEAN, DecidePlan(d, yes)
  PROVE  Replay'
<1>1. /\ TypeOK /\ Ownership /\ Waiting /\ disk \in Histories
      /\ active \in Actives /\ dec \in [Deciders -> Decisions]
  BY DEF Strong, Inv, HandlerInv, TypeOK
<1>2. /\ active.run # NoRun /\ ~active.ending /\ active.plan = "open"
      /\ active.phase = "awaiting" /\ dec[d].io = "idle"
      /\ UNCHANGED <<pc, io, active, turn, facts>>
  BY DEF DecidePlan, Deciding
<1>3. pc = "plan_wait" /\ io = "none"
  BY <1>1, <1>2 DEF Waiting, Ownership
<1>4. /\ synced /\ disk.valid /\ Counters /\ StreakFollows /\ Running
  BY <1>3, Known
<1>5. /\ "committed" \notin StoreFailures /\ \A c \in Deciders : c = d
  BY <1>2 DEF Remembered, Undiverted
<1>6. disk.phase = "awaiting" /\ disk.plan = "proposed"
  BY <1>2, <1>3, <1>5 DEF Replay, Decidable, Answering
<1>7. PICK result \in Outcomes, tag \in {"approved", "rejected"} :
         /\ Appends(RunEvent("plan.approval.resolved", 0, tag), result)
         /\ dec' = [dec EXCEPT ![d] = [io |-> result, kind |-> "plan",
                                       run |-> active.run, yes |-> yes]]
  BY DEF DecidePlan, DecisionAppended, AnswerTag
<1>8. PICK e \in Events :
         /\ e.type = "plan.approval.resolved" /\ e.run = active.run
         /\ Appends(e, result)
  <2>1. active.run \in Runs
    BY <1>1, <1>2 DEF Actives
  <2>2. PICK e : e = RunEvent("plan.approval.resolved", 0, tag)
    OBVIOUS
  <2>3. tag \in Tags /\ "plan.approval.resolved" \in EventTypes
    BY DEF Tags, Codes, EventTypes, Ordinary
  <2>4. e \in Events
    BY <2>1, <2>2, <2>3, RunEventType
  <2>5. e.type = "plan.approval.resolved" /\ e.run = active.run
    BY <2>2 DEF RunEvent, Event
  <2> QED
    BY <1>7, <2>2, <2>4, <2>5
<1>9. Accepts(disk, e)
  BY <1>4, <1>6, <1>8 DEF Accepts, AcceptsPlanResolution, Counters, Terminal
<1>10. /\ disk'.valid /\ synced'
       /\ disk' = disk \/ disk' = Apply(disk, e)
  BY <1>1, <1>4, <1>5, <1>8, <1>9, AcceptedAppend
<1>11. ErrorsFollow'
  <2>1. disk'.sig = disk.sig /\ disk'.errs = disk.errs
    BY <1>1, <1>8, <1>10, SameStreak DEF Still, Ordinary
  <2>2. SameCount
    BY <1>2 DEF SameCount, SamePlace, SkipBound, Skips, AtCall
  <2> QED
    BY <1>4, <2>1, <2>2, StreakStays DEF ErrorsFollow
<1>12. InStep'
  BY <1>2, <1>3, <1>10 DEF InStep
<1>13. Decidable'
  <2>1. dec'[d].io = result /\ dec'[d].kind = "plan" /\ dec'[d].run = active.run
    BY <1>1, <1>7
  <2>2. result # "delivering" => disk' = disk
    BY <1>4, <1>5, <1>8, <1>9 DEF Appends, durable
  <2> QED
    BY <1>2, <1>3, <1>6, <2>1, <2>2 DEF Decidable, Answering
<1> QED
  BY <1>10, <1>11, <1>12, <1>13 DEF Replay

\* A caller's append has returned; the file and the handler stay where they are.
LEMMA HeardReplays ==
  ASSUME Strong, Replay, NEW d \in Deciders, Heard(d),
         active'.ask \in {active.ask, "none"},
         pc = "approval_wait" /\ ~synced =>
             active'.wait \notin {"approved", "rejected"},
         pc = "plan_wait" /\ active'.plan = "open" =>
             /\ active.plan = "open"
             /\ ~(Answering(d, "plan") /\ dec[d].io = "delivering")
  PROVE  Replay'
<1>1. /\ pc' = pc /\ io' = io /\ turn' = turn /\ facts' = facts
      /\ disk' = disk /\ synced' = synced
  BY DEF Heard
<1>2. Followed' <=> Followed
  BY HeardAnswers
<1>3. \A c \in Deciders : \A kind \in {"approval", "plan"} :
         /\ Answering(c, kind)' => Answering(c, kind) /\ dec'[c] = dec[c]
         /\ Answering(c, kind) /\ c # d =>
                Answering(c, kind)' /\ dec'[c] = dec[c]
  BY HeardAnswers
<1>4. ErrorsFollow'
  <2>1. StreakFollows => StreakFollows'
    BY <1>1, StreakStays DEF SameCount, SamePlace, SkipBound, Skips, AtCall
  <2> QED
    BY <1>2, <2>1 DEF Replay, ErrorsFollow
<1>5. InStep'
  <2>1. Running' <=> Running
    BY <1>1 DEF Running
  <2>2. pc = "approval_wait" /\ ~synced =>
          \A c \in Deciders : Answering(c, "approval")' => dec'[c].io # "delivering"
    BY <1>3 DEF Replay, InStep
  <2> QED
    BY <1>1, <2>1, <2>2 DEF Replay, InStep
<1>6. Decidable'
  <2>1. /\ pc = "plan_wait" /\ active'.plan = "open"
        /\ \A c \in Deciders : Answering(c, "plan")' => dec'[c].io # "delivering"
        => \A c \in Deciders : Answering(c, "plan") => dec[c].io # "delivering"
    BY <1>3
  <2> QED
    BY <1>1, <1>2, <2>1 DEF Replay, Decidable
<1> QED
  BY <1>1, <1>4, <1>5, <1>6 DEF Replay

LEMMA DecisionReturnsReplays ==
  ASSUME Strong, Replay, NEW d \in Deciders, DecisionReturns(d)
  PROVE  Replay'
<1>1. /\ active \in Actives /\ dec[d] \in Decisions /\ Answers /\ Ownership
      /\ Waiting
  BY DEF Strong, Inv, TypeOK, HandlerInv
<1>2. /\ dec' = [dec EXCEPT ![d] = NoDecision]
      /\ UNCHANGED <<durable, pc, io, turn, facts, crashes>>
      /\ dec[d].io = "delivering"
  BY DEF DecisionReturns
<1>3. pc = "approval_wait" /\ ~synced =>
         active.wait \notin {"approved", "rejected"}
  BY DEF Replay, InStep
<1>4. CASE dec[d].run # active.run
  <2>1. active' = active
    BY <1>4 DEF DecisionReturns
  <2>2. Heard(d) /\ ~Answering(d, "plan")
    BY <1>2, <1>4, <2>1 DEF Heard, durable, Answering
  <2> QED
    BY <1>3, <2>1, <2>2, HeardReplays
<1>5. CASE dec[d].run = active.run
  <2>1. PICK a \in {active, SinkThrows(active)} :
          active' = DecisionTakesEffect(a, dec[d])
    BY <1>5 DEF DecisionReturns
  <2>2. /\ a \in Actives /\ a.run = active.run
        /\ a.ask = active.ask /\ a.plan = active.plan
        /\ a.wait = active.wait \/ (active.wait = "pending" /\ a.wait = "aborted")
    BY <1>1, SinkThrowsTouches, SinkThrowsType
  <2>3. active.run # NoRun
    BY <1>1, <1>2, <1>5, RunsAssumption DEF Answers, Addressed
  <2>4. active'.run = active.run /\ active'.ask \in {active.ask, "none"}
    BY <1>1, <2>1, <2>2, DecisionTakesEffectType
  <2>5. Heard(d)
    BY <1>2, <2>4 DEF Heard, durable
  <2>6. CASE dec[d].kind = "approval"
    <3>1. Answering(d, "approval") /\ ~Answering(d, "plan")
      BY <1>2, <1>5, <2>6 DEF Answering
    <3>2. pc # "plan_wait"
      BY <1>1, <2>3, <3>1 DEF Answers, ApprovalsAnswered
    <3>3. pc = "approval_wait" => synced
      BY <1>2, <3>1 DEF Replay, InStep
    <3> QED
      BY <2>4, <2>5, <3>2, <3>3, HeardReplays
  <2>7. CASE dec[d].kind = "plan"
    <3> DEFINE tag == AnswerTag(dec[d].yes)
               wait == IF a.wait = "pending" /\ pc = "plan_wait" THEN tag
                                                                 ELSE a.wait
               phase == IF dec[d].yes THEN "executing" ELSE a.phase
    <3>1. active' = [[a EXCEPT !.wait = wait] EXCEPT !.plan = "none",
                                                     !.phase = phase]
      <4>1. Settled(a, "plan", tag) = [a EXCEPT !.wait = wait]
        BY DEF Settled
      <4>2. [a EXCEPT !.wait = wait].phase = a.phase
        BY <2>2 DEF Actives
      <4> HIDE DEF wait
      <4> QED
        BY <2>1, <2>7, <4>1, <4>2 DEF DecisionTakesEffect, tag
    <3>2. pc = "approval_wait" => wait = a.wait
      OBVIOUS
    <3> HIDE DEF wait, phase
    <3>3. active'.plan = "none" /\ active'.wait = wait
      BY <2>2, <3>1 DEF Actives
    <3>4. pc = "approval_wait" /\ ~synced =>
            active'.wait \notin {"approved", "rejected"}
      BY <1>3, <2>2, <3>2, <3>3
    <3> QED
      BY <2>4, <2>5, <3>3, <3>4, HeardReplays
  <2> QED
    BY <1>1, <2>6, <2>7 DEF Decisions
<1> QED
  BY <1>4, <1>5

LEMMA DecisionFailsReplays ==
  ASSUME Strong, Replay, NEW d \in Deciders, DecisionFails(d)
  PROVE  Replay'
<1>1. active \in Actives /\ Answers /\ Waiting /\ Ownership
  BY DEF Strong, Inv, TypeOK, HandlerInv
<1>2. /\ dec' = [dec EXCEPT ![d] = NoDecision]
      /\ UNCHANGED <<durable, pc, io, turn, facts, crashes>>
      /\ dec[d].io \in {"store_error", "history_error"}
  BY DEF DecisionFails
<1>3. pc = "approval_wait" /\ ~synced =>
         active.wait \notin {"approved", "rejected"}
  BY DEF Replay, InStep
<1>4. CASE dec[d].run = active.run /\ dec[d].kind = "approval"
  <2> DEFINE wait == IF active.wait = "pending" THEN dec[d].io ELSE active.wait
  <2>1. active' = [[active EXCEPT !.wait = wait] EXCEPT !.ask = "none"]
    BY <1>4 DEF DecisionFails, Settled
  <2>2. wait = active.wait \/ wait \notin {"approved", "rejected"}
    BY <1>2
  <2> HIDE DEF wait
  <2>3. /\ active'.run = active.run /\ active'.plan = active.plan
        /\ active'.ask = "none" /\ active'.wait = wait
    BY <1>1, <2>1 DEF Actives
  <2>4. Heard(d)
    BY <1>2, <2>3 DEF Heard, durable
  <2> QED
    BY <1>2, <1>3, <2>2, <2>3, <2>4, HeardReplays
<1>5. CASE ~(dec[d].run = active.run /\ dec[d].kind = "approval")
  <2>1. active' = active
    BY <1>5 DEF DecisionFails
  <2>2. Heard(d)
    BY <1>2, <2>1 DEF Heard, durable
  <2> QED
    BY <1>2, <1>3, <2>1, <2>2, HeardReplays
<1> QED
  BY <1>4, <1>5

\* A recovery closes the run that is open; the next one starts with nothing.
LEMMA RecoverReplays ==
  ASSUME Strong, Replay, Recover
  PROVE  Replay'
<1>1. Ownership /\ disk \in Histories
  BY DEF Strong, Inv, TypeOK
<1>2. /\ active.run = NoRun /\ disk.valid /\ disk.run \in Runs
      /\ UNCHANGED <<synced, pc, io, active, turn, facts, others>>
  BY DEF Recover, OpenRuns
<1>3. pc = "idle" /\ io = "none" /\ pc' = pc /\ io' = io
  BY <1>1, <1>2 DEF Ownership
<1>4. "" \in Tags
  BY DEF Tags
<1>5. PICK tag \in Tags : Write(Event("run.interrupted", disk.run, 0, tag))
  BY <1>4 DEF Recover
<1>6. PICK e : e = Event("run.interrupted", disk.run, 0, tag)
  OBVIOUS
<1>7. e.type = "run.interrupted" /\ e.run = disk.run
  BY <1>6 DEF Event
<1>8. e \in Events
  BY <1>2, <1>6, EventType DEF EventTypes, Terminal
<1>9. Accepts(disk, e)
  BY <1>2, <1>7 DEF Accepts
<1>10. disk'.valid
  BY <1>1, <1>5, <1>6, <1>8, <1>9, ValidApplied DEF Write, Project
<1> QED
  BY <1>3, <1>10 DEF Replay, ErrorsFollow, InStep, Decidable, Followed, Running

LEMMA RunStartsReplays ==
  ASSUME Strong, Replay, RunStarts
  PROVE  Replay'
<1>1. TypeOK /\ Ownership /\ Synced
  BY DEF Strong, Inv, HandlerInv
<1>2. PICK r \in Runs, tag \in {"planning", "normal"} :
         /\ active.run = NoRun /\ disk.valid /\ disk.run = NoRun
         /\ Send(Event("run.started", r, 0, tag), "starting")
         /\ UNCHANGED <<turn, facts>>
  BY DEF RunStarts, StartRunOf
<1>3. synced /\ turn = NoTurn
  BY <1>1, <1>2 DEF Ownership, Synced
<1>4. PICK e : e = Event("run.started", r, 0, tag)
  OBVIOUS
<1>5. e.type = "run.started"
  BY <1>4 DEF Event
<1>6. e \in Events
  <2>1. tag \in Tags
    BY DEF Tags
  <2> QED
    BY <1>4, <2>1, EventType DEF EventTypes
<1>7. Accepts(disk, e)
  BY <1>2, <1>5 DEF Accepts
<1>8. disk' = Apply(disk, e) => StreakFollows'
  <2>1. Apply(disk, e) = StartRun(disk, e)
    BY <1>5 DEF Apply, Terminal
  <2>2. Apply(disk, e).errs = 0
    BY <2>1 DEF StartRun, EmptyHistory
  <2>3. pc' = "starting"
    BY <1>2 DEF Send
  <2> QED
    BY <2>2, <2>3 DEF StreakFollows, Over, Counted
<1>9. Send(e, "starting")
  BY <1>2, <1>4
<1> QED
  BY <1>1, <1>3, <1>5, <1>6, <1>7, <1>8, <1>9, SentReplays

LEMMA ReplayNext ==
  ASSUME Undiverted, Strong, CouplingInv, Remembered, Replay, [Next]_vars
  PROVE  Replay'
<1>1. disk.valid
  BY DEF Replay
<1>2. CASE RunStep
  BY <1>1, <1>2, AppendReturnsReplays, ModelStepReplays, StopStepReplays,
     BatchStepReplays, ForgetReplays DEF RunStep, Ended, Leave
<1>3. CASE DecisionStep
  BY <1>3, DecideApprovalReplays, DecidePlanReplays, DecisionReturnsReplays,
     DecisionFailsReplays DEF DecisionStep
<1>4. CASE AbortStep
  BY <1>4, StepsTouch, TouchedReplays
<1>5. CASE Crash
  BY <1>1, <1>5, ForgetReplays DEF Crash
<1>6. CASE UNCHANGED vars
  BY <1>6, TouchedReplays DEF vars, Touched
<1> QED
  BY <1>2, <1>3, <1>4, <1>5, <1>6, RecoverReplays, RunStartsReplays DEF Next

LEMMA ReplayInit == Init => Replay
  BY DEF Init, Replay, ErrorsFollow, InStep, Decidable, Followed, Running,
     EmptyHistory

\* In the settings of Undiverted, whatever the order of answers, aborts,
\* failures and crashes, the projection of the session (projection.ts) accepts every event the runtime
\* appends, so a session can be recovered, shown and continued: a step of
\* executeRun never appends what its file refuses, a caller never answers what
\* the file does not ask.  The hypothesis keeps out, one line each, the
\* settings in which the code does append an event its own file refuses.
THEOREM AlwaysReplayable ==
  ASSUME Undiverted
  PROVE  Spec => []HistoryReplayable
<1> DEFINE All == CouplingInv /\ Remembered /\ Replay
<1>1. Init => All
  BY CouplingInit, RememberedInit, ReplayInit
<1>2. Strong /\ All /\ [Next]_vars => All'
  <2>1. "service" \notin Offers
    BY DEF Undiverted
  <2> QED
    BY <2>1, CouplingNext, RememberedNext, ReplayNext
<1>3. All => HistoryReplayable
  BY DEF Replay, HistoryReplayable
<1> QED
  BY <1>1, <1>2, <1>3, HandlerInvariance, Invariance, PTL DEF Strong, Spec

=============================================================================
