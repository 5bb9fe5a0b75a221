---------------------------- MODULE ContextHistory ----------------------------
(***************************************************************************)
(* The second reader of a session's events: the context provider projects  *)
(* the same file into the rounds it shows the model                        *)
(* (src/lib/context/history-projector.ts).  It has rules of its own, and   *)
(* it reads the whole session before every model request: a history it     *)
(* refuses leaves the session without a context for good, even where the   *)
(* projection of SessionHistory still accepts every event.                 *)
(*                                                                         *)
(* One round is kept as the outcome that commitRound looks at.  Tool calls *)
(* are positions in the batch, as in SessionHistory.                       *)
(***************************************************************************)
EXTENDS SessionHistory

\* The facts commitRound and the handlers of one run look at.  "outcome" is
\* what settled a stop: a recorded rejection, a final message, or a plan.
Contexts ==
    [readable : BOOLEAN, goalless : BOOLEAN, run : Runs \cup {NoRun},
     goal : BOOLEAN, requests : Nat, pending : BOOLEAN,
     phase : Phases, planned : BOOLEAN, decided : BOOLEAN,
     finish : {"none", "stop", "tool_calls"},
     rejected : {"none", "retry", "suppressed"},
     evidence : BOOLEAN, dependency : BOOLEAN, committed : BOOLEAN,
     final : BOOLEAN, content : BOOLEAN, calls : Nat, results : SUBSET Nat,
     asked : SUBSET Nat, answered : SUBSET Nat]

EmptyContext ==
    [readable |-> TRUE, goalless |-> FALSE, run |-> NoRun,
     goal |-> FALSE, requests |-> 0, pending |-> FALSE,
     phase |-> "normal", planned |-> FALSE, decided |-> FALSE,
     finish |-> "none", rejected |-> "none", evidence |-> FALSE,
     dependency |-> FALSE, committed |-> FALSE, final |-> FALSE,
     content |-> FALSE, calls |-> 0, results |-> {}, asked |-> {},
     answered |-> {}]

NoContext == [EmptyContext EXCEPT !.readable = FALSE]

\* Fault for ReadersAgree: the results of a batch are counted from zero.
RoundCommitsOffByOne(c) ==
    \/ c.committed \/ c.finish = "none"
    \/ /\ c.finish = "stop"
       /\ c.rejected = "retry" \/ c.evidence \/ c.dependency \/ c.final
    \/ c.finish = "tool_calls" /\ c.results = 1..(c.calls - 1)

\* commitRound(run, true): the round before a model request must be whole.
RoundCommits(c) ==
    \/ c.committed \/ c.finish = "none"
    \/ /\ c.finish = "stop"
       /\ c.rejected = "retry" \/ c.evidence \/ c.dependency \/ c.final
    \/ c.finish = "tool_calls" /\ c.calls > 0 /\ c.results = 1..c.calls

ContextAcceptsRequest(c, n) ==
    RoundCommits(c) /\ c.goal /\ ~c.pending /\ n = c.requests + 1

ContextInRound(c, n) == c.finish # "none" /\ ~c.pending /\ n = c.requests

ContextAcceptsRejection(c, n, action) ==
    /\ ContextInRound(c, n) /\ c.rejected = "none"
    /\ c.finish = IF action = "retry" THEN "stop" ELSE "tool_calls"

ContextAcceptsCorrection(c, n, earlier) ==
    /\ ContextInRound(c, n) /\ c.finish = "stop"
    /\ c.rejected = "none" /\ ~earlier

ContextAcceptsPlan(c) ==
    /\ c.phase = "planning" /\ ~c.planned
    /\ c.finish = "stop" /\ c.rejected = "none" /\ ~c.committed

ContextAcceptsMessage(c, kind) ==
    /\ c.rejected = "none"
    /\ IF kind = "final"
       THEN c.finish = "stop" /\ ~c.final
       ELSE c.finish = "tool_calls" /\ ~c.content /\ c.calls = 0

ContextAcceptsTool(c, n) == c.finish = "tool_calls" /\ n \in 1..c.calls

ContextAccepts(c, e) ==
    /\ c.readable
    /\ c.run = IF e.type = "run.started" THEN NoRun ELSE e.run
    /\ CASE e.type = "user.message" -> ~c.goal /\ ~c.pending
         [] e.type = "model.requested" -> ContextAcceptsRequest(c, e.n)
         [] e.type = "model.completed" -> c.pending /\ e.n = c.requests
         [] e.type = "model.output.rejected" ->
                ContextAcceptsRejection(c, e.n, e.tag)
         [] e.type = "completion.evidence.rejected" ->
                ContextAcceptsCorrection(c, e.n, c.evidence)
         [] e.type = "write.dependency.rejected" ->
                ContextAcceptsCorrection(c, e.n, c.dependency)
         [] e.type = "validation.repair.warning" ->
                ~c.pending /\ c.finish = "tool_calls"
         [] e.type = "plan.proposed" -> ContextAcceptsPlan(c)
         [] e.type = "plan.approval.resolved" ->
                c.phase = "awaiting" /\ c.planned /\ ~c.decided
         [] e.type = "assistant.message" -> ContextAcceptsMessage(c, e.tag)
         [] e.type = "tool.requested" ->
                /\ c.finish = "tool_calls" /\ c.results = {}
                /\ e.n = c.calls + 1
         [] e.type = "approval.required" ->
                ContextAcceptsTool(c, e.n) /\ e.n \notin c.asked
         [] e.type = "approval.resolved" ->
                /\ ContextAcceptsTool(c, e.n)
                /\ e.n \in c.asked \ c.answered
         [] e.type = "tool.started" -> ContextAcceptsTool(c, e.n)
         [] e.type = "tool.result" ->
                ContextAcceptsTool(c, e.n) /\ e.n \notin c.results
         [] OTHER -> TRUE

\* A round that starts over, as model.requested creates it.
FreshRound(c) ==
    [c EXCEPT !.finish = "none", !.rejected = "none", !.evidence = FALSE,
              !.dependency = FALSE, !.committed = FALSE, !.final = FALSE,
              !.content = FALSE, !.calls = 0, !.results = {}, !.asked = {},
              !.answered = {}]

ContextResolvePlan(c, tag) ==
    IF tag = "approved"
    THEN [FreshRound(c) EXCEPT !.decided = TRUE, !.phase = "executing"]
    ELSE [c EXCEPT !.decided = TRUE]

\* Runs are kept for good, so a run that ends without its user.message
\* leaves freezeRun a run without a goal in every later context.
ContextEndRun(c) ==
    [EmptyContext EXCEPT !.goalless = c.goalless \/ ~c.goal]

ContextApply(c, e) ==
    CASE e.type = "run.started" ->
             [EmptyContext EXCEPT !.goalless = c.goalless, !.run = e.run,
                 !.phase = IF e.tag = "planning" THEN "planning" ELSE "normal"]
      [] e.type = "user.message" -> [c EXCEPT !.goal = TRUE]
      [] e.type = "model.requested" ->
             [FreshRound(c) EXCEPT !.requests = e.n, !.pending = TRUE]
      [] e.type = "model.completed" ->
             [c EXCEPT !.pending = FALSE,
                       !.finish = IF e.tag = "stop" THEN "stop"
                                                    ELSE "tool_calls"]
      [] e.type = "model.output.rejected" ->
             [c EXCEPT !.rejected = IF e.tag = "retry" THEN "retry"
                                                       ELSE "suppressed"]
      [] e.type = "completion.evidence.rejected" -> [c EXCEPT !.evidence = TRUE]
      [] e.type = "write.dependency.rejected" -> [c EXCEPT !.dependency = TRUE]
      [] e.type = "plan.proposed" ->
             [c EXCEPT !.planned = TRUE, !.committed = TRUE,
                       !.phase = "awaiting"]
      [] e.type = "plan.approval.resolved" -> ContextResolvePlan(c, e.tag)
      [] e.type = "assistant.message" ->
             IF e.tag = "final" THEN [c EXCEPT !.final = TRUE]
                                ELSE [c EXCEPT !.content = TRUE]
      [] e.type = "tool.requested" -> [c EXCEPT !.calls = e.n]
      [] e.type = "approval.required" -> [c EXCEPT !.asked = @ \cup {e.n}]
      [] e.type = "approval.resolved" -> [c EXCEPT !.answered = @ \cup {e.n}]
      [] e.type = "tool.result" -> [c EXCEPT !.results = @ \cup {e.n}]
      [] e.type \in Terminal -> ContextEndRun(c)
      [] OTHER -> c

\* The projection kept once e is in the file.
ProjectContext(c, e) ==
    IF ContextAccepts(c, e) THEN ContextApply(c, e) ELSE NoContext

\* snapshotContextHistory: every run, the open one included, has a goal.
Buildable(c) == c.readable /\ ~c.goalless /\ (c.run # NoRun => c.goal)

=============================================================================
