------------------------------ MODULE Conversation ------------------------------
(***************************************************************************)
(* What the model is told from one request to the next: the rounds of a    *)
(* session and the memory that compactions make of the older ones          *)
(* (src/lib/context: provider.ts, compaction.ts, message-renderer.ts,      *)
(* summary-generator.ts, fallback-summary.ts), and the wire messages that  *)
(* the model client makes of them with the provider's own turns it has     *)
(* kept (src/lib/model/chat-mapper.ts).  The runtime appears with the      *)
(* events it writes between two requests.                                  *)
(*                                                                         *)
(* Sizes are tokens.  A round is one token and what is shown of its tool   *)
(* outputs; a text is "kept", "none", or "bad" where the language policy   *)
(* refuses it.  A tool call is "ok" or "bad" (malformed).                  *)
(***************************************************************************)
EXTENDS OutputProjection

CONSTANTS
    Retain,       \* CONTEXT_RETAIN_RECENT_ROUNDS
    Trigger,      \* CONTEXT_SOFT_COMPACTION_TRIGGER_TOKENS
    Budget,       \* the input budget of the profile
    Target,       \* tokens a summary may take
    FallbackFloor,  \* tokens of the shortest one without the model
    Fixed,        \* tokens of the system messages and the tools
    OutputSizes, Batches,  \* what tools return, and the batches of calls
    PlanRuns,     \* the runs that plan first
    MaxRuns, MaxRequests   \* bounds

ASSUME ConversationBounds ==
    /\ {Retain, Trigger, Budget, Target, FallbackFloor, Fixed, MaxRuns,
        MaxRequests} \subseteq Nat /\ FallbackFloor > 0
    /\ OutputSizes \subseteq Nat /\ Batches \subseteq Seq({"ok", "bad"}) \ {<<>>}

VARIABLES
    pc,        \* "idle", "build", "estimate", "summary", "compact", "request",
               \* "model", "tools", "plan", or "refused"
    run,       \* runs started; the last one is active unless pc is "idle"
    requests,  \* requests made, which number the calls of each answer
    last,      \* the sequence number of the last event
    rounds,    \* the whole rounds of the session, projected from its events
    open,      \* the round that is being answered
    latest,    \* the compaction in force
    draft,     \* the one the provider is making
    context,   \* the rounds and the memory of the prompt being made
    turns,     \* the continuation: the provider's turns that are kept
    wire,      \* what was sent
    accepted   \* the context projector accepts every compaction

vars == <<pc, run, requests, last, rounds, open, latest, draft, context, turns,
          wire, accepted>>

NoRound == [from |-> 0, calls |-> <<>>, outputs |-> <<>>, text |-> "none"]
NoCompaction == [through |-> 0, from |-> 1, to |-> 0, size |-> 0, covers |-> {}]
NoContext == [rounds |-> <<>>, covers |-> {}]
NoWire == [sent |-> <<>>, shown |-> {}, ok |-> TRUE]

Init ==
    /\ pc = "idle" /\ run = 0 /\ requests = 0 /\ last = 1 /\ rounds = <<>>
    /\ open = NoRound /\ latest = NoCompaction /\ draft = NoCompaction
    /\ context = NoContext /\ turns = <<>> /\ wire = NoWire /\ accepted = TRUE

Active == pc \notin {"idle", "refused"}
\* The plan of the active run is still to be proposed.
Planning == run \in PlanRuns /\ ~\E i \in DOMAIN rounds :
                rounds[i].run = run /\ rounds[i].kind \in {"proposal", "plan"}

\* The elements of a sequence at some of its places, in their order.
Filtered(s, places) ==
    [n \in 1..Cardinality(places) |->
        s[CHOOSE i \in places : Cardinality({j \in places : j < i}) + 1 = n]]

-----------------------------------------------------------------------------
(* The context of a request *)

\* roundsForCurrentProjection
CurrentRounds ==
    Filtered(rounds, {i \in DOMAIN rounds : rounds[i].to >= latest.from})

Outputs(history) == [k \in DOMAIN history |-> history[k].outputs]

\* The rounds with the outputs that are shown of them.
Shown(history) ==
    LET outputs == ProjectedOutputs(Outputs(history))
    IN [k \in DOMAIN history |-> [history[k] EXCEPT !.outputs = outputs[k]]]

Estimate(shown, summary) ==
    Fixed + summary + Len(shown)
      + Total(FlattenSeq([k \in DOMAIN shown |-> shown[k].outputs]))

SoftTrigger == IF Budget < Trigger THEN Budget ELSE Trigger

\* The numbers of rounds whose eviction would do.
Evictions ==
    LET current == context.rounds
    IN {n \in 1..Len(current) :
           /\ n + Retain <= Len(current) /\ n < Len(current)
           /\ current[n + 1].from - 1 > latest.through
           /\ Estimate(SubSeq(current, n + 1, Len(current)), 0) + Target
                 < SoftTrigger}

\* Fault for MemoryComplete: the summary is made of the evicted rounds alone.
SummaryOfEvicted(evicted) == {evicted[i].from : i \in DOMAIN evicted}

\* What the summary is made of: the evicted rounds and the summary before.
\* Both the model and the fallback are given all of it.  What they write is left
\* out: a fallback drops the facts that do not fit its target.
Covered(evicted) == latest.covers \cup {evicted[i].from : i \in DOMAIN evicted}

\* selectContextCompaction: the fewest rounds that make enough room.
Draft(n, size) ==
    LET current == context.rounds
    IN [through |-> current[n + 1].from - 1, from |-> current[n + 1].from,
        to |-> last, size |-> size, covers |-> Covered(SubSeq(current, 1, n))]

\* The run ends, for whatever reason; a round that is not whole is not kept.
EndRun ==
    /\ pc' = "idle" /\ last' = last + 1
    /\ open' = NoRound /\ draft' = NoCompaction /\ context' = NoContext
    /\ turns' = <<>> /\ wire' = NoWire
    /\ UNCHANGED <<run, requests, rounds, latest, accepted>>

\* run.started and user.message.
StartRun ==
    /\ pc = "idle" /\ run < MaxRuns
    /\ run' = run + 1 /\ last' = last + 2 /\ pc' = "build"
    /\ UNCHANGED <<requests, rounds, open, latest, draft, context, turns, wire,
                   accepted>>

\* The current history is read from the events and projected.
Build ==
    /\ pc = "build" /\ requests < MaxRequests /\ pc' = "estimate"
    /\ context' = [rounds |-> Shown(CurrentRounds), covers |-> latest.covers]
    /\ UNCHANGED <<run, requests, last, rounds, open, latest, draft, turns,
                   wire, accepted>>

\* The prompt is sent as it is, compacted before, or the run fails
\* (CONTEXT_BUDGET_EXCEEDED).
Choose ==
    /\ pc = "estimate"
    /\ LET baseline == Estimate(context.rounds, latest.size)
       IN IF baseline >= SoftTrigger /\ Evictions # {} THEN pc' = "summary"
                                                        ELSE /\ baseline < Budget
                                                             /\ pc' = "request"
    /\ UNCHANGED <<run, requests, last, rounds, open, latest, draft, context,
                   turns, wire, accepted>>

BuildFails ==
    /\ pc = "estimate" /\ Estimate(context.rounds, latest.size) >= Budget
    /\ Evictions = {} /\ EndRun

\* What generateContextSummary returns in the end: an answer that is empty,
\* no text, in the wrong language three times or too long is an error.
ModelSummaries == 1..Target

\* What the fallback makes of the facts when the model fails or is late: the
\* least it says, and what else fits.
FallbackSummaries == FallbackFloor..Target

Summarize ==
    /\ pc = "summary"
    /\ \E size \in ModelSummaries \cup FallbackSummaries :
          LET new == Draft(Min(Evictions), size)
              kept == Filtered(context.rounds,
                          {k \in DOMAIN context.rounds :
                              context.rounds[k].from >= new.from})
          IN IF Estimate(kept, size) >= Budget THEN EndRun
             ELSE /\ draft' = new
                  /\ context' = [rounds |-> kept, covers |-> new.covers]
                  /\ pc' = "compact"
                  /\ UNCHANGED <<run, requests, last, rounds, open, latest,
                                 turns, wire, accepted>>

\* compaction_range_invalid in the context projector.
RangeValid(new, seq) ==
    /\ new.from > new.through /\ new.to < seq /\ new.to <= last
    /\ latest # NoCompaction => new.through > latest.through /\ new.from >= latest.from

\* The runtime appends context.compacted; the projection of the session
\* refuses it behind a stop that was corrected (assertStableForCompaction).
Compact ==
    /\ pc = "compact"
    /\ accepted' = (accepted /\ RangeValid(draft, last + 1))
    /\ latest' = draft /\ draft' = NoCompaction /\ last' = last + 1
    /\ pc' = IF open.text = "bad" THEN "refused" ELSE "request"
    /\ UNCHANGED <<run, requests, rounds, open, context, turns, wire>>

-----------------------------------------------------------------------------
(* Messages, and the wire *)

Message(role, ids, text) == [role |-> role, ids |-> ids, text |-> text]

WellFormedIds(r) ==
    LET valid == Filtered(r.calls, {i \in DOMAIN r.calls : r.calls[i].ok})
    IN [i \in DOMAIN valid |-> valid[i].id]

\* renderRound: malformed calls are a remark of the system.
RoundMessages(r) ==
    LET ids == WellFormedIds(r)
        said == IF ids # <<>> \/ r.text # "none"
                THEN <<Message("assistant", ids, r.text)>> ELSE <<>>
        answers == [i \in DOMAIN ids |-> Message("tool", <<ids[i]>>, "none")]
        remark == IF Len(ids) < Len(r.calls)
                  THEN <<Message("system", <<>>, "none")>> ELSE <<>>
        decision == IF r.kind = "plan" THEN <<Message("user", <<>>, "none")>>
                                       ELSE <<>>
    IN said \o answers \o remark \o decision

Goal(n) == Message("goal", <<n>>, "none")

\* renderContextMessages: each run's goal in front of its first round.
Messages(shown) ==
    LET block(k) ==
            (IF \E j \in 1..(k - 1) : shown[j].run = shown[k].run THEN <<>>
             ELSE <<Goal(shown[k].run)>>) \o RoundMessages(shown[k])
        blocks == FlattenSeq([k \in DOMAIN shown |-> block(k)])
    IN blocks \o IF \E k \in DOMAIN shown : shown[k].run = run THEN <<>>
                 ELSE <<Goal(run)>>

\* The kept turns that hold one of the calls.
TurnsOf(ids) ==
    {t \in DOMAIN turns : \E i \in DOMAIN ids, j \in DOMAIN turns[t].ids :
        ids[i] = turns[t].ids[j]}

Own(ids, name) == [i \in DOMAIN ids |-> <<name, ids[i]>>]

Stored(t) == Message("assistant", Own(turns[t].ids, "provider"), turns[t].text)

\* The turns of held that have not been sent yet.
Put(w, held) ==
    [w EXCEPT !.sent = @ \o Filtered([t \in DOMAIN turns |-> Stored(t)],
                                     held \ w.shown),
              !.shown = @ \cup held]

\* A kept turn takes the place of the message made from the events, once.
WireAssistant(w, m) ==
    LET held == TurnsOf(m.ids)
    IN CASE held = {} ->
                [w EXCEPT !.sent = Append(@, [m EXCEPT !.ids = Own(@, "own")])]
         [] held # {} /\ \/ Cardinality(held) > 1
                         \/ \E i \in DOMAIN m.ids : TurnsOf(<<m.ids[i]>>) = {} ->
                [w EXCEPT !.ok = FALSE]
         [] OTHER -> Put(w, held)

WireTool(w, m) ==
    LET held == TurnsOf(m.ids)
        name == IF held = {} THEN "own" ELSE "provider"
    IN [Put(w, held) EXCEPT !.sent = Append(@, [m EXCEPT !.ids = Own(@, name)])]

WireMessage(w, m) ==
    CASE m.role = "assistant" -> WireAssistant(w, m)
      [] m.role = "tool" -> WireTool(w, m)
      [] OTHER -> [w EXCEPT !.sent = Append(@, m)]

\* buildChatRequest
Wire(messages) ==
    LET sofar[n \in 0..Len(messages)] ==
            IF n = 0 THEN NoWire ELSE WireMessage(sofar[n - 1], messages[n])
    IN sofar[Len(messages)]

\* model.requested, and the call of the model.
Request ==
    /\ pc = "request"
    /\ pc' = "model" /\ last' = last + 1 /\ requests' = requests + 1
    /\ open' = [NoRound EXCEPT !.from = last + 1]
    /\ wire' = Wire(Messages(context.rounds))
    /\ UNCHANGED <<run, rounds, latest, draft, context, turns, accepted>>

-----------------------------------------------------------------------------
(* The answer *)

\* The numbers of an answer's calls; no two answers share one.
Calls(batch) ==
    [i \in DOMAIN batch |-> [id |-> <<requests, i>>, ok |-> batch[i] = "ok"]]

\* Fault for WirePaired: a turn keeps its malformed calls as well.
KeptWithMalformed(calls, text) ==
    Append(turns, [ids |-> [i \in DOMAIN calls |-> calls[i].id], text |-> text])

\* The turn the accumulator adds: its well-formed calls, if there are any.
Kept(calls, text) ==
    LET ids == WellFormedIds([calls |-> calls])
    IN IF ids = <<>> THEN turns ELSE Append(turns, [ids |-> ids, text |-> text])

\* Fault for RefusedTextStaysOut: only the event is without the text.
Unsuppressed(kept, text) == kept

\* applyToolNarrativePolicy: a refused text is taken out of the last turn.
Suppressed(kept, text) ==
    IF text = "bad" /\ kept # <<>>
    THEN [kept EXCEPT ![Len(kept)].text = "none"] ELSE kept

\* model.completed, a rejection or the text, and tool.requested for each call.
ToolTurn ==
    /\ pc = "model"
    /\ \E batch \in Batches, text \in {"kept", "bad"} :
          /\ turns' = Suppressed(Kept(Calls(batch), text), text)
          /\ open' = [open EXCEPT !.calls = Calls(batch),
                                  !.text = IF text = "bad" THEN "none" ELSE text]
          /\ last' = last + Len(batch) + 2
    /\ pc' = "tools"
    /\ UNCHANGED <<run, requests, rounds, latest, draft, context, wire, accepted>>

Round(kind, to) ==
    [run |-> run, kind |-> kind, from |-> open.from, to |-> to,
     calls |-> open.calls, outputs |-> open.outputs,
     text |-> IF kind = "tools" THEN open.text ELSE "kept"]

Answered(calls, outputs) == Len(outputs) = Len(calls)

\* tool.result; the last one of the batch makes the round whole.
ToolResult ==
    /\ pc = "tools"
    /\ \E size \in OutputSizes :
          LET call == open.calls[Len(open.outputs) + 1]
              outputs == Append(open.outputs, IF call.ok THEN size ELSE 0)
          IN /\ ~call.ok => size = Min(OutputSizes)
             /\ IF Answered(open.calls, outputs)
                THEN /\ rounds' = Append(rounds,
                            [Round("tools", last + 1) EXCEPT !.outputs = outputs])
                     /\ open' = NoRound /\ pc' = "build"
                ELSE /\ open' = [open EXCEPT !.outputs = outputs]
                     /\ UNCHANGED <<rounds, pc>>
    /\ last' = last + 1
    /\ UNCHANGED <<run, requests, latest, draft, context, turns, wire, accepted>>

\* An answer that is refused and asked for again: its language, a missing
\* parent directory, checks that are missing.  The continuation is dropped.
StopRejected ==
    /\ pc = "model" /\ pc' = "build" /\ last' = last + 2 /\ turns' = <<>>
    /\ open' = [NoRound EXCEPT !.text = "bad"]
    /\ UNCHANGED <<run, requests, rounds, latest, draft, context, wire, accepted>>

\* model.completed, the final message and run.completed.
FinalAnswer ==
    /\ pc = "model" /\ ~Planning
    /\ rounds' = Append(rounds, Round("final", last + 2))
    /\ pc' = "idle" /\ last' = last + 3
    /\ open' = NoRound /\ draft' = NoCompaction /\ context' = NoContext
    /\ turns' = <<>> /\ wire' = NoWire
    /\ UNCHANGED <<run, requests, latest, accepted>>

ProposePlan ==
    /\ pc = "model" /\ Planning /\ pc' = "plan"
    /\ rounds' = Append(rounds, Round("proposal", last + 2)) /\ last' = last + 2
    /\ open' = NoRound
    /\ UNCHANGED <<run, requests, latest, draft, context, turns, wire, accepted>>

\* plan.approval.resolved; the caller's consent starts the work.
ApprovePlan ==
    /\ pc = "plan" /\ pc' = "build" /\ last' = last + 1 /\ turns' = <<>>
    /\ rounds' = [rounds EXCEPT ![Len(rounds)].kind = "plan"]
    /\ UNCHANGED <<run, requests, open, latest, draft, context, wire, accepted>>

\* Its refusal ends the run.
RejectPlan ==
    /\ pc = "plan" /\ pc' = "idle" /\ last' = last + 2
    /\ rounds' = [rounds EXCEPT ![Len(rounds)].kind = "plan"]
    /\ turns' = <<>> /\ context' = NoContext /\ wire' = NoWire
    /\ UNCHANGED <<run, requests, open, latest, draft, accepted>>

\* A failure, a cancellation, or a crash and the recovery after it.
Abort == Active /\ EndRun

Next ==
    \/ StartRun \/ Build \/ Choose \/ BuildFails \/ Summarize \/ Compact
    \/ Request \/ ToolTurn \/ ToolResult \/ StopRejected \/ FinalAnswer
    \/ ProposePlan \/ ApprovePlan \/ RejectPlan \/ Abort

Spec == Init /\ [][Next]_vars

-----------------------------------------------------------------------------
(* Properties *)

\* Whatever is sent, each turn of the assistant with calls is followed by the
\* answers to exactly these calls, in their order and under the names the
\* turn gave them, and no answer stands alone: the form providers insist on,
\* across corrections, compactions, malformed siblings and new runs
\* (buildChatRequest, renderContextMessages).
WirePaired ==
    pc = "model" =>
        LET w == wire.sent
            asks(i, n) == w[i].role = "assistant" /\ Len(w[i].ids) >= n
        IN /\ wire.ok
           /\ \A i \in DOMAIN w : \A n \in 1..Len(w[i].ids) :
                 w[i].role = "assistant" =>
                     /\ i + n \in DOMAIN w
                     /\ w[i + n].role = "tool" /\ w[i + n].ids = <<w[i].ids[n]>>
           /\ \A k \in DOMAIN w : w[k].role = "tool" =>
                 \E i \in 1..(k - 1) : asks(i, k - i)

\* A text the language policy refused is never sent back to the provider
\* (applyToolNarrativePolicy, suppressContinuationContent).
RefusedTextStaysOut ==
    pc = "model" => \A i \in DOMAIN wire.sent : wire.sent[i].text # "bad"

\* m is the goal of run n.
IsGoal(m, n) == m.role = "goal" /\ m.ids = <<n>>

\* Every whole round of the session is in the prompt, or in what a summary
\* was made of, directly or through the summaries before it; and the goal of
\* the run is there once.  Aborts and crashes between the making of a
\* summary and its event included (selectContextCompaction); and the projector
\* of the next build accepts every compaction: its ranges advance, and end
\* before the event (history-projector.ts:537-546).
MemoryComplete ==
    /\ accepted
    /\ pc \in {"compact", "request", "model"} =>
         /\ \A i \in DOMAIN rounds :
               \/ rounds[i].from \in context.covers
               \/ \E k \in DOMAIN context.rounds :
                     context.rounds[k].from = rounds[i].from
         /\ pc = "model" =>
               Cardinality({i \in DOMAIN wire.sent : IsGoal(wire.sent[i], run)}) = 1
         /\ \A k \in DOMAIN context.rounds :
               Len(context.rounds[k].calls) = Len(context.rounds[k].outputs)

\* The outputs shown fit their room, and it is used: one is cut only when
\* the room is spent, and then no older one has more than its mark.
OutputsShared ==
    pc = "estimate" =>
        LET full == Outputs(CurrentRounds)
            shown == Outputs(context.rounds)
            spent == Total(FlattenSeq(shown))
        IN /\ spent <= OutputRoom
           /\ \A k \in DOMAIN full : \A i \in DOMAIN full[k] :
                 \/ shown[k][i] = full[k][i] \/ shown[k][i] = OutputCap
                 \/ /\ spent = OutputRoom
                    /\ \A j \in 1..(k - 1) : \A n \in DOMAIN full[j] :
                          shown[j][n] <= Marker

=============================================================================
