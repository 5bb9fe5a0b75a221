------------------------------- MODULE ModelCall -------------------------------
(***************************************************************************)
(* One call of the model client: complete (src/lib/model/client.ts), with  *)
(* the event stream it reads (sse.ts) and the chunks it puts together      *)
(* (chat-accumulator.ts).  Around it: a provider that refuses, streams,    *)
(* breaks off or hangs; the timer of the attempt; a caller that may abort  *)
(* at any moment and takes its time over every visible delta.              *)
(*                                                                         *)
(* A line of the stream is one token, and so is each end-of-line byte; the *)
(* network cuts the tokens into reads wherever it likes.  A chunk is the   *)
(* set of the parts it carries.                                            *)
(***************************************************************************)
EXTENDS Naturals, Sequences, FiniteSetsExt

CONSTANTS
    MaxAttempts,   \* dependencies.maxAttempts, at most 3 in the code
    MaxEvents,     \* bound: events the provider sends in one attempt
    Chunks         \* the chunks it may send, sets of Parts

\* What a chunk may carry.  The first line are the errors of an envelope, or
\* a chunk the schemas refuse; "foreign" is the id of another completion,
\* "choices" a second choice and "flood" a text beyond the size limit.
Parts == {"limited", "denied", "garbage",
          "foreign", "choices", "usage", "text", "blank", "flood", "reasoning",
          "call", "object", "second",
          "stop", "tools", "length", "busy"}

ASSUME ModelCallBounds ==
    /\ MaxAttempts \in Nat \ {0} /\ MaxEvents \in Nat
    /\ Chunks \subseteq SUBSET Parts

VARIABLES
    pc,         \* where complete stands
    attempt,    \* attempts begun
    aborted,    \* request.signal
    timer,      \* the timer of the attempt: "off", "armed" or "fired"
    body,       \* the body of the response: "none", "open" or "closed"
    eol,        \* how this provider ends its lines
    made,       \* events the provider has written in this attempt
    pipe,       \* written and not yet read
    closing,    \* the provider writes no more
    due,        \* history: events written and not yet taken by the accumulator
    buffer,     \* SSE: text without its line end
    data,       \* SSE: the data lines of the event being read
    eof,        \* SSE: the stream is at its end
    acc,        \* the accumulator
    rest,       \* the parts of a chunk left for after onTextDelta
    shown,      \* deltas the caller has taken, per attempt
    outcome

stream == <<eol, made, pipe, closing, due>>
parser == <<buffer, data, eof>>
vars == <<pc, attempt, aborted, timer, body, stream, parser, acc, rest, shown,
          outcome>>

-----------------------------------------------------------------------------
(* Tokens *)

CR == [kind |-> "CR", chunk |-> {}]
LF == [kind |-> "LF", chunk |-> {}]
Comment == [kind |-> "comment", chunk |-> {}]
Done == [kind |-> "done", chunk |-> {}]
Huge == [kind |-> "huge", chunk |-> {}]
Data(c) == [kind |-> "data", chunk |-> c]

Half == [kind |-> "half", chunk |-> {}]
Lost == [kind |-> "lost", chunk |-> {}]

LineEnds == {<<LF>>, <<CR, LF>>, <<CR>>}
\* The data lines of the events: a chunk may be spread over two of them.
Events == {<<Data(c)>> : c \in Chunks} \cup {<<Done>>, <<Huge>>, <<Half, Half>>}

EmptyAcc ==
    [semantic |-> FALSE, id |-> "none", text |-> 0, solid |-> FALSE,
     calls |-> [i \in {0, 1} |-> "none"], finish |-> "none", err |-> "none"]

Init ==
    /\ pc = "begin" /\ attempt = 0 /\ aborted = FALSE /\ timer = "off"
    /\ body = "none" /\ outcome = "none"
    /\ eol = <<LF>> /\ made = 0 /\ pipe = <<>> /\ closing = FALSE /\ due = <<>>
    /\ buffer = <<>> /\ data = <<>> /\ eof = FALSE
    /\ acc = EmptyAcc /\ rest = {}
    /\ shown = [a \in 1..MaxAttempts |-> 0]

\* The signal of the attempt: the caller's, or the timer's.
Cut == aborted \/ timer = "fired"

-----------------------------------------------------------------------------
(* How an attempt ends *)

\* Fault for OutputOnce: a timeout is worth a retry whatever was shown.
RetriesTimeouts(cause, a) == timer = "fired" \/ (~a.semantic /\ cause = "network")

Retryable(cause, a) ==
    /\ ~a.semantic
    /\ timer = "fired" \/ cause \in {"network", "limited"}

\* Fault for BodiesClosed: nobody lets go of the broken response.
LeaveBody == body

CloseBody == IF body = "open" THEN "closed" ELSE body

\* The tail of the loop: throw, or wait for the next attempt.
Settle(retryable, error) ==
    IF retryable /\ attempt < MaxAttempts
    THEN pc' = "sleeping" /\ outcome' = outcome
    ELSE pc' = "done" /\ outcome' = error

\* catch and finally around the attempt.
Catch(cause, a) ==
    /\ timer' = "off" /\ acc' = a /\ rest' = {} /\ body' = CloseBody
    /\ IF aborted THEN pc' = "done" /\ outcome' = "aborted"
       ELSE Settle(Retryable(cause, a),
                   IF timer = "fired" THEN "timeout" ELSE "failed")

\* Neither the caller nor the timer gets a turn while what was read is taken
\* apart: only onTextDelta gives way.
Abort ==
    /\ pc \notin {"parsing", "done"} /\ ~aborted /\ aborted' = TRUE
    /\ UNCHANGED <<pc, attempt, timer, body, stream, parser, acc, rest, shown,
                   outcome>>

Timeout ==
    /\ pc # "parsing" /\ timer = "armed" /\ timer' = "fired"
    /\ UNCHANGED <<pc, attempt, aborted, body, stream, parser, acc, rest,
                   shown, outcome>>

StartAttempt ==
    /\ pc' = "fetching" /\ attempt' = attempt + 1 /\ timer' = "armed"
    /\ body' = "none" /\ acc' = EmptyAcc /\ rest' = {}
    /\ made' = 0 /\ pipe' = <<>> /\ closing' = FALSE /\ due' = <<>>
    /\ buffer' = <<>> /\ data' = <<>> /\ eof' = FALSE
    /\ UNCHANGED <<aborted, eol, shown, outcome>>

\* The top of the loop; createAttemptContext.
Begin ==
    /\ pc = "begin"
    /\ IF ~aborted THEN StartAttempt
       ELSE /\ pc' = "done" /\ outcome' = "aborted"
            /\ UNCHANGED <<attempt, aborted, timer, body, stream, parser, acc,
                           rest, shown>>

\* Fault for CallEnds: the timer only covers the wait for the response.
DisarmedByResponse == timer' = "off"

KeepsTimer == timer' = timer

Accepted ==
    /\ pc = "fetching" /\ ~Cut
    /\ pc' = "reading" /\ body' = "open" /\ eol' \in LineEnds /\ KeepsTimer
    /\ UNCHANGED <<attempt, aborted, made, pipe, closing, due, parser, acc,
                   rest, shown, outcome>>

\* A response that is not ok: its body is read for the preview.
Refused ==
    /\ pc = "fetching" /\ ~Cut
    /\ pc' \in {"denied", "busy"} /\ body' = "open"
    /\ UNCHANGED <<attempt, aborted, timer, stream, parser, acc, rest, shown,
                   outcome>>

\* No response, or one without a body.
FetchFails ==
    /\ pc = "fetching"
    /\ \/ Catch("network", acc)
       \/ ~Cut /\ Catch("protocol", acc)
    /\ UNCHANGED <<attempt, aborted, stream, parser, shown>>

\* mapHttpFailure: a body that cannot be read only matters to a caller that
\* has left.
PreviewRead ==
    /\ pc \in {"denied", "busy"}
    /\ \/ aborted /\ Catch("network", acc)
       \/ /\ timer' = "off" /\ body' = CloseBody
          /\ Settle(pc = "busy", "failed")
          /\ UNCHANGED <<acc, rest>>
    /\ UNCHANGED <<attempt, aborted, stream, parser, shown>>

\* The wait before the next attempt answers to the caller alone.
Wake ==
    /\ pc = "sleeping"
    /\ IF aborted THEN pc' = "done" /\ outcome' = "aborted"
       ELSE pc' = "begin" /\ outcome' = outcome
    /\ UNCHANGED <<attempt, aborted, timer, body, stream, parser, acc, rest,
                   shown>>

-----------------------------------------------------------------------------
(* The provider's stream *)

\* What the data lines of an event amount to; half a chunk is not JSON.
Event(lines) ==
    CASE lines = <<Half, Half>> -> Data({"text"})
      [] Len(lines) = 1 /\ lines # <<Half>> -> lines[1]
      [] OTHER -> Data({"garbage"})

\* Every line with its end, the one or the two of them, and a blank one
\* behind the event.
Wire(event) ==
    IF Len(event) = 2
    THEN <<event[1]>> \o eol \o <<event[2]>> \o eol \o eol
    ELSE <<event[1]>> \o eol \o eol

\* The provider writes once all but the last byte is read, so that a read
\* may end one event and bring the next.
Writing ==
    /\ pc = "reading" /\ ~closing /\ Len(pipe) <= 1
    /\ made < MaxEvents /\ made' = made + 1
    /\ Done \notin {due[i] : i \in DOMAIN due}
    /\ UNCHANGED <<pc, attempt, aborted, timer, body, eol, parser, acc, rest,
                   shown, outcome>>

Write ==
    /\ Writing
    /\ \E event \in Events :
          pipe' = pipe \o Wire(event) /\ due' = Append(due, Event(event))
    /\ UNCHANGED closing

KeepAlive ==
    /\ Writing /\ pipe' = pipe \o <<Comment>> \o eol
    /\ UNCHANGED <<closing, due>>

\* The last event of a stream that ends without its blank line, or even
\* without the end of its line.
WriteLast ==
    /\ Writing /\ closing' = TRUE
    /\ \E event \in {e \in Events : Len(e) = 1}, end \in {<<>>, eol} :
          pipe' = pipe \o event \o end /\ due' = Append(due, event[1])

\* The network delivers a piece, wherever it is cut.
Read ==
    /\ pc = "reading" /\ ~Cut
    /\ \E n \in 1..Len(pipe) :
          /\ buffer' = buffer \o SubSeq(pipe, 1, n)
          /\ pipe' = SubSeq(pipe, n + 1, Len(pipe))
    /\ pc' = "parsing"
    /\ UNCHANGED <<attempt, aborted, timer, body, eol, made, closing, due, data,
                   eof, acc, rest, shown, outcome>>

ReadEnd ==
    /\ pc = "reading" /\ ~Cut /\ pipe = <<>>
    /\ eof' = TRUE /\ closing' = TRUE /\ body' = "closed" /\ pc' = "parsing"
    /\ UNCHANGED <<attempt, aborted, timer, eol, made, pipe, due, buffer, data,
                   acc, rest, shown, outcome>>

\* The signal is looked at before and after every read; or the network fails.
ReadFails ==
    /\ pc = "reading" /\ Catch("network", acc)
    /\ UNCHANGED <<attempt, aborted, stream, parser, shown>>

-----------------------------------------------------------------------------
(* parseSseStream *)

LineEnd(b) == Min({i \in DOMAIN b : b[i] \in {CR, LF}})

\* Fault for StreamAsWritten: a CR at the end of a piece ends its line at once.
HasLineEager(b) == \E i \in DOMAIN b : b[i] \in {CR, LF}

\* A CR at the end of what was read may be half of a CRLF.
HasLine(b) ==
    /\ \E i \in DOMAIN b : b[i] \in {CR, LF}
    /\ LineEnd(b) = Len(b) /\ b[Len(b)] = CR => eof

Width(b, end) ==
    IF b[end] = CR /\ end < Len(b) /\ b[end + 1] = LF THEN 2 ELSE 1

\* extractLines: the next line, empty for a blank one.
NextLine(b) == IF HasLine(b) THEN SubSeq(b, 1, LineEnd(b) - 1) ELSE b

Remainder(b) ==
    IF HasLine(b) THEN SubSeq(b, LineEnd(b) + Width(b, LineEnd(b)), Len(b))
                  ELSE <<>>

-----------------------------------------------------------------------------
(* accumulateChatCompletion *)

Fragments == {"call", "object", "second"}
IndexOf(part) == IF part = "second" THEN 1 ELSE 0
KindOf(part) == IF part = "object" THEN "object" ELSE "string"

Id(c) == IF "foreign" \in c THEN "other" ELSE "own"

\* What is refused before anything of the chunk is used.
Refusal(a, c) ==
    CASE "limited" \in c -> "limited"
      [] {"denied", "garbage"} \cap c # {} -> "protocol"
      [] a.id \notin {"none", Id(c)} -> "protocol"
      [] "choices" \in c -> "protocol"
      [] OTHER -> "none"

\* One content of a chunk, one delta for the caller.
Deltas(c) == {"text", "blank"} \cap c # {}

\* The checks, the usage and the visible text.
BeforeDelta(a, c) ==
    IF Refusal(a, c) # "none" THEN [a EXCEPT !.err = Refusal(a, c)]
    ELSE [a EXCEPT !.id = Id(c),
                   !.semantic = @ \/ {"usage", "text", "blank", "flood"} \cap c # {},
                   !.err = IF "flood" \in c THEN "large" ELSE "none",
                   !.text = IF Deltas(c) THEN @ + 1 ELSE @,
                   !.solid = @ \/ "text" \in c]

\* Objects and strings do not mix, and an object comes in one piece.
Clash(a, part) ==
    LET kind == a.calls[IndexOf(part)]
    IN IF part = "object" THEN kind # "none" ELSE kind = "object"

Finish(c) == c \cap {"stop", "tools", "length", "busy"}

\* The reasoning, the pieces of tool calls and the reason to finish.
AfterDelta(a, c) ==
    LET pieces == c \cap Fragments
        output == pieces \cup Finish(c) \cup ({"reasoning"} \cap c)
        b == [a EXCEPT !.semantic = @ \/ output # {}]
    IN CASE \E part \in pieces : Clash(a, part) -> [b EXCEPT !.err = "protocol"]
         [] a.finish # "none" /\ Finish(c) \notin {{}, {a.finish}} ->
                [b EXCEPT !.err = "protocol"]
         [] OTHER ->
                [b EXCEPT
                    !.calls = [i \in {0, 1} |->
                        IF \E part \in pieces : IndexOf(part) = i
                        THEN KindOf(CHOOSE part \in pieces : IndexOf(part) = i)
                        ELSE @[i]],
                    !.finish = IF Finish(c) = {} THEN @
                               ELSE CHOOSE f \in Finish(c) : TRUE]

Called(a) == {i \in {0, 1} : a.calls[i] # "none"}

\* Fault for HonestCompletion.
WholeUnchecked(a) == a.finish \in {"stop", "tools"}

\* What [DONE] must find.
Whole(a) ==
    \/ a.finish = "stop" /\ a.solid /\ Called(a) = {}
    \/ a.finish = "tools" /\ Called(a) # {}

\* The loop is left at [DONE]: the iterator is asked for nothing more.
Complete(a) ==
    IF Whole(a)
    THEN /\ pc' = "done" /\ outcome' = "completed" /\ timer' = "off"
         /\ UNCHANGED <<body, acc, rest>>
    ELSE Catch("protocol", a)

Absorb(a, c) ==
    IF a.err # "none" THEN Catch(a.err, a)
    ELSE /\ pc' = "parsing" /\ acc' = a /\ rest' = c
         /\ UNCHANGED <<timer, body, outcome>>

\* The accumulator takes an event of the stream.
Take(event) ==
    /\ due' = IF due # <<>> /\ Head(due) = event THEN Tail(due) ELSE <<Lost>>
    /\ IF event = Done THEN Complete(acc)
       ELSE LET a == BeforeDelta(acc, event.chunk)
            IN IF a.err = "none" /\ Deltas(event.chunk)
               THEN /\ pc' = "delta" /\ acc' = a /\ rest' = event.chunk
                    /\ UNCHANGED <<timer, body, outcome>>
               ELSE Absorb(IF a.err = "none" THEN AfterDelta(a, event.chunk)
                                             ELSE a, {})

\* onTextDelta is awaited, and may fail.
DeltaTaken ==
    /\ pc = "delta"
    /\ shown' = [shown EXCEPT ![attempt] = @ + 1]
    /\ Absorb(AfterDelta(acc, rest), {})
    /\ UNCHANGED <<attempt, aborted, stream, parser>>

DeltaFails ==
    /\ pc = "delta" /\ Catch("network", acc)
    /\ UNCHANGED <<attempt, aborted, stream, parser, shown>>

-----------------------------------------------------------------------------
(* The lines that were read, one at a time *)

Parsing ==
    /\ pc = "parsing"
    /\ UNCHANGED <<attempt, aborted, eol, made, pipe, closing, eof, shown>>

Available == HasLine(buffer) \/ (eof /\ buffer # <<>>)

\* processLine for a line that is not blank.
ParseLine ==
    /\ Parsing /\ Available /\ NextLine(buffer) # <<>>
    /\ buffer' = Remainder(buffer)
    /\ LET line == NextLine(buffer)[1]
       IN IF line = Huge THEN Catch("large", acc) /\ UNCHANGED data
          ELSE /\ data' = IF line = Comment THEN data ELSE Append(data, line)
               /\ UNCHANGED <<pc, timer, body, acc, rest, outcome>>
    /\ UNCHANGED due

\* A blank line ends the event, if there is one.
ParseBlank ==
    /\ Parsing /\ Available /\ NextLine(buffer) = <<>>
    /\ buffer' = Remainder(buffer) /\ data' = <<>>
    /\ IF data = <<>> THEN UNCHANGED <<pc, timer, body, due, acc, rest, outcome>>
       ELSE Take(Event(data))

\* Nothing more in what was read.
ParseRest ==
    /\ Parsing /\ ~Available /\ data' = IF eof THEN <<>> ELSE data
    /\ CASE ~eof -> pc' = "reading" /\ UNCHANGED <<timer, body, due, acc, rest,
                                                    outcome>>
         [] eof /\ data # <<>> -> Take(Event(data))
         [] OTHER -> Catch("protocol", acc) /\ UNCHANGED due
    /\ UNCHANGED buffer

-----------------------------------------------------------------------------
Client ==
    \/ Begin \/ Read \/ ParseLine \/ ParseBlank \/ ParseRest \/ DeltaTaken
    \/ PreviewRead \/ Wake

Provider ==
    \/ Accepted \/ Refused \/ FetchFails \/ Write \/ KeepAlive \/ WriteLast
    \/ ReadEnd \/ ReadFails \/ DeltaFails

Ended == pc = "done" /\ UNCHANGED vars

Next == Client \/ Provider \/ Timeout \/ Abort \/ Ended

Spec == Init /\ [][Next]_vars

\* The provider owes nothing: it may be silent for good.  The code goes on
\* where it can, the timer rings, and a request whose signal is cut fails.
CutFetch == Cut /\ FetchFails
CutRead == Cut /\ ReadFails

Fairness ==
    /\ WF_vars(Client) /\ WF_vars(Timeout) /\ WF_vars(CutFetch)
    /\ WF_vars(CutRead)

FairSpec == Spec /\ Fairness

-----------------------------------------------------------------------------
(* Properties *)

ModelCallType ==
    /\ pc \in {"begin", "fetching", "denied", "busy", "reading", "parsing",
               "delta", "sleeping", "done"}
    /\ attempt \in 0..MaxAttempts /\ aborted \in BOOLEAN
    /\ timer \in {"off", "armed", "fired"} /\ body \in {"none", "open", "closed"}
    /\ outcome \in {"none", "completed", "aborted", "timeout", "failed"}
    /\ (pc = "done") = (outcome # "none")
    /\ timer = "off" <=> pc \in {"begin", "sleeping", "done"}
    /\ acc.calls \in [{0, 1} -> {"none", "string", "object"}]

\* The visible text the caller has been given comes from one attempt, and a
\* completion carries exactly that text: no retry repeats or mixes output
\* that has already been shown (semanticAccepted in client.ts).
OutputOnce ==
    /\ ModelCallType
    /\ Cardinality({a \in 1..MaxAttempts : shown[a] > 0}) <= 1
    /\ outcome = "completed" =>
          \A a \in 1..MaxAttempts :
              shown[a] = IF a = attempt THEN acc.text ELSE 0

\* However the network cuts the bytes, and whatever ends the lines, the
\* accumulator is given the events the provider wrote, in their order
\* (extractLines and processLine in sse.ts).
StreamAsWritten == Lost \notin {due[i] : i \in DOMAIN due}

\* A stream that was cut short, contradicts itself or carries neither an
\* answer nor a call is never taken for a completion
\* (accumulateChatCompletion).
HonestCompletion ==
    outcome = "completed" =>
        /\ acc.err = "none" /\ due = <<>>
        /\ acc.finish = (IF Called(acc) = {} THEN "stop" ELSE "tools")
        /\ Called(acc) = {} => acc.solid

\* A response that broke is let go before the next one is asked for, and
\* before the call fails (the catch of the attempt, readErrorBody).
BodiesClosed == pc = "sleeping" \/ outcome \in {"aborted", "timeout", "failed"}
    => body # "open"

\* A call ends whatever the provider does, for the timer of the attempt
\* reaches every wait, under a caller that takes its deltas.
CallEnds == <>(pc = "done")

=============================================================================
