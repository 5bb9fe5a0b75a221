---------------------------- MODULE NdjsonBridge ----------------------------
(***************************************************************************)
(* The bridge between the events of a run and the body of its response     *)
(* (src/lib/server/ndjson.ts), as a value: each operation takes a bridge   *)
(* and returns the bridge after it.  The stream underneath is the          *)
(* ReadableStream of the platform: it asks for more ("pull") after a read, *)
(* after an enqueue and when it has started, as long as it has room, one   *)
(* pull at a time; a request that comes during a pull is made up for when  *)
(* the pull is over.                                                       *)
(*                                                                         *)
(* A line is the number of its event and its size in units of memory.      *)
(***************************************************************************)
EXTENDS Naturals, Sequences, FiniteSetsExt, SequencesExt

CONSTANTS
    Producers,   \* those who publish: the run's handler, the callers
    MaxLine,     \* MAX_NDJSON_LINE_BYTES
    MaxQueue     \* MAX_NDJSON_QUEUE_BYTES, the high water mark

ASSUME BridgeAssumption ==
    MaxLine \in Nat \ {0} /\ MaxQueue \in Nat /\ MaxLine <= MaxQueue

BridgeStates == {"open", "closing", "closed", "failed", "cancelled"}
Over == {"closed", "failed", "cancelled"}

WireLines == [event : Nat, size : Nat]

Bridges ==
    [state : BridgeStates, queue : Seq(WireLines),
     waiting : Seq([line : WireLines, producer : Producers]),
     started : BOOLEAN, pulling : BOOLEAN, again : BOOLEAN,
     bound : BOOLEAN, left : BOOLEAN, failed : SUBSET Producers]

NewBridge ==
    [state |-> "open", queue |-> << >>, waiting |-> << >>,
     started |-> FALSE, pulling |-> FALSE, again |-> FALSE,
     bound |-> FALSE, left |-> FALSE, failed |-> {}]

Used(queue) == FoldFunction(LAMBDA line, sum : line.size + sum, 0, queue)
Room(b) == IF b.state \in Over THEN 0 ELSE MaxQueue - Used(b.queue)

\* A producer whose publish has not settled, or has and it does not know.
Publishing(b, p) ==
    p \in b.failed \/ \E i \in DOMAIN b.waiting : b.waiting[i].producer = p

-----------------------------------------------------------------------------

\* The stream has not ended for its consumer, nor has that one left.
Readable(b) ==
    /\ ~b.left
    /\ b.state \in {"open", "closing"} \/ (b.state = "closed" /\ b.queue # << >>)

\* finishIfReady
FinishIfReady(b) ==
    IF b.state = "closing" /\ b.waiting = << >>
    THEN [b EXCEPT !.state = "closed"] ELSE b

\* How many of the waiting lines fit in, the first ones first.
Admissible(b) ==
    Cardinality({k \in 1..Len(b.waiting) :
        Used(b.queue) + Used([i \in 1..k |-> b.waiting[i].line]) <= MaxQueue})

\* admitWaiting, called by a pull: an enqueue that leaves room asks for
\* another pull.
AdmitWaiting(b) ==
    LET n == Admissible(b)
        lines == [i \in 1..n |-> b.waiting[i].line]
    IN  FinishIfReady(
            [b EXCEPT !.queue = @ \o lines,
                      !.waiting = SubSeq(@, n + 1, Len(@)),
                      !.again = @ \/ (n > 0 /\ Used(b.queue) + lines[1].size
                                                 < MaxQueue)])

\* The stream asks for more, if it has started and has room.
Pull(b) ==
    IF ~b.started \/ b.state \notin {"open", "closing"} \/ Room(b) = 0 THEN b
    ELSE IF b.pulling THEN [b EXCEPT !.again = TRUE]
    ELSE AdmitWaiting([b EXCEPT !.pulling = TRUE])

StreamStarts(b) == Pull([b EXCEPT !.started = TRUE])

\* The promise of a pull has settled.
Pulled(b) ==
    LET done == [b EXCEPT !.pulling = FALSE, !.again = FALSE]
    IN  IF b.again THEN Pull(done) ELSE done

\* publish throws at once.
Refuses(b, line) == b.state # "open" \/ line.size > MaxLine

\* Fault for Streams: a small line does not queue behind a waiting one.
PublishAhead(b, p, line) ==
    IF Room(b) >= line.size
    THEN Pull([b EXCEPT !.queue = Append(@, line)])
    ELSE [b EXCEPT !.waiting = Append(@, [line |-> line, producer |-> p])]

\* publish: the line is enqueued, or its producer waits.
Publish(b, p, line) ==
    IF b.waiting = << >> /\ Room(b) >= line.size
    THEN Pull([b EXCEPT !.queue = Append(@, line)])
    ELSE [b EXCEPT !.waiting = Append(@, [line |-> line, producer |-> p])]

\* The consumer takes the first line.
Take(b) == Pull([b EXCEPT !.queue = Tail(@)])

\* rejectWaiting: every publish that waits throws.
RejectWaiting(b) ==
    [b EXCEPT !.waiting = << >>,
              !.failed = @ \cup {b.waiting[i].producer : i \in DOMAIN b.waiting}]

\* close
Close(b) ==
    FinishIfReady([b EXCEPT !.state = IF @ = "open" THEN "closing" ELSE @])

\* fail: the lines of the queue are lost with the stream.
Fail(b) ==
    IF b.state \in Over THEN b
    ELSE [RejectWaiting(b) EXCEPT !.state = "failed", !.queue = << >>]

Leave(b) == [b EXCEPT !.left = TRUE, !.queue = << >>]

\* cancel of the stream: the consumer leaves.
Cancel(b) ==
    IF b.state = "closed" THEN Leave(b)
    ELSE [Leave(RejectWaiting(b)) EXCEPT !.state = "cancelled"]

\* bindRunHandle; whether it cancels the run at once.
Bind(b) == [b EXCEPT !.bound = TRUE]
BoundTooLate(b) == b.state \in {"failed", "cancelled"}

=============================================================================
