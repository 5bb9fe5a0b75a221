------------------------- MODULE ServerApplication -------------------------
(***************************************************************************)
(* The HTTP application (src/lib/server/application.ts) for one session,   *)
(* with the route that starts a run and streams its events                 *)
(* (src/app/api/sessions/[id]/runs/route.ts), the bridge of each run, and  *)
(* the runtime as far as both see it: its lock, its start, its recovery    *)
(* and the end of a run.  All the tables of the application are keyed by   *)
(* session or run, so sessions do not meet.                                *)
(*                                                                         *)
(* A request is cut where the application awaits.  Runs are numbered in    *)
(* the order of their requests.  An append and the delivery of its event   *)
(* are one step: appends of one session return in the order of the file,   *)
(* and each return goes on to the delivery at once.                        *)
(***************************************************************************)
EXTENDS NdjsonBridge

CONSTANTS
    Callers,      \* requests that are in progress at the same time
    Handler,      \* the producer that is the run's own handler
    Sizes,        \* sizes of events; the first and the last of a run have 1
    MaxRuns,      \* bound: runs asked for
    MaxEvents     \* bound: events of a run besides its first and last

ASSUME ServerAssumption ==
    /\ Handler \notin Callers /\ Producers = Callers \cup {Handler}
    /\ Sizes \subseteq Nat \ {0}
    /\ MaxRuns \in Nat /\ MaxEvents \in Nat

Runs == 1..MaxRuns

\* In the file, the last run of an earlier process, which may have died.
NoRun == 0

VARIABLES
    operation,   \* sessionOperations, "none" without an entry
    bySession,   \* activeBySession
    byRun,       \* activeByRun
    asked,       \* cancellationRequested
    req,         \* the request of each caller
    run,         \* the runs, in the runtime and on the wire
    bridge,      \* the bridge of each run
    got,         \* what the consumer of each stream has received
    log,         \* how the session's file stands with each run
    deleted      \* the session is gone

tables == <<operation, bySession, byRun, asked>>
wire == <<bridge, got>>
vars == <<tables, req, run, wire, log, deleted>>

Operations == {"starting", "recovering", "deleting"}
Kinds == {"none", "run", "read", "delete", "decide"}
Steps == {"idle", "metadata", "lock", "recover", "begin", "started",
          "register", "bind", "page", "store", "publish"}

Requests == [kind : Kinds, step : Steps, run : Runs \cup {NoRun},
             holds : BOOLEAN]
NoRequest == [kind |-> "none", step |-> "idle", run |-> NoRun,
              holds |-> FALSE]

\* signal: the request's signal has fired; linked: the runtime listens.
RunRecords ==
    [state : {"absent", "asked", "starting", "live", "ending", "over"},
     signal : BOOLEAN, linked : BOOLEAN, abort : BOOLEAN, sink : BOOLEAN,
     outcome : {"none", "resolved", "rejected"}, told : BOOLEAN,
     events : Nat, sent : Nat]
NoRecord ==
    [state |-> "absent", signal |-> FALSE, linked |-> FALSE, abort |-> FALSE,
     sink |-> FALSE, outcome |-> "none", told |-> FALSE, events |-> 0,
     sent |-> 0]

Owned == {r \in Runs : run[r].state \in {"starting", "live", "ending"}}
OpenRuns == {r \in Runs \cup {NoRun} : log[r] = "open"}

\* The holders of the runtime's lock of the session.
Locked == {c \in Callers : req[c].step \in {"recover", "begin", "started"}}

Init ==
    /\ operation = "none" /\ bySession = NoRun /\ byRun = {} /\ asked = {}
    /\ req = [c \in Callers |-> NoRequest]
    /\ run = [r \in Runs |-> NoRecord]
    /\ bridge = [r \in Runs |-> NewBridge]
    /\ got = [r \in Runs |-> << >>]
    /\ \E earlier \in {"open", "ended"} :
          log = [r \in Runs \cup {NoRun} |->
                    IF r = NoRun THEN earlier ELSE "absent"]
    /\ deleted = FALSE

-----------------------------------------------------------------------------
(* Publishing and aborting.                                                *)

\* requestAbort: the first one counts, and none once the run is ending.
RequestAbort(x) ==
    IF x.state \in {"starting", "live"} THEN [x EXCEPT !.abort = TRUE] ELSE x

\* The consumer threw: no more is delivered, and the run is aborted.
SinkFailed(x) == RequestAbort([x EXCEPT !.sink = FALSE])

\* Producer p of run r delivers an event; x is the run's record without it.
Deliver(r, x, p, size) ==
    LET line == [event |-> x.sent + 1, size |-> size] IN
    IF ~x.sink
    THEN run' = [run EXCEPT ![r] = x] /\ UNCHANGED bridge
    ELSE IF Refuses(bridge[r], line)
    THEN run' = [run EXCEPT ![r] = SinkFailed(x)] /\ UNCHANGED bridge
    ELSE /\ run' = [run EXCEPT ![r] = [x EXCEPT !.sent = @ + 1]]
         /\ bridge' = [bridge EXCEPT ![r] = Publish(@, p, line)]

Waits(r, p) == Publishing(bridge[r], p)

\* The publish of p was rejected, and p hears of it.
PublishRejected(r, p) ==
    /\ p \in bridge[r].failed
    /\ bridge' = [bridge EXCEPT ![r].failed = @ \ {p}]
    /\ run' = [run EXCEPT ![r] = SinkFailed(@)]
    /\ UNCHANGED <<tables, req, got, log, deleted>>

-----------------------------------------------------------------------------
(* Requests.                                                               *)

Free == bySession = NoRun /\ operation = "none"

At(c, step) == req[c].step = step
Goes(c, step) == req' = [req EXCEPT ![c].step = step]

\* reserve, where it does not throw.
Reserve(c, kind, op, step, r) ==
    /\ Free
    /\ operation' = op
    /\ req' = [req EXCEPT ![c] =
           [kind |-> kind, step |-> step, run |-> r, holds |-> TRUE]]

OperationOf(kind) ==
    CASE kind = "run" -> "starting" [] kind = "read" -> "recovering"
      [] kind = "delete" -> "deleting" [] OTHER -> "none"

\* The release function of a reservation.
Release(c) ==
    operation' = IF req[c].holds /\ operation = OperationOf(req[c].kind)
                 THEN "none" ELSE operation

\* Fault for EverythingReturns: a failure leaves the reservation behind.
ReturnHolding(c) == req' = [req EXCEPT ![c] = NoRequest] /\ UNCHANGED operation

\* The request returns or throws, and releases what it holds.
Return(c) == req' = [req EXCEPT ![c] = NoRequest] /\ Release(c)

same == <<bySession, byRun, asked>>

\* POST of a run.  Its identity is drawn later; nothing depends on when.
PostRun(c) ==
    /\ At(c, "idle")
    /\ \E r \in Runs :
          /\ run[r].state = "absent"
          /\ \A q \in Runs : q < r => run[q].state # "absent"
          /\ Reserve(c, "run", "starting", "metadata", r)
          /\ run' = [run EXCEPT ![r].state = "asked"]
    /\ UNCHANGED <<same, wire, log, deleted>>

\* getSessionMetadata, the profile of the model, the permission mode.
Metadata(c) ==
    /\ At(c, "metadata")
    /\ \/ ~deleted /\ Goes(c, "lock") /\ UNCHANGED operation
       \/ Return(c)
    /\ UNCHANGED <<same, run, wire, log, deleted>>

\* DELETE of the session.
Delete(c) ==
    /\ At(c, "idle")
    /\ Reserve(c, "delete", "deleting", "store", NoRun)
    /\ UNCHANGED <<same, run, wire, log, deleted>>

Deleted(c) ==
    /\ At(c, "store")
    /\ deleted' \in {deleted, TRUE}
    /\ Return(c)
    /\ UNCHANGED <<same, run, wire, log>>

\* GET of the events, while a run is active and while none is.
ReadLive(c) ==
    /\ At(c, "idle") /\ bySession # NoRun
    /\ req' = [req EXCEPT ![c] = [NoRequest EXCEPT
                   !.kind = "read", !.step = "page", !.run = bySession]]
    /\ UNCHANGED <<tables, run, wire, log, deleted>>

ReadRecovered(c) ==
    /\ At(c, "idle")
    /\ Reserve(c, "read", "recovering", "lock", NoRun)
    /\ UNCHANGED <<same, run, wire, log, deleted>>

\* Fault for PagesRecovered: the reservation ends with the recovery.
ReleaseBeforePage(c) ==
    /\ req' = [req EXCEPT ![c].step = "page", ![c].holds = FALSE]
    /\ Release(c)

ToPage(c) == Goes(c, "page") /\ UNCHANGED operation

\* The runtime's lock.  A start is given up if the signal has fired; a read
\* goes on without a recovery when the runtime is busy.
TakeLock(c) ==
    /\ At(c, "lock") /\ Locked = {}
    /\ IF req[c].kind = "run"
       THEN IF run[req[c].run].signal \/ Owned # {} THEN Return(c)
            ELSE Goes(c, "recover") /\ UNCHANGED operation
       ELSE IF Owned # {} THEN ToPage(c)
            ELSE Goes(c, "recover") /\ UNCHANGED operation
    /\ UNCHANGED <<same, run, wire, log, deleted>>

\* recoverProjectionUnlocked, the workspace and the model of the session.
\* A run of an earlier process is closed, or an error comes first.
Recover(c) ==
    /\ At(c, "recover")
    /\ \/ /\ ~deleted
          /\ log' = [r \in Runs \cup {NoRun} |->
                 IF r \in OpenRuns THEN "ended" ELSE log[r]]
          /\ IF req[c].kind = "read" THEN ToPage(c)
             ELSE Goes(c, "begin") /\ UNCHANGED operation
       \/ Return(c) /\ UNCHANGED log
    /\ UNCHANGED <<same, run, wire, deleted>>

Page(c) ==
    /\ At(c, "page") /\ Return(c)
    /\ UNCHANGED <<same, run, wire, log, deleted>>

\* The run is registered with the runtime, the signal listened to, and
\* run.started appended and delivered; or the append fails.
Begin(c) ==
    /\ At(c, "begin")
    /\ LET r == req[c].run IN
       \/ /\ log' = [log EXCEPT ![r] = "open"]
          /\ Deliver(r, [run[r] EXCEPT !.state = "starting", !.linked = TRUE,
                                       !.sink = TRUE], Handler, 1)
          /\ Goes(c, "started") /\ UNCHANGED operation
       \/ /\ log' \in {log, [log EXCEPT ![r] = "open"]}
          /\ run' = [run EXCEPT ![r] = [NoRecord EXCEPT !.state = "over"]]
          /\ Return(c) /\ UNCHANGED bridge
    /\ UNCHANGED <<same, got, deleted>>

\* The append returns: executeRun takes over, the caller gets the handle.
Begun(c) ==
    /\ At(c, "started") /\ ~Waits(req[c].run, Handler)
    /\ run' = [run EXCEPT ![req[c].run].state = "live"]
    /\ Goes(c, "register")
    /\ UNCHANGED <<tables, wire, log, deleted>>

\* Fault for Registered: the reservation ends without the registration.
RegisterNothing(c) ==
    /\ At(c, "register")
    /\ req' = [req EXCEPT ![c].step = "bind", ![c].holds = FALSE]
    /\ Release(c)
    /\ UNCHANGED <<same, run, wire, log, deleted>>

\* register, and the release of the reservation in the same breath.
Register(c) ==
    /\ At(c, "register")
    /\ byRun' = byRun \cup {req[c].run} /\ bySession' = req[c].run
    /\ req' = [req EXCEPT ![c].step = "bind", ![c].holds = FALSE]
    /\ Release(c)
    /\ UNCHANGED <<asked, run, wire, log, deleted>>

\* The route gets the handle: it is bound, and the response goes out.
BindHandle(c) ==
    /\ At(c, "bind")
    /\ LET r == req[c].run IN
       /\ bridge' = [bridge EXCEPT ![r].bound = TRUE]
       /\ run' = IF BoundTooLate(bridge[r])
                 THEN [run EXCEPT ![r] = RequestAbort(@)] ELSE run
    /\ Return(c)
    /\ UNCHANGED <<same, got, log, deleted>>

\* An approval is answered: its event is published by the caller.
Decide(c) ==
    /\ At(c, "idle")
    /\ \E r \in Owned, size \in Sizes :
          /\ r \in byRun
          /\ run[r].state = "live" /\ ~run[r].abort
          /\ run[r].events < MaxEvents
          /\ ~Waits(r, c)
          /\ Deliver(r, [run[r] EXCEPT !.events = @ + 1], c, size)
          /\ req' = [req EXCEPT ![c] = [NoRequest EXCEPT
                         !.kind = "decide", !.step = "publish", !.run = r]]
    /\ UNCHANGED <<tables, got, log, deleted>>

Decided(c) ==
    /\ At(c, "publish") /\ ~Waits(req[c].run, c)
    /\ Return(c)
    /\ UNCHANGED <<same, run, wire, log, deleted>>

\* cancelRun, for a run that is registered and was not cancelled before.
CancelRun(r) ==
    /\ r \in byRun /\ r \notin asked
    /\ asked' = asked \cup {r}
    /\ run' = [run EXCEPT ![r] = RequestAbort(@)]
    /\ UNCHANGED <<operation, bySession, byRun, req, wire, log, deleted>>

-----------------------------------------------------------------------------
(* The run, its stream, its consumer.                                      *)

\* The run publishes one more event.
Emit(r) ==
    /\ run[r].state = "live" /\ ~run[r].abort /\ ~Waits(r, Handler)
    /\ run[r].events < MaxEvents
    /\ \E size \in Sizes :
          Deliver(r, [run[r] EXCEPT !.events = @ + 1], Handler, size)
    /\ UNCHANGED <<tables, req, got, log, deleted>>

\* It appends its end.
Finish(r) ==
    /\ run[r].state = "live" /\ ~Waits(r, Handler)
    /\ log' = [log EXCEPT ![r] = "ended"]
    /\ Deliver(r, [run[r] EXCEPT !.state = "ending"], Handler, 1)
    /\ UNCHANGED <<tables, req, got, deleted>>

\* cleanupActiveRun forgets the run, and its completion settles: with an
\* outcome, or with the error of the store.
Complete(r) ==
    /\ ~Waits(r, Handler)
    /\ \E outcome \in {"resolved", "rejected"} :
          /\ \/ run[r].state = "ending"
             \/ run[r].state = "live" /\ outcome = "rejected"
          /\ run' = [run EXCEPT ![r] = [NoRecord EXCEPT
                 !.state = "over", !.outcome = outcome, !.sent = run[r].sent]]
    /\ UNCHANGED <<tables, req, wire, log, deleted>>

\* The application hears of it.
Cleanup(r) ==
    /\ r \in byRun /\ run[r].state = "over"
    /\ byRun' = byRun \ {r} /\ asked' = asked \ {r}
    /\ bySession' = IF bySession = r THEN NoRun ELSE bySession
    /\ UNCHANGED <<operation, req, run, wire, log, deleted>>

\* Then the route does, which closes or fails the bridge.
TellBridge(r) ==
    /\ bridge[r].bound /\ run[r].state = "over" /\ ~run[r].told
    /\ run' = [run EXCEPT ![r].told = TRUE]
    /\ bridge' = [bridge EXCEPT ![r] =
           IF run[r].outcome = "resolved" THEN Close(@) ELSE Fail(@)]
    /\ UNCHANGED <<tables, req, got, log, deleted>>

\* The stream of the platform starts, or a pull of it is over.
StreamStep(r) ==
    /\ run[r].state # "absent"
    /\ \/ ~bridge[r].started
          /\ bridge' = [bridge EXCEPT ![r] = StreamStarts(@)]
       \/ bridge[r].pulling
          /\ bridge' = [bridge EXCEPT ![r] = Pulled(@)]
    /\ UNCHANGED <<tables, req, run, got, log, deleted>>

\* The consumer reads a line.
Read(r) ==
    /\ bridge[r].bound /\ bridge[r].queue # << >>
    /\ got' = [got EXCEPT ![r] = Append(@, Head(bridge[r].queue).event)]
    /\ bridge' = [bridge EXCEPT ![r] = Take(@)]
    /\ UNCHANGED <<tables, req, run, log, deleted>>

\* Fault for CancelsHeard: nobody tells the run.
LeaveStreamOnly(r) ==
    /\ bridge[r].bound /\ Readable(bridge[r])
    /\ bridge' = [bridge EXCEPT ![r] = Cancel(@)]
    /\ UNCHANGED <<tables, req, run, got, log, deleted>>

\* The consumer cancels the stream, and notifyCancel the run.
LeaveStream(r) ==
    /\ bridge[r].bound /\ Readable(bridge[r])
    /\ bridge' = [bridge EXCEPT ![r] = Cancel(@)]
    /\ run' = IF bridge[r].state \in Over THEN run
              ELSE [run EXCEPT ![r] = RequestAbort(@)]
    /\ UNCHANGED <<tables, req, got, log, deleted>>

\* A consumer with a line before it reads it or leaves.
Consume(r) == bridge[r].queue # << >> /\ (Read(r) \/ LeaveStream(r))

\* The signal of the request fires, while there is something to abort.
SignalFires(r) ==
    /\ run[r].state \in {"asked", "starting", "live"} /\ ~run[r].signal
    /\ run' = [run EXCEPT ![r] =
           LET x == [@ EXCEPT !.signal = TRUE]
           IN  IF x.linked THEN RequestAbort(x) ELSE x]
    /\ UNCHANGED <<tables, req, wire, log, deleted>>

\* The timer of the run.
Timeout(r) ==
    /\ run[r].state \in {"starting", "live"} /\ ~run[r].abort
    /\ run' = [run EXCEPT ![r] = RequestAbort(@)]
    /\ UNCHANGED <<tables, req, wire, log, deleted>>

-----------------------------------------------------------------------------

Call(c) ==
    PostRun(c) \/ Delete(c) \/ ReadLive(c) \/ ReadRecovered(c) \/ Decide(c)

Serve(c) ==
    \/ Metadata(c) \/ Deleted(c) \/ TakeLock(c) \/ Recover(c) \/ Page(c)
    \/ Begin(c) \/ Begun(c) \/ Register(c) \/ BindHandle(c) \/ Decided(c)

RunStep(r) == Emit(r) \/ Finish(r) \/ Complete(r)
Settle(r) ==
    \/ Cleanup(r) \/ TellBridge(r) \/ StreamStep(r)
    \/ \E p \in Producers : PublishRejected(r, p)

Next ==
    \/ \E c \in Callers : Call(c) \/ Serve(c)
    \/ \E r \in Runs :
          \/ RunStep(r) \/ Settle(r) \/ CancelRun(r) \/ Timeout(r)
          \/ Read(r) \/ LeaveStream(r) \/ SignalFires(r)

Spec == Init /\ [][Next]_vars

\* Nothing the process does by itself is put off for ever; the timer of a
\* run fires; an aborted run ends; a consumer reads what there is or leaves.
FairSpec ==
    /\ Spec
    /\ \A c \in Callers : WF_vars(Serve(c))
    /\ \A r \in Runs :
          /\ WF_vars(Settle(r)) /\ WF_vars(Complete(r))
          /\ WF_vars(run[r].abort /\ Finish(r)) /\ WF_vars(Timeout(r))
          /\ WF_vars(Consume(r))

-----------------------------------------------------------------------------
(* Properties.                                                             *)

\* Every variable stays in its set.
ServerType ==
    /\ operation \in Operations \cup {"none"}
    /\ bySession \in Runs \cup {NoRun} /\ byRun \subseteq Runs
    /\ asked \subseteq Runs
    /\ req \in [Callers -> Requests] /\ run \in [Runs -> RunRecords]
    /\ bridge \in [Runs -> Bridges] /\ got \in [Runs -> Seq(Nat)]
    /\ log \in [Runs \cup {NoRun} -> {"absent", "open", "ended"}]
    /\ deleted \in BOOLEAN

\* A run the runtime works on is known to the application, from before its
\* start until after its end, so that nothing else can be begun with its
\* session meanwhile; a deletion in particular is alone, and no run is begun in
\* a session that is deleted (application.ts:144-153, 205-226, 257-279).
Registered ==
    /\ ServerType
    /\ \A r \in Owned :
          \/ bySession = r /\ r \in byRun
          \/ operation = "starting" /\ \E c \in Callers :
                req[c].run = r /\ req[c].holds
    /\ deleted \/ (\E c \in Callers : At(c, "store")) => Owned = {}

\* Who reads the events of a session without an active run reads a file in
\* which every run has its end.
PagesRecovered ==
    \A c \in Callers :
       At(c, "page") /\ req[c].run = NoRun => OpenRuns = {}

\* A cancellation that was accepted is heard, and forgotten with its run; and
\* a consumer that goes away takes its run with it, however the two meet.
CancelsHeard ==
    /\ asked \subseteq byRun
    /\ \A r \in asked : run[r].abort \/ run[r].state \in {"ending", "over"}
    /\ \A r \in Runs :
          bridge[r].left /\ run[r].state \in {"starting", "live"} => run[r].abort

\* What the consumer of a stream sees: every event once and in order, and
\* an end only behind the last one.
Seen(r) ==
    CASE bridge[r].state = "closed" /\ bridge[r].queue = << >>
              /\ ~bridge[r].left -> "whole"
      [] bridge[r].left \/ bridge[r].state \in {"failed", "cancelled"} ->
           "broken"
      [] OTHER -> "open"
Channel == INSTANCE EventStreams
             WITH sent <- [r \in Runs |-> run[r].sent],
                  end <- [r \in Runs |-> Seen(r)]
Streams == Channel!Spec

\* As long as the consumer of a stream reads or goes away nobody waits for
\* ever: every publish settles, every request is answered, although nobody
\* reads the stream of a run before its response is out, what it reserved is
\* free again, and every stream that was opened ends.
EverythingReturns ==
    /\ \A r \in Runs, p \in Producers : Waits(r, p) ~> ~Waits(r, p)
    /\ \A c \in Callers : req[c].step # "idle" ~> req[c].step = "idle"
    /\ operation # "none" ~> operation = "none"
    /\ \A r \in Runs : bridge[r].bound ~> Seen(r) # "open"

=============================================================================
