---------------------------- MODULE ClientSession ----------------------------
(***************************************************************************)
(* One browser tab (src/app/ui/shell/app-shell-provider.tsx, the workbench *)
(* effect that loads a history, src/lib/client) in front of the server     *)
(* as the tab sees it: files of sessions, runs that append to them, one    *)
(* event stream, and requests whose answer is read at one moment and       *)
(* delivered at a later one.                                               *)
(*                                                                         *)
(* An event of a file is its kind; its sequence number is its place.  The  *)
(* tab's ledger is the set of sequence numbers it shows.  React renders,   *)
(* and runs the effects of a change, before the next response or click.    *)
(***************************************************************************)
EXTENDS Integers, Sequences, FiniteSets

CONSTANTS
    Sessions, NoSession,
    Old,          \* sessions that exist when the tab is opened
    Deletable,    \* bound: sessions the user asks to delete
    WorkspaceChoice,  \* bound: the user asks for tasks in other workspaces
    Lists,        \* list requests that are outstanding at the same time
    PageSize,     \* events in a page of a history
    Faults,       \* subset of FaultKinds that may happen
    MaxRuns,      \* bound: runs asked for in this tab
    MaxMiddle     \* bound: events of a file before a last run ends

FaultKinds == {"list", "page", "stream", "start", "cancel", "create",
               "delete", "workspace"}

ASSUME ClientAssumption ==
    /\ Old \cup Deletable \subseteq Sessions /\ NoSession \notin Sessions
    /\ {"none", "asked", "failed"} \cap Sessions = {}  \* words of creation
    /\ PageSize \in Nat \ {0} /\ MaxRuns \in Nat /\ MaxMiddle \in Nat
    /\ Faults \subseteq FaultKinds /\ WorkspaceChoice \in BOOLEAN

Runs == 1..MaxRuns
NoRun == 0
Kinds == {"created", "started", "message", "terminal"}

VARIABLES
    file,       \* the events of each session, empty before its creation
    gone,       \* sessions that were deleted
    alive,      \* the run of each session that the server executes
    asked,      \* runs that were told to stop
    wire,       \* the event stream of the tab's last run
    page,       \* the session of the URL, NoSession on the start page
    catalog,    \* the list of sessions
    history,    \* the ledger that is shown, and of which session
    transport,  \* runTransport
    run,        \* the call of startRunForSession
    runs,       \* how many there have been
    cancels,    \* requests to cancel a run
    creation,   \* the call of createAndStart
    deletion,   \* the dialog and the call of confirmSessionDeletion
    lists,      \* the outstanding list requests
    loads,      \* the calls of recoverHistory
    workspace,  \* the choice of startNewTaskInWorkspace
    effect      \* the dependencies with which the workbench effect last ran

server == <<file, gone, alive, asked>>
tab == <<page, catalog, history, transport>>
calls == <<run, runs, cancels, creation, deletion, lists, loads>>
vars == <<server, wire, tab, calls, workspace, effect>>

Exists(s) == s \in Sessions \ gone /\ file[s] /= << >>
Last(s) == Len(file[s])

NoWire == [state |-> "none", session |-> NoSession, run |-> NoRun,
           queue |-> << >>]
Idle == [status |-> "idle", session |-> NoSession, durable |-> {},
         live |-> FALSE]
NoCall == [step |-> "idle", session |-> NoSession, id |-> NoRun, seen |-> FALSE]
Closed == [status |-> "closed", session |-> NoSession, from |-> NoSession,
           answer |-> "none"]
NoKey == [page |-> NoSession, known |-> FALSE, ready |-> FALSE,
          running |-> FALSE]

Init ==
    /\ file = [s \in Sessions |-> IF s \in Old
                  THEN <<"created">> ELSE << >>]
    /\ gone = {} /\ alive = [s \in Sessions |-> NoRun] /\ asked = {}
    /\ wire = NoWire
    /\ page \in Old \cup {NoSession}
    /\ catalog = [status |-> "loading", data |-> {}]
    /\ history = Idle /\ transport = "idle"
    /\ run = NoCall /\ runs = 0
    /\ cancels = [r \in Runs |-> "none"]
    /\ creation = "none" /\ deletion = Closed
    /\ \E l \in Lists :
          lists = [x \in Lists |-> [state |-> IF x = l THEN "asked" ELSE "free",
                                    data |-> {}]]
    /\ loads = {} /\ workspace = "none" /\ effect = NoKey

-----------------------------------------------------------------------------
(* The server, as far as the tab depends on it.                            *)


\* The stream ends for the server too: it cancels the run behind it.
Abandoned(w) == {r \in Runs : r = w.run /\ \E s \in Sessions : alive[s] = r}

\* The last run of the tab has something for its consumer.
Sent(s, n) ==
    IF wire.state = "open" /\ wire.run = alive[s]
    THEN [wire EXCEPT !.queue = Append(@, n)] ELSE wire

\* A request to start a run arrives.
Accept ==
    /\ wire.state = "asked"
    /\ LET s == wire.session IN
       /\ Exists(s) /\ alive[s] = NoRun
       /\ file' = [file EXCEPT ![s] = Append(@, "started")]
       /\ alive' = [alive EXCEPT ![s] = wire.run]
       /\ wire' = [wire EXCEPT !.state = "open", !.queue = <<Last(s) + 1>>]
    /\ UNCHANGED <<gone, asked, tab, calls, workspace, effect>>

Refuse ==
    /\ wire.state = "asked"
    /\ \/ ~Exists(wire.session) \/ alive[wire.session] /= NoRun
       \/ "start" \in Faults
    /\ wire' = [wire EXCEPT !.state = "failed"]
    /\ UNCHANGED <<server, tab, calls, workspace, effect>>

\* What a run does between its first and its last event.
Proceed(s) ==
    /\ alive[s] /= NoRun /\ Last(s) < MaxMiddle
    /\ file' = [file EXCEPT ![s] = Append(@, "message")]
    /\ wire' = Sent(s, Last(s) + 1)
    /\ UNCHANGED <<gone, alive, asked, tab, calls, workspace, effect>>

Delta == 0
Stream(s) ==
    /\ alive[s] /= NoRun /\ wire.run = alive[s] /\ wire.state = "open"
    /\ wire.queue = << >> /\ ~history.live
    /\ wire' = Sent(s, Delta)
    /\ UNCHANGED <<server, tab, calls, workspace, effect>>

End(s) ==
    /\ alive[s] /= NoRun
    /\ file' = [file EXCEPT ![s] = Append(@, "terminal")]
    /\ wire' = LET w == Sent(s, Last(s) + 1) IN
               IF w.run = alive[s] /\ w.state = "open"
               THEN [w EXCEPT !.state = "closed"] ELSE w
    /\ alive' = [alive EXCEPT ![s] = NoRun]
    /\ asked' = asked \ {alive[s]}
    /\ UNCHANGED <<gone, tab, calls, workspace, effect>>

-----------------------------------------------------------------------------
(* Histories.                                                              *)

Ready(s) == history.status = "ready" /\ history.session = s
RunActive == transport \in {"starting", "streaming", "stopping"}
RunningHere == RunActive /\ run.session = page

NoReply == [state |-> "none", tail |-> 0, last |-> 0]

\* A call of recoverHistory: whether the effect may abort it, which run's
\* end asked for it, whether that run's terminal event was seen, and the
\* state of loadCompleteHistory.
Load(s, ofEffect, of, settles) ==
    [session |-> s, effect |-> ofEffect, of |-> of, settles |-> settles,
     owns |-> TRUE, after |-> 0, stable |-> 0, reply |-> NoReply]

\* A load that lost its ownership matters only if something awaits it.
Disowned(L) == {[l EXCEPT !.owns = FALSE] : l \in {x \in L : x.settles}}

\* Fault for PagesSettle: a second call for the same session joins the first.
RecoverOnce(L, l) ==
    IF \E x \in loads : x.session = l.session /\ x.owns
    THEN UNCHANGED history /\ loads' = L
    ELSE /\ loads' = Disowned(L) \cup {l}
         /\ history' = IF Ready(l.session) THEN history
                       ELSE [Idle EXCEPT !.status = "loading",
                                         !.session = l.session]

\* recoverHistory up to its first request; L are the other loads.
Recover(L, l) ==
    /\ loads' = Disowned(L) \cup {l}
    /\ history' = IF Ready(l.session) THEN history
                  ELSE [Idle EXCEPT !.status = "loading",
                                    !.session = l.session]

PageRead(l) ==
    /\ l.reply.state = "none"
    /\ \E state \in {"read", "failed"} :
          /\ state = "failed" => ~Exists(l.session) \/ "page" \in Faults
          /\ state = "read" => Exists(l.session)
          /\ LET last == Last(l.session)
                 tail == IF l.after + PageSize < last
                         THEN l.after + PageSize ELSE last IN
             loads' = (loads \ {l}) \cup {[l EXCEPT !.reply =
                 [state |-> state, tail |-> tail, last |-> last]]}
    /\ UNCHANGED <<server, wire, tab, run, runs, cancels, creation, deletion,
                   lists, workspace, effect>>

\* A page of the same snapshot as the ones before it.
Fits(l) == l.reply.state = "read" /\ l.stable \in {0, l.reply.last}

\* The visible events have to be the first ones of the candidate.
CanCommit(l) ==
    Ready(l.session) =>
        /\ history.durable = 1..Cardinality(history.durable)
        /\ Cardinality(history.durable) <= l.reply.last

\* recoverHistory returns; the end of a run may be waiting for it.
Returns(l) ==
    /\ loads' = loads \ {l}
    /\ transport' = IF l.settles THEN "idle" ELSE transport
    /\ UNCHANGED <<server, wire, page, catalog, run, runs, cancels, creation,
                   deletion, lists, workspace, effect>>

NextPage(l) ==
    /\ Fits(l) /\ l.reply.tail < l.reply.last
    /\ loads' = (loads \ {l}) \cup {[l EXCEPT !.after = l.reply.tail,
                     !.stable = l.reply.last, !.reply = NoReply]}
    /\ UNCHANGED <<server, wire, tab, run, runs, cancels, creation, deletion,
                   lists, workspace, effect>>

Commit(l) ==
    /\ Fits(l) /\ l.reply.tail = l.reply.last
    /\ Returns(l)
    /\ history' = IF l.owns /\ CanCommit(l)
                  THEN [status |-> "ready", session |-> l.session,
                        durable |-> 1..l.reply.last, live |-> FALSE]
                  ELSE history

\* Fault for VisibleGrows: an error replaces whatever is shown.
LoadFailsLoudly(l) ==
    /\ l.reply.state /= "none" /\ ~Fits(l)
    /\ Returns(l)
    /\ history' = IF l.owns
                  THEN [Idle EXCEPT !.status = "error", !.session = l.session]
                  ELSE history

LoadFails(l) ==
    /\ l.reply.state /= "none" /\ ~Fits(l)
    /\ Returns(l)
    /\ history' = IF l.owns /\ ~Ready(l.session)
                  THEN [Idle EXCEPT !.status = "error", !.session = l.session]
                  ELSE history

\* The button beside a failed history.
Retry ==
    /\ history.status = "error" /\ history.session = page
    /\ Recover(loads, Load(page, FALSE, NoRun, FALSE))
    /\ UNCHANGED <<server, wire, page, catalog, transport, run, runs, cancels,
                   creation, deletion, lists, workspace, effect>>

-----------------------------------------------------------------------------
(* Rendering, and moving between pages.                                    *)

Listed(s) == catalog.status = "ready" /\ s \in catalog.data

Key == [page |-> page, known |-> Listed(page), ready |-> Ready(page),
        running |-> RunningHere]

\* No key the effect runs with: its session is another object.
StaleKey == [NoKey EXCEPT !.known = TRUE]

Rendered == effect = Key

\* The workbench effect: abort the load of the last one, and load.
Render ==
    /\ ~Rendered
    /\ effect' = Key
    /\ LET others == {l \in loads : ~l.effect} IN
       IF Key.known /\ ~Key.ready /\ ~Key.running
       THEN Recover(others, Load(page, TRUE, NoRun, FALSE))
       ELSE loads' = others /\ UNCHANGED history
    /\ UNCHANGED <<server, wire, page, catalog, transport, run, runs, cancels,
                   creation, deletion, lists, workspace>>

\* A click on a session in the navigation.
Follow(s) ==
    /\ Listed(s) /\ (RunActive => run.session = s)
    /\ page' = s
    /\ UNCHANGED <<server, wire, catalog, history, transport, calls, workspace,
                   effect>>

\* The back and forward buttons of the browser ask nobody.
Back(s) ==
    /\ s \in Sessions => file[s] /= << >>
    /\ page' = s
    /\ UNCHANGED <<server, wire, catalog, history, transport, calls, workspace,
                   effect>>

\* startNewTask gives up what is loaded or shown, and a choice of a workspace
\* that is being checked.
LeaveHistory == ~RunActive /\ loads' = Disowned(loads) /\ history' = Idle

StartNewTask ==
    /\ LeaveHistory /\ page' = NoSession /\ workspace' = "none"
    /\ UNCHANGED <<server, wire, catalog, transport, run, runs, cancels,
                   creation, deletion, lists, effect>>

\* The button beside a workspace asks whether it is valid first.
StartNewTaskInWorkspace ==
    /\ WorkspaceChoice /\ catalog.status = "ready" /\ catalog.data /= {}
    /\ LeaveHistory /\ workspace' = "asked"
    /\ UNCHANGED <<server, wire, page, catalog, transport, run, runs, cancels,
                   creation, deletion, lists, effect>>

\* Only a valid one moves the page, wherever the tab is by now.
WorkspaceArrives ==
    /\ workspace = "asked"
    /\ \/ workspace' = "none" /\ page' = NoSession
       \/ "workspace" \in Faults /\ workspace' = "refused" /\ UNCHANGED page
    /\ UNCHANGED <<server, wire, catalog, history, transport, calls, effect>>

-----------------------------------------------------------------------------
(* The list of sessions.                                                   *)

AskList(x) ==
    /\ lists[x].state = "free"
    /\ lists' = [lists EXCEPT ![x].state = "asked"]
    /\ catalog' = [status |-> "loading", data |-> {}]

ListRead(x) ==
    /\ lists[x].state = "asked"
    /\ \/ lists' = [lists EXCEPT ![x] =
              [state |-> "read", data |-> {s \in Sessions : Exists(s)}]]
       \/ "list" \in Faults /\ lists' = [lists EXCEPT ![x].state = "failed"]
    /\ UNCHANGED <<server, wire, tab, run, runs, cancels, creation, deletion,
                   loads, workspace, effect>>

ListArrives(x) ==
    /\ lists[x].state \in {"read", "failed"}
    /\ catalog' = [status |-> IF lists[x].state = "read"
                              THEN "ready" ELSE "error",
                   data |-> lists[x].data]
    /\ effect' = StaleKey
    /\ lists' = [lists EXCEPT ![x] = [state |-> "free", data |-> {}]]
    /\ UNCHANGED <<server, wire, page, history, transport, run, runs, cancels,
                   creation, deletion, loads, workspace>>

RetryList(x) ==
    /\ catalog.status = "error" /\ page /= NoSession
    /\ AskList(x)
    /\ UNCHANGED <<server, wire, page, history, transport, run, runs, cancels,
                   creation, deletion, loads, workspace, effect>>

-----------------------------------------------------------------------------
(* Creating and deleting sessions.                                         *)

\* submissionLock
Locked == creation /= "none" \/ run.step /= "idle"

\* startRunForSession up to its request.
Ask(s) ==
    /\ runs < MaxRuns /\ runs' = runs + 1
    /\ run' = [step |-> "starting", session |-> s, id |-> NoRun,
               seen |-> FALSE]
    /\ wire' = [state |-> "asked", session |-> s, run |-> runs + 1,
                queue |-> << >>]
    /\ transport' = "starting"

Create ==
    /\ page = NoSession /\ ~RunActive /\ ~Locked /\ runs < MaxRuns
    /\ workspace = "none" /\ creation' = "asked"
    /\ UNCHANGED <<server, wire, tab, run, runs, cancels, deletion, lists,
                   loads, workspace, effect>>

CreationServed ==
    /\ creation = "asked"
    /\ \/ \E s \in Sessions :
             /\ file[s] = << >> /\ file' = [file EXCEPT ![s] = <<"created">>]
             /\ \/ creation' = s
                \/ "create" \in Faults /\ creation' = "failed"
       \/ "create" \in Faults /\ creation' = "failed" /\ UNCHANGED file
    /\ UNCHANGED <<gone, alive, asked, wire, tab, run, runs, cancels,
                   deletion, lists, loads, workspace, effect>>

CreationReturns ==
    /\ creation \in Sessions
    /\ creation' = "none"
    /\ catalog' = [status |-> "ready",
                   data |-> {creation} \cup catalog.data]
    /\ history' = [status |-> "ready", session |-> creation, durable |-> {1},
                   live |-> FALSE]
    /\ page' = creation
    /\ Ask(creation)
    /\ UNCHANGED <<server, cancels, deletion, lists, loads, workspace, effect>>

CreationFails ==
    /\ creation = "failed" /\ creation' = "none"
    /\ UNCHANGED <<server, wire, tab, run, runs, cancels, deletion, lists,
                   loads, workspace, effect>>

OpenDeletion(s) ==
    /\ deletion.status = "closed" /\ s \in Deletable
    /\ Listed(s) /\ ~(RunActive /\ run.session = s)
    /\ deletion' = [Closed EXCEPT !.status = "confirming", !.session = s]
    /\ UNCHANGED <<server, wire, tab, run, runs, cancels, creation, lists,
                   loads, workspace, effect>>

CloseDeletion ==
    /\ deletion.status \in {"confirming", "error"} /\ deletion' = Closed
    /\ UNCHANGED <<server, wire, tab, run, runs, cancels, creation, lists,
                   loads, workspace, effect>>

\* The page of this moment is the one the answer is reconciled with.
ConfirmDeletion ==
    /\ deletion.status \in {"confirming", "error"}
    /\ deletion' = [deletion EXCEPT !.status = "deleting", !.from = page]
    /\ UNCHANGED <<server, wire, tab, run, runs, cancels, creation, lists,
                   loads, workspace, effect>>

DeletionServed ==
    /\ deletion.status = "deleting" /\ deletion.answer = "none"
    /\ LET s == deletion.session
           Answer(a) == deletion' = [deletion EXCEPT !.answer = a] IN
       \/ ~Exists(s) /\ Answer("done") /\ UNCHANGED gone
       \/ /\ Exists(s) /\ alive[s] = NoRun
          /\ gone' = gone \cup {s}
          /\ \/ Answer("done")
             \/ "delete" \in Faults /\ Answer("failed")
       \/ /\ alive[s] /= NoRun \/ "delete" \in Faults
          /\ Answer("failed") /\ UNCHANGED gone
    /\ UNCHANGED <<file, alive, asked, wire, tab, run, runs, cancels, creation,
                   lists, loads, workspace, effect>>

\* The list is asked for again whatever the answer.
DeletionReturns(x) ==
    /\ deletion.answer /= "none"
    /\ AskList(x)
    /\ IF deletion.answer = "failed"
       THEN /\ deletion' = [deletion EXCEPT !.status = "error",
                                            !.answer = "none"]
            /\ UNCHANGED <<page, history, loads>>
       ELSE /\ deletion' = Closed
            /\ IF deletion.from = deletion.session
               THEN /\ page' = NoSession /\ history' = Idle
                    /\ loads' = Disowned(loads)
               ELSE UNCHANGED <<page, history, loads>>
    /\ UNCHANGED <<server, wire, transport, run, runs, cancels, creation,
                   workspace, effect>>

-----------------------------------------------------------------------------
(* Runs.                                                                   *)

\* submitRun, from the workbench.
Submit ==
    /\ Listed(page) /\ Ready(page) /\ ~RunActive /\ ~Locked
    /\ Ask(page)
    /\ UNCHANGED <<server, page, catalog, history, cancels, creation, deletion,
                   lists, loads, workspace, effect>>

Responds ==
    /\ run.step = "starting" /\ wire.state \in {"open", "closed"}
    /\ run' = [run EXCEPT !.step = "reading"]
    /\ transport' = "streaming"
    /\ UNCHANGED <<server, wire, page, catalog, history, runs, cancels,
                   creation, deletion, lists, loads, workspace, effect>>

\* Fault for LedgerSound: an event that is known already is refused.
MergeOnce(h, n, kind) ==
    IF n = Delta THEN [h EXCEPT !.live = TRUE]
    ELSE IF \A m \in h.durable : m < n
    THEN [h EXCEPT !.durable = @ \cup {n},
                   !.live = @ /\ kind \notin {"message", "terminal"}]
    ELSE [h EXCEPT !.status = "thrown"]

\* mergeAgentEvent, called by a state updater: nobody catches what it throws.
Merge(h, n, kind) ==
    IF n = Delta THEN [h EXCEPT !.live = TRUE]
    ELSE IF n \in h.durable THEN h
    ELSE IF \A m \in h.durable : m < n
    THEN [h EXCEPT !.durable = @ \cup {n},
                   !.live = @ /\ kind \notin {"message", "terminal"}]
    ELSE [h EXCEPT !.status = "thrown"]

\* parseAgentEventStream yields the next line.
Receive ==
    /\ run.step = "reading" /\ wire.queue /= << >>
    /\ LET n == Head(wire.queue)
           kind == IF n = Delta THEN "delta" ELSE file[run.session][n] IN
       /\ run' = [run EXCEPT
                    !.id = IF kind = "started" THEN wire.run ELSE @,
                    !.seen = @ \/ kind = "terminal"]
       /\ history' = IF Ready(run.session) THEN Merge(history, n, kind)
                     ELSE history
    /\ wire' = [wire EXCEPT !.queue = Tail(@)]
    /\ UNCHANGED <<server, page, catalog, transport, runs, cancels, creation,
                   deletion, lists, loads, workspace, effect>>

\* The end of startRunForSession; its last line waits for the history.
Finally(t) ==
    /\ run' = NoCall /\ wire' = NoWire
    /\ IF Ready(run.session)
       THEN /\ transport' = t
            /\ loads' = Disowned(loads)
                        \cup {Load(run.session, FALSE, runs, run.seen)}
       ELSE /\ transport' = IF run.seen THEN "idle" ELSE t
            /\ UNCHANGED loads
    /\ UNCHANGED <<file, gone, alive, page, catalog, history, runs, cancels,
                   creation, deletion, lists, workspace, effect>>

StreamEnds ==
    /\ run.step = "reading" /\ wire.state = "closed" /\ wire.queue = << >>
    /\ Finally(IF run.seen THEN "idle" ELSE "error")
    /\ UNCHANGED asked

\* The connection is lost, in the middle of a line or not.
StreamBreaks ==
    /\ "stream" \in Faults
    /\ run.step = "reading" /\ wire.state \in {"open", "closed"}
    /\ asked' = asked \cup Abandoned(wire)
    /\ Finally("error")

StartFails ==
    /\ run.step = "starting" /\ wire.state \in {"failed", "aborted"}
    /\ Finally(IF wire.state = "aborted" THEN "idle" ELSE "error")
    /\ UNCHANGED asked

\* stopRun before the response: the fetch is aborted, and with it the run.
StopStarting ==
    /\ transport = "starting" /\ run.step = "starting"
    /\ wire.state /= "aborted"
    /\ wire' = [wire EXCEPT !.state = "aborted", !.queue = << >>]
    /\ asked' = asked \cup Abandoned(wire)
    /\ UNCHANGED <<file, gone, alive, tab, calls, workspace, effect>>

Stop ==
    /\ transport \in {"starting", "streaming"} /\ run.id /= NoRun
    /\ transport' = "stopping"
    /\ cancels' = [cancels EXCEPT ![run.id] = "asked"]
    /\ UNCHANGED <<server, wire, page, catalog, history, run, runs, creation,
                   deletion, lists, loads, workspace, effect>>

\* The server knows no run that has ended.
CancelServed(r) ==
    /\ cancels[r] = "asked"
    /\ LET known == \E s \in Sessions : alive[s] = r IN
       \/ /\ known /\ asked' = asked \cup {r}
          /\ cancels' = [cancels EXCEPT ![r] = "none"]
       \/ /\ ~known \/ "cancel" \in Faults
          /\ cancels' = [cancels EXCEPT ![r] = "failed"] /\ UNCHANGED asked
    /\ UNCHANGED <<file, gone, alive, wire, tab, run, runs, creation, deletion,
                   lists, loads, workspace, effect>>

CancelFails(r) ==
    /\ cancels[r] = "failed"
    /\ cancels' = [cancels EXCEPT ![r] = "none"]
    /\ transport' = "error"
    /\ UNCHANGED <<server, wire, page, catalog, history, run, runs, creation,
                   deletion, lists, loads, workspace, effect>>

-----------------------------------------------------------------------------
(* The specification.                                                      *)

Serves ==
    \/ Accept \/ Refuse \/ CreationServed \/ DeletionServed
    \/ \E r \in Runs : CancelServed(r)
    \/ \E x \in Lists : ListRead(x)
    \/ \E l \in loads : PageRead(l)

Works == \E s \in Sessions :
    Proceed(s) \/ Stream(s) \/ End(s)

\* What the tab does by itself.
Answers ==
    /\ Rendered
    /\ \/ \E l \in loads : NextPage(l) \/ Commit(l) \/ LoadFails(l)
       \/ \E x \in Lists : ListArrives(x) \/ DeletionReturns(x)
       \/ CreationReturns \/ CreationFails \/ WorkspaceArrives
       \/ Responds \/ Receive \/ StreamEnds \/ StartFails
       \/ \E r \in Runs : CancelFails(r)

\* The dialog makes everything behind it inert.
Clicks ==
    /\ Rendered /\ deletion.status = "closed"
    /\ \/ \E s \in Sessions : Follow(s) \/ OpenDeletion(s)
       \/ StartNewTask \/ StartNewTaskInWorkspace
       \/ \E x \in Lists : RetryList(x)
       \/ Retry \/ Create \/ Submit \/ StopStarting \/ Stop

\* What the dialog leaves to the user.
Dialog ==
    /\ Rendered
    /\ \/ CloseDeletion
       \/ ConfirmDeletion
       \/ \E s \in Sessions \cup {NoSession} : Back(s)

Breaks == Rendered /\ StreamBreaks

Next == Serves \/ Works \/ Render \/ Answers \/ Clicks \/ Dialog \/ Breaks

Spec == Init /\ [][Next]_vars

\* The server answers, the network delivers, the event loop of the browser
\* comes to every response, and a run that was told to stop ends.
Fairness ==
    /\ WF_vars(Render)
    /\ WF_vars(Accept \/ Refuse)
    /\ WF_vars(CreationServed) /\ WF_vars(DeletionServed)
    /\ \A r \in Runs : WF_vars(CancelServed(r))
    /\ \A x \in Lists : WF_vars(ListRead(x))
    /\ WF_vars(\E l \in loads : PageRead(l))
    /\ \A s \in Sessions : WF_vars(alive[s] \in asked /\ End(s))
    /\ WF_vars(Rendered /\ \E l \in loads :
                  NextPage(l) \/ Commit(l) \/ LoadFails(l))
    /\ WF_vars(Rendered /\ \E x \in Lists :
                  ListArrives(x) \/ DeletionReturns(x))
    /\ WF_vars(Rendered /\ (CreationReturns \/ CreationFails))
    /\ WF_vars(Rendered /\ WorkspaceArrives)
    /\ SF_vars(Rendered /\ (Responds \/ Receive \/ StreamEnds \/ StartFails))
    /\ \A r \in Runs : SF_vars(Rendered /\ CancelFails(r))

FairSpec == Spec /\ Fairness

-----------------------------------------------------------------------------
(* Properties.                                                             *)

LoadType ==
    [session : Sessions, effect : BOOLEAN, of : Runs \cup {NoRun},
     settles : BOOLEAN, owns : BOOLEAN, after : Nat, stable : Nat,
     reply : [state : {"none", "read", "failed"}, tail : Nat, last : Nat]]

\* The types, and at most one load that may commit (HistoryLoadOwnership).
ClientType ==
    /\ file \in [Sessions -> Seq(Kinds)] /\ gone \subseteq Sessions
    /\ alive \in [Sessions -> Runs \cup {NoRun}] /\ asked \subseteq Runs
    /\ wire.state \in {"none", "asked", "open", "closed", "failed", "aborted"}
    /\ wire.session \in Sessions \cup {NoSession}
    /\ wire.run \in Runs \cup {NoRun} /\ wire.queue \in Seq(Nat)
    /\ page \in Sessions \cup {NoSession}
    /\ catalog \in [status : {"loading", "ready", "error"},
                    data : SUBSET Sessions]
    /\ history.status \in {"idle", "loading", "ready", "error", "thrown"}
    /\ history.durable \subseteq Nat /\ history.live \in BOOLEAN
    /\ transport \in {"idle", "starting", "streaming", "stopping", "error"}
    /\ run.step \in {"idle", "starting", "reading"}
    /\ loads \subseteq LoadType

\* What is shown of a session only grows, and is not given up for a reload
\* of it, whatever loads, streams and failures overlap (AC23-03, AC23-07):
\* canCommitCompleteHistory, the ownership of loads, the catch of
\* recoverHistory, mergeAgentEvent.
VisibleGrows ==
    [][\A s \in Sessions :
          Ready(s) /\ history'.session = s =>
              /\ Ready(s)' /\ history.durable \subseteq history'.durable]_vars

\* What the user can go on from: the history, an error with its button, the
\* word that there is no such session, or a run of it being read.
Settled(s) ==
    \/ Ready(s) \/ (history.status = "error" /\ history.session = s)
    \/ catalog.status = "error" \/ (catalog.status = "ready" /\ ~Listed(s))
    \/ (RunActive /\ run.session = s)

\* The load of the page was given up for a workspace that was refused: the code
\* leaves such a page loading for ever (startNewTaskInWorkspace).
Forgotten == workspace = "refused" /\ history = Idle

\* A session that stays in front of the user settles, however the effect, the
\* end of a stream, failing requests and navigation overlap, unless its load is
\* given up for a workspace that is refused; and a run that is being stopped
\* does not stop for ever: the answer to the cancellation or the end of the
\* stream ends it (stopRun, the finally of startRunForSession).  To stay is to
\* be there from some moment on, so each half is said by []<>.
PagesSettle ==
    /\ \A s \in Sessions : []<>(page /= s \/ Settled(s) \/ Forgotten)
    /\ []<>(transport /= "stopping")

\* The ledger on screen is sound: one load at most may replace it, and it
\* never refuses what the stream delivers, for mergeAgentEvent
\* throws in a state updater, where nothing catches it: an event is either
\* shown already, because a reload was ahead of the stream, or newer.
LedgerSound ==
    /\ ClientType
    /\ Cardinality({l \in loads : l.owns}) <= 1
    /\ history.status /= "thrown"
====
