# SEcode: a TLA+ model of the agent

SEcode (`src/`) is a coding agent: a Next.js server, with a browser client and
a terminal client, that runs a language model in a loop, executes the tools it
asks for behind the user's approval, and keeps every session as an append-only
file of events. This directory models the parts of it whose correctness depends
on the order of things (the loop of a run, its approvals and aborts, the file
and its readers, the lock and the crashes of the event store, the stream to the
browser and what the browser makes of it, the memory the model is given, the
call of the model, the tools), checks them with TLC and proves the central
invariants with TLAPS.

## 1. Inventory

| component | source | state it keeps | operations | what makes it correct |
|---|---|---|---|---|
| Agent runtime | `lib/agent/runtime.ts`, `events.ts` | per active run: phase, abort source, the open approval and the deferred it waits on, the model round; one lock per session | start, cancel, recover, resolve an approval or a plan, the loop | one open run per session, closed exactly once; no tool without consent; no tool after an abort; a wait that can be answered; every run ends |
| Run projection | `lib/agent/projection.ts` | phase, round, tool states, plan, error streak of the run being read | fold one event | accepts every order the runtime writes, or the session is lost |
| Context history | `lib/context/history-projector.ts` | frozen runs and rounds of the session | fold one event, freeze a run | accepts what the run projection accepts |
| Policies | `lib/agent/completion-evidence.ts`, `validation-repair.ts`, `service-handoff.ts`, `write-dependency-recovery.ts`, ... | small per-run records | observe a result, decide a stop | the runtime's corrections end, and are legal in the file |
| Event store | `lib/storage/*` | directories, event files, a FIFO lock per session and one for the root | create, delete, list, append, read, initialize | what was acknowledged stays, what was refused stays out, files stay loadable, calls return |
| HTTP application and bridge | `lib/server/*`, `app/api/*` | reservations and active runs, the outgoing queue of a stream | start and cancel runs, answer, delete, NDJSON stream with back pressure | one operation per session, nothing lost or reordered on the stream, a disconnect cancels the run |
| Context provider | `lib/context/provider.ts`, `compaction.ts`, `fallback-summary.ts`, `tool-output-projection.ts` | the compaction in force, the room of outputs, a cache of projected sessions | build a context, share the room, compact | no round is forgotten; every call of a turn has its answer; outputs fit their room |
| Approvals | `lib/approval/gateway.ts`, `capability.ts`, `process-policy.ts` | the pending request, capabilities | request, resolve, abort, authorize | one decision per request |
| Model client | `lib/model/*` | the attempt and its timer, the partial answer of a stream, the provider's turns that are kept | complete, parse, accumulate, retry, map a conversation to messages | nothing is shown twice, no truncated stream passes for an answer, a call ends |
| Tools | `lib/tools/*` | a child process, its group and its timers; temporary files; a search | write, replace, run, serve, search, list, read, and the abort of each | the process tree ends; edits of others survive a write; an abort settles |
| Workspace boundary | `lib/workspace/*` | none | resolve a path, look at it again | a path stays inside |
| Browser client | `lib/client/*` | the ledger of events, the transcript | apply live events, reload, reconcile | what is shown only grows |
| User interface | `app/ui/*` | the page, the loads and their owner, the transport of a run, dialogs | load, start, stop, navigate, delete | no page loads for ever, no stop stays pending |
| Terminal | `cli/*` | the command loop | read, render, shut down | shutdown leaves no run |
| Bootstrap, workspaces, settings | `app/api/*`, `lib/server/*` | a map of workspaces | parse, choose | input validation |
| Domain schemas | `lib/domain/*` | none | validate | field validation |

**How they interact.** A route of the HTTP application calls
`SecodeApplication`, which reserves the session and calls
`AgentRuntime.startRun`. The runtime recovers the session under the session's
lock, registers an `ActiveRunState`, appends `run.started` and returns a
handle; `executeRun` goes on in the background. Everything it does becomes an
event: `AgentEventPublisher.append` calls `EventStore.appendEvent`, folds the
stored event into the run's projection in memory, and hands it to the consumer
of the run, the NDJSON bridge, *awaiting* it. Approvals come back by other HTTP
requests, which append to the same file (`approval.resolved`,
`plan.approval.resolved`) and settle the deferred the run waits on. Aborts come
from four places: the user, the signal of the caller, the timer of the request,
and the consumer throwing. The next run of the session reads the file again
through both projections: an event order one of them refuses makes the session
unusable, long after the run that wrote it has ended. For each request
the runtime asks the context provider for the rounds of the file, which may
first have an older part of them summarised by another call of the model, and
the model client turns them, with the provider's own turns it has kept, into
messages. The browser shows a ledger of events filled from two sides, the stream
of the run it has started and the pages of a history it loads.

**What is hard.** The runtime awaits at every append, so abort, timer and
answers interleave with every step; the order of events is decided by code in
one file and judged by code in two others; the store may fail with or without
having written; the process or the machine may stop between any two calls. A
provider may be silent, break off or contradict itself; a child process may
ignore signals or leave children of its own; the user edits the files a tool is
about to replace; a reload and a stream are ahead of each other in turn.
`PROJECT.json` lists these hazards with the lines where they bite and the
properties that cover them.

## 2. Modules

| module | models | notes |
|---|---|---|
| `SessionHistory` | `projection.ts`: `Accepts` and `Project` of one event | no state; the file is the fold of its events |
| `ContextHistory` | `history-projector.ts`: `ProjectContext`, `Buildable` | extends `SessionHistory` |
| `RunLifecycle` | abstract: what a session promises about its runs | refined by `AgentRuntime` |
| `AgentRuntime` | `runtime.ts`, `events.ts` | the core; extends the two readers |
| `MCAgentRuntime` | symmetry of runs and callers | |
| `KeyedQueue` | abstract: what a lock promises | refined by `KeyedFifo` |
| `KeyedFifo` | `mutex.ts` | promise chains as sets of gates |
| `EventStore` | `event-store.ts`, `jsonl.ts` | extends `KeyedFifo`; one step per file system call |
| `MCEventStore` | the set of keys | |
| `EventStreams` | abstract: what a stream of events promises its consumer | refined by `ServerApplication` |
| `NdjsonBridge` | `ndjson.ts`, and the platform's stream under it | no state: each operation maps a bridge to the bridge after it |
| `ServerApplication` | `application.ts`, the route of a run, the runtime as they see it | extends `NdjsonBridge` |
| `ClientSession` | `app-shell-provider.tsx`, the effect of `session-workbench.tsx`, `event-state.ts`, `history-reconciliation.ts`, `session-deletion.ts` | one tab and the server as it sees it |
| `ModelCall` | `client.ts`, `sse.ts`, `chat-accumulator.ts` | one call of the model |
| `MCModelCall` | the chunks a provider sends | |
| `OutputProjection` | `tool-output-projection.ts` | functions: how outputs share their room |
| `Conversation` | `provider.ts`, `compaction.ts`, `summary-generator.ts`, `fallback-summary.ts`, `message-renderer.ts`, `chat-mapper.ts` | extends `OutputProjection` |
| `MCConversation` | the batches of calls | |
| `FileWrites` | `write-file.ts`, `replace-in-file.ts`, `atomic-write.ts`, the resolution in `boundary.ts` | any number of runs on one path |
| `ProcessRun` | `run-process.ts` | one call, its group of processes |
| `Lookups` | `search-text.ts`, `list-directory.ts`, `read-file.ts` | one call |
| `Tools` | `registry.ts` | composes the three under one signal |
| `MCTools` | the model value of the run | |
| `AgentRuntimeProofs`, `ReaderProofs` | theorems about the runtime, its handler and the readers | the second extends the first |
| `EventStoreProofs`, `ServerApplicationProofs`, `ClientProofs`, `ModelCallProofs`, `ConversationProofs`, `ToolsProofs` | theorems about the component of that name | |

### 2.1 The two readers

`SessionHistory` keeps of an event its type, run, round number and a tag (the
phase of a start, the outcome of an answer, the code of a result), and of a
session the record `History`: the phase, the round with the kind and the state
of each of its tool calls, the status of the plan, the error streak, the
iterations, and `valid`, which turns FALSE with the first event the projection
throws at. Field formats, texts, counts of tokens and file names are left out.
`ContextHistory` folds the same events by the rules of the context projector:
`readable` turns FALSE where that one throws, and `goalless` records a run that
ended before its goal was written, for which `freezeRun` throws when the
context is built.

### 2.2 The runtime

The variables are the code's state: `active` is `ActiveRunState` (identity,
phase, `abortSource`, `ending`, the pending approvals and the deferred waited
on), `turn` the local variables of a model round, `facts` what the policies and
the loop remember across rounds, `dec` the calls of `resolveApproval` and
`resolvePlanApproval` in flight; `disk`, `ctx`, `log` and `last` are what the
file says, `synced` whether the projection in memory has followed it. `pc`
names the await at which `executeRun` continues and `io` what became of its
last append. There is one action for each stretch of code between two awaits:
its guards are the conditions and early returns of that stretch in their order,
so "abort, then limit" is the order of the code.

Two simplifications carry weight:

* *An append takes effect when it is called.* The store queues the operations
  of a session in the order of the calls (`KeyedFifo`, run `Storage`, property
  `FirstComeFirstServed`), reads included, so the order of the calls is the
  order in the file. The result arrives in a later step, and the consumer of
  the events in another, with everything else interleaved.
* *Policies are choices.* Whether a check covers the changed files, a parent
  directory is missing or a read repeats the one before is a nondeterministic
  choice among the outcomes the policy can produce in that state; the counters
  and flags that decide about the run are kept.

A crash of the process is possible at any moment and leaves `disk`, `ctx`,
`log` and `last`. The store fails in the two ways it distinguishes: nothing was
written (`absent`), or it was, and the caller hears of an error (`committed`).

### 2.3 The store

`KeyedFifo` is the lock: a task waits for the *set of gates* its promise chain
still contains, which is what the chain means once gates that are open have
been dropped. `EventStore` has one step for each call of the file system that
can fail or be cut off: temporary directory, files, rename, directory sync;
rename to the tombstone, sync, removal, sync; load, truncation of a torn tail,
its sync; open, write (whole, or in two parts), sync. A crash keeps of every
directory a place between the last synced one and the present one, of every
file at least the synced lines, and leaves any part of the rest as a tail
behind the last newline. `fate`, `acked` and `refused` record what callers were
told; no step of the store reads them except to know which identifiers were
drawn.

### 2.4 The application and the stream

`ServerApplication` is one session: the four tables of `application.ts`
(`operation`, `bySession`, `byRun`, `asked`), the requests in progress (`req`,
cut where the application or the route awaits), and of each run what the
application and the bridge can tell apart. The runtime appears with its lock,
the parts of `startRun` (the look at the signal, the recovery, `run.started`,
the handle), the three ways a run is aborted from outside, and the settling of
its completion. `NdjsonBridge` keeps the lines in the queue of the stream and
the producers that wait; the stream of the platform is modelled by its rules for
`pull`: after its start, after every read and every enqueue, while there is
room, one at a time, with one more made up for. `log` has a place for a run of
an earlier process, open or ended at the start, which is what a restart leaves.

An append and the delivery of its event are one step here, because the store
returns the appends of a session in the order of the file and each return goes
on to its delivery at once; so the order on the stream is the order of the file
as long as the bridge keeps it, which is what `Streams` checks.

### 2.5 The tab

In `ClientSession` a file is the sequence of the kinds of its events, the
ledger on screen the set of sequence numbers it shows. Requests are answered at
one moment and delivered at a later one, so answers overtake each other as they
do on a network. `loads` are the calls of `recoverHistory` with their generation
and the question whether they still own the history; `run` is the call of
`startRunForSession`, `wire` its stream, `transport` and `cancels` what the stop
button has begun, `workspace` the choice of a task in another workspace, which
awaits its validation between giving up the load and leaving the page; a
directory picked on the start page counts as no choice. React renders between
two deliveries (`Render`), and the effect of the workbench runs when its
dependencies have changed. A tab may navigate, retry, start a run, stop it, and
delete sessions at any moment the buttons allow.

### 2.6 A call of the model

`ModelCall` has one action for each wait of `complete`: the response, the body
of an error, a read of the stream, the callback of a visible delta, the sleep
before a retry. The provider writes lines that end in CR, LF or both, the
network cuts them anywhere into reads, and a chunk is the *set of parts* it
carries, handled in the order of the accumulator. `due` is a history variable:
the events written and not yet taken, with a mark where one was taken that was
not written.

### 2.7 What the model is told

`Conversation` keeps of a round the sequence numbers, the calls (well formed or
not), the sizes of their outputs and whether its text was refused. A build
projects the rounds, lets the outputs share their room (`OutputProjection`, pure
functions of the algorithm in the code: passes with shares that are rounded
down, newest round first, marks before bodies), estimates, and either requests
or drafts a compaction, whose summary comes from the model or from the fallback.
`covers` is a history variable: the rounds a summary was made of, directly or
through earlier ones; what it says of them is not modelled, so the facts that a
fallback drops for want of room are not missed. The kept turns of the provider and the rounds are mapped to
wire messages as `chat-mapper.ts` does, and `wire.ok` says whether it threw.

### 2.8 The tools

`FileWrites` gives a file its kind, its identity and as its text the set of
marks its authors left: a replacement adds to what it has read, a write puts its
own. One action stands for each await of a call (resolution, reading, hash,
temporary file, second look, rename, unlink), each can fail, and others may edit,
remove or replace the file or its directory between any two. `ProcessRun` has a
child and a worker it may fork, either of which may ignore SIGTERM or hold the
output open, the two timers, the probe and the abort. `Lookups` counts entries
found, skipped and cut off. `Tools` lets a run make one call after the other
under one signal; a service that was handed over lives on beside later calls.

## 3. Runs

Runs that pass:

| run | instance | what it shows |
|---|---|---|
| `Approvals` | one run, two callers, ask and full access, batches of two, all four aborts | a tool that executes was authorized in the file; the position in the batch; an aborted run starts nothing and does not complete |
| `Planning` | planning and normal runs, one caller, a store that works, reads, writes and checks, every correction of a stop and of a call, compactions after rounds of tool calls, the timer | nothing but planning reads before the consent to the plan; the file stays replayable; run, projection and context provider agree on it |
| `Failures` | two runs in a row, planned or not, both failures of the store, one crash, fairness, no answer owed by a user | the runtime implements `RunLifecycle`; a waiting run can be answered; every run ends |
| `Storage` | one session, two callers, every call failing, one crash | what callers were told stays true (`Durable`), files stay loadable, lists are complete, the lock is fair and implements `KeyedQueue`, calls return |
| `Streaming` | two requests at a time, one run behind what an earlier process left, a queue of two units, lines of one, two and (refused) three | the application knows each run of the runtime, a deletion is alone, who reads a session at rest reads a recovered file, cancellations and disconnections reach the run, the stream implements `EventStreams`, and everything returns |
| `Client` | two sessions, one of them created, one deletable, one run, failing pages, streams, starts, cancellations, creations and deletions | one load at most may commit, the ledger refuses no event, and what is shown only grows |
| `ClientPages` | no deletion, failing pages, streams, lists, starts and cancellations, refused workspaces, fairness | a page does not load for ever unless its load is given up for a refused workspace, a stop does not stay pending |
| `Model` | two attempts, three events each, fourteen chunks, every end of line, every cut | output of one attempt only; the accumulator gets what was written; no truncated stream completes; responses are let go; the call ends |
| `Context` | two runs, the second planned, four requests, outputs of one and four units, batches with malformed calls, two compactions | calls and answers pair in every request; no refused text goes back; no round is forgotten; outputs share their room |
| `Tools` | one run of two calls (a process, a look or a write), one edit by others, a forked worker | edits of others survive; nothing is left behind; a look that says whole is whole; a service is left alone; an abort settles |

Two runs have a violation that is a finding (section 6): `PlanTwoCallers` and
`ServiceStops`.

Several properties are conjunctions of what belongs together: `Durable` is the
four things a caller of the store is told, `Registered` the two halves of "the
session is reserved", `CancelsHeard` the two ways a cancellation comes,
`EverythingReturns` publishes, requests, reservations and streams, `NothingLeft`
files and processes, `ReadersAgree` the three who follow the file. The type
invariants of the store, the application, the tab and the model call are
conjuncts of `Readable`, `Registered`, `LedgerSound` and `OutputOnce`.

**Bounds.** One run of a session is the unit of almost everything; two are
needed where one run meets the leftovers of another (`Failures`, `Context`). Two
callers suffice for a race between answers, because the first answer changes the
state every further one sees. Batches of two have a first and a last call and an
error between them. The limits of the code (2 restatements, 3 like reads, 4
recovery requests, 8 recovery calls, 3 tool errors) are CONSTANTS; the runs
take them at or below the code's values so that they are reached. `MaxBatch`
bounds what the model may ask for and `MaxCrashes` the crashes; all the others
are limits the code has. `CompactsAfter` says behind which answers the context
may need a compaction: `Planning` has them behind rounds of tool calls, and
`Failures` also before the first request; behind a rejected stop the projection
refuses them (section 6). Five model requests and three tool calls are the
shortest run that plans, is approved, writes, has its stop rejected, checks and
finishes. In `Storage` two tasks make every pair of operations meet under one
lock, one crash reaches each state left by a failure, and three event
identifiers allow a torn append, its repair and the append after it. The store
with two sessions was too large for the same run; the key of an operation is its
session's, so two sessions meet only in a list.

In `Streaming` sizes are units of memory: with a line and a queue of two, a
queue is full after two small lines or one large one, a small line can find
room in front of a large one that waits, and a line of three is refused; the
limits of the code (8 and 16 MiB) have the same order, which is
`BridgeAssumption`. The handler and both callers may publish, so two producers
can wait. One run per instance keeps the liveness properties within minutes; the
safety properties alone also hold for two runs one after the other (2.75 million
states without ordinary events), which is where `Cleanup` must not clear the
entry of a newer run.

In `Client` and `ClientPages` a page has two events, so that a history of three
needs two and a page can be the last, a middle or an empty one; `MaxMiddle`
bounds what a file holds before its last run ends, `Deletable`, `MaxRuns` and
`WorkspaceChoice` what the user asks for, `Lists` the lists that are outstanding.
With everything in one run fairness cannot be checked within minutes. `Client`
has the creations that fail and the deletions, whose answers may be lost; it
leaves out tasks in other workspaces, which touch loads and history as a new
task does. `ClientPages` has no deletion, and every fault but a failing
creation; with deletions that succeed, failing pages and refused workspaces the
property holds too (620,000 states). Deletions that fail would not fit its property either: each of them
reads the list again, and a user who goes on deleting in vain, and asking for a
new task whenever the page loads, keeps it from settling.

`PagesSettle` makes one exception, the page whose load was given up for a
workspace that is refused (`Forgotten`), because the code leaves it loading
(section 6): without the exception TLC refutes it, with no other fault.

In `Model`, `MaxEvents` bounds the events of an attempt (three: a text, something
that goes wrong, an end) and the chunks of `MCModelCall` hold every part the
accumulator tells apart. Two attempts have a first and a last one; the code
allows three.

In `Context` the sizes are chosen so that two rounds with large outputs reach
the trigger of eight and the budget of ten; `MaxRuns` and `MaxRequests` bound the
session. In `Tools` a run makes two calls (`MaxCalls`), so that a service meets
another call, and `MaxEdits` is one: an edit may be any change of the file or its
directory, and the code looks at them at three places. What other runs write is
an `Edit` as well; with two runs that write at the same time `FileWrites` alone
(630,000 states) satisfies `EditsSurvive` and `NoTempLeft` too. Two entries and a
limit of two tell "all" from "the limit"; `MaxFiles` one stops the walk.

Deadlock is not checked (`CHECK_DEADLOCK FALSE`) where the system really stops: a
session whose runs are used up, a run waiting for a user without a timer, a tab
nobody touches, a tool call that is over. A model call has a last step that
repeats itself, and there it is checked.

**Fairness.** `AgentRuntime!Fairness` is weak fairness of the handler (the event
loop of Node.js does not starve a settled promise; the store, the consumer, the
model client and the tools answer, each of them having a time limit of its own
or being awaited unconditionally by the code), of the returns of the callers,
and of the timer where the request sets one. Users owe no answer: nothing is
assumed of `DecideApproval`, `DecidePlan` and the other aborts.
`EventStore!FairSpec` is weak fairness of each task: the file system answers
each call, with a result or an error.

`ServerApplication!FairSpec` adds that a request in progress is served, that
the timer fires, that an aborted run ends, and that a consumer with a line
before it reads it or leaves; a consumer with nothing to read owes nothing. Not
covered by it: a consumer that neither reads nor leaves blocks the append that
delivers to it, and with it the end of the run. It is listed as a hazard.

`ClientSession!Fairness`: the server answers, a run that was asked to stop ends,
answers are delivered and React renders. The deliveries of a stream and of a
failed cancellation have strong fairness, because every render in between
disables them for a moment; the user owes nothing.

`ModelCall!Fairness`: the code goes on where it can, the timer rings, and a
`fetch` or a read whose signal is aborted rejects. The provider owes nothing. The
callback that takes a delta is assumed to return, for the code awaits it without
a limit; in the runtime it is an append.

`Tools!ToolsFairness`: the file system answers, timers fire, a process that has a
signal it cannot ignore dies, and the close of a child is seen. No process need
end by itself, and nobody need abort.

## 4. Proofs

| theorem | statement | how |
|---|---|---|
| `AgentRuntimeProofs!ProjectType`, `ProjectContextType` | one more event of any kind keeps the projections in their types | case split on the type of the event |
| `TypeCorrect` | `Spec => []TypeOK` | one step per action, with the two lemmas above for `Write` |
| `OwnsOneRun` | `Spec => []Ownership` | inductive together with `TypeOK` |
| `WorksOnACall` | `Spec => []CallInBatch` | inductive together with `TypeOK` |
| `ImplementsLifecycle` | `Spec => LifecycleSpec` | every step of the runtime is a step of `RunLifecycle` or a stutter, under `TypeOK` and `Ownership` |
| `HonoursAbort` | `Spec => AbortHonoured` | the two actions that start a tool and end a run look at the abort |
| `HandlerInvariance` | `Spec => []HandlerInv`: what the handler knows of its file at each of its places | one lemma per kind of event and per action |
| `AlwaysAuthorized`, `PlansGateTools`, `WaitsAreAnswerable` | `Spec => []ExecutionAuthorized`, `[]PlanGate`, `[]WaitAnswerable` | `HandlerInv` |
| `ReaderProofs!ReadersAlwaysAgree` | `"service" \notin Offers` implies `Spec => []ReadersAgree` | `HandlerInv` and `CouplingInv` |
| `AlwaysReplayable` | `Undiverted` implies `Spec => []HistoryReplayable` | the two invariants above, `Remembered` and `Replay` |
| `EventStoreProofs!OneAtATime` | `Spec => []Exclusive` | chain invariant of the lock |
| `NoEntryLeaks` | `Spec => []EntriesInUse` | the same invariant |
| `CallsInOrder` | `Spec => FirstComeFirstServed`: the lock implements `KeyedQueue` | every step is a step of the queues or a stutter, under `QueueInv` |
| `AlwaysReadable`, `NothingToldIsLost`, `ListsAreComplete` | `Spec => []Readable`, `[]Durable`, `[]ListComplete` | `StoreInv` |
| `ServerApplicationProofs!AlwaysRegistered`, `PagesAreRecovered`, `CancelsAreHeard` | `Spec => []Registered`, `[]PagesRecovered`, `[]CancelsHeard` | `ServerInv` |
| `StreamsImplemented` | `Spec => Streams`: the bridge implements `EventStreams` | every step delivers one event, ends one stream, or stutters, under `ServerInv` |
| `ClientProofs!TabInvariant`, `LedgersSound` | `Spec => []TabInv`, `[]LedgerSound` | `TabInv`, one lemma per action |
| `VisibleOnlyGrows` | `Spec => VisibleGrows` | every step, under `TabInv` |
| `ModelCallProofs!ShownOnce`, `NoBodyLeftOpen` | `Spec => []OutputOnce`, `[]BodiesClosed` | `CallInv` |
| `StreamRead`, `CompletionsHonest` | `Spec => []StreamAsWritten`, `[]HonestCompletion` | `StreamInv`, which no cut of the stream changes |
| `ConversationProofs!NothingForgotten` | `Spec => []MemoryComplete` | `ConversationInv`, and what a request sends (`RequestSends`) |
| `RefusedTextsDropped` | `Spec => []RefusedTextStaysOut` | `PromptInv`; a kept turn has no refused text |
| `CallsAnswered` | `Spec => []WirePaired` | `PromptInv`: each message is sent as exactly one message (`WireIs`) |
| `RoomShared` | `Spec => []OutputsShared` | `PromptInv`, and what the functions of `OutputProjection` compute (`ProjectedIs`) |
| `ToolsProofs!EditsSurviveAlways` | `ToolsSpec => EditsSurvive` | `FilesInv`, one lemma per step of a call |
| `ServiceLeftAloneAlways` | `ToolsSpec => ServiceLeftAlone` | `ProcessInv` |
| `NothingLeftAlways` | `ToolsSpec => []NothingLeft` | `FilesInv` and `ProcessInv` |
| `LooksWholeAlways` | `ToolsSpec => []LooksWhole` | `LookInv` |

They hold for every set of runs, callers, tasks and sessions, batches, queues,
answers and files of any size, every limit and every set of faults that the
named assumptions of the modules allow (`ConstantsAssumption`,
`HistoryAssumption`, `KeyAssumption`, `StoreAssumption`, `BridgeAssumption`,
`ConversationBounds`, `ToolsBounds` and their like); the two theorems of `ReaderProofs` add a
hypothesis of their own, which their paragraphs explain.

**The runtime.** `Ownership` is inductive once it says what the handler's
position means: `pc` is idle exactly when no run is owned, `ending` exactly when
it finishes, and the file of an owned run is open except where the append of
`run.started` failed or the end has been written. Without the last part a
recovery could close a run that is alive; without the part about `starting` an
answer could be appended to a run that was never started.

**The handler and its file.** None of `ExecutionAuthorized`, `PlanGate` and
`WaitAnswerable` is inductive: each depends on what every earlier place of the
handler left in the file. `HandlerInv` says it place by place. `FileFollows`
holds while the run can still append and its file can be read, and has four
parts: how many requests, the goal and the final answer are in the file
(`Counters`); which phase, and that only a plan that is being decided may be
ahead of the handler (`PhaseFollows`); how far the batch has been asked for or
worked off (`RoundFollows`, `BatchFollows`); what the file holds of the current
call (`CallFollows`). `Answers` follows the callers: an answer to an approval is
the only one and the file already holds it when it returns; of the answers to a
plan at most one that the file accepts is on its way. `Waiting` ties the two
promises of the handler to the places that await them, and `Synced` says when
the projection in memory is still the file's. A refused or uncertain append
leaves `FileFollows` vacuous, so the invariant needs nothing about failures but
that they lead to the end of the run.

**The two readers.** `CouplingInv` relates the record of the run projection
with that of the context provider field by field (`Coupled`): requests and
iterations, the calls of a round, the answers, the corrections. Every event that
the first accepts and the second accepts too keeps them coupled; for three kinds
of event the second asks for more, and there the place of the handler gives it
(`Usual`, with `Narrating` and `OnOffer`). The hypothesis of
`ReadersAlwaysAgree`, that no service is offered, is the divergence of section
6: what `decideServiceFinal` decides about a refused service leaves no event, so
that with services the two readers do refuse different files.

**The file can be read.** `AlwaysReplayable` says that the projection accepts
every event of the runtime and of its callers, in every interleaving with
aborts, failures and crashes. `Undiverted` has one line for each way in which
the code itself writes an event its file refuses (section 6), and no line is
there for the proof only: TLC refutes `HistoryReplayable` on a small instance
of each setting the lines keep out.

* No service is offered: a refused service call asks for a correction that
  leaves no event.
* No compaction follows a stop: `assertStableForCompaction` refuses it.
* Where failed checks can meet a compaction, a batch has at most
  `MaxToolErrors` calls: the calls skipped after a failed check count in the
  file and not in the run, and a batch with one call more takes the file over
  the limit behind which it refuses a compaction.
* Where runs plan, no call is malformed, no append is reported lost although it
  was written, and one caller decides. Each of the three writes a result or a
  decision the projection of a plan refuses.

`Planning`, the run that checks the property, keeps all four lines.

`HandlerInv` alone does not give it: it says nothing of a file that has stopped
following, and of the error streak it knows nothing. `Replay` adds three
parts. `ErrorsFollow` compares the streak of the file with the one of the run:
they are equal, or the file's is shorter, or its last errors are skipped checks,
of which there are fewer than the batch has calls. Before an answer is settled
the comparison is with the streak the run is about to count. `InStep` says that
the handler never loses step while it runs, except where a caller's answer to an
approval is reported lost; then it hears of it by an error and appends nothing
the answer would have allowed. `Decidable` says that a plan open in memory is
open in the file, unless its one answer is on its way. `Remembered` bounds what
the handler carries from round to round.

**The store.** The chain invariant of the lock (`FifoInv`): the tail of an entry
is the set of live tasks of its key, its counter their number, what a task waits
for is live and of the same key, and of two live tasks of one key one waits for
the other. Hence of the tasks that wait for nothing each key has one at most,
and an entry with counter zero has no task. The operations of the store never
touch the lock but through `Enter`, `Start`, `Finish` and `Restart`
(`StoreStepsLock`).

That the tasks are served in the order of their calls needs more than that: who
waits for whom must also be a line. `QueueInv` adds that waiting is transitive
and never mutual (`Ordered`), so that the live tasks of a key form a `Line`, in
which no two wait for the same number of tasks and every place is taken
(`PlacesTaken`, by counting: an injection of a finite set into its own size
misses nothing). The queue the refinement mapping speaks of is then the only
sequence in which the task at place *i* waits for *i* - 1 others (`QueueIs`,
`QueueUnique`), and each action of the lock does to it what `KeyedQueue` says: a
new task is last (`LineGrows`), a task that waits for nobody is first
(`LineFirst`), and when it goes the others move up (`LineShrinks`).

`StoreInv` adds what the lock is for: an operation between its first and its
last call of the file system finds the session as it left it (`Undisturbed`),
because nobody else holds its key. It also says where the directory of a session
is, now and after a crash, for each thing callers were told of it (`Placed`),
and that an event they were told of is a synced line, that lines have
consecutive numbers, and that an event they were told is *not* there is none of
the lines (`Kept`). The last is where a weaker invariant breaks: the line of a
failed append must be gone before the next number is given out.

**The application and the bridge.** `ServerInv` says who holds the reservation
of the session (`Reservation`), how far the run of a request is by then
(`Progress`), and that a run at work is in the two tables or still in the hands
of the request that starts it (`Tables`), which is what a cancellation relies
on. `Alone` is why a deletion and a page of a session at rest meet no run.
`StreamOK` counts the lines: received, queued and waiting ones make up all that
the run has published, in order, until the consumer leaves or the bridge fails.
The refinement of `EventStreams` follows from it.

**The tab.** `LedgerSound` says that `mergeAgentEvent` never throws, and is not
inductive: a reload replaces the ledger while events are on their way, and the
ledger may then be ahead of the stream. `TabInv` relates the two. Of the queue of
the stream (`Numbered`) it says that its events are in the file, that their
numbers rise, and that each is shown already or newer than everything shown. A
reload shows the first `n` events of the file, so of any event the one or the
other holds again (`NumberedReload`); that the file only grows makes an appended
event newer than all (`NumberedMore`). For this a ledger has to lie within the
file of its session (`LedgerInv`), which holds because a page was read from it
(`LoadsInv`), and the queue has to be of the session that is shown (`RunInv`:
the stream is the one of the run the tab starts or reads, no other run has its
number, and a session that has just been created rests). `VisibleGrows` then
follows step by step: a load commits only over a ledger that is a first part of
what it has read. `ClientAssumption` says that the three words in which
`creation` is told from a session name none; session ids are UUIDs.

**The model call.** `CallInv` says that only the current attempt has shown
anything, that it has shown all but at most the one delta which is with the
caller, and that text counts as semantic output. As a retry needs an attempt
without semantic output, no attempt that has shown something is repeated
(`OutputOnce`).

`StreamInv` is about bytes in two places: `buffer`, read and not yet taken
apart, and `pipe`, written and not yet read. A reader goes through both,
token by token, from where the parser stands: `Go` is one token of it, `Reaches`
a way through a sequence of them. What the invariant says (`Framed`) is that
this reader meets the events that are due, each with a blank line behind it,
and ends at home: between two events or, when the provider has closed, behind
a last event without its blank line, or a last line without its end. A
`Read` moves the cut between the two and changes neither the sequence nor the
way; an event the provider adds prolongs the way (`EventAdded`), and the next
line the parser takes is the first step of it (`LineTaken`). That lemma is where
line ends matter: a CR at the end of the buffer ends a line only at the end of
the stream, and so the reader, who is never at home between CR and LF, and
the parser agree how many bytes to take. `HonestCompletion` asks besides that
only the last event be `[DONE]`.

**What the model is told.** A prompt is computed from a file in one step, by
filters, concatenations and the loop of `buildChatRequest`, so two things have
to be proved: what these compute for every sequence, and which files and kept
turns there are. For the first, `FilteredIs` says that a filtered sequence is
the increasing enumeration of the places it keeps, and `FlattenIs` what is true
of a concatenation when it is true of each block and not disturbed by putting two
together. Both are about functions that are defined by recursion on
a number; the induction is done by looking at the least place where a claim
fails (`LeastIs`). For the second, `PromptInv` has three parts besides what it
says of a request on its way (`WireHolds`):

* `ConversationInv`: the rounds lie in the file one behind the other; the
  compaction in force covers everything before what it retains (`Remembered`);
  the draft of the next one covers what that one covered and the rounds it
  evicts; and the context of a request mirrors the rounds that are not covered,
  with the outputs cut (`Mirrored`). `MemoryComplete` fails in the step to the
  request after the next compaction if the draft forgets what its predecessor
  covered, so it is not inductive without these.
* `NumbersHold`: no two rounds share the number of a call.
* `TurnsHold`: a turn that is kept for the provider has the well-formed calls of
  exactly one round of the file or of the answer that is being worked off, and
  no two turns share a call.

From the last two, `buildChatRequest` finds for every message of the assistant
either no kept turn or one that has exactly its calls and has not been sent; it
never throws, and sends one message for one message (`WireIs`), under the names
of the turn or under those of the file, but never mixed. A prompt in which the
calls of each block are answered in it (`PairedIn`, `Part`) is then paired on the
wire too. The proof also shows what `TurnsHold` depends on: a batch in which all
calls are malformed keeps no turn, and a correction drops all of them.

**The room for outputs.** `RoomShared` is about a computation and no further
invariant: the context of a request is `Shown(CurrentRounds)` while it is
estimated. `fairAllocations` goes on until nothing is left or nobody can take
more, and it has to be shown that there are never more passes than outputs. A
pass hands out either all that is left or leaves somebody satisfied
(`SharesMeet`: the shares of a pass add up to what is left, the remainder of the
division included), so the outputs that could take more become fewer with every
pass (`PassKeeps`), and after as many as there are outputs the room is spent or
all have what they can take (`FairIs`). `Dealt` is what holds of the allocation
from round to round: what is given and what is left make up the room, and
nobody has more than the limit. `Served` says of the rounds done so far, from the
newest back, that one which lacks something left nothing to the older ones
(`ExtendIs`). As everything is dealt from the marks on (`Marker <= OutputCap`),
the bodies are dealt on top of an allocation that lies within the marks, which
is where the last part of `OutputsShared` comes from.

**The tools** share only the signal of their run, so each part has an invariant
of its own. `FilesInv` follows a text from its reading to its rename: what a
replacement will write contains what it has read, the bytes it has hashed are
the ones it has read, a call in place `rename` has just seen the file as it is
unless it is marked late, and a temporary file in the present directory belongs
to a call that still has to rename or unlink it. The last part needs that the
file system gives no identity twice, or a new directory could inherit an old
temporary file. `ProcessInv` says that only living processes are dying, that a
handed service has no second signal of its call to come, and that the timer of
a stopped service is armed by an abort only. `LookInv` counts: every entry is
found, skipped or left, and a result that claims to be whole has none left. The
run of TLC has one run of calls that writes once against one edit; the theorems
have any number of each.

**Only model-checked:**

* liveness under fairness (`RunsEnd`, `CallsReturn`, `EverythingReturns`,
  `PagesSettle`, `CallEnds`, `AbortSettles`), which is out of the prover's reach;
* `PlanDecidedOnce`, which the run with two callers refutes.

## 5. Assumptions

* One process uses a data directory (the documentation demands it; nothing
  locks it between processes).
* A synced new file has a durable name in its new directory. The creation of a
  session syncs its files and the root, never the temporary directory itself.
* Two tool calls of one kind have the same arguments, as far as the error
  streak compares them; differences are brought in by the choice of results.
* The consumer of the events either takes an event or throws; it does neither
  twice.
* A tab is one React tree in which every state update is rendered before the
  next answer or click is handled.
* The mark an output leaves is no longer than what an output may have (31 bytes
  and 8192, `OutputBounds`). An output that is cut is as long as its
  allocation; in the program it may end some bytes earlier, at the last whole
  character.
* A provider repeats no text, and gives its chunks the id of their completion
  and no two completions the same; a call is then known by its completion and
  its place (`Calls`).
* A process is what POSIX makes of it: a group has the identifier of its leader,
  SIGKILL cannot be ignored, and a worker that leaves the group is not followed.

## 6. Findings and known divergences

Two findings are runs that TLC refutes; the quoted lines are in `PROJECT.json`.

* `PlanTwoCallers`: `resolvePlanApproval` looks at the open plan, awaits its
  append and closes it afterwards. A second caller passes in between and writes
  a second decision, after which the projection refuses the session.
  `resolveApproval` does not have the problem: the gateway takes its request
  first.
* `ServiceStops`: the close event of a service that was handed over drops the
  listener of its run, but says only that the child is gone and the pipes are
  closed. A worker of its group whose output is elsewhere lives on, and no
  cancellation reaches it any more.

The following are visible in the modules with other constants, or were met in
the code on the way; the runs that pass keep them out where the constants allow
it, and no property they check claims the contrary.

*The loop and the file*

* A malformed tool call in a planning run is settled with
  `MODEL_TOOL_PROTOCOL_ERROR`, which the projection of a planning run refuses
  (`projection.ts:699`): `"malformed"` in `Offers` with planning.
* Skipped checks count in the projection's error streak (`projection.ts:714`)
  and not in the runtime's, so the runtime goes on where the projection stops.
* A run aborted before `user.message` leaves a run without a goal, for which no
  later context can be built (`goalless` in `ContextHistory`).
* `startRun` looks at the signal of its caller when it gets the lock, and
  listens to it only after the recovery of the session (`runtime.ts:378`). A
  signal that fires in between starts a run that never hears of it. In the HTTP
  route the cancellation of the response's stream still ends the run
  (`CancelsHeard`); another caller would have to wait for the timer.
* A compaction between the rejection of a stop and the next request is refused
  by `assertStableForCompaction` (`projection.ts:339`), and the run fails. It
  needs no outside cause: a compaction gives the room of the evicted outputs to
  those that stay, and the next estimate may be over the trigger again
  (`pc = "refused"` in `Conversation`, `"stop"` in `CompactsAfter`).
* With `"service"` in `Offers`, a service call that was *refused* counts as an
  attempt (`service-handoff.ts:46`); the correction asked for afterwards records
  nothing, and the projection refuses the next `model.requested`. This is why
  `service` is not offered in the run that checks `HistoryReplayable`. For the
  same reason a correction about a service can leave the context projector with
  two stop rounds in a row, and a retry of a service records no event.
* With `StoreFailures = {"committed"}` and planning, a plan decision that is
  reported uncertain although written leaves the plan open; the user's second
  answer is then written too.

*What the model is told*

* `suppressContinuationContent` blanks the last turn that was kept, which is an
  earlier one when every call of the refused answer was malformed
  (`runtime.ts:1165`).
* A call literally named `invalid_tool_call` is kept in the turn and dropped by
  the renderer; a fragment that is a suffix of what is accumulated is dropped by
  `mergeFragment`; a provider without chunk ids gets internal ids that repeat.
* Partial batches of runs that ended, and goals of runs without a round, are not
  in any later context.
* After `[DONE]` the accumulator leaves its loop, which ends the generator at its
  `yield`; the `reader.cancel` behind it (`sse.ts:161`) never runs and the body
  stays open. `BodiesClosed` therefore speaks of calls that failed.

*The tab*

* `startNewTaskInWorkspace` gives up the load of the page
  (`app-shell-provider.tsx:358`) before it asks whether the workspace is valid,
  and moves only if it is. A refused one leaves a page that loads for ever,
  because the dependencies of the loading effect have not changed. AC23-06 of
  `23-web-history-pagination-terminal-reconciliation-spec.md:158` excludes a
  permanent loading; `PagesSettle` names the case as its exception.
* The same function asks whether the tab may leave its page before that await
  and leaves it afterwards. When a session that is being created returns in
  between, its run has started, and the tab leaves the page of a running task,
  which `18-agent-execution-precision-tasks-revision-1.md:80` rules out; no
  property is about it. The end of a deletion moves the tab in the same way, by
  the page it was asked from.
* The late reload of a run that is over sets the transport to idle, and its late
  failed cancellation sets it to error, while a second run streams.
* Leaving a page and returning while a run streams leaves a hole between the
  reload and the live events until the next reload; returning to a running
  session by the back button shows nothing until the run ends; a stale list may
  overwrite a newer one; the reload after a broken stream may be read before
  `run.cancelled` is written.

*The tools*

* A plain process whose worker keeps its output open never closes: neither the
  timeout nor a cancellation ends the call (`HeldOpen` in `Tools`). The
  documents admit a part of it.
* A service counts as ready without a look at whether its child is alive, and the
  service of a run that has completed has no way to be stopped.
* An edit between the last look and the rename is lost, which the operating
  system gives no means to prevent (`late` in `FileWrites`); a temporary file
  stays where the directory was swapped or the process dies; `write_file` has no
  hash to expect.

## 7. Not modelled

* *The cache of projected sessions* of the context provider
  (`provider.ts:162-380`): builds in `Conversation` read the file afresh.
* *Approval gateway*: its one decision per request is in `AgentRuntime`; the
  registry of capabilities is not.
* *Policies* (`completion-evidence.ts`, `validation-repair.ts`, ...): choices of
  `AgentRuntime`; how they read texts and arguments is left out.
* *Workspace boundary*: what its checks see between the steps of a call is in
  `FileWrites` and `Lookups`; the syntax of paths and Windows are not.
* *Transcript and view model* of the browser: functions of the ledger.
* *Terminal*: a loop around the same application.
* *Redaction, domain schemas, language detection, command classification, limits
  of tool output*: pure functions on text whose results are choices of the
  models.
* *Creation of sessions and permissions of workspaces in the application*: the
  first is the store's, the second a map.
* *Bootstrap, settings, rendering.*
* *Symbolic links and file modes in the store; validation of the fields of a
  line.*

## 8. Plan

1. `ContextCache`: the cache of projections against the file that grows under it.
2. The policies as modules of their own, with the abstract choices of
   `AgentRuntime` as the specification they implement; capabilities.
3. `SessionTails`, the promise chain of `withSessionLock`, as a second
   implementation of `KeyedQueue`; the command loop of the terminal.
