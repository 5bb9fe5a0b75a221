----------------------------- MODULE EventStore -----------------------------
(***************************************************************************)
(* The event store (src/lib/storage/event-store.ts): the directories of    *)
(* the sessions, their event files, and the operations on them, one step   *)
(* for each call of the file system that can fail or that a crash can cut  *)
(* off.  Each operation runs under a key of KeyedFifo: the creation, the   *)
(* listing and the initialization under the root's, the others under their *)
(* session's.                                                              *)
(*                                                                         *)
(* A line of an event file keeps its sequence number and the identifier of *)
(* its event.  A crash may lose whatever has not been synced, and of what  *)
(* was being written leave a part: bytes behind the last newline, "tail".  *)
(* Syncing a new file is taken to make its name durable as well.           *)
(***************************************************************************)
EXTENDS KeyedFifo, Sequences

CONSTANTS
    Sessions,
    Root,        \* ROOT_LOCK_KEY
    IoFails,     \* calls of the file system may fail
    MaxEvents,   \* bound: event identifiers of a session
    MaxCrashes   \* bound: crashes of the machine

ASSUME StoreAssumption ==
    /\ Root \notin Sessions /\ Keys = Sessions \cup {Root}
    /\ IoFails \in BOOLEAN
    /\ MaxEvents \in Nat \ {0} /\ MaxCrashes \in Nat

VARIABLES
    place,    \* where the directory of each session is
    stable,   \* where it is at least, after a crash
    log,      \* the lines of each event file
    tail,     \* there are bytes behind the last newline
    synced,   \* how many of the lines are durable
    dirty,    \* the bytes behind them have changed since the last sync
    up,       \* the store is initialized
    op,       \* the operation each task carries out
    fate,     \* what callers were told of each session
    issued,   \* the identifiers of events drawn for each session
    acked,    \* the events whose append has returned
    refused,  \* the events whose append failed with nothing written
    crashes

files == <<place, stable, log, tail, synced, dirty>>
told == <<fate, issued, acked, refused>>
vars == <<fifo, files, up, op, told, crashes>>

\* A directory goes through these in order.
Places == <<"none", "temporary", "session", "tombstone", "gone">>
Rank(p) == CHOOSE i \in DOMAIN Places : Places[i] = p
PlaceNames == {Places[i] : i \in DOMAIN Places}

Fates == {"unused", "asked", "created", "doomed", "deleted"}
Kinds == {"create", "delete", "append", "read", "list", "initialize"}
Steps == {"idle", "queued", "mkdir", "files", "rename", "sync", "check",
          "unlink", "unlinked", "remove", "removed", "load", "truncate",
          "repaired", "open", "write", "fsync", "readdir", "each", "sweep",
          "swept"}

Lines == [seq : Nat, id : Nat]
Ops == [kind : Kinds, session : Sessions \cup {Root}, step : Steps,
        line : Lines, part : BOOLEAN, todo : SUBSET Sessions,
        page : SUBSET Sessions]

NoOp == [kind |-> "list", session |-> Root, step |-> "idle",
         line |-> [seq |-> 0, id |-> 0], part |-> FALSE, todo |-> {},
         page |-> {}]

\* What a line becomes that is written behind the rest of another one.
Garbage == [seq |-> 0, id |-> 0]

Ids(lines) == {lines[i].id : i \in DOMAIN lines}
Visible == {s \in Sessions : place[s] = "session"}

Init ==
    /\ FifoInit
    /\ place = [s \in Sessions |-> "none"] /\ stable = place
    /\ log = [s \in Sessions |-> << >>]
    /\ tail = [s \in Sessions |-> FALSE] /\ dirty = tail
    /\ synced = [s \in Sessions |-> 0]
    /\ up = FALSE
    /\ op = [t \in Tasks |-> NoOp]
    /\ fate = [s \in Sessions |-> "unused"]
    /\ issued = [s \in Sessions |-> 0]
    /\ acked = [s \in Sessions |-> {}] /\ refused = acked
    /\ crashes = 0

-----------------------------------------------------------------------------
(* Steps of an operation.                                                  *)

At(t, step) == t \in started /\ op[t].step = step

\* The operation goes on.
Then(t, step) ==
    /\ op' = [op EXCEPT ![t].step = step]
    /\ UNCHANGED fifo

\* It returns or throws.
Return(t) == Finish(t) /\ op' = [op EXCEPT ![t] = NoOp]

\* Fault for CallsReturn: an error leaves the lock behind.
FailsHolding(t) ==
    IoFails /\ op' = [op EXCEPT ![t] = NoOp] /\ UNCHANGED fifo

Fails(t) == IoFails /\ Return(t)

\* syncDirectory(sessionsRoot)
SyncRoot == stable' = place

\* Fault for ListComplete: a creation takes the lock of its session.
KeyOfSession(kind, s) == s

\* The key an operation runs under.
KeyOf(kind, s) ==
    IF kind \in {"create", "list", "initialize"} THEN Root ELSE s

Doing(kind, s) == {t \in Tasks : op[t].kind = kind /\ op[t].session = s}

\* A method of the store is called.  Only initialize is of use before the
\* store is initialized, and nobody knows the identifier of a session before
\* its creation has returned or the session was listed, which waits for it.
Call(t, kind, s) ==
    /\ up <=> kind # "initialize"
    /\ kind \in {"list", "initialize"} <=> s = Root
    /\ s # Root => (kind = "create" <=> fate[s] = "unused")
    /\ s # Root => Doing("create", s) = {}
    /\ kind = "append" =>
           issued[s] + Cardinality(Doing("append", s)) < MaxEvents
    /\ Enter(t, KeyOf(kind, s))
    /\ op' = [op EXCEPT ![t] = [NoOp EXCEPT
                  !.kind = kind, !.session = s, !.step = "queued"]]
    /\ UNCHANGED <<files, up, told, crashes>>

First(kind) ==
    CASE kind = "create" -> "mkdir"
      [] kind = "delete" -> "check"
      [] kind = "list" -> "readdir"
      [] kind = "initialize" -> "sweep"
      [] OTHER -> "load"

\* The lock is there.
Begin(t) ==
    /\ op[t].step = "queued"
    /\ Start(t)
    /\ op' = [op EXCEPT ![t].step = First(op[t].kind)]
    /\ UNCHANGED <<files, up, told, crashes>>

-----------------------------------------------------------------------------
(* createSession                                                           *)

\* The session's identifier is drawn, its temporary directory made.
MakeTemporary(t) ==
    /\ At(t, "mkdir")
    /\ LET s == op[t].session IN
       IF fate[s] # "unused" THEN Return(t) /\ UNCHANGED <<place, fate>>
       ELSE /\ fate' = [fate EXCEPT ![s] = "asked"]
            /\ \/ /\ place' = [place EXCEPT ![s] = "temporary"]
                  /\ Then(t, "files")
               \/ Fails(t) /\ UNCHANGED place
    /\ UNCHANGED <<stable, log, tail, synced, dirty, up, issued, acked,
                   refused, crashes>>

\* The catch block before the rename: the temporary directory may stay.
RemoveTemporary(t) ==
    /\ Fails(t)
    /\ place' \in {place, [place EXCEPT ![op[t].session] = "none"]}

\* session.json and events.jsonl with session.created, each synced.
WriteFiles(t) ==
    /\ At(t, "files")
    /\ LET s == op[t].session IN
       \/ /\ log' = [log EXCEPT ![s] = <<[seq |-> 1, id |-> 1]>>]
          /\ synced' = [synced EXCEPT ![s] = 1]
          /\ issued' = [issued EXCEPT ![s] = 1]
          /\ Then(t, "rename") /\ UNCHANGED place
       \/ RemoveTemporary(t) /\ UNCHANGED <<log, synced, issued>>
    /\ UNCHANGED <<stable, tail, dirty, up, fate, acked, refused, crashes>>

Publish(t) ==
    /\ At(t, "rename")
    /\ \/ /\ place' = [place EXCEPT ![op[t].session] = "session"]
          /\ Then(t, "sync")
       \/ RemoveTemporary(t)
    /\ UNCHANGED <<stable, log, tail, synced, dirty, up, told, crashes>>

\* The creation is durable, or the caller learns that it is uncertain.
Created(t) ==
    /\ At(t, "sync")
    /\ \/ SyncRoot /\ fate' = [fate EXCEPT ![op[t].session] = "created"]
       \/ IoFails /\ UNCHANGED <<stable, fate>>
    /\ Return(t)
    /\ UNCHANGED <<place, log, tail, synced, dirty, up, issued, acked,
                   refused, crashes>>

-----------------------------------------------------------------------------
(* deleteSession                                                           *)

CheckSession(t) ==
    /\ At(t, "check")
    /\ \/ op[t].session \in Visible /\ Then(t, "unlink")
       \/ op[t].session \notin Visible /\ Return(t)
       \/ Fails(t)
    /\ UNCHANGED <<files, up, told, crashes>>

Unlink(t) ==
    /\ At(t, "unlink")
    /\ \/ /\ place' = [place EXCEPT ![op[t].session] = "tombstone"]
          /\ fate' = [fate EXCEPT ![op[t].session] = "doomed"]
          /\ Then(t, "unlinked")
       \/ Fails(t) /\ UNCHANGED <<place, fate>>
    /\ UNCHANGED <<stable, log, tail, synced, dirty, up, issued, acked,
                   refused, crashes>>

SyncUnlinked(t) ==
    /\ At(t, "unlinked")
    /\ \/ SyncRoot /\ Then(t, "remove")
       \/ Fails(t) /\ UNCHANGED stable
    /\ UNCHANGED <<place, log, tail, synced, dirty, up, told, crashes>>

RemoveTombstone(t) ==
    /\ At(t, "remove")
    /\ \/ /\ place' = [place EXCEPT ![op[t].session] = "gone"]
          /\ Then(t, "removed")
       \/ Fails(t) /\ UNCHANGED place
    /\ UNCHANGED <<stable, log, tail, synced, dirty, up, told, crashes>>

Deleted(t) ==
    /\ At(t, "removed")
    /\ \/ SyncRoot /\ fate' = [fate EXCEPT ![op[t].session] = "deleted"]
       \/ IoFails /\ UNCHANGED <<stable, fate>>
    /\ Return(t)
    /\ UNCHANGED <<place, log, tail, synced, dirty, up, issued, acked,
                   refused, crashes>>

-----------------------------------------------------------------------------
(* appendEvent and readEvents: loadSessionUnlocked, then the append.       *)

Corrupt(s) == \E i \in DOMAIN log[s] : log[s][i].seq # i

\* The session is loaded: readEvents returns its page, appendEvent draws an
\* identifier and takes the next sequence number.
Loaded(t) ==
    LET s == op[t].session IN
    IF op[t].kind = "read" THEN Return(t) /\ UNCHANGED issued
    ELSE /\ issued' = [issued EXCEPT ![s] = @ + 1]
         /\ op' = [op EXCEPT ![t].step = "open",
                       ![t].line = [seq |-> Len(log[s]) + 1,
                                    id |-> issued[s] + 1]]
         /\ UNCHANGED fifo

\* Fault for Readable: the bytes behind the last newline stay there.
LoadUnrepaired(t) ==
    /\ At(t, "load")
    /\ IF op[t].session \in Visible THEN Loaded(t)
                                    ELSE Return(t) /\ UNCHANGED issued
    /\ UNCHANGED <<files, up, fate, acked, refused, crashes>>

\* The metadata and the scan of the event file.
Load(t) ==
    /\ At(t, "load")
    /\ LET s == op[t].session IN
       \/ /\ s \notin Visible \/ Corrupt(s)
          /\ Return(t) /\ UNCHANGED issued
       \/ /\ s \in Visible /\ ~Corrupt(s)
          /\ IF tail[s] THEN Then(t, "truncate") /\ UNCHANGED issued
                        ELSE Loaded(t)
       \/ Fails(t) /\ UNCHANGED issued
    /\ UNCHANGED <<files, up, fate, acked, refused, crashes>>

\* repairIncompleteTail
Truncate(t) ==
    /\ At(t, "truncate")
    /\ LET s == op[t].session IN
       \/ /\ tail' = [tail EXCEPT ![s] = FALSE]
          /\ dirty' = [dirty EXCEPT ![s] = TRUE]
          /\ Then(t, "repaired")
       \/ Fails(t) /\ UNCHANGED <<tail, dirty>>
    /\ UNCHANGED <<place, stable, log, synced, up, told, crashes>>

SyncFile(s) ==
    /\ synced' = [synced EXCEPT ![s] = Len(log[s])]
    /\ dirty' = [dirty EXCEPT ![s] = FALSE]

SyncRepaired(t) ==
    /\ At(t, "repaired")
    /\ \/ SyncFile(op[t].session) /\ Loaded(t)
       \/ Fails(t) /\ UNCHANGED <<synced, dirty, issued>>
    /\ UNCHANGED <<place, stable, log, tail, up, fate, acked, refused,
                   crashes>>

\* The line is too long, or the file cannot be opened: nothing is written.
Refuse(t) ==
    /\ refused' = [refused EXCEPT ![op[t].session] = @ \cup {op[t].line.id}]
    /\ Fails(t)

OpenToAppend(t) ==
    /\ At(t, "open")
    /\ \/ Then(t, "write") /\ UNCHANGED refused
       \/ Refuse(t)
    /\ UNCHANGED <<files, up, fate, issued, acked, crashes>>

\* writeBufferFully: the line is written at once or in parts, or not all.
WriteLine(t) ==
    /\ At(t, "write")
    /\ LET s == op[t].session IN
       \/ /\ log' = [log EXCEPT ![s] = Append(@,
                         IF tail[s] /\ ~op[t].part THEN Garbage
                                                   ELSE op[t].line)]
          /\ tail' = [tail EXCEPT ![s] = FALSE]
          /\ Then(t, "fsync")
          /\ UNCHANGED dirty
       \/ /\ ~op[t].part
          /\ op' = [op EXCEPT ![t].part = TRUE]
          /\ tail' = [tail EXCEPT ![s] = TRUE]
          /\ dirty' = [dirty EXCEPT ![s] = TRUE]
          /\ UNCHANGED <<fifo, log>>
       \/ Fails(t) /\ UNCHANGED <<log, tail, dirty>>
    /\ UNCHANGED <<place, stable, synced, up, told, crashes>>

Acknowledge(t) ==
    acked' = [acked EXCEPT ![op[t].session] = @ \cup {op[t].line.id}]

\* Fault for Durable: the append returns without the sync.
AppendedUnsynced(t) ==
    /\ At(t, "fsync") /\ Return(t) /\ Acknowledge(t)
    /\ UNCHANGED <<files, up, fate, issued, refused, crashes>>

\* The sync and the close; what fails leaves the caller uncertain.
Appended(t) ==
    /\ At(t, "fsync") /\ Return(t)
    /\ \/ SyncFile(op[t].session) /\ Acknowledge(t)
       \/ IoFails /\ SyncFile(op[t].session) /\ UNCHANGED acked
       \/ IoFails /\ UNCHANGED <<synced, dirty, acked>>
    /\ UNCHANGED <<place, stable, log, tail, up, fate, issued, refused,
                   crashes>>

-----------------------------------------------------------------------------
(* listSessions, initialize, crashes.                                      *)

ReadDirectory(t) ==
    /\ At(t, "readdir")
    /\ \/ /\ op' = [op EXCEPT ![t].step = "each", ![t].todo = Visible]
          /\ UNCHANGED fifo
       \/ Fails(t)
    /\ UNCHANGED <<files, up, told, crashes>>

\* The metadata of one more session.  One that is gone meanwhile fails the
\* whole list.
ListOne(t) ==
    /\ At(t, "each")
    /\ \E s \in op[t].todo :
       \/ /\ s \in Visible
          /\ op' = [op EXCEPT ![t].todo = @ \ {s}, ![t].page = @ \cup {s}]
          /\ UNCHANGED fifo
       \/ s \notin Visible /\ Return(t)
       \/ Fails(t)
    /\ UNCHANGED <<files, up, told, crashes>>

Listed(t) ==
    /\ At(t, "each") /\ op[t].todo = {}
    /\ Return(t)
    /\ UNCHANGED <<files, up, told, crashes>>

Tombstones == {s \in Sessions : place[s] = "tombstone"}

\* initialize: cleanupDeletionTombstones, one tombstone after the other.
Sweep(t) ==
    /\ At(t, "sweep") /\ ~up
    /\ \E s \in Tombstones :
       \/ /\ place' = [place EXCEPT ![s] = "gone"]
          /\ op' = [op EXCEPT ![t].part = TRUE]
          /\ UNCHANGED fifo
       \/ Fails(t) /\ UNCHANGED place
    /\ UNCHANGED <<stable, log, tail, synced, dirty, up, told, crashes>>

Swept(t) ==
    /\ At(t, "sweep") /\ (up \/ Tombstones = {})
    /\ IF op[t].part THEN Then(t, "swept") /\ UNCHANGED up
                     ELSE Return(t) /\ up' = TRUE
    /\ UNCHANGED <<files, told, crashes>>

Initialized(t) ==
    /\ At(t, "swept")
    /\ \/ SyncRoot /\ up' = TRUE
       \/ IoFails /\ UNCHANGED <<stable, up>>
    /\ Return(t)
    /\ UNCHANGED <<place, log, tail, synced, dirty, told, crashes>>

\* Where a crash may leave a directory: at either end when a removal has
\* taken it back.
Between(a, b) == {a, b} \cup {p \in PlaceNames : Rank(p) \in Rank(a)..Rank(b)}

\* The machine stops: of every directory and file survives what is durable
\* and any part of the rest, in the order in which it was done.
Crash ==
    /\ crashes < MaxCrashes
    /\ crashes' = crashes + 1
    /\ place' \in [Sessions -> PlaceNames]
    /\ \A s \in Sessions : place'[s] \in Between(stable[s], place[s])
    /\ stable' = place'
    /\ synced' \in [Sessions -> 0..MaxEvents]
    /\ \A s \in Sessions : synced'[s] \in synced[s]..Len(log[s])
    /\ log' = [s \in Sessions |-> SubSeq(log[s], 1, synced'[s])]
    /\ tail' \in [Sessions -> BOOLEAN]
    /\ \A s \in Sessions :
          synced'[s] = Len(log[s]) /\ ~dirty[s] => tail'[s] = tail[s]
    /\ dirty' = [s \in Sessions |-> FALSE]
    /\ up' = FALSE
    /\ op' = [t \in Tasks |-> NoOp]
    /\ Restart
    /\ UNCHANGED told

-----------------------------------------------------------------------------

CreateStep(t) == MakeTemporary(t) \/ WriteFiles(t) \/ Publish(t) \/ Created(t)
DeleteStep(t) ==
    \/ CheckSession(t) \/ Unlink(t) \/ SyncUnlinked(t) \/ RemoveTombstone(t)
    \/ Deleted(t)
EventStep(t) ==
    \/ Load(t) \/ Truncate(t) \/ SyncRepaired(t)
    \/ OpenToAppend(t) \/ WriteLine(t) \/ Appended(t)
RootStep(t) ==
    \/ ReadDirectory(t) \/ ListOne(t) \/ Listed(t)
    \/ Sweep(t) \/ Swept(t) \/ Initialized(t)

Work(t) ==
    Begin(t) \/ CreateStep(t) \/ DeleteStep(t) \/ EventStep(t) \/ RootStep(t)

Calls == \E t \in Tasks, kind \in Kinds, s \in Sessions \cup {Root} :
            Call(t, kind, s)

Next == Calls \/ (\E t \in Tasks : Work(t)) \/ Crash

Spec == Init /\ [][Next]_vars

\* The file system answers every call.
FairSpec == Spec /\ \A t \in Tasks : WF_vars(Work(t))

-----------------------------------------------------------------------------
(* Properties.                                                             *)

\* Every variable stays in its set.
StoreType ==
    /\ FifoType
    /\ place \in [Sessions -> PlaceNames] /\ stable \in [Sessions -> PlaceNames]
    /\ log \in [Sessions -> Seq(Lines)]
    /\ tail \in [Sessions -> BOOLEAN] /\ dirty \in [Sessions -> BOOLEAN]
    /\ synced \in [Sessions -> Nat]
    /\ up \in BOOLEAN /\ op \in [Tasks -> Ops]
    /\ fate \in [Sessions -> Fates] /\ issued \in [Sessions -> Nat]
    /\ acked \in [Sessions -> SUBSET Nat] /\ refused \in [Sessions -> SUBSET Nat]
    /\ crashes \in 0..MaxCrashes

\* Whatever failed or crashed before, every session that is visible can be
\* loaded: its file begins with session.created, and its sequence numbers
\* are without a gap and its identifiers without a repetition.
Readable ==
    /\ StoreType
    /\ \A s \in Visible :
          /\ log[s] # << >> /\ ~Corrupt(s)
          /\ \A i, j \in DOMAIN log[s] : log[s][i].id = log[s][j].id => i = j

\* What a caller was told stays true, also after the repairs and crashes that
\* follow: an event whose append has returned is durable in the file, as long
\* as there is one; an append that failed without being called uncertain has
\* left nothing; a session whose creation has returned is visible and durable
\* until its deletion begins, and one whose deletion has returned never comes
\* back (event-store.ts:736-760, 505-520, 574-590; jsonl.ts:304-341).
Durable ==
    \A s \in Sessions :
       /\ s \in Visible => acked[s] \subseteq Ids(SubSeq(log[s], 1, synced[s]))
       /\ refused[s] \cap Ids(log[s]) = {}
       /\ fate[s] = "created" => place[s] = "session" /\ stable[s] = "session"
       /\ fate[s] = "deleted" => /\ Rank(place[s]) >= Rank("tombstone")
                                 /\ Rank(stable[s]) >= Rank("tombstone")

\* A list that returns names every session whose creation has returned and
\* whose deletion has not begun.
ListComplete ==
    \A t \in Tasks :
       At(t, "each") /\ op[t].todo = {} =>
           \A s \in Sessions : fate[s] = "created" => s \in op[t].page

\* Every call returns, whatever fails and whatever is called meanwhile.
CallsReturn ==
    \A t \in Tasks : op[t].step # "idle" ~> op[t].step = "idle"

=============================================================================
