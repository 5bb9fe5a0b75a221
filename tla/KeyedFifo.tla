----------------------------- MODULE KeyedFifo ------------------------------
(***************************************************************************)
(* KeyedFifoExecutor (src/lib/storage/mutex.ts), the lock of the event     *)
(* store: run(key, task) chains the task behind the tail of its key.       *)
(*                                                                         *)
(* A promise of the chain is the set of the gates it still waits for: each *)
(* task opens one gate when it ends.  A gate that is open is in no set.    *)
(***************************************************************************)
EXTENDS Naturals, FiniteSets

CONSTANTS Tasks, Keys, NoKey

ASSUME KeyAssumption == NoKey \notin Keys /\ IsFiniteSet(Tasks)

VARIABLES
    queues,   \* the Map: the entry of each key
    key,      \* the key each task was called with, NoKey when it is over
    prior,    \* what the task waits for before it starts
    started   \* the tasks that run

fifo == <<queues, key, prior, started>>

NoEntry == [there |-> FALSE, tail |-> {}, pending |-> 0]
Entries == [there : BOOLEAN, tail : SUBSET Tasks, pending : Nat]

Live == {t \in Tasks : key[t] # NoKey}
Of(k) == {t \in Tasks : key[t] = k}

FifoType ==
    /\ queues \in [Keys -> Entries]
    /\ key \in [Tasks -> Keys \cup {NoKey}]
    /\ prior \in [Tasks -> SUBSET Tasks]
    /\ started \in SUBSET Tasks

FifoInit ==
    /\ queues = [k \in Keys |-> NoEntry]
    /\ key = [t \in Tasks |-> NoKey]
    /\ prior = [t \in Tasks |-> {}]
    /\ started = {}

\* Fault for FirstComeFirstServed: t waits for the running task only.
EnterBehindRunning(t, k) ==
    /\ key[t] = NoKey
    /\ key' = [key EXCEPT ![t] = k]
    /\ prior' = [prior EXCEPT ![t] = queues[k].tail \cap started]
    /\ queues' = [queues EXCEPT ![k] =
           [there |-> TRUE, tail |-> @.tail \cup {t}, pending |-> @.pending + 1]]
    /\ UNCHANGED started

\* run(k, task) up to its first await: t is chained behind the tail.
Enter(t, k) ==
    /\ key[t] = NoKey
    /\ key' = [key EXCEPT ![t] = k]
    /\ prior' = [prior EXCEPT ![t] = queues[k].tail]
    /\ queues' = [queues EXCEPT ![k] =
           [there |-> TRUE, tail |-> @.tail \cup {t}, pending |-> @.pending + 1]]
    /\ UNCHANGED started

\* The prior tail has settled.
Start(t) ==
    /\ key[t] # NoKey /\ t \notin started /\ prior[t] = {}
    /\ started' = started \cup {t}
    /\ UNCHANGED <<queues, key, prior>>

\* Fault for Exclusive: the entry goes with the first task.
DropEntryAlways(entry) == NoEntry

\* Fault for EntriesInUse: the entry stays.
DropEntryNever(entry) == entry

\* An entry nobody is chained to any more is dropped.
DropEntry(entry) == IF entry.pending = 0 THEN NoEntry ELSE entry

\* The finally block.  The gate of t opens for everything chained behind it.
Finish(t) ==
    /\ t \in started
    /\ queues' = [k \in Keys |->
           IF k = key[t]
           THEN DropEntry([there |-> TRUE, tail |-> queues[k].tail \ {t},
                           pending |-> queues[k].pending - 1])
           ELSE queues[k]]
    /\ prior' = [u \in Tasks |-> IF u = t THEN {} ELSE prior[u] \ {t}]
    /\ key' = [key EXCEPT ![t] = NoKey]
    /\ started' = started \ {t}

\* The process is gone.
Restart ==
    /\ queues' = [k \in Keys |-> NoEntry]
    /\ key' = [t \in Tasks |-> NoKey]
    /\ prior' = [t \in Tasks |-> {}]
    /\ started' = {}

FifoNext ==
    \/ \E t \in Tasks : (\E k \in Keys : Enter(t, k)) \/ Start(t) \/ Finish(t)
    \/ Restart

FifoSpec == FifoInit /\ [][FifoNext]_fifo

-----------------------------------------------------------------------------

\* Two tasks of one key never run at the same time: what a task reads under
\* its key stays as it is until the task is over.
Exclusive ==
    \A t, u \in started : key[t] = key[u] => t = u

\* An entry is dropped with its last task, and not before: the Map neither
\* grows with the sessions that were ever used nor forgets one in use.
EntriesInUse ==
    \A k \in Keys : queues[k].there <=> Of(k) # {}

\* The live tasks of a key in the order of their calls.
Waiting == [k \in Keys |->
    CHOOSE q \in [1..Cardinality(Of(k)) -> Of(k)] :
       \A i, j \in DOMAIN q : i < j =>
          /\ q[i] # q[j]
          /\ Cardinality(prior[q[i]]) <= Cardinality(prior[q[j]])]

\* The lock does what KeyedQueue promises: the tasks of a key run one at a
\* time and in the order in which they were called.
Order == INSTANCE KeyedQueue WITH queue <- Waiting, running <- started
FirstComeFirstServed == Order!Spec

=============================================================================
