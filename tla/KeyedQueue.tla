----------------------------- MODULE KeyedQueue -----------------------------
(***************************************************************************)
(* What the locks of the system promise: the tasks of one key run one at a *)
(* time, in the order in which they were called.                           *)
(***************************************************************************)
EXTENDS Sequences

CONSTANTS Tasks, Keys

VARIABLES
    queue,    \* the tasks of each key, in the order of their calls
    running   \* those that run: each the first of its queue

vars == <<queue, running>>

Queued == UNION {{queue[k][i] : i \in DOMAIN queue[k]} : k \in Keys}

Init == queue = [k \in Keys |-> << >>] /\ running = {}

Enter(t, k) ==
    /\ t \notin Queued
    /\ queue' = [queue EXCEPT ![k] = Append(@, t)]
    /\ UNCHANGED running

Start(k) ==
    /\ queue[k] # << >>
    /\ Head(queue[k]) \notin running
    /\ running' = running \cup {Head(queue[k])}
    /\ UNCHANGED queue

Finish(k) ==
    /\ queue[k] # << >>
    /\ Head(queue[k]) \in running
    /\ queue' = [queue EXCEPT ![k] = Tail(@)]
    /\ running' = running \ {Head(queue[k])}

\* The process and all its tasks are gone.
Restart == queue' = [k \in Keys |-> << >>] /\ running' = {}

Next ==
    \/ \E t \in Tasks, k \in Keys : Enter(t, k)
    \/ \E k \in Keys : Start(k) \/ Finish(k)
    \/ Restart

Spec == Init /\ [][Next]_vars

=============================================================================
