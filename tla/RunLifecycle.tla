----------------------------- MODULE RunLifecycle -----------------------------
(***************************************************************************)
(* What the runtime promises about the runs of one session, without saying *)
(* how: a run is opened once, its events are written while it is open, it  *)
(* is closed at most once, and nothing of it is written afterwards.  A run *)
(* is closed by the process that owns it, or, when no process owns it any  *)
(* more, by the interruption that the next recovery writes.  At most one   *)
(* run is open and at most one is owned.                                   *)
(*                                                                         *)
(* AgentRuntime implements this specification.                             *)
(***************************************************************************)
CONSTANTS Runs, NoRun

VARIABLES owned,   \* the run some live process is working on, or NoRun
          log,     \* how the session's file ends for each run
          last     \* run and kind of the last event written

vars == <<owned, log, last>>

Ends == {"completed", "failed", "cancelled"}
RunStates == {"absent", "open", "interrupted"} \cup Ends

Init ==
    /\ owned = NoRun
    /\ log = [r \in Runs |-> "absent"]
    /\ last = <<NoRun, "terminal">>

NoneOpen == \A r \in Runs : log[r] # "open"

\* A run is taken on; its opening event may or may not reach the file.
Begin(r) ==
    /\ owned = NoRun /\ log[r] = "absent" /\ NoneOpen
    /\ owned' = r
    /\ \/ log' = [log EXCEPT ![r] = "open"] /\ last' = <<r, "started">>
       \/ UNCHANGED <<log, last>>

Record(r) ==
    /\ owned = r /\ log[r] = "open"
    /\ last' = <<r, "ordinary">>
    /\ UNCHANGED <<owned, log>>

Close(r) ==
    /\ owned = r /\ log[r] = "open"
    /\ \E how \in Ends : log' = [log EXCEPT ![r] = how]
    /\ last' = <<r, "terminal">>
    /\ UNCHANGED owned

Interrupt(r) ==
    /\ owned = NoRun /\ log[r] = "open"
    /\ log' = [log EXCEPT ![r] = "interrupted"]
    /\ last' = <<r, "terminal">>
    /\ UNCHANGED owned

\* The owner ends or dies, whatever the file says.
Leave ==
    /\ owned # NoRun
    /\ owned' = NoRun
    /\ UNCHANGED <<log, last>>

Next ==
    \/ \E r \in Runs : Begin(r) \/ Record(r) \/ Close(r) \/ Interrupt(r)
    \/ Leave

Spec == Init /\ [][Next]_vars

=============================================================================
