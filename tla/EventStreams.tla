---------------------------- MODULE EventStreams ----------------------------
(***************************************************************************)
(* What the event streams of runs promise their consumers: the events of a *)
(* run arrive in the order in which they were published, each once, and a  *)
(* stream ends by itself only after the last of them.  A stream may break  *)
(* at any time; what has arrived by then stays a prefix.                   *)
(***************************************************************************)
EXTENDS Naturals, Sequences

CONSTANT Runs

VARIABLES
    sent,   \* how many events of a run were published; the i-th is called i
    got,    \* the events the consumer has received
    end     \* how the consumer sees the stream: "open", "whole", "broken"

vars == <<sent, got, end>>

Init ==
    /\ sent = [r \in Runs |-> 0]
    /\ got = [r \in Runs |-> << >>]
    /\ end = [r \in Runs |-> "open"]

Send(r) ==
    /\ end[r] = "open"
    /\ sent' = [sent EXCEPT ![r] = @ + 1]
    /\ UNCHANGED <<got, end>>

Receive(r) ==
    /\ end[r] = "open" /\ Len(got[r]) < sent[r]
    /\ got' = [got EXCEPT ![r] = Append(@, Len(@) + 1)]
    /\ UNCHANGED sent
    /\ \/ UNCHANGED end
       \/ Len(got'[r]) = sent[r] /\ end' = [end EXCEPT ![r] = "whole"]

Finish(r) ==
    /\ end[r] = "open" /\ Len(got[r]) = sent[r]
    /\ end' = [end EXCEPT ![r] = "whole"]
    /\ UNCHANGED <<sent, got>>

Break(r) ==
    /\ end[r] = "open"
    /\ end' = [end EXCEPT ![r] = "broken"]
    /\ UNCHANGED <<sent, got>>

Next == \E r \in Runs : Send(r) \/ Receive(r) \/ Finish(r) \/ Break(r)

Spec == Init /\ [][Next]_vars

=============================================================================
