--------------------------- MODULE OutputProjection ---------------------------
(***************************************************************************)
(* How the tool outputs of a history share the room a prompt has for them  *)
(* (projectContextToolOutputs, src/lib/context/tool-output-projection.ts). *)
(* Outputs are their lengths; a round is the sequence of its outputs, a    *)
(* history the sequence of its rounds, the oldest first.                   *)
(***************************************************************************)
EXTENDS Naturals, Sequences, SequencesExt, FiniteSetsExt

CONSTANTS
    OutputRoom,  \* calculateContextToolOutputBudgetBytes
    OutputCap,   \* MAX_CONTEXT_TOOL_OUTPUT_BYTES
    Marker       \* length of the mark an output leaves when it is cut

ASSUME OutputBounds ==
    {OutputRoom, OutputCap, Marker} \subseteq Nat /\ Marker <= OutputCap

Least(a, b) == IF a <= b THEN a ELSE b
Total(lengths) ==
    LET sum[n \in 0..Len(lengths)] ==
            IF n = 0 THEN 0 ELSE sum[n - 1] + lengths[n]
    IN sum[Len(lengths)]

\* An output's part of what is left in this pass; the first ones in line take
\* the remainder of the division.
Share(s, i) ==
    LET n == Cardinality(s.active)
        place == Cardinality({j \in s.active : j <= i})
    IN s.left \div n + IF place <= s.left % n THEN 1 ELSE 0

\* One pass over the outputs that could take more.
Pass(capacities, s) ==
    IF s.left = 0 \/ s.active = {} THEN s
    ELSE LET granted == [i \in DOMAIN capacities |->
                 IF i \in s.active
                 THEN Least(capacities[i] - s.given[i], Share(s, i)) ELSE 0]
             given == [i \in DOMAIN capacities |-> s.given[i] + granted[i]]
         IN [given |-> given, left |-> s.left - Total(granted),
             active |-> {i \in s.active : given[i] < capacities[i]}]

\* Every pass but the last satisfies an output, so there are no more passes
\* than outputs.
FairAllocations(capacities, room) ==
    LET none == [given |-> [i \in DOMAIN capacities |-> 0],
                 left |-> Least(room, Total(capacities)),
                 active |-> {i \in DOMAIN capacities : capacities[i] > 0}]
        after[n \in 0..Len(capacities)] ==
            IF n = 0 THEN none ELSE Pass(capacities, after[n - 1])
    IN after[Len(capacities)].given

\* Fault for OutputsShared: the oldest round is served first.
OldestFirst(history) == [n \in DOMAIN history |-> n]

\* The order in which the rounds are served.
NewestFirst(history) == [n \in DOMAIN history |-> Len(history) + 1 - n]

\* What the outputs of a round could take on top of what they have.
Wanted(outputs, given, limit) ==
    [i \in DOMAIN outputs |->
        LET most == Least(outputs[i], limit)
        IN IF most > given[i] THEN most - given[i] ELSE 0]

\* Round k is given its part of what is left.
Serve(history, s, limit, k) ==
    LET more == FairAllocations(Wanted(history[k], s.given[k], limit), s.left)
    IN [given |-> [s.given EXCEPT ![k] = [i \in DOMAIN @ |-> @[i] + more[i]]],
        left |-> s.left - Total(more)]

\* Room for every output up to a limit, on top of what it has.
Extend(history, allocation, limit) ==
    LET served[n \in 0..Len(history)] ==
            IF n = 0 THEN allocation
            ELSE Serve(history, served[n - 1], limit, NewestFirst(history)[n])
    IN served[Len(history)]

\* First the marks, so that no cut is silent, then the bodies.
Allocation(history) ==
    Extend(history,
           Extend(history,
                  [given |-> [k \in DOMAIN history |->
                                 [i \in DOMAIN history[k] |-> 0]],
                   left |-> OutputRoom],
                  Marker),
           OutputCap).given

\* What is shown of every output.
ProjectedOutputs(history) ==
    LET room == Allocation(history)
    IN [k \in DOMAIN history |->
           [i \in DOMAIN history[k] |-> Least(history[k][i], room[k][i])]]

=============================================================================
