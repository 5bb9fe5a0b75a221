------------------------------ MODULE MCModelCall ------------------------------
(* The chunks of the checked instance: every part occurs, and text comes    *)
(* alone, with a call, and with the reason to finish.                       *)
EXTENDS ModelCall

MCChunks ==
    {{"limited"}, {"garbage"}, {"foreign", "text"}, {"choices", "text"}, {"usage"},
     {"text"}, {"blank", "stop"}, {"text", "stop"}, {"flood"},
     {"text", "reasoning", "call"}, {"call", "tools"}, {"object"},
     {"second", "tools"}, {"length"}}

=============================================================================
