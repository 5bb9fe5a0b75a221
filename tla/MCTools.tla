------------------------------ MODULE MCTools ------------------------------
(* The instance of Tools TLC checks. *)
EXTENDS Tools
CONSTANTS r1
=============================================================================
