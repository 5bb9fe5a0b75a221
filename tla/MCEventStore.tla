---------------------------- MODULE MCEventStore ----------------------------
(* An instance of EventStore for TLC. *)
EXTENDS EventStore

MCKeys == Sessions \cup {Root}

=============================================================================
