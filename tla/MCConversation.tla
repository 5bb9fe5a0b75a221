---------------------------- MODULE MCConversation ----------------------------
(* Batches with a malformed call behind, beside or instead of a good one.   *)
EXTENDS Conversation

MCBatches == {<<"ok", "bad">>, <<"bad">>, <<"ok", "ok">>}

=============================================================================
