--------------------------- MODULE MCEventMailbox ---------------------------
(* Two surfaces; room for three events, and enough of them to fill the     *)
(* mailbox, drain it, and fill it again.                                   *)
EXTENDS EventMailbox
=============================================================================
