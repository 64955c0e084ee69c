------------------------ MODULE MCCreationReceipts ------------------------
(* A creation that makes a workspace and one that adds a tab, two attempts *)
(* each, one close and two starts of the daemon.                           *)
EXTENDS CreationReceipts
=============================================================================
