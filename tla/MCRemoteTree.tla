---------------------------- MODULE MCRemoteTree ----------------------------
(* One session; the configurations say where its mailboxes overflow.       *)
EXTENDS RemoteTree
=============================================================================
