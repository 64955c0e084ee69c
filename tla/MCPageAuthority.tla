-------------------------- MODULE MCPageAuthority --------------------------
(* One navigation of Chrome against one command of the user, a frame, and  *)
(* two calls that time out, which are enough for a surface that stops      *)
(* answering.                                                              *)
EXTENDS PageAuthority
=============================================================================
