-------------------------- MODULE MCHostedTerminals --------------------------
(* Instances of HostedTerminals for TLC: the threads and files of different *)
(* terminals meet only in a start of the daemon, so one terminal is enough  *)
(* for every property stated per terminal.                                  *)
EXTENDS HostedTerminals
=============================================================================
