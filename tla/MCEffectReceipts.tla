-------------------------- MODULE MCEffectReceipts --------------------------
(* An instance of EffectReceipts for TLC: two keys, so that with room for  *)
(* one completion a pruning forgets one receipt and keeps the other; two   *)
(* workers, on one key or on two; two restarts.                            *)
EXTENDS EffectReceipts
=============================================================================
