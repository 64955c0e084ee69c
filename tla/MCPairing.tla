----------------------------- MODULE MCPairing ------------------------------
(* Two challenges of one peer, which may be at its rate with a request     *)
(* that was answered; with two peers (MCPairingOrder.cfg) the table can be *)
(* full of the requests of others.                                         *)
EXTENDS Pairing, TLC

Symmetry == Permutations(Peers)

(* Nothing is over its time yet.                                           *)
EarlySpec == Init /\ [][Next /\ old' = old]_vars
=============================================================================
