-------------------------- MODULE AtMostOnceEffect --------------------------
(***************************************************************************)
(* What the effect receipts promise, key by key and without threads,       *)
(* tables or pruning: an effect is claimed, runs at most once under that   *)
(* claim, and the claim ends in an outcome that says whether it ran or in  *)
(* the honest "unknown".  An unknown outcome is for ever; a known one may  *)
(* be forgotten, which frees the key.                                      *)
(***************************************************************************)
EXTENDS Naturals

CONSTANT Keys

VARIABLES status, runs

Statuses == {"free", "claimed", "done", "refused", "unknown"}

Init ==
  /\ status = [k \in Keys |-> "free"]
  /\ runs = [k \in Keys |-> 0]

Becomes(k, s, n) == status'[k] = s /\ runs'[k] = n

Claim(k)  == status[k] = "free" /\ Becomes(k, "claimed", 0)
Run(k)    == status[k] = "claimed" /\ runs[k] = 0 /\ Becomes(k, "claimed", 1)
Succeed(k) == status[k] = "claimed" /\ runs[k] = 1 /\ Becomes(k, "done", 1)
Refuse(k) == status[k] = "claimed" /\ runs[k] = 0 /\ Becomes(k, "refused", 0)
GiveUp(k) == status[k] = "claimed" /\ Becomes(k, "unknown", runs[k])
Forget(k) == status[k] \in {"done", "refused"} /\ Becomes(k, "free", 0)
Keep(k)   == Becomes(k, status[k], runs[k])

(* A step may concern several keys, as pruning and recovery do.            *)
Next ==
  \A k \in Keys : \/ Claim(k) \/ Run(k) \/ Succeed(k) \/ Refuse(k)
                  \/ GiveUp(k) \/ Forget(k) \/ Keep(k)

Spec == Init /\ [][Next]_<<status, runs>>
=============================================================================
