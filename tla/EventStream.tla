---------------------------- MODULE EventStream ----------------------------
(***************************************************************************)
(* What one subscriber of the mux is promised, whatever queues carry it:   *)
(* events arrive in the order they were emitted; a newer title or output   *)
(* state of a surface takes the place of the older one, the exit of a      *)
(* surface the place of its state, and Empty the place of everything but   *)
(* exits and closed workspaces.  When there is no room the stream closes,  *)
(* and what was accepted before is still delivered.                        *)
(***************************************************************************)
EXTENDS Integers, FiniteSets

CONSTANTS Events, Capacity

VARIABLES
  pending,  \* accepted, not delivered: [seq, event]
  next,     \* sequence number of the next event
  open      \* the stream takes events

vars == <<pending, next, open>>

StateKinds == {"Title", "Output"}
FinalKinds == {"Exited", "WorkspaceClosed"}

(* The n newest entries of a set.                                          *)
Newest(entries, n) ==
  {x \in entries : Cardinality({y \in entries : y.seq > x.seq}) < n}

(* What is left of the entries when event arrives.                         *)
Remaining(entries, event) ==
  IF event.kind \in StateKinds
  THEN {x \in entries : x.event # event}
  ELSE IF event.kind = "Exited"
  THEN {x \in entries : ~ /\ x.event.kind \in StateKinds
                          /\ x.event.surface = event.surface}
  ELSE IF event.kind = "Empty"
  THEN Newest({x \in entries : x.event.kind \in FinalKinds}, Capacity - 1)
  ELSE entries

Init == pending = {} /\ next = 0 /\ open = TRUE

Post(event) ==
  LET left == Remaining(pending, event) IN
  /\ open = TRUE
  /\ next' = next + 1
  /\ \/ /\ Cardinality(left) < Capacity
        /\ pending' = left \cup {[seq |-> next, event |-> event]}
        /\ open' = TRUE
     \/ /\ Cardinality(left) >= Capacity
        /\ pending' = pending /\ open' = FALSE

Take ==
  \E x \in pending :
    /\ \A y \in pending : x.seq <= y.seq
    /\ pending' = pending \ {x}
    /\ UNCHANGED <<next, open>>

Close == open' = FALSE /\ UNCHANGED <<pending, next>>

Next == (\E event \in Events : Post(event)) \/ Take \/ Close

Spec == Init /\ [][Next]_vars
=============================================================================
