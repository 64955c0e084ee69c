------------------------- MODULE TerminalLifecycle -------------------------
(***************************************************************************)
(* What the terminal registry lets happen to a terminal's row, whoever     *)
(* asks: validate_terminal_transition of workspace_registry.rs and the     *)
(* exit latch of terminal_exit_store.rs.  A terminal id is reserved once,  *)
(* moves freely while it is live, exits once with one outcome, and is      *)
(* closed for ever.                                                        *)
(***************************************************************************)
CONSTANTS Terminals, Outcomes, NoOutcome

VARIABLES row, outcome

Live == {"Launching", "Adopting", "Running"}
Rows == Live \cup {"Absent", "Exited", "Tombstoned"}

Allowed ==
  {<<"Absent", "Launching">>, <<"Exited", "Tombstoned">>}
    \cup (Live \X {"Adopting", "Running", "Exited", "Tombstoned"})

Init ==
  /\ row = [t \in Terminals |-> "Absent"]
  /\ outcome = [t \in Terminals |-> NoOutcome]

Move(t) ==
  /\ <<row[t], row'[t]>> \in Allowed
  /\ IF row'[t] = "Exited"
     THEN outcome'[t] \in Outcomes
     ELSE outcome'[t] = outcome[t]
Keep(t) == row'[t] = row[t] /\ outcome'[t] = outcome[t]

(* Commits are serialised, but one startup step may concern every row.     *)
Next == \A t \in Terminals : Move(t) \/ Keep(t)

Spec == Init /\ [][Next]_<<row, outcome>>
=============================================================================
