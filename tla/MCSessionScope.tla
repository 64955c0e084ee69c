--------------------------- MODULE MCSessionScope ---------------------------
(* Three panes, so that an update can be stale in two ways; two threads    *)
(* that move a terminal with terminal.move, and tab.move beside them.      *)
EXTENDS SessionScope
=============================================================================
