---------------------------- MODULE MCLayoutUndo ----------------------------
(* Three panes and three tabs: a pane can be created, filled by a move,    *)
(* and closed while a client looks at the preview of its undo.  Five       *)
(* revisions let a history of two trim what a swap across screens, a new   *)
(* pane and a closed one have made of it.                                  *)
EXTENDS LayoutUndo
CONSTANTS anna, bert, drag
OneScreen == {1}
TwoScreens == {1, 2}
=============================================================================
