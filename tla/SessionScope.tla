---------------------------- MODULE SessionScope ----------------------------
(***************************************************************************)
(* A client attached to one surface subscribes to the events of that       *)
(* surface and of the pane, screen and workspace it is in.  This module    *)
(* follows that scope (SurfaceSessionScope of event_bus.rs) against the    *)
(* place of the surface in the tree (State of mux.rs): a terminal that     *)
(* tab.move and terminal.move move, or a browser target that is being      *)
(* adopted while tab.move moves it, and either of them taken along when    *)
(* pane.swap or layout.apply arranges the panes anew, of which the         *)
(* subscription of the surface hears nothing.                              *)
(*                                                                         *)
(* A member of Panes stands for a whole path, the pane with its screen and *)
(* its workspace: a pane that goes to another screen is another member.    *)
(* Moves within a pane change no path, and closing a surface on request    *)
(* changes no scope; both are left out.                                    *)
(***************************************************************************)
EXTENDS Naturals

CONSTANTS
  Panes,
  NoPane,
  Movers,    \* threads that serve terminal.move
  MaxMoves   \* bound: moves between panes

ASSUME ScopeAssumption == NoPane \notin Panes /\ MaxMoves \in Nat

VARIABLES
  content,  \* "terminal" or "browser"
  adoption, \* "none", "attached", "stored", "announced" or "undone"
  delta,    \* the pane in the TabAdded of the adoption
  place,    \* the pane of the surface
  mover,    \* per thread: where its move stands
  scope,    \* the scope of the subscriber, once it has subscribed
  told,     \* the client has a tree-changed to handle
  seen,     \* the place in the client's copy of the tree
  untold,   \* ghost: a move nobody told the client of, and none since
  moves

adopting == <<content, adoption, delta>>
client == <<scope, told, seen, untold>>
scopeVars ==
  <<content, adoption, delta, place, mover, scope, told, seen, untold, moves>>

Adoptions == {"none", "attached", "stored", "announced", "undone"}
Steps == [at : {"idle", "committed", "read"}, path : Panes \cup {NoPane}]
Idle == [at |-> "idle", path |-> NoPane]

(* A terminal is in the tree and announced; a browser target is to come.   *)
TerminalInit ==
  content = "terminal" /\ adoption = "announced" /\ place \in Panes
BrowserInit ==
  content = "browser" /\ adoption = "none" /\ place = NoPane
ClientInit ==
  /\ delta = NoPane
  /\ mover = [t \in Movers |-> Idle]
  /\ scope = NoPane /\ told = FALSE /\ seen = NoPane /\ untold = FALSE
  /\ moves = 0

Subscribed == scope # NoPane
InTree == place # NoPane

\* Mutant: the scope follows, and the client is not told.
RescopeUntold(pane) ==
  /\ scope' = IF Subscribed THEN pane ELSE scope
  /\ UNCHANGED <<told, seen, untold>>
(* The subscription of the surface takes the path, and its mailbox one     *)
(* event that the server sends on as tree-changed.                         *)
Rescope(pane) ==
  /\ IF Subscribed THEN scope' = pane /\ told' = TRUE /\ untold' = FALSE
     ELSE UNCHANGED <<scope, told, untold>>
  /\ UNCHANGED seen

(* adopt_browser_target: the surface enters the tree under the state lock, *)
(* which also builds the delta to emit; the tab is stored next, or else    *)
(* taken out of the tree again; only then is the delta emitted.            *)
AdoptAttach(pane) ==
  /\ adoption = "none"
  /\ adoption' = "attached" /\ delta' = pane /\ place' = pane
  /\ UNCHANGED <<content, mover, client, moves>>

AdoptStore ==
  /\ adoption = "attached"
  /\ adoption' = "stored"
  /\ UNCHANGED <<content, delta, place, mover, client, moves>>

AdoptUndo ==
  /\ adoption = "attached"
  /\ adoption' = "undone" /\ delta' = NoPane /\ place' = NoPane
  /\ told' = (told \/ Subscribed)
  /\ untold' = (untold /\ ~Subscribed)
  /\ UNCHANGED <<content, mover, scope, seen, moves>>

AdoptAnnounce ==
  /\ adoption = "stored"
  /\ adoption' = "announced" /\ delta' = NoPane
  /\ Rescope(delta)
  /\ UNCHANGED <<content, place, mover, moves>>

(* subscribe_surface_session reads the path and joins under the state      *)
(* lock; the client has no tree yet, and asks for one.                     *)
Subscribe ==
  /\ InTree /\ ~Subscribed
  /\ scope' = place /\ told' = TRUE /\ untold' = FALSE
  /\ UNCHANGED <<adopting, place, mover, seen, moves>>

(* A move needs a stored tab.                                              *)
Movable(pane) ==
  /\ InTree /\ adoption \in {"stored", "announced"}
  /\ pane # place /\ moves < MaxMoves

(* tab.move: move_tab_in_state updates the scope under the state lock.     *)
TabMove(pane) ==
  /\ Movable(pane)
  /\ moves' = moves + 1
  /\ place' = pane
  /\ Rescope(pane)
  /\ UNCHANGED <<adopting, mover>>

(* pane.swap with a pane of another screen takes the pane there with all   *)
(* its tabs, its undo brings it back, and layout.apply lays the tabs of a  *)
(* screen into other panes of it.  They emit TreeChanged and               *)
(* LayoutChanged, which the subscription of a surface does not accept, and *)
(* do not update its path: the client hears of it only if it has a         *)
(* tree-changed to handle anyway.                                          *)
Rearrange(pane) ==
  /\ InTree /\ pane # place /\ moves < MaxMoves
  /\ moves' = moves + 1
  /\ place' = pane
  /\ untold' = (Subscribed /\ ~told)
  /\ UNCHANGED <<adopting, mover, scope, told, seen>>

(* terminal.move commits, then reads the path under the state lock again,  *)
(* then updates the scope with what it read.                               *)
MoveCommit(t, pane) ==
  /\ content = "terminal" /\ Movable(pane) /\ mover[t].at = "idle"
  /\ moves' = moves + 1
  /\ place' = pane
  /\ mover' = [mover EXCEPT ![t].at = "committed"]
  /\ UNCHANGED <<adopting, client>>

MoveRead(t) ==
  /\ mover[t].at = "committed"
  /\ mover' = [mover EXCEPT ![t] = [at |-> "read", path |-> place]]
  /\ UNCHANGED <<adopting, place, client, moves>>

MoveUpdate(t) ==
  /\ mover[t].at = "read"
  /\ mover' = [mover EXCEPT ![t] = Idle]
  /\ Rescope(mover[t].path)
  /\ UNCHANGED <<adopting, place, moves>>

\* Mutant: the mark is cleared by the answer, not before the request.
RefreshLosing ==
  /\ told
  /\ told' = FALSE /\ seen' \in {seen, place}
  /\ UNCHANGED <<adopting, place, mover, scope, untold, moves>>
(* The client clears the mark of its stale copy and asks for the tree.     *)
Refresh ==
  /\ told
  /\ told' = FALSE /\ seen' = place
  /\ UNCHANGED <<adopting, place, mover, scope, untold, moves>>

Adopt ==
  \/ \E pane \in Panes : AdoptAttach(pane)
  \/ AdoptStore \/ AdoptUndo \/ AdoptAnnounce
TerminalMove(t) ==
  (\E pane \in Panes : MoveCommit(t, pane)) \/ MoveRead(t) \/ MoveUpdate(t)

ScopeNext ==
  \/ Adopt \/ Subscribe \/ Refresh
  \/ \E pane \in Panes : TabMove(pane) \/ Rearrange(pane)
  \/ \E t \in Movers : TerminalMove(t)

ScopeInit == (TerminalInit \/ BrowserInit) /\ ClientInit

(* A thread that serves a move or an adoption finishes it, and the client  *)
(* handles what it is told; no move is ever owed.                          *)
Fairness ==
  /\ WF_scopeVars(AdoptStore \/ AdoptUndo) /\ WF_scopeVars(AdoptAnnounce)
  /\ WF_scopeVars(Refresh)
  /\ \A t \in Movers : WF_scopeVars(MoveRead(t)) /\ WF_scopeVars(MoveUpdate(t))

ScopeSpec == ScopeInit /\ [][ScopeNext]_scopeVars /\ Fairness
TerminalSpec == TerminalInit /\ ClientInit /\ [][ScopeNext]_scopeVars

-----------------------------------------------------------------------------
(* Every variable has its type.                                            *)
ScopeTypeOK ==
  /\ content \in {"terminal", "browser"} /\ adoption \in Adoptions
  /\ delta \in Panes \cup {NoPane} /\ place \in Panes \cup {NoPane}
  /\ mover \in [Movers -> Steps]
  /\ scope \in Panes \cup {NoPane}
  /\ told \in BOOLEAN
  /\ seen \in Panes \cup {NoPane}
  /\ untold \in BOOLEAN
  /\ moves \in 0..MaxMoves

(* A subscribed client whose copy shows the surface in another pane, or in *)
(* none, has a tree-changed to handle, or a thread is about to send it     *)
(* one, or panes were arranged anew and nothing has been told since: every *)
(* path that moves the surface itself (move_tab_in_state,                  *)
(* resource_move_terminal_selected, adopt_browser_target) tells the client *)
(* after the move, never before.                                           *)
MovesAreTold ==
  Subscribed /\ seen # place =>
    told \/ untold \/ \E t \in Movers : mover[t].at # "idle"

(* The client's copy of the tree (refresh_tree_inner) is right in the end, *)
(* whatever becomes of its scope, unless panes were arranged anew after    *)
(* the last thing it was told.                                             *)
CopyConverges ==
  \A pane \in Panes \cup {NoPane} :
    (Subscribed /\ place = pane /\ ~untold)
      ~> (seen = pane \/ place # pane \/ untold)

(* The stricter reading, that a subscription to a surface brings its       *)
(* client every move of it, fails with pane.swap (MCSessionScopeSwaps.cfg).*)
EveryMoveIsTold ==
  Subscribed /\ seen # place =>
    told \/ \E t \in Movers : mover[t].at # "idle"

(* With no update under way, the scope is the place of the surface: the    *)
(* subscription tracks the surface after every move, as the tests of       *)
(* event_bus.rs and mux.rs have it for moves one after the other.          *)
ScopeFollowsSurface ==
  Subscribed /\ adoption = "announced" /\ (\A t \in Movers : mover[t].at = "idle")
    => scope = place
=============================================================================
