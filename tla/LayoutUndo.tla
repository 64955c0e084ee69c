----------------------------- MODULE LayoutUndo -----------------------------
(***************************************************************************)
(* The layout of the screens, the history that undoes it, and the two ways *)
(* a client confirms an undo that closes panes (model.rs and mux.rs of     *)
(* cmux-tui-core, and the resource operations of resource_topology.rs and  *)
(* resource_content.rs).                                                   *)
(*                                                                         *)
(* A layout is the set of its panes and a shape: the tree of splits, their *)
(* sizes, the viewport columns and the zoomed pane, as far as properties   *)
(* tell them apart.  A pane holds the set of its tabs.                     *)
(* Panes and tabs are numbered by next_id and are never used again.        *)
(*                                                                         *)
(* A swap of panes of two screens is recorded on both, and its plain undo  *)
(* puts back one of them and compares no panes: after it one pane is on    *)
(* both screens and the other on none, and which screen an operation finds *)
(* for a pane is the first of an iteration.  The model follows a daemon to *)
(* that undo (torn) and ends there.                                        *)
(***************************************************************************)
EXTENDS Naturals, FiniteSets, Sequences, SequencesExt, TLC

CONSTANTS
  Screens,          \* 1..n, screen s starts with pane s and tab s
  Clients,          \* those that confirm an undo
  Keys,             \* LayoutMutationKey: the drags that are one change each
  UndoLimit,        \* LAYOUT_UNDO_LIMIT
  MaxPanes, MaxTabs, MaxRevision   \* bounds of this model

ASSUME LayoutAssumption ==
  /\ IsFiniteSet(Screens) /\ Screens = 1..Cardinality(Screens)
  /\ UndoLimit \in Nat \ {0}
  /\ {MaxPanes, MaxTabs, MaxRevision} \subseteq Nat
  /\ Cardinality(Screens) <= MaxPanes /\ Cardinality(Screens) <= MaxTabs

VARIABLES
  layout,     \* per screen: [panes, shape]; a screen without panes is gone
  revision,   \* per screen: layout_revision
  history,    \* per screen: layout_undo, the latest change last
  tabs,       \* per pane: the tabs in it
  nextPane, nextTab,
  client,     \* per client: where its confirmed undo stands
  torn        \* ghost: one half of a swap across screens has been undone

screenVars == <<layout, revision, history>>
vars == <<layout, revision, history, tabs, nextPane, nextTab, client, torn>>

Panes == 1..MaxPanes
Tabs == 1..MaxTabs
NoKey == "none"
Live == UNION {layout[s].panes : s \in Screens}
PaneOf(t) == CHOOSE p \in Panes : t \in tabs[p]
Shown == UNION {tabs[p] : p \in Live}
Room == \* of all screens together
  ~torn /\ FoldFunction(+, 0, revision) < MaxRevision
TabsIn(panes) == UNION {tabs[p] : p \in panes}

Idle == [step |-> "idle"]
Init ==
  /\ layout = [s \in Screens |-> [panes |-> {s}, shape |-> 0]]
  /\ revision = [s \in Screens |-> 0]
  /\ history = [s \in Screens |-> <<>>]
  /\ tabs = [p \in Panes |-> IF p \in Screens THEN {p} ELSE {}]
  /\ nextPane = Cardinality(Screens) + 1 /\ nextTab = Cardinality(Screens) + 1
  /\ client = [c \in Clients |-> Idle]
  /\ torn = FALSE

(***************************************************************************)
(* The history.  Recording a change bumps the revision; a step of the drag *)
(* that is the latest change extends it instead of adding an entry.        *)
(***************************************************************************)
EntryForgetsPane(s, created, key, across) == \* the new pane is not noted
  [before |-> layout[s], after |-> revision[s] + 1,
   created |-> {}, coalesce |-> key, across |-> across]
Entry(s, created, key, across) == \* across is a ghost: a half of a swap
  [before |-> layout[s], after |-> revision[s] + 1,
   created |-> created, coalesce |-> key, across |-> across]

Coalesces(s, created, key) ==
  /\ created = {} /\ key # NoKey /\ history[s] # <<>>
  /\ LET top == Last(history[s])
     IN top.created = {} /\ top.coalesce = key /\ top.after = revision[s]

TrimmedNewest(h) == SubSeq(h, 1, IF Len(h) > UndoLimit THEN UndoLimit ELSE Len(h))
Trimmed(h) == IF Len(h) > UndoLimit THEN Tail(h) ELSE h
Refreshed(h, r) == \* the top entry, which a change that is not recorded moved
  IF h = <<>> THEN h
  ELSE [h EXCEPT ![Len(h)] = [@ EXCEPT !.after = r, !.coalesce = NoKey]]

Recorded(s, created, key, across) ==
  IF Coalesces(s, created, key)
  THEN [history[s] EXCEPT ![Len(history[s])].after = revision[s] + 1]
  ELSE Trimmed(Append(history[s], Entry(s, created, key, across)))

Record(changed, new, created, key, across) == \* of the screens that changed
  /\ layout' = [s \in Screens |-> IF s \in changed THEN new[s] ELSE layout[s]]
  /\ history' = [s \in Screens |-> IF s \in changed
                                   THEN Recorded(s, created, key, across)
                                   ELSE history[s]]
  /\ revision' = [s \in Screens |-> revision[s] + IF s \in changed THEN 1 ELSE 0]

\* The latest undo of s would close one of these panes.
Fenced(s, panes) ==
  /\ history[s] # <<>> /\ layout[s].panes \cap panes # {}
  /\ LET top == Last(history[s])
     IN top.after = revision[s] /\ top.created \cap panes # {}

Fence(panes) ==
  /\ revision' = [s \in Screens |-> revision[s] + IF Fenced(s, panes) THEN 1 ELSE 0]
  /\ history' = [s \in Screens |-> IF Fenced(s, panes)
                                   THEN Refreshed(history[s], revision[s] + 1)
                                   ELSE history[s]]
  /\ UNCHANGED layout

Without(l, p) == [l EXCEPT !.panes = @ \ {p}]
CollapsedHistoryKept(s) == \* a pane goes and the history stays
  Refreshed(history[s], revision[s] + 1)
CollapsedHistory(s) == <<>>
\* The last tab of p has left: the pane leaves its screen and the history goes.
Collapse(p, fenced) ==
  /\ layout' = [s \in Screens |-> Without(layout[s], p)]
  /\ revision' = [s \in Screens |->
       revision[s] + (IF p \in layout[s].panes THEN 1 ELSE 0)
                   + (IF Fenced(s, fenced) THEN 1 ELSE 0)]
  /\ history' = [s \in Screens |->
       IF p \in layout[s].panes THEN CollapsedHistory(s)
       ELSE IF Fenced(s, fenced) THEN Refreshed(history[s], revision[s] + 1)
       ELSE history[s]]

Surjective(f, S) == \A x \in S : \E y \in DOMAIN f : f[y] = x
(***************************************************************************)
(* The operations on panes, tabs and sizes.                                *)
(***************************************************************************)
AddPane(s) ==
  /\ Room
  /\ layout[s].panes # {}
  /\ nextPane \in Panes /\ nextTab \in Tabs
  /\ Record({s}, [layout EXCEPT ![s].panes = @ \cup {nextPane}],
            {nextPane}, NoKey, FALSE)
  /\ tabs' = [tabs EXCEPT ![nextPane] = {nextTab}]
  /\ nextPane' = nextPane + 1 /\ nextTab' = nextTab + 1
  /\ UNCHANGED <<client, torn>>

AddTab(p) ==
  /\ Room
  /\ p \in Live /\ nextTab \in Tabs
  /\ tabs' = [tabs EXCEPT ![p] = @ \cup {nextTab}]
  /\ Fence({p})
  /\ nextTab' = nextTab + 1
  /\ UNCHANGED <<nextPane, client, torn>>

CloseTab(t) ==
  /\ Room
  /\ t \in Shown
  /\ LET p == PaneOf(t)
     IN /\ tabs' = [tabs EXCEPT ![p] = @ \ {t}]
        /\ IF tabs[p] = {t} THEN Collapse(p, {}) ELSE Fence({p})
  /\ UNCHANGED <<nextPane, nextTab, client, torn>>

Moved(t, q) == [tabs EXCEPT ![PaneOf(t)] = @ \ {t}, ![q] = @ \cup {t}]
MoveTab(t, q) == \* tab.move, and terminal.move that empties its pane
  /\ Room
  /\ t \in Shown /\ q \in Live \ {PaneOf(t)}
  /\ tabs' = Moved(t, q)
  /\ LET p == PaneOf(t)
     IN IF tabs[p] = {t} THEN Collapse(p, {p, q}) ELSE Fence({p, q})
  /\ UNCHANGED <<nextPane, nextTab, client, torn>>

MoveTerminal(t, q) == \* terminal.move that leaves tabs behind
  /\ Room
  /\ t \in Shown /\ q \in Live \ {PaneOf(t)} /\ tabs[PaneOf(t)] # {t}
  /\ tabs' = Moved(t, q)
  /\ UNCHANGED <<screenVars, nextPane, nextTab, client, torn>>

Resize(s, key) ==
  /\ Room
  /\ layout[s].panes # {}
  /\ Record({s}, [layout EXCEPT ![s].shape = 1 - @], {}, key, FALSE)
  /\ UNCHANGED <<tabs, nextPane, nextTab, client, torn>>

(* Two panes of one screen or of two: each layout gets the other one, and  *)
(* a screen that changed an entry.                                         *)
Exchanged(l, p, q) ==
  IF {p, q} \subseteq l.panes THEN [l EXCEPT !.shape = 1 - @]
  ELSE [l EXCEPT !.panes = (@ \ {p, q}) \cup ({p, q} \ @)]
Swap(p, q) ==
  /\ Room
  /\ p \in Live /\ q \in Live /\ p < q
  /\ LET both == {s \in Screens : layout[s].panes \cap {p, q} # {}}
     IN Record(both, [s \in Screens |-> Exchanged(layout[s], p, q)], {}, NoKey,
               Cardinality(both) > 1)
  /\ UNCHANGED <<tabs, nextPane, nextTab, client, torn>>

\* layout.apply: the same panes and the same tabs, arranged anew.
ApplyLayout(s, home) ==
  /\ Room
  /\ layout[s].panes # {} /\ Surjective(home, layout[s].panes)
  /\ Record({s}, [layout EXCEPT ![s].shape = 1 - @], {}, NoKey, FALSE)
  /\ tabs' = [p \in Panes |-> IF p \in layout[s].panes
                              THEN {t \in DOMAIN home : home[t] = p} ELSE tabs[p]]
  /\ UNCHANGED <<nextPane, nextTab, client, torn>>

(***************************************************************************)
(* Undo.  A change that created no pane is undone at once.  One that did   *)
(* is previewed, and the client comes back: with the layout revision it    *)
(* was shown (undo_layout, which looks three times before it acts, each    *)
(* under its own lock) or with the token of a resource answer, which also  *)
(* hashes the tabs of the panes to be closed.                              *)
(***************************************************************************)
Undoable(s) == history[s] # <<>> /\ Last(history[s]).after = revision[s]
Confirmable(s) ==
  /\ Undoable(s) /\ Last(history[s]).created # {}
  /\ \A p \in Last(history[s]).created : tabs[p] # {}
TokenBare(s) == \* the token does not hash the tabs
  [revision |-> revision[s], closes |-> [p \in Last(history[s]).created |-> {}]]
Token(s) ==
  [revision |-> revision[s],
   closes |-> [p \in Last(history[s]).created |-> tabs[p]]]

Undone(s, bumps) == \* the entry is popped, the one below becomes the latest
  LET r == revision[s] + bumps + 1
  IN /\ layout' = [layout EXCEPT ![s] = Last(history[s]).before]
     /\ revision' = [revision EXCEPT ![s] = r]
     /\ history' = [history EXCEPT ![s] = Refreshed(Front(@), r)]

Undo(s) ==
  /\ ~torn
  /\ Undoable(s) /\ Last(history[s]).created = {}
  /\ Undone(s, 0)
  /\ torn' = Last(history[s]).across
  /\ UNCHANGED <<tabs, nextPane, nextTab, client>>

Preview(c, s, by) ==
  /\ ~torn /\ client[c].step = "idle"
  /\ Confirmable(s)
  /\ client' = [client EXCEPT ![c] =
       [step |-> "previewed", by |-> by, screen |-> s, revision |-> revision[s],
        shown |-> [p \in Last(history[s]).created |-> tabs[p]], token |-> Token(s)]]
  /\ UNCHANGED <<screenVars, tabs, nextPane, nextTab, torn>>

Turn(c, holds, next) == client' = [client EXCEPT ![c] = IF holds THEN next ELSE Idle]

Retry(c) ==
  /\ ~torn /\ client[c].step = "previewed" /\ client[c].by = "revision"
  /\ LET s == client[c].screen
     IN Turn(c, Confirmable(s) /\ revision[s] = client[c].revision,
             [client[c] EXCEPT !.step = "checked"])
  /\ UNCHANGED <<screenVars, tabs, nextPane, nextTab, torn>>

TakeToken(c) ==
  /\ ~torn /\ client[c].step = "checked"
  /\ LET s == client[c].screen
     IN Turn(c, Confirmable(s),
             [client[c] EXCEPT !.step = "tokened",
                               !.token = IF Confirmable(s) THEN Token(s) ELSE @])
  /\ UNCHANGED <<screenVars, tabs, nextPane, nextTab, torn>>

Reserve(c) == \* resource_topology_effect_intent
  /\ ~torn
  /\ \/ client[c].step = "tokened"
     \/ client[c].step = "previewed" /\ client[c].by = "token"
  /\ LET s == client[c].screen
     IN Turn(c, /\ Confirmable(s)
                /\ client[c].by = "revision" => revision[s] = client[c].revision
                /\ client[c].token = Token(s),
             [client[c] EXCEPT !.step = "reserved", !.revision = revision[s]])
  /\ UNCHANGED <<screenVars, tabs, nextPane, nextTab, torn>>

MayClose(c, s) ==
  /\ Confirmable(s) /\ revision[s] = client[c].revision
  /\ layout[s].panes
       = Last(history[s]).before.panes \cup Last(history[s]).created
  /\ client[c].token = Token(s)

Execute(c) ==
  /\ ~torn /\ client[c].step = "reserved"
  /\ LET s == client[c].screen
         created == Last(history[s]).created
         closed == TabsIn(created)
     IN IF MayClose(c, s)
        THEN /\ Undone(s, Cardinality(closed))
             /\ tabs' = [p \in Panes |-> IF p \in created THEN {} ELSE tabs[p]]
             /\ client' = [client EXCEPT ![c] =
                  [step |-> "done", by |-> @.by, shown |-> @.shown, closed |-> closed]]
        ELSE /\ client' = [client EXCEPT ![c] = Idle]
             /\ UNCHANGED <<screenVars, tabs>>
  /\ UNCHANGED <<nextPane, nextTab, torn>>

Next ==
  \/ \E s \in Screens : AddPane(s)
  \/ \E p \in Panes : AddTab(p)
  \/ \E t \in Tabs : CloseTab(t)
  \/ \E t \in Tabs, q \in Panes : MoveTab(t, q)
  \/ \E t \in Tabs, q \in Panes : MoveTerminal(t, q)
  \/ \E s \in Screens, key \in Keys \cup {NoKey} : Resize(s, key)
  \/ \E p, q \in Panes : Swap(p, q)
  \/ \E s \in Screens : \E home \in [TabsIn(layout[s].panes) -> layout[s].panes] :
       ApplyLayout(s, home)
  \/ \E s \in Screens : Undo(s)
  \/ \E c \in Clients, s \in Screens, by \in {"revision", "token"} : Preview(c, s, by)
  \/ \E c \in Clients : Retry(c)
  \/ \E c \in Clients : TakeToken(c)
  \/ \E c \in Clients : Reserve(c)
  \/ \E c \in Clients : Execute(c)

Spec == Init /\ [][Next]_vars

-----------------------------------------------------------------------------
Layout == [panes : SUBSET Panes, shape : {0, 1}]
Entries == [before : Layout, after : Nat, created : SUBSET Panes,
            coalesce : Keys \cup {NoKey}, across : BOOLEAN]
Steps == {"idle", "previewed", "checked", "tokened", "reserved", "done"}

\* Every variable has its type, and the history never exceeds its limit.
TypeOK ==
  /\ layout \in [Screens -> Layout]
  /\ revision \in [Screens -> Nat]
  /\ history \in [Screens -> Seq(Entries)]
  /\ \A s \in Screens : Len(history[s]) <= UndoLimit
  /\ tabs \in [Panes -> SUBSET Tabs]
  /\ \A c \in Clients : client[c].step \in Steps
  /\ torn \in BOOLEAN

\* The panes a layout and the changes after it name.
CreatedFrom(h, i) == UNION {h[j].created : j \in i..Len(h)}

\* No half of a swap across screens is undone on the way back to entry i.
Whole(h, i) == \A j \in i..Len(h) : ~h[j].across

\* However deep a screen is undone, what comes back are its panes of now
\* without those created since: no undo brings back a pane that was closed,
\* and none drops a pane that lives, as long as no half of a swap with another
\* screen is undone on the way.  (Only the confirmed undo of mux.rs compares
\* the sets before it acts; the plain one relies on this.)
UndoKeepsPanes ==
  \A s \in Screens : \A i \in DOMAIN history[s] : ~torn /\ Whole(history[s], i) =>
    /\ history[s][i].before.panes \cap CreatedFrom(history[s], i) = {}
    /\ history[s][i].before.panes \cup CreatedFrom(history[s], i)
         = layout[s].panes

\* The latest entry is never stale: whatever moves the revision of a screen
\* without recording a change carries the entry along or forgets the history,
\* so that "layout changed since the last undoable action" is never the answer
\* to a client who did nothing wrong.
LatestIsUndoable ==
  \A s \in Screens : history[s] = <<>> \/ Last(history[s]).after = revision[s]

\* A pane that lives is in one place of one screen, and every pane of a
\* layout lives: layouts, histories and tabs tell the same story, through
\* swaps across screens too, and until one half of such a swap is undone.
EveryPaneHasItsPlace ==
  ~torn =>
    /\ \A s, r \in Screens : s # r => layout[s].panes \cap layout[r].panes = {}
    /\ \A p \in Panes : p \in Live <=> tabs[p] # {}

\* The stricter reading, that no undo puts a pane on two screens, which fails
\* (MCLayoutUndoSwaps.cfg).
PanesAreOnOneScreen ==
  \A s, r \in Screens : s # r => layout[s].panes \cap layout[r].panes = {}

\* An undo confirmed with the token of a resource answer closes exactly the
\* tabs its client was shown, whatever happened in between.
TokenClosesWhatItShowed ==
  \A c \in Clients : client[c].step = "done" /\ client[c].by = "token" =>
    client[c].closed = UNION {client[c].shown[p] : p \in DOMAIN client[c].shown}

\* The same of an undo confirmed with the layout revision of its preview
\* (mux.rs, undo_layout: "structural or created-pane tab membership changes
\* advance that revision before the retry can commit").
RevisionClosesWhatItShowed ==
  \A c \in Clients : client[c].step = "done" /\ client[c].by = "revision" =>
    client[c].closed = UNION {client[c].shown[p] : p \in DOMAIN client[c].shown}
=============================================================================
