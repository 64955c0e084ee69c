# Verification of the cmux session core

cmux for Windows is a terminal multiplexer. A Rust daemon (`cmux-tui-core`)
owns workspaces, screens, panes and tabs; a TUI, a WinUI front end over a C
ABI, browsers over a websocket and command line clients all talk to it. Every
terminal runs in a host process of its own, so that shells outlive the daemon.
The parts that are hard to get right are the ones where these parties disagree
for a while: a daemon that dies between a shell's exit and its record, two
retries of one keystroke, an event that overtakes another one.

This directory holds TLA+ models of such parts, the TLC configurations that
check them, and TLAPS proofs. Paths below are relative to
`src/cmux-tui/crates/`; `core` stands for `cmux-tui-core/src`.

To check a module or a proof, in this directory:

    tlc -config MCEventMailbox.cfg MCEventMailbox.tla
    tlapm SubscriptionProofs.tla

## 1. The system

### Components

| component | state it keeps | operations |
|---|---|---|
| effect receipts: `core/workspace_registry/effect_store.rs`, `core/resource_router/effects.rs` | SQLite tables of receipts, completions of transient input, resource events, the resource revision | lookup, prepare, mark executing, commit, mark indeterminate, recovery at start, pruning |
| correlated creations: the same store, `core/mux/resource_topology.rs` | receipts that reserve public ids and a placement before a terminal is spawned | prepare, resume, supersede, resolve, commit |
| workspace registry: `core/workspace_registry.rs`, `workspace_registry/resource_store.rs` | SQLite: workspaces, terminals, tabs, mutation receipts, events, generation and revision | compare-and-set commits, terminal transitions, relaunch, close, replay, event retention |
| hosted terminals: `core/terminal_host_runtime.rs`, `terminal_host.rs`, `workspace_registry/terminal_exit_store.rs`, `surface.rs`, `mux.rs` | the row, the host process, its discovery record, its exit sidecar, the surface with its reader | spawn, launch, adopt, reconnect, exit, close, reap |
| node tree and layout undo: `core/model.rs`, `layout.rs`, `mux.rs` | the tree of splits of each screen, the undo stacks | split, remove, move, swap, resize, undo |
| topology commits: `core/mux/resource_topology.rs` | none of its own | durable commit, then the tree, then events |
| event bus: `core/event_bus.rs` | one bounded mailbox per subscriber, the filter of a surface session | emit, coalesce, overflow, receive, drop |
| session scope: `core/event_bus.rs`, `mux/resource_content.rs`, `cmux-tui/src/session/remote.rs` | the path of the surface a subscription is about; the client's copy of the tree | subscribe, move, adopt, refresh |
| pairing: `core/pairing.rs`, `server.rs`, `mux.rs`, `cmux-tui/src/app.rs` | pending requests, the rate window, credentials; the dialogs of the TUI | begin, respond, cancel, authenticate, list, expire |
| control server: `core/server.rs` | clients, writers, streams with byte bounds | commands, subscriptions, attach, detach, sizing |
| surfaces: `core/surface.rs` | terminal grid, replay, attached streams, sizes | attach, resize, input, exit |
| browser surfaces: `core/browser.rs`; CDP: `cmux-tui-cdp/src` | workers, targets, pending calls | navigate, call, event, close |
| remote session: `cmux-tui/src/session` | tree cache, stale mark, title generations, attached surfaces | refresh, reconnect, attach |
| TUI: `cmux-tui/src/app.rs`, `pty_input.rs`, `browser_input.rs`, `ui/graphics_writer.rs` | focus, dialogs, input queues, image queue | handle events and keys |
| machine provider: `cmux-tui/src/machine*.rs`, `cmux-tui-machine-protocol` | list of machines, request ids, generations | request, snapshot, restart |
| resource API: `core/resource*.rs`, `resource_router/`, `short_id.rs` | none | decode, validate, dispatch |
| platform: `core/platform.rs`, `cmux-pty` | sockets, pipes, `writer.lock` | connect, lock |
| Windows: `src/windows`, `cmux-ffi` | views of the core's state | polling, rendering |

The core alone decides about the topology (`src/docs/ARCHITECTURE.md`). It has
one state lock and one registry lock; request threads of the control server,
reader threads of surfaces, background adoptions and the websocket threads take
them for a step at a time. What leaves a lock is an event on the bus, a frame
to a host, or a SQLite commit.

### How the components meet

- A request thread takes the registry lock several times for one request:
  between two of them anything can happen (*effect receipts*, *creations*).
- The registry row of a terminal, the two files of its host and the surface in
  memory say the same thing in four places; the host writes two of them, the
  daemon the other two, and each may die alone (*hosted terminals*).
- State changes are told on the event bus; most emissions come after the lock
  that made the change is free, so two events can swap (*pairing*, *session
  scope*). A slow subscriber sees coalesced events or the end of its stream
  (*event bus*).
- A client keeps a copy of the tree and asks for it again when told (*session
  scope*, *remote session*).
- Another process can answer what a dialog asks (*pairing*).
- A layout change is durable before it is in the tree; a client that confirms
  an undo names what it saw, and the tree has changed since (*layout undo*).
- Chrome is a process of its own behind one socket. One reader thread writes to
  it and reads from it; its answers go to the threads that wait, its events
  through two queues and a route to the thread of a surface, and both ends may
  close first (*CDP*, *browser surfaces*).
- A browser surface paints what Chrome showed a moment ago; a click on those
  pixels must not land on the page that has replaced it (*browser surfaces*).

### What is hard to test

Crashes between two writes; a retry that races with the request it retries; a
restart while a host is starting; an exit that arrives while the surface is
being bound; a queue at its bound; a wake-up lost between a check and a wait;
a path read under a lock and used outside it; a challenge that expires while
its answer is on the way; a connection that closes between the registration
of a call and its sending; a navigation that commits while a screenshot is on
its way; a creation that failed after its command ran; an undo entry that
outlives the panes it names. `PROJECT.json` lists each one at its line, with the
properties that would catch it or the module that will.

### What makes each component correct

- Effects: at most one run per retained receipt, answers that are true and
  never change, no lost record of a run, a replay window of known size.
- Hosted terminals: an exact exit status survives whatever happens before it is
  latched, a row changes only along its life cycle, a living host can be found,
  a live row is looked after, a close ends the shell.
- Event bus: order, bounded memory, no lost wake-up, and coalescing that loses
  nothing a drained subscriber would know.
- Session scope: the scope is the place of the surface, and a copy that is
  wrong has been told so.
- Pairing: one resolution per request, a credential exactly for the approved,
  limits per peer, no request and no thread that lasts for ever, no dialog
  about nothing.
- Creations: a command runs at most once per correlation key, what is reported
  as not applied left nothing, a living shell has a place, every execution is
  settled.
- Layout undo: an undo takes no pane that was not made by what it undoes, no
  pane is on two screens or on none, a confirmed undo closes what was shown.
- CDP: one true result per call, no entry left behind, every wait ends with the
  connection. Routes: an open route belongs to a living surface, events arrive
  in order, the end arrives. Page authority: a press acts on the document whose
  pixels were shown, and a page that stays is clickable in the end.
- Remote tree: what the screen shows when nothing is under way is what the
  daemon has, or is known not to be; no answer undoes a newer title or a newer
  tree; input is not held back for ever.
- Still to model: registry (conflicts change nothing, receipts replay), writer
  streams (bounded, ordered, a terminal message last), attach streams (replay
  and live output join without a gap), ownership (one daemon at a time).

## 2. Modules

| module | what it is |
|---|---|
| `AtMostOnceEffect` | what the receipts promise, key by key |
| `EffectReceipts` | the receipts and the threads that use them |
| `EffectReceiptsProofs` | proofs about it |
| `TerminalLifecycle` | the life cycle of a terminal's row |
| `HostedTerminals` | row, host, files, surface and threads of a terminal |
| `HostedTerminalsProofs` | proofs about it |
| `EventStream` | what one subscriber is promised |
| `EventMailbox` | the two queues and the index of a mailbox, and its receiver |
| `SessionScope` | the scope of a surface session and the client's copy |
| `SubscriptionProofs` | proofs about the mailbox and the scope |
| `Pairing` | broker, requesters, answers, dialogs |
| `CdpConnection` | calls, casts and flushes over one connection to Chrome |
| `BrowserRoutes` | the way of events from the socket to the thread of a surface |
| `BrowserRoutesProofs` | proofs about it |
| `PageAuthority` | which pixels are shown and when a pointer may act on them |
| `ChromeProofs` | proofs about `CdpConnection` and `PageAuthority` |
| `CreationReceipts` | creation of terminals under correlation keys |
| `CreationReceiptsProofs` | proofs about it |
| `LayoutUndo` | panes, tabs, the undo history and its confirmations |
| `LayoutUndoProofs` | proofs about it |
| `RemoteTree` | the copy of the tree that a remote TUI shows |
| `RemoteProofs` | proofs about it and about the broker of `Pairing` |
| `MC*` | instances for TLC |

### EffectReceipts

State. `receipt`, `completion`, `sequence`, `revision` and `events` are the
SQLite tables `resource_effect_receipts`, `resource_input_receipt_completions`
with its autoincrement, `meta.resource_revision` and `resource_events`. `pc`
and `job` say where the thread of a request stands between two acquisitions of
the registry lock. `applied` and `answers` are history.

Actions. One per lock acquisition of `effects.rs`: lookup, prepare, mark
executing, then the effect itself (`RunEffect`: it runs, is refused, or ends
in an error that leaves it open), then commit or the fallback to indeterminate; `Restart` kills all
threads and runs the recovery of `effect_store.rs`. Pruning of completions and
events is part of the commit, as in the code. `CursorGap` and `EventsAfter` are
what a client that reads the events from a cursor is answered.

A request is a fingerprint. `Inputs` are the operations on transient input
whose receipts are pruned; `Changes` those that publish deltas. Correlated
creations have receipts of another kind, and a module of their own.

### HostedTerminals

State. One record per terminal. `row` and `outcome` are the registry's;
`record` and `sidecar` are the two files of the host; `host`, `owner` and
`told` the host process; `spawn`, `adopt`, `close` and `link` the places of the
daemon's threads; `bound` and `seen` the surface; `sawExit` and `sawRecord`
what a starting daemon has listed. `Forgotten` is what a crash of the daemon
takes away.

Actions. `HostStep` (publish the record, wait for the owner, publish the exit,
release the lease, remove the record), `SpawnStep`, `ReaderStep`, `CloseStep`,
`AdoptStep`, `RestartStep`, and `FaultStep`, which injects the faults a
configuration allows and notes their kinds in the ghost `faults`.

`KillHost` leaves the sidecar unwritten: that is the case the guessed reasons
exist for. A failing SQLite or file write is retried by the code and is a later
step here. An id is launched at most once, so incarnations need no number, and
the branches for foreign incarnations, version 1 records and the one-release
import are left out.

### EventMailbox

`mailbox` is `MuxEventMailboxState`, with its deque and ordered map as sets of
numbered entries; `thread` is the receiver, awake or in the condition variable.
`truth` and `view` are ghosts: the state of the surfaces as emitted and as
delivered. `Emit` is a push with the coalescing rules of `push`, `Receive` a
pop or the beginning of a wait. Scroll positions, which coalesce as titles do,
and the session filter are left out.

### SessionScope

`place` is the pane of a surface in the tree (a pane fixes screen and
workspace), `scope` the path of the subscription, `told`, `seen` the client's
mark and copy. `TabMove` changes both under the state lock; `terminal.move` is
`MoveCommit`, `MoveRead`, `MoveUpdate`; the adoption of a browser target is
`AdoptAttach`, `AdoptStore` or `AdoptUndo`, `AdoptAnnounce`.

`Rearrange` is the move nobody is told of: `pane.swap` takes a pane with its
tabs to another screen, its undo brings it back, and `layout.apply` lays tabs
into other panes. They emit `TreeChanged` and `LayoutChanged`
(`resource_topology.rs:662`), which the scope of a surface does not accept
(`event_bus.rs:160`), and leave its path alone. The ghost `untold` says that
such a move is the last thing that happened to the copy; `MovesAreTold` and
`CopyConverges` except it, and `EveryMoveIsTold` does not.

### Pairing

`pending`, `peer`, `old` and `decision` are the broker: requests are numbered,
and the first `old` of them are past their time, which is both `CHALLENGE_TTL`
and `RATE_WINDOW`. `place` is the websocket thread of a request, `mail` the
events that have left the broker's lock and not been emitted, `news` and `tui`
the TUI with its subscription and dialogs. Each operation of the broker prunes
first, except `cancel`, as in the code.

Left out: the eight hours of a credential and the limit on their number; the
frame a dialog must have been drawn in before it takes a key; the bound of the
mailbox. A thread reads its clock just before the broker's lock, here in it.

### CdpConnection

`step`, `answer` and `outcome` are the thread of a call, its response channel
and what it returned; `pending`, `outbound` and `closed` are all that threads
and reader share; `reader` and `hand` say where the reader thread stands and
what it holds; `flush` and `before` are the calls of `flush_outbound` and, as a
ghost, what was queued ahead of them. `Enlist`, `Check`, `Send`, `Receive`,
`Timeout` and `Delist` are the steps of `call_inner`; the reader drains,
writes, reads, looks a call up, advances its frame barrier, hands the answer
over, and on a failure flags the connection closed before it drains the map.
No lock covers two of these, so each is a step. Each id is used once.

### BrowserRoutes

`ingress` is the queue the reader fills, with the frame of a surface replaced
in place; `output` the channel to the router, `route` the queue of a surface.
`boot` follows `bootstrap_surface_sync` through its stages and its undoing,
`killer` follows `kill`, `owed` are the routes a closing runtime has taken out
of its map and not closed yet. The router looks a route up under one lock and
delivers under another, so a surface can unregister in between.

### PageAuthority

`chrome` is the page: a document and a view of it, what is painted, the frames.
`wire` is what Chrome has sent, `epoch` the reader's stamp, `events` the route,
`surf` the `BrowserState`, `worker` the command that runs, with the values it
read before it waited for Chrome. A frame is known by its capture time.

What the reader takes for a paint is what `client.rs` takes for one
(`client.rs:1669` to `1698`): a `firstPaint` or `firstContentfulPaint`
(`Paints`, or `PaintsLate` when it comes behind a navigation), a `load` event
and a notice without a loader (`Loads`), which say nothing of the pixels, and a
document restored from the back-forward cache, which is painted the moment it
is read. The ghost `misled` is raised when one of the last three is taken for
the paint of a document that Chrome does not show. `PointerShowsDocument`
excepts it; `PointerIsForItsPixels` does not, and fails.

Left out: frames without timestamps and their reservations, motion generations,
floors of presented frames, Back and Forward, taps and titles.

### CreationReceipts

`receipt` and `effect` are the receipts of a correlation key and of its
attempts, `row` the terminal's row, `place` the workspace, `host` the process,
its record and how often it ran the command, `live` the runtime, its tab, and
the thread that goes on to reach the host (`sought`). `exec` is the
one creation that runs, with the stages of `mux/resource_topology.rs`; when one
fails or a restart finds it open, it looks for evidence and settles. A close
commits and removes in two steps between any of them.

A host publishes its record some time after it has started its shell
(`PublishRecord`), and a starting daemon knows hosts by their records. `Start`
reaches any of those it lists: these are adopted, or ended when their row is
closed; the others are left to a thread (`Adoption`), their rows Adopting. A
row without a record is closed as missing-host-record while its host may live
on, which the ghost `missed` notes. The rollback of a staged workspace and the
mark after it can fail (`SettleFails`): a starting daemon then goes down, a
serving one returns the error and leaves the receipt executing, which the ghost
`spent.left` notes until the next start.

Left out: browser creations, a failing reconcile of the cell size, the startup
deadline of 15 seconds, whose expiry is as a `Crash`, one idempotency key under
two correlations, a failing write of an exit.

More is seen there that no document denies. A close between the insertion of a
surface and of its tab leaves a tab without a terminal. A creation whose row is
tombstoned while it runs ends indeterminate with its workspace staged. The
workspace of an indeterminate creation is not restored by a start, so a
terminal in it that is still running stays Adopting, and its thread retries for
good. Two receipts left executing are refused by the next start
(`mux.rs:2220`), and by every start after it. A creation that fails because the
terminal was closed under it is committed as not applied although its command
had run; `NotAppliedLeavesNothing` says what that still means.

### LayoutUndo

A layout is a set of panes and a shape; the tree of splits, ratios, columns and
zoom are one value, as undo restores them together. `history` is
`layout_undo`, an entry being what was before, the revision after, and the
panes created. `client` is a confirmation by preview token (`mux.rs`) or by
revision (`resource_content.rs`), with the change of the tree and its durable
commit in one step.

`Swap` is `pane.swap`, on one screen or across two. Across two it is recorded on
both (the ghost `across` of an entry), and an undo puts back one half only,
without a look at the other screen: the model follows a daemon up to that undo
(the ghost `torn`) and ends there. `UndoKeepsPanes` and `EveryPaneHasItsPlace`
hold up to it, `PanesAreOnOneScreen` does not hold after it.

Left out: the order of tabs, moves within a pane, the
expected-revision guard of the request, stacks and focus.

### RemoteTree

`server` is the tree of the daemon and the title of one tab, both numbered;
`stream` its subscription, with the queue of the connection. The reader
(`Read`, `ReadOverflow`) is `handle_line`; `cache` is `RemoteTreeCache` with the
late title it keeps; `recovery` the thread that subscribes again. `local`,
`forwarder`, `ingress` and `barrier` are `forward_mux_events` with the mailbox
it reads, the titles it keeps aside, and the generation that holds input back.
`client` has the stale mark, the claim and the mark of the background refresh,
and the refreshes under way, each a thread that takes `tree_refresh`, asks,
replaces, drops its claim and sends its result as separate steps. `app` is what
is shown, with the sequence number last accepted and the retries.

Trees only grow, so a tab is never closed; `SurfaceExited` and the retirement
of a surface are left out, as are a refused subscription, which ends the
session, and a local session. A mark and the event that follows it are one
step, and so are a change of the daemon and its event.

## 3. Runs

| run | instance | states | shows |
|---|---|---|---|
| `effect_receipts` | 2 keys, 2 workers, 1 input and 1 change print, capacity 1, interval 2, 2 events, 2 restarts, 4 completions | 30 186 | at-most-once, true answers, replay window; every request is answered; the receipts implement `AtMostOnceEffect` |
| `hosted_terminals` | 1 terminal, all nine faults, 3 of them | 66 521 | a status is kept until its row has it and never taken for a death, host discoverable, live rows tended, exits recorded, closes end the shell; implements `TerminalLifecycle` |
| `mailbox_stream` | 2 surfaces, capacity 3, 5 events | 302 218 | drained view, no lost wake-up, implements `EventStream`; events arrive |
| `session_scope` | 3 panes, 2 movers, 3 moves | 4 163 | a wrong copy has been told and gets right, moves by `pane.swap` and `layout.apply` excepted |
| `pairing` | 1 peer, 2 requests, 1 per window, 2 pending, a TUI | 360 087 | one resolution, credentials only for the approved, limits, requests and their threads end |
| `cdp_connection` | 2 calls, one with a barrier, 1 cast, 1 flush | 198 380 | waits are owed an answer, results are true, calls end with the connection |
| `browser_routes` | 1 surface, queues of 2, 1 and 2, 3 events | 89 007 | open routes are held, a kill leaves no session and no route, order, the end is told |
| `page_authority` | 2 views, 1 paint, 1 frame, 1 command of any kind, 2 timeouts, 2 attempts | 453 198 | the pointer is for the document shown, unless the reader was misled; barriers are lifted |
| `creation_receipts` | 2 creations of 2 attempts, 2 restarts, 1 close, 1 failing write | 1 097 485 | one run per key, living shells have a tab, a missed host excepted, "not applied" is true, executions are settled |
| `layout_undo` | 2 screens, 3 panes, 3 tabs, history of 2, 1 client, 1 drag, 5 revisions | 578 149 | undo keeps panes to any depth that is left of a trimmed history; panes have one place, a token closes what it showed |
| `remote_tree` | 2 changes of tree or title, one of them by this client, a subscription of 1 event, a client mailbox of 2, 1 retry of each kind, 2 of: an own change, a failing request, a key | 1 064 137 | a quiet screen shows what the daemon has or is known not to, no older tree replaces a newer one |
| `remote_tree_barrier` | 3 changes of the daemon, a subscription of 1 event, a client mailbox of 1, no retry, 1 failing request | 1 845 214 | input is let through again |

Why these bounds are enough. Receipts of different keys meet only in the
sequence of completions and the revision: two keys with a capacity of one make
the pruning forget one receipt and keep the other, and a key it forgot be asked
for again; two workers race for one key or hold two; two restarts let a
recovery be followed by another. Terminals meet in nothing but a start of the daemon, which
waits for all of them; three faults allow a crash during the recovery from a
crash that followed a killed host. The mailbox has room for three events and
five are sent: it fills, overflows, drains, and coalesced entries of two
surfaces cross ordinary ones. Three panes let an update be stale in two ways.
Two requests of one peer at a rate of one let a request be refused while its
predecessor is pending, answered or old. Calls meet in the drained map and the
order of the queue: two of them, a cast and a flush make every order of a send
and the close. Routes of different surfaces meet in the queues only, whose
bounds three events exceed. Two views let a navigation arrive at every point of
a capture and at every point of the one command of the user, which waits behind
the capture or the capture behind it; two commands of the user were checked too,
without reload and without liveness (5 472 296 states). Two creations let one be
settled at a start while another is absent or done; two restarts let a
settlement be interrupted; a host may publish its record before, between or
after them. Three panes and two screens let a pane be made on one screen and a
tab of it be moved to the other; five revisions let a history of two drop its
oldest entry after a swap across screens, a new pane and a closed one. Four tabs,
one of which is added to the new pane, were checked with three revisions
(4 369 148 states). Two changes
overflow a subscription of one event, fall before, within and after a refresh, and with
the event of the second subscription overflow a client mailbox of two; two
failures use up a retry and fail a recovery. Three changes were checked too,
without liveness and with one failure, key or own change (5 094 278 states). A
client mailbox of one overflows again when three changes come: while it is
drained, while the refresh is asked for, and while events are forwarded after
it; the recovery is begun with the barrier up, ended with the mailbox
overflowed, and answered, well or not, for a barrier that has been raised
since. A completion older than the barrier that waits for it needs four
changes, which is more than liveness can be checked of.
Every bound is a constant whose comment says so.

### Where the code does something else than it says

TLC's counterexample of each configuration is the schedule. They are kept beside
the runs, and
`tlc -config <configuration>.cfg <module>.tla`, the module being the MC module
its name begins with, shows each. `MCPageAuthorityStrict` lists three: TLC stops
at the first it meets, and shows each when the other two are left out.

| configuration | property | what happens |
|---|---|---|
| `MCLayoutUndoMoves` | `RevisionClosesWhatItShowed` | `terminal.move` does not fence the undo (`resource_content.rs:500`), so an undo confirmed by revision closes a tab that was moved into the pane after the preview; `mux.rs:12757` and the test at `mux.rs:21630` say a move fences it |
| `MCHostedTerminalsAdoption` | `ExactStatusSurvivesAdoption` | a shell that ends while its host is being adopted is closed as "host-exited-during-adoption" although its exact exit is on disk (`mux.rs:2884`) |
| `MCHostedTerminalsPixels` | `EveryLiveRowIsTended` | the row of a terminal whose cell size was not acknowledged stays Running: the call that should close it always refuses (`mux.rs:5520`, `mux.rs:5052`) |
| `MCHostedTerminalsStream` | `BrokenStreamReconnects` | a stream that breaks before its surface is in the state is never reconnected (`mux.rs:5081`) |
| `MCSessionScopeMoves` | `ScopeFollowsSurface` | `terminal.move` writes a path it read before another move (`resource_content.rs:568`) |
| `MCPairingOrder` | `DialogsClose` | `PairingRequested` arrives after `PairingResolved`, and its dialog stays (`mux.rs:5224`) |
| `MCPageAuthorityStrict` | `CaptureBelongsToDocument` | a command that fails restores the pointer's capture although a new document has been committed and awaits its paint (`browser.rs:3812`; `browser.rs:234` says a capture is of one document) |
| `MCPageAuthorityStrict` | `QuietPageIsClickable` | a frame that arrives ahead of its same-document navigation leaves the surface waiting for it (`browser.rs:3568`; `browser.rs:208`) |
| `MCCreationReceiptsRetry` | `RetryMaySucceed` | the retry of a creation that was not applied reuses its terminal id, which the registry refuses as "terminal_create_replayed" (`effect_store.rs:443`, `mux.rs:5464`; the specification allows the retry, `resource-operations-v2.json:2085`) |
| `MCRemoteTreeTitles` | `QuietTitleIsTrue` | a title lost with an overflowed subscription never reaches the screen: the tree of the recovery has it, and `reapply_mux_titles` lays the older title of the ingress over it (`app.rs:9536`); only a recovery of the client's own mailbox drops such titles (`app.rs:427`) |
| `MCRemoteTreeOlder` | `QuietTreeIsTrue` | the tree of a recovery has no sequence number (`app.rs:11190`), so the result of a refresh from before it replaces it when it is sent later, and nothing marks the copy stale |
| `MCSessionScopeSwaps` | `EveryMoveIsTold` | `pane.swap` takes a surface to another screen (`resource_topology.rs:1336`) and emits only events (`resource_topology.rs:662`) that a client subscribed to the surface does not get (`event_bus.rs:160`): its copy of the tree stays wrong |
| `MCPageAuthorityStrict` | `PointerIsForItsPixels` | a load event, a notice without a loader (`client.rs:1681`) or a document restored from the back-forward cache (`client.rs:1669`) counts as a paint, and the pointer is let through to a document whose pixels are not shown |
| `MCCreationReceiptsUnseen` | `EveryLiveHostHasTab` | a host whose daemon died between Launch and Ready publishes its record (`terminal_host_runtime.rs:3633`) after the next daemon has closed its row for "missing-host-record" (`mux.rs:2803` calls this a closed crash window): its shell runs and has no tab |
| `MCLayoutUndoSwaps` | `PanesAreOnOneScreen` | `pane.swap` works across screens (`resource_topology.rs:1336`), and the undo of an earlier change does not check its panes (`mux.rs:12953`): a pane ends on both screens |

Each has the least instance that shows the case, and restricts nothing but the
number of faults, movers, requests, changes or commands, and in `MCPairingOrder` the
time: `EarlySpec` lets no challenge grow old. It also declares its peers
symmetric; no run does.

The models have three more behaviours of this kind, without a configuration. The
`TabAdded` of an adopted browser target
is emitted after its commit and undoes the scope of a move in between
(`mux.rs:10947`). A pairing request that another operation prunes ends without
`PairingResolved` (`pairing.rs:214`; `mux.rs:770` lists "expired" among its
causes). A background refresh that fails discards the mark another change has
left for it (`app.rs:11701`), and the success of an older one cancels its retry
(`app.rs:11688`): a change lost with a subscription can stay unshown and
unmarked, which is why `QuietScreenIsTrue` excuses a failure that meets a loss.

## 4. Fairness

- `EffectReceipts`: each worker is a thread; no step of it waits for another.
- `HostedTerminals`: threads of the daemon and of the host go on; a host told
  to terminate ends its shell. Faults, requests and a shell's own exit are owed
  to nobody. The liveness properties except the faults after which the code
  gives up on purpose or by mistake, once they have happened: a reader out of
  attempts ("giveup") stops for good and "pixels" is the finding above, so
  neither promises a recorded exit, and a failing connection ("connect") ends
  the search of a close.
- `EventMailbox`: a receiver that is awake calls receive again. A wait need not
  time out, so a lost wake-up would be seen.
- `SessionScope`: a thread that serves a move or an adoption finishes it; the
  client handles what it is told.
- `Pairing`: time passes and the daemon's threads go on. Nobody need ever
  answer, and no TUI need read its events.
- `CdpConnection`: the reader and the threads of calls, casts and flushes go
  on. No timeout, no failure and no answer of Chrome is fair: the end of a
  connection alone must end its calls.
- `BrowserRoutes`: reader, router, bootstraps, kills and the threads of
  surfaces go on. Chrome, the socket and users owe nothing.
- `PageAuthority`: reader, surface thread and worker go on, and time passes, as
  every wait of the worker has a timeout; Chrome need not answer.
- `CreationReceipts`: the execution and its settlement go on, a daemon that is
  down is started, a committed close removes, an exit is seen, a host publishes
  its record, and a thread of an adoption, which retries until it does, reaches
  its host. Requests, crashes, closes and failures are owed to nobody.
- `RemoteTree`: the reader, the threads of refreshes and subscriptions, the
  forwarding thread and the application go on, and an answer comes. The daemon
  need not change, nobody need press a key, and no request need fail.

`LayoutUndo` states no fairness: nothing of it must happen.

## 5. Proofs

All theorems hold for every value of the constants that satisfies the named
assumption of the module. Each is proved from an inductive invariant that TLC
also checks where it is a property of a run.

- `EffectReceiptsProofs`. `ReceiptInv` adds to the safety properties that the
  receipt of a key determines what has run and what has been answered, except
  while one worker acts on it, and that this worker's place determines it then.
  `AtMostOnce` alone is not inductive: a second worker could be running. From it
  follow type correctness, `AtMostOnce`, `OneActsPerKey`,
  `AnswersTellTheTruth`, `ReplayIsStable`, `AppliedIsRecorded`, and that every
  step is a step of `AtMostOnceEffect` or a stutter. Pruning enters through
  what it keeps: a pruned receipt was committed. `CompletionInv` says that the
  completions are those of inputs and have different numbers. A pruned
  completion has a capacity's worth of newer ones, and these need as many
  numbers between it and the counter (`SurplusIsOld`, by an injection). That
  gives `ForgetsOnlyOldInputs`: a receipt within the replay window is never
  pruned. `EventLog` says that the retained resource events are the last ones
  without a gap, the newest always among them; with it `PagesMissNothing`, which
  no run checks: a cursor is refused or answered with every later revision.
- `HostedTerminalsProofs`. `EntriesInv` ties the parties together: a thread
  that acknowledges an exit stands behind a latched row, a host that wrote its
  sidecar has it or has a latched row, a dead surface has seen an exit, and a row
  that says host-proven-dead or no-sidecar (`Deaths`) has a host that was lost
  without a sidecar. Each
  action is a lemma about one record. From it follow `StatusIsKept`
  (what was written stays on disk while the row is live, and after that the row
  has it, was closed on request, never came up, was missed by a start, or has
  the guess of an adoption), `LiveHostIsDiscoverable`, `AbsenceIsChecked` (of
  missing-host-record, host-proven-dead and no-sidecar; the guess of an
  adoption is made without looking), and the refinement of
  `TerminalLifecycle`. `TendedInv` adds what the place of a thread says about
  the runtime: a spawn that has not committed Running stands before a Launching
  or a final row, a thread past the insertion has a runtime or a final row, no
  terminal is spawned and adopted at once, and outside a start no terminal is
  merely listed. From it follows `LiveRowIsTended`, for every set of faults; it
  excepts a daemon to which a host has failed to acknowledge its cell size,
  because with that the property is false, as `MCHostedTerminalsPixels` shows.
- `SubscriptionProofs`. `MailboxInv` says that all pending entries have numbers
  of their own below `next`, that the index is the inverse of the map, that a
  waiting receiver has nothing to read, and that the state of each surface is
  what the view says or what the newest pending entry about it will make it
  (`Foreseen`). From it follow the five safety properties and the refinement of
  `EventStream`, for every capacity. `ScopeInv` says that a browser target
  before its adoption is nowhere and has no subscriber. It gives `MovesAreTold`
  for any number of threads, the moves of `Rearrange` excepted.
- `RemoteProofs`, `Pairing`. `PairingInv` says what is known of a request
  before its challenge (nothing), on the table (open, no durable answer, not
  announced) and after; and that two pending requests have different peers. It
  says nothing of the TUI, and needs nothing: an answer to any request settles
  only a live one. From it follow `ResolvedOnce`, `CredentialsAreApproved` and
  `PeersAreLimited`.
- `RemoteProofs`, `RemoteTree`. `QuietScreenIsTrue` says nothing until all is
  quiet; `ScreenInv` says of every state where what the screen lacks is to come
  from. `OneClaim`: one refresh at most is not over, and it is the last one.
  `TreesInOrder`: what a refresh brings is no older than what an earlier one
  brought. `TitlesAreKnown`: each title on its way, in the cache or on the
  screen is one the daemon has given, and the newest in the subscription is its
  last. `IngressShows`: a title the ingress holds is shown or announced.
  `WholeTree` and `WholeTitle` are about a subscription that lost nothing: once
  its events are read and no mark is left, the last refresh brings the tree of
  the daemon, or has failed and is retried. `TreeAsked` and `TitleAsked` are
  about requests that do not fail, also when events are lost: what the last
  refresh lacks is told of by an event, a wake-up or a mark. Neither pair
  implies the other, and the property needs both. The proof says once what each
  step does (`StepDoes`) and then keeps each part. From it follow
  `QuietScreenIsTrue` and `ShownTreeNeverGoesBack`. Both, and the invariant,
  are about the time before the client's own mailbox overflows; after it an
  older tree may replace a newer one, as `MCRemoteTreeOlder` shows. TLC has also
  checked `ScreenInv`, on the instance of the run and a larger one.
- `ChromeProofs`, `CdpConnection`. `CallsInv` says where each call is: a call that waits
  is pending, in the reader's hand, or already answered (`Covered`); the reader
  holds a call only between finding it and handing its answer over, and a closed
  connection is drained once (`ReaderInv`); what a thread reports is what its
  channel held (`True`). `EveryWaitIsOwed` alone is not inductive, as it does
  not say what the reader is about to do. From it follow `EveryWaitIsOwed`,
  `OutcomesAreTrue` and `PendingHasCaller` (which no run checks: no call leaves
  an entry behind); a second invariant, `FlushInv`, puts each queued message
  before or behind the token of a flush and gives `FlushedIsWritten`, which no
  run checks.
- `ChromeProofs`, `PageAuthority`. `PointerShowsDocument` is about two
  variables and depends on nearly all: a frame becomes pointable after it has
  been encoded, sent, stamped, queued, retained and verified, and the page can
  change between any two of these. `PageInv` says of each place where a frame or
  a document can be how old it may be. `Streams`: between two navigations the
  socket speaks of one document, and no paint notice runs ahead of what is
  shown (a load event or a notice without a loader may). `Known`: nothing the
  reader has stamped or the worker was told is of a later document than the
  reader's. `Painted`: a paint notice of the present
  navigation, as an event or as the command it becomes, means that Chrome shows
  that document. `Verifies` follows a verification: the cast is stopped, and
  the time of that answer is past every frame on its way; the restart begins an
  epoch behind it (`Late`), so that no stamp of this epoch or a later one is of
  an older document (`FreshFrom`); the screenshot taken then is of the
  document. `Shows`: a surface that has accepted the navigation the reader knows
  shows a frame of that document, and so will any retained frame its epoch lets
  through. `OneReply`: an answer is to the question the worker asks now, which
  is what a timeout could break; `TimesOut` takes the late answer with it, as
  the client drops an answer that nobody waits for. A surface that puts back an
  earlier authority (`Restore`) is covered because the invariant speaks of the
  tokens too. All of this is said
  of documents not older than `Floor`: the document of the reader, or none once
  the reader was misled, until the next navigation. The proof says first what a
  step may do to frames, stamps, epochs and paints (`GoesOn`), which is enough
  for all but the worker's own steps. It
  needs nothing of the constants: any number of views, frames, commands and
  timeouts.
- `BrowserRoutesProofs`. `RoutesInv` has three parts. `HeldInv`: an open route
  is in the maps or owed a close, and where bootstrap and kill of a surface
  stand says which of route, session and target are left. `InOrder`: the
  stages of an event's way, from the reader's queue to what the surface has
  handled, hold numbers that follow each other. `NotesAreKept`: a note that is
  neither handled nor able to arrive lies before all that are or after all of
  them, the second only once nothing can be added behind it. `EventsInOrder`
  alone is not inductive, as it does not say what waits in a queue. From it
  follow `OpenRouteIsHeld`, `KilledSurfaceIsCleared`, `EventsInOrder` (for any
  capacities and numbers of surfaces and events) and `QueuesAreBounded`, which
  no run checks.
- `LayoutUndoProofs`. Each history is a chain as far back as its latest half of a
  swap across screens (`HistInv`): the panes before an entry and the panes
  created from it on are disjoint and together are the panes of now, its
  length is bounded, and the latest entry ends in the present revision. With it
  go where panes are (`Places`) and what the holder of a token knows (`Held`).
  From it follow `UndoKeepsPanes`, `EveryPaneHasItsPlace`,
  `TokenClosesWhatItShowed`, and that the latest change stays undoable. All
  are said up to the undo of one half of a swap across screens alone; after it
  a pane is on two screens, as `MCLayoutUndoSwaps` shows.
- `CreationReceiptsProofs`. `CreationInv` says for each creation what its
  receipt, the stage of its execution and the evidence it has seen allow its
  host to have done (`Ran`), who removes a runtime without a tab, or reaches a
  host without one (`Tended`), that a creation that has not executed, or
  runs in this daemon, has no missed host (`Fresh`),
  and what a failed attempt left (`Answered`); a daemon that is down executes
  nothing. From it follow `RunsOnce`, `LiveHostHasTab` and
  `NotAppliedLeavesNothing`, for any number of restarts, failures and hosts that
  are slow to publish or to be reached.

Only checked by TLC. Liveness (`EveryRequestIsAnswered`, `ExitIsRecorded`,
`CloseEndsShell`, `EventsAreDelivered`, `CopyConverges`, `RequestsEnd`,
`CallsEndWithConnection`, `EndIsTold`, `BarrierSettles`, `ExecutionSettles`,
`BarrierIsLowered`) is out of the prover's reach. Every invariant and every
action property that a run checks is a theorem, and so are the three
refinements.

## 6. Plan

1. Done: the effect receipts, hosted terminals, mailboxes, session scope and
   pairing; then the connection to Chrome, the routes and the authority of
   browser surfaces, correlated creations, the layout history, and the tree of
   a remote TUI, with the proofs above.
2. `WorkspaceRegistry` (generation and revision checks, mutation receipts,
   retention), abstract specification: a map with compare-and-set. Run: 2
   clients with stale generations. Theorem: a conflict changes nothing.
3. `WriterStreams` (bounded, ordered, terminal message last) and
   `AttachStreams` (replay joined to live output).
4. `SessionOwnership` (`writer.lock`), `MachineProvider`, the input queues and
   the image writer.
5. The captures of a press (`press`) in the invariant of `PageAuthority`, once
   the code no longer restores a capture of an earlier document.

## 7. Not modelled

Encoding and framing, drawing, key tables, configuration, terminal emulation,
vendored libraries, installers and the front end in C# keep no protocol state
of their own. The other parts without a module are in the plan. `PROJECT.json`
lists every component with its reason.
