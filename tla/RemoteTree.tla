----------------------------- MODULE RemoteTree -----------------------------
(***************************************************************************)
(* The copy of the tree that a remote TUI shows: the subscription of the   *)
(* daemon, the cache of RemoteSession (session/remote.rs), the thread that *)
(* forwards its events, and the refreshes of the application (app.rs).     *)
(*                                                                         *)
(* Trees and titles are numbered in the order of the daemon.  Titles are   *)
(* those of one tab, which tree 1 does not have and every later tree has.  *)
(* 0 is no tree and no title.                                              *)
(*                                                                         *)
(* Answers and events overtake each other on the way: the connection       *)
(* writes answers and the end of a stream before the events of streams.    *)
(* Its queue and the mailbox of the subscription are one queue here.       *)
(***************************************************************************)
EXTENDS Naturals, Sequences, SequencesExt

CONSTANTS
  MailCapacity,      \* MAX_PENDING_EVENTS and OUTBOUND_CAPACITY of the daemon
  LocalCapacity,     \* MAX_PENDING_EVENTS of the client
  BackgroundRetries, \* BACKGROUND_REFRESH_RETRIES
  LayoutRetries,     \* LAYOUT_REFRESH_RETRIES
  MaxChanges,        \* bound: changes of the tree and of the title
  MaxMutations,      \* bound: changes this client asks for
  MaxFailures,       \* bound: requests for the tree that fail
  MaxInputs,         \* bound: keys that find the copy stale
  MaxExtras          \* bound: the last three together

ASSUME RemoteTreeAssumption ==
  /\ {MailCapacity, LocalCapacity} \subseteq Nat \ {0}
  /\ {BackgroundRetries, LayoutRetries, MaxChanges, MaxMutations,
      MaxFailures, MaxInputs, MaxExtras} \subseteq Nat

VARIABLES
  server,    \* the tree of the daemon and the title of its tab
  stream,    \* the subscription: what is under way, and how it stands
  cache,     \* RemoteTreeCache
  recovery,  \* the thread that subscribes again
  local,     \* the mailbox of the application's event receiver
  forwarder, \* the thread of forward_mux_events
  ingress,   \* MuxTitleIngress
  barrier,   \* mux_recovery_generation, and the last one given
  chan,      \* the channel to the application
  client,    \* the stale mark, the refresh claim and mark, and the refreshes
  holder,    \* who holds tree_refresh
  app,       \* what the application shows, and its retries
  mutation,  \* the thread of an own change
  spent      \* what has been used of the bounds; lost is a ghost

daemonVars == <<server, stream>>
forwarding == <<forwarder, ingress, barrier>>
treeVars == <<server, stream, cache, recovery, local, forwarder, ingress, barrier,
              chan, client, holder, app, mutation, spent>>

NoTitle == 0
Nobody == 0 \* the forwarder's refresh is numbered 1, the others from 2 on
Forwarder == 1
HasTab(tree) == tree > 1
Tree == [kind |-> "tree", title |-> NoTitle]
Layout == [kind |-> "layout", title |-> NoTitle]
Title(title) == [kind |-> "title", title |-> title]
TitlesReady == [kind |-> "titles"]
Fresh == [events |-> <<>>, state |-> "open"]

\* The first title comes with tree 2.
MayChange ==
  server.tree + server.title < MaxChanges + (IF HasTab(server.tree) THEN 2 ELSE 1)
MaySpend == spent.mutations + spent.failures + spent.inputs < MaxExtras

\* After the first refresh of a client that has subscribed.
TreeInit ==
  /\ server = [tree |-> 1, title |-> NoTitle] /\ stream = Fresh
  /\ cache = [tree |-> 1, title |-> NoTitle, gen |-> 0,
              late |-> [gen |-> 0, title |-> NoTitle]]
  /\ recovery = [at |-> "idle", again |-> FALSE]
  /\ local = Fresh
  /\ forwarder = [at |-> "run", backlog |-> <<>>]
  /\ ingress = [title |-> NoTitle, dirty |-> FALSE, wake |-> FALSE]
  /\ barrier = [now |-> 0, last |-> 0]
  /\ chan = <<>>
  /\ client = [stale |-> FALSE, queued |-> FALSE, dirty |-> FALSE,
               seq |-> Forwarder, jobs |-> {}]
  /\ holder = Nobody
  /\ app = [tree |-> 1, title |-> NoTitle, seq |-> 0, layout |-> 0,
            attempts |-> 0, retry |-> FALSE]
  /\ mutation = "none"
  /\ spent = [mutations |-> 0, failures |-> 0, inputs |-> 0, lost |-> FALSE]

(***************************************************************************)
(* Mailboxes (see EventMailbox): a title takes the place of one that       *)
(* waits; a full mailbox takes nothing more.                               *)
(***************************************************************************)
TitlesIn(events) == {i \in DOMAIN events : events[i].kind = "title"}

Pushed(box, others, event, capacity) ==
  IF box.state # "open" THEN box
  ELSE IF Len(others) < capacity
       THEN [box EXCEPT !.events = Append(others, event)]
       ELSE [box EXCEPT !.state = "overflowed"]

\* The mailbox of the client holds one title at most.
Posted(box, event) ==
  LET waits == event.kind = "title" /\ TitlesIn(box.events) # {}
      title == CHOOSE i \in TitlesIn(box.events) : TRUE
  IN Pushed(box, IF waits THEN RemoveAt(box.events, title) ELSE box.events,
            event, LocalCapacity)

\* The last title waits in the mailbox, or the connection has taken it out.
Publish(event) ==
  \/ stream' = Pushed(stream, stream.events, event, MailCapacity)
  \/ /\ event.kind = "title"
     /\ \E i \in TitlesIn(stream.events) :
          /\ \A j \in TitlesIn(stream.events) : j <= i
          /\ stream' = Pushed(stream, RemoveAt(stream.events, i), event,
                             MailCapacity)

(***************************************************************************)
(* The daemon.                                                             *)
(***************************************************************************)
Grown ==
  [tree |-> server.tree + 1,
   title |-> IF HasTab(server.tree) THEN server.title ELSE 1]

Change(event) ==
  /\ MayChange /\ event \in {Tree, Layout}
  /\ server' = Grown /\ Publish(event)
  /\ UNCHANGED <<cache, recovery, local, forwarding, chan, client, holder,
                 app, mutation, spent>>

Retitle ==
  /\ HasTab(server.tree) /\ MayChange
  /\ server' = [server EXCEPT !.title = @ + 1] /\ Publish(Title(server.title + 1))
  /\ UNCHANGED <<cache, recovery, local, forwarding, chan, client, holder,
                 app, mutation, spent>>

\* A change this client asks for: its thread has the answer of the daemon.
Mutate(event) ==
  /\ mutation = "none" /\ spent.mutations < MaxMutations /\ MaySpend
  /\ MayChange /\ event \in {Tree, Layout}
  /\ server' = Grown /\ Publish(event)
  /\ mutation' = "committed"
  /\ spent' = [spent EXCEPT !.mutations = @ + 1]
  /\ UNCHANGED <<cache, recovery, local, forwarding, chan, client, holder, app>>

MutationReturns ==
  /\ mutation = "committed" /\ mutation' = "none"
  /\ client' = [client EXCEPT !.stale = TRUE]
  /\ chan' = Append(chan, [kind |-> "committed"])
  /\ UNCHANGED <<daemonVars, cache, recovery, local, forwarding, holder, app,
                 spent>>

(***************************************************************************)
(* The reader of the connection.                                           *)
(***************************************************************************)
\* RemoteTreeCache::update_title.
Retitled(title) ==
  [cache EXCEPT !.gen = @ + 1,
                !.late = [gen |-> cache.gen + 1, title |-> title],
                !.title = IF HasTab(cache.tree) THEN title ELSE @]

ReadTitle(event) ==
  /\ cache' = Retitled(event.title)
  /\ LET tells == ~HasTab(cache.tree) /\ ~client.stale
     IN /\ client' = [client EXCEPT !.stale = @ \/ tells]
        /\ local' = Posted(IF tells THEN Posted(local, Tree) ELSE local, event)

ReadChange(event) ==
  /\ client' = [client EXCEPT !.stale = TRUE]
  /\ local' = Posted(local, event) /\ UNCHANGED cache

Read ==
  /\ stream.events # <<>>
  /\ stream' = [stream EXCEPT !.events = Tail(@)]
  /\ IF Head(stream.events).kind = "title" THEN ReadTitle(Head(stream.events))
     ELSE ReadChange(Head(stream.events))
  /\ UNCHANGED <<server, recovery, forwarding, chan, holder, app, mutation,
                 spent>>

\* The end of the stream purges what the connection has not written.
ReadOverflow ==
  /\ stream.state = "overflowed"
  /\ stream' = [events |-> <<>>, state |-> "told"]
  /\ client' = [client EXCEPT !.stale = TRUE]
  /\ recovery' = IF recovery.at = "idle" THEN [recovery EXCEPT !.at = "asking"]
                 ELSE [recovery EXCEPT !.again = TRUE]
  /\ spent' = [spent EXCEPT !.lost = TRUE]
  /\ UNCHANGED <<server, cache, local, forwarding, chan, holder, app, mutation>>

(***************************************************************************)
(* start_subscription_recovery.  A refused subscription ends the session,  *)
(* and is left out.                                                        *)
(***************************************************************************)
Resubscribe ==
  /\ recovery.at = "asking"
  /\ stream' = Fresh
  /\ recovery' = [at |-> "answered", again |-> FALSE]
  /\ UNCHANGED <<server, cache, local, forwarding, chan, client, holder, app,
                 mutation, spent>>

Resubscribed ==
  /\ recovery.at = "answered"
  /\ IF recovery.again
     THEN recovery' = [recovery EXCEPT !.at = "asking"] /\ UNCHANGED local
     ELSE /\ recovery' = [recovery EXCEPT !.at = "idle"]
          /\ local' = Posted(local, Tree)
  /\ UNCHANGED <<daemonVars, cache, forwarding, chan, client, holder, app,
                 mutation, spent>>

(***************************************************************************)
(* Refreshes (refresh_tree_inner): one at a time, from the generation of   *)
(* titles before the request to the replacement of the copy.               *)
(***************************************************************************)
Job(seq, identity) ==
  [seq |-> seq, identity |-> identity, at |-> "waiting", gen |-> 0,
   tree |-> 0, title |-> NoTitle, ok |-> FALSE]
Moved(job, next) == [client EXCEPT !.jobs = (@ \ {job}) \cup {next}]

BeginRefresh(job) ==
  /\ job.at = "waiting" /\ holder = Nobody
  /\ holder' = job.seq
  /\ client' = [Moved(job, [job EXCEPT !.at = "asked", !.gen = cache.gen])
                  EXCEPT !.stale = @ /\ ~job.identity]
  /\ UNCHANGED <<daemonVars, cache, recovery, local, forwarding, chan, app,
                 mutation, spent>>

GetTree(job) ==
  /\ job.at = "asked"
  /\ client' = Moved(job, [job EXCEPT !.at = "answered", !.tree = server.tree,
                                      !.title = server.title])
  /\ UNCHANGED <<daemonVars, cache, recovery, local, forwarding, chan, holder,
                 app, mutation, spent>>

\* Mutant: the first title after the request counts as in the answer.
ReplacedOneLate(job) ==
  [cache EXCEPT !.tree = job.tree,
                !.title = IF cache.late.gen > job.gen + 1 /\ HasTab(job.tree)
                          THEN cache.late.title ELSE job.title]

\* RemoteTreeCache::replace.
Replaced(job) ==
  LET isLate == cache.late.gen > job.gen
      keeps == isLate /\ ~HasTab(job.tree)
  IN [cache EXCEPT
        !.tree = job.tree,
        !.title = IF isLate /\ HasTab(job.tree) THEN cache.late.title
                  ELSE job.title,
        !.late = IF keeps THEN @ ELSE [gen |-> 0, title |-> NoTitle]]

Replace(job) ==
  /\ job.at = "answered"
  /\ cache' = Replaced(job) /\ holder' = Nobody
  /\ client' = Moved(job, [job EXCEPT !.at = "done", !.ok = TRUE,
                                      !.title = Replaced(job).title])
  /\ UNCHANGED <<daemonVars, recovery, local, forwarding, chan, app, mutation,
                 spent>>

Fail(job) ==
  /\ job.at \in {"asked", "answered"}
  /\ spent.failures < MaxFailures /\ MaySpend
  /\ spent' = [spent EXCEPT !.failures = @ + 1]
  /\ holder' = Nobody
  /\ client' = [Moved(job, [job EXCEPT !.at = "done"])
                  EXCEPT !.stale = @ \/ job.identity]
  /\ UNCHANGED <<daemonVars, cache, recovery, local, forwarding, chan, app,
                 mutation>>

\* The application's refreshes: the claim goes before the result is sent.
DropClaim(job) ==
  /\ job.at = "done" /\ job.seq # Forwarder
  /\ client' = [Moved(job, [job EXCEPT !.at = "free"]) EXCEPT !.queued = FALSE]
  /\ UNCHANGED <<daemonVars, cache, recovery, local, forwarding, chan, holder,
                 app, mutation, spent>>

Send(job) ==
  /\ job.at = "free"
  /\ client' = [client EXCEPT !.jobs = @ \ {job}]
  /\ chan' = Append(chan, [kind |-> "refreshed", job |-> job])
  /\ UNCHANGED <<daemonVars, cache, recovery, local, forwarding, holder, app,
                 mutation, spent>>

Refresh(job) ==
  \/ BeginRefresh(job) \/ GetTree(job) \/ Replace(job)
  \/ DropClaim(job) \/ Send(job)

(***************************************************************************)
(* forward_mux_events.                                                     *)
(***************************************************************************)
Forwarded(event) ==
  IF event.kind = "title"
  THEN /\ ingress' = [title |-> event.title, dirty |-> TRUE, wake |-> TRUE]
       /\ chan' = IF ingress.wake THEN chan ELSE Append(chan, TitlesReady)
  ELSE chan' = Append(chan, event) /\ UNCHANGED ingress

Forward ==
  /\ forwarder.at \in {"run", "after"} /\ local.events # <<>>
  /\ local' = [local EXCEPT !.events = Tail(@)]
  /\ Forwarded(Head(local.events))
  /\ UNCHANGED <<daemonVars, cache, recovery, forwarder, barrier, client,
                 holder, app, mutation, spent>>

\* It subscribes before it drains what the closed mailbox still has.
StartRecovery ==
  /\ forwarder.at = "run" /\ local.state = "overflowed"
  /\ barrier' = [now |-> barrier.last + 1, last |-> barrier.last + 1]
  /\ forwarder' = [at |-> "drain", backlog |-> local.events]
  /\ local' = Fresh
  /\ UNCHANGED <<daemonVars, cache, recovery, ingress, chan, client, holder,
                 app, mutation, spent>>

Drain ==
  /\ forwarder.at = "drain" /\ forwarder.backlog # <<>>
  /\ forwarder' = [forwarder EXCEPT !.backlog = Tail(@)]
  /\ Forwarded(Head(forwarder.backlog))
  /\ UNCHANGED <<daemonVars, cache, recovery, local, barrier, client, holder,
                 app, mutation, spent>>

AskForTree ==
  /\ forwarder.at = "drain" /\ forwarder.backlog = <<>>
  /\ forwarder' = [forwarder EXCEPT !.at = "refresh"]
  /\ client' = [client EXCEPT !.jobs = @ \cup {Job(Forwarder, TRUE)}]
  /\ UNCHANGED <<daemonVars, cache, recovery, local, ingress, barrier, chan,
                 holder, app, mutation, spent>>

\* reconcile_authoritative drops every title: this thread alone adds any.
Recover(job) ==
  /\ job.seq = Forwarder /\ job.at = "done"
  /\ client' = [client EXCEPT !.jobs = @ \ {job}]
  /\ LET sent == Append(chan, [kind |-> "recovered", job |-> job,
                               barrier |-> barrier.last])
     IN IF job.ok
        THEN /\ ingress' = [ingress EXCEPT !.title = NoTitle, !.dirty = FALSE]
             /\ forwarder' = [forwarder EXCEPT !.at = "after"]
             /\ chan' = sent
        ELSE /\ ingress' = [ingress EXCEPT !.wake = ingress.dirty]
             /\ forwarder' = [forwarder EXCEPT !.at = "run"]
             /\ chan' = IF ingress.dirty THEN Append(sent, TitlesReady) ELSE sent
  /\ UNCHANGED <<daemonVars, cache, recovery, local, barrier, holder, app,
                 mutation, spent>>

\* Mutant: after a second overflow it subscribes again and recovers nothing.
EndRecoveryForgets ==
  /\ forwarder.at = "after" /\ local.events = <<>>
  /\ forwarder' = [forwarder EXCEPT !.at = "run"]
  /\ local' = Fresh
  /\ chan' = IF local.state = "overflowed" THEN chan
             ELSE chan \o <<TitlesReady, [kind |-> "complete",
                                         barrier |-> barrier.last]>>
  /\ UNCHANGED <<daemonVars, cache, recovery, ingress, barrier, client,
                 holder, app, mutation, spent>>

\* An overflow meanwhile is left to the recovery that follows it.
EndRecovery ==
  /\ forwarder.at = "after" /\ local.events = <<>>
  /\ forwarder' = [forwarder EXCEPT !.at = "run"]
  /\ chan' = IF local.state = "overflowed" THEN chan
             ELSE chan \o <<TitlesReady, [kind |-> "complete",
                                         barrier |-> barrier.last]>>
  /\ UNCHANGED <<daemonVars, cache, recovery, local, ingress, barrier, client,
                 holder, app, mutation, spent>>

ForwarderStep ==
  \/ Forward \/ StartRecovery \/ Drain \/ AskForTree \/ EndRecovery
  \/ \E job \in client.jobs : Recover(job)

(***************************************************************************)
(* The application.                                                        *)
(***************************************************************************)
Started(c, identity) ==
  [c EXCEPT !.queued = TRUE, !.seq = @ + 1,
            !.jobs = @ \cup {Job(c.seq + 1, identity)}]

\* refresh_remote_tree_if_stale and refresh_remote_tree_background.
IfStale(c) == IF c.stale /\ ~c.queued THEN Started(c, TRUE) ELSE c
Background(c) ==
  IF c.queued THEN [c EXCEPT !.dirty = TRUE] ELSE Started(c, FALSE)
\* complete_remote_tree_refresh.
Completed(c, refreshStale) ==
  LET taken == [c EXCEPT !.dirty = FALSE]
  IN CASE c.stale /\ (refreshStale \/ c.dirty) -> IfStale(taken)
       [] ~c.stale /\ c.dirty -> Background(taken)
       [] OTHER -> taken

\* replace_authoritative_tree; a tab that is gone takes its title along.
Shows(job, next) ==
  LET gone == HasTab(app.tree) /\ ~HasTab(job.tree)
      title == IF gone THEN NoTitle ELSE ingress.title
  IN /\ app' = [next EXCEPT
          !.tree = job.tree,
          !.title = IF HasTab(job.tree) /\ title # NoTitle THEN title
                    ELSE job.title]
     /\ ingress' = [ingress EXCEPT !.title = title, !.dirty = @ /\ ~gone]

\* The parts of a turn of the application that it leaves alone.
Else == <<daemonVars, cache, recovery, local, forwarder, holder, mutation, spent>>
Turn(kind) == chan # <<>> /\ Head(chan).kind = kind /\ chan' = Tail(chan)

HandleChange ==
  /\ Turn("tree") \/ Turn("layout")
  /\ client' = IF client.stale \/ Head(chan).kind = "layout" THEN IfStale(client)
               ELSE Background(client)
  /\ UNCHANGED <<Else, ingress, barrier, app>>

HandleTitles ==
  /\ Turn("titles")
  /\ ingress' = [ingress EXCEPT !.dirty = FALSE, !.wake = FALSE]
  /\ app' = IF ingress.dirty /\ HasTab(app.tree)
            THEN [app EXCEPT !.title = ingress.title] ELSE app
  /\ UNCHANGED <<Else, barrier, client>>

HandleCommitted ==
  /\ Turn("committed")
  /\ app' = [app EXCEPT !.layout = LayoutRetries]
  /\ client' = IfStale([client EXCEPT !.stale = TRUE])
  /\ UNCHANGED <<Else, ingress, barrier>>

\* Mutant: results count in the order of their arrival.
AcceptsAny(job) == job.ok

\* accept_refresh_sequence.
Accepts(job) == job.seq > app.seq
HandleRefreshed ==
  /\ Turn("refreshed")
  /\ LET job == Head(chan).job
         accepted == [app EXCEPT !.seq = job.seq]
         fresh == [accepted EXCEPT !.layout = 0, !.attempts = 0, !.retry = FALSE]
         again == app.layout > 0
         retries == app.attempts < BackgroundRetries
     IN CASE ~Accepts(job) -> UNCHANGED <<app, ingress, client>>
          [] Accepts(job) /\ job.ok ->
               Shows(job, fresh) /\ client' = Completed(client, TRUE)
          [] Accepts(job) /\ ~job.ok /\ job.identity ->
               /\ app' = [accepted EXCEPT !.layout = IF again THEN @ - 1 ELSE @]
               /\ client' = Completed([client EXCEPT !.stale = @ \/ again], again)
               /\ UNCHANGED ingress
          [] OTHER ->
               /\ app' = [accepted EXCEPT !.retry = retries,
                           !.attempts = IF retries THEN @ + 1 ELSE @]
               /\ client' = [client EXCEPT !.dirty = FALSE]
               /\ UNCHANGED ingress
  /\ UNCHANGED <<Else, barrier>>

HandleRecovered ==
  /\ Turn("recovered")
  /\ LET job == Head(chan).job
     IN IF Head(chan).barrier # barrier.now
        THEN UNCHANGED <<app, ingress, client, barrier>>
        ELSE IF job.ok THEN Shows(job, app) /\ UNCHANGED <<client, barrier>>
        ELSE /\ barrier' = [barrier EXCEPT !.now = 0]
             /\ client' = IfStale([client EXCEPT !.stale = TRUE])
             /\ UNCHANGED <<app, ingress>>
  /\ UNCHANGED Else

HandleComplete ==
  /\ Turn("complete")
  /\ barrier' = IF Head(chan).barrier = barrier.now
                THEN [barrier EXCEPT !.now = 0] ELSE barrier
  /\ UNCHANGED <<Else, ingress, client, app>>

RetryIsDue ==
  /\ app.retry /\ app' = [app EXCEPT !.retry = FALSE]
  /\ client' = Background(client)
  /\ UNCHANGED <<Else, ingress, barrier, chan>>

\* A key or a click that goes to the session.
Input ==
  /\ spent.inputs < MaxInputs /\ MaySpend
  /\ IfStale(client) # client /\ client' = IfStale(client)
  /\ spent' = [spent EXCEPT !.inputs = @ + 1]
  /\ UNCHANGED <<daemonVars, cache, recovery, local, forwarding, holder,
                 mutation, chan, app>>

AppStep ==
  \/ HandleChange \/ HandleTitles \/ HandleCommitted \/ HandleRefreshed
  \/ HandleRecovered \/ HandleComplete \/ RetryIsDue

TreeNext ==
  \/ \E event \in {Tree, Layout} : Change(event) \/ Mutate(event)
  \/ Retitle \/ MutationReturns \/ Read \/ ReadOverflow
  \/ Resubscribe \/ Resubscribed \/ ForwarderStep \/ AppStep \/ Input
  \/ \E job \in client.jobs : Refresh(job) \/ Fail(job)

(* Threads and the connection go on; the daemon and the user owe nothing,  *)
(* and no request need fail.                                               *)
TreeSpec == TreeInit /\ [][TreeNext]_treeVars
FairTreeSpec ==
  /\ TreeSpec
  /\ WF_treeVars(Read \/ ReadOverflow) /\ WF_treeVars(Resubscribe \/ Resubscribed)
  /\ WF_treeVars(MutationReturns)
  /\ WF_treeVars(ForwarderStep) /\ WF_treeVars(AppStep)
  /\ WF_treeVars(\E job \in client.jobs : Refresh(job))

(***************************************************************************)
(* Properties.                                                             *)
(***************************************************************************)
\* Nothing is under way: no event, no request, no answer and no retry.
Silent ==
  /\ stream = Fresh /\ recovery.at = "idle" /\ local = Fresh
  /\ forwarder.at = "run" /\ chan = <<>> /\ client.jobs = {}
  /\ mutation = "none" /\ ~app.retry

(* Lost titles are not made good on the screen: the ingress still holds an *)
(* older one, and reapply_mux_titles lays it over every tree that follows. *)
HeldOver == spent.lost /\ ingress.title # NoTitle /\ app.title = ingress.title
ScreenIsTrue ==
  /\ app.tree = server.tree /\ cache.title = server.title
  /\ app.title = server.title \/ HeldOver

(* When nothing is under way the application shows the tree and the title  *)
(* of the daemon, however the subscription overflowed and refreshes, their *)
(* answers and titles overtook each other.  Only a request that failed can *)
(* leave it wrong; unless events were lost too, the copy is then marked    *)
(* stale, so that the next key asks again, or the retries have run out,    *)
(* which a notice says.  It is about a client whose own mailbox held, and  *)
(* a title that the ingress holds over lost events may be an older one.    *)
QuietScreenIsTrue ==
  Silent /\ barrier.last = 0 /\ ~ScreenIsTrue =>
    /\ spent.failures > 0
    /\ client.stale \/ app.attempts = BackgroundRetries \/ spent.lost

(* The disagreement: that title too is the daemon's when no request failed. *)
QuietTitleIsTrue ==
  Silent /\ barrier.last = 0 /\ spent.failures = 0 => app.title = server.title

(* The disagreement: the tree is the daemon's after the mailbox of the     *)
(* client overflowed too, when no request failed (MuxSubscriptionRecovered *)
(* applies a tree that has no number, a refresh before it may come after). *)
QuietTreeIsTrue == Silent /\ spent.failures = 0 => app.tree = server.tree

(* The application never goes back to an older tree when the threads of    *)
(* two refreshes deliver in the other order (accept_refresh_sequence), as  *)
(* long as its own mailbox held: a recovery's tree has no number.          *)
ShownTreeNeverGoesBack ==
  [][barrier.last = 0 => app'.tree >= app.tree]_treeVars

(* The barrier that holds input back while the mailbox of the client is    *)
(* made good (mux_recovery_generation) comes down, also when the refresh   *)
(* of the recovery fails or the mailbox overflows again before its end.    *)
BarrierIsLowered == barrier.now # 0 ~> barrier.now = 0
=============================================================================
