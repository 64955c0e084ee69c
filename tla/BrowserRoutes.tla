--------------------------- MODULE BrowserRoutes ---------------------------
(***************************************************************************)
(* How the events of one Chrome connection reach the browser surfaces, and *)
(* how its end does: the ingress queue the reader fills (EventQueue of     *)
(* cmux-tui-cdp/client.rs), the bounded channel to the router thread, one  *)
(* route per surface, and the thread of the surface (browser.rs).          *)
(* Surfaces are started (bootstrap_surface_sync) and killed while events   *)
(* flow and while the connection or the runtime closes.                    *)
(*                                                                         *)
(* An event is numbered in the order in which Chrome sent it.  A "frame"   *)
(* replaces the frame of its surface that still waits; a "note" stands for *)
(* every event that is never replaced.                                     *)
(***************************************************************************)
EXTENDS Naturals, Sequences, SequencesExt

CONSTANTS
  Surfaces,
  IngressCapacity,  \* CDP_INGRESS_EVENT_CAPACITY
  OutputCapacity,   \* CDP_EVENT_QUEUE_CAPACITY, the channel
  RouteCapacity,    \* CDP_EVENT_QUEUE_CAPACITY, the route of a surface
  MaxEvents         \* bound: events of Chrome

ASSUME RoutesAssumption ==
  /\ {IngressCapacity, OutputCapacity, RouteCapacity} \subseteq Nat \ {0}
  /\ MaxEvents \in Nat

VARIABLES
  sent,      \* the events Chrome has sent, in order
  closed,    \* the connection is closed
  ingress,   \* the queue the reader fills
  output,    \* the channel from the reader to the router
  reader,    \* "running" or "stopped": the sender of the channel goes with it
  router,    \* "running" or "ended"
  hand,      \* the event the router delivers, to the route it looked up
  gone,      \* runtime.closed
  routes,    \* the surfaces in the maps of routes
  owed,      \* routes a close of the runtime has taken and not closed yet
  route,     \* per surface: its route
  boot,      \* per surface: where its bootstrap stands
  target,    \* per surface: "none", "open" or "closing" in Chrome
  session,   \* per surface: mark_live has stored its session
  dead, killer, \* per surface: the flag, and where kill stands
  thread,    \* per surface: "none", "running", "told" or "ended"
  got        \* per surface: the events its thread has handled

ingressVars == <<sent, closed, ingress, output, reader>>
routerVars == <<router, hand, gone, routes, owed>>
bootVars == <<boot, target, session>>
killVars == <<dead, killer>>
vars == <<ingressVars, routerVars, route, bootVars, killVars, thread, got>>

Event == [n : 1..MaxEvents, kind : {"frame", "note"}, of : Surfaces]
End == [n |-> 0, kind |-> "closed"]
Routes == [made : BOOLEAN, closed : BOOLEAN, events : Seq(Event \cup {End})]
NoRoute == [made |-> FALSE, closed |-> FALSE, events |-> <<>>]
OpenRoute == [made |-> TRUE, closed |-> FALSE, events |-> <<>>]
FailedRoute == [made |-> TRUE, closed |-> TRUE, events |-> <<End>>]
Boots == {"new", "created", "attached", "registered", "set-up", "live",
          "undoing", "failed", "over"}

Init ==
  /\ sent = <<>> /\ closed = FALSE /\ ingress = <<>> /\ output = <<>>
  /\ reader = "running"
  /\ router = "running" /\ hand = <<>> /\ gone = FALSE
  /\ routes = {} /\ owed = {}
  /\ route = [s \in Surfaces |-> NoRoute]
  /\ boot = [s \in Surfaces |-> "new"]
  /\ target = [s \in Surfaces |-> "none"]
  /\ session = [s \in Surfaces |-> FALSE]
  /\ dead = [s \in Surfaces |-> FALSE]
  /\ killer = [s \in Surfaces |-> "none"]
  /\ thread = [s \in Surfaces |-> "none"]
  /\ got = [s \in Surfaces |-> <<>>]

(***************************************************************************)
(* The ingress queue: push, close and drain_into.                          *)
(***************************************************************************)
Replaceable(e, f) == e.kind = "frame" /\ f.kind = "frame" /\ e.of = f.of

\* Mutant: the new frame takes the place of the old one in the queue.
PushedInPlace(queue, e) ==
  IF \E i \in 1..Len(queue) : Replaceable(e, queue[i])
  THEN [i \in 1..Len(queue) |-> IF Replaceable(e, queue[i]) THEN e ELSE queue[i]]
  ELSE Append(queue, e)

\* Push an event, without the waiting one it replaces: there is one at most.
Pushed(queue, e) ==
  LET replaced == {i \in 1..Len(queue) : Replaceable(e, queue[i])}
  IN Append(IF replaced = {} THEN queue
            ELSE RemoveAt(queue, CHOOSE i \in replaced : TRUE), e)

CloseConnection == closed' = TRUE /\ ingress' = <<End>>

\* dispatch_event: a queue that is full closes the connection.
Arrives(s, kind) ==
  /\ reader = "running" /\ ~closed /\ Len(sent) < MaxEvents
  /\ target[s] # "none"
  /\ LET e == [n |-> Len(sent) + 1, kind |-> kind, of |-> s]
     IN /\ sent' = Append(sent, e)
        /\ IF Len(Pushed(ingress, e)) <= IngressCapacity
           THEN ingress' = Pushed(ingress, e) /\ UNCHANGED closed
           ELSE CloseConnection
  /\ UNCHANGED <<output, reader, routerVars, route, bootVars, killVars, thread,
                 got>>

SocketEnds ==
  /\ reader = "running" /\ ~closed
  /\ CloseConnection
  /\ UNCHANGED <<sent, output, reader, routerVars, route, bootVars, killVars,
                 thread, got>>

DrainOne ==
  /\ reader = "running" /\ ingress # <<>> /\ Len(output) < OutputCapacity
  /\ output' = Append(output, Head(ingress))
  /\ ingress' = Tail(ingress)
  /\ UNCHANGED <<sent, closed, reader, routerVars, route, bootVars, killVars,
                 thread, got>>

\* After a close the reader drains once more, as far as the channel has
\* room: the Closed event may stay behind, and the router then learns of the
\* end by the channel.
ReaderStops ==
  /\ reader = "running" /\ closed
  /\ ingress = <<>> \/ Len(output) = OutputCapacity
  /\ reader' = "stopped"
  /\ UNCHANGED <<sent, closed, ingress, output, routerVars, route, bootVars,
                 killVars, thread, got>>

(***************************************************************************)
(* A route: deliver, close, and the end of all of them.                    *)
(***************************************************************************)
Delivered(r, e) ==
  CASE r.closed -> r
    [] ~r.closed /\ Len(Pushed(r.events, e)) <= RouteCapacity ->
         [r EXCEPT !.events = Pushed(@, e)]
    [] OTHER -> FailedRoute

CloseRoute(r) == IF r.closed THEN r ELSE FailedRoute

\* close_browser_runtime, under the lock of the routes.
CloseRuntime ==
  /\ gone' = TRUE
  /\ owed' = owed \cup routes
  /\ routes' = {}

\* ... and, the lock released, the routes one after the other.
CloseOwed(s) ==
  /\ s \in owed
  /\ owed' = owed \ {s}
  /\ route' = [route EXCEPT ![s] = CloseRoute(@)]
  /\ UNCHANGED <<ingressVars, router, hand, gone, routes, bootVars, killVars,
                 thread, got>>

Shutdown ==
  /\ ~gone
  /\ CloseRuntime
  /\ UNCHANGED <<ingressVars, router, hand, route, bootVars, killVars, thread,
                 got>>

(***************************************************************************)
(* The router thread.                                                      *)
(***************************************************************************)
RouterTakes ==
  /\ router = "running" /\ hand = <<>> /\ output # <<>>
  /\ LET e == Head(output)
     IN \/ /\ e = End
           /\ router' = "ended"
           /\ CloseRuntime
           /\ UNCHANGED hand
        \/ /\ e # End
           /\ hand' = IF e.of \in routes THEN <<e>> ELSE <<>>
           /\ UNCHANGED <<router, gone, owed, routes>>
  /\ output' = Tail(output)
  /\ UNCHANGED <<sent, closed, ingress, reader, route, bootVars, killVars,
                 thread, got>>

\* A route that is closed, or fails here, leaves the maps.
RouterDelivers ==
  /\ router = "running" /\ hand # <<>>
  /\ LET e == Head(hand)
         r == Delivered(route[e.of], e)
     IN /\ route' = [route EXCEPT ![e.of] = r]
        /\ routes' = IF r.closed THEN routes \ {e.of} ELSE routes
  /\ hand' = <<>>
  /\ UNCHANGED <<ingressVars, router, gone, owed, bootVars, killVars, thread,
                 got>>

\* Mutant: the end of the channel ends the thread and nothing else.
RouterJustEnds ==
  /\ router = "running" /\ hand = <<>> /\ output = <<>> /\ reader = "stopped"
  /\ router' = "ended"
  /\ UNCHANGED <<ingressVars, hand, gone, routes, owed, route, bootVars,
                 killVars, thread, got>>

RouterSeesEnd ==
  /\ router = "running" /\ hand = <<>> /\ output = <<>> /\ reader = "stopped"
  /\ router' = "ended"
  /\ CloseRuntime
  /\ UNCHANGED <<ingressVars, hand, route, bootVars, killVars, thread, got>>

(***************************************************************************)
(* The bootstrap of a surface.  Every call may fail, and does once the     *)
(* connection is closed.                                                   *)
(***************************************************************************)
BootGoes(s, where) == boot' = [boot EXCEPT ![s] = where]

CreateTarget(s) ==
  /\ boot[s] = "new"
  /\ \/ ~gone /\ ~closed /\ BootGoes(s, "created")
        /\ target' = [target EXCEPT ![s] = "open"]
     \/ BootGoes(s, "failed") /\ UNCHANGED target
  /\ UNCHANGED <<ingressVars, routerVars, route, session, killVars, thread,
                 got>>

AttachTarget(s) ==
  /\ boot[s] = "created"
  /\ BootGoes(s, "failed") \/ (~closed /\ BootGoes(s, "attached"))
  /\ UNCHANGED <<ingressVars, routerVars, route, target, session, killVars,
                 thread, got>>

\* Mutant: the flag of the runtime is not looked at under the lock.
RegisterAnyway(s) ==
  /\ boot[s] = "attached"
  /\ BootGoes(s, "registered")
  /\ routes' = routes \cup {s}
  /\ route' = [route EXCEPT ![s] = OpenRoute]
  /\ UNCHANGED <<ingressVars, router, hand, gone, owed, target, session,
                 killVars, thread, got>>

Register(s) ==
  /\ boot[s] = "attached"
  /\ BootGoes(s, "registered")
  /\ IF gone
     THEN /\ route' = [route EXCEPT ![s] = FailedRoute]
          /\ UNCHANGED routes
     ELSE /\ routes' = routes \cup {s}
          /\ route' = [route EXCEPT ![s] = OpenRoute]
  /\ UNCHANGED <<ingressVars, router, hand, gone, owed, target, session,
                 killVars, thread, got>>

\* The calls of setup_attached_surface; the surface may be dead before or
\* after them.
SetUp(s) ==
  /\ boot[s] = "registered"
  /\ \/ ~dead[s] /\ ~closed /\ BootGoes(s, "set-up")
     \/ BootGoes(s, "undoing")
  /\ UNCHANGED <<ingressVars, routerVars, route, target, session, killVars,
                 thread, got>>

\* Mutant: mark_live does not look whether the surface has died.
MarkLiveAnyway(s) ==
  /\ boot[s] = "set-up" /\ killer[s] # "session"
  /\ BootGoes(s, "live")
  /\ session' = [session EXCEPT ![s] = TRUE]
  /\ UNCHANGED <<ingressVars, routerVars, route, target, killVars, thread, got>>

\* mark_live looks at the dead flag under the lock of the session, which
\* kill holds while it takes the session.
MarkLive(s) ==
  /\ boot[s] = "set-up" /\ killer[s] # "session"
  /\ IF dead[s]
     THEN BootGoes(s, "undoing") /\ UNCHANGED session
     ELSE BootGoes(s, "live") /\ session' = [session EXCEPT ![s] = TRUE]
  /\ UNCHANGED <<ingressVars, routerVars, route, target, killVars, thread, got>>

StartThread(s) ==
  /\ boot[s] = "live"
  /\ BootGoes(s, "over")
  /\ thread' = [thread EXCEPT ![s] = "running"]
  /\ UNCHANGED <<ingressVars, routerVars, route, target, session, killVars, got>>

Unregister(s) ==
  /\ routes' = routes \ {s}
  /\ route' = IF s \in routes THEN [route EXCEPT ![s] = CloseRoute(@)] ELSE route

Closing(s) ==
  target' = [target EXCEPT ![s] =
               IF @ = "open" /\ ~closed THEN "closing" ELSE @]

\* A setup that failed: unregister, then close the target.
UndoBoot(s) ==
  /\ boot[s] = "undoing"
  /\ BootGoes(s, "failed")
  /\ Unregister(s)
  /\ Closing(s)
  /\ UNCHANGED <<ingressVars, router, hand, gone, owed, session, killVars,
                 thread, got>>

BootStep(s) ==
  \/ CreateTarget(s) \/ AttachTarget(s) \/ Register(s) \/ SetUp(s)
  \/ MarkLive(s) \/ StartThread(s) \/ UndoBoot(s)

(***************************************************************************)
(* kill, by a user, by the shutdown or by the thread of the surface: the   *)
(* flag, the session, the route, and the target unless the runtime is gone.*)
(***************************************************************************)
Kill(s) ==
  /\ ~dead[s]
  /\ dead' = [dead EXCEPT ![s] = TRUE]
  /\ killer' = [killer EXCEPT ![s] = "flagged"]
  /\ UNCHANGED <<ingressVars, routerVars, route, bootVars, thread, got>>

TakeSession(s) ==
  /\ killer[s] = "flagged"
  /\ session' = [session EXCEPT ![s] = FALSE]
  /\ IF session[s]
     THEN killer' = [killer EXCEPT ![s] = "session"] /\ Unregister(s)
     ELSE killer' = [killer EXCEPT ![s] = "over"] /\ UNCHANGED <<routes, route>>
  /\ UNCHANGED <<ingressVars, router, hand, gone, owed, boot, target, dead,
                 thread, got>>

CloseTarget(s) ==
  /\ killer[s] = "session"
  /\ killer' = [killer EXCEPT ![s] = "over"]
  /\ IF gone THEN UNCHANGED target ELSE Closing(s)
  /\ UNCHANGED <<ingressVars, routerVars, route, boot, session, dead, thread,
                 got>>

KillStep(s) == TakeSession(s) \/ CloseTarget(s)

(***************************************************************************)
(* The thread of a surface: recv, and the end it is told of.               *)
(***************************************************************************)
Handle(s) ==
  /\ thread[s] = "running" /\ route[s].events # <<>>
  /\ LET e == Head(route[s].events)
     IN IF e = End
        THEN thread' = [thread EXCEPT ![s] = "told"] /\ UNCHANGED got
        ELSE got' = [got EXCEPT ![s] = Append(@, e)] /\ UNCHANGED thread
  /\ route' = [route EXCEPT ![s].events = Tail(@)]
  /\ UNCHANGED <<ingressVars, routerVars, bootVars, killVars>>

\* browser.kill, of which another thread may be in the middle, and
\* mux.surface_exited.
ThreadEnds(s) ==
  /\ thread[s] = "told"
  /\ dead[s] /\ thread' = [thread EXCEPT ![s] = "ended"]
  /\ UNCHANGED <<ingressVars, routerVars, route, bootVars, killVars, got>>

ThreadKills(s) == thread[s] = "told" /\ Kill(s)

ThreadStep(s) == Handle(s) \/ ThreadKills(s) \/ ThreadEnds(s)

Next ==
  \/ \E s \in Surfaces :
       \/ \E kind \in {"frame", "note"} : Arrives(s, kind)
       \/ CloseOwed(s) \/ BootStep(s) \/ Kill(s) \/ KillStep(s) \/ ThreadStep(s)
  \/ SocketEnds \/ DrainOne \/ ReaderStops \/ Shutdown
  \/ RouterTakes \/ RouterDelivers \/ RouterSeesEnd

Spec == Init /\ [][Next]_vars

(***************************************************************************)
(* Threads run: calls end, as CdpConnection shows.  Chrome, the socket and *)
(* the users are not fair.                                                 *)
(***************************************************************************)
FairSpec ==
  /\ Spec
  /\ WF_vars(DrainOne \/ ReaderStops)
  /\ WF_vars(RouterTakes \/ RouterDelivers \/ RouterSeesEnd)
  /\ \A s \in Surfaces :
       /\ WF_vars(CloseOwed(s)) /\ WF_vars(BootStep(s))
       /\ WF_vars(KillStep(s)) /\ WF_vars(ThreadStep(s))

(***************************************************************************)
(* Properties.                                                             *)
(***************************************************************************)
(* Every variable has its type.                                            *)
TypeOK ==
  /\ sent \in Seq(Event) /\ closed \in BOOLEAN /\ gone \in BOOLEAN
  /\ ingress \in Seq(Event \cup {End}) /\ output \in Seq(Event \cup {End})
  /\ reader \in {"running", "stopped"} /\ router \in {"running", "ended"}
  /\ hand \in {<<>>} \cup {<<e>> : e \in Event}
  /\ routes \subseteq Surfaces /\ owed \subseteq Surfaces
  /\ route \in [Surfaces -> Routes]
  /\ boot \in [Surfaces -> Boots]
  /\ target \in [Surfaces -> {"none", "open", "closing"}]
  /\ session \in [Surfaces -> BOOLEAN] /\ dead \in [Surfaces -> BOOLEAN]
  /\ killer \in [Surfaces -> {"none", "flagged", "session", "over"}]
  /\ thread \in [Surfaces -> {"none", "running", "told", "ended"}]
  /\ got \in [Surfaces -> Seq(Event)]

(***************************************************************************)
(* The queues stay within their capacities.                                *)
(***************************************************************************)
QueuesAreBounded ==
  /\ Len(ingress) <= IngressCapacity /\ Len(output) <= OutputCapacity
  /\ \A s \in Surfaces : Len(route[s].events) <= RouteCapacity

(***************************************************************************)
(* Whatever order a bootstrap, a kill, a failing route and a close of the  *)
(* runtime take, a route that is still open is in the maps, or, once the   *)
(* runtime is gone, the close that took it from there is about to close    *)
(* it: no surface waits on a route nobody holds.                           *)
(***************************************************************************)
OpenRouteIsHeld ==
  \A s \in Surfaces :
    route[s].made /\ ~route[s].closed => s \in IF gone THEN owed ELSE routes

(***************************************************************************)
(* A surface that is dead, whose bootstrap and kill are both through, has  *)
(* no route left in the maps, and its attached target has been told to     *)
(* close unless the connection or the runtime is gone.                     *)
(***************************************************************************)
KilledSurfaceIsCleared ==
  \A s \in Surfaces :
    killer[s] = "over" /\ boot[s] \in {"failed", "over"} =>
      /\ s \notin routes
      /\ route[s].made /\ ~closed /\ ~gone => target[s] = "closing"

(***************************************************************************)
(* Through two queues that replace frames, a surface handles what Chrome   *)
(* sent in the order Chrome sent it, and between two events it handled no  *)
(* note is missing.                                                        *)
(***************************************************************************)
EventsInOrder ==
  \A s \in Surfaces : \A i \in 1..Len(got[s]) - 1 :
    /\ got[s][i].n < got[s][i + 1].n
    /\ \A n \in got[s][i].n + 1 .. got[s][i + 1].n - 1 :
         sent[n].of = s => sent[n].kind = "frame"

(***************************************************************************)
(* When the connection or the runtime closes, every surface learns of it:  *)
(* its thread ends and it is dead, or its bootstrap fails.  The Closed     *)
(* event may be lost on the way.                                           *)
(***************************************************************************)
EndIsTold ==
  \A s \in Surfaces :
    closed \/ gone ~>
      \/ boot[s] \in {"new", "failed"}
      \/ dead[s] /\ thread[s] = "ended"
=============================================================================
