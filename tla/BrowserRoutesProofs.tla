------------------------- MODULE BrowserRoutesProofs -------------------------
(***************************************************************************)
(* What holds of the routes of the browser surfaces, for any number of     *)
(* surfaces and events and any capacities of the three queues.             *)
(*                                                                         *)
(* The maps: a route that is open is in the maps of the runtime or is owed *)
(* a close (MapsHoldOpenRoutes), and where the bootstrap and the kill of a *)
(* surface stand says which of its route, its session and its target are   *)
(* left (BootAndKill).                                                     *)
(*                                                                         *)
(* The order: the stages of an event's way, from the reader's queue to the *)
(* surface, hold numbers that follow each other (InOrder); every stage is  *)
(* a queue that only a frame can leave from the middle.                    *)
(*                                                                         *)
(* The notes: what a surface has handled and what may still reach it is    *)
(* its line.  A note that is not in the line lies before all of it, or     *)
(* after all of it (Kept).  The second is possible only when nothing more  *)
(* can be added behind it: otherwise a later event would join the line and *)
(* leave a hole, which is why the invariant says NoneLost as long as the   *)
(* connection is open and the surface is reachable.                        *)
(***************************************************************************)
EXTENDS BrowserRoutes, SequenceTheorems, TLAPS

-----------------------------------------------------------------------------
(* The inductive invariant.                                                *)

(* The events that wait in a queue.                                        *)
Waiting(queue) == {queue[i] : i \in 1..Len(queue)} \ {End}
Of(events, s) == {e \in events : e.of = s}
InHand == Waiting(hand)

(* The router can still deliver to a surface that is not registered yet,   *)
(* or that is in the maps.                                                 *)
Unregistered == {"new", "created", "attached"}
Reachable(s) == boot[s] \in Unregistered \/ s \in routes

(* The events a surface has handled or may still handle.                   *)
Handled(s) == Waiting(got[s])
Arrived(s) == Waiting(route[s].events)
Routed(s) == IF route[s].closed THEN {}
             ELSE Arrived(s) \cup Of(InHand, s)
Queued == Waiting(output) \cup Waiting(ingress)
Coming(s) == IF Reachable(s) THEN Of(Queued, s) ELSE {}
Line(s) == Handled(s) \cup Routed(s) \cup Coming(s)

Before(A, B) == \A x \in A, y \in B : x.n < y.n
Ordered(queue) ==
  \A i, j \in 1..Len(queue) :
    i < j /\ queue[i] # End /\ queue[j] # End => queue[i].n < queue[j].n

(* Every event on its way is one that was sent.                            *)
Genuine(events) == \A e \in events : e.n \in 1..Len(sent) /\ sent[e.n] = e

(* The stages of the way follow each other in the order of the numbers:    *)
(* the reader's queue after the channel, after what the router holds ...   *)
Underway == InHand \cup Queued
RouterInOrder ==
  /\ Ordered(ingress) /\ Ordered(output)
  /\ Before(Waiting(output), Waiting(ingress))
  /\ Before(InHand, Queued)
  /\ Genuine(Underway)
  /\ \A i \in 1..Len(sent) : sent[i].n = i

(* ... after the route of a surface, after what its thread has handled.    *)
SurfaceInOrder(s) ==
  /\ Ordered(got[s]) /\ Ordered(route[s].events)
  /\ Before(Handled(s), Arrived(s))
  /\ Before(Handled(s) \cup Arrived(s), Underway)
  /\ Genuine(Handled(s) \cup Arrived(s))
  /\ \A e \in Handled(s) \cup Arrived(s) : e.of = s
InOrder == RouterInOrder /\ \A s \in Surfaces : SurfaceInOrder(s)

(* A note is still in line for its surface, or it was dropped before the   *)
(* first event of the line or after the last; after the last only when the *)
(* connection is closed or no more events can come.                        *)
Kept(notes, line) ==
  \A e \in notes : e \in line \/ Before({e}, line) \/ Before(line, {e})
NoneLost(notes, line) == \A e \in notes : e \in line \/ Before({e}, line)
Notes(s) == {e \in Of(Waiting(sent), s) : e.kind = "note"}
NotesKept(s) ==
  /\ Kept(Notes(s), Line(s))
  /\ ~closed /\ Reachable(s) => NoneLost(Notes(s), Line(s))
NotesAreKept == \A s \in Surfaces : NotesKept(s)

(* The maps hold open routes only, and none once the runtime is gone.      *)
MapsHoldOpenRoutes ==
  /\ gone => routes = {}
  /\ owed # {} => gone
  /\ \A s \in owed : route[s].made
  /\ \A s \in routes : route[s].made /\ ~route[s].closed
  /\ \A e \in InHand : route[e.of].made
  /\ \A s \in Surfaces :
       /\ ~route[s].made => route[s] = NoRoute /\ got[s] = <<>>
       /\ boot[s] \in Unregistered => ~route[s].made
       /\ ~route[s].made => boot[s] \in Unregistered \cup {"failed"}
       /\ route[s].closed => Waiting(route[s].events) = {}

(* Where the bootstrap and the kill of a surface have left its target, its *)
(* session and its route.                                                  *)
Begun == Boots \ {"new", "failed"}
BootAndKill ==
  \A s \in Surfaces :
    /\ dead[s] <=> killer[s] # "none"
    /\ boot[s] \in Begun => target[s] # "none"
    /\ session[s] <=>
         boot[s] \in {"live", "over"} /\ killer[s] \in {"none", "flagged"}
    /\ killer[s] = "session" => boot[s] \in {"live", "over"}
    /\ killer[s] \in {"session", "over"} /\ boot[s] \in {"live", "over"} =>
         s \notin routes
    /\ killer[s] = "over" /\ boot[s] \in {"live", "over"} /\ ~closed /\ ~gone =>
         target[s] = "closing"
    /\ boot[s] = "failed" =>
         /\ s \notin routes
         /\ route[s].made /\ ~closed /\ ~gone => target[s] = "closing"

HeldInv == TypeOK /\ MapsHoldOpenRoutes /\ OpenRouteIsHeld /\ BootAndKill
RoutesInv == HeldInv /\ InOrder /\ NotesAreKept

-----------------------------------------------------------------------------
(* The queues.                                                             *)

Queues == Seq(Event \cup {End})

LEMMA EventFacts ==
  /\ End \notin Event
  /\ \A e \in Event : e.n \in 1..MaxEvents /\ e.of \in Surfaces
                        /\ e.kind \in {"frame", "note"}
BY DEF Event, End

LEMMA ShortQueues ==
  /\ <<>> \in Queues /\ Waiting(<<>>) = {} /\ Ordered(<<>>) /\ Len(<<>>) = 0
  /\ <<End>> \in Queues /\ Waiting(<<End>>) = {} /\ Ordered(<<End>>)
  /\ Len(<<End>>) = 1
  /\ \A e \in Event : Waiting(<<e>>) = {e}
<1>1. \A e : <<e>>[1] = e /\ Len(<<e>>) = 1
  OBVIOUS
<1>2. <<>> \in Queues /\ <<End>> \in Queues /\ Len(<<>>) = 0
  BY DEF Queues
<1>3. Waiting(<<>>) = {} /\ Ordered(<<>>)
  BY DEF Waiting, Ordered
<1>4. Waiting(<<End>>) = {} /\ Ordered(<<End>>)
  BY <1>1 DEF Waiting, Ordered
<1>5. ASSUME NEW e \in Event PROVE Waiting(<<e>>) = {e}
  BY <1>1, EventFacts DEF Waiting
<1> QED
  BY <1>1, <1>2, <1>3, <1>4, <1>5

(* An event at the end of a queue.                                         *)
LEMMA AppendFacts ==
  ASSUME NEW q \in Queues, NEW e \in Event \cup {End}
  PROVE  /\ Append(q, e) \in Queues /\ Len(Append(q, e)) = Len(q) + 1
         /\ Waiting(Append(q, e)) = Waiting(q) \cup ({e} \ {End})
         /\ Ordered(q) /\ (e # End => Before(Waiting(q), {e})) =>
              Ordered(Append(q, e))
<1> DEFINE a == Append(q, e)
<1>1. /\ a \in Queues /\ Len(a) = Len(q) + 1 /\ Len(q) \in Nat
      /\ \A i \in 1..Len(q) : a[i] = q[i]
      /\ a[Len(q) + 1] = e
  BY AppendProperties, LenProperties DEF Queues
<1>2. Waiting(a) = Waiting(q) \cup ({e} \ {End})
  <2>1. 1..Len(a) = (1..Len(q)) \cup {Len(q) + 1}
    BY <1>1
  <2> QED
    BY <1>1, <2>1 DEF Waiting
<1>3. ASSUME Ordered(q), e # End => Before(Waiting(q), {e})
      PROVE  Ordered(a)
  <2> SUFFICES ASSUME NEW i \in 1..Len(a), NEW j \in 1..Len(a),
                      i < j, a[i] # End, a[j] # End
               PROVE  a[i].n < a[j].n
    BY DEF Ordered
  <2>1. i \in 1..Len(q) /\ a[i] = q[i]
    BY <1>1
  <2>2. CASE j \in 1..Len(q)
    BY <1>1, <1>3, <2>1, <2>2 DEF Ordered
  <2>3. CASE j = Len(q) + 1
    BY <1>1, <1>3, <2>1, <2>3 DEF Waiting, Before
  <2> QED
    BY <1>1, <2>2, <2>3
<1> QED
  BY <1>1, <1>2, <1>3

(* The head of a queue and what waits behind it.                           *)
LEMMA TailFacts ==
  ASSUME NEW q \in Queues, q # <<>>
  PROVE  /\ Head(q) \in Event \cup {End} /\ Tail(q) \in Queues
         /\ Len(Tail(q)) <= Len(q) /\ Len(q) \in Nat /\ Len(Tail(q)) \in Nat
         /\ Waiting(q) = ({Head(q)} \ {End}) \cup Waiting(Tail(q))
         /\ Ordered(q) => /\ Ordered(Tail(q))
                          /\ Head(q) # End =>
                               Before({Head(q)}, Waiting(Tail(q)))
<1> DEFINE t == Tail(q)
<1>1. /\ Head(q) = q[1] /\ Head(q) \in Event \cup {End} /\ t \in Queues
      /\ Len(t) = Len(q) - 1 /\ Len(q) \in Nat /\ Len(t) \in Nat
      /\ \A i \in 1..Len(t) : t[i] = q[i + 1]
  BY HeadTailProperties, LenProperties DEF Queues
<1>2. Waiting(q) = ({Head(q)} \ {End}) \cup Waiting(t)
  <2>1. \A i \in 1..Len(q) : i = 1 \/ (i - 1 \in 1..Len(t) /\ t[i - 1] = q[i])
    BY <1>1
  <2>2. \A i \in 1..Len(t) : i + 1 \in 1..Len(q)
    BY <1>1
  <2>3. 1 \in 1..Len(q)
    BY <1>1
  <2>4. ASSUME NEW x \in Waiting(q)
        PROVE  x \in ({Head(q)} \ {End}) \cup Waiting(t)
    BY <1>1, <2>1 DEF Waiting
  <2>5. ASSUME NEW x \in ({Head(q)} \ {End}) \cup Waiting(t)
        PROVE  x \in Waiting(q)
    BY <1>1, <2>2, <2>3 DEF Waiting
  <2> QED
    BY <2>4, <2>5
<1>3. ASSUME Ordered(q) PROVE Ordered(t)
  <2> SUFFICES ASSUME NEW i \in 1..Len(t), NEW j \in 1..Len(t),
                      i < j, t[i] # End, t[j] # End
               PROVE  t[i].n < t[j].n
    BY DEF Ordered
  <2>1. i + 1 \in 1..Len(q) /\ j + 1 \in 1..Len(q) /\ i + 1 < j + 1
    BY <1>1
  <2> QED
    BY <1>1, <1>3, <2>1 DEF Ordered
<1>4. ASSUME Ordered(q), Head(q) # End, NEW y \in Waiting(t)
      PROVE  Head(q).n < y.n
  <2>1. PICK j \in 1..Len(t) : y = t[j] /\ y # End
    BY DEF Waiting
  <2>2. 1 \in 1..Len(q) /\ j + 1 \in 1..Len(q) /\ 1 < j + 1
    BY <1>1
  <2> QED
    BY <1>1, <1>4, <2>1, <2>2 DEF Ordered
<1> QED
  BY <1>1, <1>2, <1>3, <1>4 DEF Before

(* A queue without the event at one of its places.                         *)
LEMMA RemoveFacts ==
  ASSUME NEW q \in Queues, NEW i \in 1..Len(q)
  PROVE  /\ RemoveAt(q, i) \in Queues /\ Len(RemoveAt(q, i)) = Len(q) - 1
         /\ Waiting(RemoveAt(q, i)) \subseteq Waiting(q)
         /\ Waiting(q) \subseteq Waiting(RemoveAt(q, i)) \cup {q[i]}
         /\ Ordered(q) => Ordered(RemoveAt(q, i))
<1> DEFINE r == RemoveAt(q, i)
           a == SubSeq(q, 1, i - 1)
           b == SubSeq(q, i + 1, Len(q))
<1>0. Len(q) \in Nat /\ \A k \in 1..Len(q) : q[k] \in Event \cup {End}
  BY LenProperties, ElementOfSeq DEF Queues
<1>1. /\ a \in Queues /\ Len(a) = i - 1
      /\ \A k \in 1..i - 1 : a[k] = q[k]
  <2>1. i - 1 \in Int /\ \A k \in 1..i - 1 : q[k] \in Event \cup {End}
    BY <1>0
  <2>2. /\ a \in Queues /\ Len(a) = IF 1 <= i - 1 THEN i - 1 - 1 + 1 ELSE 0
        /\ \A k \in 1..i - 1 - 1 + 1 : a[k] = q[1 + k - 1]
    BY <2>1, SubSeqProperties DEF Queues
  <2> QED
    BY <2>2, <1>0
<1>2. /\ b \in Queues /\ Len(b) = Len(q) - i
      /\ \A k \in 1..Len(q) - i : b[k] = q[k + i]
  <2>1. /\ i + 1 \in Int /\ Len(q) \in Int
        /\ \A k \in i + 1..Len(q) : q[k] \in Event \cup {End}
    BY <1>0
  <2>2. /\ b \in Queues
        /\ Len(b) = IF i + 1 <= Len(q) THEN Len(q) - (i + 1) + 1 ELSE 0
        /\ \A k \in 1..Len(q) - (i + 1) + 1 : b[k] = q[i + 1 + k - 1]
    BY <2>1, SubSeqProperties DEF Queues
  <2> QED
    BY <2>2, <1>0
<1>3. r = a \o b
  BY DEF RemoveAt
<1> HIDE DEF r, a, b
<1>4. /\ r \in Queues /\ Len(r) = Len(q) - 1
      /\ \A k \in 1..Len(r) : r[k] = IF k < i THEN q[k] ELSE q[k + 1]
  <2>1. /\ r \in Queues /\ Len(r) = Len(a) + Len(b)
        /\ \A k \in 1..Len(a) + Len(b) :
             r[k] = IF k <= Len(a) THEN a[k] ELSE b[k - Len(a)]
    BY <1>1, <1>2, <1>3, ConcatProperties DEF Queues
  <2>2. Len(r) = Len(q) - 1
    BY <1>0, <1>1, <1>2, <2>1
  <2>3. ASSUME NEW k \in 1..Len(r)
        PROVE  r[k] = IF k < i THEN q[k] ELSE q[k + 1]
    <3>1. CASE k < i
      BY <1>0, <1>1, <1>2, <2>1, <2>2, <3>1
    <3>2. CASE ~(k < i)
      <4>1. k - (i - 1) \in 1..Len(q) - i /\ k - (i - 1) + i = k + 1
        BY <1>0, <1>1, <1>2, <2>1, <2>2, <3>2
      <4>2. r[k] = b[k - (i - 1)]
        BY <1>0, <1>1, <1>2, <2>1, <2>2, <3>2
      <4> QED
        BY <1>2, <4>1, <4>2, <3>2
    <3> QED
      BY <3>1, <3>2
  <2> QED
    BY <2>1, <2>2, <2>3
<1>5. Waiting(r) \subseteq Waiting(q)
  <2>1. \A k \in 1..Len(r) : k \in 1..Len(q) /\ k + 1 \in 1..Len(q)
    BY <1>0, <1>4
  <2> QED
    BY <1>4, <2>1 DEF Waiting
<1>6. Waiting(q) \subseteq Waiting(r) \cup {q[i]}
  <2> SUFFICES ASSUME NEW k \in 1..Len(q), q[k] # End, k # i
               PROVE  q[k] \in Waiting(r)
    BY DEF Waiting
  <2>1. CASE k < i
    <3>1. k \in 1..Len(r) /\ r[k] = q[k]
      BY <1>0, <1>4, <2>1
    <3> QED
      BY <3>1 DEF Waiting
  <2>2. CASE k > i
    <3>1. k - 1 \in 1..Len(r) /\ r[k - 1] = q[k]
      BY <1>0, <1>4, <2>2
    <3> QED
      BY <3>1 DEF Waiting
  <2> QED
    BY <2>1, <2>2
<1>7. ASSUME Ordered(q) PROVE Ordered(r)
  <2> SUFFICES ASSUME NEW k \in 1..Len(r), NEW j \in 1..Len(r),
                      k < j, r[k] # End, r[j] # End
               PROVE  r[k].n < r[j].n
    BY DEF Ordered
  <2>1. PICK x \in 1..Len(q), y \in 1..Len(q) :
          r[k] = q[x] /\ r[j] = q[y] /\ x < y
    <3>1. CASE j < i
      BY <1>0, <1>4, <3>1
    <3>2. CASE k < i /\ ~(j < i)
      <4>1. r[k] = q[k] /\ r[j] = q[j + 1] /\ k < j + 1
            /\ k \in 1..Len(q) /\ j + 1 \in 1..Len(q)
        BY <1>0, <1>4, <3>2
      <4> QED
        BY <4>1
    <3>3. CASE ~(k < i)
      <4>1. r[k] = q[k + 1] /\ r[j] = q[j + 1] /\ k + 1 < j + 1
            /\ k + 1 \in 1..Len(q) /\ j + 1 \in 1..Len(q)
        BY <1>0, <1>4, <3>3
      <4> QED
        BY <4>1
    <3> QED
      BY <3>1, <3>2, <3>3
  <2> QED
    BY <1>7, <2>1 DEF Ordered
<1> QED
  BY <1>4, <1>5, <1>6, <1>7 DEF r

(* What a push leaves of a queue: only a frame the event replaces is lost. *)
LEMMA PushedFacts ==
  ASSUME NEW q \in Queues, NEW e \in Event
  PROVE  /\ Pushed(q, e) \in Queues
         /\ Ordered(q) /\ Before(Waiting(q), {e}) => Ordered(Pushed(q, e))
         /\ Waiting(Pushed(q, e)) \subseteq Waiting(q) \cup {e}
         /\ e \in Waiting(Pushed(q, e))
         /\ \A x \in Waiting(q) \ Waiting(Pushed(q, e)) : x.kind = "frame"
<1> DEFINE replaced == {i \in 1..Len(q) : Replaceable(e, q[i])}
           index == CHOOSE i \in replaced : TRUE
           r == IF replaced = {} THEN q ELSE RemoveAt(q, index)
<1>1. Pushed(q, e) = Append(r, e)
  BY DEF Pushed
<1>2. /\ r \in Queues /\ Waiting(r) \subseteq Waiting(q)
      /\ Ordered(q) => Ordered(r)
      /\ \A x \in Waiting(q) \ Waiting(r) : x.kind = "frame"
  <2>1. CASE replaced = {}
    BY <2>1
  <2>2. CASE replaced # {}
    <3>1. index \in replaced
      BY <2>2
    <3> HIDE DEF index
    <3>2. index \in 1..Len(q) /\ q[index].kind = "frame"
      BY <3>1 DEF Replaceable
    <3>3. r = RemoveAt(q, index)
      BY <2>2 DEF index
    <3> HIDE DEF r
    <3> QED
      BY <3>2, <3>3, RemoveFacts
  <2> QED
    BY <2>1, <2>2
<1> HIDE DEF r
<1>3. e # End /\ (Before(Waiting(q), {e}) => Before(Waiting(r), {e}))
  BY <1>2, EventFacts DEF Before
<1>4. /\ Append(r, e) \in Queues
      /\ Ordered(r) /\ Before(Waiting(r), {e}) => Ordered(Append(r, e))
      /\ Waiting(Append(r, e)) = Waiting(r) \cup {e}
  BY <1>2, <1>3, AppendFacts
<1> QED
  BY <1>1, <1>2, <1>3, <1>4

(* The routes a step can leave.                                            *)
LEMMA RouteFacts ==
  /\ NoRoute \in Routes /\ ~NoRoute.made /\ ~NoRoute.closed
  /\ NoRoute.events = <<>>
  /\ FailedRoute \in Routes /\ FailedRoute.made /\ FailedRoute.closed
  /\ FailedRoute.events = <<End>>
  /\ OpenRoute \in Routes /\ OpenRoute.made /\ ~OpenRoute.closed
  /\ OpenRoute.events = <<>>
BY ShortQueues DEF NoRoute, OpenRoute, FailedRoute, Routes, Queues

LEMMA DeliveredFacts ==
  ASSUME NEW r \in Routes, NEW e \in Event
  PROVE  LET d == Delivered(r, e)
         IN /\ d \in Routes
            /\ \/ r.closed /\ d = r
               \/ /\ ~r.closed /\ d.made = r.made /\ ~d.closed
                  /\ d.events = Pushed(r.events, e)
                  /\ Len(d.events) <= RouteCapacity
               \/ ~r.closed /\ d = FailedRoute
<1>1. Pushed(r.events, e) \in Queues
  BY PushedFacts DEF Routes, Queues
<1> QED
  BY <1>1, RouteFacts DEF Delivered, Routes, Queues

LEMMA CloseRouteFacts ==
  ASSUME NEW r \in Routes
  PROVE  /\ CloseRoute(r) \in Routes /\ CloseRoute(r).closed
         /\ r.closed => CloseRoute(r) = r
         /\ ~r.closed => CloseRoute(r) = FailedRoute
BY RouteFacts DEF CloseRoute

-----------------------------------------------------------------------------
(* Types and bounds.                                                       *)

LEMMA InitTypes == Init => TypeOK
<1> SUFFICES ASSUME Init PROVE TypeOK
  OBVIOUS
<1>1. <<>> \in Seq(Event \cup {End}) /\ <<>> \in Seq(Event)
  OBVIOUS
<1>2. NoRoute \in Routes
  BY RouteFacts
<1> QED
  BY <1>1, <1>2 DEF Init, TypeOK, Boots

LEMMA CallTypes ==
  ASSUME TypeOK, NEW s \in Surfaces,
         BootStep(s) \/ Kill(s) \/ KillStep(s) \/ ThreadStep(s) \/ CloseOwed(s)
  PROVE  TypeOK'
<1> USE DEF TypeOK
<1>1. route[s] \in Routes /\ CloseRoute(route[s]) \in Routes
  BY CloseRouteFacts
<1>2. CASE CreateTarget(s)
  BY <1>2 DEF CreateTarget, BootGoes, Boots, ingressVars, routerVars, killVars
<1>3. CASE AttachTarget(s)
  BY <1>3 DEF AttachTarget, BootGoes, Boots, ingressVars, routerVars, killVars
<1>4. CASE Register(s)
  <2>1. route' \in [Surfaces -> Routes] /\ routes' \subseteq Surfaces
    <3>1. /\ \/ route' = [route EXCEPT ![s] = FailedRoute]
             \/ route' = [route EXCEPT ![s] = OpenRoute]
          /\ routes' \in {routes, routes \cup {s}}
      BY <1>4 DEF Register
    <3> QED
      BY <3>1, RouteFacts
  <2>2. boot' \in [Surfaces -> Boots]
    BY <1>4 DEF Register, BootGoes, Boots
  <2> QED
    BY <1>4, <2>1, <2>2 DEF Register, ingressVars, killVars
<1>5. CASE SetUp(s)
  BY <1>5 DEF SetUp, BootGoes, Boots, ingressVars, routerVars, killVars
<1>6. CASE MarkLive(s)
  BY <1>6 DEF MarkLive, BootGoes, Boots, ingressVars, routerVars, killVars
<1>7. CASE StartThread(s)
  BY <1>7 DEF StartThread, BootGoes, Boots, ingressVars, routerVars, killVars
<1>8. CASE UndoBoot(s)
  BY <1>1, <1>8
  DEF UndoBoot, Unregister, Closing, BootGoes, Boots, ingressVars, killVars
<1>9. CASE Kill(s)
  BY <1>9 DEF Kill, ingressVars, routerVars, bootVars
<1>10. CASE TakeSession(s)
  BY <1>1, <1>10 DEF TakeSession, Unregister, ingressVars
<1>11. CASE CloseTarget(s)
  BY <1>11 DEF CloseTarget, Closing, ingressVars, routerVars
<1>12. CASE Handle(s)
  <2> DEFINE e == Head(route[s].events)
  <2>1. route[s].events \in Queues /\ route[s].events # <<>>
    BY <1>1, <1>12 DEF Handle, Routes, Queues
  <2>2. e \in Event \cup {End} /\ Tail(route[s].events) \in Queues
    BY <2>1, TailFacts
  <2>3. [route[s] EXCEPT !.events = Tail(@)] \in Routes
    BY <1>1, <2>2 DEF Routes, Queues
  <2>4. route' \in [Surfaces -> Routes]
    BY <1>12, <2>3 DEF Handle
  <2>5. got' \in [Surfaces -> Seq(Event)]
    <3>1. CASE e = End
      BY <1>12, <3>1 DEF Handle
    <3>2. CASE e # End
      <4>1. got[s] \in Seq(Event) /\ e \in Event
        BY <2>2, <3>2
      <4>2. Append(got[s], e) \in Seq(Event)
        BY <4>1, AppendProperties
      <4> QED
        BY <1>12, <3>2, <4>2 DEF Handle
    <3> QED
      BY <3>1, <3>2
  <2>6. thread' \in [Surfaces -> {"none", "running", "told", "ended"}]
    BY <1>12 DEF Handle
  <2> QED
    BY <1>12, <2>4, <2>5, <2>6
    DEF Handle, ingressVars, routerVars, bootVars, killVars
<1>13. CASE ThreadEnds(s)
  BY <1>13 DEF ThreadEnds, ingressVars, routerVars, bootVars, killVars
<1>14. CASE CloseOwed(s)
  BY <1>1, <1>14 DEF CloseOwed, ingressVars, bootVars, killVars
<1> QED
  BY <1>2, <1>3, <1>4, <1>5, <1>6, <1>7, <1>8, <1>9, <1>10, <1>11, <1>12,
     <1>13, <1>14
  DEF BootStep, KillStep, ThreadStep, ThreadKills

LEMMA RouterTypes ==
  ASSUME TypeOK,
         \/ Shutdown \/ RouterTakes \/ RouterDelivers \/ RouterSeesEnd
         \/ UNCHANGED vars
  PROVE  TypeOK'
<1> USE DEF TypeOK
<1>1. CASE Shutdown
  BY <1>1 DEF Shutdown, CloseRuntime, ingressVars, bootVars, killVars
<1>2. CASE RouterTakes
  <2> DEFINE e == Head(output)
  <2>1. e \in Event \cup {End} /\ Tail(output) \in Queues
    BY <1>2, TailFacts DEF RouterTakes, Queues
  <2>2. hand' \in {<<>>} \cup {<<x>> : x \in Event}
    BY <1>2, <2>1 DEF RouterTakes
  <2>3. /\ router' \in {"running", "ended"} /\ gone' \in BOOLEAN
        /\ routes' \subseteq Surfaces /\ owed' \subseteq Surfaces
    BY <1>2 DEF RouterTakes, CloseRuntime
  <2> QED
    BY <1>2, <2>1, <2>2, <2>3 DEF RouterTakes, Queues, bootVars, killVars
<1>3. CASE RouterDelivers
  <2>1. PICK e \in Event : hand = <<e>> /\ Head(hand) = e
    BY <1>3 DEF RouterDelivers
  <2>2. Delivered(route[e.of], e) \in Routes
    BY EventFacts, DeliveredFacts
  <2>3. route' \in [Surfaces -> Routes] /\ routes' \subseteq Surfaces
    BY <1>3, <2>1, <2>2 DEF RouterDelivers
  <2> QED
    BY <1>3, <2>3 DEF RouterDelivers, ingressVars, bootVars, killVars
<1>4. CASE RouterSeesEnd
  BY <1>4 DEF RouterSeesEnd, CloseRuntime, ingressVars, bootVars, killVars
<1>5. CASE UNCHANGED vars
  BY <1>5 DEF vars, ingressVars, routerVars, bootVars, killVars
<1> QED
  BY <1>1, <1>2, <1>3, <1>4, <1>5

LEMMA ReaderTypes ==
  ASSUME TypeOK,
         \/ \E s \in Surfaces, kind \in {"frame", "note"} : Arrives(s, kind)
         \/ SocketEnds \/ DrainOne \/ ReaderStops
  PROVE  TypeOK'
<1> USE DEF TypeOK
<1>1. ASSUME NEW s \in Surfaces, NEW kind \in {"frame", "note"}, Arrives(s, kind)
      PROVE  TypeOK'
  <2> DEFINE e == [n |-> Len(sent) + 1, kind |-> kind, of |-> s]
  <2>1. Len(sent) \in Nat /\ MaxEvents \in Nat /\ Len(sent) < MaxEvents
    BY <1>1, LenProperties, RoutesAssumption DEF Arrives
  <2>2. e \in Event
    BY <2>1 DEF Event
  <2>3. Append(sent, e) \in Seq(Event)
    BY <2>2, AppendProperties
  <2>4. Pushed(ingress, e) \in Queues /\ <<End>> \in Queues
    BY <2>2, PushedFacts, ShortQueues DEF Queues
  <2>5. sent' \in Seq(Event) /\ ingress' \in Queues /\ closed' \in BOOLEAN
    BY <1>1, <2>3, <2>4 DEF Arrives, CloseConnection
  <2> QED
    BY <1>1, <2>5 DEF Arrives, Queues, routerVars, bootVars, killVars
<1>2. CASE SocketEnds
  BY <1>2, ShortQueues
  DEF SocketEnds, CloseConnection, Queues, routerVars, bootVars, killVars
<1>3. CASE DrainOne
  <2>1. Head(ingress) \in Event \cup {End} /\ Tail(ingress) \in Queues
    BY <1>3, TailFacts DEF DrainOne, Queues
  <2>2. Append(output, Head(ingress)) \in Queues
    BY <2>1, AppendFacts DEF Queues
  <2> QED
    BY <1>3, <2>1, <2>2 DEF DrainOne, Queues, routerVars, bootVars, killVars
<1>4. CASE ReaderStops
  BY <1>4 DEF ReaderStops, routerVars, bootVars, killVars
<1> QED
  BY <1>1, <1>2, <1>3, <1>4

LEMMA StepTypes == TypeOK /\ [Next]_vars => TypeOK'
BY CallTypes, RouterTypes, ReaderTypes DEF Next

-----------------------------------------------------------------------------
(* Routes, maps, bootstraps and kills.                                     *)

LEMMA HandFacts == TypeOK => \A e \in InHand : e \in Event /\ e.of \in Surfaces
BY ShortQueues, EventFacts DEF TypeOK, InHand

LEMMA InitHeld == Init => HeldInv
<1> SUFFICES ASSUME Init PROVE HeldInv
  OBVIOUS
<1>1. InHand = {} /\ \A s \in Surfaces : route[s] = NoRoute /\ got[s] = <<>>
  BY ShortQueues DEF Init, InHand
<1>2. MapsHoldOpenRoutes
  BY <1>1, RouteFacts, ShortQueues DEF Init, MapsHoldOpenRoutes, Unregistered
<1>3. OpenRouteIsHeld
  BY <1>1, RouteFacts DEF OpenRouteIsHeld
<1>4. BootAndKill
  BY DEF Init, BootAndKill, Begun, Boots
<1> QED
  BY <1>2, <1>3, <1>4, InitTypes DEF HeldInv

(* A runtime that closes holds its routes in the list of its close.        *)
LEMMA CloseRuntimeHeld ==
  ASSUME HeldInv, CloseRuntime, UNCHANGED <<route, boot, got>>,
         InHand' \subseteq InHand
  PROVE  MapsHoldOpenRoutes' /\ OpenRouteIsHeld'
<1> USE DEF HeldInv, TypeOK
<1>1. OpenRouteIsHeld'
  BY DEF CloseRuntime, OpenRouteIsHeld, MapsHoldOpenRoutes
<1>2. MapsHoldOpenRoutes'
  BY DEF CloseRuntime, MapsHoldOpenRoutes
<1> QED
  BY <1>1, <1>2

(* A surface that leaves the maps has its route closed.                    *)
LEMMA UnregisterHeld ==
  ASSUME HeldInv, NEW s \in Surfaces, Unregister(s), UNCHANGED <<gone, owed, got>>,
         boot'[s] \notin Unregistered, boot[s] \notin Unregistered,
         \A t \in Surfaces \ {s} : boot'[t] = boot[t],
         boot[s] = "failed" => boot'[s] = "failed", UNCHANGED hand
  PROVE  MapsHoldOpenRoutes' /\ OpenRouteIsHeld'
<1> USE DEF HeldInv, TypeOK
<1>1. InHand' = InHand
  BY DEF InHand, Waiting
<1>2. CASE s \in routes
  <2>1. /\ route[s] \in Routes /\ route[s].made /\ ~route[s].closed
        /\ route' = [route EXCEPT ![s] = FailedRoute]
        /\ routes' = routes \ {s}
    BY <1>2, CloseRouteFacts DEF MapsHoldOpenRoutes, Unregister
  <2>2. FailedRoute.made /\ FailedRoute.closed /\ Waiting(FailedRoute.events) = {}
    BY RouteFacts, ShortQueues
  <2>3. OpenRouteIsHeld'
    BY <2>1, <2>2 DEF OpenRouteIsHeld
  <2>4. /\ \A t \in owed' \cup routes' : route'[t].made
        /\ \A t \in routes' : ~route'[t].closed
        /\ \A e \in InHand' : route'[e.of].made
    BY <1>1, <2>1, <2>2, HandFacts DEF MapsHoldOpenRoutes
  <2>5. \A t \in Surfaces : t # s => route'[t] = route[t]
    BY <2>1
  <2>6. route'[s] = FailedRoute
    BY <2>1
  <2>7. MapsHoldOpenRoutes'
    <3>1. \A t \in Surfaces :
            /\ ~route'[t].made => route'[t] = NoRoute /\ got'[t] = <<>>
            /\ boot'[t] \in Unregistered => ~route'[t].made
            /\ ~route'[t].made => boot'[t] \in Unregistered \cup {"failed"}
            /\ route'[t].closed => Waiting(route'[t].events) = {}
      BY <2>2, <2>5, <2>6 DEF MapsHoldOpenRoutes
    <3>2. (gone' => routes' = {}) /\ (owed' # {} => gone')
      BY <2>1 DEF MapsHoldOpenRoutes
    <3> QED
      BY <1>1, <2>4, <3>1, <3>2 DEF MapsHoldOpenRoutes
  <2> QED
    BY <2>3, <2>7
<1>3. CASE s \notin routes
  <2>1. OpenRouteIsHeld'
    BY <1>3 DEF Unregister, OpenRouteIsHeld
  <2>2. UNCHANGED <<routes, route>>
    BY <1>3 DEF Unregister
  <2>3. MapsHoldOpenRoutes'
    BY <1>1, <2>2 DEF MapsHoldOpenRoutes
  <2> QED
    BY <2>1, <2>3
<1> QED
  BY <1>2, <1>3

(* Steps that leave the routes and the maps alone.                         *)
LEMMA QuietHeld ==
  ASSUME HeldInv, UNCHANGED <<routes, owed, gone, route, got, hand>>,
         \A s \in Surfaces :
           /\ boot[s] \in Unregistered =>
                boot'[s] \in Unregistered \cup {"failed"}
           /\ boot[s] \notin Unregistered => boot'[s] \notin Unregistered
           /\ boot[s] = "failed" => boot'[s] = "failed"
  PROVE  MapsHoldOpenRoutes' /\ OpenRouteIsHeld'
<1> USE DEF HeldInv, TypeOK
<1>1. InHand' = InHand
  BY DEF InHand, Waiting
<1>2. OpenRouteIsHeld'
  BY DEF OpenRouteIsHeld
<1>3. MapsHoldOpenRoutes'
  BY <1>1 DEF MapsHoldOpenRoutes, Unregistered
<1> QED
  BY <1>2, <1>3

LEMMA CallMaps ==
  ASSUME HeldInv, NEW s \in Surfaces,
         BootStep(s) \/ Kill(s) \/ KillStep(s) \/ ThreadStep(s) \/ CloseOwed(s)
  PROVE  MapsHoldOpenRoutes' /\ OpenRouteIsHeld'
<1> USE DEF HeldInv, TypeOK
<1>1. CASE CreateTarget(s)
  BY <1>1, QuietHeld
  DEF CreateTarget, BootGoes, Unregistered, routerVars
<1>2. CASE AttachTarget(s)
  BY <1>2, QuietHeld DEF AttachTarget, BootGoes, Unregistered, routerVars
<1>3. CASE Register(s)
  <2>1. InHand' = InHand /\ ~route[s].made /\ got[s] = <<>> /\ s \notin routes
    BY <1>3 DEF Register, MapsHoldOpenRoutes, InHand, Waiting, Unregistered
  <2>2. boot' = [boot EXCEPT ![s] = "registered"]
    BY <1>3 DEF Register, BootGoes
  <2>3. CASE gone
    <3>1. route' = [route EXCEPT ![s] = FailedRoute]
          /\ UNCHANGED <<routes, owed, gone, got>>
      BY <1>3, <2>3 DEF Register
    <3>2. OpenRouteIsHeld'
      BY <3>1, RouteFacts DEF OpenRouteIsHeld
    <3>3. /\ FailedRoute.made /\ FailedRoute.closed
          /\ Waiting(FailedRoute.events) = {}
      BY RouteFacts, ShortQueues
    <3>4. /\ \A t \in owed : route'[t].made
          /\ \A t \in routes : route'[t].made /\ ~route'[t].closed
          /\ \A e \in InHand : route'[e.of].made
      BY <2>1, <3>1, <3>3, HandFacts DEF MapsHoldOpenRoutes
    <3>5. MapsHoldOpenRoutes'
      BY <2>1, <2>2, <3>1, <3>3, <3>4 DEF MapsHoldOpenRoutes, Unregistered
    <3> QED
      BY <3>2, <3>5
  <2>4. CASE ~gone
    <3>1. /\ route' = [route EXCEPT ![s] = OpenRoute]
          /\ routes' = routes \cup {s} /\ UNCHANGED <<owed, gone, got>>
      BY <1>3, <2>4 DEF Register
    <3>2. OpenRouteIsHeld'
      BY <2>4, <3>1 DEF OpenRouteIsHeld
    <3>3. OpenRoute.made /\ ~OpenRoute.closed
      BY RouteFacts
    <3>4. /\ ~gone' /\ (owed' # {} => gone')
          /\ \A t \in routes' : route'[t].made /\ ~route'[t].closed
      BY <2>4, <3>1, <3>3 DEF MapsHoldOpenRoutes
    <3>5. /\ \A t \in owed' : route'[t].made
          /\ \A e \in InHand' : route'[e.of].made
      BY <2>1, <3>1, <3>3, HandFacts DEF MapsHoldOpenRoutes
    <3>6. ASSUME NEW t \in Surfaces
          PROVE  /\ ~route'[t].made => route'[t] = NoRoute /\ got'[t] = <<>>
                 /\ boot'[t] \in Unregistered => ~route'[t].made
                 /\ ~route'[t].made => boot'[t] \in Unregistered \cup {"failed"}
                 /\ route'[t].closed => Waiting(route'[t].events) = {}
      BY <2>2, <3>1, <3>3 DEF MapsHoldOpenRoutes, Unregistered
    <3>7. MapsHoldOpenRoutes'
      BY <3>4, <3>5, <3>6 DEF MapsHoldOpenRoutes
    <3> QED
      BY <3>2, <3>7
  <2> QED
    BY <2>3, <2>4
<1>4. CASE SetUp(s)
  BY <1>4, QuietHeld DEF SetUp, BootGoes, Unregistered, routerVars
<1>5. CASE MarkLive(s)
  BY <1>5, QuietHeld DEF MarkLive, BootGoes, Unregistered, routerVars
<1>6. CASE StartThread(s)
  BY <1>6, QuietHeld DEF StartThread, BootGoes, Unregistered, routerVars
<1>7. CASE UndoBoot(s)
  BY <1>7, UnregisterHeld DEF UndoBoot, BootGoes, Unregistered
<1>8. CASE Kill(s)
  BY <1>8, QuietHeld DEF Kill, routerVars, bootVars
<1>9. CASE TakeSession(s)
  <2>1. CASE session[s]
    <3>1. boot[s] \notin Unregistered
      BY <1>9, <2>1 DEF BootAndKill, Unregistered
    <3> QED
      BY <1>9, <2>1, <3>1, UnregisterHeld DEF TakeSession
  <2>2. CASE ~session[s]
    BY <1>9, <2>2, QuietHeld DEF TakeSession
  <2> QED
    BY <2>1, <2>2
<1>10. CASE CloseTarget(s)
  BY <1>10, QuietHeld DEF CloseTarget, routerVars
<1>11. CASE Handle(s)
  <2> DEFINE r == [route[s] EXCEPT !.events = Tail(@)]
  <2>1. route[s] \in Routes /\ route[s].events \in Queues /\ route[s].events # <<>>
    BY <1>11 DEF Handle, Routes, Queues
  <2>2. route[s].made /\ (route[s].closed => Waiting(route[s].events) = {})
    BY <2>1, RouteFacts DEF MapsHoldOpenRoutes
  <2>3. r.made /\ r.closed = route[s].closed /\ (r.closed => Waiting(r.events) = {})
    BY <2>1, <2>2, TailFacts DEF Routes
  <2> HIDE DEF r
  <2>4. /\ route' = [route EXCEPT ![s] = r] /\ InHand' = InHand
        /\ \A t \in Surfaces \ {s} : got'[t] = got[t]
        /\ UNCHANGED <<routes, owed, gone, boot>>
    BY <1>11 DEF Handle, r, InHand, Waiting, routerVars, bootVars
  <2>5. OpenRouteIsHeld'
    BY <2>2, <2>3, <2>4 DEF OpenRouteIsHeld
  <2>0. (\A t \in Surfaces : t # s => route'[t] = route[t]) /\ route'[s] = r
    BY <2>2, <2>4
  <2>6. /\ \A t \in owed : route'[t].made
        /\ \A t \in routes : route'[t].made /\ ~route'[t].closed
        /\ \A e \in InHand : route'[e.of].made
    BY <2>0, <2>2, <2>3, <2>4, HandFacts DEF MapsHoldOpenRoutes
  <2>7. MapsHoldOpenRoutes'
    <3>1. \A t \in Surfaces :
            /\ ~route'[t].made => route'[t] = NoRoute /\ got'[t] = <<>>
            /\ boot'[t] \in Unregistered => ~route'[t].made
            /\ ~route'[t].made => boot'[t] \in Unregistered \cup {"failed"}
            /\ route'[t].closed => Waiting(route'[t].events) = {}
      <4>1. \A t \in Surfaces \ {s} :
              route'[t] = route[t] /\ got'[t] = got[t] /\ boot'[t] = boot[t]
        BY <2>0, <2>4
      <4>2. boot[s] \notin Unregistered
        BY <2>2 DEF MapsHoldOpenRoutes
      <4>3. boot'[s] = boot[s] /\ route'[s].made
            /\ (route'[s].closed => Waiting(route'[s].events) = {})
        BY <2>0, <2>3, <2>4
      <4> SUFFICES ASSUME NEW t \in Surfaces
                   PROVE  /\ ~route'[t].made => route'[t] = NoRoute /\ got'[t] = <<>>
                          /\ boot'[t] \in Unregistered => ~route'[t].made
                          /\ ~route'[t].made => boot'[t] \in Unregistered \cup {"failed"}
                          /\ route'[t].closed => Waiting(route'[t].events) = {}
        OBVIOUS
      <4>4. CASE t = s
        BY <4>2, <4>3, <4>4
      <4>5. CASE t # s
        <5>1. /\ ~route[t].made => route[t] = NoRoute /\ got[t] = <<>>
              /\ boot[t] \in Unregistered => ~route[t].made
              /\ ~route[t].made => boot[t] \in Unregistered \cup {"failed"}
              /\ route[t].closed => Waiting(route[t].events) = {}
          BY DEF MapsHoldOpenRoutes
        <5> HIDE DEF HeldInv, TypeOK
        <5> QED
          BY <4>1, <4>5, <5>1
      <4> QED
        BY <4>4, <4>5
    <3>2. (gone' => routes' = {}) /\ (owed' # {} => gone')
      <4>1. (gone => routes = {}) /\ (owed # {} => gone)
        BY DEF MapsHoldOpenRoutes
      <4>2. UNCHANGED <<gone, routes, owed>>
        BY <2>4
      <4> HIDE DEF HeldInv, TypeOK
      <4> QED
        BY <4>1, <4>2
    <3>3. /\ \A t \in owed' : route'[t].made
          /\ \A t \in routes' : route'[t].made /\ ~route'[t].closed
          /\ \A e \in InHand' : route'[e.of].made
      BY <2>4, <2>6
    <3> QED
      BY <3>1, <3>2, <3>3 DEF MapsHoldOpenRoutes
  <2> QED
    BY <2>5, <2>7
<1>12. CASE ThreadEnds(s)
  BY <1>12, QuietHeld DEF ThreadEnds, routerVars, bootVars
<1>13. CASE CloseOwed(s)
  <2> DEFINE r == CloseRoute(route[s])
  <2>1. route[s] \in Routes /\ route[s].made /\ gone /\ routes = {}
    BY <1>13 DEF CloseOwed, MapsHoldOpenRoutes
  <2>2. r.made /\ r.closed /\ Waiting(r.events) = {}
    <3>1. CASE route[s].closed
      BY <2>1, <3>1, CloseRouteFacts DEF MapsHoldOpenRoutes
    <3>2. CASE ~route[s].closed
      BY <2>1, <3>2, CloseRouteFacts, RouteFacts, ShortQueues
    <3> QED
      BY <3>1, <3>2
  <2> HIDE DEF r
  <2>3. /\ route' = [route EXCEPT ![s] = r] /\ InHand' = InHand
        /\ owed' = owed \ {s} /\ UNCHANGED <<routes, gone, boot, got>>
    BY <1>13 DEF CloseOwed, r, InHand, Waiting, bootVars
  <2>4. OpenRouteIsHeld'
    BY <2>1, <2>2, <2>3 DEF OpenRouteIsHeld
  <2>5. MapsHoldOpenRoutes'
    BY <2>1, <2>2, <2>3, HandFacts DEF MapsHoldOpenRoutes
  <2> QED
    BY <2>4, <2>5
<1> QED
  BY <1>1, <1>2, <1>3, <1>4, <1>5, <1>6, <1>7, <1>8, <1>9, <1>10, <1>11,
     <1>12, <1>13
  DEF BootStep, KillStep, ThreadStep, ThreadKills

LEMMA StepMaps ==
  ASSUME HeldInv, [Next]_vars PROVE MapsHoldOpenRoutes' /\ OpenRouteIsHeld'
<1> USE DEF HeldInv, TypeOK
<1>1. ASSUME NEW s \in Surfaces, NEW kind \in {"frame", "note"}, Arrives(s, kind)
      PROVE  MapsHoldOpenRoutes' /\ OpenRouteIsHeld'
  BY <1>1, QuietHeld DEF Arrives, routerVars, bootVars
<1>2. CASE SocketEnds \/ DrainOne \/ ReaderStops
  BY <1>2, QuietHeld DEF SocketEnds, DrainOne, ReaderStops, routerVars, bootVars
<1>3. CASE Shutdown
  <2>1. InHand' = InHand
    BY <1>3 DEF Shutdown, InHand, Waiting
  <2> QED
    BY <1>3, <2>1, CloseRuntimeHeld DEF Shutdown, bootVars
<1>4. CASE RouterTakes
  <2> DEFINE e == Head(output)
  <2>1. e \in Event \cup {End}
    BY <1>4, TailFacts DEF RouterTakes, Queues
  <2>2. CASE e = End
    <3>1. InHand' = InHand
      BY <1>4, <2>2 DEF RouterTakes, InHand, Waiting
    <3> QED
      BY <1>4, <2>2, <3>1, CloseRuntimeHeld DEF RouterTakes, bootVars
  <2>3. CASE e # End
    <3>1. \A x \in InHand' : x = e /\ e.of \in routes
      BY <1>4, <2>1, <2>3, ShortQueues DEF RouterTakes, InHand
    <3>2. UNCHANGED <<routes, owed, gone, route, boot, got>>
      BY <1>4, <2>3 DEF RouterTakes, bootVars
    <3>3. OpenRouteIsHeld'
      BY <3>2 DEF OpenRouteIsHeld
    <3>4. MapsHoldOpenRoutes'
      BY <3>1, <3>2 DEF MapsHoldOpenRoutes
    <3> QED
      BY <3>3, <3>4
  <2> QED
    BY <2>2, <2>3
<1>5. CASE RouterDelivers
  <2>1. PICK e \in Event : hand = <<e>> /\ Head(hand) = e
    BY <1>5 DEF RouterDelivers
  <2> DEFINE s == e.of
             r == Delivered(route[s], e)
  <2>2. s \in Surfaces /\ route[s] \in Routes /\ InHand = {e} /\ InHand' = {}
    BY <1>5, <2>1, EventFacts, ShortQueues DEF RouterDelivers, InHand
  <2>3. route[s].made /\ r.made /\ (~r.closed => ~route[s].closed)
        /\ (r.closed => Waiting(r.events) = {})
    <3>1. /\ route[s].made
          /\ route[s].closed => Waiting(route[s].events) = {}
          /\ Waiting(FailedRoute.events) = {}
      BY <2>2, RouteFacts, ShortQueues DEF MapsHoldOpenRoutes
    <3>2. \/ route[s].closed /\ r = route[s]
          \/ ~route[s].closed /\ r.made = route[s].made /\ ~r.closed
          \/ ~route[s].closed /\ r = FailedRoute
      BY <2>2, DeliveredFacts
    <3> HIDE DEF r
    <3> QED
      BY <3>1, <3>2, RouteFacts
  <2>4. /\ route' = [route EXCEPT ![s] = r]
        /\ routes' = IF r.closed THEN routes \ {s} ELSE routes
        /\ UNCHANGED <<owed, gone, boot, got>>
    BY <1>5, <2>1 DEF RouterDelivers, bootVars
  <2> HIDE DEF r, s
  <2>5. OpenRouteIsHeld'
    BY <2>2, <2>3, <2>4 DEF OpenRouteIsHeld
  <2>0. (\A t \in Surfaces : t # s => route'[t] = route[t]) /\ route'[s] = r
    BY <2>2, <2>4
  <2>6. /\ \A t \in owed' : route'[t].made
        /\ \A t \in routes' : route'[t].made /\ ~route'[t].closed
        /\ \A x \in InHand' : route'[x.of].made
    BY <2>0, <2>2, <2>3, <2>4, HandFacts DEF MapsHoldOpenRoutes
  <2>7. MapsHoldOpenRoutes'
    BY <2>2, <2>3, <2>4, <2>6 DEF MapsHoldOpenRoutes
  <2> QED
    BY <2>5, <2>7
<1>6. CASE RouterSeesEnd
  <2>1. InHand' = InHand
    BY <1>6 DEF RouterSeesEnd, InHand, Waiting
  <2> QED
    BY <1>6, <2>1, CloseRuntimeHeld DEF RouterSeesEnd, bootVars
<1>7. CASE UNCHANGED vars
  BY <1>7, QuietHeld DEF vars, routerVars, bootVars
<1> QED
  BY <1>1, <1>2, <1>3, <1>4, <1>5, <1>6, <1>7, CallMaps DEF Next

(* BootAndKill of one surface.                                             *)
LEMMA StepBoots ==
  ASSUME HeldInv, [Next]_vars PROVE BootAndKill'
<1> USE DEF HeldInv, TypeOK, Begun, Boots
<1>1. ASSUME UNCHANGED <<boot, target, session, dead, killer>>,
             routes' \subseteq routes, closed => closed', gone => gone',
             \A s \in Surfaces : route'[s].made => route[s].made
      PROVE  BootAndKill'
  <2>1. \A s \in Surfaces : s \in routes' => s \in routes
    BY <1>1
  <2>2. closed' \in BOOLEAN /\ gone' \in BOOLEAN
    BY StepTypes
  <2> QED
    BY <1>1, <2>1, <2>2 DEF BootAndKill
<1>2. ASSUME NEW s \in Surfaces, CreateTarget(s) PROVE BootAndKill'
  BY <1>2
  DEF CreateTarget, BootGoes, BootAndKill, MapsHoldOpenRoutes, Unregistered,
      ingressVars, routerVars, killVars
<1>3. ASSUME NEW s \in Surfaces, AttachTarget(s) PROVE BootAndKill'
  BY <1>3
  DEF AttachTarget, BootGoes, BootAndKill, MapsHoldOpenRoutes, Unregistered,
      ingressVars, routerVars, killVars
<1>4. ASSUME NEW s \in Surfaces, Register(s) PROVE BootAndKill'
  <2>1. /\ \A t \in Surfaces \ {s} : t \in routes' => t \in routes
        /\ boot[s] = "attached" /\ boot' = [boot EXCEPT ![s] = "registered"]
        /\ UNCHANGED <<target, session, dead, killer, closed, gone>>
    BY <1>4 DEF Register, BootGoes, ingressVars, killVars
  <2>2. \A t \in Surfaces \ {s} : route'[t] = route[t] /\ boot'[t] = boot[t]
    BY <1>4, <2>1 DEF Register
  <2>3. boot'[s] = "registered"
    BY <2>1
  <2> QED
    BY <2>1, <2>2, <2>3 DEF BootAndKill
<1>5. ASSUME NEW s \in Surfaces, SetUp(s) PROVE BootAndKill'
  BY <1>5 DEF SetUp, BootGoes, BootAndKill, ingressVars, routerVars, killVars
<1>6. ASSUME NEW s \in Surfaces, MarkLive(s) PROVE BootAndKill'
  BY <1>6 DEF MarkLive, BootGoes, BootAndKill, ingressVars, routerVars, killVars
<1>7. ASSUME NEW s \in Surfaces, StartThread(s) PROVE BootAndKill'
  BY <1>7
  DEF StartThread, BootGoes, BootAndKill, ingressVars, routerVars, killVars
<1>8. ASSUME NEW s \in Surfaces, UndoBoot(s) PROVE BootAndKill'
  BY <1>8
  DEF UndoBoot, Unregister, Closing, BootGoes, BootAndKill, ingressVars, killVars
<1>9. ASSUME NEW s \in Surfaces, Kill(s) PROVE BootAndKill'
  BY <1>9 DEF Kill, BootAndKill, ingressVars, routerVars, bootVars
<1>10. ASSUME NEW s \in Surfaces, TakeSession(s) PROVE BootAndKill'
  BY <1>10 DEF TakeSession, Unregister, BootAndKill, ingressVars
<1>11. ASSUME NEW s \in Surfaces, CloseTarget(s) PROVE BootAndKill'
  BY <1>11 DEF CloseTarget, Closing, BootAndKill, ingressVars, routerVars
<1>12. ASSUME NEW s \in Surfaces, Handle(s) \/ ThreadEnds(s) \/ CloseOwed(s)
       PROVE  BootAndKill'
  <2>1. \A t \in Surfaces : route'[t].made => route[t].made
    <3>1. CASE Handle(s)
      BY <3>1 DEF Handle, Routes
    <3>2. CASE ThreadEnds(s)
      BY <3>2 DEF ThreadEnds
    <3>3. CASE CloseOwed(s)
      BY <3>3 DEF CloseOwed, MapsHoldOpenRoutes
    <3> QED
      BY <1>12, <3>1, <3>2, <3>3
  <2> QED
    BY <1>1, <1>12, <2>1
    DEF Handle, ThreadEnds, CloseOwed, ingressVars, routerVars, bootVars, killVars
<1>13. ASSUME NEW s \in Surfaces, NEW kind \in {"frame", "note"}, Arrives(s, kind)
       PROVE  BootAndKill'
  BY <1>1, <1>13 DEF Arrives, CloseConnection, routerVars, bootVars, killVars
<1>14. CASE SocketEnds \/ DrainOne \/ ReaderStops
  BY <1>1, <1>14
  DEF SocketEnds, CloseConnection, DrainOne, ReaderStops, routerVars, bootVars,
      killVars
<1>15. CASE Shutdown \/ RouterSeesEnd
  BY <1>1, <1>15
  DEF Shutdown, RouterSeesEnd, CloseRuntime, ingressVars, bootVars, killVars
<1>16. CASE RouterTakes
  BY <1>1, <1>16 DEF RouterTakes, CloseRuntime, bootVars, killVars
<1>17. CASE RouterDelivers
  <2>1. PICK e \in Event : hand = <<e>> /\ Head(hand) = e
    BY <1>17 DEF RouterDelivers
  <2>2. e \in InHand
    BY <2>1, ShortQueues DEF InHand
  <2>3. \A t \in Surfaces : route'[t].made => route[t].made
    BY <1>17, <2>1, <2>2 DEF RouterDelivers, MapsHoldOpenRoutes
  <2> QED
    BY <1>1, <1>17, <2>3 DEF RouterDelivers, ingressVars, bootVars, killVars
<1>18. CASE UNCHANGED vars
  BY <1>1, <1>18 DEF vars, ingressVars, routerVars, bootVars, killVars
<1> QED
  BY <1>2, <1>3, <1>4, <1>5, <1>6, <1>7, <1>8, <1>9, <1>10, <1>11, <1>12,
     <1>13, <1>14, <1>15, <1>16, <1>17, <1>18
  DEF Next, BootStep, KillStep, ThreadStep, ThreadKills

LEMMA StepHeld == HeldInv /\ [Next]_vars => HeldInv'
BY StepTypes, StepMaps, StepBoots DEF HeldInv

(* What the invariant says of a surface whose kill and bootstrap are over. *)
LEMMA KilledFact == HeldInv => KilledSurfaceIsCleared
BY DEF HeldInv, BootAndKill, KilledSurfaceIsCleared

-----------------------------------------------------------------------------
(* The order of the stages.                                                *)

LEMMA InitOrder == Init => InOrder
<1> SUFFICES ASSUME Init PROVE InOrder
  OBVIOUS
<1>1. /\ sent = <<>> /\ ingress = <<>> /\ output = <<>> /\ hand = <<>>
      /\ \A s \in Surfaces : route[s].events = <<>> /\ got[s] = <<>>
  BY RouteFacts DEF Init
<1>2. Waiting(<<>>) = {} /\ Ordered(<<>>) /\ Len(sent) = 0
  BY <1>1, ShortQueues
<1> QED
  BY <1>1, <1>2
  DEF InOrder, RouterInOrder, SurfaceInOrder, Underway, Queued, InHand,
      Handled, Arrived, Before, Genuine

LEMMA QueuesTyped ==
  TypeOK => /\ ingress \in Queues /\ output \in Queues
            /\ \A s \in Surfaces : route[s].events \in Queues /\ got[s] \in Queues
            /\ Len(sent) \in Nat
<1> SUFFICES ASSUME TypeOK PROVE
      /\ ingress \in Queues /\ output \in Queues
      /\ \A s \in Surfaces : route[s].events \in Queues /\ got[s] \in Queues
      /\ Len(sent) \in Nat
  OBVIOUS
<1>1. \A s \in Surfaces : got[s] \in Seq(Event)
  BY DEF TypeOK
<1>2. \A s \in Surfaces : got[s] \in Queues
  BY <1>1, SeqMonotonic DEF Queues
<1> QED
  BY <1>2, LenProperties DEF TypeOK, Queues, Routes

(* A step that only drops events keeps the order.                          *)
LEMMA DropsKeepOrder ==
  ASSUME TypeOK, InOrder, UNCHANGED <<sent, output, got>>,
         ingress' \in {ingress, <<End>>}, hand' \in {hand, <<>>},
         \A s \in Surfaces :
           route'[s].events \in {route[s].events, <<>>, <<End>>}
  PROVE  InOrder'
<1>1. Waiting(ingress') \subseteq Waiting(ingress) /\ Ordered(ingress')
  BY ShortQueues DEF InOrder, RouterInOrder
<1>2. InHand' \subseteq InHand
  BY ShortQueues DEF InHand
<1>3. Underway' \subseteq Underway
  BY <1>1, <1>2 DEF Underway, Queued
<1>4. RouterInOrder'
  BY <1>1, <1>2, <1>3 DEF InOrder, RouterInOrder, Queued, Before, Genuine
<1>5. ASSUME NEW s \in Surfaces PROVE SurfaceInOrder(s)'
  <2>1. Arrived(s)' \subseteq Arrived(s) /\ Ordered(route'[s].events)
    BY ShortQueues DEF Arrived, InOrder, SurfaceInOrder
  <2>2. Handled(s)' = Handled(s) /\ SurfaceInOrder(s)
    BY DEF Handled, InOrder
  <2> QED
    BY <1>3, <2>1, <2>2 DEF SurfaceInOrder, Before, Genuine
<1> QED
  BY <1>4, <1>5 DEF InOrder

(* The event that arrives has the highest number of all.                   *)
LEMMA ArrivesKeepsOrder ==
  ASSUME TypeOK, InOrder, NEW s \in Surfaces, NEW kind \in {"frame", "note"},
         Arrives(s, kind)
  PROVE  /\ InOrder'
         /\ LET e == [n |-> Len(sent) + 1, kind |-> kind, of |-> s]
            IN /\ e \in Event
               /\ \A t \in Surfaces :
                    Before(Handled(t) \cup Arrived(t) \cup Underway, {e})
               /\ Waiting(sent') = Waiting(sent) \cup {e}
               /\ Waiting(ingress') \subseteq Waiting(ingress) \cup {e}
               /\ \/ ingress' = <<End>> /\ closed'
                  \/ /\ e \in Waiting(ingress') /\ ~closed /\ ~closed'
                     /\ \A x \in Waiting(ingress) \ Waiting(ingress') :
                          x.kind = "frame"
<1>0. PICK e : e = [n |-> Len(sent) + 1, kind |-> kind, of |-> s]
  OBVIOUS
<1>1. /\ Len(sent) \in Nat /\ MaxEvents \in Nat /\ Len(sent) < MaxEvents
      /\ sent \in Seq(Event) /\ ingress \in Queues /\ output \in Queues
  BY QueuesTyped, RoutesAssumption DEF Arrives, TypeOK
<1>2. e \in Event /\ e # End /\ e.n = Len(sent) + 1
  BY <1>0, <1>1, EventFacts DEF Event
<1>3. /\ sent' = Append(sent, e)
      /\ \/ ingress' = Pushed(ingress, e) /\ ~closed /\ ~closed'
         \/ ingress' = <<End>> /\ closed'
      /\ UNCHANGED <<output, hand, route, got>>
  BY <1>0 DEF Arrives, CloseConnection, routerVars
<1>4. /\ Len(sent') = Len(sent) + 1 /\ sent'[Len(sent) + 1] = e
      /\ \A i \in 1..Len(sent) : sent'[i] = sent[i]
  BY <1>1, <1>2, <1>3, AppendProperties
<1>5. \A x : Genuine({x}) => x.n < e.n /\ Genuine({x})'
  BY <1>1, <1>2, <1>4 DEF Genuine
<1>6. Waiting(sent') = Waiting(sent) \cup {e}
  <2>1. sent \in Queues
    BY <1>1, SeqMonotonic DEF Queues
  <2> QED
    BY <1>2, <1>3, <2>1, AppendFacts
<1>7. \A t \in Surfaces : Before(Handled(t) \cup Arrived(t) \cup Underway, {e})
  BY <1>5 DEF InOrder, RouterInOrder, SurfaceInOrder, Genuine, Before
<1>8. /\ Waiting(ingress') \subseteq Waiting(ingress) \cup {e}
      /\ Ordered(ingress')
      /\ \/ ingress' = <<End>> /\ closed'
         \/ /\ e \in Waiting(ingress') /\ ~closed /\ ~closed'
            /\ \A x \in Waiting(ingress) \ Waiting(ingress') : x.kind = "frame"
  <2>1. Ordered(ingress) /\ Before(Waiting(ingress), {e})
    BY <1>5 DEF InOrder, RouterInOrder, Underway, Queued, Genuine, Before
  <2>2. CASE ingress' = <<End>> /\ closed'
    BY <2>2, ShortQueues
  <2>3. CASE ingress' = Pushed(ingress, e) /\ ~closed /\ ~closed'
    BY <1>1, <1>2, <2>1, <2>3, PushedFacts
  <2> QED
    BY <1>3, <2>2, <2>3
<1>9. InHand' = InHand /\ Waiting(output') = Waiting(output)
      /\ Underway' \subseteq Underway \cup {e}
  BY <1>3, <1>8 DEF InHand, Underway, Queued
<1>10. Genuine({e})'
  BY <1>1, <1>2, <1>4 DEF Genuine
<1>11. RouterInOrder'
  <2>1. Before(InHand \cup Waiting(output), {e})
    BY <1>5 DEF InOrder, RouterInOrder, Underway, Queued, Genuine, Before
  <2>2. Before(Waiting(output'), Waiting(ingress'))
    BY <1>8, <1>9, <2>1 DEF InOrder, RouterInOrder, Before
  <2>3. Before(InHand', Queued')
    BY <1>8, <1>9, <2>1 DEF InOrder, RouterInOrder, Queued, Before
  <2>4. Genuine(Underway)'
    BY <1>5, <1>9, <1>10 DEF InOrder, RouterInOrder, Genuine
  <2>5. \A i \in 1..Len(sent') : sent'[i].n = i
    BY <1>1, <1>2, <1>4 DEF InOrder, RouterInOrder
  <2>6. Ordered(output')
    BY <1>3 DEF InOrder, RouterInOrder
  <2> QED
    BY <1>8, <2>2, <2>3, <2>4, <2>5, <2>6 DEF RouterInOrder
<1>12. ASSUME NEW t \in Surfaces PROVE SurfaceInOrder(t)'
  <2>1. /\ Handled(t)' = Handled(t) /\ Arrived(t)' = Arrived(t)
        /\ Ordered(got'[t]) /\ Ordered(route'[t].events)
    BY <1>3 DEF Handled, Arrived, InOrder, SurfaceInOrder
  <2>2. Before(Handled(t) \cup Arrived(t), Underway \cup {e})
    BY <1>7 DEF InOrder, SurfaceInOrder, Before
  <2>3. Genuine(Handled(t) \cup Arrived(t))'
    BY <1>5, <2>1 DEF InOrder, SurfaceInOrder, Genuine
  <2> QED
    BY <1>9, <2>1, <2>2, <2>3 DEF InOrder, SurfaceInOrder, Before
<1>13. InOrder'
  BY <1>11, <1>12 DEF InOrder
<1> QED
  BY <1>0, <1>2, <1>6, <1>7, <1>8, <1>13

LEMMA DrainKeepsOrder ==
  ASSUME TypeOK, InOrder, DrainOne
  PROVE  InOrder' /\ Queued' = Queued /\ InHand' = InHand
<1> DEFINE e == Head(ingress)
<1>1. /\ ingress \in Queues /\ ingress # <<>> /\ output \in Queues
      /\ output' = Append(output, e) /\ ingress' = Tail(ingress)
      /\ UNCHANGED <<sent, hand, route, got>>
  BY QueuesTyped DEF DrainOne, routerVars
<1>2. /\ e \in Event \cup {End}
      /\ Waiting(ingress) = ({e} \ {End}) \cup Waiting(ingress')
      /\ Ordered(ingress')
      /\ e # End => Before({e}, Waiting(ingress'))
  BY <1>1, TailFacts DEF InOrder, RouterInOrder
<1> HIDE DEF e
<1>3. e # End => Before(Waiting(output), {e})
  BY <1>2 DEF InOrder, RouterInOrder, Before
<1>4. Waiting(output') = Waiting(output) \cup ({e} \ {End}) /\ Ordered(output')
  BY <1>1, <1>2, <1>3, AppendFacts DEF InOrder, RouterInOrder
<1>5. InHand' = InHand /\ Queued' = Queued /\ Underway' = Underway
  BY <1>1, <1>2, <1>4 DEF InHand, Underway, Queued
<1>6. RouterInOrder'
  <2>1. Before(Waiting(output'), Waiting(ingress'))
    BY <1>2, <1>4 DEF InOrder, RouterInOrder, Before
  <2>2. Before(InHand', Queued')
    BY <1>5 DEF InOrder, RouterInOrder, Before
  <2>3. Genuine(Underway)'
    BY <1>1, <1>5 DEF InOrder, RouterInOrder, Genuine
  <2> QED
    BY <1>1, <1>2, <1>4, <2>1, <2>2, <2>3 DEF InOrder, RouterInOrder
<1>7. ASSUME NEW t \in Surfaces PROVE SurfaceInOrder(t)'
  <2>1. Handled(t)' = Handled(t) /\ Arrived(t)' = Arrived(t)
    BY <1>1 DEF Handled, Arrived
  <2> QED
    BY <1>1, <1>5, <2>1 DEF InOrder, SurfaceInOrder, Genuine
<1> QED
  BY <1>5, <1>6, <1>7 DEF InOrder

(* The router takes the oldest event of those that are underway, and keeps *)
(* it if its surface is in the maps.                                       *)
LEMMA TakesKeepsOrder ==
  ASSUME TypeOK, InOrder, RouterTakes
  PROVE  /\ InOrder' /\ InHand = {}
         /\ LET e == Head(output)
            IN \/ e = End /\ InHand' = {} /\ Queued' = Queued
               \/ /\ e \in Event /\ e # End /\ Queued = {e} \cup Queued'
                  /\ Before({e}, Queued')
                  /\ InHand' = IF e.of \in routes THEN {e} ELSE {}
<1>0. PICK e : e = Head(output)
  OBVIOUS
<1>1. /\ output \in Queues /\ output # <<>> /\ output' = Tail(output)
      /\ UNCHANGED <<sent, ingress, route, got>> /\ InHand = {}
  BY QueuesTyped, ShortQueues DEF RouterTakes, InHand
<1>2. /\ e \in Event \cup {End}
      /\ Waiting(output) = ({e} \ {End}) \cup Waiting(output')
      /\ Ordered(output')
      /\ e # End => Before({e}, Waiting(output'))
  BY <1>0, <1>1, TailFacts DEF InOrder, RouterInOrder
<1>3. /\ e = End => hand' = <<>>
      /\ e # End => hand' = IF e.of \in routes THEN <<e>> ELSE <<>>
  BY <1>0 DEF RouterTakes
<1>4. InHand' = IF e # End /\ e.of \in routes THEN {e} ELSE {}
  BY <1>2, <1>3, ShortQueues DEF InHand
<1>5. Queued = ({e} \ {End}) \cup Queued' /\ Underway = Queued
      /\ Underway' = InHand' \cup Queued'
  BY <1>1, <1>2 DEF Underway, Queued
<1>6. e # End => Before({e}, Queued')
  <2>1. e # End => Before({e}, Waiting(ingress))
    BY <1>2 DEF InOrder, RouterInOrder, Before
  <2> QED
    BY <1>1, <1>2, <2>1 DEF Queued, Before
<1>7. InHand' \subseteq {e} \ {End} /\ Underway' \subseteq Underway
  BY <1>4, <1>5
<1>8. RouterInOrder'
  <2>1. Before(Waiting(output'), Waiting(ingress'))
    BY <1>1, <1>2 DEF InOrder, RouterInOrder, Before
  <2>2. Before(InHand', Queued')
    BY <1>6, <1>7 DEF Before
  <2>3. Genuine(Underway)'
    BY <1>1, <1>7 DEF InOrder, RouterInOrder, Genuine
  <2> QED
    BY <1>1, <1>2, <2>1, <2>2, <2>3 DEF InOrder, RouterInOrder
<1>9. ASSUME NEW t \in Surfaces PROVE SurfaceInOrder(t)'
  <2>1. Handled(t)' = Handled(t) /\ Arrived(t)' = Arrived(t)
    BY <1>1 DEF Handled, Arrived
  <2> QED
    BY <1>1, <1>7, <2>1 DEF InOrder, SurfaceInOrder, Genuine, Before
<1>10. InOrder'
  BY <1>8, <1>9 DEF InOrder
<1> QED
  BY <1>0, <1>1, <1>2, <1>4, <1>5, <1>6, <1>10

(* What the router delivers joins the route of its surface, or the route   *)
(* fails and loses what waits in it.                                       *)
LEMMA DeliversKeepsOrder ==
  ASSUME HeldInv, InOrder, RouterDelivers
  PROVE  /\ InOrder' /\ InHand' = {}
         /\ UNCHANGED <<sent, output, ingress, got, boot>>
         /\ \E e \in Event :
              /\ InHand = {e} /\ e.of \in Surfaces
              /\ \A t \in Surfaces \ {e.of} :
                   route'[t] = route[t] /\ (t \in routes' <=> t \in routes)
              /\ LET r == route'[e.of]
                 IN \/ r.closed /\ e.of \notin routes'
                    \/ /\ ~r.closed /\ ~route[e.of].closed
                       /\ e.of \in routes' <=> e.of \in routes
                       /\ e \in Arrived(e.of)'
                       /\ Arrived(e.of)' \subseteq Arrived(e.of) \cup {e}
                       /\ \A x \in Arrived(e.of) \ Arrived(e.of)' :
                            x.kind = "frame"
<1> USE DEF HeldInv
<1>1. PICK e \in Event : hand = <<e>> /\ Head(hand) = e
  BY DEF RouterDelivers, TypeOK
<1>2. PICK s \in Surfaces : s = e.of
  BY EventFacts
<1>3. PICK r : r = Delivered(route[s], e)
  OBVIOUS
<1>4. /\ InHand = {e} /\ InHand' = {} /\ e # End
      /\ route[s] \in Routes /\ route[s].events \in Queues
  BY <1>1, EventFacts, ShortQueues, QueuesTyped
  DEF RouterDelivers, InHand, TypeOK
<1>5. /\ route' = [route EXCEPT ![s] = r]
      /\ routes' = IF r.closed THEN routes \ {s} ELSE routes
      /\ UNCHANGED <<sent, output, ingress, got, boot>>
  BY <1>1, <1>2, <1>3 DEF RouterDelivers, ingressVars, bootVars
<1>6. /\ route'[s] = r
      /\ \A t \in Surfaces \ {s} :
           route'[t] = route[t] /\ (t \in routes' <=> t \in routes)
  BY <1>5 DEF TypeOK
<1>7. /\ e.n \in 1..Len(sent) /\ sent[e.n] = e
      /\ Underway' \subseteq Underway /\ Before({e}, Underway')
      /\ Ordered(route[s].events) /\ Before(Arrived(s), {e})
      /\ Before(Handled(s), {e}) /\ Before(Arrived(s), Underway')
  BY <1>4, <1>5
  DEF InOrder, RouterInOrder, SurfaceInOrder, Underway, Queued, Genuine, Before
<1>8. \/ r.closed /\ Waiting(r.events) = {} /\ Ordered(r.events)
      \/ /\ ~r.closed /\ ~route[s].closed /\ Ordered(r.events)
         /\ e \in Waiting(r.events)
         /\ Waiting(r.events) \subseteq Arrived(s) \cup {e}
         /\ \A x \in Arrived(s) \ Waiting(r.events) : x.kind = "frame"
  <2>1. CASE route[s].closed /\ r = route[s]
    BY <1>7, <2>1 DEF MapsHoldOpenRoutes
  <2>2. CASE ~route[s].closed /\ ~r.closed /\ r.events = Pushed(route[s].events, e)
    BY <1>4, <1>7, <2>2, PushedFacts DEF Arrived
  <2>3. CASE ~route[s].closed /\ r = FailedRoute
    BY <2>3, RouteFacts, ShortQueues
  <2> QED
    BY <1>3, <1>4, <2>1, <2>2, <2>3, DeliveredFacts
<1>9. Arrived(s)' = Waiting(r.events)
  BY <1>6 DEF Arrived
<1>10. RouterInOrder'
  <2>1. Waiting(output') = Waiting(output) /\ Waiting(ingress') = Waiting(ingress)
    BY <1>5
  <2> QED
    BY <1>4, <1>5, <1>7, <2>1 DEF InOrder, RouterInOrder, Genuine, Before
<1>11. SurfaceInOrder(s)'
  <2>1. Handled(s)' = Handled(s) /\ Arrived(s)' \subseteq Arrived(s) \cup {e}
        /\ Ordered(route'[s].events) /\ Ordered(got'[s])
    BY <1>5, <1>6, <1>8, <1>9 DEF Handled, InOrder, SurfaceInOrder
  <2>2. Before(Handled(s)', Arrived(s)')
    BY <1>7, <2>1 DEF InOrder, SurfaceInOrder, Before
  <2>3. Before(Handled(s)' \cup Arrived(s)', Underway')
    BY <1>7, <2>1 DEF InOrder, SurfaceInOrder, Before
  <2>4. Genuine(Handled(s) \cup Arrived(s))'
    <3>1. /\ sent' = sent /\ e.n \in 1..Len(sent) /\ sent[e.n] = e
          /\ Genuine(Handled(s) \cup Arrived(s))
      BY <1>5, <1>7 DEF InOrder, SurfaceInOrder
    <3> QED
      BY <2>1, <3>1 DEF Genuine
  <2>5. \A x \in Handled(s)' \cup Arrived(s)' : x.of = s
    <3>1. \A x \in Handled(s) \cup Arrived(s) : x.of = s
      BY DEF InOrder, SurfaceInOrder
    <3> QED
      BY <1>2, <2>1, <3>1
  <2> QED
    BY <2>1, <2>2, <2>3, <2>4, <2>5 DEF SurfaceInOrder
<1>12. ASSUME NEW t \in Surfaces \ {s} PROVE SurfaceInOrder(t)'
  <2>1. Handled(t)' = Handled(t) /\ Arrived(t)' = Arrived(t)
    BY <1>5, <1>6 DEF Handled, Arrived
  <2>2. SurfaceInOrder(t)
    BY DEF InOrder
  <2>3. Ordered(got'[t]) /\ Ordered(route'[t].events)
    BY <1>5, <1>6, <2>2 DEF SurfaceInOrder
  <2>4. /\ Before(Handled(t)', Arrived(t)')
        /\ \A x \in Handled(t)' \cup Arrived(t)' : x.of = t
    BY <2>1, <2>2 DEF SurfaceInOrder
  <2>5. Before(Handled(t)' \cup Arrived(t)', Underway')
    BY <1>7, <2>1, <2>2 DEF SurfaceInOrder, Before
  <2>6. Genuine(Handled(t) \cup Arrived(t))'
    BY <1>5, <2>1, <2>2 DEF SurfaceInOrder, Genuine
  <2> QED
    BY <2>3, <2>4, <2>5, <2>6 DEF SurfaceInOrder
<1>13. InOrder'
  BY <1>10, <1>11, <1>12 DEF InOrder
<1>14. \/ r.closed /\ s \notin routes'
       \/ ~r.closed /\ ~route[s].closed /\ (s \in routes' <=> s \in routes)
  BY <1>5, <1>8
<1> QED
  BY <1>2, <1>4, <1>5, <1>6, <1>8, <1>9, <1>13, <1>14

(* A thread handles the oldest event of its route.                         *)
LEMMA HandleKeepsOrder ==
  ASSUME TypeOK, InOrder, NEW s \in Surfaces, Handle(s)
  PROVE  /\ InOrder'
         /\ UNCHANGED <<sent, output, ingress, hand, boot, routes>>
         /\ Handled(s) \cup Arrived(s) = Handled(s)' \cup Arrived(s)'
         /\ Handled(s) \subseteq Handled(s)'
         /\ Handled(s)' \subseteq Handled(s) \cup Arrived(s)
         /\ \A t \in Surfaces : route'[t].closed = route[t].closed
         /\ \A t \in Surfaces \ {s} :
              Handled(t)' = Handled(t) /\ Arrived(t)' = Arrived(t)
<1>1. PICK q : q = route[s].events
  OBVIOUS
<1>2. PICK e : e = Head(q)
  OBVIOUS
<1>3. /\ route[s] \in Routes /\ q \in Queues /\ q # <<>>
      /\ got[s] \in Seq(Event) /\ got[s] \in Queues
      /\ UNCHANGED <<sent, output, ingress, hand, boot, routes>>
  BY <1>1, QueuesTyped
  DEF Handle, TypeOK, ingressVars, routerVars, bootVars
<1>4. /\ route'[s].events = Tail(q)
      /\ \A t \in Surfaces : route'[t].closed = route[t].closed
      /\ \A t \in Surfaces \ {s} : route'[t] = route[t]
  BY <1>1, <1>3 DEF Handle, TypeOK, Routes
<1>5. /\ got'[s] = IF e = End THEN got[s] ELSE Append(got[s], e)
      /\ \A t \in Surfaces \ {s} : got'[t] = got[t]
  BY <1>1, <1>2 DEF Handle, TypeOK
<1>6. /\ e \in Event \cup {End}
      /\ Arrived(s) = ({e} \ {End}) \cup Arrived(s)' /\ Ordered(Tail(q))
      /\ e # End => Before({e}, Arrived(s)')
  BY <1>1, <1>2, <1>3, <1>4, TailFacts
  DEF Arrived, InOrder, SurfaceInOrder
<1>7. e # End => Before(Handled(s), {e})
  BY <1>6 DEF InOrder, SurfaceInOrder, Before
<1>8. Handled(s)' = Handled(s) \cup ({e} \ {End}) /\ Ordered(got'[s])
  <2>1. CASE e = End
    BY <1>5, <2>1 DEF Handled, InOrder, SurfaceInOrder
  <2>2. CASE e # End
    <3>1. Ordered(got[s]) /\ got'[s] = Append(got[s], e)
      BY <1>5, <2>2 DEF InOrder, SurfaceInOrder
    <3>2. Waiting(got'[s]) = Waiting(got[s]) \cup {e} /\ Ordered(got'[s])
      BY <1>3, <1>6, <1>7, <2>2, <3>1, AppendFacts DEF Handled
    <3> QED
      BY <2>2, <3>2 DEF Handled
  <2> QED
    BY <2>1, <2>2
<1>9. /\ \A t \in Surfaces \ {s} :
           Handled(t)' = Handled(t) /\ Arrived(t)' = Arrived(t)
      /\ Underway' = Underway /\ InHand' = InHand /\ Queued' = Queued
  BY <1>3, <1>4, <1>5 DEF Handled, Arrived, Underway, Queued, InHand
<1>10. RouterInOrder'
  BY <1>3, <1>9 DEF InOrder, RouterInOrder, Genuine
<1>11. SurfaceInOrder(s)'
  <2>1. Handled(s)' \cup Arrived(s)' = Handled(s) \cup Arrived(s)
    BY <1>6, <1>8
  <2>2. Before(Handled(s)', Arrived(s)')
    BY <1>6, <1>8 DEF InOrder, SurfaceInOrder, Before
  <2>3. Before(Handled(s)' \cup Arrived(s)', Underway')
    BY <1>9, <2>1 DEF InOrder, SurfaceInOrder
  <2>4. Genuine(Handled(s) \cup Arrived(s))'
    BY <1>3, <2>1 DEF InOrder, SurfaceInOrder, Genuine
  <2>5. \A x \in Handled(s)' \cup Arrived(s)' : x.of = s
    BY <2>1 DEF InOrder, SurfaceInOrder
  <2>6. Ordered(got[s])' /\ Ordered(route[s].events)'
    BY <1>4, <1>6, <1>8
  <2> QED
    BY <2>2, <2>3, <2>4, <2>5, <2>6 DEF SurfaceInOrder
<1>12. ASSUME NEW t \in Surfaces \ {s} PROVE SurfaceInOrder(t)'
  <2>1. SurfaceInOrder(t)
    BY DEF InOrder
  <2>2. Ordered(got'[t]) /\ Ordered(route'[t].events)
    BY <1>4, <1>5, <2>1 DEF SurfaceInOrder
  <2>3. /\ Before(Handled(t)', Arrived(t)')
        /\ Before(Handled(t)' \cup Arrived(t)', Underway')
        /\ \A x \in Handled(t)' \cup Arrived(t)' : x.of = t
    BY <1>9, <2>1 DEF SurfaceInOrder
  <2>4. Genuine(Handled(t) \cup Arrived(t))'
    BY <1>3, <1>9, <2>1 DEF SurfaceInOrder, Genuine
  <2> QED
    BY <2>2, <2>3, <2>4 DEF SurfaceInOrder
<1> QED
  BY <1>3, <1>4, <1>6, <1>8, <1>9, <1>10, <1>11, <1>12 DEF InOrder

(* Every other step only drops events.                                     *)
LEMMA CallKeepsOrder ==
  ASSUME HeldInv, InOrder, NEW s \in Surfaces,
         BootStep(s) \/ Kill(s) \/ KillStep(s) \/ ThreadStep(s) \/ CloseOwed(s)
  PROVE  InOrder'
<1> USE DEF HeldInv, TypeOK
<1>1. CASE Handle(s)
  BY <1>1, HandleKeepsOrder
<1>2. CASE ~Handle(s)
  <2>1. UNCHANGED <<sent, output, ingress, hand, got>>
    BY <1>2
    DEF BootStep, CreateTarget, AttachTarget, Register, SetUp, MarkLive,
        StartThread, UndoBoot, Kill, KillStep, TakeSession, CloseTarget,
        ThreadStep, ThreadKills, ThreadEnds, CloseOwed, ingressVars, routerVars
  <2>2. \A t \in Surfaces \ {s} : route'[t] = route[t]
    BY <1>2
    DEF BootStep, CreateTarget, AttachTarget, Register, SetUp, MarkLive,
        StartThread, UndoBoot, Kill, KillStep, TakeSession, CloseTarget,
        Unregister, ThreadStep, ThreadKills, ThreadEnds, CloseOwed
  <2>3. route'[s] \in {route[s], CloseRoute(route[s]), FailedRoute, OpenRoute}
    BY <1>2
    DEF BootStep, CreateTarget, AttachTarget, Register, SetUp, MarkLive,
        StartThread, UndoBoot, Kill, KillStep, TakeSession, CloseTarget,
        Unregister, ThreadStep, ThreadKills, ThreadEnds, CloseOwed
  <2>4. route'[s].events \in {route[s].events, <<>>, <<End>>}
    BY <2>3, CloseRouteFacts, RouteFacts
  <2> QED
    BY <2>1, <2>2, <2>4, DropsKeepOrder
<1> QED
  BY <1>1, <1>2

LEMMA StepOrder ==
  ASSUME HeldInv, InOrder, [Next]_vars PROVE InOrder'
<1> USE DEF HeldInv
<1>1. ASSUME NEW s \in Surfaces, NEW kind \in {"frame", "note"}, Arrives(s, kind)
      PROVE  InOrder'
  BY <1>1, ArrivesKeepsOrder
<1>2. CASE SocketEnds \/ ReaderStops
  BY <1>2, DropsKeepOrder
  DEF SocketEnds, CloseConnection, ReaderStops, routerVars
<1>3. CASE DrainOne
  BY <1>3, DrainKeepsOrder
<1>4. CASE Shutdown \/ RouterSeesEnd
  BY <1>4, DropsKeepOrder DEF Shutdown, RouterSeesEnd, ingressVars
<1>5. CASE RouterTakes
  BY <1>5, TakesKeepsOrder
<1>6. CASE RouterDelivers
  BY <1>6, DeliversKeepsOrder
<1>7. CASE UNCHANGED vars
  BY <1>7, DropsKeepOrder DEF vars, ingressVars, routerVars
<1> QED
  BY <1>1, <1>2, <1>3, <1>4, <1>5, <1>6, <1>7, CallKeepsOrder DEF Next

-----------------------------------------------------------------------------
(* The notes of a surface.                                                 *)

LEMMA InitNotes == Init => NotesAreKept
<1> SUFFICES ASSUME Init PROVE NotesAreKept
  OBVIOUS
<1>1. Waiting(sent) = {}
  BY ShortQueues DEF Init
<1> QED
  BY <1>1 DEF NotesAreKept, NotesKept, Notes, Of, Kept, NoneLost

(* Dropping the end of a line keeps the notes.                             *)
LEMMA KeptPrefix ==
  ASSUME NEW notes, NEW line, NEW rest, rest \subseteq line,
         Kept(notes, line), Before(rest, line \ rest)
  PROVE  Kept(notes, rest)
BY DEF Kept, Before

LEMMA LineOrder ==
  ASSUME InOrder, NEW s \in Surfaces
  PROVE  /\ Before(Handled(s), Routed(s))
         /\ Before(Handled(s) \cup Routed(s), Coming(s))
BY DEF InOrder, RouterInOrder, SurfaceInOrder, Routed, Coming, Of, Underway,
       Before

(* A step that sends nothing keeps the notes of a surface if it keeps its  *)
(* line, ...                                                               *)
LEMMA SameLineKeepsNotes ==
  ASSUME NotesAreKept, UNCHANGED sent, NEW s \in Surfaces, Line(s)' = Line(s),
         ~closed' /\ Reachable(s)' => ~closed /\ Reachable(s)
  PROVE  NotesKept(s)'
<1>1. Notes(s)' = Notes(s)
  BY DEF Notes
<1> QED
  BY <1>1 DEF NotesAreKept, NotesKept

(* ... or drops some of what comes last in it, and nothing more can come.  *)
LEMMA CutKeepsNotes ==
  ASSUME InOrder, NotesAreKept, UNCHANGED sent, NEW s \in Surfaces,
         closed' \/ ~Reachable(s)', Handled(s)' = Handled(s),
         \/ /\ Routed(s)' = Routed(s) /\ Coming(s)' \subseteq Coming(s)
            /\ Before(Coming(s)', Coming(s) \ Coming(s)')
         \/ Routed(s)' = {} /\ Coming(s)' = {}
  PROVE  NotesKept(s)'
<1>1. Line(s)' \subseteq Line(s) /\ Before(Line(s)', Line(s) \ Line(s)')
  BY LineOrder DEF Line, Before
<1>2. Notes(s)' = Notes(s)
  BY DEF Notes
<1> QED
  BY <1>1, <1>2, KeptPrefix DEF NotesAreKept, NotesKept

(* A step that moves no event: each surface keeps its route and does not   *)
(* become reachable, or its route is closed and it cannot be reached.      *)
LEMMA RoutesKeepNotes ==
  ASSUME HeldInv, InOrder, NotesAreKept,
         UNCHANGED <<sent, got, hand, closed>>, Queued' = Queued,
         \A s \in Surfaces :
           \/ /\ route'[s].closed = route[s].closed
              /\ route'[s].events = route[s].events
              /\ Reachable(s)' => Reachable(s)
           \/ route'[s].closed /\ ~Reachable(s)'
  PROVE  NotesAreKept'
<1> SUFFICES ASSUME NEW s \in Surfaces PROVE NotesKept(s)'
  BY DEF NotesAreKept
<1>1. Handled(s)' = Handled(s) /\ InHand' = InHand
  BY DEF Handled, InHand
<1>2. CASE route'[s].closed /\ ~Reachable(s)'
  BY <1>1, <1>2, CutKeepsNotes DEF Routed, Coming
<1>3. CASE /\ route'[s].closed = route[s].closed
           /\ route'[s].events = route[s].events
           /\ Reachable(s)' => Reachable(s)
  <2>1. Routed(s)' = Routed(s)
    BY <1>1, <1>3 DEF Routed, Arrived, Of
  <2>2. CASE Reachable(s) /\ ~Reachable(s)'
    BY <1>1, <2>1, <2>2, CutKeepsNotes DEF Coming, Before
  <2>3. CASE Reachable(s)' <=> Reachable(s)
    BY <1>1, <1>3, <2>1, <2>3, SameLineKeepsNotes DEF Line, Coming, Of
  <2> QED
    BY <1>3, <2>2, <2>3
<1> QED
  BY <1>2, <1>3

LEMMA CallKeepsNotes ==
  ASSUME RoutesInv, NEW s \in Surfaces,
         BootStep(s) \/ Kill(s) \/ KillStep(s) \/ ThreadStep(s) \/ CloseOwed(s)
  PROVE  NotesAreKept'
<1> USE DEF RoutesInv, HeldInv, TypeOK
<1> DEFINE Same(t) == /\ route'[t].closed = route[t].closed
                      /\ route'[t].events = route[t].events
                      /\ Reachable(t)' => Reachable(t)
           Closed(t) == route'[t].closed /\ ~Reachable(t)'
<1>1. CASE Handle(s)
  <2>0. UNCHANGED <<sent, closed, boot, routes>>
    BY <1>1 DEF Handle, ingressVars, routerVars, bootVars
  <2> SUFFICES ASSUME NEW t \in Surfaces PROVE Line(t)' = Line(t)
    BY <2>0, SameLineKeepsNotes DEF NotesAreKept, Reachable
  <2>1. /\ Handled(t) \cup Arrived(t) = Handled(t)' \cup Arrived(t)'
        /\ Handled(t) \subseteq Handled(t)'
        /\ Handled(t)' \subseteq Handled(t) \cup Arrived(t)
        /\ route'[t].closed = route[t].closed
        /\ UNCHANGED <<output, ingress, hand, boot, routes>>
    BY <1>1, HandleKeepsOrder
  <2>2. Coming(t)' = Coming(t) /\ InHand' = InHand
    BY <2>1 DEF Coming, Queued, Reachable, InHand, Of
  <2>3. CASE route[t].closed
    <3>1. Arrived(t) = {}
      BY <2>3 DEF MapsHoldOpenRoutes, Arrived
    <3>2. Handled(t)' = Handled(t)
      BY <2>1, <3>1
    <3> QED
      BY <2>1, <2>2, <2>3, <3>2 DEF Line, Routed
  <2>4. CASE ~route[t].closed
    BY <2>1, <2>2, <2>4 DEF Line, Routed, Of
  <2> QED
    BY <2>3, <2>4
<1>2. CASE ~Handle(s)
  <2>1. /\ UNCHANGED <<sent, output, ingress, closed, hand, got>>
        /\ Queued' = Queued
    BY <1>2
    DEF BootStep, CreateTarget, AttachTarget, Register, SetUp, MarkLive,
        StartThread, UndoBoot, Kill, KillStep, TakeSession, CloseTarget,
        ThreadStep, ThreadKills, ThreadEnds, CloseOwed, ingressVars, routerVars,
        Queued
  <2>2. ASSUME NEW t \in Surfaces PROVE Same(t) \/ Closed(t)
    <3>1. CASE CreateTarget(s) \/ AttachTarget(s)
      BY <3>1 DEF CreateTarget, AttachTarget, BootGoes, Reachable, Unregistered,
                  routerVars
    <3>2. CASE Register(s)
      <4>1. /\ route[s] = NoRoute
            /\ boot[s] = "attached" /\ boot' = [boot EXCEPT ![s] = "registered"]
        BY <3>2, RouteFacts
        DEF Register, BootGoes, MapsHoldOpenRoutes, Unregistered
      <4>2. CASE gone
        <5>1. /\ route' = [route EXCEPT ![s] = FailedRoute]
              /\ routes' = routes /\ routes = {}
          BY <3>2, <4>2 DEF Register, MapsHoldOpenRoutes
        <5> QED
          BY <4>1, <5>1, RouteFacts DEF Reachable, Unregistered
      <4>3. CASE ~gone
        <5>1. /\ route' = [route EXCEPT ![s] = OpenRoute]
              /\ routes' = routes \cup {s}
          BY <3>2, <4>3 DEF Register
        <5>2. /\ OpenRoute.closed = NoRoute.closed
              /\ OpenRoute.events = NoRoute.events
          BY DEF OpenRoute, NoRoute
        <5>3. CASE t = s
          BY <4>1, <5>1, <5>2, <5>3 DEF Reachable, Unregistered
        <5>4. CASE t # s
          BY <4>1, <5>1, <5>4 DEF Reachable
        <5> QED
          BY <5>3, <5>4
      <4> QED
        BY <4>2, <4>3
    <3>3. CASE SetUp(s) \/ MarkLive(s) \/ StartThread(s)
      BY <3>3 DEF SetUp, MarkLive, StartThread, BootGoes, Reachable,
                  Unregistered, routerVars
    <3>4. CASE UndoBoot(s) \/ TakeSession(s)
      <4>1. /\ t # s => /\ boot'[t] = boot[t] /\ route'[t] = route[t]
                        /\ t \in routes' => t \in routes
            /\ boot[s] \notin Unregistered => boot'[s] \notin Unregistered
        <5>1. \/ boot' = [boot EXCEPT ![s] = "failed"]
              \/ boot' = boot
          BY <3>4 DEF UndoBoot, TakeSession, BootGoes
        <5>2. /\ t # s => route'[t] = route[t]
              /\ t \in routes' => t \in routes
          BY <3>4 DEF UndoBoot, TakeSession, Unregister
        <5> QED
          BY <5>1, <5>2 DEF Unregistered
      <4>2. /\ boot[s] \in Unregistered => boot'[s] = boot[s]
            /\ \/ s \in routes /\ Unregister(s)
               \/ route' = route /\ routes' \subseteq routes
        BY <3>4 DEF UndoBoot, TakeSession, Unregister, Unregistered
      <4>3. CASE t = s /\ s \in routes /\ Unregister(s)
        <5>1. route[s].made /\ route'[s].closed /\ s \notin routes'
          BY <4>3, CloseRouteFacts DEF Unregister, MapsHoldOpenRoutes
        <5> QED
          BY <4>1, <4>3, <5>1 DEF Reachable, MapsHoldOpenRoutes
      <4>4. CASE t = s /\ route' = route /\ routes' \subseteq routes
        BY <4>1, <4>2, <4>4 DEF Reachable
      <4>5. CASE t # s
        BY <4>1, <4>5 DEF Reachable
      <4> QED
        BY <4>2, <4>3, <4>4, <4>5
    <3>5. CASE Kill(s) \/ CloseTarget(s) \/ ThreadEnds(s)
      BY <3>5 DEF Kill, CloseTarget, ThreadEnds, Reachable, routerVars, bootVars
    <3>6. CASE CloseOwed(s)
      <4>1. /\ route[s].made /\ gone /\ routes = {} /\ routes' = routes
            /\ boot' = boot
        BY <3>6 DEF CloseOwed, MapsHoldOpenRoutes, bootVars
      <4>2. t # s => route'[t] = route[t]
        BY <3>6 DEF CloseOwed
      <4>3. route'[s].closed
        BY <3>6, CloseRouteFacts DEF CloseOwed
      <4> QED
        BY <4>1, <4>2, <4>3 DEF Reachable, MapsHoldOpenRoutes
    <3> QED
      BY <1>2, <3>1, <3>2, <3>3, <3>4, <3>5, <3>6
      DEF BootStep, KillStep, ThreadStep, ThreadKills
  <2> QED
    BY <2>1, <2>2, RoutesKeepNotes
<1> QED
  BY <1>1, <1>2

(* The new event is in the line, or after it if the queue was lost.        *)
LEMMA ArrivalKeepsNotes ==
  ASSUME RoutesInv, NEW s \in Surfaces, NEW kind \in {"frame", "note"},
         Arrives(s, kind)
  PROVE  NotesAreKept'
<1> USE DEF RoutesInv, HeldInv
<1>0. PICK e : e = [n |-> Len(sent) + 1, kind |-> kind, of |-> s]
  OBVIOUS
<1>1. /\ e \in Event
      /\ \A t \in Surfaces :
           Before(Handled(t) \cup Arrived(t) \cup Underway, {e})
      /\ Waiting(sent') = Waiting(sent) \cup {e}
      /\ Waiting(ingress') \subseteq Waiting(ingress) \cup {e}
      /\ \/ ingress' = <<End>> /\ closed'
         \/ /\ e \in Waiting(ingress') /\ ~closed /\ ~closed'
            /\ \A x \in Waiting(ingress) \ Waiting(ingress') : x.kind = "frame"
  BY <1>0, ArrivesKeepsOrder
<1>2. UNCHANGED <<output, hand, routes, route, boot, got>>
  BY DEF Arrives, CloseConnection, routerVars, bootVars
<1> SUFFICES ASSUME NEW t \in Surfaces PROVE NotesKept(t)'
  BY DEF NotesAreKept
<1>3. /\ Handled(t)' = Handled(t) /\ Routed(t)' = Routed(t)
      /\ Reachable(t)' = Reachable(t) /\ Waiting(output') = Waiting(output)
  BY <1>2 DEF Handled, Routed, Arrived, InHand, Of, Reachable
<1>4. Notes(t)' \subseteq Notes(t) \cup {e}
  BY <1>1 DEF Notes, Of
<1>5. Before(Line(t), {e})
  BY <1>1 DEF Line, Routed, Coming, Of, Underway, Before
<1>8. Before(Waiting(sent), {e})
  BY <1>0, QueuesTyped DEF InOrder, RouterInOrder, Waiting, Before
<1>6. CASE ingress' = <<End>> /\ closed'
  <2>1. /\ Coming(t)' \subseteq Coming(t)
        /\ Before(Coming(t)', Coming(t) \ Coming(t)')
    BY <1>3, <1>6, ShortQueues
    DEF Coming, Queued, Of, InOrder, RouterInOrder, Before
  <2>2. Line(t)' \subseteq Line(t) /\ Before(Line(t)', Line(t) \ Line(t)')
    BY <1>3, <2>1, LineOrder DEF Line, Before
  <2>3. Kept(Notes(t), Line(t)')
    BY <2>2, KeptPrefix DEF NotesAreKept, NotesKept
  <2>4. Before(Line(t)', {e})
    BY <1>5, <2>2 DEF Before
  <2> QED
    BY <1>4, <1>6, <2>3, <2>4 DEF NotesKept, Kept
<1>7. CASE /\ e \in Waiting(ingress') /\ ~closed /\ ~closed'
           /\ \A x \in Waiting(ingress) \ Waiting(ingress') : x.kind = "frame"
  <2>1. /\ Line(t)' \subseteq Line(t) \cup {e}
        /\ \A x \in Line(t) \ Line(t)' : x.kind = "frame"
    BY <1>1, <1>3, <1>7 DEF Line, Coming, Queued, Of
  <2>2. CASE Reachable(t)
    <3>1. ASSUME NEW x \in Notes(t)
          PROVE  x \in Line(t)' \/ Before({x}, Line(t)')
      <4>1. x.kind = "note" /\ x.n < e.n
        BY <1>8, <3>1 DEF Notes, Of, Before
      <4>2. x \in Line(t) \/ Before({x}, Line(t))
        BY <1>7, <2>2, <3>1 DEF NotesAreKept, NotesKept, NoneLost
      <4> QED
        BY <2>1, <4>1, <4>2 DEF Before
    <3>2. e \in Notes(t)' => e \in Line(t)'
      BY <1>3, <1>7, <2>2 DEF Notes, Of, Line, Coming, Queued
    <3>3. NoneLost(Notes(t)', Line(t)')
      BY <1>4, <3>1, <3>2 DEF NoneLost
    <3> QED
      BY <3>3 DEF NotesKept, NoneLost, Kept
  <2>3. CASE ~Reachable(t)
    <3>1. Line(t)' = Line(t)
      BY <1>3, <2>3 DEF Line, Coming
    <3> QED
      BY <1>3, <1>4, <1>5, <2>3, <3>1 DEF NotesAreKept, NotesKept, Kept
  <2> QED
    BY <2>2, <2>3
<1> QED
  BY <1>1, <1>6, <1>7

LEMMA TakesKeepsNotes ==
  ASSUME RoutesInv, RouterTakes PROVE NotesAreKept'
<1> USE DEF RoutesInv, HeldInv
<1>0. PICK e : e = Head(output)
  OBVIOUS
<1>1. /\ InHand = {}
      /\ \/ e = End /\ InHand' = {} /\ Queued' = Queued
         \/ /\ e \in Event /\ e # End /\ Queued = {e} \cup Queued'
            /\ Before({e}, Queued')
            /\ InHand' = IF e.of \in routes THEN {e} ELSE {}
  BY <1>0, TakesKeepsOrder
<1>2. UNCHANGED <<sent, closed, route, got, boot>>
  BY DEF RouterTakes, bootVars
<1> SUFFICES ASSUME NEW t \in Surfaces PROVE NotesKept(t)'
  BY DEF NotesAreKept
<1>3. Handled(t)' = Handled(t) /\ Arrived(t)' = Arrived(t)
  BY <1>2 DEF Handled, Arrived
<1>4. CASE e = End
  <2>1. routes' = {}
    BY <1>0, <1>4 DEF RouterTakes, CloseRuntime
  <2>2. Routed(t)' = Routed(t) /\ Queued' = Queued
    BY <1>1, <1>2, <1>3, <1>4, EventFacts DEF Routed, Of
  <2>3. CASE t \in routes
    <3>1. ~Reachable(t)'
      BY <1>2, <2>1, <2>3 DEF Reachable, MapsHoldOpenRoutes
    <3> QED
      BY <1>2, <1>3, <2>2, <3>1, CutKeepsNotes DEF Coming, Before
  <2>4. CASE t \notin routes
    <3>1. Reachable(t)' <=> Reachable(t)
      BY <1>2, <2>1, <2>4 DEF Reachable
    <3> QED
      BY <1>2, <1>3, <2>2, <3>1, SameLineKeepsNotes DEF Line, Coming, Of
  <2> QED
    BY <2>3, <2>4
<1>5. CASE e # End
  <2>1. UNCHANGED routes /\ (Reachable(t)' <=> Reachable(t))
    BY <1>0, <1>2, <1>5 DEF RouterTakes, Reachable
  <2>2. CASE t # e.of \/ ~Reachable(t)
    <3>1. t # e.of \/ e.of \notin routes
      BY <2>2 DEF Reachable
    <3>2. Of(InHand', t) = {} /\ Of(InHand, t) = {}
      BY <1>1, <1>5, <3>1 DEF Of
    <3>3. Coming(t)' = Coming(t)
      BY <1>1, <1>5, <2>1, <2>2 DEF Coming, Of
    <3>4. Line(t)' = Line(t)
      BY <1>2, <1>3, <3>2, <3>3 DEF Line, Routed
    <3> QED
      BY <1>2, <2>1, <3>4, SameLineKeepsNotes
  <2>3. CASE t = e.of /\ t \in routes
    <3>1. ~route[t].closed
      BY <2>3 DEF MapsHoldOpenRoutes
    <3>2. Routed(t) = Arrived(t) /\ Routed(t)' = Arrived(t) \cup {e}
      BY <1>1, <1>2, <1>3, <1>5, <2>3, <3>1 DEF Routed, Of
    <3>3. Coming(t) = {e} \cup Coming(t)'
      BY <1>1, <1>5, <2>1, <2>3 DEF Coming, Reachable, Of
    <3>4. Line(t)' = Line(t)
      BY <1>3, <3>2, <3>3 DEF Line
    <3> QED
      BY <1>2, <2>1, <3>4, SameLineKeepsNotes
  <2>4. CASE t = e.of /\ t \notin routes /\ Reachable(t)
    <3>1. Arrived(t) = {} /\ Handled(t) = {}
      BY <2>4, RouteFacts, ShortQueues
      DEF Reachable, MapsHoldOpenRoutes, Arrived, Handled
    <3>2. Line(t)' = Of(Queued', t) /\ Line(t) = {e} \cup Of(Queued', t)
      BY <1>1, <1>2, <1>3, <1>5, <2>1, <2>4, <3>1
      DEF Line, Routed, Coming, Of
    <3>3. Before({e}, Line(t)')
      BY <1>1, <1>5, <3>2 DEF Of, Before
    <3>4. Notes(t)' = Notes(t)
      BY <1>2 DEF Notes
    <3>5. Kept(Notes(t), Line(t)')
      BY <3>2, <3>3 DEF NotesAreKept, NotesKept, Kept, Before
    <3>6. ~closed => NoneLost(Notes(t), Line(t)')
      BY <2>4, <3>2, <3>3 DEF NotesAreKept, NotesKept, NoneLost, Before
    <3> QED
      BY <1>2, <3>4, <3>5, <3>6 DEF NotesKept
  <2> QED
    BY <2>2, <2>3, <2>4
<1> QED
  BY <1>4, <1>5

LEMMA DeliversKeepsNotes ==
  ASSUME RoutesInv, RouterDelivers PROVE NotesAreKept'
<1> USE DEF RoutesInv, HeldInv
<1>1. PICK e \in Event :
        /\ InHand = {e} /\ e.of \in Surfaces
        /\ \A t \in Surfaces \ {e.of} :
             route'[t] = route[t] /\ (t \in routes' <=> t \in routes)
        /\ LET r == route'[e.of]
           IN \/ r.closed /\ e.of \notin routes'
              \/ /\ ~r.closed /\ ~route[e.of].closed
                 /\ e.of \in routes' <=> e.of \in routes
                 /\ e \in Arrived(e.of)'
                 /\ Arrived(e.of)' \subseteq Arrived(e.of) \cup {e}
                 /\ \A x \in Arrived(e.of) \ Arrived(e.of)' : x.kind = "frame"
  BY DeliversKeepsOrder
<1>2. UNCHANGED <<sent, closed, output, ingress, got, boot>> /\ InHand' = {}
      /\ Queued' = Queued
  BY DeliversKeepsOrder DEF RouterDelivers, ingressVars, Queued
<1> SUFFICES ASSUME NEW t \in Surfaces PROVE NotesKept(t)'
  BY DEF NotesAreKept
<1>3. Handled(t)' = Handled(t)
  BY <1>2 DEF Handled
<1>4. CASE t # e.of
  <2>1. Routed(t)' = Routed(t)
    BY <1>1, <1>2, <1>4 DEF Routed, Arrived, Of
  <2>2. Reachable(t)' <=> Reachable(t)
    BY <1>1, <1>2, <1>4 DEF Reachable
  <2>3. Line(t)' = Line(t)
    BY <1>2, <1>3, <2>1, <2>2 DEF Line, Coming, Of
  <2> QED
    BY <1>2, <2>2, <2>3, SameLineKeepsNotes
<1>5. CASE t = e.of /\ route'[t].closed /\ t \notin routes'
  <2>1. ~Reachable(t)'
    BY <1>1, <1>2, <1>5 DEF Reachable, MapsHoldOpenRoutes
  <2> QED
    BY <1>2, <1>3, <1>5, <2>1, CutKeepsNotes DEF Routed, Coming
<1>6. CASE /\ t = e.of /\ ~route'[t].closed /\ ~route[t].closed
           /\ t \in routes' <=> t \in routes
           /\ e \in Arrived(t)' /\ Arrived(t)' \subseteq Arrived(t) \cup {e}
           /\ \A x \in Arrived(t) \ Arrived(t)' : x.kind = "frame"
  <2>1. (Reachable(t)' <=> Reachable(t)) /\ Coming(t)' = Coming(t)
    BY <1>2, <1>6 DEF Reachable, Coming, Of
  <2>2. Routed(t) = Arrived(t) \cup {e} /\ Routed(t)' = Arrived(t)'
    BY <1>1, <1>2, <1>6 DEF Routed, Of
  <2>3. Line(t)' \subseteq Line(t)
        /\ \A x \in Line(t) \ Line(t)' : x.kind = "frame"
    BY <1>3, <1>6, <2>1, <2>2 DEF Line
  <2>4. Notes(t)' = Notes(t) /\ \A x \in Notes(t) : x.kind = "note"
    BY <1>2 DEF Notes
  <2>5. Kept(Notes(t), Line(t)')
    BY <2>3, <2>4 DEF NotesAreKept, NotesKept, Kept, Before
  <2>6. ~closed /\ Reachable(t) => NoneLost(Notes(t), Line(t)')
    BY <2>3, <2>4 DEF NotesAreKept, NotesKept, NoneLost, Before
  <2> QED
    BY <1>2, <2>1, <2>4, <2>5, <2>6 DEF NotesKept
<1> QED
  BY <1>1, <1>4, <1>5, <1>6

LEMMA StepNotes ==
  ASSUME RoutesInv, [Next]_vars PROVE NotesAreKept'
<1> USE DEF RoutesInv, HeldInv
<1>1. ASSUME UNCHANGED <<sent, closed, got, hand, boot, route>>,
             Queued' = Queued, routes' \subseteq routes
      PROVE  NotesAreKept'
  <2>1. \A s \in Surfaces : Reachable(s)' => Reachable(s)
    BY <1>1 DEF Reachable
  <2> QED
    BY <1>1, <2>1, RoutesKeepNotes
<1>2. CASE SocketEnds
  <2>1. /\ UNCHANGED <<sent, output, hand, routes, route, boot, got>>
        /\ ingress' = <<End>> /\ closed'
    BY <1>2 DEF SocketEnds, CloseConnection, routerVars, bootVars
  <2> SUFFICES ASSUME NEW t \in Surfaces PROVE NotesKept(t)'
    BY DEF NotesAreKept
  <2>2. /\ Handled(t)' = Handled(t) /\ Routed(t)' = Routed(t)
        /\ Reachable(t)' <=> Reachable(t)
    BY <2>1 DEF Handled, Routed, Arrived, InHand, Of, Reachable
  <2>3. Waiting(ingress') = {} /\ Waiting(output') = Waiting(output)
    BY <2>1, ShortQueues
  <2>4. /\ Coming(t)' \subseteq Coming(t)
        /\ Before(Coming(t)', Coming(t) \ Coming(t)')
    BY <2>2, <2>3 DEF Coming, Queued, Of, InOrder, RouterInOrder, Before
  <2> QED
    BY <2>1, <2>2, <2>4, CutKeepsNotes
<1>3. CASE DrainOne
  BY <1>1, <1>3, DrainKeepsOrder DEF DrainOne, routerVars, bootVars
<1>4. CASE ReaderStops
  BY <1>1, <1>4 DEF ReaderStops, routerVars, bootVars, Queued
<1>5. CASE Shutdown \/ RouterSeesEnd
  BY <1>1, <1>5
  DEF Shutdown, RouterSeesEnd, CloseRuntime, ingressVars, bootVars, Queued
<1>6. CASE UNCHANGED vars
  BY <1>1, <1>6 DEF vars, ingressVars, routerVars, bootVars, Queued
<1> QED
  BY <1>2, <1>3, <1>4, <1>5, <1>6, CallKeepsNotes, ArrivalKeepsNotes,
     TakesKeepsNotes, DeliversKeepsNotes
  DEF Next

(* What an event in line for a surface is to the events it has handled.    *)
LEMMA OrderFact == RoutesInv => EventsInOrder
<1> SUFFICES ASSUME RoutesInv, NEW s \in Surfaces, NEW i \in 1..Len(got[s]) - 1
             PROVE  /\ got[s][i].n < got[s][i + 1].n
                    /\ \A n \in got[s][i].n + 1 .. got[s][i + 1].n - 1 :
                         sent[n].of = s => sent[n].kind = "frame"
  BY DEF EventsInOrder
<1> USE DEF RoutesInv, HeldInv
<1>1. PICK a \in Event, b \in Event : a = got[s][i] /\ b = got[s][i + 1]
  <2>1. got[s] \in Seq(Event) /\ Len(got[s]) \in Nat
    BY LenProperties DEF TypeOK
  <2>2. i \in 1..Len(got[s]) /\ i + 1 \in 1..Len(got[s])
    BY <2>1
  <2> QED
    BY <2>1, <2>2, ElementOfSeq
<1>2. /\ Len(got[s]) \in Nat /\ i \in 1..Len(got[s]) /\ i + 1 \in 1..Len(got[s])
      /\ sent \in Seq(Event) /\ Len(sent) \in Nat /\ Ordered(got[s])
      /\ \A j \in 1..Len(got[s]) : got[s][j] \in Event
      /\ \A n \in 1..Len(sent) : sent[n] \in Event /\ sent[n].n = n
  <2>1. got[s] \in Seq(Event) /\ sent \in Seq(Event)
    BY DEF TypeOK
  <2>2. Len(got[s]) \in Nat /\ Len(sent) \in Nat
    BY <2>1, LenProperties
  <2>3. \A j \in 1..Len(got[s]) : got[s][j] \in Event
    BY <2>1, ElementOfSeq
  <2>4. \A n \in 1..Len(sent) : sent[n] \in Event
    BY <2>1, ElementOfSeq
  <2>5. \A n \in 1..Len(sent) : sent[n].n = n
    BY DEF InOrder, RouterInOrder
  <2>6. Ordered(got[s])
    BY DEF InOrder, SurfaceInOrder
  <2> QED
    BY <2>1, <2>2, <2>3, <2>4, <2>5, <2>6
<1>3. a.n < b.n /\ a \in Handled(s) /\ b \in Handled(s)
  BY <1>1, <1>2, EventFacts DEF Ordered, Handled, Waiting
<1>4. ASSUME NEW n \in a.n + 1 .. b.n - 1, sent[n].of = s
      PROVE  sent[n].kind = "frame"
  <2> SUFFICES ASSUME sent[n].kind # "frame" PROVE FALSE
    OBVIOUS
  <2>0. Genuine(Handled(s) \cup Arrived(s))
    BY DEF InOrder, SurfaceInOrder
  <2>1. a.n \in Nat /\ b.n \in 1..Len(sent)
    <3>1. a.n \in 1..Len(sent) /\ b.n \in 1..Len(sent)
      BY <1>3, <2>0 DEF Genuine
    <3> QED
      BY <1>2, <3>1
  <2>2. n \in 1..Len(sent) /\ sent[n] \in Event /\ sent[n].n = n
    BY <1>2, <2>1
  <2>3. sent[n] \in Notes(s)
    BY <1>4, <2>2, EventFacts DEF Notes, Of, Waiting
  <2>4. a \in Line(s) /\ b \in Line(s)
    BY <1>3 DEF Line
  <2>5. sent[n] \in Line(s)
    BY <2>1, <2>2, <2>3, <2>4
    DEF NotesAreKept, NotesKept, Kept, Before
  <2>6. sent[n] \in Handled(s)
    <3>1. Before(Handled(s), Routed(s) \cup Coming(s))
      BY LineOrder DEF Before
    <3> QED
      BY <1>3, <2>1, <2>2, <2>5, <3>1 DEF Line, Before
  <2>7. PICK j \in 1..Len(got[s]) : got[s][j] = sent[n]
    BY <2>6 DEF Handled, Waiting
  <2>8. j < i + 1
    <3> SUFFICES ASSUME ~(j < i + 1), j # i + 1 PROVE FALSE
      BY <1>1, <2>1, <2>2, <2>7
    <3>0. i + 1 < j /\ got[s][i + 1] # End /\ got[s][j] # End
      BY <1>2, <2>7, EventFacts
    <3>1. got[s][i + 1].n < got[s][j].n
      BY <1>2, <2>7, <3>0 DEF Ordered
    <3> QED
      BY <1>1, <2>1, <2>2, <2>7, <3>1
  <2>9. i < j
    <3> SUFFICES ASSUME ~(i < j), j # i PROVE FALSE
      BY <1>1, <2>1, <2>2, <2>7
    <3>0. j < i /\ got[s][j] # End /\ got[s][i] # End
      BY <1>2, <2>7, EventFacts
    <3>1. got[s][j].n < got[s][i].n
      BY <1>2, <2>7, <3>0 DEF Ordered
    <3> QED
      BY <1>1, <2>1, <2>2, <2>7, <3>1
  <2> QED
    BY <1>2, <2>8, <2>9
<1> QED
  BY <1>1, <1>3, <1>4

-----------------------------------------------------------------------------
(* The capacities of the queues.                                           *)

(* A route keeps no more events than it had, its capacity, or its end.     *)
LEMMA RouteBound ==
  ASSUME TypeOK, QueuesAreBounded,
         \A s \in Surfaces :
           \/ route'[s].events \in {route[s].events, <<>>, <<End>>}
           \/ route[s].events # <<>> /\ route'[s].events = Tail(route[s].events)
           \/ Len(route'[s].events) <= RouteCapacity
  PROVE  \A s \in Surfaces : Len(route'[s].events) <= RouteCapacity
<1> SUFFICES ASSUME NEW s \in Surfaces
             PROVE  Len(route'[s].events) <= RouteCapacity
  OBVIOUS
<1>1. RouteCapacity \in Nat \ {0}
  BY RoutesAssumption
<1>2. route[s].events \in Queues /\ Len(route[s].events) \in Nat
  BY QueuesTyped, LenProperties DEF Queues
<1>3. Len(route[s].events) <= RouteCapacity
  BY DEF QueuesAreBounded
<1>4. route[s].events # <<>> =>
        Len(Tail(route[s].events)) = Len(route[s].events) - 1
  BY <1>2, HeadTailProperties DEF Queues
<1>5. CASE route[s].events # <<>> /\ route'[s].events = Tail(route[s].events)
  BY <1>1, <1>2, <1>3, <1>4, <1>5
<1>6. \A q \in {<<>>, <<End>>} : Len(q) <= RouteCapacity
  <2>1. Len(<<>>) <= RouteCapacity
    BY <1>1, ShortQueues
  <2>2. Len(<<End>>) <= RouteCapacity
    BY <1>1, ShortQueues
  <2> QED
    BY <2>1, <2>2
<1> QED
  BY <1>3, <1>5, <1>6

LEMMA CallBounds ==
  ASSUME TypeOK, QueuesAreBounded, NEW s \in Surfaces,
         BootStep(s) \/ Kill(s) \/ KillStep(s) \/ ThreadStep(s) \/ CloseOwed(s)
  PROVE  QueuesAreBounded'
<1> USE DEF TypeOK
<1>1. UNCHANGED <<ingress, output>>
  BY DEF BootStep, CreateTarget, AttachTarget, Register, SetUp, MarkLive,
         StartThread, UndoBoot, Kill, KillStep, TakeSession, CloseTarget,
         ThreadStep, Handle, ThreadKills, ThreadEnds, CloseOwed, ingressVars
<1>2. CloseRoute(route[s]).events \in {route[s].events, <<End>>}
  BY CloseRouteFacts, RouteFacts
<1>3. CASE Register(s)
  BY <1>1, <1>3, RouteFacts, RouteBound DEF Register, QueuesAreBounded
<1>4. CASE UndoBoot(s) \/ TakeSession(s) \/ CloseOwed(s)
  <2>1. \A t \in Surfaces :
          route'[t].events \in {route[t].events, <<End>>}
    BY <1>2, <1>4 DEF UndoBoot, TakeSession, CloseOwed, Unregister
  <2> QED
    BY <1>1, <2>1, RouteBound DEF QueuesAreBounded
<1>5. CASE Handle(s)
  <2>1. route[s].events # <<>>
        /\ \A t \in Surfaces :
             route'[t].events = IF t = s THEN Tail(route[s].events)
                                ELSE route[t].events
    <3>1. route[s] \in Routes
      OBVIOUS
    <3> QED
      BY <1>5, <3>1 DEF Handle, Routes
  <2> QED
    BY <1>1, <2>1, RouteBound DEF QueuesAreBounded
<1>6. CASE /\ ~(Register(s) \/ UndoBoot(s) \/ TakeSession(s))
           /\ ~(CloseOwed(s) \/ Handle(s))
  <2>1. UNCHANGED route
    BY <1>6
    DEF BootStep, CreateTarget, AttachTarget, SetUp, MarkLive, StartThread,
        Kill, KillStep, CloseTarget, ThreadStep, ThreadKills, ThreadEnds
  <2> QED
    BY <1>1, <2>1 DEF QueuesAreBounded
<1> QED
  BY <1>3, <1>4, <1>5, <1>6

LEMMA StepBounds ==
  ASSUME HeldInv, QueuesAreBounded, [Next]_vars PROVE QueuesAreBounded'
<1> USE DEF HeldInv
<1>1. /\ ingress \in Queues /\ output \in Queues /\ Len(ingress) \in Nat
      /\ Len(output) \in Nat /\ IngressCapacity \in Nat \ {0}
      /\ OutputCapacity \in Nat \ {0}
  BY QueuesTyped, LenProperties, RoutesAssumption DEF Queues
<1>2. Len(ingress) <= IngressCapacity /\ Len(output) <= OutputCapacity
  BY DEF QueuesAreBounded
<1>3. ASSUME NEW s \in Surfaces, NEW kind \in {"frame", "note"}, Arrives(s, kind)
      PROVE  QueuesAreBounded'
  <2>1. UNCHANGED <<output, route>>
        /\ (Len(ingress') <= IngressCapacity \/ ingress' = <<End>>)
    BY <1>3 DEF Arrives, CloseConnection
  <2>2. Len(<<End>>) <= IngressCapacity
    BY <1>1, ShortQueues
  <2>3. Len(ingress') <= IngressCapacity
    BY <2>1, <2>2
  <2> QED
    BY <2>1, <2>3 DEF QueuesAreBounded
<1>4. CASE SocketEnds
  <2>1. UNCHANGED <<output, route>> /\ ingress' = <<End>>
    BY <1>4 DEF SocketEnds, CloseConnection
  <2> QED
    BY <1>1, <2>1, ShortQueues DEF QueuesAreBounded
<1>5. CASE DrainOne
  <2>1. UNCHANGED route /\ Len(ingress') <= IngressCapacity
    <3>1. Len(Tail(ingress)) = Len(ingress) - 1
      BY <1>1, <1>5, HeadTailProperties DEF DrainOne, Queues
    <3> QED
      BY <1>1, <1>2, <1>5, <3>1 DEF DrainOne
  <2>2. Len(output') <= OutputCapacity
    <3>1. Head(ingress) \in Event \cup {End}
      BY <1>1, <1>5, HeadTailProperties DEF DrainOne, Queues
    <3>2. Len(output') = Len(output) + 1
      BY <1>1, <1>5, <3>1, AppendProperties DEF DrainOne, Queues
    <3> QED
      BY <1>1, <1>5, <3>2 DEF DrainOne
  <2> QED
    BY <2>1, <2>2 DEF QueuesAreBounded
<1>6. CASE RouterTakes
  <2>1. UNCHANGED <<ingress, route>> /\ output # <<>> /\ output' = Tail(output)
    BY <1>6 DEF RouterTakes
  <2>2. Len(Tail(output)) = Len(output) - 1
    BY <1>1, <2>1, HeadTailProperties DEF Queues
  <2> QED
    BY <1>1, <1>2, <2>1, <2>2 DEF QueuesAreBounded
<1>7. CASE RouterDelivers
  <2>1. PICK e \in Event : hand = <<e>>
    BY <1>7 DEF TypeOK, RouterDelivers
  <2>2. UNCHANGED <<ingress, output>>
        /\ route' = [route EXCEPT ![e.of] = Delivered(route[e.of], e)]
    BY <1>7, <2>1 DEF RouterDelivers, ingressVars
  <2>3. route[e.of] \in Routes /\ e.of \in Surfaces
    BY EventFacts DEF TypeOK
  <2>4. \A t \in Surfaces :
          \/ route'[t].events \in {route[t].events, <<>>, <<End>>}
          \/ Len(route'[t].events) <= RouteCapacity
    <3>1. LET d == Delivered(route[e.of], e).events
          IN d \in {route[e.of].events, <<End>>} \/ Len(d) <= RouteCapacity
      BY <2>3, DeliveredFacts, RouteFacts
    <3>2. \A t \in Surfaces : t # e.of => route'[t] = route[t]
      BY <2>2 DEF TypeOK
    <3>3. route'[e.of] = Delivered(route[e.of], e)
      BY <2>2, <2>3 DEF TypeOK
    <3> QED
      BY <3>1, <3>2, <3>3
  <2> QED
    BY <2>2, <2>4, RouteBound DEF QueuesAreBounded
<1>8. CASE ReaderStops \/ Shutdown \/ RouterSeesEnd \/ UNCHANGED vars
  BY <1>8 DEF ReaderStops, Shutdown, RouterSeesEnd, vars, ingressVars,
              QueuesAreBounded
<1> QED
  BY <1>3, <1>4, <1>5, <1>6, <1>7, <1>8, CallBounds DEF Next

-----------------------------------------------------------------------------
(* The inductive invariant holds of every behaviour: whatever order the    *)
(* bootstraps, the kills, the reader, the router, the close of the runtime *)
(* and the threads of the surfaces take.                                   *)
THEOREM RoutesInvariant == Spec => []RoutesInv
<1>1. Init => RoutesInv
  BY InitHeld, InitOrder, InitNotes DEF RoutesInv
<1>2. RoutesInv /\ [Next]_vars => RoutesInv'
  BY StepHeld, StepOrder, StepNotes DEF RoutesInv
<1> QED
  BY <1>1, <1>2, PTL DEF Spec

(* Every variable keeps its type, for any number of surfaces and events.   *)
THEOREM TypeCorrect == Spec => []TypeOK
BY RoutesInvariant, PTL DEF RoutesInv, HeldInv

(* No queue outgrows its capacity, not even by the event that ends it.     *)
THEOREM QueuesStayBounded == Spec => []QueuesAreBounded
<1>1. Init => QueuesAreBounded
  <2>1. Init => /\ Len(ingress) = 0 /\ Len(output) = 0
                /\ \A s \in Surfaces : Len(route[s].events) = 0
    BY ShortQueues, RouteFacts DEF Init
  <2> QED
    BY <2>1, RoutesAssumption DEF QueuesAreBounded
<1>2. HeldInv /\ QueuesAreBounded /\ [Next]_vars => QueuesAreBounded'
  BY StepBounds
<1>3. Spec => []HeldInv
  BY RoutesInvariant, PTL DEF RoutesInv
<1> QED
  BY <1>1, <1>2, <1>3, PTL DEF Spec

(* No surface waits on a route nobody holds: an open route is in the maps, *)
(* or the close of the runtime is about to close it.                       *)
THEOREM OpenRoutesAreHeld == Spec => []OpenRouteIsHeld
BY RoutesInvariant, PTL DEF RoutesInv, HeldInv

(* A kill and a bootstrap that race leave no route in the maps and no      *)
(* target open, for any number of surfaces.                                *)
THEOREM KilledSurfacesAreCleared == Spec => []KilledSurfaceIsCleared
<1>1. RoutesInv => KilledSurfaceIsCleared
  BY KilledFact DEF RoutesInv
<1> QED
  BY <1>1, RoutesInvariant, PTL

(* A surface handles its events in the order Chrome sent them and misses   *)
(* no note between two it handled, for any capacities of the queues.       *)
THEOREM SurfacesHandleInOrder == Spec => []EventsInOrder
BY OrderFact, RoutesInvariant, PTL
==============================================================================
