------------------------- MODULE SubscriptionProofs -------------------------
(***************************************************************************)
(* What holds of the two halves of a subscription to event_bus.rs.         *)
(*                                                                         *)
(* The mailbox keeps its two queues, their index and their bound in step   *)
(* (Shape, Numbered), and what is pending is what the subscriber's view    *)
(* still lacks (Foreseen): pushing and popping keep this, for any number   *)
(* of surfaces, events and slots.  The scope tells the subscriber of every *)
(* move of its surface but those by which panes are arranged anew, for any *)
(* number of panes and threads.                                            *)
(***************************************************************************)
EXTENDS EventMailbox, SessionScope, FiniteSetTheorems, TLAPS

States == [Keys -> Nat \cup {Unset}]

(* The queues, their index and their bound.                                *)
Shape(m) ==
  /\ m \in Mailboxes
  /\ IsFiniteSet(m.events) /\ IsFiniteSet(m.coalesced)
  /\ \A x \in m.events : x.event.kind \notin StateKinds
  /\ \A x \in m.coalesced : x.event \in Keys /\ m.index[x.event] = x.seq
  /\ \A k \in Keys : m.index[k] # Unset =>
       [seq |-> m.index[k], event |-> k] \in m.coalesced
  /\ Count(m) <= Capacity

Numbered(m) ==
  /\ \A x \in Pending(m) : x.seq < m.next
  /\ \A x, y \in Pending(m) : x.seq = y.seq => x = y

(* Entry x decides the state k of a surface, as Effect(x, k).              *)
Decides(x, k) ==
  \/ x.event = k
  \/ x.event.kind = "Exited" /\ x.event.surface = k.surface
  \/ x.event.kind = "Empty"
Effect(x, k) == IF x.event = k THEN x.seq ELSE Unset

(* State k is what the newest pending entry that decides it will make it.  *)
Foreseen(entries, shown, true, k) ==
  \/ true[k] = shown[k] /\ \A x \in entries : ~Decides(x, k)
  \/ \E x \in entries :
       /\ Decides(x, k) /\ true[k] = Effect(x, k)
       /\ \A y \in entries : Decides(y, k) => y.seq <= x.seq

MailboxInv ==
  /\ Shape(mailbox) /\ Numbered(mailbox)
  /\ subscribed \in BOOLEAN /\ held \in BOOLEAN
  /\ thread \in {"running", "waiting", "ended"}
  /\ truth \in States /\ view \in States
  /\ subscribed => ~mailbox.closed
  /\ mailbox.overflowed => mailbox.closed
  /\ NobodySleepsOnNews
  /\ held /\ ~mailbox.overflowed =>
       \A k \in Keys : Foreseen(Pending(mailbox), view, truth, k)

-----------------------------------------------------------------------------
(* Events, sets of entries, and the two queues as one set.                 *)

LEMMA EventFacts ==
  /\ \A e \in Events : e.kind \in StateKinds => e \in Keys
  /\ \A e \in Events : e.kind \in StateKinds \cup {"Exited", "Other",
                                                   "WorkspaceClosed", "Empty"}
  /\ \A k \in Keys : k \in Events /\ k.kind \in StateKinds
                       /\ k.surface \in Surfaces
  /\ \A k \in Keys : k.kind # "Exited" /\ k.kind # "Empty"
  /\ \A e \in Events : e.kind \in {"Exited", "Other"} => e.surface \in Surfaces
BY DEF Events, Keys, StateKinds

(* The stream counts with the same operator.                               *)
LEMMA SameCardinality == \A S : Stream!Cardinality(S) = Cardinality(S)
BY DEF Cardinality, Stream!Cardinality

(* Newest(S, n) has at most n entries: the number of newer entries tells   *)
(* them apart.                                                             *)
LEMMA NewestBound ==
  ASSUME NEW S, IsFiniteSet(S), \A x \in S : x.seq \in Nat,
         \A x, y \in S : x.seq = y.seq => x = y,
         NEW n \in Nat
  PROVE  /\ IsFiniteSet(Newest(S, n))
         /\ Cardinality(Newest(S, n)) <= n
<1> DEFINE Newer(x) == {y \in S : y.seq > x.seq}
           N == Newest(S, n)
           f == [x \in N |-> Cardinality(Newer(x))]
<1>1. N = {x \in S : Cardinality(Newer(x)) < n} /\ N \subseteq S
  BY DEF Newest
<1>2. \A x \in S : IsFiniteSet(Newer(x)) /\ Cardinality(Newer(x)) \in Nat
  <2>1. ASSUME NEW x \in S PROVE Newer(x) \in SUBSET S
    OBVIOUS
  <2> QED BY <2>1, FS_Subset, FS_CardinalityType
<1>3. ASSUME NEW x \in S, NEW y \in S, x.seq < y.seq
      PROVE  Cardinality(Newer(x)) # Cardinality(Newer(y))
  <2>1. Newer(y) \subseteq Newer(x) /\ y \in Newer(x) /\ y \notin Newer(y)
    BY <1>3
  <2>2. Newer(y) \in SUBSET Newer(x)
    BY <2>1
  <2>3. Cardinality(Newer(x)) = Cardinality(Newer(y)) => Newer(x) = Newer(y)
    BY <2>2, <1>2, FS_Subset
  <2> QED BY <2>1, <2>3
<1>4. f \in [N -> 0..(n - 1)]
  <2>1. ASSUME NEW x \in N PROVE Cardinality(Newer(x)) \in 0..(n - 1)
    <3>1. x \in S /\ Cardinality(Newer(x)) < n
      BY <1>1
    <3>2. Cardinality(Newer(x)) \in Nat
      BY <1>2, <3>1
    <3> HIDE DEF Newer
    <3> QED BY <3>1, <3>2
  <2> HIDE DEF Newer, N
  <2> QED BY <2>1
<1>5. ASSUME NEW x \in N, NEW y \in N, f[x] = f[y]
      PROVE  x = y
  <2>1. x \in S /\ y \in S /\ x.seq \in Nat /\ y.seq \in Nat
    BY <1>1
  <2>2. Cardinality(Newer(x)) = Cardinality(Newer(y))
    BY <1>5
  <2>3. ~(x.seq < y.seq) /\ ~(y.seq < x.seq)
    BY <1>3, <2>1, <2>2
  <2>4. x.seq = y.seq
    BY <2>1, <2>3
  <2> QED BY <2>1, <2>4
<1>6. f \in Injection(N, 0..(n - 1))
  <2> HIDE DEF f
  <2> QED BY <1>4, <1>5 DEF Injection, IsInjective
<1>7. IsFiniteSet(0..(n - 1)) /\ Cardinality(0..(n - 1)) = n
  BY FS_Interval
<1>8. IsFiniteSet(N) /\ Cardinality(N) <= Cardinality(0..(n - 1))
  BY <1>6, <1>7, FS_Injection
<1> QED BY <1>7, <1>8

LEMMA AddOne ==
  ASSUME NEW S, NEW x, IsFiniteSet(S)
  PROVE  /\ IsFiniteSet(S \cup {x})
         /\ Cardinality(S \cup {x}) \in Nat
         /\ Cardinality(S \cup {x}) <= Cardinality(S) + 1
<1>1. Cardinality(S) \in Nat
  BY FS_CardinalityType
<1>2. /\ IsFiniteSet(S \cup {x})
      /\ Cardinality(S \cup {x}) =
           IF x \in S THEN Cardinality(S) ELSE Cardinality(S) + 1
  BY FS_AddElement
<1> QED BY <1>1, <1>2

(* Shape without the bound: the two queues do not meet.                    *)
LEMMA CountIsCardinality ==
  ASSUME NEW m, Shape(m)
  PROVE  /\ m.events \cap m.coalesced = {}
         /\ Cardinality(m.events) \in Nat /\ Cardinality(m.coalesced) \in Nat
         /\ IsFiniteSet(Pending(m))
         /\ Count(m) \in Nat
         /\ Cardinality(Pending(m)) = Count(m)
<1>1. m.events \cap m.coalesced = {}
  BY EventFacts DEF Shape
<1>2. Cardinality(m.events) \in Nat /\ Cardinality(m.coalesced) \in Nat
  BY FS_CardinalityType DEF Shape
<1>3. /\ IsFiniteSet(m.events \cup m.coalesced)
      /\ Cardinality(m.events \cup m.coalesced)
           = Cardinality(m.events) + Cardinality(m.coalesced)
               - Cardinality(m.events \cap m.coalesced)
  BY FS_Union DEF Shape
<1>4. Cardinality(m.events \cap m.coalesced) = 0
  BY <1>1, FS_EmptySet
<1> QED BY <1>1, <1>2, <1>3, <1>4 DEF Pending, Count

-----------------------------------------------------------------------------
(* Pushing.                                                                *)

(* What is left of the pending entries, as the stream has it.              *)
Left(m, event) == Stream!Remaining(Pending(m), event)

(* r is m with event accepted, or closed for want of room.                 *)
Taken(m, event, r) ==
  /\ Shape(r) /\ r.next = m.next
  /\ \/ /\ Cardinality(Left(m, event)) < Capacity
        /\ Pending(r) = Left(m, event) \cup {Entry(m, event)}
        /\ r.closed = m.closed /\ r.overflowed = m.overflowed
     \/ /\ Cardinality(Left(m, event)) >= Capacity
        /\ Pending(r) = Pending(m)
        /\ r.closed = TRUE /\ r.overflowed = TRUE

LEMMA EntryIsEntry ==
  ASSUME NEW m, Shape(m), NEW event \in Events
  PROVE  /\ Entry(m, event) \in Entries
         /\ Entry(m, event).seq = m.next /\ Entry(m, event).event = event
         /\ m.next \in Nat
BY DEF Shape, Mailboxes, Entry, Entries

LEMMA OverflowShape ==
  ASSUME NEW m, Shape(m)
  PROVE  LET r == Overflow(m) IN
         /\ Shape(r) /\ r.next = m.next /\ Pending(r) = Pending(m)
         /\ r.closed = TRUE /\ r.overflowed = TRUE
<1> DEFINE r == Overflow(m)
<1>1. /\ r \in Mailboxes /\ r.next = m.next /\ r.events = m.events
      /\ r.coalesced = m.coalesced /\ r.index = m.index
      /\ r.closed = TRUE /\ r.overflowed = TRUE
  BY DEF Shape, Mailboxes, Overflow
<1> HIDE DEF r
<1>2. Shape(r) /\ Pending(r) = Pending(m)
  BY <1>1 DEF Shape, Count, Pending
<1> QED BY <1>1, <1>2 DEF r

(* push_back: one more event, or the mailbox is closed as it is.           *)
LEMMA AppendedShape ==
  ASSUME NEW m, Shape(m), NEW event \in Events, event.kind \notin StateKinds
  PROVE  LET r == Appended(m, event) IN
         /\ Shape(r) /\ r.next = m.next
         /\ \/ /\ Cardinality(Pending(m)) < Capacity
               /\ Pending(r) = Pending(m) \cup {Entry(m, event)}
               /\ r.closed = m.closed /\ r.overflowed = m.overflowed
            \/ /\ Cardinality(Pending(m)) >= Capacity
               /\ Pending(r) = Pending(m)
               /\ r.closed = TRUE /\ r.overflowed = TRUE
<1> DEFINE r == Appended(m, event)
           x == Entry(m, event)
<1>1. Cardinality(Pending(m)) = Count(m) /\ Count(m) \in Nat /\ Capacity \in Nat
  BY CountIsCardinality, MailboxAssumption
<1>2. CASE Count(m) >= Capacity
  <2>1. r = Overflow(m)
    BY <1>1, <1>2 DEF Appended
  <2> QED BY <1>1, <1>2, <2>1, OverflowShape
<1>3. CASE Count(m) < Capacity
  <2>1. /\ x \in Entries /\ x.event = event
    BY EntryIsEntry
  <2>2. r = [m EXCEPT !.events = m.events \cup {x}]
    BY <1>3 DEF Appended
  <2>3. /\ r \in Mailboxes /\ r.next = m.next /\ r.events = m.events \cup {x}
        /\ r.coalesced = m.coalesced /\ r.index = m.index
        /\ r.closed = m.closed /\ r.overflowed = m.overflowed
    BY <2>1, <2>2 DEF Shape, Mailboxes
  <2>4. /\ IsFiniteSet(m.events \cup {x})
        /\ Cardinality(m.events \cup {x}) <= Cardinality(m.events) + 1
        /\ Cardinality(m.events \cup {x}) \in Nat
    BY AddOne DEF Shape
  <2> HIDE DEF r, x
  <2>6. Count(r) <= Capacity
    BY <1>1, <1>3, <2>3, <2>4, CountIsCardinality DEF Count
  <2>7. Shape(r)
    BY <2>1, <2>3, <2>4, <2>6 DEF Shape
  <2> QED BY <1>1, <1>3, <2>3, <2>7 DEF r, x, Pending
<1>4. Count(m) >= Capacity \/ Count(m) < Capacity
  BY <1>1
<1> QED BY <1>2, <1>3, <1>4

(* push_coalesced: the index leads to the entry of this key, if any.       *)
LEMMA CoalescedTaken ==
  ASSUME NEW m, Shape(m), Numbered(m),
         NEW event \in Events, event.kind \in StateKinds
  PROVE  Taken(m, event, Coalesced(m, event))
<1> DEFINE r == Coalesced(m, event)
           x == Entry(m, event)
           older == {y \in m.coalesced : y.seq = m.index[event]}
<1>1. event \in Keys /\ x \in Entries /\ x.event = event /\ x.seq = m.next
      /\ m.next \in Nat
  BY EventFacts, EntryIsEntry
<1>2. /\ Cardinality(Pending(m)) = Count(m) /\ Count(m) \in Nat
      /\ IsFiniteSet(Pending(m)) /\ Capacity \in Nat
  BY CountIsCardinality, MailboxAssumption
<1>3. Left(m, event) = {y \in Pending(m) : y.event # event}
  BY DEF Left, Stream!Remaining, Stream!StateKinds, StateKinds
<1>4. older = {y \in Pending(m) : y.event = event}
  <2>1. ASSUME NEW y \in Pending(m), y.event = event PROVE y \in older
    BY <1>1, <2>1 DEF Shape, Pending
  <2>2. ASSUME NEW y \in older PROVE y \in Pending(m) /\ y.event = event
    <3>1. y \in m.coalesced /\ y.seq = m.index[event] /\ y \in Entries
      BY DEF Shape, Mailboxes
    <3>2. m.index[event] # Unset
      BY <3>1 DEF Entries, Unset
    <3>3. [seq |-> m.index[event], event |-> event] \in m.coalesced
      BY <1>1, <3>2 DEF Shape
    <3>4. y = [seq |-> m.index[event], event |-> event]
      BY <3>1, <3>3 DEF Numbered, Pending
    <3> QED BY <3>1, <3>4 DEF Pending
  <2> QED BY <2>1, <2>2
<1>5. Left(m, event) = m.events \cup (m.coalesced \ older)
  <2>1. m.events \cap m.coalesced = {}
    BY CountIsCardinality
  <2>2. older \subseteq m.coalesced
    OBVIOUS
  <2>3. Left(m, event) = Pending(m) \ older
    BY <1>3, <1>4
  <2> QED BY <2>1, <2>2, <2>3 DEF Pending
<1>6. CASE m.index[event] = Unset /\ Count(m) >= Capacity
  <2>1. r = Overflow(m)
    BY <1>2, <1>6 DEF Coalesced
  <2>2. older = {}
    BY <1>1, <1>6 DEF Shape, Mailboxes, Entries, Unset
  <2>3. Left(m, event) = Pending(m)
    BY <1>5, <2>2 DEF Pending
  <2> QED BY <1>2, <1>6, <2>1, <2>3, OverflowShape DEF Taken
<1>7. CASE m.index[event] # Unset \/ Count(m) < Capacity
  <2>1. r = [m EXCEPT !.coalesced = (m.coalesced \ older) \cup {x},
                      !.index = [m.index EXCEPT ![event] = m.next]]
    BY <1>7 DEF Coalesced
  <2>2. /\ r \in Mailboxes /\ r.next = m.next /\ r.events = m.events
        /\ r.coalesced = (m.coalesced \ older) \cup {x}
        /\ r.index = [m.index EXCEPT ![event] = m.next]
        /\ r.closed = m.closed /\ r.overflowed = m.overflowed
    <3> DEFINE c == (m.coalesced \ older) \cup {x}
               i == [m.index EXCEPT ![event] = m.next]
    <3>1. m \in Mailboxes /\ c \in SUBSET Entries
      BY <1>1 DEF Shape, Mailboxes
    <3>2. i \in [Keys -> Nat \cup {Unset}]
      BY <1>1, <3>1 DEF Mailboxes
    <3>3. r = [m EXCEPT !.coalesced = c, !.index = i]
      BY <2>1
    <3> HIDE DEF c, i, r
    <3>4. /\ r \in Mailboxes /\ r.next = m.next /\ r.events = m.events
          /\ r.coalesced = c /\ r.index = i
          /\ r.closed = m.closed /\ r.overflowed = m.overflowed
      BY <3>1, <3>2, <3>3 DEF Mailboxes
    <3> QED BY <3>4 DEF c, i
  <2>3. /\ IsFiniteSet(m.coalesced \ older)
        /\ Cardinality(m.coalesced \ older) \in Nat
        /\ Cardinality(m.coalesced \ older) <= Cardinality(m.coalesced)
        /\ Cardinality(m.coalesced \ older) = Cardinality(m.coalesced)
             => m.coalesced = m.coalesced \ older
    <3>1. m.coalesced \ older \in SUBSET m.coalesced
      OBVIOUS
    <3> QED BY <3>1, FS_Subset, FS_CardinalityType DEF Shape
  <2>4. Cardinality(m.events) + Cardinality(m.coalesced \ older) < Capacity
    <3>1. CASE m.index[event] = Unset
      BY <1>2, <1>7, <2>3, <3>1, CountIsCardinality DEF Count
    <3>2. CASE m.index[event] # Unset
      <4>1. [seq |-> m.index[event], event |-> event] \in older
        BY <1>1, <3>2 DEF Shape
      <4>2. m.coalesced # m.coalesced \ older
        BY <4>1
      <4>3. Cardinality(m.coalesced \ older) < Cardinality(m.coalesced)
        BY <2>3, <4>2, CountIsCardinality
      <4> QED BY <1>2, <2>3, <4>3, CountIsCardinality DEF Count, Shape
    <3> QED BY <3>1, <3>2
  <2>5. /\ IsFiniteSet((m.coalesced \ older) \cup {x})
        /\ Cardinality((m.coalesced \ older) \cup {x})
             <= Cardinality(m.coalesced \ older) + 1
        /\ Cardinality((m.coalesced \ older) \cup {x}) \in Nat
    <3> HIDE DEF x, older
    <3> QED BY <2>3, AddOne
  <2>6. Count(r) <= Capacity
    <3> HIDE DEF r, x, older
    <3> QED BY <1>2, <2>2, <2>3, <2>4, <2>5, CountIsCardinality DEF Count
  <2>7. Shape(r)
    <3>1. \A y \in r.coalesced : y.event \in Keys /\ r.index[y.event] = y.seq
      <4>1. ASSUME NEW y \in m.coalesced \ older
            PROVE  y.event \in Keys /\ r.index[y.event] = y.seq
        <5>1. y.event \in Keys /\ m.index[y.event] = y.seq
          BY DEF Shape
        <5>2. y.event # event
          BY <1>4 DEF Pending
        <5> QED BY <2>2, <5>1, <5>2 DEF Shape, Mailboxes
      <4>2. r.index[event] = m.next
        BY <1>1, <2>2 DEF Shape, Mailboxes
      <4> HIDE DEF r, x, older
      <4> QED BY <1>1, <2>2, <4>1, <4>2
    <3>2. \A k \in Keys : r.index[k] # Unset =>
            [seq |-> r.index[k], event |-> k] \in r.coalesced
      <4>1. r.index[event] = m.next /\ x = [seq |-> m.next, event |-> event]
        BY <1>1, <2>2 DEF Shape, Mailboxes, Entry
      <4>2. ASSUME NEW k \in Keys, k # event, r.index[k] # Unset
            PROVE  [seq |-> r.index[k], event |-> k] \in r.coalesced
        <5>1. r.index[k] = m.index[k]
          BY <2>2, <4>2 DEF Shape, Mailboxes
        <5>2. [seq |-> m.index[k], event |-> k] \in m.coalesced
          BY <4>2, <5>1 DEF Shape
        <5>3. [seq |-> m.index[k], event |-> k] \notin older
          BY <1>4, <4>2
        <5> QED BY <2>2, <5>1, <5>2, <5>3
      <4> QED BY <2>2, <4>1, <4>2
    <3> HIDE DEF r, x, older
    <3> QED BY <2>2, <2>5, <2>6, <3>1, <3>2 DEF Shape
  <2>8. Cardinality(Left(m, event)) < Capacity
    <3>1. m.events \cap (m.coalesced \ older) = {}
      BY CountIsCardinality
    <3>2. Cardinality(m.events \cap (m.coalesced \ older)) = 0
      BY <3>1, FS_EmptySet
    <3>3. Cardinality(Left(m, event)) = Cardinality(m.events)
            + Cardinality(m.coalesced \ older) - 0
      BY <1>5, <2>3, <3>2, FS_Union DEF Shape
    <3> QED BY <2>3, <2>4, <3>3, CountIsCardinality
  <2> HIDE DEF r, x, older
  <2>9. Pending(r) = Left(m, event) \cup {x}
    BY <1>5, <2>2 DEF Pending
  <2> QED BY <2>2, <2>7, <2>8, <2>9 DEF Taken, x, r
<1>8. m.index[event] = Unset \/ m.index[event] # Unset
  OBVIOUS
<1> QED BY <1>2, <1>6, <1>7

(* discard_surface_state: the index leads to every state of the surface.   *)
LEMMA DiscardedShape ==
  ASSUME NEW m, Shape(m), Numbered(m), NEW surface \in Surfaces
  PROVE  LET r == Discarded(m, surface) IN
         /\ Shape(r) /\ r.next = m.next
         /\ r.closed = m.closed /\ r.overflowed = m.overflowed
         /\ Pending(r) = {x \in Pending(m) : ~ /\ x.event.kind \in StateKinds
                                               /\ x.event.surface = surface}
<1> DEFINE gone == {m.index[k] : k \in {k \in Keys : k.surface = surface}}
           c == {x \in m.coalesced : x.seq \notin gone}
           i == Without(m.index, surface)
           r == Discarded(m, surface)
<1>1. m \in Mailboxes /\ c \in SUBSET Entries /\ c \in SUBSET m.coalesced
  BY DEF Shape, Mailboxes
<1>2. i \in [Keys -> Nat \cup {Unset}]
  BY <1>1 DEF Without, Mailboxes
<1>3. r = [m EXCEPT !.coalesced = c, !.index = i]
  BY DEF Discarded
<1>4. /\ r \in Mailboxes /\ r.next = m.next /\ r.events = m.events
      /\ r.coalesced = c /\ r.index = i
      /\ r.closed = m.closed /\ r.overflowed = m.overflowed
  <2> HIDE DEF c, i, r
  <2> QED BY <1>1, <1>2, <1>3 DEF Mailboxes
<1>5. ASSUME NEW x \in m.coalesced
      PROVE  x.seq \in gone <=> x.event.surface = surface
  <2>1. x.event \in Keys /\ m.index[x.event] = x.seq /\ x.seq \in Nat
    BY DEF Shape, Mailboxes, Entries
  <2>2. x.event.surface = surface => x.seq \in gone
    BY <2>1
  <2>3. ASSUME x.seq \in gone PROVE x.event.surface = surface
    <3>1. PICK k \in Keys : k.surface = surface /\ m.index[k] = x.seq
      BY <2>3
    <3>2. m.index[k] # Unset
      BY <2>1, <3>1 DEF Unset
    <3>3. [seq |-> x.seq, event |-> k] \in m.coalesced
      BY <3>1, <3>2 DEF Shape
    <3>4. x = [seq |-> x.seq, event |-> k]
      BY <3>3 DEF Numbered, Pending
    <3> QED BY <3>1, <3>4
  <2> QED BY <2>2, <2>3
<1>6. Shape(r)
  <2>1. IsFiniteSet(c) /\ Cardinality(c) <= Cardinality(m.coalesced)
        /\ Cardinality(c) \in Nat
    BY <1>1, FS_Subset, FS_CardinalityType DEF Shape
  <2>2. Cardinality(m.events) + Cardinality(c) <= Capacity
    BY <2>1, CountIsCardinality, MailboxAssumption DEF Shape, Count
  <2>3. ASSUME NEW x \in c
        PROVE  x.event \in Keys /\ i[x.event] = x.seq
    <3>1. x \in m.coalesced /\ x.event.surface # surface
      BY <1>5
    <3>2. x.event \in Keys /\ m.index[x.event] = x.seq
      BY <3>1 DEF Shape
    <3> QED BY <3>1, <3>2 DEF Without
  <2>4. ASSUME NEW k \in Keys, i[k] # Unset
        PROVE  [seq |-> i[k], event |-> k] \in c
    <3>1. k.surface # surface /\ i[k] = m.index[k]
      BY <2>4 DEF Without
    <3>2. [seq |-> m.index[k], event |-> k] \in m.coalesced
      BY <2>4, <3>1 DEF Shape
    <3> QED BY <1>5, <3>1, <3>2
  <2>5. IsFiniteSet(m.events)
        /\ \A x \in m.events : x.event.kind \notin StateKinds
    BY DEF Shape
  <2> HIDE DEF c, i, r
  <2> QED BY <1>4, <2>1, <2>2, <2>3, <2>4, <2>5 DEF Shape, Count
<1>7. Pending(r) = {x \in Pending(m) : ~ /\ x.event.kind \in StateKinds
                                         /\ x.event.surface = surface}
  <2>1. \A x \in m.events : x.event.kind \notin StateKinds
    BY DEF Shape
  <2>2. \A x \in m.coalesced : x.event.kind \in StateKinds
    BY EventFacts DEF Shape
  <2>3. \A x \in m.coalesced : x \in c <=> x.event.surface # surface
    BY <1>5
  <2>4. Pending(r) = m.events \cup c /\ c \subseteq m.coalesced
    BY <1>4 DEF Pending
  <2> HIDE DEF c, r
  <2> QED BY <2>1, <2>2, <2>3, <2>4 DEF Pending
<1> HIDE DEF r
<1> QED BY <1>4, <1>6, <1>7 DEF r

(* Empty needs no slot: one less than the bound is kept.                   *)
LEMMA EmptiedTaken ==
  ASSUME NEW m, Shape(m), Numbered(m), NEW event \in Events,
         event.kind = "Empty"
  PROVE  Taken(m, event, Emptied(m, event))
<1> DEFINE final == {x \in m.events : x.event.kind \in FinalKinds}
           kept == Newest(final, Capacity - 1)
           x == Entry(m, event)
           r == Emptied(m, event)
<1>1. x \in Entries /\ x.event = event /\ Capacity - 1 \in Nat /\ Capacity \in Nat
  BY EntryIsEntry, MailboxAssumption
<1>2. m \in Mailboxes /\ kept \subseteq final /\ final \subseteq m.events
      /\ final \in SUBSET m.events /\ kept \cup {x} \in SUBSET Entries
  BY <1>1 DEF Shape, Mailboxes, Newest
<1>3. IsFiniteSet(kept) /\ Cardinality(kept) <= Capacity - 1
  <2>1. IsFiniteSet(final)
    BY <1>2, FS_Subset DEF Shape
  <2>2. \A y \in final : y.seq \in Nat
    BY <1>2 DEF Mailboxes, Entries
  <2>3. \A y, z \in final : y.seq = z.seq => y = z
    BY <1>2 DEF Numbered, Pending
  <2> HIDE DEF final
  <2> QED BY <1>1, <2>1, <2>2, <2>3, NewestBound
<1>4. Cardinality(kept) \in Nat
  BY <1>3, FS_CardinalityType
<1>5. Left(m, event) = kept
  <2>1. {y \in Pending(m) : y.event.kind \in FinalKinds} = final
    BY EventFacts DEF Pending, Shape, FinalKinds, StateKinds
  <2>2. Left(m, event) = Stream!Newest(final, Capacity - 1)
    BY <2>1 DEF Left, Stream!Remaining, Stream!StateKinds, Stream!FinalKinds,
                FinalKinds
  <2> HIDE DEF final
  <2> QED BY <2>2, SameCardinality DEF Newest, Stream!Newest
<1>6. Nothing \in [Keys -> Nat \cup {Unset}] /\ \A k \in Keys : Nothing[k] = Unset
  BY DEF Nothing
<1>7. r = [m EXCEPT !.events = kept \cup {x}, !.coalesced = {},
                    !.index = Nothing]
  BY DEF Emptied
<1>8. /\ r \in Mailboxes /\ r.next = m.next /\ r.events = kept \cup {x}
      /\ r.coalesced = {} /\ r.index = Nothing
      /\ r.closed = m.closed /\ r.overflowed = m.overflowed
  <2> HIDE DEF kept, x, r, Nothing
  <2> QED BY <1>2, <1>6, <1>7 DEF Mailboxes
<1>9. /\ IsFiniteSet(kept \cup {x}) /\ Cardinality(kept \cup {x}) \in Nat
      /\ Cardinality(kept \cup {x}) <= Capacity
  <2> HIDE DEF kept, x
  <2> QED BY <1>1, <1>3, <1>4, AddOne
<1>10. \A y \in kept \cup {x} : y.event.kind \notin StateKinds
  BY <1>1, <1>2 DEF FinalKinds, StateKinds
<1>11. Shape(r)
  <2> HIDE DEF kept, x, r
  <2> QED BY <1>1, <1>6, <1>8, <1>9, <1>10, FS_EmptySet DEF Shape, Count
<1> HIDE DEF kept, x, r
<1>12. Pending(r) = kept \cup {x}
  BY <1>8 DEF Pending
<1>13. Cardinality(Left(m, event)) < Capacity
  BY <1>1, <1>3, <1>4, <1>5
<1> QED BY <1>5, <1>8, <1>11, <1>12, <1>13 DEF Taken, x, r

(* MuxEventMailbox::push, before the number is counted.                    *)
LEMMA AcceptedTaken ==
  ASSUME NEW m, Shape(m), Numbered(m), NEW event \in Events
  PROVE  Taken(m, event, Accepted(m, event))
<1>1. CASE event.kind \in StateKinds
  BY <1>1, CoalescedTaken DEF Accepted
<1>2. CASE event.kind = "Empty"
  BY <1>2, EmptiedTaken DEF Accepted, StateKinds
<1>3. CASE event.kind \in {"Other", "WorkspaceClosed"}
  <2>1. Accepted(m, event) = Appended(m, event) /\ event.kind \notin StateKinds
    BY <1>3 DEF Accepted, StateKinds
  <2>2. Left(m, event) = Pending(m)
    BY <1>3 DEF Left, Stream!Remaining, Stream!StateKinds
  <2> DEFINE r == Appended(m, event)
  <2>3. /\ Shape(r) /\ r.next = m.next
        /\ \/ /\ Cardinality(Pending(m)) < Capacity
              /\ Pending(r) = Pending(m) \cup {Entry(m, event)}
              /\ r.closed = m.closed /\ r.overflowed = m.overflowed
           \/ /\ Cardinality(Pending(m)) >= Capacity
              /\ Pending(r) = Pending(m)
              /\ r.closed = TRUE /\ r.overflowed = TRUE
    BY <2>1, AppendedShape
  <2>4. Accepted(m, event) = r
    BY <2>1
  <2> HIDE DEF r
  <2> QED BY <2>2, <2>3, <2>4 DEF Taken
<1>4. CASE event.kind = "Exited"
  <2> DEFINE d == Discarded(m, event.surface)
             r == Appended(d, event)
  <2>1. Accepted(m, event) = r /\ event.kind \notin StateKinds
        /\ event.surface \in Surfaces
    BY <1>4, EventFacts DEF Accepted, StateKinds
  <2>2. /\ Shape(d) /\ d.next = m.next
        /\ d.closed = m.closed /\ d.overflowed = m.overflowed
        /\ Pending(d) = {x \in Pending(m) : ~ /\ x.event.kind \in StateKinds
                                              /\ x.event.surface = event.surface}
    BY <2>1, DiscardedShape
  <2>3. Left(m, event) = Pending(d)
    BY <1>4, <2>2 DEF Left, Stream!Remaining, Stream!StateKinds, StateKinds
  <2> HIDE DEF d
  <2>4. Entry(d, event) = Entry(m, event)
    BY <2>2 DEF Entry
  <2>5. Cardinality(Pending(d)) >= Capacity => Pending(d) = Pending(m)
    <3>1. Pending(d) \in SUBSET Pending(m)
      BY <2>2
    <3>2. /\ Cardinality(Pending(d)) <= Cardinality(Pending(m))
          /\ Cardinality(Pending(m)) = Cardinality(Pending(d))
               => Pending(m) = Pending(d)
      BY <3>1, CountIsCardinality, FS_Subset
    <3>3. Cardinality(Pending(m)) <= Capacity /\ Cardinality(Pending(m)) \in Nat
      BY CountIsCardinality DEF Shape
    <3>4. Cardinality(Pending(d)) \in Nat
      BY <2>2, CountIsCardinality
    <3> QED BY <3>2, <3>3, <3>4, MailboxAssumption
  <2>6. /\ Shape(r) /\ r.next = d.next
        /\ \/ /\ Cardinality(Pending(d)) < Capacity
              /\ Pending(r) = Pending(d) \cup {Entry(d, event)}
              /\ r.closed = d.closed /\ r.overflowed = d.overflowed
           \/ /\ Cardinality(Pending(d)) >= Capacity
              /\ Pending(r) = Pending(d)
              /\ r.closed = TRUE /\ r.overflowed = TRUE
    BY <2>1, <2>2, AppendedShape
  <2> HIDE DEF r
  <2>7. Taken(m, event, r)
    BY <2>2, <2>3, <2>4, <2>5, <2>6 DEF Taken
  <2> QED BY <2>1, <2>7
<1> QED BY <1>1, <1>2, <1>3, <1>4, EventFacts

-----------------------------------------------------------------------------
(* Popping.                                                                *)

LEMMA NatOrder ==
  \E R : IsWellFoundedOn(R, Nat) /\ \A x, y \in Nat : <<y, x>> \in R <=> y < x
<1> DEFINE R == OpToRel(<, Nat)
<1>1. IsWellFoundedOn(R, Nat)
  BY NatLessThanWellFounded
<1>2. \A x, y \in Nat : <<y, x>> \in R <=> y < x
  BY DEF OpToRel
<1> QED BY <1>1, <1>2, Zenon

LEMMA LeastNumber ==
  ASSUME NEW T \in SUBSET Nat, T # {}
  PROVE  \E n \in T : \A k \in T : n <= k
<1>1. PICK R : /\ IsWellFoundedOn(R, Nat)
               /\ \A x, y \in Nat : <<y, x>> \in R <=> y < x
  BY NatOrder
<1>2. PICK n \in T : \A k \in T : ~ (<<k, n>> \in R)
  BY <1>1, WFMin
<1>3. ASSUME NEW k \in T PROVE n <= k
  <2>1. n \in Nat /\ k \in Nat /\ <<k, n>> \notin R
    BY <1>2
  <2>2. ~(k < n)
    BY <1>1, <2>1
  <2> QED BY <2>1, <2>2
<1> QED BY <1>3

LEMMA OldestFacts ==
  ASSUME NEW m, Shape(m), Numbered(m), Pending(m) # {}
  PROVE  /\ Oldest(m) \in Pending(m)
         /\ \A y \in Pending(m) : Oldest(m).seq <= y.seq
<1>1. \A x \in Pending(m) : x.seq \in Nat
  BY DEF Shape, Mailboxes, Entries, Pending
<1>2. {x.seq : x \in Pending(m)} \in SUBSET Nat
      /\ {x.seq : x \in Pending(m)} # {}
  BY <1>1
<1>3. PICK n \in {x.seq : x \in Pending(m)} :
        \A k \in {x.seq : x \in Pending(m)} : n <= k
  BY <1>2, LeastNumber
<1>4. \E x \in Pending(m) : \A y \in Pending(m) : x.seq <= y.seq
  BY <1>3
<1> QED BY <1>4 DEF Oldest

(* MuxEventMailboxState::pop takes the oldest entry and nothing else.      *)
LEMMA PoppedShape ==
  ASSUME NEW m, Shape(m), Numbered(m), Pending(m) # {}
  PROVE  LET r == Popped(m) IN
         /\ Shape(r) /\ Numbered(r)
         /\ r.next = m.next
         /\ r.closed = m.closed /\ r.overflowed = m.overflowed
         /\ Pending(r) = Pending(m) \ {Oldest(m)}
<1> DEFINE r == Popped(m)
           o == Oldest(m)
<1>0. m \in Mailboxes
  BY DEF Shape
<1>1. o \in Pending(m)
  BY OldestFacts
<1>2. CASE o \in m.events
  <2>1. r = [m EXCEPT !.events = m.events \ {o}]
    BY <1>2 DEF Popped
  <2>2. /\ r \in Mailboxes /\ r.next = m.next /\ r.events = m.events \ {o}
        /\ r.coalesced = m.coalesced /\ r.index = m.index
        /\ r.closed = m.closed /\ r.overflowed = m.overflowed
    <3> HIDE DEF r, o
    <3> QED BY <1>0, <2>1 DEF Mailboxes
  <2>3. o \notin m.coalesced
    BY <1>2, CountIsCardinality
  <2>4. m.events \ {o} \in SUBSET m.events
    OBVIOUS
  <2>5. IsFiniteSet(m.events \ {o})
        /\ Cardinality(m.events \ {o}) <= Cardinality(m.events)
        /\ Cardinality(m.events \ {o}) \in Nat
    BY <2>4, FS_Subset, FS_CardinalityType DEF Shape
  <2> HIDE DEF r, o
  <2>6. Count(r) <= Capacity
    BY <2>2, <2>5, CountIsCardinality, MailboxAssumption DEF Shape, Count
  <2>7. Shape(r)
    BY <2>2, <2>5, <2>6 DEF Shape
  <2>8. Pending(r) = Pending(m) \ {o}
    BY <2>2, <2>3 DEF Pending
  <2>9. Numbered(r)
    BY <2>2, <2>8 DEF Numbered
  <2> QED BY <2>2, <2>7, <2>8, <2>9 DEF r, o
<1>3. CASE o \notin m.events
  <2> DEFINE c == m.coalesced \ {o}
             i == [m.index EXCEPT ![o.event] = Unset]
  <2>1. r = [m EXCEPT !.coalesced = c, !.index = i]
    BY <1>3 DEF Popped
  <2>2. o \in m.coalesced /\ o.event \in Keys /\ m.index[o.event] = o.seq
    BY <1>1, <1>3 DEF Pending, Shape
  <2>3. c \in SUBSET m.coalesced /\ c \in SUBSET Entries
        /\ i \in [Keys -> Nat \cup {Unset}]
    BY <1>0, <2>2 DEF Mailboxes
  <2>4. /\ r \in Mailboxes /\ r.next = m.next /\ r.events = m.events
        /\ r.coalesced = c /\ r.index = i
        /\ r.closed = m.closed /\ r.overflowed = m.overflowed
    <3> HIDE DEF r, c, i
    <3> QED BY <1>0, <2>1, <2>3 DEF Mailboxes
  <2>5. IsFiniteSet(c) /\ Cardinality(c) <= Cardinality(m.coalesced)
        /\ Cardinality(c) \in Nat
    BY <2>3, FS_Subset, FS_CardinalityType DEF Shape
  <2>6. Count(r) <= Capacity
    <3> HIDE DEF r, c, i
    <3> QED BY <2>4, <2>5, CountIsCardinality, MailboxAssumption
            DEF Shape, Count
  <2>7. ASSUME NEW x \in c
        PROVE  x.event \in Keys /\ i[x.event] = x.seq
    <3>1. x.event \in Keys /\ m.index[x.event] = x.seq
      BY DEF Shape
    <3>2. x.event # o.event
      BY <2>2, <3>1 DEF Numbered, Pending
    <3> QED BY <1>0, <3>1, <3>2 DEF Mailboxes
  <2>8. ASSUME NEW k \in Keys, i[k] # Unset
        PROVE  [seq |-> i[k], event |-> k] \in c
    <3>1. k # o.event /\ i[k] = m.index[k]
      BY <1>0, <2>2, <2>8 DEF Mailboxes
    <3>2. [seq |-> m.index[k], event |-> k] \in m.coalesced
      BY <2>8, <3>1 DEF Shape
    <3>3. [seq |-> m.index[k], event |-> k] # o
      BY <3>1
    <3> QED BY <3>1, <3>2, <3>3
  <2>9. IsFiniteSet(m.events)
        /\ \A x \in m.events : x.event.kind \notin StateKinds
    BY DEF Shape
  <2> HIDE DEF r, c, i
  <2>10. Shape(r)
    BY <2>4, <2>5, <2>6, <2>7, <2>8, <2>9 DEF Shape
  <2>11. Pending(r) = Pending(m) \ {o}
    BY <1>3, <2>4 DEF Pending, c
  <2>12. Numbered(r)
    BY <2>4, <2>11 DEF Numbered
  <2> QED BY <2>4, <2>10, <2>11, <2>12 DEF r, o
<1> QED BY <1>2, <1>3

(* MuxEventMailbox::push                                                   *)
LEMMA LeftIsPending ==
  ASSUME NEW m, NEW event
  PROVE  Left(m, event) \subseteq Pending(m)
BY DEF Left, Stream!Remaining, Stream!Newest

LEMMA PushedShape ==
  ASSUME NEW m, Shape(m), Numbered(m), NEW event \in Events
  PROVE  LET r == Pushed(m, event) IN
         /\ Shape(r) /\ Numbered(r)
         /\ r.next = m.next + 1
         /\ \/ /\ Cardinality(Left(m, event)) < Capacity
               /\ Pending(r) = Left(m, event) \cup {Entry(m, event)}
               /\ r.closed = m.closed /\ r.overflowed = m.overflowed
            \/ /\ Cardinality(Left(m, event)) >= Capacity
               /\ Pending(r) = Pending(m)
               /\ r.closed = TRUE /\ r.overflowed = TRUE
<1> DEFINE a == Accepted(m, event)
           r == Pushed(m, event)
<1>1. Taken(m, event, a)
  BY AcceptedTaken
<1> HIDE DEF a
<1>2. /\ Shape(a) /\ a.next = m.next /\ m.next \in Nat /\ a \in Mailboxes
      /\ Entry(m, event).seq = m.next
  BY <1>1, EntryIsEntry DEF Taken, Shape
<1>3. r = [a EXCEPT !.next = m.next + 1]
  BY DEF Pushed, a
<1> HIDE DEF r
<1>4. /\ r \in Mailboxes /\ r.next = m.next + 1 /\ r.events = a.events
      /\ r.coalesced = a.coalesced /\ r.index = a.index
      /\ r.closed = a.closed /\ r.overflowed = a.overflowed
  BY <1>2, <1>3 DEF Mailboxes
<1>5. Shape(r) /\ Pending(r) = Pending(a)
  BY <1>2, <1>4 DEF Shape, Count, Pending
<1>6. Pending(r) \subseteq Pending(m) \cup {Entry(m, event)}
  BY <1>1, <1>5, LeftIsPending DEF Taken
<1>7. \A x \in Pending(m) : x.seq \in Nat /\ x.seq < m.next
  BY DEF Shape, Mailboxes, Entries, Pending, Numbered
<1>8. Numbered(r)
  <2>1. \A x \in Pending(r) : x.seq < m.next + 1
    BY <1>2, <1>6, <1>7
  <2>2. ASSUME NEW x \in Pending(r), NEW y \in Pending(r), x.seq = y.seq
        PROVE  x = y
    <3>1. CASE x \in Pending(m) /\ y \in Pending(m)
      BY <2>2, <3>1 DEF Numbered
    <3>2. CASE x = Entry(m, event) \/ y = Entry(m, event)
      BY <1>2, <1>6, <1>7, <2>2, <3>2
    <3> QED BY <1>6, <3>1, <3>2
  <2> QED BY <1>4, <2>1, <2>2 DEF Numbered
<1> QED BY <1>1, <1>4, <1>5, <1>8 DEF Taken, r

-----------------------------------------------------------------------------
(* What is pending is what the view lacks.                                 *)

LEMMA AppliedFacts ==
  ASSUME NEW states \in States, NEW x \in Entries
  PROVE  /\ Applied(states, x) \in States
         /\ \A k \in Keys : Applied(states, x)[k] =
              IF Decides(x, k) THEN Effect(x, k) ELSE states[k]
<1>1. x.event \in Events /\ x.seq \in Nat
  BY DEF Entries
<1>2. CASE x.event.kind \in StateKinds
  <2>1. x.event \in Keys
    BY <1>1, <1>2, EventFacts
  <2>2. Applied(states, x) = [states EXCEPT ![x.event] = x.seq]
    BY <1>2 DEF Applied
  <2>3. \A k \in Keys : Decides(x, k) <=> k = x.event
    BY <1>2, EventFacts, <2>1 DEF Decides
  <2> QED BY <1>1, <2>1, <2>2, <2>3 DEF States, Effect
<1>3. CASE x.event.kind = "Exited"
  <2>1. Applied(states, x) = Without(states, x.event.surface)
    BY <1>3 DEF Applied, StateKinds
  <2>2. \A k \in Keys : x.event # k
    BY <1>3, EventFacts
  <2>3. \A k \in Keys : Decides(x, k) <=> x.event.surface = k.surface
    BY <1>3, <2>2 DEF Decides
  <2> QED BY <2>1, <2>2, <2>3 DEF States, Effect, Without
<1>4. CASE x.event.kind = "Empty"
  <2>1. Applied(states, x) = Nothing
    BY <1>4 DEF Applied, StateKinds
  <2>2. \A k \in Keys : x.event # k
    BY <1>4, EventFacts
  <2> QED BY <1>4, <2>1, <2>2 DEF States, Effect, Nothing, Decides
<1>5. CASE x.event.kind \in {"Other", "WorkspaceClosed"}
  <2>1. Applied(states, x) = states
    BY <1>5 DEF Applied, StateKinds
  <2>2. \A k \in Keys : x.event # k
    BY <1>5, EventFacts DEF StateKinds
  <2> QED BY <1>5, <2>1, <2>2 DEF States, Decides
<1> QED BY <1>1, <1>2, <1>3, <1>4, <1>5, EventFacts

(* Delivering the oldest entry leaves the newer ones to decide.            *)
LEMMA ForeseenPopped ==
  ASSUME NEW P \in SUBSET Entries, \A x, y \in P : x.seq = y.seq => x = y,
         NEW o \in P, \A y \in P : o.seq <= y.seq,
         NEW shown \in States, NEW true \in States, NEW k \in Keys,
         Foreseen(P, shown, true, k)
  PROVE  Foreseen(P \ {o}, Applied(shown, o), true, k)
<1> DEFINE after == Applied(shown, o)
<1>1. after[k] = IF Decides(o, k) THEN Effect(o, k) ELSE shown[k]
  BY AppliedFacts
<1> SUFFICES Foreseen(P \ {o}, after, true, k)
  OBVIOUS
<1> HIDE DEF after
<1>2. CASE true[k] = shown[k] /\ \A x \in P : ~Decides(x, k)
  BY <1>1, <1>2 DEF Foreseen
<1>3. CASE \E x \in P : /\ Decides(x, k) /\ true[k] = Effect(x, k)
                        /\ \A y \in P : Decides(y, k) => y.seq <= x.seq
  <2>1. PICK x \in P : /\ Decides(x, k) /\ true[k] = Effect(x, k)
                       /\ \A y \in P : Decides(y, k) => y.seq <= x.seq
    BY <1>3
  <2>2. CASE x # o
    BY <2>1, <2>2 DEF Foreseen
  <2>3. CASE x = o
    <3>1. ASSUME NEW y \in P \ {o} PROVE ~Decides(y, k)
      <4>1. o.seq \in Nat /\ y.seq \in Nat /\ o.seq <= y.seq
        BY DEF Entries
      <4>2. Decides(y, k) => y.seq <= o.seq
        BY <2>1, <2>3
      <4> QED BY <4>1, <4>2
    <3>2. true[k] = after[k]
      BY <1>1, <2>1, <2>3
    <3> QED BY <3>1, <3>2 DEF Foreseen
  <2> QED BY <2>2, <2>3
<1> QED BY <1>2, <1>3 DEF Foreseen

(* Coalescing only removes what the new entry decides.                     *)
LEMMA LeftDecides ==
  ASSUME NEW m, Shape(m), NEW event \in Events, NEW k \in Keys,
         ~Decides(Entry(m, event), k),
         NEW x \in Pending(m), Decides(x, k)
  PROVE  x \in Left(m, event)
<1>1. Entry(m, event).event = event /\ x \in Entries /\ x.event \in Events
  BY DEF Entry, Shape, Mailboxes, Pending, Entries
<1>2. event.kind # "Empty" /\ event # k
      /\ ~(event.kind = "Exited" /\ event.surface = k.surface)
  BY <1>1 DEF Decides
<1>3. CASE event.kind \in StateKinds
  <2>1. x.event # event
    BY <1>2, <1>3, EventFacts DEF Decides, StateKinds
  <2> QED BY <1>3, <2>1
      DEF Left, Stream!Remaining, Stream!StateKinds, StateKinds
<1>4. CASE event.kind = "Exited"
  <2>1. ~(x.event.kind \in StateKinds /\ x.event.surface = event.surface)
    BY <1>2, <1>4 DEF Decides, StateKinds
  <2> QED BY <1>4, <2>1
      DEF Left, Stream!Remaining, Stream!StateKinds, StateKinds
<1>5. CASE event.kind \notin StateKinds \cup {"Exited", "Empty"}
  BY <1>5 DEF Left, Stream!Remaining, Stream!StateKinds, StateKinds
<1> QED BY <1>2, <1>3, <1>4, <1>5

LEMMA ForeseenPushed ==
  ASSUME NEW m, Shape(m), Numbered(m), NEW event \in Events,
         NEW shown \in States, NEW true \in States, NEW k \in Keys,
         Foreseen(Pending(m), shown, true, k)
  PROVE  Foreseen(Left(m, event) \cup {Entry(m, event)}, shown,
                  Applied(true, Entry(m, event)), k)
<1> DEFINE x == Entry(m, event)
           after == Applied(true, x)
           P == Left(m, event) \cup {x}
<1>1. x \in Entries /\ x.seq = m.next /\ m.next \in Nat
  BY EntryIsEntry
<1>2. after[k] = IF Decides(x, k) THEN Effect(x, k) ELSE true[k]
  BY <1>1, AppliedFacts
<1>3. \A y \in Pending(m) : y.seq \in Nat /\ y.seq < x.seq
  BY <1>1 DEF Shape, Mailboxes, Entries, Pending, Numbered
<1>4. Left(m, event) \subseteq Pending(m)
  BY LeftIsPending
<1>5. CASE Decides(x, k)
  <2>1. \A y \in P : y.seq <= x.seq
    <3> HIDE DEF x
    <3> QED BY <1>1, <1>3, <1>4
  <2> HIDE DEF x, after
  <2>2. x \in P /\ after[k] = Effect(x, k)
    BY <1>2, <1>5
  <2> HIDE DEF P
  <2>3. Foreseen(P, shown, after, k)
    BY <1>5, <2>1, <2>2 DEF Foreseen
  <2> QED BY <2>3 DEF P, x, after
<1>6. CASE ~Decides(x, k)
  <2>1. after[k] = true[k]
    BY <1>2, <1>6
  <2>2. \A y \in Pending(m) : Decides(y, k) => y \in P
    BY <1>6, LeftDecides
  <2>3. \A y \in P : Decides(y, k) => y \in Pending(m)
    BY <1>4, <1>6
  <2> HIDE DEF x, after, P
  <2>4. Foreseen(P, shown, after, k)
    BY <2>1, <2>2, <2>3 DEF Foreseen
  <2> QED BY <2>4 DEF P, x, after
<1> QED BY <1>5, <1>6

-----------------------------------------------------------------------------
(* The invariant, action by action.                                        *)

LEMMA InitMailbox == Init => MailboxInv
<1> SUFFICES ASSUME Init PROVE MailboxInv
  OBVIOUS
<1>1. /\ mailbox \in Mailboxes /\ mailbox.next = 0
      /\ mailbox.events = {} /\ mailbox.coalesced = {}
      /\ mailbox.index = Nothing
      /\ mailbox.closed = FALSE /\ mailbox.overflowed = FALSE
  BY DEF Init, Mailboxes, Nothing
<1>2. Pending(mailbox) = {} /\ Count(mailbox) = 0
  BY <1>1, FS_EmptySet DEF Pending, Count
<1>3. Shape(mailbox) /\ Numbered(mailbox)
  BY <1>1, <1>2, FS_EmptySet, MailboxAssumption
     DEF Shape, Numbered, Nothing
<1>4. /\ truth = view /\ view \in States /\ thread = "running"
      /\ subscribed = TRUE /\ held = TRUE
  BY DEF Init, States, Nothing
<1>5. \A k \in Keys : Foreseen(Pending(mailbox), view, truth, k)
  BY <1>2, <1>4 DEF Foreseen
<1> QED BY <1>1, <1>3, <1>4, <1>5 DEF MailboxInv, NobodySleepsOnNews

LEMMA EmitMailbox ==
  ASSUME MailboxInv, NEW event \in Events, Emit(event)
  PROVE  MailboxInv'
<1> DEFINE x == Entry(mailbox, event)
<1>1. x \in Entries /\ truth \in States /\ truth' = Applied(truth, x)
      /\ mailbox.closed \in BOOLEAN
  BY EntryIsEntry DEF MailboxInv, Emit, Shape, Mailboxes
<1>2. truth' \in States
  BY <1>1, AppliedFacts
<1>3. CASE held /\ ~mailbox.closed
  <2>1. /\ mailbox' = Pushed(mailbox, event) /\ subscribed' = ~mailbox'.closed
        /\ thread' \in {"running", "ended"} /\ held' = held /\ view' = view
        /\ Shape(mailbox) /\ Numbered(mailbox) /\ ~mailbox.overflowed
    BY <1>3 DEF Emit, Wake, MailboxInv
  <2>2. /\ Shape(mailbox') /\ Numbered(mailbox')
        /\ \/ /\ Pending(mailbox') = Left(mailbox, event) \cup {x}
              /\ mailbox'.closed = mailbox.closed
              /\ mailbox'.overflowed = mailbox.overflowed
           \/ mailbox'.closed = TRUE /\ mailbox'.overflowed = TRUE
    BY <2>1, PushedShape
  <2>3. ASSUME ~mailbox'.overflowed, NEW k \in Keys
        PROVE  Foreseen(Pending(mailbox'), view', truth', k)
    <3>1. Foreseen(Pending(mailbox), view, truth, k) /\ view \in States
      BY <1>3, <2>1 DEF MailboxInv
    <3>2. Pending(mailbox') = Left(mailbox, event) \cup {x}
      BY <2>2, <2>3
    <3>3. Foreseen(Left(mailbox, event) \cup {x}, view, Applied(truth, x), k)
      BY <1>1, <2>1, <3>1, ForeseenPushed
    <3> QED BY <1>1, <2>1, <3>2, <3>3
  <2>4. mailbox'.closed \in BOOLEAN /\ mailbox'.overflowed \in BOOLEAN
    BY <2>2 DEF Shape, Mailboxes
  <2>5. mailbox'.overflowed => mailbox'.closed
    BY <2>1, <2>2
  <2>6. /\ subscribed' \in BOOLEAN /\ held' \in BOOLEAN /\ view' \in States
        /\ thread' \in {"running", "waiting", "ended"}
        /\ (subscribed' => ~mailbox'.closed)
    BY <2>1, <2>4 DEF MailboxInv
  <2>7. NobodySleepsOnNews'
    BY <2>1 DEF NobodySleepsOnNews
  <2> QED BY <1>2, <2>2, <2>3, <2>5, <2>6, <2>7 DEF MailboxInv
<1>4. CASE ~(held /\ ~mailbox.closed)
  <2>1. /\ mailbox' = mailbox /\ thread' = thread /\ subscribed' = FALSE
        /\ held' = held /\ view' = view /\ subscribed = TRUE
    BY <1>4 DEF Emit, MailboxInv
  <2>2. ~held
    BY <1>4, <2>1 DEF MailboxInv
  <2>3. NobodySleepsOnNews'
    BY <2>1 DEF MailboxInv, NobodySleepsOnNews
  <2> QED BY <1>2, <2>1, <2>2, <2>3 DEF MailboxInv
<1> QED BY <1>3, <1>4

LEMMA DropMailbox ==
  ASSUME MailboxInv, DropBroadcaster
  PROVE  MailboxInv'
<1>1. /\ thread' \in {"running", "ended"} /\ held' = held /\ view' = view
      /\ truth' = truth /\ subscribed' = FALSE
      /\ mailbox' = [mailbox EXCEPT !.closed = IF held THEN TRUE
                                               ELSE mailbox.closed]
  BY DEF DropBroadcaster, Wake, MailboxInv
<1>2. mailbox \in Mailboxes
  BY DEF MailboxInv, Shape
<1>3. /\ mailbox' \in Mailboxes /\ mailbox'.next = mailbox.next
      /\ mailbox'.events = mailbox.events
      /\ mailbox'.coalesced = mailbox.coalesced
      /\ mailbox'.index = mailbox.index
      /\ mailbox'.overflowed = mailbox.overflowed
      /\ (mailbox.closed => mailbox'.closed)
  BY <1>1, <1>2 DEF Mailboxes
<1>4. Shape(mailbox') /\ Numbered(mailbox') /\ Pending(mailbox') = Pending(mailbox)
  BY <1>3 DEF MailboxInv, Shape, Numbered, Count, Pending
<1>5. NobodySleepsOnNews'
  BY <1>1 DEF NobodySleepsOnNews
<1> QED BY <1>1, <1>3, <1>4, <1>5 DEF MailboxInv

LEMMA ReceiveMailbox ==
  ASSUME MailboxInv, Receive
  PROVE  MailboxInv'
<1>1. Shape(mailbox) /\ Numbered(mailbox) /\ view \in States /\ held = TRUE
  BY DEF MailboxInv, Receive
<1>2. CASE Pending(mailbox) # {}
  <2> DEFINE o == Oldest(mailbox)
  <2>1. /\ mailbox' = Popped(mailbox) /\ view' = Applied(view, o)
        /\ thread' = "running" /\ held' = held /\ subscribed' = subscribed
        /\ truth' = truth
    BY <1>2 DEF Receive
  <2>2. o \in Pending(mailbox) /\ \A y \in Pending(mailbox) : o.seq <= y.seq
    BY <1>1, <1>2, OldestFacts
  <2>3. /\ Shape(mailbox') /\ Numbered(mailbox')
        /\ mailbox'.closed = mailbox.closed
        /\ mailbox'.overflowed = mailbox.overflowed
        /\ Pending(mailbox') = Pending(mailbox) \ {o}
    BY <1>1, <1>2, <2>1, PoppedShape
  <2>4. Pending(mailbox) \in SUBSET Entries
    BY <1>1 DEF Shape, Mailboxes, Pending
  <2> HIDE DEF o
  <2>5. view' \in States
    BY <1>1, <2>1, <2>2, <2>4, AppliedFacts
  <2>6. ASSUME ~mailbox'.overflowed, NEW k \in Keys
        PROVE  Foreseen(Pending(mailbox'), view', truth', k)
    <3>1. Foreseen(Pending(mailbox), view, truth, k) /\ truth \in States
      BY <1>1, <2>3, <2>6 DEF MailboxInv
    <3>2. \A x, y \in Pending(mailbox) : x.seq = y.seq => x = y
      BY <1>1 DEF Numbered
    <3>3. Foreseen(Pending(mailbox) \ {o}, Applied(view, o), truth, k)
      BY <1>1, <2>2, <2>4, <3>1, <3>2, ForeseenPopped
    <3> QED BY <2>1, <2>3, <3>3
  <2>7. NobodySleepsOnNews'
    BY <2>1 DEF NobodySleepsOnNews
  <2> QED BY <2>1, <2>3, <2>5, <2>6, <2>7 DEF MailboxInv
<1>3. CASE Pending(mailbox) = {}
  <2>1. /\ thread' = IF mailbox.closed THEN "ended" ELSE "waiting"
        /\ UNCHANGED <<mailbox, subscribed, held, truth, view>>
    BY <1>3 DEF Receive
  <2>2. NobodySleepsOnNews'
    BY <1>3, <2>1 DEF NobodySleepsOnNews
  <2> QED BY <2>1, <2>2 DEF MailboxInv
<1> QED BY <1>2, <1>3

LEMMA NextMailbox == MailboxInv /\ [Next]_vars => MailboxInv'
<1> SUFFICES ASSUME MailboxInv, [Next]_vars PROVE MailboxInv'
  OBVIOUS
<1>1. CASE WakeUp
  BY <1>1 DEF WakeUp, MailboxInv, NobodySleepsOnNews
<1>2. CASE DropReceiver
  BY <1>2 DEF DropReceiver, MailboxInv, NobodySleepsOnNews
<1>3. CASE UNCHANGED vars
  BY <1>3 DEF vars, MailboxInv, NobodySleepsOnNews
<1> QED BY <1>1, <1>2, <1>3, EmitMailbox, DropMailbox, ReceiveMailbox DEF Next

-----------------------------------------------------------------------------
(* The queues, the index, the bound and the ghosts agree in every state.   *)
THEOREM MailboxInvariant == Spec => []MailboxInv
BY InitMailbox, NextMailbox, PTL DEF Spec

(* The mailbox is well formed, and every pending entry is older than the   *)
(* next one.                                                               *)
THEOREM TypeCorrect == Spec => []TypeOK
<1>1. MailboxInv => TypeOK
  BY DEF MailboxInv, Shape, Numbered, States, TypeOK
<1> QED BY <1>1, MailboxInvariant, PTL

(* Pushing, discarding, emptying and popping never let the index and the   *)
(* map of coalesced states drift apart.                                    *)
THEOREM IndexFollowsTheMap == Spec => []IndexMatches
<1>1. MailboxInv => IndexMatches
  BY DEF MailboxInv, Shape, Numbered, IndexMatches
<1> QED BY <1>1, MailboxInvariant, PTL

(* MAX_PENDING_EVENTS bounds what is kept, for any bound and any order of  *)
(* events, Empty on a full mailbox included.                               *)
THEOREM PendingStaysBounded == Spec => []PendingIsBounded
<1>1. MailboxInv => PendingIsBounded
  BY DEF MailboxInv, Shape, PendingIsBounded
<1> QED BY <1>1, MailboxInvariant, PTL

(* A subscriber that has read everything and was not cut off has the true  *)
(* state of every surface, whatever was coalesced or discarded.            *)
THEOREM DrainedViewsAreTrue == Spec => []DrainedViewIsTrue
<1>1. ASSUME MailboxInv, held, Pending(mailbox) = {}, ~mailbox.overflowed
      PROVE  view = truth
  <2>1. \A k \in Keys : truth[k] = view[k]
    BY <1>1 DEF MailboxInv, Foreseen
  <2>2. truth \in States /\ view \in States
    BY <1>1 DEF MailboxInv
  <2> QED BY <2>1, <2>2 DEF States
<1>2. MailboxInv => DrainedViewIsTrue
  BY <1>1 DEF DrainedViewIsTrue
<1> QED BY <1>2, MailboxInvariant, PTL

(* No wakeup is lost: a receiver sleeps only on an empty, open mailbox.    *)
THEOREM NoWakeupIsLost == Spec => []NobodySleepsOnNews
<1>1. MailboxInv => NobodySleepsOnNews
  BY DEF MailboxInv
<1> QED BY <1>1, MailboxInvariant, PTL

(* The deque, the map and the index implement the one ordered stream with  *)
(* coalescing that a subscriber is promised.                               *)
THEOREM MailboxImplementsStream == Spec => ImplementsStream
<1>1. Init => Stream!Init
  BY DEF Init, Pending, Stream!Init
<1>2. ASSUME MailboxInv, [Next]_vars
      PROVE  [Stream!Next]_<<Pending(mailbox), mailbox.next, ~mailbox.closed>>
  <2>0. Shape(mailbox) /\ Numbered(mailbox) /\ mailbox \in Mailboxes
        /\ mailbox.closed \in BOOLEAN
    BY <1>2 DEF MailboxInv, Shape, Mailboxes
  <2>1. ASSUME NEW event \in Events, Emit(event), held, ~mailbox.closed
        PROVE  Stream!Post(event)
    <3>1. mailbox' = Pushed(mailbox, event)
      BY <2>1 DEF Emit
    <3>2. /\ mailbox'.next = mailbox.next + 1
          /\ \/ /\ Cardinality(Left(mailbox, event)) < Capacity
                /\ Pending(mailbox')
                     = Left(mailbox, event) \cup {Entry(mailbox, event)}
                /\ mailbox'.closed = mailbox.closed
             \/ /\ Cardinality(Left(mailbox, event)) >= Capacity
                /\ Pending(mailbox') = Pending(mailbox)
                /\ mailbox'.closed = TRUE
      BY <2>0, <3>1, PushedShape
    <3>3. Stream!Cardinality(Left(mailbox, event))
            = Cardinality(Left(mailbox, event))
      BY SameCardinality
    <3> QED BY <2>0, <2>1, <3>2, <3>3 DEF Stream!Post, Left, Entry
  <2>2. ASSUME NEW event \in Events, Emit(event), ~(held /\ ~mailbox.closed)
        PROVE  UNCHANGED mailbox
    BY <2>2 DEF Emit
  <2>3. CASE Receive
    <3>1. CASE Pending(mailbox) # {}
      <4>1. mailbox' = Popped(mailbox)
        BY <2>3, <3>1 DEF Receive
      <4>2. Oldest(mailbox) \in Pending(mailbox)
            /\ \A y \in Pending(mailbox) : Oldest(mailbox).seq <= y.seq
        BY <2>0, <3>1, OldestFacts
      <4>3. /\ mailbox'.next = mailbox.next /\ mailbox'.closed = mailbox.closed
            /\ Pending(mailbox') = Pending(mailbox) \ {Oldest(mailbox)}
        BY <2>0, <3>1, <4>1, PoppedShape
      <4>4. Stream!Take
        BY <4>2, <4>3 DEF Stream!Take
      <4> QED BY <4>4 DEF Stream!Next
    <3>2. CASE Pending(mailbox) = {}
      BY <2>3, <3>2 DEF Receive
    <3> QED BY <3>1, <3>2
  <2>4. CASE DropBroadcaster
    <3>1. mailbox' = [mailbox EXCEPT !.closed = IF held THEN TRUE
                                                ELSE mailbox.closed]
      BY <2>4 DEF DropBroadcaster
    <3>2. /\ mailbox'.next = mailbox.next /\ mailbox'.events = mailbox.events
          /\ mailbox'.coalesced = mailbox.coalesced
          /\ (held => mailbox'.closed = TRUE)
          /\ (~held => mailbox'.closed = mailbox.closed)
      BY <2>0, <3>1 DEF Mailboxes
    <3>3. held => Stream!Close
      BY <3>2 DEF Stream!Close, Pending
    <3> QED BY <3>2, <3>3 DEF Stream!Next, Pending
  <2>5. CASE WakeUp \/ DropReceiver \/ UNCHANGED vars
    BY <2>5 DEF WakeUp, DropReceiver, vars
  <2> QED BY <1>2, <2>1, <2>2, <2>3, <2>4, <2>5 DEF Next, Stream!Next
<1>3. MailboxInv /\ [Next]_vars
        => [Stream!Next]_<<Pending(mailbox), mailbox.next, ~mailbox.closed>>
  BY <1>2
<1> QED BY <1>1, <1>3, MailboxInvariant, PTL
    DEF Spec, ImplementsStream, Stream!Spec, Stream!vars

-----------------------------------------------------------------------------
(* The scope: where the subscriber is told the surface is.                 *)
USE ScopeAssumption

(* Before its adoption a browser target is nowhere and nobody is           *)
(* subscribed to it: without this the attach would put it in a place the   *)
(* client was never told of.                                               *)
Unborn == adoption = "none" => place = NoPane /\ scope = NoPane

ScopeInv == ScopeTypeOK /\ Unborn /\ MovesAreTold

LEMMA InitScopeInv == ScopeInit => ScopeInv
<1> SUFFICES ASSUME ScopeInit PROVE ScopeInv
  OBVIOUS
<1>1. Idle \in Steps
  BY DEF Idle, Steps
<1>2. ScopeTypeOK
  <2>1. /\ content \in {"terminal", "browser"} /\ adoption \in Adoptions
        /\ place \in Panes \cup {NoPane}
    BY DEF ScopeInit, TerminalInit, BrowserInit, Adoptions
  <2>2. /\ delta \in Panes \cup {NoPane} /\ scope \in Panes \cup {NoPane}
        /\ told \in BOOLEAN /\ seen \in Panes \cup {NoPane}
        /\ untold \in BOOLEAN
    BY DEF ScopeInit, ClientInit
  <2>3. mover \in [Movers -> Steps]
    BY <1>1 DEF ScopeInit, ClientInit
  <2>4. moves \in 0..MaxMoves
    BY DEF ScopeInit, ClientInit
  <2> QED
    BY <2>1, <2>2, <2>3, <2>4 DEF ScopeTypeOK
<1>3. Unborn /\ MovesAreTold
  BY DEF ScopeInit, TerminalInit, BrowserInit, ClientInit, Unborn, MovesAreTold,
         Subscribed
<1> QED
  BY <1>2, <1>3 DEF ScopeInv

(* What a new path does to the client: it is told, if it is there.         *)
LEMMA RescopeFact ==
  ASSUME ScopeTypeOK, NEW pane \in Panes \cup {NoPane}, Rescope(pane)
  PROVE  /\ scope' \in Panes \cup {NoPane} /\ told' \in BOOLEAN /\ seen' = seen
         /\ untold' \in BOOLEAN
         /\ Subscribed' => told'
         /\ scope = NoPane => scope' = NoPane
  BY DEF ScopeTypeOK, Rescope, Subscribed

LEMMA StepScopeInv == ScopeInv /\ [ScopeNext]_scopeVars => ScopeInv'
<1> SUFFICES ASSUME ScopeInv, [ScopeNext]_scopeVars PROVE ScopeInv'
  OBVIOUS
<1> USE DEF ScopeInv
<1>1. ASSUME NEW pane \in Panes, AdoptAttach(pane) PROVE ScopeInv'
  BY <1>1
  DEF AdoptAttach, client, ScopeTypeOK, Unborn, MovesAreTold, Subscribed, Adoptions
<1>2. CASE AdoptStore
  BY <1>2
  DEF AdoptStore, client, ScopeTypeOK, Unborn, MovesAreTold, Subscribed, Adoptions
<1>3. CASE AdoptUndo
  BY <1>3
  DEF AdoptUndo, ScopeTypeOK, Unborn, MovesAreTold, Subscribed, Adoptions
<1>4. CASE AdoptAnnounce
  <2>1. delta \in Panes \cup {NoPane} /\ Rescope(delta)
    BY <1>4 DEF AdoptAnnounce, ScopeTypeOK
  <2> QED
    BY <1>4, <2>1, RescopeFact
    DEF AdoptAnnounce, ScopeTypeOK, Unborn, MovesAreTold, Subscribed, Adoptions
<1>5. CASE Subscribe
  BY <1>5
  DEF Subscribe, InTree, adopting, ScopeTypeOK, Unborn, MovesAreTold, Subscribed
<1>6. CASE Refresh
  BY <1>6 DEF Refresh, adopting, ScopeTypeOK, Unborn, MovesAreTold, Subscribed
<1>7. ASSUME NEW pane \in Panes, TabMove(pane) PROVE ScopeInv'
  BY <1>7, RescopeFact
  DEF TabMove, Movable, adopting, ScopeTypeOK, Unborn, MovesAreTold, Subscribed
<1>8. ASSUME NEW t \in Movers, NEW pane \in Panes, MoveCommit(t, pane)
      PROVE  ScopeInv'
  <2>1. mover' \in [Movers -> Steps] /\ mover'[t].at = "committed"
    BY <1>8 DEF MoveCommit, ScopeTypeOK, Steps
  <2> QED
    BY <1>8, <2>1
    DEF MoveCommit, Movable, adopting, client, ScopeTypeOK, Unborn, MovesAreTold
<1>9. ASSUME NEW t \in Movers, MoveRead(t) PROVE ScopeInv'
  <2>1. mover' \in [Movers -> Steps] /\ mover'[t].at = "read"
    BY <1>9 DEF MoveRead, ScopeTypeOK, Steps
  <2> QED
    BY <1>9, <2>1
    DEF MoveRead, adopting, client, ScopeTypeOK, Unborn, MovesAreTold
<1>10. ASSUME NEW t \in Movers, MoveUpdate(t) PROVE ScopeInv'
  <2>1. mover[t].path \in Panes \cup {NoPane} /\ Rescope(mover[t].path)
    BY <1>10 DEF MoveUpdate, ScopeTypeOK, Steps
  <2>2. mover' \in [Movers -> Steps]
    BY <1>10 DEF MoveUpdate, ScopeTypeOK, Steps, Idle
  <2> QED
    BY <1>10, <2>1, <2>2, RescopeFact
    DEF MoveUpdate, adopting, ScopeTypeOK, Unborn, MovesAreTold
<1>11. ASSUME NEW pane \in Panes, Rearrange(pane) PROVE ScopeInv'
  <2>1. untold' \in BOOLEAN /\ moves' \in 0..MaxMoves
    BY <1>11 DEF Rearrange, ScopeTypeOK
  <2>2. MovesAreTold'
    BY <1>11 DEF Rearrange, MovesAreTold, Subscribed
  <2>3. place' \in Panes /\ UNCHANGED <<content, adoption, delta>>
        /\ UNCHANGED <<mover, scope, told, seen>> /\ adoption # "none"
    BY <1>11 DEF Rearrange, InTree, adopting, Unborn
  <2> QED
    BY <2>1, <2>2, <2>3 DEF ScopeTypeOK, Unborn
<1>12. CASE UNCHANGED scopeVars
  BY <1>12 DEF scopeVars, ScopeTypeOK, Unborn, MovesAreTold, Subscribed
<1> QED
  BY <1>1, <1>2, <1>3, <1>4, <1>5, <1>6, <1>7, <1>8, <1>9, <1>10, <1>11, <1>12
  DEF ScopeNext, Adopt, TerminalMove

(* The inductive invariant holds of every behaviour of the mover threads,  *)
(* the adoption and the client.                                            *)
THEOREM ScopeInvariant == ScopeSpec => []ScopeInv
  BY InitScopeInv, StepScopeInv, PTL DEF ScopeSpec

(* Every variable keeps its type, for any number of panes and threads.     *)
THEOREM ScopeTypeCorrect == ScopeSpec => []ScopeTypeOK
  BY ScopeInvariant, PTL DEF ScopeInv

(* No move of the surface by tab.move, terminal.move or its adoption goes  *)
(* untold, for any number of panes, threads and moves, whatever else       *)
(* arranges the panes in between.                                          *)
THEOREM NoMoveGoesUntold == ScopeSpec => []MovesAreTold
  BY ScopeInvariant, PTL DEF ScopeInv
=============================================================================
