---------------------------- MODULE EventMailbox ----------------------------
(***************************************************************************)
(* Delivery of mux events to one subscriber: event_bus.rs.  The broadcaster *)
(* pushes under the mailbox's mutex; ordinary events go to a deque, and    *)
(* the state of a surface to a map that holds one entry per key, found     *)
(* through an index.  The receiver pops the older head of the two, or      *)
(* waits on the condition variable.                                        *)
(*                                                                         *)
(* The deque and the ordered map are sets of entries: both are kept in the *)
(* order of the sequence numbers, and their heads are the least ones.      *)
(* Scroll states are treated like titles and outputs, and are left out;    *)
(* "Other" is any event without a rule of its own.  A filter only makes a  *)
(* subscriber see fewer events.                                            *)
(***************************************************************************)
EXTENDS Integers, FiniteSets

CONSTANTS
  Surfaces,
  Capacity,    \* MAX_PENDING_EVENTS
  MaxSequence  \* bound: how many events are emitted

ASSUME MailboxAssumption ==
  /\ Capacity \in Nat \ {0}
  /\ MaxSequence \in Nat

VARIABLES
  mailbox,     \* MuxEventMailboxState
  subscribed,  \* the broadcaster lists the subscriber
  held,        \* the MuxEventReceiver exists
  thread,      \* the thread that receives
  truth,       \* ghost: the state of the surfaces, from what was emitted
  view         \* ghost: the same, from what was delivered

vars == <<mailbox, subscribed, held, thread, truth, view>>

StateKinds == {"Title", "Output"}
FinalKinds == {"Exited", "WorkspaceClosed"}

Keys    == [kind : StateKinds, surface : Surfaces]   \* CoalescedEventKey
Events  == [kind : StateKinds \cup {"Exited", "Other"}, surface : Surfaces]
             \cup [kind : {"WorkspaceClosed", "Empty"}, surface : {"none"}]
Entries == [seq : Nat, event : Events]

Unset == -1   \* the index has no such key

Mailboxes ==
  [next : Nat,                          \* next_sequence
   events : SUBSET Entries,
   coalesced : SUBSET Entries,
   index : [Keys -> Nat \cup {Unset}],  \* coalesced_sequences
   closed : BOOLEAN, overflowed : BOOLEAN]

Nothing == [k \in Keys |-> Unset]

Init ==
  /\ mailbox = [next |-> 0, events |-> {}, coalesced |-> {}, index |-> Nothing,
                closed |-> FALSE, overflowed |-> FALSE]
  /\ subscribed = TRUE /\ held = TRUE
  /\ thread = "running"
  /\ truth = Nothing /\ view = Nothing

-----------------------------------------------------------------------------
(* Pushing.                                                                *)
Pending(m) == m.events \cup m.coalesced
Count(m) == Cardinality(m.events) + Cardinality(m.coalesced)
Entry(m, event) == [seq |-> m.next, event |-> event]

Without(index, surface) ==
  [k \in Keys |-> IF k.surface = surface THEN Unset ELSE index[k]]

(* reserve_pending_slot without a slot                                     *)
Overflow(m) == [m EXCEPT !.closed = TRUE, !.overflowed = TRUE]

(* push_back, once there is a slot                                         *)
Appended(m, event) ==
  IF Count(m) < Capacity
  THEN [m EXCEPT !.events = @ \cup {Entry(m, event)}]
  ELSE Overflow(m)

\* Mutant: a state that is pending already is not replaced.
CoalescedInPlace(m, event) ==
  IF m.index[event] # Unset THEN m
  ELSE IF Count(m) < Capacity
  THEN [m EXCEPT !.coalesced = @ \cup {Entry(m, event)},
                 !.index[event] = m.next]
  ELSE Overflow(m)
(* push_coalesced: a newer state replaces the older one, in a later place. *)
Coalesced(m, event) ==
  LET older == {x \in m.coalesced : x.seq = m.index[event]} IN
  IF m.index[event] # Unset \/ Count(m) < Capacity
  THEN [m EXCEPT !.coalesced = (@ \ older) \cup {Entry(m, event)},
                 !.index[event] = m.next]
  ELSE Overflow(m)

(* discard_surface_state                                                   *)
Discarded(m, surface) ==
  LET gone == {m.index[k] : k \in {k \in Keys : k.surface = surface}} IN
  [m EXCEPT !.coalesced = {x \in @ : x.seq \notin gone},
            !.index = Without(@, surface)]

Newest(entries, n) ==
  {x \in entries : Cardinality({y \in entries : y.seq > x.seq}) < n}

\* Mutant: Empty takes the exits with it.
EmptiedOfAll(m, event) ==
  [m EXCEPT !.events = {Entry(m, event)}, !.coalesced = {}, !.index = Nothing]
(* Empty leaves the newest exits and closed workspaces, and asks for no    *)
(* slot: one is kept for it.                                               *)
Emptied(m, event) ==
  LET final == {x \in m.events : x.event.kind \in FinalKinds} IN
  [m EXCEPT !.events = Newest(final, Capacity - 1) \cup {Entry(m, event)},
            !.coalesced = {},
            !.index = Nothing]

Accepted(m, event) ==
  IF event.kind \in StateKinds THEN Coalesced(m, event)
  ELSE IF event.kind = "Exited" THEN Appended(Discarded(m, event.surface), event)
  ELSE IF event.kind = "Empty" THEN Emptied(m, event)
  ELSE Appended(m, event)
(* MuxEventMailbox::push on a mailbox that is not closed                   *)
Pushed(m, event) == [Accepted(m, event) EXCEPT !.next = m.next + 1]

(* What an event makes of the state of the surfaces.                       *)
Applied(states, x) ==
  IF x.event.kind \in StateKinds THEN [states EXCEPT ![x.event] = x.seq]
  ELSE IF x.event.kind = "Exited" THEN Without(states, x.event.surface)
  ELSE IF x.event.kind = "Empty" THEN Nothing
  ELSE states

Wake == thread' = IF thread = "waiting" THEN "running" ELSE thread

(* MuxEventBroadcaster::emit: a subscriber whose receiver is gone, or that *)
(* does not take the event, leaves the list.                               *)
Emit(event) ==
  /\ subscribed /\ mailbox.next < MaxSequence
  /\ truth' = Applied(truth, Entry(mailbox, event))
  /\ IF held /\ ~mailbox.closed
     THEN /\ mailbox' = Pushed(mailbox, event)
          /\ subscribed' = ~mailbox'.closed
          /\ Wake
     ELSE /\ subscribed' = FALSE
          /\ UNCHANGED <<mailbox, thread>>
  /\ UNCHANGED <<held, view>>

\* Mutant: the mailbox is closed and nobody is told.
DropQuietly ==
  /\ subscribed
  /\ subscribed' = FALSE
  /\ mailbox' = [mailbox EXCEPT !.closed = IF held THEN TRUE ELSE @]
  /\ UNCHANGED <<held, thread, truth, view>>
(* The broadcaster is dropped and closes the mailboxes it lists.           *)
DropBroadcaster ==
  /\ subscribed
  /\ subscribed' = FALSE
  /\ mailbox' = [mailbox EXCEPT !.closed = IF held THEN TRUE ELSE @]
  /\ Wake
  /\ UNCHANGED <<held, truth, view>>

-----------------------------------------------------------------------------
(* Receiving.                                                              *)
Oldest(m) == CHOOSE x \in Pending(m) : \A y \in Pending(m) : x.seq <= y.seq

(* MuxEventMailboxState::pop                                               *)
Popped(m) ==
  LET x == Oldest(m) IN
  IF x \in m.events
  THEN [m EXCEPT !.events = @ \ {x}]
  ELSE [m EXCEPT !.coalesced = @ \ {x}, !.index[x.event] = Unset]

\* Mutant: a closed mailbox is not drained.
ReceiveUnlessClosed ==
  /\ held /\ thread = "running"
  /\ IF Pending(mailbox) # {} /\ ~mailbox.closed
     THEN /\ mailbox' = Popped(mailbox)
          /\ view' = Applied(view, Oldest(mailbox))
          /\ UNCHANGED thread
     ELSE /\ thread' = IF mailbox.closed THEN "ended" ELSE "waiting"
          /\ UNCHANGED <<mailbox, view>>
  /\ UNCHANGED <<subscribed, held, truth>>
(* recv: accepted events first, then the end, then the wait.               *)
Receive ==
  /\ held /\ thread = "running"
  /\ IF Pending(mailbox) # {}
     THEN /\ mailbox' = Popped(mailbox)
          /\ view' = Applied(view, Oldest(mailbox))
          /\ UNCHANGED thread
     ELSE /\ thread' = IF mailbox.closed THEN "ended" ELSE "waiting"
          /\ UNCHANGED <<mailbox, view>>
  /\ UNCHANGED <<subscribed, held, truth>>

(* A wait ends by its timeout, or for no reason.                           *)
WakeUp ==
  /\ thread = "waiting"
  /\ thread' = "running"
  /\ UNCHANGED <<mailbox, subscribed, held, truth, view>>

(* A receiver is dropped by a thread that is not waiting in it.            *)
DropReceiver ==
  /\ held /\ thread # "waiting"
  /\ held' = FALSE
  /\ thread' = "ended"
  /\ UNCHANGED <<mailbox, subscribed, truth, view>>

Next ==
  \/ \E event \in Events : Emit(event)
  \/ Receive \/ WakeUp
  \/ DropBroadcaster \/ DropReceiver

Spec == Init /\ [][Next]_vars

(* A thread that is awake goes on receiving; nothing else is owed, and a   *)
(* wait need not have a timeout.                                           *)
FairSpec == Spec /\ WF_vars(Receive)

-----------------------------------------------------------------------------
(* Every variable has its type.                                            *)
TypeOK ==
  /\ mailbox \in Mailboxes
  /\ \A x \in Pending(mailbox) : x.seq < mailbox.next
  /\ subscribed \in BOOLEAN /\ held \in BOOLEAN
  /\ thread \in {"running", "waiting", "ended"}
  /\ truth \in [Keys -> Nat \cup {Unset}]
  /\ view \in [Keys -> Nat \cup {Unset}]

(* The index names exactly the entries of the map, one for each key, and   *)
(* the two queues share no sequence number (push_coalesced,                *)
(* discard_surface_state, pop and the branch for Empty all edit both).     *)
IndexMatches ==
  /\ \A x \in mailbox.coalesced :
       x.event \in Keys /\ mailbox.index[x.event] = x.seq
  /\ \A k \in Keys : mailbox.index[k] # Unset =>
       [seq |-> mailbox.index[k], event |-> k] \in mailbox.coalesced
  /\ \A x, y \in Pending(mailbox) : x.seq = y.seq => x = y

(* No more than MAX_PENDING_EVENTS are kept for a subscriber that does not *)
(* read, also when Empty, which asks for no slot, is pushed to a full      *)
(* mailbox.                                                                *)
PendingIsBounded == Count(mailbox) <= Capacity

(* Coalescing loses nothing that matters: a subscriber that has read all   *)
(* there is, and missed no event for want of room, knows the same state of *)
(* every surface as one that had read every event.                         *)
DrainedViewIsTrue ==
  held /\ Pending(mailbox) = {} /\ ~mailbox.overflowed => view = truth

(* The receiver never sleeps while there is an event to read or the stream *)
(* has ended: every change of the mailbox wakes it.                        *)
NobodySleepsOnNews ==
  thread = "waiting" => Pending(mailbox) = {} /\ ~mailbox.closed

(* The two queues and their index are one ordered stream.                  *)
Stream == INSTANCE EventStream WITH
  pending <- Pending(mailbox), next <- mailbox.next, open <- ~mailbox.closed
ImplementsStream == Stream!Spec

(* An event that was accepted is delivered or superseded, unless the       *)
(* receiver is dropped.                                                    *)
EventsAreDelivered ==
  \A n \in 0..MaxSequence :
    (\E x \in Pending(mailbox) : x.seq = n)
      ~> (~held \/ ~\E x \in Pending(mailbox) : x.seq = n)
=============================================================================
