------------------------------ MODULE Pairing -------------------------------
(***************************************************************************)
(* How a browser without a token is let in: PairingBroker of pairing.rs,   *)
(* the websocket thread that asks (authenticate_websocket of server.rs),   *)
(* the local clients that answer (respond_pairing, and the durable         *)
(* pairing_request.resolve of mux.rs) and the dialog of the TUI (app.rs).  *)
(*                                                                         *)
(* Requests are numbered in the order of their challenges; the code draws  *)
(* random ids.  Time is told by ages: the first `old` requests are older   *)
(* than CHALLENGE_TTL, which is also RATE_WINDOW.  A thread reads the      *)
(* clock just before it takes the broker's lock; here it reads it there.   *)
(* Credentials are kept for ever: their own time (eight hours) and their   *)
(* limit of MAX_CREDENTIALS are left out.                                  *)
(***************************************************************************)
EXTENDS Integers, Sequences, FiniteSets

CONSTANTS
  Peers,
  NoPeer,
  MaxRequests,     \* bound: challenges in all
  WithTui,         \* bound: whether a TUI subscribes
  MaxPerWindow,    \* MAX_REQUESTS_PER_WINDOW
  MaxPending       \* MAX_PENDING

ASSUME PairingAssumption ==
  /\ NoPeer \notin Peers
  /\ MaxRequests \in Nat /\ MaxPerWindow \in Nat /\ MaxPending \in Nat
  /\ WithTui \in BOOLEAN

Ids == 1..MaxRequests

VARIABLES
  begun,      \* challenges so far
  peer,       \* who asked
  old,        \* the first `old` challenges are over their time
  pending,    \* requests the broker holds
  decision,   \* what the requester's channel holds
  place,      \* where the requester's thread stands
  committed,  \* durable resolution of a request
  granted,    \* requests whose credential is stored
  mail,       \* events whose emitter has left the lock and not emitted yet
  news,       \* events the TUI has still to handle
  told,       \* history: resolutions emitted, per request
  tui         \* the TUI: its subscription and its dialogs

broker == <<begun, peer, old, pending, decision>>
grants == <<committed, granted>>
vars == <<broker, place, grants, mail, news, told, tui>>

Events == [kind : {"requested", "resolved"}, id : Ids]
Requested(i) == [kind |-> "requested", id |-> i]
Resolved(i) == [kind |-> "resolved", id |-> i]

Init ==
  /\ begun = 0 /\ old = 0
  /\ peer = [i \in Ids |-> NoPeer]
  /\ pending = {}
  /\ decision = [i \in Ids |-> "open"]
  /\ place = [i \in Ids |-> "none"]
  /\ committed = [i \in Ids |-> "none"]
  /\ granted = {}
  /\ mail = {} /\ news = <<>>
  /\ told = [i \in Ids |-> 0]
  /\ tui = [at |-> "off", dialogs |-> <<>>]

-----------------------------------------------------------------------------
(* PairingBroker::prune: requests over their time lose their channel.      *)
Live == {i \in pending : i > old}
Pruned == [i \in Ids |-> IF i \in pending \ Live THEN "closed" ELSE decision[i]]

Unanswered(p) == {i \in (old + 1)..begun : peer[i] = p /\ decision[i] = "open"}
(* The requests of a peer that count against its rate.                     *)
Recent(p) == {i \in (old + 1)..begun : peer[i] = p}

\* Mutant: an answered request gives its place in the window back.
AdmittedAgain(p) ==
  /\ \A i \in Live : peer[i] # p
  /\ Cardinality(Live) < MaxPending
  /\ Cardinality(Unanswered(p)) < MaxPerWindow
(* AlreadyPending, Busy and RateLimited, in this order, are what a peer is *)
(* told otherwise.                                                         *)
Admitted(p) ==
  /\ \A i \in Live : peer[i] # p
  /\ Cardinality(Live) < MaxPending
  /\ Cardinality(Recent(p)) < MaxPerWindow

(* PairingBroker::begin; the event follows once the lock is free.          *)
Begin(p) ==
  LET i == begun + 1
  IN /\ begun < MaxRequests
     /\ decision' = Pruned
     /\ IF Admitted(p)
        THEN /\ begun' = i
             /\ peer' = [peer EXCEPT ![i] = p]
             /\ pending' = Live \cup {i}
             /\ place' = [place EXCEPT ![i] = "begun"]
             /\ mail' = mail \cup {Requested(i)}
        ELSE pending' = Live /\ UNCHANGED <<begun, peer, place, mail>>
     /\ UNCHANGED <<old, grants, news, told, tui>>

(* Challenges grow old in the order they were made.                        *)
Age ==
  /\ old < begun /\ old' = old + 1
  /\ UNCHANGED <<begun, peer, pending, decision, place, grants, mail, news,
                 told, tui>>

(* An emission; the thread that begins a request emits before it goes on.  *)
Emit(e) ==
  /\ e \in mail
  /\ mail' = mail \ {e}
  /\ news' = IF tui.at = "off" THEN news ELSE Append(news, e)
  /\ told' = IF e.kind = "resolved" THEN [told EXCEPT ![e.id] = @ + 1] ELSE told
  /\ UNCHANGED <<broker, place, grants, tui>>

-----------------------------------------------------------------------------
(* authenticate_websocket, from the challenge on.                          *)
SendChallenge(i) ==
  /\ place[i] = "begun" /\ Requested(i) \notin mail
  /\ \E to \in {"waiting", "cancelling"} : place' = [place EXCEPT ![i] = to]
  /\ UNCHANGED <<broker, grants, mail, news, told, tui>>

\* Mutant: a requester that gives up leaves its request behind.
WaitLeaving(i) ==
  /\ place[i] = "waiting"
  /\ \/ decision[i] = "approved" /\ place' = [place EXCEPT ![i] = "paired"]
     \/ /\ decision[i] \in {"denied", "closed"} \/ i <= old
        /\ place' = [place EXCEPT ![i] = "gone"]
  /\ UNCHANGED <<broker, grants, mail, news, told, tui>>
(* recv_timeout: a decision, a closed channel, or the challenge's time.    *)
Wait(i) ==
  /\ place[i] = "waiting"
  /\ \/ /\ decision[i] = "approved"
        /\ \E to \in {"paired", "gone"} : place' = [place EXCEPT ![i] = to]
     \/ /\ decision[i] \in {"denied", "closed"} \/ i <= old
        /\ decision[i] # "approved"
        /\ place' = [place EXCEPT ![i] = "cancelling"]
  /\ UNCHANGED <<broker, grants, mail, news, told, tui>>

\* Mutant: the cancelled request is announced whether it was there or not.
CancelAnyway(i) ==
  /\ place[i] = "cancelling"
  /\ place' = [place EXCEPT ![i] = "gone"]
  /\ pending' = pending \ {i}
  /\ decision' = [decision EXCEPT ![i] = IF i \in pending THEN "closed" ELSE @]
  /\ mail' = mail \cup {Resolved(i)}
  /\ UNCHANGED <<begun, peer, old, grants, news, told, tui>>
(* cancel_pairing: whoever takes the request off emits its resolution.     *)
Cancel(i) ==
  /\ place[i] = "cancelling"
  /\ place' = [place EXCEPT ![i] = "gone"]
  /\ IF i \in pending
     THEN /\ pending' = pending \ {i}
          /\ decision' = [decision EXCEPT ![i] = "closed"]
          /\ mail' = mail \cup {Resolved(i)}
     ELSE UNCHANGED <<pending, decision, mail>>
  /\ UNCHANGED <<begun, peer, old, grants, news, told, tui>>

-----------------------------------------------------------------------------
\* Mutant: the credential is stored before the commit that may fail.
RefusedEarly(i, approve, durable) ==
  /\ i \notin Live \/ durable
  /\ granted' = IF i \in Live /\ approve THEN granted \cup {i} ELSE granted
  /\ decision' = Pruned /\ pending' = Live
  /\ UNCHANGED <<committed, mail>>
(* An answer that finds no request, or whose durable commit fails, leaves  *)
(* only the pruning.                                                       *)
Refused(i, approve, durable) ==
  /\ i \notin Live \/ durable
  /\ decision' = Pruned /\ pending' = Live
  /\ UNCHANGED <<granted, committed, mail>>

(* The commit, the request off the table, the credential, the decision to  *)
(* the requester, and an event once the lock is free.                      *)
Settled(i, approve, durable) ==
  /\ i \in Live
  /\ committed' = IF ~durable THEN committed
       ELSE [committed EXCEPT ![i] = IF approve THEN "accept" ELSE "reject"]
  /\ pending' = Live \ {i}
  /\ granted' = IF approve THEN granted \cup {i} ELSE granted
  /\ decision' = [Pruned EXCEPT ![i] = IF approve THEN "approved" ELSE "denied"]
  /\ mail' = mail \cup {Resolved(i)}

(* respond_after, with the durable commit of pairing_request.resolve or    *)
(* without one.                                                            *)
Respond(i, approve, durable) ==
  /\ Refused(i, approve, durable) \/ Settled(i, approve, durable)
  /\ UNCHANGED <<begun, peer, old, place, news, told>>

(* Another local client answers, by the control command or durably.        *)
Answer(i, approve, durable) ==
  /\ i \in 1..begun
  /\ Respond(i, approve, durable)
  /\ UNCHANGED tui

(* authenticate, with whatever credential, and list-pairings only prune.   *)
Look ==
  /\ pending # Live
  /\ decision' = Pruned /\ pending' = Live
  /\ UNCHANGED <<begun, peer, old, place, grants, mail, news, told, tui>>

-----------------------------------------------------------------------------
(* The TUI subscribes, and is then sent the pending requests ahead of the  *)
(* events that have come in since.                                         *)
Subscribe ==
  /\ WithTui /\ tui.at = "off"
  /\ tui' = [tui EXCEPT !.at = "joined"]
  /\ UNCHANGED <<broker, place, grants, mail, news, told>>

Orders(S) == {s \in [1..Cardinality(S) -> S] : \A i \in S : \E n \in DOMAIN s : s[n] = i}

Snapshot ==
  /\ tui.at = "joined"
  /\ decision' = Pruned /\ pending' = Live
  /\ \E s \in Orders(Live) : tui' = [at |-> "on", dialogs |-> s]
  /\ UNCHANGED <<begun, peer, old, place, grants, mail, news, told>>

Shown == {tui.dialogs[n] : n \in DOMAIN tui.dialogs}

(* The dialog and the queue behind it: App::handle on pairing events.      *)
DialogsAfter(e) ==
  IF e.kind = "resolved" THEN SelectSeq(tui.dialogs, LAMBDA i : i # e.id)
  ELSE IF e.id \in Shown THEN tui.dialogs
  ELSE Append(tui.dialogs, e.id)

Handle ==
  /\ tui.at = "on" /\ news # <<>>
  /\ news' = Tail(news)
  /\ tui' = [tui EXCEPT !.dialogs = DialogsAfter(Head(news))]
  /\ UNCHANGED <<broker, place, grants, mail, told>>

(* resolve_pairing: the dialog is gone whatever the answer comes to.       *)
Resolve(approve) ==
  /\ tui.at = "on" /\ tui.dialogs # <<>>
  /\ Respond(tui.dialogs[1], approve, FALSE)
  /\ tui' = [tui EXCEPT !.dialogs = Tail(@)]

Requester(i) == SendChallenge(i) \/ Wait(i) \/ Cancel(i)
Tui == Subscribe \/ Snapshot \/ Handle \/ \E approve \in BOOLEAN : Resolve(approve)

Next ==
  \/ \E p \in Peers : Begin(p)
  \/ Age \/ Look \/ Tui
  \/ \E e \in mail : Emit(e)
  \/ \E i \in Ids : Requester(i)
  \/ \E i \in Ids, approve, durable \in BOOLEAN : Answer(i, approve, durable)

Spec == Init /\ [][Next]_vars

(* Time passes and the threads of the daemon go on; nobody need ever       *)
(* answer, and no TUI need read its events.                                *)
FairSpec ==
  /\ Spec
  /\ WF_vars(Age) /\ WF_vars(\E e \in mail : Emit(e))
  /\ \A i \in Ids : WF_vars(Requester(i))

-----------------------------------------------------------------------------
(* Every variable has its type.                                            *)
TypeOK ==
  /\ begun \in 0..MaxRequests /\ old \in 0..begun
  /\ peer \in [Ids -> Peers \cup {NoPeer}]
  /\ pending \in SUBSET (1..begun)
  /\ decision \in [Ids -> {"open", "approved", "denied", "closed"}]
  /\ place \in [Ids -> {"none", "begun", "waiting", "cancelling", "paired", "gone"}]
  /\ committed \in [Ids -> {"none", "accept", "reject"}]
  /\ granted \in SUBSET Ids
  /\ mail \in SUBSET Events /\ news \in Seq(Events)
  /\ told \in [Ids -> Nat]
  /\ tui \in [at : {"off", "joined", "on"}, dialogs : Seq(Ids)]

(* A request is resolved once: of the client that answers, the requester   *)
(* that gives up and the pruning of the three other operations, only the   *)
(* one that takes it off the table may say so.                             *)
ResolvedOnce ==
  \A i \in Ids :
    told[i] + (IF Resolved(i) \in mail THEN 1 ELSE 0) <= (IF i \in pending THEN 0 ELSE 1)

(* Exactly the approved requests have a credential; a durable answer and   *)
(* the credential agree, also when an earlier commit failed.               *)
CredentialsAreApproved ==
  /\ granted = {i \in Ids : decision[i] = "approved"}
  /\ \A i \in Ids : /\ place[i] = "paired" => i \in granted
                    /\ committed[i] = "accept" => i \in granted
                    /\ committed[i] = "reject" => i \notin granted

(* Within one window a peer gets MAX_REQUESTS_PER_WINDOW challenges, and   *)
(* one pending at a time, however fast the earlier ones were answered.     *)
PeersAreLimited ==
  \A p \in Peers :
    /\ Cardinality({i \in (old + 1)..begun : peer[i] = p}) <= MaxPerWindow
    /\ Cardinality({i \in pending : peer[i] = p}) <= 1

(* Whether anybody answers or not, the requester is told or gives up, and  *)
(* its request is off the table, so that its thread ends and its peer can  *)
(* ask again.                                                              *)
RequestsEnd ==
  \A i \in Ids :
    (place[i] = "begun") ~> (place[i] \in {"paired", "gone"} /\ i \notin pending)

(* A dialog of the TUI is about a request that is pending, or its          *)
(* resolution is on the way to it.                                         *)
DialogsClose ==
  \A i \in Shown :
    \/ i \in pending \/ Resolved(i) \in mail
    \/ \E n \in DOMAIN news : news[n] = Resolved(i)
=============================================================================
