--------------------------- MODULE EffectReceipts ---------------------------
(***************************************************************************)
(* The durable receipts that let a client retry a request with an external *)
(* effect (a keystroke, a navigation, a close) without running it twice:   *)
(* workspace_registry/effect_store.rs, driven by the request threads of    *)
(* resource_router/effects.rs.  A thread looks the key up, prepares a      *)
(* receipt, marks it executing, runs the effect and commits its outcome,   *)
(* taking the registry lock anew for each of these steps, so that threads  *)
(* serving the same key interleave between them and the process may die    *)
(* between any two.                                                        *)
(*                                                                         *)
(* A fingerprint stands for the whole request (operation, selectors and    *)
(* fields).  Correlated creations are the subject of CreationReceipts.     *)
(***************************************************************************)
EXTENDS Integers, FiniteSets

CONSTANTS
  Keys,           \* idempotency keys
  Workers,        \* request threads of the server
  Inputs,         \* fingerprints of transient input operations
  Changes,        \* fingerprints of operations that publish deltas
  NoJob,          \* a worker without a request
  NoPrint,        \* fingerprint of a key without a receipt
  Capacity,       \* RESOURCE_INPUT_RECEIPT_CAPACITY
  PruneInterval,  \* RESOURCE_INPUT_RECEIPT_PRUNE_INTERVAL
  EventCapacity,  \* RESOURCE_EVENT_CAPACITY
  MaxCrashes,     \* bound: restarts of the process
  MaxSequence     \* bound: no new input request after this completion

Prints == Inputs \cup Changes
Jobs   == [key : Keys, print : Prints]

ASSUME ConstantsAssumption ==
  /\ IsFiniteSet(Keys)
  /\ Inputs \cap Changes = {}
  /\ NoJob \notin Jobs
  /\ NoPrint \notin Prints
  /\ Capacity \in Nat \ {0}
  /\ PruneInterval \in Nat \ {0}
  /\ EventCapacity \in Nat \ {0}
  /\ MaxCrashes \in Nat
  /\ MaxSequence \in Nat

VARIABLES
  receipt,     \* resource_effect_receipts, by idempotency key
  completion,  \* resource_input_receipt_completions: sequence of a key, or 0
  sequence,    \* its AUTOINCREMENT counter
  revision,    \* meta.resource_revision
  events,      \* revisions retained in resource_events
  pc,          \* where each worker is between two lock acquisitions
  job,         \* the request each worker serves
  crashes,     \* restarts so far
  applied,     \* history: runs of the effect under the key's present receipt
  answers      \* history: definite answers given from the present receipt

store == <<receipt, completion, sequence, revision, events>>
vars  == <<store, pc, job, crashes, applied, answers>>

States   == {"absent", "pending", "executing", "committed", "indeterminate"}
Outcomes == {"none", "success", "failure"}
Places   == {"idle", "missed", "granted", "running", "applied", "refused",
             "unsettled"}

Absent == [state |-> "absent", print |-> NoPrint, outcome |-> "none",
           revision |-> 0]

Init ==
  /\ receipt = [k \in Keys |-> Absent]
  /\ completion = [k \in Keys |-> 0]
  /\ sequence = 0
  /\ revision = 0
  /\ events = {}
  /\ pc = [w \in Workers |-> "idle"]
  /\ job = [w \in Workers |-> NoJob]
  /\ crashes = 0
  /\ applied = [k \in Keys |-> 0]
  /\ answers = [k \in Keys |-> {}]

-----------------------------------------------------------------------------
(* What the receipt of a key says to a request: read_effect_preparation.   *)
Missing(k)     == receipt[k].state = "absent"
Conflict(k, p) == ~Missing(k) /\ receipt[k].print # p
\* Mutant: a receipt that is already executing may be executed again.
ResumableTwice(k, p) == /\ receipt[k].print = p
                        /\ receipt[k].state \in {"pending", "executing"}
Resumable(k, p) == receipt[k].print = p /\ receipt[k].state = "pending"
Replayable(k, p) == receipt[k].print = p /\ receipt[k].state = "committed"
Unknowable(k, p) == /\ receipt[k].print = p
                    /\ receipt[k].state \in {"executing", "indeterminate"}

Answer(r) == [outcome |-> r.outcome, revision |-> r.revision]

Go(w, place) == pc' = [pc EXCEPT ![w] = place]
Serve(w, k, p) == job' = [job EXCEPT ![w] = [key |-> k, print |-> p]]
Reply(w) == Go(w, "idle") /\ job' = [job EXCEPT ![w] = NoJob]

(* A worker answers from an existing receipt, or holds an Execute that it  *)
(* has still to turn into "executing" under a later lock.                  *)
ResolvePreparation(w, k, p) ==
  /\ \/ (Conflict(k, p) \/ Unknowable(k, p)) /\ Reply(w) /\ UNCHANGED answers
     \/ /\ Replayable(k, p)
        /\ answers' = [answers EXCEPT ![k] = @ \cup {Answer(receipt[k])}]
        /\ Reply(w)
     \/ /\ Resumable(k, p)
        /\ Go(w, "granted") /\ Serve(w, k, p)
        /\ UNCHANGED answers
  /\ UNCHANGED <<store, crashes, applied>>

(* effects::prepare, first lock: the key is looked up.                     *)
LookupResourceEffect(w, k, p) ==
  /\ pc[w] = "idle"
  /\ p \in Inputs => sequence < MaxSequence
  /\ \/ ResolvePreparation(w, k, p)
     \/ /\ Missing(k)
        /\ Go(w, "missed") /\ Serve(w, k, p)
        /\ UNCHANGED <<store, crashes, applied, answers>>

(* make_intent finds no live target; nothing was written.                  *)
RejectIntent(w) ==
  /\ pc[w] = "missed"
  /\ Reply(w)
  /\ UNCHANGED <<store, crashes, applied, answers>>

(* Second lock: another worker may have prepared the key meanwhile.  The   *)
(* request expects no revision, the current one, or another one.           *)
PrepareResourceEffect(w) ==
  LET k == job[w].key
      p == job[w].print
  IN /\ pc[w] = "missed"
     /\ \/ ResolvePreparation(w, k, p)
        \/ \E expected \in {{}, {revision}, {revision + 1}} :
             /\ Missing(k)
             /\ IF expected \subseteq {revision}
                THEN /\ receipt' = [receipt EXCEPT
                           ![k] = [Absent EXCEPT !.state = "pending",
                                                 !.print = p]]
                     /\ Go(w, "granted")
                     /\ UNCHANGED job
                ELSE Reply(w) /\ UNCHANGED receipt
             /\ UNCHANGED <<completion, sequence, revision, events, crashes,
                            applied, answers>>

\* Mutant: the loser of the race waits for the winner's receipt to reopen.
MarkOrWait(w) ==
  /\ pc[w] = "granted" /\ Resumable(job[w].key, job[w].print)
  /\ receipt' = [receipt EXCEPT ![job[w].key].state = "executing"]
  /\ Go(w, "running")
  /\ UNCHANGED <<job, completion, sequence, revision, events, crashes, applied,
                 answers>>

(* Third lock: only a pending receipt of this very request may execute;    *)
(* whoever lost the race is answered with an error.                        *)
MarkResourceEffectExecuting(w) ==
  LET k == job[w].key
  IN /\ pc[w] = "granted"
     /\ IF Resumable(k, job[w].print)
        THEN /\ receipt' = [receipt EXCEPT ![k].state = "executing"]
             /\ Go(w, "running")
             /\ UNCHANGED job
        ELSE Reply(w) /\ UNCHANGED receipt
     /\ UNCHANGED <<completion, sequence, revision, events, crashes, applied,
                    answers>>

\* Mutant: an error of the effect is taken for a refusal.
RunEffectGuessing(w) ==
  /\ pc[w] = "running"
  /\ \E place \in {"applied", "refused"} : Go(w, place)
  /\ applied' = [applied EXCEPT ![job[w].key] = @ + 1]
  /\ UNCHANGED <<store, job, crashes, answers>>

(* The effect itself, run without a lock: refused before anything happened *)
(* (ActionFailure::Known), done, or ended in an error that does not tell   *)
(* whether it happened (ActionFailure::Indeterminate).                     *)
RunEffect(w) ==
  LET k == job[w].key
  IN /\ pc[w] = "running"
     /\ \/ Go(w, "refused") /\ UNCHANGED applied
        \/ /\ \/ Go(w, "applied")
              \/ Go(w, "unsettled")
           /\ applied' = [applied EXCEPT ![k] = @ + 1]
        \/ Go(w, "unsettled") /\ UNCHANGED applied
     /\ UNCHANGED <<store, job, crashes, answers>>

-----------------------------------------------------------------------------
\* Mutant: the newest rows are the ones deleted.
SurplusNewest(c) ==
  {k \in Keys : c[k] # 0
     /\ Cardinality({j \in Keys : c[j] # 0 /\ c[j] < c[k]}) >= Capacity}
(* Input completions that are not among the newest Capacity ones.          *)
Surplus(c) ==
  {k \in Keys : c[k] # 0 /\ Cardinality({j \in Keys : c[j] > c[k]}) >= Capacity}

(* prune_resource_input_receipts deletes receipt and completion of a key;  *)
(* the history of the receipt goes with it.                                *)
Forget(gone, kept, completions, given) ==
  /\ receipt' = [k \in Keys |-> IF k \in gone THEN Absent ELSE kept[k]]
  /\ completion' = [k \in Keys |-> IF k \in gone THEN 0 ELSE completions[k]]
  /\ applied' = [k \in Keys |-> IF k \in gone THEN 0 ELSE applied[k]]
  /\ answers' = [k \in Keys |-> IF k \in gone THEN {} ELSE given[k]]

(* prune_resource_events keeps the newest event, then older ones while the *)
(* count allows it; the byte budget may stop it anywhere after the first.  *)
RetainedWith(r) ==
  LET log == events \cup {r}
  IN {{e \in log : e >= oldest} :
        oldest \in {o \in log :
                      Cardinality({e \in log : e >= o}) <= EventCapacity}}

(* resource_events_after: a cursor older than the retained history is      *)
(* refused, "cursor.gap"; any other is answered with what is newer.        *)
CursorGap(cursor) ==
  \/ events # {} /\ \A e \in events : cursor < e - 1
  \/ events = {} /\ cursor < revision
EventsAfter(cursor) == {e \in events : e > cursor}

Settled(k, outcome, r) ==
  [receipt EXCEPT ![k].state = "committed", ![k].outcome = outcome,
                  ![k].revision = r]

(* commit_resource_effect for an operation that publishes deltas: the      *)
(* revision advances with its event.  A known failure publishes nothing.   *)
CommitChange(k, outcome) ==
  /\ IF outcome = "success"
     THEN /\ revision' = revision + 1
          /\ events' \in RetainedWith(revision + 1)
     ELSE UNCHANGED <<revision, events>>
  /\ receipt' = Settled(k, outcome, revision')
  /\ answers' = [answers EXCEPT ![k] = @ \cup {Answer(receipt'[k])}]
  /\ UNCHANGED <<completion, sequence, applied>>

(* commit_resource_effect for a transient input: no revision, but its      *)
(* completion is numbered and every PruneInterval-th one prunes.           *)
CommitInput(k, outcome) ==
  LET next     == sequence + 1
      done     == Settled(k, outcome, revision)
      recorded == [completion EXCEPT ![k] = next]
      gone     == IF next % PruneInterval = 0 THEN Surplus(recorded) ELSE {}
  IN /\ Forget(gone, done, recorded,
               [answers EXCEPT ![k] = @ \cup {Answer(done[k])}])
     /\ sequence' = next
     /\ UNCHANGED <<revision, events>>

(* commit_success and commit_known_failure.  When the receipt is not in    *)
(* the state the commit requires, or the transaction fails and rolls back, *)
(* the worker falls back to marking the receipt indeterminate.             *)
CommitResourceEffect(w) ==
  LET k == job[w].key
      p == job[w].print
      outcome == IF pc[w] = "applied" THEN "success" ELSE "failure"
  IN /\ pc[w] \in {"applied", "refused"}
     /\ \/ /\ receipt[k].print = p /\ receipt[k].state = "executing"
           /\ IF p \in Inputs THEN CommitInput(k, outcome)
                              ELSE CommitChange(k, outcome)
           /\ Reply(w)
        \/ Go(w, "unsettled") /\ UNCHANGED <<store, job, applied, answers>>
     /\ UNCHANGED crashes

(* The fallback selects the row by key and state alone, and its own error  *)
(* is ignored.                                                             *)
MarkResourceEffectIndeterminate(w) ==
  LET k == job[w].key
  IN /\ pc[w] = "unsettled"
     /\ \/ /\ receipt[k].state = "executing"
           /\ receipt' = [receipt EXCEPT ![k].state = "indeterminate"]
        \/ UNCHANGED receipt
     /\ Reply(w)
     /\ UNCHANGED <<completion, sequence, revision, events, crashes, applied,
                    answers>>

\* Mutant: what was executing is offered for execution again.
RecoveredPending == [k \in Keys |->
  IF receipt[k].state = "executing"
  THEN [receipt[k] EXCEPT !.state = "pending"] ELSE receipt[k]]

(* The process dies and the registry is opened again: workers are gone,    *)
(* recover_resource_effects gives up on what was executing, and            *)
(* initialize_resource_input_receipt_retention prunes to Capacity.         *)
Recovered == [k \in Keys |->
  IF receipt[k].state = "executing"
  THEN [receipt[k] EXCEPT !.state = "indeterminate"] ELSE receipt[k]]

Restart ==
  /\ crashes < MaxCrashes
  /\ crashes' = crashes + 1
  /\ pc' = [w \in Workers |-> "idle"]
  /\ job' = [w \in Workers |-> NoJob]
  /\ Forget(Surplus(completion), Recovered, completion, answers)
  /\ UNCHANGED <<sequence, revision, events>>

-----------------------------------------------------------------------------
Proceed(w) ==
  \/ RejectIntent(w)
  \/ PrepareResourceEffect(w)
  \/ MarkResourceEffectExecuting(w)
  \/ RunEffect(w)
  \/ CommitResourceEffect(w)
  \/ MarkResourceEffectIndeterminate(w)

Next ==
  \/ \E w \in Workers, k \in Keys, p \in Prints : LookupResourceEffect(w, k, p)
  \/ \E w \in Workers : Proceed(w)
  \/ Restart

Spec == Init /\ [][Next]_vars

(* Every worker is a thread of its own that the scheduler keeps running;   *)
(* no step of it waits for another worker.                                 *)
FairSpec == Spec /\ \A w \in Workers : WF_vars(Proceed(w))

-----------------------------------------------------------------------------
(* Every variable has its type.                                            *)
TypeOK ==
  /\ receipt \in [Keys -> [state : States, print : Prints \cup {NoPrint},
                           outcome : Outcomes, revision : Nat]]
  /\ completion \in [Keys -> Nat]
  /\ sequence \in Nat
  /\ revision \in Nat
  /\ events \in SUBSET Nat
  /\ pc \in [Workers -> Places]
  /\ job \in [Workers -> Jobs \cup {NoJob}]
  /\ \A w \in Workers : job[w] = NoJob <=> pc[w] = "idle"
  /\ crashes \in Nat
  /\ applied \in [Keys -> Nat]
  /\ answers \in [Keys -> SUBSET [outcome : Outcomes, revision : Nat]]

(* However requests with one key are retried, raced and interrupted, the   *)
(* effect runs at most once for as long as the key's receipt is retained.  *)
AtMostOnce == \A k \in Keys : applied[k] <= 1

(* A definite answer is true and stays true: told "success", the client    *)
(* may rely on the effect having run; told "failure", on its never running *)
(* under that key.                                                         *)
AnswersTellTheTruth ==
  \A k \in Keys : \A a \in answers[k] :
    applied[k] = IF a.outcome = "success" THEN 1 ELSE 0

(* Every retry of a request replays one outcome and one revision.          *)
ReplayIsStable ==
  \A k \in Keys : \A a, b \in answers[k] : a = b

(* An effect that may have run is never lost: its key has left the states  *)
(* from which a retry would run it.                                        *)
AppliedIsRecorded ==
  \A k \in Keys : applied[k] > 0 =>
    receipt[k].state \in {"executing", "committed", "indeterminate"}

(* Whatever is pruned, a client that reads on from a cursor is refused or  *)
(* gets every later revision, up to the present one (prune_resource_events *)
(* and resource_events_after).                                             *)
PagesMissNothing ==
  \A cursor \in 0..revision :
    ~CursorGap(cursor) => EventsAfter(cursor) = (cursor + 1)..revision

(* At most one worker acts for a key between marking it executing and      *)
(* settling it, and it acts for the request the receipt is bound to.       *)
Acting(w) == pc[w] \in {"running", "applied", "refused", "unsettled"}
OneActsPerKey ==
  \A v, w \in Workers : Acting(v) /\ Acting(w) =>
    /\ job[v].key = job[w].key => v = w
    /\ receipt[job[w].key].state = "executing"
    /\ receipt[job[w].key].print = job[w].print

(* A settled receipt never changes again, late marking and restarts        *)
(* included; only a completed input is ever forgotten, and only when at    *)
(* least Capacity inputs completed after it.                               *)
ForgetsOnlyOldInputs == [][\A k \in Keys :
  receipt[k].state \in {"committed", "indeterminate"} =>
    \/ receipt'[k] = receipt[k]
    \/ /\ receipt[k].print \in Inputs /\ receipt[k].state = "committed"
       /\ completion[k] <= sequence' - Capacity]_vars

-----------------------------------------------------------------------------
(* What makes AtMostOnce inductive: the receipt of a key determines what   *)
(* has run and been answered, except while one worker is acting on it, and *)
(* then that worker's place does.                                          *)
ReceiptDetermines(k) ==
  /\ Missing(k) => receipt[k] = Absent
  /\ completion[k] # 0 => receipt[k].state = "committed"
  /\ completion[k] <= sequence
  /\ receipt[k].state \in {"absent", "pending"} => applied[k] = 0
  /\ receipt[k].state # "committed" => answers[k] = {}
  /\ receipt[k].state = "committed" =>
       /\ answers[k] \subseteq {Answer(receipt[k])}
       /\ \/ receipt[k].outcome = "success" /\ applied[k] = 1
          \/ receipt[k].outcome = "failure" /\ applied[k] = 0

PlaceDetermines(w) ==
  /\ pc[w] \in {"running", "refused"} => applied[job[w].key] = 0
  /\ pc[w] = "applied" => applied[job[w].key] = 1

(* The inductive invariant of the module, which the proofs use.            *)
ReceiptInv ==
  /\ TypeOK
  /\ AtMostOnce
  /\ OneActsPerKey
  /\ \A k \in Keys : ReceiptDetermines(k)
  /\ \A w \in Workers : PlaceDetermines(w)

(* The receipts implement the promise: a key is free until it is marked    *)
(* executing, and what it is then is what its receipt says.                *)
Status(r) ==
  CASE r.state \in {"absent", "pending"} -> "free"
    [] r.state = "executing" -> "claimed"
    [] r.state = "indeterminate" -> "unknown"
    [] r.state = "committed" /\ r.outcome = "success" -> "done"
    [] OTHER -> "refused"

Promise == INSTANCE AtMostOnceEffect
             WITH status <- [k \in Keys |-> Status(receipt[k])],
                  runs   <- applied
ImplementsPromise == Promise!Spec

(* Whatever races it loses, a worker answers its request.                  *)
EveryRequestIsAnswered ==
  \A w \in Workers : (pc[w] # "idle") ~> (pc[w] = "idle")
=============================================================================
