--------------------------- MODULE CdpConnection ---------------------------
(***************************************************************************)
(* Calls over one Chrome DevTools connection (cmux-tui-cdp/client.rs).     *)
(* Threads of the daemon put a call in the pending map and its message in  *)
(* an unbounded queue, and wait.  One reader thread owns the socket: it    *)
(* writes what is queued, reads one message, hands answers to their        *)
(* callers, and closes the connection when the socket or the event queue   *)
(* fails.  Nothing but the closed flag, the pending map and the queue is   *)
(* shared, and no lock covers two of them.                                 *)
(*                                                                         *)
(* Calls, casts (messages without an answer) and flushes are names: each   *)
(* is made once, as ids are never used again.                              *)
(***************************************************************************)
EXTENDS Sequences, SequencesExt

CONSTANTS
  Calls,
  Barriers,  \* the calls that carry a frame barrier
  Casts,     \* detached commands: Target.closeTarget, frame acknowledgements
  Flushes,   \* calls of flush_outbound
  NoCall

ASSUME CallsAssumption ==
  /\ Barriers \subseteq Calls /\ NoCall \notin Calls
  /\ Calls \cap Casts = {} /\ Calls \cap Flushes = {}
  /\ Casts \cap Flushes = {}

VARIABLES
  step,     \* per call: where its thread stands in call_inner
  answer,   \* per call: what is in its response channel
  outcome,  \* per call: what call_inner returned
  pending,  \* the pending map
  advanced, \* the frame barriers the reader has advanced
  outbound, \* the queue to the reader
  written,  \* what has been written to the socket
  answered, \* the calls Chrome has answered
  closed,
  reader,   \* where the reader thread stands
  hand,     \* the call whose answer it holds, and the answer
  cast,     \* per cast: "idle", "sent" or "refused"
  flush,    \* per flush: where its thread stands
  before    \* per flush: what was queued before it

callers == <<step, outcome>>
senders == <<cast, flush, before>>
vars == <<step, answer, outcome, pending, advanced, outbound, written,
          answered, closed, reader, hand, cast, flush, before>>

Steps == {"idle", "listed", "checked", "waiting", "unsent", "late", "done"}
Answers == {"ok", "error", "closed"}
Items == Calls \cup Casts \cup Flushes
Readers == {"top", "drain", "read", "found", "advanced", "flagged", "stopped"}
NoHand == [call |-> NoCall, value |-> "none"]

Init ==
  /\ step = [c \in Calls |-> "idle"]
  /\ answer = [c \in Calls |-> "none"]
  /\ outcome = [c \in Calls |-> "none"]
  /\ pending = {} /\ advanced = {}
  /\ outbound = <<>> /\ written = {} /\ answered = {}
  /\ closed = FALSE /\ reader = "top" /\ hand = NoHand
  /\ cast = [d \in Casts |-> "idle"]
  /\ flush = [f \in Flushes |-> "idle"]
  /\ before = [f \in Flushes |-> {}]

Queued == Range(outbound)
\* The receiver of the queue goes with the reader thread.
Connected == reader # "stopped"

(***************************************************************************)
(* The calling threads: call_inner and send_value.                         *)
(***************************************************************************)
Returns(c, result) ==
  /\ step' = [step EXCEPT ![c] = "done"]
  /\ outcome' = [outcome EXCEPT ![c] = result]

Goes(c, where) == step' = [step EXCEPT ![c] = where] /\ UNCHANGED outcome

\* A call whose deadline has passed does nothing.
Expired(c) ==
  /\ step[c] = "idle"
  /\ Returns(c, "timeout")
  /\ UNCHANGED <<answer, pending, advanced, outbound, written, answered,
                 closed, reader, hand, senders>>

Enlist(c) ==
  /\ step[c] = "idle"
  /\ Goes(c, "listed")
  /\ pending' = pending \cup {c}
  /\ UNCHANGED <<answer, advanced, outbound, written, answered, closed,
                 reader, hand, senders>>

\* Mutant: the flag is not looked at before the message is queued.
CheckNothing(c) ==
  /\ step[c] = "listed"
  /\ Goes(c, "checked")
  /\ UNCHANGED <<answer, pending, advanced, outbound, written, answered,
                 closed, reader, hand, senders>>

Check(c) ==
  /\ step[c] = "listed"
  /\ Goes(c, IF closed THEN "unsent" ELSE "checked")
  /\ UNCHANGED <<answer, pending, advanced, outbound, written, answered,
                 closed, reader, hand, senders>>

Send(c) ==
  /\ step[c] = "checked"
  /\ IF Connected
     THEN Goes(c, "waiting") /\ outbound' = Append(outbound, c)
     ELSE Goes(c, "unsent") /\ UNCHANGED outbound
  /\ UNCHANGED <<answer, pending, advanced, written, answered, closed,
                 reader, hand, senders>>

Receive(c) ==
  /\ step[c] = "waiting" /\ answer[c] # "none"
  /\ Returns(c, answer[c])
  /\ UNCHANGED <<answer, pending, advanced, outbound, written, answered,
                 closed, reader, hand, senders>>

\* recv_timeout gives up on an empty channel; the reader may fill it before
\* the call has left the map.
Timeout(c) ==
  /\ step[c] = "waiting" /\ answer[c] = "none"
  /\ Goes(c, "late")
  /\ UNCHANGED <<answer, pending, advanced, outbound, written, answered,
                 closed, reader, hand, senders>>

Delist(c) ==
  /\ step[c] \in {"unsent", "late"}
  /\ Returns(c, IF step[c] = "late" THEN "timeout" ELSE "unsent")
  /\ pending' = pending \ {c}
  /\ UNCHANGED <<answer, advanced, outbound, written, answered, closed,
                 reader, hand, senders>>

(***************************************************************************)
(* close_target_detached and the acknowledgement of a frame.               *)
(***************************************************************************)
Cast(d) ==
  /\ cast[d] = "idle"
  /\ \/ /\ Connected
        /\ cast' = [cast EXCEPT ![d] = "sent"]
        /\ outbound' = Append(outbound, d)
     \/ /\ closed
        /\ cast' = [cast EXCEPT ![d] = "refused"]
        /\ UNCHANGED outbound
  /\ UNCHANGED <<callers, answer, pending, advanced, written, answered,
                 closed, reader, hand, flush, before>>

(***************************************************************************)
(* flush_outbound: look at the flag, queue a token, wait for it.           *)
(***************************************************************************)
FlushGoes(f, where) == flush' = [flush EXCEPT ![f] = where]

CheckFlush(f) ==
  /\ flush[f] = "idle"
  /\ FlushGoes(f, IF closed THEN "failed" ELSE "checked")
  /\ UNCHANGED <<callers, answer, pending, advanced, outbound, written,
                 answered, closed, reader, hand, cast, before>>

QueueFlush(f) ==
  /\ flush[f] = "checked"
  /\ IF Connected
     THEN /\ FlushGoes(f, "waiting")
          /\ outbound' = Append(outbound, f)
          /\ before' = [before EXCEPT ![f] = Queued \ Flushes]
     ELSE FlushGoes(f, "failed") /\ UNCHANGED <<outbound, before>>
  /\ UNCHANGED <<callers, answer, pending, advanced, written, answered,
                 closed, reader, hand, cast>>

FlushTimeout(f) ==
  /\ flush[f] = "waiting"
  /\ FlushGoes(f, "failed")
  /\ UNCHANGED <<callers, answer, pending, advanced, outbound, written,
                 answered, closed, reader, hand, cast, before>>

(***************************************************************************)
(* close_inner: the flag, then an error to every pending call.  The event  *)
(* queue, which it closes last, is in BrowserRoutes.                       *)
(***************************************************************************)
Close ==
  /\ closed' = TRUE
  /\ reader' = "flagged"
  /\ hand' = NoHand
  /\ UNCHANGED <<callers, answer, pending, advanced, outbound, written,
                 answered, senders>>

\* Mutant: the pending calls are dropped and not told.
DrainUntold ==
  /\ reader = "flagged"
  /\ pending' = {}
  /\ reader' = "top"
  /\ UNCHANGED <<callers, answer, advanced, outbound, written, answered, closed,
                 hand, senders>>

DrainPending ==
  /\ reader = "flagged"
  /\ answer' = [c \in Calls |-> IF c \in pending THEN "closed" ELSE answer[c]]
  /\ pending' = {}
  /\ reader' = "top"
  /\ UNCHANGED <<callers, advanced, outbound, written, answered, closed, hand,
                 senders>>

(***************************************************************************)
(* reader_loop, drain_outbound and handle_text.                            *)
(***************************************************************************)
\* The thread ends: what is still queued is dropped, and a flush among it
\* learns so at once.
Stop ==
  /\ reader = "top" /\ closed
  /\ reader' = "stopped"
  /\ flush' = [f \in Flushes |->
       IF f \in Queued /\ flush[f] = "waiting" THEN "failed" ELSE flush[f]]
  /\ outbound' = <<>>
  /\ UNCHANGED <<callers, answer, pending, advanced, written, answered,
                 closed, hand, cast, before>>

Turn ==
  /\ reader = "top" /\ ~closed
  /\ reader' = "drain"
  /\ UNCHANGED <<callers, answer, pending, advanced, outbound, written,
                 answered, closed, hand, senders>>

WriteOne ==
  /\ reader = "drain" /\ outbound # <<>>
  /\ outbound' = Tail(outbound)
  /\ LET item == Head(outbound)
     IN IF item \in Flushes
        THEN /\ flush' = [flush EXCEPT ![item] =
                            IF @ = "waiting" THEN "done" ELSE @]
             /\ UNCHANGED written
        ELSE written' = written \cup {item} /\ UNCHANGED flush
  /\ UNCHANGED <<callers, answer, pending, advanced, answered, closed, reader,
                 hand, cast, before>>

\* A write that fails takes its message with it; whether Chrome got it is
\* unknown to the daemon.
WriteFails ==
  /\ reader = "drain" /\ outbound # <<>> /\ Head(outbound) \notin Flushes
  /\ closed' = TRUE /\ reader' = "flagged"
  /\ outbound' = Tail(outbound)
  /\ written' \in {written, written \cup {Head(outbound)}}
  /\ UNCHANGED <<callers, answer, pending, advanced, answered, hand, senders>>

Drained ==
  /\ reader = "drain" /\ outbound = <<>>
  /\ reader' = "read"
  /\ UNCHANGED <<callers, answer, pending, advanced, outbound, written,
                 answered, closed, hand, senders>>

\* A read that times out, or a message that is no answer.
ReadOther ==
  /\ reader = "read"
  /\ reader' = "top"
  /\ UNCHANGED <<callers, answer, pending, advanced, outbound, written,
                 answered, closed, hand, senders>>

\* Chrome answers a call it has read, once.  A call that has left the map
\* is passed over.
ReadAnswer(c, value) ==
  /\ reader = "read" /\ c \in written \ answered
  /\ answered' = answered \cup {c}
  /\ IF c \in pending
     THEN /\ pending' = pending \ {c}
          /\ hand' = [call |-> c, value |-> value]
          /\ reader' = "found"
     ELSE reader' = "top" /\ UNCHANGED <<pending, hand>>
  /\ UNCHANGED <<callers, answer, advanced, outbound, written, closed,
                 senders>>

\* Mutant: the answer is handed over before the barrier is advanced.
AdvanceAfterReply ==
  /\ reader = "found"
  /\ reader' = "advanced"
  /\ answer' = [answer EXCEPT ![hand.call] = hand.value]
  /\ UNCHANGED <<callers, advanced, pending, outbound, written, answered,
                 closed, hand, senders>>

AdvanceBarrier ==
  /\ reader = "found"
  /\ reader' = "advanced"
  /\ advanced' = IF hand.value = "ok" /\ hand.call \in Barriers
                 THEN advanced \cup {hand.call} ELSE advanced
  /\ UNCHANGED <<callers, answer, pending, outbound, written, answered,
                 closed, hand, senders>>

Reply ==
  /\ reader = "advanced"
  /\ answer' = [answer EXCEPT ![hand.call] = hand.value]
  /\ hand' = NoHand
  /\ reader' = "top"
  /\ UNCHANGED <<callers, pending, advanced, outbound, written, answered,
                 closed, senders>>

\* The receiver of the events is gone, the socket ends, the event queue
\* overflows.
Fails ==
  /\ reader \in {"top", "read"} /\ ~closed
  /\ Close

ReaderStep ==
  \/ Stop \/ Turn \/ WriteOne \/ WriteFails \/ Drained \/ ReadOther
  \/ \E c \in Calls, value \in {"ok", "error"} : ReadAnswer(c, value)
  \/ AdvanceBarrier \/ Reply \/ Fails \/ DrainPending

CallerStep(c) == Check(c) \/ Send(c) \/ Receive(c) \/ Delist(c)

Next ==
  \/ \E c \in Calls : Expired(c) \/ Enlist(c) \/ CallerStep(c) \/ Timeout(c)
  \/ \E d \in Casts : Cast(d)
  \/ \E f \in Flushes : CheckFlush(f) \/ QueueFlush(f) \/ FlushTimeout(f)
  \/ ReaderStep

Spec == Init /\ [][Next]_vars

(***************************************************************************)
(* Threads run.  No timeout, no failure and no answer of Chrome is fair.   *)
(***************************************************************************)
FairSpec ==
  /\ Spec
  /\ WF_vars(ReaderStep)
  /\ \A c \in Calls : WF_vars(CallerStep(c))

(***************************************************************************)
(* Properties.                                                             *)
(***************************************************************************)
TypeOK ==
  /\ step \in [Calls -> Steps]
  /\ answer \in [Calls -> Answers \cup {"none"}]
  /\ outcome \in [Calls -> Answers \cup {"none", "unsent", "timeout"}]
  /\ pending \subseteq Calls /\ advanced \subseteq Barriers
  /\ outbound \in Seq(Items)
  /\ written \subseteq Calls \cup Casts /\ answered \subseteq Calls
  /\ closed \in BOOLEAN /\ reader \in Readers
  /\ hand \in [call : Calls \cup {NoCall}, value : {"none", "ok", "error"}]
  /\ cast \in [Casts -> {"idle", "sent", "refused"}]
  /\ flush \in [Flushes -> {"idle", "checked", "waiting", "done", "failed"}]
  /\ before \in [Flushes -> SUBSET (Calls \cup Casts)]

(***************************************************************************)
(* A caller that waits on an empty channel is still in the pending map or  *)
(* in the reader's hand, so somebody owes it an answer; once the reader    *)
(* has ended nobody waits on an empty channel.  The flag, the map and the  *)
(* queue have a lock or none each: this is what call_inner's order (list,  *)
(* look at the flag, send) and close_inner's (flag, drain) buy together.   *)
(***************************************************************************)
EveryWaitIsOwed ==
  \A c \in Calls : step[c] = "waiting" /\ answer[c] = "none" =>
    Connected /\ (c \in pending \/ hand.call = c)

(***************************************************************************)
(* An entry of the pending map belongs to a call in progress: a call that  *)
(* timed out, or was never sent, leaves none behind, although the reader   *)
(* and close_inner remove entries at the same time.                        *)
(***************************************************************************)
PendingHasCaller ==
  \A c \in pending : step[c] \in Steps \ {"idle", "done"}

(***************************************************************************)
(* What call_inner reports is so: a call reported as not sent never gets   *)
(* on the socket, one reported as answered was written, and when it went   *)
(* well its frame barrier was advanced before the caller went on.          *)
(***************************************************************************)
OutcomesAreTrue ==
  \A c \in Calls :
    /\ outcome[c] = "unsent" => c \notin written \cup Queued
    /\ outcome[c] \in {"ok", "error"} => c \in answered
    /\ outcome[c] = "ok" /\ c \in Barriers => c \in advanced

(***************************************************************************)
(* A flush that succeeded has put on the socket everything queued before   *)
(* it; shutdown relies on it to have the targets closed.                   *)
(***************************************************************************)
FlushedIsWritten ==
  \A f \in Flushes : flush[f] = "done" => before[f] \subseteq written

(***************************************************************************)
(* Once the connection is closed every call ends, without waiting for its  *)
(* timeout of 30 seconds.                                                  *)
(***************************************************************************)
CallsEndWithConnection ==
  \A c \in Calls : closed ~> step[c] \in {"idle", "done"}
=============================================================================
