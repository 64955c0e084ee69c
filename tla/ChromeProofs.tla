---------------------------- MODULE ChromeProofs ----------------------------
(***************************************************************************)
(* What holds of the connection to Chrome (CdpConnection) for any number   *)
(* of calls, casts and flushes: nobody waits for an answer that nobody     *)
(* owes, what a call reports is so, and a flush that succeeded has written *)
(* what was queued before it.                                              *)
(*                                                                         *)
(* And of the pages it shows (PageAuthority), for any number of            *)
(* navigations, frames, commands and calls that time out: a pointer is let *)
(* through only to the document whose pixels the surface shows.            *)
(***************************************************************************)
EXTENDS CdpConnection, PageAuthority, SequenceTheorems, TLAPS

(* The reader holds a call between finding its answer and handing it over, *)
(* and a connection that is closed is drained once, before anything else.  *)
ReaderInv ==
  /\ reader \in {"found", "advanced"} =>
       /\ hand.call \in Calls \cap answered /\ hand.call \notin pending
       /\ hand.value \in {"ok", "error"} /\ step[hand.call] # "idle"
  /\ reader \notin {"found", "advanced"} => hand = NoHand
  /\ reader = "advanced" /\ hand.value = "ok" /\ hand.call \in Barriers =>
       hand.call \in advanced
  /\ closed => reader \in {"flagged", "top", "stopped"}
  /\ reader \in {"flagged", "stopped"} => closed

(* Somebody will tell the call, or has.                                    *)
Covered(c) == c \in pending \/ hand.call = c \/ answer[c] # "none"

(* A call that may have been sent is covered; once the pending calls have  *)
(* been told of the end it has been told.                                  *)
Owed ==
  \A c \in Calls :
    /\ c \in pending => step[c] \in Steps \ {"idle", "done"}
    /\ answer[c] # "none" => c \notin pending /\ step[c] # "idle"
    /\ step[c] \in {"listed", "checked", "waiting"} => Covered(c)
    /\ closed /\ reader # "flagged" /\ step[c] \in {"checked", "waiting"} =>
         answer[c] # "none"

(* What is in the channel of a call, what it returned, and what is sent.   *)
True ==
  \A c \in Calls :
    /\ step[c] # "done" => outcome[c] = "none"
    /\ answer[c] \in {"ok", "error"} => c \in answered
    /\ answer[c] = "ok" /\ c \in Barriers => c \in advanced
    /\ outcome[c] \in {"ok", "error"} => c \in answered
    /\ outcome[c] = "ok" /\ c \in Barriers => c \in advanced
    /\ step[c] \in {"idle", "listed", "checked", "unsent"} \/ outcome[c] = "unsent" =>
         c \notin written \cup Queued

CallsInv == TypeOK /\ ReaderInv /\ Owed /\ True

-----------------------------------------------------------------------------
(* What the queue holds after an append and after its head was taken.      *)
LEMMA QueueGrows ==
  ASSUME NEW S, NEW q \in Seq(S), NEW x \in S
  PROVE  Append(q, x) \in Seq(S) /\ Range(Append(q, x)) = Range(q) \cup {x}
BY AppendProperties DEF Range

LEMMA QueueShrinks ==
  ASSUME NEW S, NEW q \in Seq(S), q # <<>>
  PROVE  /\ Tail(q) \in Seq(S) /\ Head(q) \in S
         /\ Head(q) \in Range(q)
         /\ Range(q) = Range(Tail(q)) \cup {Head(q)}
<1>1. /\ Tail(q) \in Seq(S) /\ Head(q) \in S /\ Len(q) \in Nat /\ Len(q) > 0
      /\ Len(Tail(q)) = Len(q) - 1 /\ Head(q) = q[1]
      /\ \A i \in 1..Len(Tail(q)) : Tail(q)[i] = q[i + 1]
  BY HeadTailProperties
<1>2. /\ DOMAIN q = 1..Len(q) /\ DOMAIN Tail(q) = 1..Len(Tail(q))
  BY <1>1
<1>3. \A i \in 1..Len(q) :
        i = 1 \/ (i - 1 \in 1..Len(Tail(q)) /\ Tail(q)[i - 1] = q[i])
  BY <1>1
<1>4. ASSUME NEW x \in Range(q)
      PROVE  x \in Range(Tail(q)) \cup {Head(q)}
  <2>1. PICK i \in 1..Len(q) : x = q[i]
    BY <1>2 DEF Range
  <2>2. CASE i = 1
    BY <1>1, <2>1, <2>2
  <2>3. CASE i - 1 \in 1..Len(Tail(q)) /\ Tail(q)[i - 1] = q[i]
    BY <1>2, <2>1, <2>3 DEF Range
  <2> QED
    BY <1>3, <2>2, <2>3
<1>5. Range(Tail(q)) \cup {Head(q)} \subseteq Range(q)
  BY <1>1, <1>2 DEF Range
<1> QED
  BY <1>1, <1>4, <1>5

LEMMA EmptyQueue == Range(<<>>) = {}
BY DEF Range

LEMMA Queues ==
  ASSUME CallsInv
  PROVE  /\ \A x \in Items :
              /\ Append(outbound, x) \in Seq(Items)
              /\ Range(Append(outbound, x)) = Queued \cup {x}
         /\ outbound # <<>> =>
              /\ Tail(outbound) \in Seq(Items) /\ Head(outbound) \in Items
              /\ Queued = Range(Tail(outbound)) \cup {Head(outbound)}
<1>1. outbound \in Seq(Items)
  BY DEF CallsInv, TypeOK
<1> QED
  BY <1>1, QueueGrows, QueueShrinks DEF Queued

LEMMA QueuedItems ==
  ASSUME CallsInv
  PROVE  Queued \subseteq Items
<1>1. outbound \in Seq(Items)
  BY DEF CallsInv, TypeOK
<1> QED
  BY <1>1, RangeOfSeq DEF Queued

-----------------------------------------------------------------------------
(* Every step keeps the invariant.                                         *)
LEMMA ExpiredKeeps ==
  ASSUME CallsInv, NEW c \in Calls, Expired(c)
  PROVE  CallsInv'
<1> USE CallsAssumption DEF CallsInv, TypeOK, ReaderInv, Owed, True, Covered,
    Queued, Connected, Steps, Answers, Readers, NoHand, callers, senders
<1>1. TypeOK'
  BY DEF Expired, Returns
<1>2. ReaderInv'
  BY DEF Expired, Returns
<1>3. Owed'
  BY DEF Expired, Returns
<1>4. True'
  BY DEF Expired, Returns
<1> QED
  BY <1>1, <1>2, <1>3, <1>4

LEMMA EnlistKeeps ==
  ASSUME CallsInv, NEW c \in Calls, Enlist(c)
  PROVE  CallsInv'
<1> USE CallsAssumption DEF CallsInv, TypeOK, ReaderInv, Owed, True, Covered,
    Queued, Connected, Steps, Answers, Readers, NoHand, callers, senders
<1>1. TypeOK'
  BY DEF Enlist, Goes
<1>2. ReaderInv'
  BY DEF Enlist, Goes
<1>3. Owed'
  BY DEF Enlist, Goes
<1>4. True'
  BY DEF Enlist, Goes
<1> QED
  BY <1>1, <1>2, <1>3, <1>4

LEMMA CheckKeeps ==
  ASSUME CallsInv, NEW c \in Calls, Check(c)
  PROVE  CallsInv'
<1> USE CallsAssumption DEF CallsInv, TypeOK, ReaderInv, Owed, True, Covered,
    Queued, Connected, Steps, Answers, Readers, NoHand, callers, senders
<1>1. TypeOK'
  BY DEF Check, Goes
<1>2. ReaderInv'
  BY DEF Check, Goes
<1>3. Owed'
  BY DEF Check, Goes
<1>4. True'
  BY DEF Check, Goes
<1> QED
  BY <1>1, <1>2, <1>3, <1>4

LEMMA SendKeeps ==
  ASSUME CallsInv, NEW c \in Calls, Send(c)
  PROVE  CallsInv'
<1>1. /\ step[c] = "checked"
      /\ \/ Connected /\ Goes(c, "waiting")
         \/ ~Connected /\ Goes(c, "unsent") /\ Queued' = Queued
      /\ UNCHANGED <<answer, pending, advanced, written, answered, closed,
                     reader, hand, senders>>
  BY DEF Send, Queued, Connected
<1>2. (outbound \in Seq(Items))' /\ Queued' \subseteq Queued \cup {c}
  <2>1. outbound' = outbound \/ outbound' = Append(outbound, c)
    BY DEF Send
  <2>2. c \in Items /\ outbound \in Seq(Items)
    BY DEF Items, CallsInv, TypeOK
  <2> QED
    BY <2>1, <2>2, Queues DEF Queued
<1> USE CallsAssumption DEF CallsInv, TypeOK, ReaderInv, Owed, True, Covered,
    Connected, Steps, Answers, Readers, NoHand, callers, senders
<1>3. step' \in [Calls -> Steps] /\ outcome' = outcome
  BY <1>1 DEF Goes
<1>4. TypeOK'
  BY <1>1, <1>2, <1>3
<1>5. ReaderInv'
  BY <1>1 DEF Goes
<1>6. Owed'
  BY <1>1 DEF Goes
<1>7. True'
  BY <1>1, <1>2 DEF Goes
<1> QED
  BY <1>4, <1>5, <1>6, <1>7

LEMMA ReceiveKeeps ==
  ASSUME CallsInv, NEW c \in Calls, Receive(c)
  PROVE  CallsInv'
<1> USE CallsAssumption DEF CallsInv, TypeOK, ReaderInv, Owed, True, Covered,
    Queued, Connected, Steps, Answers, Readers, NoHand, callers, senders
<1>1. TypeOK'
  BY DEF Receive, Returns
<1>2. ReaderInv'
  BY DEF Receive, Returns
<1>3. Owed'
  BY DEF Receive, Returns
<1>4. True'
  BY DEF Receive, Returns
<1> QED
  BY <1>1, <1>2, <1>3, <1>4

LEMMA TimeoutKeeps ==
  ASSUME CallsInv, NEW c \in Calls, Timeout(c)
  PROVE  CallsInv'
<1> USE CallsAssumption DEF CallsInv, TypeOK, ReaderInv, Owed, True, Covered,
    Queued, Connected, Steps, Answers, Readers, NoHand, callers, senders
<1>1. TypeOK'
  BY DEF Timeout, Goes
<1>2. ReaderInv'
  BY DEF Timeout, Goes
<1>3. Owed'
  BY DEF Timeout, Goes
<1>4. True'
  BY DEF Timeout, Goes
<1> QED
  BY <1>1, <1>2, <1>3, <1>4

LEMMA DelistKeeps ==
  ASSUME CallsInv, NEW c \in Calls, Delist(c)
  PROVE  CallsInv'
<1> USE CallsAssumption DEF CallsInv, TypeOK, ReaderInv, Owed, True, Covered,
    Queued, Connected, Steps, Answers, Readers, NoHand, callers, senders
<1>1. TypeOK'
  BY DEF Delist, Returns
<1>2. ReaderInv'
  BY DEF Delist, Returns
<1>3. Owed'
  BY DEF Delist, Returns
<1>4. True'
  BY DEF Delist, Returns
<1> QED
  BY <1>1, <1>2, <1>3, <1>4

LEMMA CastKeeps ==
  ASSUME CallsInv, NEW d \in Casts, Cast(d)
  PROVE  CallsInv'
<1>1. /\ \/ cast' = [cast EXCEPT ![d] = "sent"]
         \/ cast' = [cast EXCEPT ![d] = "refused"]
      /\ UNCHANGED <<callers, answer, pending, advanced, written, answered,
                     closed, reader, hand, flush, before>>
  BY DEF Cast
<1>2. (outbound \in Seq(Items))' /\ Queued' \subseteq Queued \cup {d}
  <2>1. outbound' = outbound \/ outbound' = Append(outbound, d)
    BY DEF Cast
  <2>2. d \in Items /\ outbound \in Seq(Items)
    BY DEF Items, CallsInv, TypeOK
  <2> QED
    BY <2>1, <2>2, Queues DEF Queued
<1> USE CallsAssumption DEF CallsInv, TypeOK, ReaderInv, Owed, True, Covered,
    Connected, Steps, Answers, Readers, NoHand, callers, senders
<1>3. cast' \in [Casts -> {"idle", "sent", "refused"}]
  BY <1>1
<1>4. TypeOK'
  BY <1>1, <1>2, <1>3
<1>5. ReaderInv'
  BY <1>1
<1>6. Owed'
  BY <1>1
<1>7. True'
  BY <1>1, <1>2
<1> QED
  BY <1>4, <1>5, <1>6, <1>7

LEMMA CheckFlushKeeps ==
  ASSUME CallsInv, NEW f \in Flushes, CheckFlush(f) \/ FlushTimeout(f)
  PROVE  CallsInv'
<1> USE CallsAssumption DEF CallsInv, TypeOK, ReaderInv, Owed, True, Covered,
    Queued, Connected, Steps, Answers, Readers, NoHand, callers, senders
<1>1. TypeOK'
  BY DEF CheckFlush, FlushTimeout, FlushGoes
<1>2. ReaderInv'
  BY DEF CheckFlush, FlushTimeout, FlushGoes
<1>3. Owed'
  BY DEF CheckFlush, FlushTimeout, FlushGoes
<1>4. True'
  BY DEF CheckFlush, FlushTimeout, FlushGoes
<1> QED
  BY <1>1, <1>2, <1>3, <1>4

LEMMA QueueFlushKeeps ==
  ASSUME CallsInv, NEW f \in Flushes, QueueFlush(f)
  PROVE  CallsInv'
<1>1. /\ \/ flush' = [flush EXCEPT ![f] = "waiting"]
         \/ flush' = [flush EXCEPT ![f] = "failed"]
      /\ \/ before' = [before EXCEPT ![f] = Queued \ Flushes]
         \/ before' = before
      /\ UNCHANGED <<callers, answer, pending, advanced, written, answered,
                     closed, reader, hand, cast>>
  BY DEF QueueFlush, FlushGoes
<1>2. (outbound \in Seq(Items))' /\ Queued' \subseteq Queued \cup {f}
  <2>1. outbound' = outbound \/ outbound' = Append(outbound, f)
    BY DEF QueueFlush
  <2>2. f \in Items /\ outbound \in Seq(Items)
    BY DEF Items, CallsInv, TypeOK
  <2> QED
    BY <2>1, <2>2, Queues DEF Queued
<1> USE CallsAssumption DEF CallsInv, TypeOK, ReaderInv, Owed, True, Covered,
    Connected, Steps, Answers, Readers, NoHand, callers, senders
<1>3. /\ flush' \in [Flushes ->
           {"idle", "checked", "waiting", "done", "failed"}]
      /\ before' \in [Flushes -> SUBSET (Calls \cup Casts)]
  <2>1. Queued \ Flushes \in SUBSET (Calls \cup Casts)
    BY QueuedItems DEF Items
  <2> QED
    BY <1>1, <2>1
<1>4. TypeOK'
  BY <1>1, <1>2, <1>3
<1>5. ReaderInv'
  BY <1>1
<1>6. Owed'
  BY <1>1
<1>7. True'
  BY <1>1, <1>2
<1> QED
  BY <1>4, <1>5, <1>6, <1>7

LEMMA DrainKeeps ==
  ASSUME CallsInv, DrainPending
  PROVE  CallsInv'
<1> USE CallsAssumption DEF CallsInv, TypeOK, ReaderInv, Owed, True, Covered,
    Queued, Connected, Steps, Answers, Readers, NoHand, callers, senders
<1>1. TypeOK'
  BY DEF DrainPending
<1>2. ReaderInv'
  BY DEF DrainPending
<1>3. Owed'
  BY DEF DrainPending
<1>4. True'
  BY DEF DrainPending
<1> QED
  BY <1>1, <1>2, <1>3, <1>4

LEMMA StopKeeps ==
  ASSUME CallsInv, Stop
  PROVE  CallsInv'
<1> USE CallsAssumption DEF CallsInv, TypeOK, ReaderInv, Owed, True, Covered,
    Queued, Connected, Steps, Answers, Readers, NoHand, callers, senders
<1>1. TypeOK'
  BY EmptyQueue DEF Stop
<1>2. ReaderInv'
  BY EmptyQueue DEF Stop
<1>3. Owed'
  BY EmptyQueue DEF Stop
<1>4. True'
  BY EmptyQueue DEF Stop
<1> QED
  BY <1>1, <1>2, <1>3, <1>4

LEMMA TurnKeeps ==
  ASSUME CallsInv, Turn
  PROVE  CallsInv'
<1> USE CallsAssumption DEF CallsInv, TypeOK, ReaderInv, Owed, True, Covered,
    Queued, Connected, Steps, Answers, Readers, NoHand, callers, senders
<1>1. TypeOK'
  BY DEF Turn
<1>2. ReaderInv'
  BY DEF Turn
<1>3. Owed'
  BY DEF Turn
<1>4. True'
  BY DEF Turn
<1> QED
  BY <1>1, <1>2, <1>3, <1>4

LEMMA WriteKeeps ==
  ASSUME CallsInv, WriteOne
  PROVE  CallsInv'
<1>1. /\ \/ Head(outbound) \in Flushes /\ written' = written
         \/ /\ Head(outbound) \notin Flushes
            /\ written' = written \cup {Head(outbound)}
      /\ \/ flush' = flush
         \/ flush' = [flush EXCEPT ![Head(outbound)] =
                         IF @ = "waiting" THEN "done" ELSE @]
      /\ UNCHANGED <<callers, answer, pending, advanced, answered, closed,
                     reader, hand, cast, before>>
  BY DEF WriteOne
<1>2. /\ (outbound \in Seq(Items))' /\ Queued' \subseteq Queued
      /\ Head(outbound) \in Queued \cap (Calls \cup Casts \cup Flushes)
  BY Queues DEF WriteOne, Items, Queued
<1> USE CallsAssumption DEF CallsInv, TypeOK, ReaderInv, Owed, True, Covered,
    Connected, Steps, Answers, Readers, NoHand, callers, senders
<1>3. /\ written' \subseteq Calls \cup Casts
      /\ flush' \in [Flushes ->
           {"idle", "checked", "waiting", "done", "failed"}]
  BY <1>1, <1>2
<1>4. TypeOK'
  BY <1>1, <1>2, <1>3
<1>5. ReaderInv'
  BY <1>1
<1>6. Owed'
  BY <1>1
<1>7. True'
  BY <1>1, <1>2
<1> QED
  BY <1>4, <1>5, <1>6, <1>7

LEMMA WriteFailsKeeps ==
  ASSUME CallsInv, WriteFails
  PROVE  CallsInv'
<1>1. /\ Head(outbound) \notin Flushes
      /\ written' \in {written, written \cup {Head(outbound)}}
      /\ closed' = TRUE /\ reader = "drain" /\ reader' = "flagged"
      /\ UNCHANGED <<callers, answer, pending, advanced, answered, hand,
                     senders>>
  BY DEF WriteFails
<1>2. /\ (outbound \in Seq(Items))' /\ Queued' \subseteq Queued
      /\ Head(outbound) \in Queued \cap (Calls \cup Casts \cup Flushes)
  BY Queues DEF WriteFails, Items, Queued
<1> USE CallsAssumption DEF CallsInv, TypeOK, ReaderInv, Owed, True, Covered,
    Connected, Steps, Answers, Readers, NoHand, callers, senders
<1>3. written' \subseteq Calls \cup Casts
  BY <1>1, <1>2
<1>4. TypeOK'
  BY <1>1, <1>2, <1>3
<1>5. ReaderInv'
  BY <1>1
<1>6. Owed'
  BY <1>1
<1>7. True'
  BY <1>1, <1>2
<1> QED
  BY <1>4, <1>5, <1>6, <1>7

LEMMA DrainedKeeps ==
  ASSUME CallsInv, Drained \/ ReadOther
  PROVE  CallsInv'
<1> USE CallsAssumption DEF CallsInv, TypeOK, ReaderInv, Owed, True, Covered,
    Queued, Connected, Steps, Answers, Readers, NoHand, callers, senders
<1>1. TypeOK'
  BY DEF Drained, ReadOther
<1>2. ReaderInv'
  BY DEF Drained, ReadOther
<1>3. Owed'
  BY DEF Drained, ReadOther
<1>4. True'
  BY DEF Drained, ReadOther
<1> QED
  BY <1>1, <1>2, <1>3, <1>4

LEMMA AnswerKeeps ==
  ASSUME CallsInv, NEW c \in Calls, NEW value \in {"ok", "error"},
         ReadAnswer(c, value)
  PROVE  CallsInv'
<1> USE CallsAssumption DEF CallsInv, TypeOK, ReaderInv, Owed, True, Covered,
    Queued, Connected, Steps, Answers, Readers, NoHand, callers, senders
<1>1. TypeOK'
  BY DEF ReadAnswer
<1>2. ReaderInv'
  BY DEF ReadAnswer
<1>3. Owed'
  BY DEF ReadAnswer
<1>4. True'
  BY DEF ReadAnswer
<1> QED
  BY <1>1, <1>2, <1>3, <1>4

LEMMA AdvanceKeeps ==
  ASSUME CallsInv, AdvanceBarrier
  PROVE  CallsInv'
<1> USE CallsAssumption DEF CallsInv, TypeOK, ReaderInv, Owed, True, Covered,
    Queued, Connected, Steps, Answers, Readers, NoHand, callers, senders
<1>1. TypeOK'
  BY DEF AdvanceBarrier
<1>2. ReaderInv'
  BY DEF AdvanceBarrier
<1>3. Owed'
  BY DEF AdvanceBarrier
<1>4. True'
  BY DEF AdvanceBarrier
<1> QED
  BY <1>1, <1>2, <1>3, <1>4

LEMMA ReplyKeeps ==
  ASSUME CallsInv, Reply
  PROVE  CallsInv'
<1> USE CallsAssumption DEF CallsInv, TypeOK, ReaderInv, Owed, True, Covered,
    Queued, Connected, Steps, Answers, Readers, NoHand, callers, senders
<1>1. TypeOK'
  BY DEF Reply
<1>2. ReaderInv'
  BY DEF Reply
<1>3. Owed'
  BY DEF Reply
<1>4. True'
  BY DEF Reply
<1> QED
  BY <1>1, <1>2, <1>3, <1>4

LEMMA FailsKeeps ==
  ASSUME CallsInv, Fails
  PROVE  CallsInv'
<1> USE CallsAssumption DEF CallsInv, TypeOK, ReaderInv, Owed, True, Covered,
    Queued, Connected, Steps, Answers, Readers, NoHand, callers, senders
<1>1. TypeOK'
  BY DEF Fails, Close
<1>2. ReaderInv'
  BY DEF Fails, Close
<1>3. Owed'
  BY DEF Fails, Close
<1>4. True'
  BY DEF Fails, Close
<1> QED
  BY <1>1, <1>2, <1>3, <1>4

LEMMA StutterKeeps ==
  ASSUME CallsInv, UNCHANGED vars
  PROVE  CallsInv'
<1> USE CallsAssumption DEF CallsInv, TypeOK, ReaderInv, Owed, True, Covered,
    Queued, Connected, Steps, Answers, Readers, NoHand, callers, senders
<1>1. TypeOK'
  BY DEF vars
<1>2. ReaderInv'
  BY DEF vars
<1>3. Owed'
  BY DEF vars
<1>4. True'
  BY DEF vars
<1> QED
  BY <1>1, <1>2, <1>3, <1>4

LEMMA ReaderKeeps ==
  ASSUME CallsInv, ReaderStep
  PROVE  CallsInv'
BY DrainKeeps, StopKeeps, TurnKeeps, WriteKeeps, WriteFailsKeeps, DrainedKeeps,
   AnswerKeeps, AdvanceKeeps, ReplyKeeps, FailsKeeps DEF ReaderStep

LEMMA CallsInvKept ==
  ASSUME CallsInv, [Next]_vars
  PROVE  CallsInv'
<1>1. ASSUME NEW c \in Calls,
             Expired(c) \/ Enlist(c) \/ CallerStep(c) \/ Timeout(c)
      PROVE  CallsInv'
  BY <1>1, ExpiredKeeps, EnlistKeeps, CheckKeeps, SendKeeps, ReceiveKeeps,
     TimeoutKeeps, DelistKeeps DEF CallerStep
<1>2. ASSUME NEW f \in Flushes,
             CheckFlush(f) \/ QueueFlush(f) \/ FlushTimeout(f)
      PROVE  CallsInv'
  BY <1>2, CheckFlushKeeps, QueueFlushKeeps
<1> QED
  BY <1>1, <1>2, CastKeeps, ReaderKeeps, StutterKeeps DEF Next

LEMMA CallsInvStarts ==
  ASSUME Init
  PROVE  CallsInv
<1> USE DEF Init
<1>1. TypeOK
  <2>1. <<>> \in Seq(Items)
    OBVIOUS
  <2>2. NoHand \in [call : Calls \cup {NoCall}, value : {"none", "ok", "error"}]
    BY DEF NoHand
  <2> QED
    BY <2>1, <2>2 DEF TypeOK, Steps, Answers, Readers
<1>2. ReaderInv
  BY DEF ReaderInv
<1>3. Owed
  BY DEF Owed, Covered, Steps
<1>4. True
  BY EmptyQueue DEF True, Queued
<1> QED
  BY <1>1, <1>2, <1>3, <1>4 DEF CallsInv

-----------------------------------------------------------------------------
(* The inductive invariant of the calls, the reader and the queue.         *)
THEOREM CallsInvariant == Spec => []CallsInv
<1>1. Init => CallsInv
  BY CallsInvStarts
<1>2. CallsInv /\ [Next]_vars => CallsInv'
  BY CallsInvKept
<1> QED
  BY <1>1, <1>2, PTL DEF Spec

(* Every variable keeps its type.                                          *)
THEOREM TypeCorrect == Spec => []TypeOK
<1>1. CallsInv => TypeOK
  BY DEF CallsInv
<1> QED
  BY <1>1, CallsInvariant, PTL

(* Whoever waits on an empty channel is owed an answer by a reader that    *)
(* lives (call_inner, close_inner).                                        *)
THEOREM WaitsAreOwed == Spec => []EveryWaitIsOwed
<1>1. CallsInv => EveryWaitIsOwed
  BY DEF CallsInv, ReaderInv, Owed, Covered, EveryWaitIsOwed, Connected
<1> QED
  BY <1>1, CallsInvariant, PTL

(* An entry of the pending map belongs to a call in progress.              *)
THEOREM EntriesHaveCallers == Spec => []PendingHasCaller
<1>1. CallsInv => PendingHasCaller
  BY DEF CallsInv, TypeOK, Owed, PendingHasCaller
<1> QED
  BY <1>1, CallsInvariant, PTL

(* What call_inner returns is so.                                          *)
THEOREM ReportsAreTrue == Spec => []OutcomesAreTrue
<1>1. CallsInv => OutcomesAreTrue
  BY DEF CallsInv, True, OutcomesAreTrue
<1> QED
  BY <1>1, CallsInvariant, PTL

-----------------------------------------------------------------------------
(* Flushes.  A token stands in the queue only while its thread waits or    *)
(* has given up, behind what was queued before it, or behind what has      *)
(* been written of it.                                                     *)
Ahead(i) == {outbound[j] : j \in 1..(i - 1)}
Tokens ==
  \A f \in Flushes :
    /\ f \in Queued => flush[f] \in {"waiting", "done", "failed"}
    /\ flush[f] = "done" => before[f] \subseteq written
    /\ ~closed /\ flush[f] = "waiting" =>
         \A i \in DOMAIN outbound :
           outbound[i] = f => before[f] \subseteq written \cup Ahead(i)
FlushInv == CallsInv /\ Tokens

LEMMA QuietTokens ==
  ASSUME Tokens, UNCHANGED <<outbound, written, flush, before>>, closed => closed'
  PROVE  Tokens'
BY DEF Tokens, Queued, Ahead

(* A message behind the tokens.                                            *)
LEMMA MessageTokens ==
  ASSUME FlushInv, NEW x \in Calls \cup Casts, outbound' = Append(outbound, x),
         UNCHANGED <<written, flush, before, closed>>
  PROVE  Tokens'
<1>1. /\ outbound \in Seq(Items) /\ x \in Items /\ x \notin Flushes
  BY CallsAssumption DEF FlushInv, CallsInv, TypeOK, Items
<1>2. Queued' = Queued \cup {x}
  BY <1>1, QueueGrows DEF Queued
<1>3. /\ DOMAIN outbound' = DOMAIN outbound \cup {Len(outbound) + 1}
      /\ \A i \in DOMAIN outbound : outbound'[i] = outbound[i]
      /\ outbound'[Len(outbound) + 1] = x
  BY <1>1, AppendProperties
<1>4. \A i \in DOMAIN outbound : Ahead(i)' = Ahead(i)
  BY <1>1, <1>3 DEF Ahead
<1>5. SUFFICES ASSUME NEW f \in Flushes
      PROVE  /\ f \in Queued' => flush[f] \in {"waiting", "done", "failed"}
             /\ flush[f] = "done" => before[f] \subseteq written
             /\ ~closed /\ flush[f] = "waiting" =>
                  \A i \in DOMAIN outbound' :
                    outbound'[i] = f => before[f] \subseteq written \cup Ahead(i)'
  BY DEF Tokens
<1>6. \A i \in DOMAIN outbound' : outbound'[i] = f =>
        i \in DOMAIN outbound /\ outbound[i] = f
  BY <1>1, <1>3
<1> QED
  BY <1>1, <1>2, <1>4, <1>6 DEF FlushInv, Tokens

(* A new token has the whole queue ahead of it.                            *)
LEMMA NewToken ==
  ASSUME FlushInv, NEW f \in Flushes, QueueFlush(f)
  PROVE  Tokens'
<1>1. outbound \in Seq(Items) /\ f \in Items /\ f \notin Queued
  BY DEF FlushInv, CallsInv, TypeOK, Items, Tokens, QueueFlush
<1>2. CASE ~Connected
  <2>1. /\ flush' = [flush EXCEPT ![f] = "failed"]
        /\ UNCHANGED <<outbound, written, before, closed>>
    BY <1>2 DEF QueueFlush, FlushGoes
  <2>2. flush' \in [Flushes -> {"idle", "checked", "waiting", "done", "failed"}]
    BY <2>1 DEF FlushInv, CallsInv, TypeOK
  <2> QED
    BY <2>1, <2>2 DEF FlushInv, CallsInv, TypeOK, Tokens, Queued, Ahead
<1>3. CASE Connected
  <2>1. /\ flush' = [flush EXCEPT ![f] = "waiting"]
        /\ before' = [before EXCEPT ![f] = Queued \ Flushes]
        /\ outbound' = Append(outbound, f)
        /\ UNCHANGED <<written, closed>>
    BY <1>3 DEF QueueFlush, FlushGoes
  <2>2. /\ flush'[f] = "waiting" /\ before'[f] = Queued \ Flushes
        /\ \A g \in Flushes \ {f} : flush'[g] = flush[g] /\ before'[g] = before[g]
    BY <2>1 DEF FlushInv, CallsInv, TypeOK
  <2>3. Queued' = Queued \cup {f}
    BY <1>1, <2>1, QueueGrows DEF Queued
  <2>4. /\ DOMAIN outbound' = DOMAIN outbound \cup {Len(outbound) + 1}
        /\ \A i \in DOMAIN outbound : outbound'[i] = outbound[i]
        /\ outbound'[Len(outbound) + 1] = f
        /\ DOMAIN outbound = 1..Len(outbound) /\ Len(outbound) \in Nat
    BY <1>1, <2>1, AppendProperties
  <2>5. \A i \in DOMAIN outbound : Ahead(i)' = Ahead(i)
    BY <1>1, <2>4 DEF Ahead
  <2>0. PICK n \in Nat : n = Len(outbound)
    BY <2>4
  <2>6. Ahead(n + 1)' = Queued
    <3>1. 1..((n + 1) - 1) = DOMAIN outbound
      BY <2>0, <2>4
    <3>2. {outbound'[j] : j \in DOMAIN outbound}
            = {outbound[j] : j \in DOMAIN outbound}
      BY <2>4
    <3> QED
      BY <3>1, <3>2, <2>4 DEF Ahead, Queued, Range
  <2>7. ASSUME NEW g \in Flushes
        PROVE  /\ g \in Queued' => flush'[g] \in {"waiting", "done", "failed"}
               /\ flush'[g] = "done" => before'[g] \subseteq written'
               /\ ~closed' /\ flush'[g] = "waiting" =>
                    \A i \in DOMAIN outbound' :
                      outbound'[i] = g =>
                        before'[g] \subseteq written' \cup Ahead(i)'
    <3>1. CASE g # f
      <4>1. \A i \in DOMAIN outbound' : outbound'[i] = g =>
              i \in DOMAIN outbound /\ outbound[i] = g
        BY <2>4, <3>1
      <4> QED
        BY <2>1, <2>2, <2>3, <2>5, <3>1, <4>1 DEF FlushInv, Tokens
    <3>2. CASE g = f
      <4>1. \A i \in DOMAIN outbound : outbound[i] # f
        BY <1>1 DEF Queued, Range
      <4>2. \A i \in DOMAIN outbound' : outbound'[i] = f => i = n + 1
        BY <2>0, <2>4, <4>1
      <4>3. before'[f] \subseteq Queued
        BY <2>2
      <4> QED
        BY <2>2, <2>6, <3>2, <4>2, <4>3
    <3> QED
      BY <3>1, <3>2
  <2> QED
    BY <2>7 DEF Tokens
<1> QED
  BY <1>2, <1>3

(* The head is written, or it is a token that has nothing ahead of it.     *)
LEMMA WriteTokens ==
  ASSUME FlushInv, WriteOne
  PROVE  Tokens'
<1>1. outbound \in Seq(Items) /\ outbound # <<>>
  BY DEF FlushInv, CallsInv, TypeOK, WriteOne
<1>2. PICK h \in Items : h = Head(outbound) /\ h = outbound[1]
  BY <1>1, QueueShrinks
<1>3. /\ \A i \in DOMAIN outbound' : i \in Nat /\ i >= 1
                                     /\ i + 1 \in DOMAIN outbound
                                     /\ outbound'[i] = outbound[i + 1]
      /\ 1 \in DOMAIN outbound
  <2>1. outbound' = Tail(outbound)
    BY DEF WriteOne
  <2> QED
    BY <1>1, <2>1, HeadTailProperties
<1>4. Queued' \subseteq Queued
  <2>1. outbound' = Tail(outbound)
    BY DEF WriteOne
  <2> QED
    BY <1>1, <2>1, QueueShrinks DEF Queued
<1>5. ASSUME NEW i \in DOMAIN outbound'
      PROVE  Ahead(i + 1) \subseteq Ahead(i)' \cup {h}
  <2>1. ASSUME NEW j \in 1..((i + 1) - 1)
        PROVE  outbound[j] \in Ahead(i)' \cup {h}
    <3>1. CASE j = 1
      BY <1>2, <3>1
    <3>2. CASE j # 1
      <4>1. j - 1 \in 1..(i - 1) /\ (j - 1) + 1 = j
        BY <1>3, <2>1, <3>2
      <4>2. DOMAIN outbound' = 1..Len(outbound')
        BY <1>1, HeadTailProperties DEF WriteOne
      <4>3. j - 1 \in DOMAIN outbound'
        BY <1>3, <4>1, <4>2
      <4>4. outbound'[j - 1] = outbound[j]
        BY <1>3, <4>1, <4>3
      <4> QED
        BY <4>1, <4>4 DEF Ahead
    <3> QED
      BY <3>1, <3>2
  <2> QED
    BY <2>1 DEF Ahead
<1>6. /\ \/ h \in Flushes /\ written' = written
         \/ h \notin Flushes /\ written' = written \cup {h}
      /\ \/ h \notin Flushes /\ flush' = flush
         \/ h \in Flushes /\ flush' = [flush EXCEPT ![h] =
                                  IF @ = "waiting" THEN "done" ELSE @]
      /\ UNCHANGED <<before, closed>>
  BY <1>2 DEF WriteOne
<1>7. /\ \A f \in Flushes : f # h => flush'[f] = flush[f]
      /\ h \in Flushes =>
           flush'[h] = IF flush[h] = "waiting" THEN "done" ELSE flush[h]
  BY <1>6 DEF FlushInv, CallsInv, TypeOK
<1>8. \A f \in Flushes : before[f] \cap Flushes = {}
  BY CallsAssumption DEF FlushInv, CallsInv, TypeOK
<1>9. h \in Flushes /\ flush[h] = "waiting" /\ ~closed =>
        before[h] \subseteq written
  <2>1. Ahead(1) = {}
    BY DEF Ahead
  <2> QED
    BY <1>2, <1>3, <2>1 DEF FlushInv, Tokens
<1>10. ~closed
  BY DEF FlushInv, CallsInv, ReaderInv, WriteOne
<1>11. ASSUME NEW f \in Flushes
       PROVE  /\ f \in Queued' => flush'[f] \in {"waiting", "done", "failed"}
              /\ flush'[f] = "done" => before'[f] \subseteq written'
              /\ ~closed' /\ flush'[f] = "waiting" =>
                   \A i \in DOMAIN outbound' :
                     outbound'[i] = f =>
                       before'[f] \subseteq written' \cup Ahead(i)'
  <2>1. f \in Queued => flush[f] \in {"waiting", "done", "failed"}
    BY DEF FlushInv, Tokens
  <2>2. flush[f] = "done" => before[f] \subseteq written
    BY DEF FlushInv, Tokens
  <2>3. f \in Queued' => flush'[f] \in {"waiting", "done", "failed"}
    BY <1>4, <1>7, <2>1
  <2>4. flush'[f] = "done" => before'[f] \subseteq written'
    BY <1>6, <1>7, <1>9, <1>10, <2>2
  <2>5. ASSUME flush'[f] = "waiting", NEW i \in DOMAIN outbound', outbound'[i] = f
        PROVE  before'[f] \subseteq written' \cup Ahead(i)'
    <3>1. flush[f] = "waiting" /\ f # h
      BY <1>7, <2>5
    <3>2. before[f] \subseteq written \cup Ahead(i + 1)
      BY <1>3, <1>10, <2>5, <3>1 DEF FlushInv, Tokens
    <3>3. before[f] \subseteq written \cup Ahead(i)' \cup {h}
      BY <1>5, <2>5, <3>2
    <3> QED
      BY <1>6, <1>8, <3>3
  <2> QED
    BY <2>3, <2>4, <2>5
<1> QED
  BY <1>11 DEF Tokens

LEMMA EndTokens ==
  ASSUME FlushInv,
         \/ WriteFails \/ Stop
         \/ \E f \in Flushes : CheckFlush(f) \/ FlushTimeout(f)
  PROVE  Tokens'
<1>1. CASE WriteFails
  <2>1. outbound \in Seq(Items) /\ outbound # <<>>
    BY <1>1 DEF FlushInv, CallsInv, TypeOK, WriteFails
  <2>2. Queued' \subseteq Queued
    BY <1>1, <2>1, QueueShrinks DEF WriteFails, Queued
  <2>3. /\ closed' /\ written \subseteq written' /\ UNCHANGED <<flush, before>>
    BY <1>1 DEF WriteFails, senders
  <2> QED
    BY <2>2, <2>3 DEF FlushInv, Tokens
<1>2. CASE Stop
  <2>1. Queued' = {} /\ closed'
    BY <1>2, EmptyQueue DEF Stop, Queued
  <2>2. /\ \A f \in Flushes : flush'[f] = "done" => flush[f] = "done"
        /\ UNCHANGED <<written, before>>
    BY <1>2 DEF Stop
  <2> QED
    BY <2>1, <2>2 DEF FlushInv, Tokens
<1>3. ASSUME NEW f \in Flushes, CheckFlush(f) \/ FlushTimeout(f)
      PROVE  Tokens'
  <2>1. /\ flush[f] \in {"idle", "waiting"}
        /\ \/ flush' = [flush EXCEPT ![f] = "failed"]
           \/ flush[f] = "idle" /\ flush' = [flush EXCEPT ![f] = "checked"]
        /\ UNCHANGED <<outbound, written, before, closed>>
    BY <1>3 DEF CheckFlush, FlushTimeout, FlushGoes
  <2>2. /\ \A g \in Flushes \ {f} : flush'[g] = flush[g]
        /\ flush'[f] \in {"failed", "checked"}
        /\ flush'[f] = "checked" => f \notin Queued
    BY <2>1 DEF FlushInv, CallsInv, TypeOK, Tokens
  <2> QED
    BY <2>1, <2>2 DEF FlushInv, Tokens, Queued, Ahead
<1> QED
  BY <1>1, <1>2, <1>3

LEMMA FlushInvKept ==
  ASSUME FlushInv, [Next]_vars
  PROVE  FlushInv'
<1>1. CallsInv'
  BY CallsInvKept DEF FlushInv
<1>2. Tokens'
  <2>1. ASSUME NEW c \in Calls, Send(c)
        PROVE  Tokens'
    BY <2>1, QuietTokens, MessageTokens DEF FlushInv, Send, senders
  <2>2. ASSUME NEW d \in Casts, Cast(d)
        PROVE  Tokens'
    BY <2>2, QuietTokens, MessageTokens DEF FlushInv, Cast
  <2>3. ASSUME NEW c \in Calls,
               \/ Expired(c) \/ Enlist(c) \/ Check(c) \/ Receive(c)
               \/ Timeout(c) \/ Delist(c)
               \/ \E value \in {"ok", "error"} : ReadAnswer(c, value)
        PROVE  Tokens'
    BY <2>3, QuietTokens DEF FlushInv, Expired, Enlist, Check, Receive, Timeout,
       Delist, ReadAnswer, senders
  <2>4. CASE \/ Turn \/ Drained \/ ReadOther \/ AdvanceBarrier \/ Reply \/ Fails
             \/ DrainPending \/ UNCHANGED vars
    BY <2>4, QuietTokens DEF FlushInv, Turn, Drained, ReadOther, AdvanceBarrier,
       Reply, Fails, Close, DrainPending, vars, senders
  <2> QED
    BY <2>1, <2>2, <2>3, <2>4, NewToken, WriteTokens, EndTokens
       DEF Next, CallerStep, ReaderStep
<1> QED
  BY <1>1, <1>2 DEF FlushInv

(* A flush that succeeded has put on the socket what was queued before it  *)
(* (flush_outbound, drain_outbound).                                       *)
THEOREM FlushesAreWritten == Spec => []FlushedIsWritten
<1>1. Init => FlushInv
  <2> SUFFICES ASSUME Init
               PROVE  FlushInv
    OBVIOUS
  <2>1. Tokens
    BY EmptyQueue DEF Init, Tokens, Queued
  <2> QED
    BY <2>1, CallsInvStarts DEF FlushInv
<1>2. FlushInv /\ [Next]_vars => FlushInv'
  BY FlushInvKept
<1>3. FlushInv => FlushedIsWritten
  BY DEF FlushInv, Tokens, FlushedIsWritten
<1> QED
  BY <1>1, <1>2, <1>3, PTL DEF Spec

-----------------------------------------------------------------------------
(* Pages.  The document the reader of the surface knows: the one of the    *)
(* last navigation it has read.  Chrome may already be at a later one.     *)
PageDoc == epoch.page.doc

(* No pixels of an earlier document than this one are taken for the        *)
(* document the reader knows: its own, unless the reader was misled.       *)
Floor == IF epoch.misled THEN 0 ELSE PageDoc

Pages == [doc : Nat, view : Nat]
Frames == [page : Pages, at : Nat]
Stamps == [epoch : Nat, frame : Frames]

TokenFields ==
  {"expected", "ptr", "latest", "gen", "pendFrame", "pendNav", "deadline",
   "pendSame", "acceptedNav", "retained"}
SurfaceFields ==
  {"status", "kind", "latest", "ptr", "gen", "accepted", "acceptedNav",
   "handledNav", "handledSame", "pendFrame", "pendNav", "pendDoc", "pendSame",
   "deadline", "recovery", "retained", "rollback", "rollbackFresh", "held",
   "heldFresh", "silences", "reported", "failures"}

(* A token that is taken back later brings a stamped frame back, and       *)
(* either no pointer or that of its own frame.                             *)
SoundToken(t) ==
  /\ t = [f \in TokenFields |-> t[f]]
  /\ t.retained \in Stamps /\ t.ptr \in {None, t.latest}

(* A surface is a record, whose pointer, if any, is to the frame it shows. *)
Shaped(s) == s = [f \in SurfaceFields |-> s[f]]

Body(s) ==
  /\ Shaped(s)
  /\ s.latest \in Frames /\ s.retained \in Stamps
  /\ s.accepted \in Nat \ {0} /\ s.acceptedNav \in Nat
  /\ SoundToken(s.held) /\ SoundToken(s.rollback)

Sound(s) == Body(s) /\ s.ptr \in {None, s.latest.at}

(* The frames a surface may come to show without a new one from Chrome.    *)
Stock(s) == {s.retained, s.held.retained, s.rollback.retained}

(* A surface that shows a frame from then on, and retains no other one.    *)
Becomes(s, r, nav, at, frame) ==
  /\ Sound(r)
  /\ r.acceptedNav = nav /\ r.accepted = at /\ r.latest = frame
  /\ Stock(r) \subseteq Stock(s) \cup {NoRetained}

Keeps(s, r) == Becomes(s, r, s.acceptedNav, s.accepted, s.latest)

LEMMA Unread ==
  /\ SoundToken(NoToken) /\ NoRetained \in Stamps /\ NoFrame \in Frames
  /\ NoToken.retained = NoRetained
BY DEF SoundToken, NoToken, TokenFields, NoRetained, Stamps, Frames, Pages,
       NoFrame, Nothing, None

LEMMA KeepsOn ==
  ASSUME NEW s, NEW q, NEW r, Keeps(s, q), Keeps(q, r)
  PROVE  Keeps(s, r)
BY DEF Keeps, Becomes

LEMMA KeepsItself == ASSUME NEW s, Sound(s) PROVE Keeps(s, s)
BY DEF Keeps, Becomes

(* A step that leaves what matters here alone.                             *)
Same(s, r) ==
  /\ Shaped(r) /\ r.latest = s.latest /\ r.ptr = s.ptr
  /\ r.accepted = s.accepted /\ r.acceptedNav = s.acceptedNav
  /\ r.retained = s.retained /\ r.held = s.held /\ r.rollback = s.rollback

LEMMA SameKeeps ==
  ASSUME NEW s, Sound(s), NEW r, Same(s, r)
  PROVE  Keeps(s, r)
BY DEF Keeps, Becomes, Sound, Body, Same, Stock

LEMMA SetPointerKeeps ==
  ASSUME NEW s, Body(s), NEW ptr \in {None, s.latest.at}
  PROVE  Keeps(s, SetPointer(s, ptr))
<1> DEFINE r == SetPointer(s, ptr)
<1>1. Shaped(r)
  BY DEF Body, Shaped, SetPointer
<1>2. /\ r.latest = s.latest /\ r.accepted = s.accepted
      /\ r.acceptedNav = s.acceptedNav /\ r.ptr = ptr
      /\ r.retained = s.retained /\ r.held = s.held
      /\ r.rollback = s.rollback
  BY DEF Body, Shaped, SetPointer, SurfaceFields
<1> HIDE DEF r
<1>3. Keeps(s, r)
  BY <1>1, <1>2 DEF Keeps, Becomes, Sound, Body, Stock
<1> QED BY <1>3 DEF r

LEMMA InvalidateKeeps ==
  ASSUME NEW s, Body(s), NEW revoke
  PROVE  Keeps(s, Invalidate(s, revoke))
<1>1. Keeps(s, SetPointer(s, None))
  BY SetPointerKeeps
<1>2. PICK p : p = SetPointer(s, None)
  OBVIOUS
<1>3. PICK gen : gen = IF revoke THEN p.gen + 1 ELSE p.gen
  OBVIOUS
<1>4. Same(p, [p EXCEPT !.gen = gen])
  BY <1>1, <1>2 DEF Same, Keeps, Becomes, Sound, Body, Shaped, SurfaceFields
<1>5. [p EXCEPT !.gen = IF revoke THEN @ + 1 ELSE @] = [p EXCEPT !.gen = gen]
  BY <1>3
<1>6. Sound(p)
  BY <1>1, <1>2 DEF Keeps, Becomes
<1>7. Keeps(p, [p EXCEPT !.gen = gen])
  BY <1>4, <1>6, SameKeeps
<1>8. Keeps(s, [p EXCEPT !.gen = gen])
  BY <1>1, <1>2, <1>7, KeepsOn
<1> QED BY <1>2, <1>5, <1>8 DEF Invalidate

LEMMA SettledKeeps ==
  ASSUME NEW s, Sound(s)
  PROVE  Keeps(s, Settled(s)) /\ Settled(s).latest = s.latest
<1> DEFINE r == Settled(s)
<1>1. Shaped(r)
  BY DEF Sound, Body, Shaped, Settled
<1>2. /\ r.latest = s.latest /\ r.accepted = s.accepted /\ r.held = s.held
      /\ r.acceptedNav = s.acceptedNav /\ r.ptr = s.ptr
  BY DEF Sound, Body, Shaped, Settled, SurfaceFields
<1>3. r.retained = NoRetained
  BY DEF Sound, Body, Shaped, Settled, SurfaceFields
<1>4. r.rollback = NoToken
  BY DEF Sound, Body, Shaped, Settled, SurfaceFields
<1> HIDE DEF r
<1>6. Keeps(s, r)
  BY <1>1, <1>2, <1>3, <1>4, Unread DEF Keeps, Becomes, Sound, Body, Stock
<1> QED BY <1>2, <1>6 DEF r

LEMMA TokenSound ==
  ASSUME NEW s, Sound(s), NEW expected
  PROVE  /\ SoundToken(Token(s, expected))
         /\ Token(s, expected).retained = s.retained
BY DEF SoundToken, Sound, Body, Token, TokenFields

LEMMA InstallKeeps ==
  ASSUME NEW s, Sound(s), NEW targeted, NEW token, SoundToken(token),
         NEW t, Sound(t), Keeps(t, s),
         token.retained \in Stock(t) \cup {NoRetained}
  PROVE  Keeps(t, Install(s, targeted, token))
<1> DEFINE r == Install(s, targeted, token)
<1>1. Shaped(r)
  BY DEF Sound, Body, Shaped, Install
<1>2. /\ r.latest = s.latest /\ r.accepted = s.accepted
      /\ r.acceptedNav = s.acceptedNav /\ r.ptr = s.ptr
  BY DEF Sound, Body, Shaped, Install, SurfaceFields
<1>3. r.retained = NoRetained
  BY DEF Sound, Body, Shaped, Install, SurfaceFields
<1>4. r.rollback = token /\ r.held = token
  BY DEF Sound, Body, Shaped, Install, SurfaceFields
<1> HIDE DEF r
<1>5. Keeps(t, r)
  BY <1>1, <1>2, <1>3, <1>4, Unread DEF Keeps, Becomes, Sound, Body, Stock
<1> QED BY <1>5 DEF r

LEMMA ReserveKeeps ==
  ASSUME NEW s, Sound(s), NEW targeted
  PROVE  Keeps(s, Reserve(s, targeted))
<1>1. PICK p : p = Invalidate(s, ~targeted)
  OBVIOUS
<1>2. Keeps(s, p)
  BY <1>1, InvalidateKeeps DEF Sound
<1>3. PICK t : t = Token(s, epoch.current + 1)
  OBVIOUS
<1>4. SoundToken(t) /\ t.retained = s.retained
  BY <1>3, TokenSound
<1>5. Sound(p)
  BY <1>2 DEF Keeps, Becomes
<1>6. Keeps(s, Install(p, targeted, t))
  BY <1>2, <1>4, <1>5, InstallKeeps DEF Stock
<1> QED BY <1>1, <1>3, <1>6 DEF Reserve

LEMMA MarkFailedKeeps ==
  ASSUME NEW s, Sound(s), NEW kind
  PROVE  Keeps(s, MarkFailed(s, kind))
<1>1. PICK p : p = [s EXCEPT !.status = "failed", !.kind = kind]
  OBVIOUS
<1>2. Same(s, p)
  BY <1>1 DEF Same, Sound, Body, Shaped, SurfaceFields
<1>3. Keeps(s, p)
  BY <1>2, SameKeeps
<1>4. PICK q : q = Invalidate(p, FALSE)
  OBVIOUS
<1>5. Keeps(p, q)
  BY <1>3, <1>4, InvalidateKeeps DEF Keeps, Becomes, Sound
<1>6. Keeps(q, Settled(q))
  BY <1>5, SettledKeeps DEF Keeps, Becomes
<1>7. Keeps(s, Settled(q))
  BY <1>3, <1>5, <1>6, KeepsOn
<1> QED BY <1>1, <1>4, <1>7 DEF MarkFailed

LEMMA MarkAuthorityFailedKeeps ==
  ASSUME NEW s, Sound(s), NEW kind
  PROVE  Keeps(s, MarkAuthorityFailed(s, kind))
<1>1. PICK p : p = [s EXCEPT !.status = "failed", !.kind = kind]
  OBVIOUS
<1>2. Same(s, p)
  BY <1>1 DEF Same, Sound, Body, Shaped, SurfaceFields
<1>3. Keeps(s, p)
  BY <1>2, SameKeeps
<1>4. PICK q : q = Invalidate(p, FALSE)
  OBVIOUS
<1>5. Keeps(p, q)
  BY <1>3, <1>4, InvalidateKeeps DEF Keeps, Becomes, Sound
<1>6. PICK r : r = [q EXCEPT !.deadline = FALSE, !.recovery = TRUE]
  OBVIOUS
<1>7. Same(q, r)
  BY <1>5, <1>6 DEF Keeps, Becomes, Same, Sound, Body, Shaped, SurfaceFields
<1>8. Keeps(q, r)
  BY <1>5, <1>7, SameKeeps DEF Keeps, Becomes
<1>9. Keeps(s, r)
  BY <1>3, <1>5, <1>8, KeepsOn
<1> QED BY <1>1, <1>4, <1>6, <1>9 DEF MarkAuthorityFailed

LEMMA ClearErrorKeeps ==
  ASSUME NEW s, Sound(s)
  PROVE  Keeps(s, ClearError(s))
<1>1. PICK p : p = [s EXCEPT !.status = "live", !.kind = "none", !.failures = 0]
  OBVIOUS
<1>2. Same(s, p)
  BY <1>1 DEF Same, Sound, Body, Shaped, SurfaceFields
<1>3. Keeps(s, p)
  BY <1>2, SameKeeps
<1> QED BY <1>1, <1>3, KeepsItself DEF ClearError

LEMMA FailAuthorityKeeps ==
  ASSUME NEW s, Sound(s), NEW cmd
  PROVE  Keeps(s, FailAuthority(s, cmd))
BY MarkFailedKeeps, KeepsItself DEF FailAuthority

LEMMA ReportKeeps ==
  ASSUME NEW s, Sound(s),
         NEW result, result \in {"ok", "error", "timeout", "settled"}
  PROVE  Keeps(s, Report(s, result))
<1>1. PICK p : p = [s EXCEPT !.silences = 2, !.reported = TRUE]
  OBVIOUS
<1>2. Same(s, p)
  BY <1>1 DEF Same, Sound, Body, Shaped, SurfaceFields
<1>3. Keeps(s, p)
  BY <1>2, SameKeeps
<1>4. Keeps(p, MarkFailed(p, "silent"))
  BY <1>3, MarkFailedKeeps DEF Keeps, Becomes
<1>5. Keeps(s, MarkFailed(p, "silent"))
  BY <1>3, <1>4, KeepsOn
<1>6. \A n : Keeps(s, [s EXCEPT !.silences = n])
  <2> TAKE n
  <2>1. PICK q : q = [s EXCEPT !.silences = n]
    OBVIOUS
  <2>2. Same(s, q)
    BY <2>1 DEF Same, Sound, Body, Shaped, SurfaceFields
  <2> QED BY <2>1, <2>2, SameKeeps
<1>7. PICK m : m = IF s.silences < 2 THEN s.silences + 1 ELSE s.silences
  OBVIOUS
<1>8. Keeps(s, [s EXCEPT !.silences = IF @ < 2 THEN @ + 1 ELSE @])
  BY <1>6, <1>7
<1>9. CASE result = "settled"
  BY <1>9, KeepsItself DEF Report
<1>10. CASE result \in {"ok", "error"}
  BY <1>6, <1>10 DEF Report
<1>11. CASE result = "timeout"
  BY <1>1, <1>5, <1>8, <1>11 DEF Report
<1> QED BY <1>9, <1>10, <1>11

LEMMA FailResizeKeeps ==
  ASSUME NEW s, Sound(s)
  PROVE  Keeps(s, FailResize(s))
<1>1. PICK p : p = [s EXCEPT !.failures = @ + 1]
  OBVIOUS
<1>2. Same(s, p)
  BY <1>1 DEF Same, Sound, Body, Shaped, SurfaceFields
<1>3. Keeps(s, p)
  BY <1>2, SameKeeps
<1>4. Keeps(s, MarkFailed(p, "resize"))
  BY <1>3, MarkFailedKeeps, KeepsOn DEF Keeps, Becomes
<1> QED BY <1>1, <1>3, <1>4 DEF FailResize

LEMMA ObserveNavigationKeeps ==
  ASSUME NEW s, Sound(s), NEW at
  PROVE  Keeps(s, ObserveNavigation(s, at))
<1>1. PICK known :
        known = IF epoch.same < at THEN [s EXCEPT !.handledSame = epoch.same]
               ELSE s
  OBVIOUS
<1>2. Keeps(s, known)
  <2>1. PICK q : q = [s EXCEPT !.handledSame = epoch.same]
    OBVIOUS
  <2>2. Same(s, q)
    BY <2>1 DEF Same, Sound, Body, Shaped, SurfaceFields
  <2> QED BY <1>1, <2>1, <2>2, SameKeeps, KeepsItself
<1>3. Sound(known)
  BY <1>2 DEF Keeps, Becomes
<1>4. PICK claimed :
        claimed = [known EXCEPT !.handledNav = at, !.pendDoc = at, !.deadline = TRUE]
  OBVIOUS
<1>5. Keeps(s, claimed)
  <2>1. Same(known, claimed)
    BY <1>3, <1>4 DEF Same, Sound, Body, Shaped, SurfaceFields
  <2> QED BY <1>2, <1>3, <2>1, SameKeeps, KeepsOn
<1>6. PICK barred :
        barred = [known EXCEPT !.recovery = @ /\ s.pendNav # None,
                   !.handledNav = at, !.pendNav = None, !.pendSame = FALSE,
                   !.rollback = NoToken]
  OBVIOUS
<1>7. Keeps(s, barred) /\ Body(barred)
  <2>1. Shaped(barred)
    BY <1>3, <1>6 DEF Sound, Body, Shaped
  <2>2. /\ barred.latest = known.latest /\ barred.accepted = known.accepted
        /\ barred.acceptedNav = known.acceptedNav /\ barred.ptr = known.ptr
        /\ barred.retained = known.retained /\ barred.held = known.held
        /\ barred.rollback = NoToken
    BY <1>3, <1>6 DEF Sound, Body, Shaped, SurfaceFields
  <2>3. Keeps(known, barred)
    BY <1>3, <2>1, <2>2, Unread DEF Keeps, Becomes, Sound, Body, Stock
  <2> QED BY <1>2, <2>3, KeepsOn DEF Keeps, Becomes, Sound
<1>8. \A revoke, last :
        Keeps(s, [Invalidate(barred, revoke) EXCEPT
               !.pendDoc = at, !.deadline = TRUE, !.retained = NoRetained,
               !.pendFrame = last])
  <2> TAKE revoke, last
  <2>1. PICK q : q = Invalidate(barred, revoke)
    OBVIOUS
  <2>2. Keeps(barred, q)
    BY <1>7, <2>1, InvalidateKeeps
  <2>3. PICK r : r = [q EXCEPT !.pendDoc = at, !.deadline = TRUE,
                     !.retained = NoRetained, !.pendFrame = last]
    OBVIOUS
  <2>4. Shaped(r)
    BY <2>2, <2>3 DEF Keeps, Becomes, Sound, Body, Shaped
  <2>5. /\ r.latest = q.latest /\ r.accepted = q.accepted
        /\ r.acceptedNav = q.acceptedNav /\ r.ptr = q.ptr
        /\ r.retained = NoRetained /\ r.held = q.held
        /\ r.rollback = q.rollback
    BY <2>2, <2>3 DEF Keeps, Becomes, Sound, Body, Shaped, SurfaceFields
  <2>6. Keeps(q, r)
    BY <2>2, <2>4, <2>5, Unread DEF Keeps, Becomes, Sound, Body, Stock
  <2> QED BY <1>7, <2>1, <2>2, <2>3, <2>6, KeepsOn
<1> QED BY <1>1, <1>2, <1>4, <1>5, <1>6, <1>8, KeepsItself DEF ObserveNavigation

LEMMA ObserveSameKeeps ==
  ASSUME NEW s, Sound(s), NEW at
  PROVE  Keeps(s, ObserveSame(s, at))
<1>1. PICK q : q = Invalidate(s, FALSE)
  OBVIOUS
<1>2. Keeps(s, q)
  BY <1>1, InvalidateKeeps DEF Sound
<1>3. PICK r : r = [q EXCEPT
          !.handledSame = at, !.recovery = @ /\ s.pendSame,
          !.pendFrame = Max({s.pendFrame, at}), !.pendNav = None,
          !.pendSame = TRUE, !.deadline = TRUE, !.retained = NoRetained,
          !.rollback = NoToken]
  OBVIOUS
<1>4. Shaped(r)
  BY <1>2, <1>3 DEF Keeps, Becomes, Sound, Body, Shaped
<1>5. /\ r.latest = q.latest /\ r.accepted = q.accepted
      /\ r.acceptedNav = q.acceptedNav /\ r.ptr = q.ptr
      /\ r.held = q.held
  BY <1>2, <1>3 DEF Keeps, Becomes, Sound, Body, Shaped, SurfaceFields
<1>6. r.retained = NoRetained /\ r.rollback = NoToken
  BY <1>2, <1>3 DEF Keeps, Becomes, Sound, Body, Shaped, SurfaceFields
<1>7. Keeps(q, r)
  BY <1>2, <1>4, <1>5, <1>6, Unread DEF Keeps, Becomes, Sound, Body, Stock
<1>8. Keeps(s, r)
  BY <1>2, <1>7, KeepsOn
<1> QED BY <1>1, <1>3, <1>8, KeepsItself DEF ObserveSame

LEMMA SupersedeKeeps ==
  ASSUME NEW s, Sound(s), NEW targeted
  PROVE  Keeps(s, Supersede(s, targeted))
<1>1. PICK p : p = Settled(s)
  OBVIOUS
<1>2. Keeps(s, p)
  BY <1>1, SettledKeeps
<1>3. Sound(p) /\ p.latest = s.latest
  BY <1>2 DEF Keeps, Becomes
<1>4. Keeps(s, Reserve(p, targeted))
  BY <1>2, <1>3, ReserveKeeps, KeepsOn
<1>5. Keeps(s, Reserve(SetPointer(p, s.latest.at), targeted))
  <2>1. PICK q : q = SetPointer(p, s.latest.at)
    OBVIOUS
  <2>2. Keeps(p, q)
    BY <1>3, <2>1, SetPointerKeeps DEF Sound
  <2>3. Keeps(q, Reserve(q, targeted))
    BY <2>2, ReserveKeeps DEF Keeps, Becomes
  <2> QED BY <1>2, <2>1, <2>2, <2>3, KeepsOn
<1>6. Keeps(s, Install(p, targeted,
                       [s.rollback EXCEPT !.expected = epoch.current + 1]))
  <2>1. PICK t : t = [s.rollback EXCEPT !.expected = epoch.current + 1]
    OBVIOUS
  <2>2. SoundToken(t) /\ t.retained = s.rollback.retained
    BY <2>1 DEF SoundToken, Sound, Body, TokenFields
  <2>3. t.retained \in Stock(s) \cup {NoRetained}
    BY <2>2 DEF Stock
  <2>4. Keeps(s, Install(p, targeted, t))
    BY <1>2, <1>3, <2>2, <2>3, InstallKeeps
  <2> QED BY <2>1, <2>4
<1> QED BY <1>1, <1>4, <1>5, <1>6 DEF Supersede

LEMMA BeginResizeKeeps ==
  ASSUME NEW s, Sound(s)
  PROVE  Keeps(s, BeginResize(s))
<1>1. PICK t : t = Token(s, epoch.current + 1)
  OBVIOUS
<1>2. SoundToken(t) /\ t.retained = s.retained
  BY <1>1, TokenSound
<1>3. PICK q : q = Invalidate(s, FALSE)
  OBVIOUS
<1>4. Keeps(s, q)
  BY <1>3, InvalidateKeeps DEF Sound
<1>5. PICK r : r = [q EXCEPT
        !.pendFrame = t.expected, !.retained = NoRetained,
        !.held = t, !.heldFresh = TRUE]
  OBVIOUS
<1>6. Shaped(r)
  BY <1>4, <1>5 DEF Keeps, Becomes, Sound, Body, Shaped
<1>7. /\ r.latest = q.latest /\ r.accepted = q.accepted
      /\ r.acceptedNav = q.acceptedNav /\ r.ptr = q.ptr
      /\ r.rollback = q.rollback /\ r.retained = NoRetained /\ r.held = t
  BY <1>4, <1>5 DEF Keeps, Becomes, Sound, Body, Shaped, SurfaceFields
<1>8. Keeps(s, r)
  BY <1>2, <1>4, <1>6, <1>7, Unread DEF Keeps, Becomes, Sound, Body, Stock
<1> QED BY <1>1, <1>3, <1>5, <1>8 DEF BeginResize

LEMMA PutBackKeeps ==
  ASSUME NEW s, Sound(s), NEW owns, s.latest.at = s.held.latest
  PROVE  Keeps(s, PutBack(s, owns))
<1>1. PICK t : t = s.held
  OBVIOUS
<1>2. PICK q : q = SetPointer(s, t.ptr)
  OBVIOUS
<1>3. Keeps(s, q)
  BY <1>1, <1>2, SetPointerKeeps DEF Sound, Body, SoundToken
<1>4. PICK last : last = IF owns THEN NoToken ELSE s.rollback
  OBVIOUS
<1>5. PICK r : r = [q EXCEPT
        !.gen = t.gen, !.pendFrame = t.pendFrame, !.pendNav = t.pendNav,
        !.deadline = t.deadline, !.pendSame = t.pendSame, !.recovery = FALSE,
        !.retained = t.retained, !.rollback = last]
  OBVIOUS
<1>6. Shaped(r)
  BY <1>3, <1>5 DEF Keeps, Becomes, Sound, Body, Shaped
<1>7. /\ r.latest = q.latest /\ r.accepted = q.accepted
      /\ r.acceptedNav = q.acceptedNav /\ r.ptr = q.ptr
      /\ r.held = q.held
  BY <1>3, <1>5 DEF Keeps, Becomes, Sound, Body, Shaped, SurfaceFields
<1>8. r.retained = t.retained /\ r.rollback = last
  BY <1>3, <1>5 DEF Keeps, Becomes, Sound, Body, Shaped, SurfaceFields
<1>9. /\ SoundToken(last) /\ last.retained \in Stock(s) \cup {NoRetained}
      /\ t.retained \in Stamps /\ t.retained \in Stock(s)
  BY <1>1, <1>4, Unread DEF Sound, Body, SoundToken, Stock
<1>10. Keeps(s, r)
  BY <1>3, <1>6, <1>7, <1>8, <1>9 DEF Keeps, Becomes, Sound, Body, Stock
<1> QED BY <1>1, <1>2, <1>4, <1>5, <1>10 DEF PutBack

LEMMA RestoreKeeps ==
  ASSUME NEW s, Sound(s), NEW owns
  PROVE  Keeps(s, Restore(s, owns))
<1>1. PICK t : t = s.held
  OBVIOUS
<1>2. PICK reset : reset =
        [s EXCEPT
                  !.pendNav = t.pendNav, !.pendSame = t.pendSame,
                  !.deadline = IF t.pendNav # None THEN t.deadline ELSE @,
                  !.recovery = FALSE, !.rollback = NoToken,
                  !.retained = NoRetained, !.gen = t.gen]
  OBVIOUS
<1>3. Keeps(s, reset)
  <2>1. Shaped(reset)
    BY <1>2 DEF Sound, Body, Shaped
  <2>2. /\ reset.latest = s.latest /\ reset.accepted = s.accepted
        /\ reset.acceptedNav = s.acceptedNav /\ reset.ptr = s.ptr
        /\ reset.held = s.held
    BY <1>2 DEF Sound, Body, Shaped, SurfaceFields
  <2>3. reset.retained = NoRetained /\ reset.rollback = NoToken
    BY <1>2 DEF Sound, Body, Shaped, SurfaceFields
  <2> QED BY <2>1, <2>2, <2>3, Unread DEF Keeps, Becomes, Sound, Body, Stock
<1>4. \A ptr \in {None, s.latest.at} : \A gen, last :
        /\ Keeps(s, [SetPointer(reset, ptr) EXCEPT !.gen = gen, !.pendFrame = last])
        /\ Keeps(s, [SetPointer(reset, ptr) EXCEPT !.pendFrame = last])
  <2> TAKE ptr \in {None, s.latest.at}
  <2> TAKE gen, last
  <2>1. PICK q : q = SetPointer(reset, ptr)
    OBVIOUS
  <2>2. Keeps(s, q) /\ Sound(q)
    BY <1>3, <2>1, SetPointerKeeps, KeepsOn DEF Keeps, Becomes, Sound
  <2>3. /\ Same(q, [q EXCEPT !.gen = gen, !.pendFrame = last])
        /\ Same(q, [q EXCEPT !.pendFrame = last])
    BY <2>2 DEF Same, Sound, Body, Shaped, SurfaceFields
  <2> QED BY <2>1, <2>2, <2>3, SameKeeps, KeepsOn
<1>5. Keeps(s, [s EXCEPT !.rollback = NoToken, !.recovery = FALSE])
  <2>1. PICK r : r = [s EXCEPT !.rollback = NoToken, !.recovery = FALSE]
    OBVIOUS
  <2>2. /\ Shaped(r) /\ r.latest = s.latest /\ r.accepted = s.accepted
        /\ r.acceptedNav = s.acceptedNav /\ r.ptr = s.ptr
        /\ r.held = s.held /\ r.rollback = NoToken /\ r.retained = s.retained
    BY <2>1 DEF Sound, Body, Shaped, SurfaceFields
  <2>3. Keeps(s, r)
    BY <2>2, Unread DEF Keeps, Becomes, Sound, Body, Stock
  <2> QED BY <2>1, <2>3
<1> DEFINE precedes == /\ owns /\ t.acceptedNav < epoch.nav
                       /\ epoch.nav < t.expected /\ s.handledNav >= epoch.nav
           refused == \/ ~s.heldFresh
                      \/ ~MayVerify(s)
                      \/ s.latest.at # t.latest
           last == IF s.pendDoc = None THEN None
                   ELSE Max({epoch.current, s.pendDoc, s.accepted})
           ptr == IF s.status = "live" THEN s.latest.at ELSE None
<1>6. CASE precedes /\ s.acceptedNav = epoch.nav
  <2>1. Restore(s, owns) = [SetPointer(reset, ptr)
               EXCEPT !.gen = t.gen + 1, !.pendFrame = t.pendFrame]
    BY <1>1, <1>2, <1>6 DEF Restore
  <2>2. ptr \in {None, s.latest.at}
    OBVIOUS
  <2>3. PICK gen : gen = t.gen + 1
    OBVIOUS
  <2>4. PICK p : p = ptr
    OBVIOUS
  <2>5. Keeps(s, [SetPointer(reset, p) EXCEPT !.gen = gen,
                                              !.pendFrame = t.pendFrame])
    BY <1>4, <2>2, <2>4
  <2> QED BY <2>1, <2>3, <2>4, <2>5
<1>7. CASE precedes /\ s.acceptedNav # epoch.nav
  <2>1. Restore(s, owns) = [SetPointer(reset, None) EXCEPT !.pendFrame = last]
    BY <1>1, <1>2, <1>7 DEF Restore
  <2> HIDE DEF last
  <2> QED BY <2>1, <1>4
<1>8. CASE ~precedes /\ refused
  <2>1. Restore(s, owns) =
          IF owns THEN [s EXCEPT !.rollback = NoToken, !.recovery = FALSE]
          ELSE s
    BY <1>1, <1>8 DEF Restore
  <2> QED BY <2>1, <1>5, KeepsItself
<1>9. CASE ~precedes /\ ~refused
  <2>1. Restore(s, owns) = PutBack(s, owns)
    BY <1>1, <1>9 DEF Restore
  <2> QED BY <1>1, <1>9, <2>1, PutBackKeeps
<1> QED BY <1>6, <1>7, <1>8, <1>9

LEMMA StoredBecomes ==
  ASSUME NEW s, Sound(s), NEW frame \in Frames
  PROVE  Becomes(s, Stored(s, frame), s.acceptedNav, s.accepted, frame)
<1>1. PICK woken : woken =
        IF s.kind = "silent"
               THEN [s EXCEPT !.status = "live", !.kind = "none",
                              !.reported = FALSE]
               ELSE s
  OBVIOUS
<1>2. Keeps(s, woken)
  <2>1. PICK q : q = [s EXCEPT !.status = "live", !.kind = "none",
                              !.reported = FALSE]
    OBVIOUS
  <2>2. Same(s, q)
    BY <2>1 DEF Same, Sound, Body, Shaped, SurfaceFields
  <2> QED BY <1>1, <2>1, <2>2, SameKeeps, KeepsItself
<1>3. PICK shown : shown = [woken EXCEPT !.latest = frame]
  OBVIOUS
<1>4. Body(shown) /\ shown.latest = frame /\ Becomes(s, woken, shown.acceptedNav,
         shown.accepted, s.latest) /\ Stock(shown) = Stock(woken)
  <2>1. /\ Shaped(shown) /\ shown.latest = frame
        /\ shown.accepted = woken.accepted
        /\ shown.acceptedNav = woken.acceptedNav
        /\ shown.held = woken.held /\ shown.rollback = woken.rollback
        /\ shown.retained = woken.retained
    BY <1>2, <1>3 DEF Keeps, Becomes, Sound, Body, Shaped, SurfaceFields
  <2> QED BY <1>2, <2>1 DEF Keeps, Becomes, Sound, Body, Stock
<1>5. PICK ptr : ptr = IF MayAuthorize(woken) THEN frame.at ELSE None
  OBVIOUS
<1>6. Stored(s, frame) = IF shown.ptr = ptr THEN shown
                         ELSE SetPointer(shown, ptr)
  BY <1>1, <1>3, <1>5 DEF Stored
<1>7. Keeps(shown, SetPointer(shown, ptr))
  BY <1>4, <1>5, SetPointerKeeps
<1>8. shown.ptr = ptr => Keeps(shown, shown)
  BY <1>4, <1>5, KeepsItself DEF Sound
<1>9. Keeps(shown, Stored(s, frame))
  BY <1>6, <1>7, <1>8
<1> QED BY <1>2, <1>4, <1>9 DEF Keeps, Becomes

(* A stamped frame is shown if it is of the accepted epoch, or retained.   *)
LEMMA StoredForEpochBecomes ==
  ASSUME NEW s, Sound(s), NEW frame \in Frames, NEW at \in Nat
  PROVE  LET r == StoredForEpoch(s, frame, at)
             x == [epoch |-> at, frame |-> frame]
         IN /\ Sound(r) /\ r.acceptedNav = s.acceptedNav
            /\ r.accepted = s.accepted
            /\ r.latest = s.latest \/ (r.latest = frame /\ at = s.accepted)
            /\ Stock(r) \subseteq Stock(s) \cup {NoRetained, x}
<1>1. PICK x : x = [epoch |-> at, frame |-> frame]
  OBVIOUS
<1>2. PICK kept : kept = [s EXCEPT !.retained = x]
  OBVIOUS
<1>3. x \in Stamps
  BY <1>1 DEF Stamps
<1>4. /\ Sound(kept) /\ kept.acceptedNav = s.acceptedNav
      /\ kept.accepted = s.accepted /\ kept.latest = s.latest
      /\ Stock(kept) \subseteq Stock(s) \cup {x}
  <2>1. /\ Shaped(kept) /\ kept.latest = s.latest /\ kept.accepted = s.accepted
        /\ kept.acceptedNav = s.acceptedNav /\ kept.ptr = s.ptr
        /\ kept.held = s.held /\ kept.rollback = s.rollback
        /\ kept.retained = x
    BY <1>2 DEF Sound, Body, Shaped, SurfaceFields
  <2> QED BY <1>3, <2>1 DEF Sound, Body, Stock
<1>5. PICK q : q = Stored(s, frame)
  OBVIOUS
<1>6. Becomes(s, q, s.acceptedNav, s.accepted, frame)
  BY <1>5, StoredBecomes
<1>7. StoredForEpoch(s, frame, at) \in {s, kept} \/
      (StoredForEpoch(s, frame, at) = q /\ at = s.accepted)
  BY <1>1, <1>2, <1>5 DEF StoredForEpoch, Retain, Sound, Body
<1> QED BY <1>1, <1>4, <1>6, <1>7 DEF Becomes

LEMMA AcceptEpochBecomes ==
  ASSUME NEW s, Sound(s), NEW at \in Nat
  PROVE  LET r == AcceptEpoch(s, at)
         IN \/ r = s
            \/ Becomes(s, r, s.acceptedNav, at, s.latest)
            \/ /\ s.retained.epoch = at /\ at >= s.accepted
               /\ Becomes(s, r, s.acceptedNav, at, s.retained.frame)
<1>1. PICK open : open = [s EXCEPT !.accepted = at,
                 !.pendFrame = IF at >= s.pendFrame THEN None ELSE s.pendFrame,
                 !.retained = IF s.retained.epoch > at THEN @ ELSE NoRetained]
  OBVIOUS
<1>2. CASE at < s.accepted
  BY <1>2 DEF AcceptEpoch
<1>3. CASE at >= s.accepted
  <2>1. at \in Nat \ {0} /\ ~(at < s.accepted)
    BY <1>3 DEF Sound, Body
  <2>2. PICK kept : kept = IF s.retained.epoch > at THEN s.retained ELSE NoRetained
    OBVIOUS
  <2>3. Shaped(open)
    BY <1>1 DEF Sound, Body, Shaped
  <2>4. /\ open.latest = s.latest /\ open.accepted = at
        /\ open.acceptedNav = s.acceptedNav /\ open.ptr = s.ptr
        /\ open.held = s.held /\ open.rollback = s.rollback
    BY <1>1 DEF Sound, Body, Shaped, SurfaceFields
  <2>5. open.retained = kept
    BY <1>1, <2>2 DEF Sound, Body, Shaped, SurfaceFields
  <2>6. Becomes(s, open, s.acceptedNav, at, s.latest)
    BY <2>1, <2>2, <2>3, <2>4, <2>5, Unread DEF Becomes, Sound, Body, Stock
  <2>7. s.retained.frame \in Frames
    BY DEF Sound, Body, Stamps
  <2>8. Becomes(open, Stored(open, s.retained.frame), s.acceptedNav, at,
                s.retained.frame)
    BY <2>4, <2>6, <2>7, StoredBecomes DEF Becomes
  <2>9. Becomes(s, Stored(open, s.retained.frame), s.acceptedNav, at,
                s.retained.frame)
    BY <2>6, <2>8 DEF Becomes
  <2>10. AcceptEpoch(s, at) = IF s.retained.epoch = at
                              THEN Stored(open, s.retained.frame) ELSE open
    BY <1>1, <2>1 DEF AcceptEpoch
  <2> QED BY <1>3, <2>6, <2>9, <2>10
<1> QED BY <1>2, <1>3 DEF Sound, Body

LEMMA AcceptDocumentBecomes ==
  ASSUME NEW s, Sound(s), NEW nav \in Nat, NEW at \in Nat \ {0},
         NEW frame \in Frames
  PROVE  LET r == AcceptDocument(s, nav, at, frame)
         IN r = s \/ (epoch.nav = nav /\ Becomes(s, r, nav, at, frame))
<1> DEFINE precedes == s.pendNav # None /\ nav < s.pendNav
           idle == \/ s.pendDoc # nav \/ s.handledNav # nav
                   \/ epoch.nav # nav \/ at < nav
<1>1. PICK painted : painted =
        IF precedes THEN [s EXCEPT !.pendDoc = None] ELSE Settled(s)
  OBVIOUS
<1>2. PICK cleared : cleared =
        IF s.recovery /\ ~precedes THEN ClearError(painted) ELSE painted
  OBVIOUS
<1>3. PICK shown : shown = [cleared EXCEPT !.acceptedNav = nav, !.accepted = at]
  OBVIOUS
<1>4. AcceptDocument(s, nav, at, frame) = IF idle THEN s
                                          ELSE Stored(shown, frame)
  BY <1>1, <1>2, <1>3 DEF AcceptDocument
<1>5. Keeps(s, painted)
  <2>1. PICK q : q = [s EXCEPT !.pendDoc = None]
    OBVIOUS
  <2>2. Same(s, q)
    BY <2>1 DEF Same, Sound, Body, Shaped, SurfaceFields
  <2> QED BY <1>1, <2>1, <2>2, SameKeeps, SettledKeeps
<1>6. Keeps(s, cleared)
  <2>1. Keeps(painted, ClearError(painted))
    BY <1>5, ClearErrorKeeps DEF Keeps, Becomes
  <2> QED BY <1>2, <1>5, <2>1, KeepsOn
<1>7. Sound(shown) /\ shown.acceptedNav = nav /\ shown.accepted = at
      /\ Stock(shown) = Stock(cleared)
  <2>1. /\ Shaped(shown) /\ shown.latest = cleared.latest
        /\ shown.accepted = at /\ shown.acceptedNav = nav
        /\ shown.ptr = cleared.ptr
        /\ shown.held = cleared.held /\ shown.rollback = cleared.rollback
        /\ shown.retained = cleared.retained
    BY <1>3, <1>6 DEF Keeps, Becomes, Sound, Body, Shaped, SurfaceFields
  <2> QED BY <1>6, <2>1 DEF Keeps, Becomes, Sound, Body, Stock
<1>8. Becomes(shown, Stored(shown, frame), nav, at, frame)
  BY <1>7, StoredBecomes
<1>9. Becomes(s, Stored(shown, frame), nav, at, frame)
  BY <1>6, <1>7, <1>8 DEF Keeps, Becomes
<1> QED BY <1>4, <1>9

LEMMA AcceptSameBecomes ==
  ASSUME NEW s, Sound(s), NEW at \in Nat \ {0}, NEW frame \in Frames
  PROVE  LET r == AcceptSame(s, at, frame)
         IN \/ r = s
            \/ /\ s.acceptedNav = epoch.nav
               /\ Becomes(s, r, s.acceptedNav, at, frame)
<1>1. PICK cleared : cleared =
        IF s.recovery THEN ClearError(Settled(s)) ELSE Settled(s)
  OBVIOUS
<1>2. PICK shown : shown = [cleared EXCEPT !.accepted = at]
  OBVIOUS
<1>3. Keeps(s, cleared)
  <2>1. Keeps(Settled(s), ClearError(Settled(s)))
    BY SettledKeeps, ClearErrorKeeps DEF Keeps, Becomes
  <2> QED BY <1>1, <2>1, SettledKeeps, KeepsOn
<1>4. Sound(shown) /\ shown.acceptedNav = s.acceptedNav /\ shown.accepted = at
      /\ Stock(shown) = Stock(cleared)
  <2>1. /\ Shaped(shown) /\ shown.latest = cleared.latest
        /\ shown.accepted = at /\ shown.acceptedNav = cleared.acceptedNav
        /\ shown.ptr = cleared.ptr
        /\ shown.held = cleared.held /\ shown.rollback = cleared.rollback
        /\ shown.retained = cleared.retained
    BY <1>2, <1>3 DEF Keeps, Becomes, Sound, Body, Shaped, SurfaceFields
  <2> QED BY <1>3, <2>1 DEF Keeps, Becomes, Sound, Body, Stock
<1>5. Becomes(shown, Stored(shown, frame), s.acceptedNav, at, frame)
  BY <1>4, StoredBecomes
<1>6. Becomes(s, Stored(shown, frame), s.acceptedNav, at, frame)
  BY <1>3, <1>4, <1>5 DEF Keeps, Becomes
<1>7. \/ AcceptSame(s, at, frame) = s
      \/ /\ s.acceptedNav = epoch.nav
         /\ AcceptSame(s, at, frame) =
              Stored([IF s.recovery THEN ClearError(Settled(s)) ELSE Settled(s)
                        EXCEPT !.accepted = at], frame)
  BY DEF AcceptSame
<1> QED BY <1>1, <1>2, <1>6, <1>7

(* The pixels of another size go, and a retained frame may take over.      *)
LEMMA ConfirmBecomes ==
  ASSUME NEW s, Sound(s), NEW at \in Nat
  PROVE  LET r == Confirm(s, at)
         IN \/ Becomes(s, r, s.acceptedNav, s.accepted, NoFrame)
            \/ /\ at >= s.accepted
               /\ \/ Becomes(s, r, s.acceptedNav, at, NoFrame)
                  \/ /\ s.retained.epoch = at
                     /\ Becomes(s, r, s.acceptedNav, at, s.retained.frame)
<1>1. PICK q : q = SetPointer(s, None)
  OBVIOUS
<1>2. Keeps(s, q)
  BY <1>1, SetPointerKeeps DEF Sound
<1>3. PICK sized : sized = [q EXCEPT !.latest = NoFrame, !.failures = 0]
  OBVIOUS
<1>4. q.ptr = None /\ q.retained = s.retained
  BY <1>1 DEF SetPointer, Sound, Body, Shaped, SurfaceFields
<1>5. Becomes(s, sized, s.acceptedNav, s.accepted, NoFrame)
      /\ sized.retained = s.retained
  <2>1. /\ Shaped(sized) /\ sized.latest = NoFrame
        /\ sized.accepted = q.accepted /\ sized.acceptedNav = q.acceptedNav
        /\ sized.ptr = None
        /\ sized.held = q.held /\ sized.rollback = q.rollback
        /\ sized.retained = s.retained
    BY <1>2, <1>3, <1>4 DEF Keeps, Becomes, Sound, Body, Shaped, SurfaceFields
  <2> QED BY <1>2, <1>4, <2>1, Unread DEF Keeps, Becomes, Sound, Body, Stock
<1>6. PICK r : r = AcceptEpoch(sized, at)
  OBVIOUS
<1>7. Sound(sized)
  BY <1>5 DEF Becomes
<1>8. \/ r = sized
      \/ Becomes(sized, r, s.acceptedNav, at, NoFrame)
      \/ /\ s.retained.epoch = at
         /\ Becomes(sized, r, s.acceptedNav, at, s.retained.frame)
  BY <1>5, <1>6, <1>7, AcceptEpochBecomes DEF Becomes
<1>9. Confirm(s, at) = sized \/ (at >= s.accepted /\ Confirm(s, at) = r)
  <2>1. sized.accepted = s.accepted
    BY <1>5 DEF Becomes
  <2>2. Confirm(s, at) = IF at >= s.accepted /\ at >= s.pendFrame
                         THEN r ELSE sized
    BY <1>1, <1>3, <1>6 DEF Confirm
  <2> QED BY <2>2
<1> QED BY <1>5, <1>8, <1>9 DEF Becomes

(***************************************************************************)
(* Queues.                                                                 *)
(***************************************************************************)
LEMMA AppendRange ==
  ASSUME NEW S, NEW q \in Seq(S), NEW e \in S
  PROVE  /\ Append(q, e) \in Seq(S)
         /\ Range(Append(q, e)) = Range(q) \cup {e}
<1>1. /\ Append(q, e) \in Seq(S) /\ Len(Append(q, e)) = Len(q) + 1
      /\ \A i \in 1..Len(q) : Append(q, e)[i] = q[i]
      /\ Append(q, e)[Len(q) + 1] = e
  BY AppendProperties
<1>2. Range(q) = {q[i] : i \in 1..Len(q)} /\ Len(q) \in Nat
  BY RangeEquality, LenProperties
<1> DEFINE r == Append(q, e)
<1> HIDE DEF r
<1>3. Range(r) = {r[i] : i \in 1..Len(q) + 1}
  BY <1>1, RangeEquality DEF r
<1>4. /\ Len(q) + 1 \in 1..Len(q) + 1
      /\ \A i \in 1..Len(q) + 1 : i \in 1..Len(q) \/ i = Len(q) + 1
      /\ \A i \in 1..Len(q) : i \in 1..Len(q) + 1
  BY <1>2
<1>5. r[Len(q) + 1] = e /\ \A i \in 1..Len(q) : r[i] = q[i]
  BY <1>1 DEF r
<1>6. Range(r) \subseteq Range(q) \cup {e}
  BY <1>2, <1>3, <1>4, <1>5
<1>7. Range(q) \cup {e} \subseteq Range(r)
  BY <1>2, <1>3, <1>4, <1>5
<1> QED BY <1>1, <1>6, <1>7 DEF r

LEMMA TailRange ==
  ASSUME NEW S, NEW q \in Seq(S), q # <<>>
  PROVE  /\ Tail(q) \in Seq(S) /\ Head(q) \in S /\ Head(q) \in Range(q)
         /\ Range(Tail(q)) \subseteq Range(q)
<1>1. /\ Tail(q) \in Seq(S) /\ Len(Tail(q)) = Len(q) - 1 /\ Head(q) \in S
      /\ \A i \in 1..Len(Tail(q)) : Tail(q)[i] = q[i + 1]
  BY HeadTailProperties
<1>2. Range(q) = {q[i] : i \in 1..Len(q)} /\ Len(q) \in Nat
  BY RangeEquality, LenProperties
<1>3. Range(Tail(q)) = {Tail(q)[i] : i \in 1..Len(Tail(q))}
  BY <1>1, RangeEquality
<1>4. Head(q) = q[1] /\ Len(q) # 0
  BY EmptySeq, LenProperties
<1>5. \A i \in 1..Len(Tail(q)) : i + 1 \in 1..Len(q)
  BY <1>1, <1>2
<1>6. 1 \in 1..Len(q)
  BY <1>2, <1>4
<1> QED BY <1>1, <1>2, <1>3, <1>4, <1>5, <1>6

LEMMA RemoveAtShifts ==
  ASSUME NEW S, NEW q \in Seq(S), NEW k \in 1..Len(q)
  PROVE  /\ RemoveAt(q, k) \in Seq(S) /\ Len(RemoveAt(q, k)) = Len(q) - 1
         /\ \A i \in 1..Len(q) - 1 :
              RemoveAt(q, k)[i] = IF i < k THEN q[i] ELSE q[i + 1]
<1> DEFINE r == RemoveAt(q, k)
           a == SubSeq(q, 1, k - 1)
           b == SubSeq(q, k + 1, Len(q))
<1>0. Len(q) \in Nat /\ \A i \in 1..Len(q) : q[i] \in S
  BY LenProperties, ElementOfSeq
<1>1. /\ a \in Seq(S) /\ Len(a) = k - 1
      /\ \A i \in 1..k - 1 : a[i] = q[i]
  <2>1. k - 1 \in Int /\ \A i \in 1..k - 1 : q[i] \in S
    BY <1>0
  <2>2. /\ a \in Seq(S) /\ Len(a) = IF 1 <= k - 1 THEN k - 1 - 1 + 1 ELSE 0
        /\ \A i \in 1..k - 1 - 1 + 1 : a[i] = q[1 + i - 1]
    BY <2>1, SubSeqProperties
  <2> QED BY <2>2, <1>0
<1>2. /\ b \in Seq(S) /\ Len(b) = Len(q) - k
      /\ \A i \in 1..Len(q) - k : b[i] = q[i + k]
  <2>1. /\ k + 1 \in Int /\ Len(q) \in Int
        /\ \A i \in k + 1..Len(q) : q[i] \in S
    BY <1>0
  <2>2. /\ b \in Seq(S)
        /\ Len(b) = IF k + 1 <= Len(q) THEN Len(q) - (k + 1) + 1 ELSE 0
        /\ \A i \in 1..Len(q) - (k + 1) + 1 : b[i] = q[k + 1 + i - 1]
    BY <2>1, SubSeqProperties
  <2> QED BY <2>2, <1>0
<1>3. r = a \o b
  BY DEF RemoveAt
<1> HIDE DEF r, a, b
<1>4. /\ r \in Seq(S) /\ Len(r) = Len(a) + Len(b)
      /\ \A i \in 1..Len(a) + Len(b) :
           r[i] = IF i <= Len(a) THEN a[i] ELSE b[i - Len(a)]
  BY <1>1, <1>2, <1>3, ConcatProperties
<1>5. Len(r) = Len(q) - 1
  BY <1>0, <1>1, <1>2, <1>4
<1>6. ASSUME NEW i \in 1..Len(q) - 1
      PROVE  r[i] = IF i < k THEN q[i] ELSE q[i + 1]
  <2>1. CASE i < k
    <3>1. i \in 1..k - 1 /\ i <= Len(a) /\ i \in 1..Len(a) + Len(b)
      BY <1>0, <1>1, <1>2, <2>1
    <3>2. r[i] = a[i]
      BY <1>4, <3>1
    <3> QED BY <1>1, <2>1, <3>1, <3>2
  <2>2. CASE ~(i < k)
    <3>1. i - (k - 1) \in 1..Len(q) - k /\ i - (k - 1) + k = i + 1
      BY <1>0, <1>1, <1>2, <1>4, <1>5, <2>2
    <3>2. r[i] = b[i - (k - 1)]
      BY <1>0, <1>1, <1>2, <1>4, <1>5, <2>2
    <3> QED BY <1>2, <3>1, <3>2, <2>2
  <2> QED BY <2>1, <2>2
<1> QED BY <1>4, <1>5, <1>6 DEF r

LEMMA WithoutRange ==
  ASSUME NEW S, NEW q \in Seq(S), NEW positions \in SUBSET DOMAIN q
  PROVE  /\ Without(q, positions) \in Seq(S)
         /\ Range(Without(q, positions)) \subseteq Range(q)
<1>1. CASE positions = {}
  BY <1>1 DEF Without
<1>2. CASE positions # {}
  <2>1. PICK k : k = CHOOSE i \in positions : TRUE
    OBVIOUS
  <2>2. k \in 1..Len(q)
    <3>1. k \in positions
      BY <1>2, <2>1
    <3>2. k \in DOMAIN q
      BY <3>1
    <3> QED BY <3>2, LenProperties
  <2>3. PICK r : r = RemoveAt(q, k)
    OBVIOUS
  <2>4. /\ r \in Seq(S) /\ Len(r) = Len(q) - 1
        /\ \A i \in 1..Len(q) - 1 : r[i] = IF i < k THEN q[i] ELSE q[i + 1]
    BY <2>2, <2>3, RemoveAtShifts
  <2>5. Range(q) = {q[i] : i \in 1..Len(q)} /\ Len(q) \in Nat
    BY RangeEquality, LenProperties
  <2>6. Range(r) = {r[i] : i \in 1..Len(q) - 1}
    BY <2>4, RangeEquality
  <2>7. \A i \in 1..Len(q) - 1 : i \in 1..Len(q) /\ i + 1 \in 1..Len(q)
    BY <2>5
  <2>8. Range(r) \subseteq Range(q)
    BY <2>4, <2>5, <2>6, <2>7
  <2>9. Without(q, positions) = r
    BY <1>2, <2>1, <2>3 DEF Without
  <2> QED BY <2>4, <2>8, <2>9
<1> QED BY <1>1, <1>2

(***************************************************************************)
(* The socket.                                                             *)
(***************************************************************************)
Heard == {"frame", "navigated", "restored", "within", "paint", "load"}
Results == {"ok", "loads", "within", "refused", "download", "errored"}
AnswerMessages == [kind : {"answer"}, result : Results, page : Pages, at : Nat]
Messages == [kind : Heard, page : Pages, at : Nat] \cup AnswerMessages

(* What the reader will know when it has read the first messages.          *)
Committed == {"navigated", "restored"}

Reached(w, d, n, doc) ==
  doc <= d \/ \E j \in 1..n : w[j].kind \in Committed /\ doc <= w[j].page.doc

Turns == Committed \cup {"within"}

(* Between a navigation and the next one Chrome speaks of that document or *)
(* of an earlier one.                                                      *)
Ordered(w, d, top) ==
  /\ d <= top /\ Reached(w, d, Len(w), top)
  /\ \A i \in 1..Len(w) :
       /\ w[i].page.doc <= top
       /\ w[i].kind \notin Committed => Reached(w, d, i - 1, w[i].page.doc)
       /\ w[i].kind \in Turns =>
            /\ d <= w[i].page.doc
            /\ \A j \in 1..(i - 1) : w[j].kind \in Committed =>
                 w[j].page.doc <= w[i].page.doc

LEMMA MessageFacts ==
  ASSUME NEW w \in Seq(Messages)
  PROVE  /\ Len(w) \in Nat
         /\ \A i \in 1..Len(w) : w[i] \in Messages /\ w[i].page.doc \in Nat
<1>1. Len(w) \in Nat /\ \A i \in 1..Len(w) : w[i] \in Messages
  BY LenProperties, ElementOfSeq
<1> QED BY <1>1 DEF Messages, AnswerMessages, Pages

LEMMA SendOrdered ==
  ASSUME NEW w \in Seq(Messages), NEW d \in Nat, NEW top \in Nat,
         NEW m \in Messages, NEW new \in Nat, Ordered(w, d, top), top <= new,
         m.page.doc <= new, m.kind \in Turns => m.page.doc = new,
         m.kind \notin Committed => new = top
  PROVE  Ordered(Append(w, m), d, new)
<1> DEFINE r == Append(w, m)
           n == Len(w)
<1>1. /\ Len(r) = n + 1 /\ n \in Nat
      /\ \A i \in 1..n : r[i] = w[i]
      /\ r[n + 1] = m
  BY AppendProperties, LenProperties
<1>2. m.page.doc \in Nat /\ \A i \in 1..n : w[i].page.doc \in Nat
  BY MessageFacts DEF Messages, AnswerMessages, Pages
<1> HIDE DEF r, n
<1>3. ASSUME NEW k \in 0..n, NEW doc \in Nat, Reached(w, d, k, doc)
      PROVE  Reached(r, d, k, doc)
  <2>1. \A j \in 1..k : r[j] = w[j]
    BY <1>1
  <2> QED BY <1>3, <2>1 DEF Reached
<1>4. Reached(r, d, n + 1, new)
  <2>1. CASE m.kind \in Committed
    <3>1. n + 1 \in 1..n + 1 /\ new <= r[n + 1].page.doc
      BY <1>1, <1>2, <2>1 DEF Turns
    <3> QED BY <1>1, <2>1, <3>1 DEF Reached
  <2>2. CASE m.kind \notin Committed
    <3>1. Reached(r, d, n, new)
      BY <1>1, <1>3, <2>2 DEF Ordered, n
    <3>2. \A j \in 1..n : j \in 1..n + 1
      BY <1>1
    <3> QED BY <3>1, <3>2 DEF Reached
  <2> QED BY <2>1, <2>2
<1>5. ASSUME NEW i \in 1..n + 1
      PROVE  /\ r[i].page.doc <= new
             /\ r[i].kind \notin Committed => Reached(r, d, i - 1, r[i].page.doc)
             /\ r[i].kind \in Turns =>
                  /\ d <= r[i].page.doc
                  /\ \A j \in 1..(i - 1) : r[j].kind \in Committed =>
                       r[j].page.doc <= r[i].page.doc
  <2>1. CASE i = n + 1
    <3>1. i - 1 = n /\ r[i] = m
      BY <1>1, <2>1
    <3>2. m.kind \notin Committed => Reached(r, d, n, m.page.doc)
      <4> SUFFICES ASSUME m.kind \notin Committed PROVE Reached(r, d, n, m.page.doc)
        OBVIOUS
      <4>1. Reached(r, d, n, new)
        BY <1>1, <1>3 DEF Ordered, n
      <4>2. \A j \in 1..n : r[j].page.doc \in Nat
        BY <1>1, <1>2
      <4> QED BY <1>2, <4>1, <4>2 DEF Reached
    <3>3. \A j \in 1..n : r[j].page.doc <= new
      BY <1>1, <1>2 DEF Ordered, n
    <3> QED BY <1>2, <3>1, <3>2, <3>3 DEF Ordered
  <2>2. CASE i \in 1..n
    <3>1. r[i] = w[i] /\ i - 1 \in 0..n /\ \A j \in 1..(i - 1) : r[j] = w[j]
      BY <1>1, <2>2
    <3>2. /\ w[i].page.doc <= top
          /\ w[i].kind \notin Committed => Reached(w, d, i - 1, w[i].page.doc)
          /\ w[i].kind \in Turns =>
               /\ d <= w[i].page.doc
               /\ \A j \in 1..(i - 1) : w[j].kind \in Committed =>
                    w[j].page.doc <= w[i].page.doc
      BY <2>2 DEF Ordered, n
    <3>3. w[i].page.doc <= new
      BY <1>2, <2>2, <3>2
    <3>4. w[i].kind \notin Committed => Reached(r, d, i - 1, w[i].page.doc)
      BY <1>2, <1>3, <2>2, <3>1, <3>2
    <3> QED BY <3>1, <3>2, <3>3, <3>4
  <2> QED BY <1>1, <2>1, <2>2
<1>6. d <= new
  BY DEF Ordered
<1>7. Ordered(r, d, new)
  BY <1>1, <1>4, <1>5, <1>6 DEF Ordered
<1> QED BY <1>7 DEF r

LEMMA ReadOrdered ==
  ASSUME NEW w \in Seq(Messages), NEW d \in Nat, NEW top \in Nat,
         Ordered(w, d, top), w # <<>>
  PROVE  LET m == Head(w)
             next == IF m.kind \in Committed THEN m.page.doc ELSE d
         IN /\ Ordered(Tail(w), next, top)
            /\ m.page.doc <= top
            /\ m.kind \in Turns => d <= m.page.doc
            /\ m.kind \notin Committed => m.page.doc <= d
<1> DEFINE r == Tail(w)
           n == Len(w)
           m == Head(w)
           next == IF m.kind \in Committed THEN m.page.doc ELSE d
<1>1. /\ Len(r) = n - 1 /\ \A i \in 1..n - 1 : r[i] = w[i + 1]
  BY HeadTailProperties
<1>2. n \in Nat \ {0} /\ m = w[1]
  BY LenProperties, EmptySeq
<1>3. \A i \in 1..n : w[i].page.doc \in Nat
  BY MessageFacts
<1> HIDE DEF r, n, m
<1>4. 1 \in 1..n /\ m.page.doc \in Nat /\ next \in Nat
  BY <1>2, <1>3
<1>5. \A i \in 1..n :
        /\ w[i].page.doc <= top
        /\ w[i].kind \notin Committed => Reached(w, d, i - 1, w[i].page.doc)
        /\ w[i].kind \in Turns =>
             /\ d <= w[i].page.doc
             /\ \A j \in 1..(i - 1) : w[j].kind \in Committed =>
                  w[j].page.doc <= w[i].page.doc
  BY DEF Ordered, n
<1>6. m.page.doc <= top /\ (m.kind \in Turns => d <= m.page.doc)
  BY <1>2, <1>4, <1>5
<1>7. m.kind \notin Committed => m.page.doc <= d
  <2>1. m.kind \notin Committed => Reached(w, d, 0, m.page.doc)
    BY <1>2, <1>4, <1>5
  <2> QED BY <2>1 DEF Reached
<1>8. d <= next /\ next <= top
  BY <1>4, <1>6 DEF Turns, Ordered
<1> HIDE DEF next
<1>9. ASSUME NEW k \in 1..n, NEW doc \in Nat, Reached(w, d, k, doc)
      PROVE  Reached(r, next, k - 1, doc)
  <2>1. CASE doc <= d
    BY <1>4, <1>8, <2>1 DEF Reached
  <2>2. CASE ~(doc <= d)
    <3>1. PICK j \in 1..k : w[j].kind \in Committed /\ doc <= w[j].page.doc
      BY <1>9, <2>2 DEF Reached
    <3>2. CASE j = 1
      <4>1. doc <= next
        BY <1>2, <3>1, <3>2 DEF next
      <4> QED BY <4>1 DEF Reached
    <3>3. CASE j # 1
      <4>1. j - 1 \in 1..k - 1 /\ j - 1 \in 1..n - 1 /\ (j - 1) + 1 = j
        BY <1>2, <3>3
      <4>2. r[j - 1] = w[j]
        BY <1>1, <4>1
      <4> QED BY <3>1, <4>1, <4>2 DEF Reached
    <3> QED BY <3>2, <3>3
  <2> QED BY <2>1, <2>2
<1>10. Reached(r, next, n - 1, top)
  BY <1>2, <1>9 DEF Ordered, n
<1>11. ASSUME NEW i \in 1..n - 1
       PROVE  /\ r[i].page.doc <= top
              /\ r[i].kind \notin Committed =>
                   Reached(r, next, i - 1, r[i].page.doc)
              /\ r[i].kind \in Turns =>
                   /\ next <= r[i].page.doc
                   /\ \A j \in 1..(i - 1) : r[j].kind \in Committed =>
                        r[j].page.doc <= r[i].page.doc
  <2>1. i + 1 \in 1..n /\ (i + 1) - 1 = i /\ i \in 1..n
        /\ \A j \in 1..(i - 1) : j \in 1..n - 1 /\ j + 1 \in 1..i
    BY <1>2
  <2>2. r[i] = w[i + 1] /\ \A j \in 1..(i - 1) : r[j] = w[j + 1]
    BY <1>1, <2>1
  <2>3. r[i].kind \notin Committed => Reached(r, next, i - 1, r[i].page.doc)
    BY <1>3, <1>5, <1>9, <2>1, <2>2
  <2>4. r[i].kind \in Turns => next <= r[i].page.doc
    <3>1. 1 \in 1..i
      BY <2>1
    <3> QED BY <1>2, <1>5, <2>1, <2>2, <3>1 DEF next
  <2>5. \A j \in 1..(i - 1) :
          r[i].kind \in Turns /\ r[j].kind \in Committed =>
            r[j].page.doc <= r[i].page.doc
    BY <1>5, <2>1, <2>2
  <2>6. r[i].page.doc <= top
    BY <1>5, <2>1, <2>2
  <2> QED BY <2>3, <2>4, <2>5, <2>6
<1>12. Ordered(r, next, top)
  BY <1>1, <1>8, <1>10, <1>11 DEF Ordered
<1> QED BY <1>6, <1>7, <1>12 DEF r, m, next

LEMMA LoseOrdered ==
  ASSUME NEW w \in Seq(Messages), NEW d \in Nat, NEW top \in Nat,
         Ordered(w, d, top), NEW k \in 1..Len(w), w[k].kind = "answer"
  PROVE  Ordered(RemoveAt(w, k), d, top)
<1> DEFINE r == RemoveAt(w, k)
           n == Len(w)
<1>1. /\ Len(r) = n - 1 /\ n \in Nat
      /\ \A i \in 1..n - 1 : r[i] = IF i < k THEN w[i] ELSE w[i + 1]
  BY RemoveAtShifts, LenProperties
<1>2. \A i \in 1..n : w[i].page.doc \in Nat
  BY MessageFacts
<1>3. \A i \in 1..n :
        /\ w[i].page.doc <= top
        /\ w[i].kind \notin Committed => Reached(w, d, i - 1, w[i].page.doc)
        /\ w[i].kind \in Turns =>
             /\ d <= w[i].page.doc
             /\ \A j \in 1..(i - 1) : w[j].kind \in Committed =>
                  w[j].page.doc <= w[i].page.doc
  BY DEF Ordered, n
<1> HIDE DEF r, n
<1>4. ASSUME NEW m \in 0..n, NEW doc \in Nat, Reached(w, d, m, doc)
      PROVE  Reached(r, d, IF m < k THEN m ELSE m - 1, doc)
  <2>1. CASE doc <= d
    BY <2>1 DEF Reached
  <2>2. CASE ~(doc <= d)
    <3>1. PICK j \in 1..m : w[j].kind \in Committed /\ doc <= w[j].page.doc
      BY <1>4, <2>2 DEF Reached
    <3>2. j # k /\ k \in Nat
      BY <3>1 DEF Committed
    <3>3. CASE j < k
      <4>1. j \in 1..n - 1 /\ j \in 1..(IF m < k THEN m ELSE m - 1)
        BY <1>1, <3>2, <3>3 DEF n
      <4>2. r[j] = w[j]
        BY <1>1, <3>3, <4>1
      <4> QED BY <3>1, <4>1, <4>2 DEF Reached
    <3>4. CASE k < j
      <4>1. j - 1 \in 1..n - 1 /\ ~(j - 1 < k) /\ (j - 1) + 1 = j
            /\ j - 1 \in 1..(IF m < k THEN m ELSE m - 1)
        BY <1>1, <3>2, <3>4 DEF n
      <4>2. r[j - 1] = w[j]
        BY <1>1, <4>1
      <4> QED BY <3>1, <4>1, <4>2 DEF Reached
    <3> QED BY <3>2, <3>3, <3>4
  <2> QED BY <2>1, <2>2
<1>5. Reached(r, d, n - 1, top)
  <2>1. n \in 0..n /\ ~(n < k)
    BY <1>1 DEF n
  <2> QED BY <1>4, <2>1 DEF Ordered, n
<1>6. ASSUME NEW i \in 1..n - 1
      PROVE  /\ r[i].page.doc <= top
             /\ r[i].kind \notin Committed => Reached(r, d, i - 1, r[i].page.doc)
             /\ r[i].kind \in Turns =>
                  /\ d <= r[i].page.doc
                  /\ \A j \in 1..(i - 1) : r[j].kind \in Committed =>
                       r[j].page.doc <= r[i].page.doc
  <2>1. CASE i < k
    <3>1. i \in 1..n /\ i - 1 \in 0..n /\ i - 1 < k
          /\ \A j \in 1..(i - 1) : j \in 1..n - 1 /\ j < k
      BY <1>1, <2>1
    <3>2. r[i] = w[i] /\ \A j \in 1..(i - 1) : r[j] = w[j]
      BY <1>1, <2>1, <3>1
    <3>3. r[i].kind \notin Committed => Reached(r, d, i - 1, r[i].page.doc)
      BY <1>2, <1>3, <1>4, <3>1, <3>2
    <3> QED BY <1>3, <3>1, <3>2, <3>3
  <2>2. CASE ~(i < k)
    <3>1. i + 1 \in 1..n /\ (i + 1) - 1 = i /\ i \in 0..n
          /\ \A j \in 1..(i - 1) : j \in 1..n - 1 /\ j \in 1..i /\ j + 1 \in 1..i
      BY <1>1, <2>2
    <3>2. r[i] = w[i + 1]
      BY <1>1, <2>2
    <3>3. r[i].kind \notin Committed => Reached(r, d, i - 1, r[i].page.doc)
      BY <1>2, <1>3, <1>4, <2>2, <3>1, <3>2
    <3>4. \A j \in 1..(i - 1) : r[j] = w[j] \/ r[j] = w[j + 1]
      BY <1>1, <3>1
    <3>5. \A j \in 1..(i - 1) :
            r[i].kind \in Turns /\ r[j].kind \in Committed =>
              r[j].page.doc <= r[i].page.doc
      BY <1>3, <3>1, <3>2, <3>4
    <3> QED BY <1>3, <3>1, <3>2, <3>3, <3>5
  <2> QED BY <2>1, <2>2
<1>7. Ordered(r, d, top)
  BY <1>1, <1>5, <1>6 DEF Ordered
<1> QED BY <1>7 DEF r

Chromes == [page : Pages, shown : Pages, paints : Nat, clock : Nat,
            frames : Nat, casting : BOOLEAN, encoder : Frames]

(* The frames that Chrome encodes or has sent.                             *)
Flying(c, w) ==
  {f \in {c.encoder} : f # NoFrame} \cup
  {[page |-> m.page, at |-> m.at] : m \in {n \in Range(w) : n.kind = "frame"}}

(* What Chrome has sent of its documents, and what it shows.               *)
Streams(c, w, d) ==
  /\ c \in Chromes /\ w \in Seq(Messages)
  /\ Ordered(w, d, c.page.doc)
  /\ c.page.doc <= c.page.view
  /\ c.shown.doc <= c.page.doc /\ c.encoder.page.doc <= c.page.doc
  /\ \A f \in Flying(c, w) : f.at <= c.clock
  /\ \A m \in Range(w) : m.kind = "paint" => m.page.doc <= c.shown.doc

(* No pixels of an earlier document than the one shown come later.         *)
Flows(c, w, c2, w2) ==
  /\ c.shown.doc <= c2.shown.doc /\ c.clock <= c2.clock
  /\ \A f \in Flying(c2, w2) : f \in Flying(c, w) \/ c.shown.doc <= f.page.doc

LEMMA FlyingFrames ==
  ASSUME NEW c \in Chromes, NEW w \in Seq(Messages)
  PROVE  Flying(c, w) \subseteq Frames
<1>1. Range(w) \subseteq Messages
  BY RangeOfSeq
<1>2. ASSUME NEW m \in Messages PROVE [page |-> m.page, at |-> m.at] \in Frames
  BY DEF Messages, AnswerMessages, Frames
<1> QED BY <1>1, <1>2 DEF Flying, Chromes

LEMMA FlowsOn ==
  ASSUME NEW c \in Chromes, NEW w \in Seq(Messages),
         NEW b \in Chromes, NEW v \in Seq(Messages),
         NEW c2 \in Chromes, NEW w2 \in Seq(Messages),
         Flows(c, w, b, v), Flows(b, v, c2, w2)
  PROVE  Flows(c, w, c2, w2)
<1>1. Flying(c2, w2) \subseteq Frames
  BY FlyingFrames
<1>2. \A f \in Frames : f.page.doc \in Nat
  BY DEF Frames, Pages
<1>3. /\ c.shown.doc \in Nat /\ b.shown.doc \in Nat /\ c2.shown.doc \in Nat
      /\ c.clock \in Nat /\ b.clock \in Nat /\ c2.clock \in Nat
  BY DEF Chromes, Pages
<1> QED BY <1>1, <1>2, <1>3 DEF Flows

(* Chrome sends a message and goes on to c2.                               *)
LEMMA SendStreams ==
  ASSUME NEW d \in Nat, NEW c, NEW w, Streams(c, w, d), NEW c2 \in Chromes,
         NEW m \in Messages,
         c.page.doc <= c2.page.doc, c.shown.doc <= c2.shown.doc,
         c2.shown.doc <= c2.page.doc, c2.page.doc <= c2.page.view,
         c.clock <= c2.clock,
         m.page.doc <= c2.page.doc, m.kind \in Turns => m.page.doc = c2.page.doc,
         m.kind \notin Committed => c2.page.doc = c.page.doc,
         m.kind = "paint" => m.page.doc <= c2.shown.doc,
         m.kind = "frame" => /\ c.encoder # NoFrame
                             /\ m.page = c.encoder.page /\ m.at = c.encoder.at,
         c2.encoder \in {NoFrame, c.encoder}
  PROVE  Streams(c2, Append(w, m), d) /\ Flows(c, w, c2, Append(w, m))
<1>1. /\ Append(w, m) \in Seq(Messages)
      /\ Range(Append(w, m)) = Range(w) \cup {m}
  BY AppendRange DEF Streams
<1>2. /\ c.page.doc \in Nat /\ c2.page.doc \in Nat /\ c.clock \in Nat
      /\ c2.clock \in Nat /\ c.shown.doc \in Nat /\ c2.shown.doc \in Nat
      /\ c.encoder.page.doc \in Nat
  BY DEF Streams, Chromes, Pages, Frames
<1>3. Ordered(Append(w, m), d, c2.page.doc)
  BY <1>2, SendOrdered DEF Streams
<1>4. Flying(c2, Append(w, m)) \subseteq Flying(c, w)
  <2>1. m.kind = "frame" =>
          [page |-> m.page, at |-> m.at] = c.encoder /\ c.encoder # NoFrame
    <3>1. c.encoder \in Frames
      BY DEF Streams, Chromes
    <3> QED BY <3>1 DEF Frames
  <2> QED BY <1>1, <2>1 DEF Flying
<1>5. \A f \in Flying(c, w) : f.at <= c2.clock
  <2>1. \A f \in Flying(c, w) : f.at \in Nat
    BY FlyingFrames DEF Streams, Frames
  <2> QED BY <1>2, <2>1 DEF Streams
<1>6. \A n \in Range(Append(w, m)) : n.kind = "paint" => n.page.doc <= c2.shown.doc
  <2>1. \A n \in Range(w) : n.page.doc \in Nat
    BY RangeOfSeq DEF Streams, Messages, AnswerMessages, Pages
  <2> QED BY <1>1, <1>2, <2>1 DEF Streams
<1>7. c2.encoder.page.doc <= c2.page.doc
  BY <1>2, Unread DEF Streams, NoFrame, Nothing, None
<1> QED BY <1>1, <1>3, <1>4, <1>5, <1>6, <1>7 DEF Streams, Flows

(* The answers on their way.                                               *)
Replying(w) == {i \in 1..Len(w) : w[i].kind = "answer"}

LEMMA SendReplying ==
  ASSUME NEW w \in Seq(Messages), NEW m \in Messages
  PROVE  /\ Replying(Append(w, m)) =
              Replying(w) \cup {i \in {Len(w) + 1} : m.kind = "answer"}
         /\ Len(Append(w, m)) = Len(w) + 1
<1>1. /\ Len(Append(w, m)) = Len(w) + 1
      /\ \A i \in 1..Len(w) : Append(w, m)[i] = w[i]
      /\ Append(w, m)[Len(w) + 1] = m /\ Len(w) \in Nat
  BY AppendProperties, LenProperties
<1> DEFINE r == Append(w, m)
           n == Len(w)
<1> HIDE DEF r, n
<1>2. \A i \in 1..n + 1 : i \in 1..n \/ i = n + 1
  BY <1>1 DEF n
<1>3. \A i \in 1..n : i \in 1..n + 1
  BY <1>1 DEF n
<1>4. n + 1 \in 1..n + 1
  BY <1>1 DEF n
<1>5. /\ Len(r) = n + 1 /\ r[n + 1] = m /\ \A i \in 1..n : r[i] = w[i]
  BY <1>1 DEF r, n
<1>6. \A i : i \in {k \in 1..n + 1 : r[k].kind = "answer"} <=>
              i \in {k \in 1..n : w[k].kind = "answer"}
                    \cup {k \in {n + 1} : m.kind = "answer"}
  BY <1>2, <1>3, <1>4, <1>5
<1> QED BY <1>5, <1>6 DEF Replying, r, n

LEMMA ReadReplying ==
  ASSUME NEW w \in Seq(Messages), w # <<>>
  PROVE  /\ \A i \in Replying(Tail(w)) : i + 1 \in Replying(w) /\ i \in Nat
         /\ Head(w).kind = "answer" => 1 \in Replying(w)
<1>1. /\ Len(Tail(w)) = Len(w) - 1
      /\ \A i \in 1..Len(Tail(w)) : Tail(w)[i] = w[i + 1]
  BY HeadTailProperties
<1>2. Len(w) \in Nat \ {0} /\ Head(w) = w[1]
  BY LenProperties, EmptySeq
<1>3. \A i \in 1..Len(Tail(w)) : i + 1 \in 1..Len(w) /\ i \in Nat
  BY <1>1, <1>2
<1>4. 1 \in 1..Len(w)
  BY <1>2
<1> QED BY <1>1, <1>2, <1>3, <1>4 DEF Replying

(* A call that is given up takes its answer with it.                       *)
LEMMA LoseReplying ==
  ASSUME NEW w \in Seq(Messages), \A i, j \in Replying(w) : i = j
  PROVE  LET r == Without(w, {i \in DOMAIN w : w[i].kind = "answer"})
         IN /\ Replying(r) = {}
            /\ r \in Seq(Messages) /\ Range(r) \subseteq Range(w)
            /\ \A d, top \in Nat : Ordered(w, d, top) => Ordered(r, d, top)
<1> PICK P : P = {i \in DOMAIN w : w[i].kind = "answer"}
  OBVIOUS
<1> PICK r : r = Without(w, P)
  OBVIOUS
<1>1. r \in Seq(Messages) /\ Range(r) \subseteq Range(w)
  <2>1. P \in SUBSET DOMAIN w
    OBVIOUS
  <2> QED BY <2>1, WithoutRange
<1>2. P = Replying(w)
  BY LenProperties DEF Replying
<1>3. CASE P = {}
  BY <1>1, <1>2, <1>3 DEF Without
<1>4. CASE P # {}
  <2>1. PICK k : k = CHOOSE i \in P : TRUE
    OBVIOUS
  <2>2. k \in P
    BY <1>4, <2>1
  <2>3. k \in 1..Len(w) /\ w[k].kind = "answer" /\ \A i \in P : i = k
    BY <1>2, <2>2 DEF Replying
  <2>4. r = RemoveAt(w, k)
    BY <1>4, <2>1 DEF Without
  <2>5. /\ Len(r) = Len(w) - 1 /\ Len(w) \in Nat
        /\ \A i \in 1..Len(w) - 1 : r[i] = IF i < k THEN w[i] ELSE w[i + 1]
    <3>1. Len(w) \in Nat
      BY LenProperties
    <3> QED BY <2>3, <2>4, <3>1, RemoveAtShifts
  <2>6. \A d, top \in Nat : Ordered(w, d, top) => Ordered(r, d, top)
    BY <2>3, <2>4, LoseOrdered
  <2>7. Replying(r) = {}
    <3> SUFFICES ASSUME NEW i \in 1..Len(w) - 1, r[i].kind = "answer"
                 PROVE  FALSE
      BY <2>5 DEF Replying
    <3>1. CASE i < k
      <4>1. i \in Replying(w) /\ i # k
        BY <2>3, <2>5, <3>1 DEF Replying
      <4> QED BY <1>2, <2>3, <4>1
    <3>2. CASE ~(i < k)
      <4>1. i + 1 \in Replying(w) /\ i + 1 # k
        BY <2>3, <2>5, <3>2 DEF Replying
      <4> QED BY <1>2, <2>3, <4>1
    <3> QED BY <3>1, <3>2
  <2> QED BY <1>1, <2>6, <2>7
<1> QED BY <1>3, <1>4

Epochs == [current : Nat \ {0}, nav : Nat, same : Nat, barrier : Nat,
           page : Pages, misled : BOOLEAN]
Events == [kind : Heard, epoch : Nat, doc : Nat, frame : Frames]
Kinds == {"none", "navigate", "reload", "resize", "paint", "same"}
Places ==
  {"idle", "begin", "stopload", "navigate", "snapshot", "try", "stop", "start",
   "shoot", "check"}
Orders == [kind : Kinds, doc : Nat, nav : Nat]
Workers == [at : Places, cmd : Orders, tries : Nat,
            answer : {<<>>} \cup {<<a>> : a \in AnswerMessages},
            seen : [current : Nat, same : Nat], epoch : Nat, shot : Frames]

Stamped ==
  Stock(surf) \cup
  {[epoch |-> e.epoch, frame |-> e.frame] :
     e \in {g \in Range(events) : g.kind = "frame"}}

Commanded == Range(todo) \cup Range(batch) \cup {worker.cmd}

Replies ==
  {m \in Range(wire) : m.kind = "answer"}
    \cup {a \in AnswerMessages : worker.answer = <<a>>}

(* No pixels of a document before d come, of those the barrier lets pass.  *)
Late(barrier, d) ==
  /\ d <= chrome.shown.doc
  /\ \A f \in Flying(chrome, wire) : barrier <= f.at => d <= f.page.doc

(* Nor are any waiting that were stamped with that epoch or a later one.   *)
FreshFrom(at, d) ==
  /\ Late(epoch.barrier, d)
  /\ \A x \in Stamped : at <= x.epoch => d <= x.frame.page.doc

(* What a surface that has accepted the navigation known to the reader     *)
(* shows, and whatever it may come to show, is of that document.           *)
Shows(s) ==
  s.acceptedNav = epoch.nav =>
    /\ FreshFrom(s.accepted, Floor)
    /\ s.latest # NoFrame =>
         Floor <= s.latest.page.doc /\ s.latest.page.doc <= PageDoc

(* The command of a worker is for the document the reader knows.           *)
Aims(w, s) ==
  IF w.cmd.kind = "paint" THEN w.cmd.nav = epoch.nav
  ELSE s.acceptedNav = epoch.nav

Waits == {"stopload", "navigate", "snapshot", "stop", "start", "shoot", "check"}

(* The parts of the invariant: the types of what is compared ...           *)
PageTypes ==
  /\ epoch \in Epochs /\ events \in Seq(Events)
  /\ todo \in Seq(Orders) /\ batch \in Seq(Orders) /\ worker \in Workers
  /\ Sound(surf)
  /\ worker.at \in {"shoot", "check"} => worker.epoch >= 1

(* ... one answer at most, and only while the worker waits for it ...      *)
OneReply ==
  /\ worker.answer # <<>> => worker.at \in Waits
  /\ \A i \in Replying(wire) :
       /\ worker.at \in Waits /\ worker.answer = <<>>
       /\ \A j \in Replying(wire) : i = j

(* ... nothing is stamped or answered for a document the reader has not    *)
(* read of yet ...                                                         *)
Known ==
  /\ surf.acceptedNav <= epoch.nav /\ epoch.nav <= epoch.current
  /\ \A x \in Stamped : x.epoch <= epoch.current /\ x.frame.page.doc <= PageDoc
  /\ worker.shot.page.doc <= PageDoc
  /\ \A a \in AnswerMessages : worker.answer = <<a>> => a.page.doc <= PageDoc

(* ... a paint notice of the present navigation, and the command it        *)
(* becomes, say that Chrome shows its document, or mislead ...             *)
Painted ==
  /\ \A e \in Range(events) : e.kind = "paint" =>
       /\ e.epoch <= epoch.nav
       /\ e.epoch = epoch.nav => Floor <= chrome.shown.doc
  /\ \A c \in Commanded : c.kind = "paint" =>
       /\ c.nav <= epoch.nav
       /\ c.nav = epoch.nav => Floor <= chrome.shown.doc

(* ... and how far a verification has come: the cast is stopped, so that   *)
(* the answer's time is past every frame; it is restarted behind the       *)
(* barrier; from then on only frames of the document get through, and the  *)
(* screenshot is of it.                                                    *)
Verifies ==
  /\ worker.at = "stop" =>
       /\ ~chrome.casting
       /\ Aims(worker, surf) => Floor <= chrome.shown.doc
       /\ \A a \in Replies : a.at = chrome.clock + 1
  /\ worker.at = "start" /\ Aims(worker, surf) =>
       /\ Late(epoch.barrier, Floor)
       /\ worker.answer # <<>> => FreshFrom(epoch.current, Floor)
  /\ worker.at \in {"shoot", "check"} /\ Aims(worker, surf) =>
       FreshFrom(worker.epoch, Floor)
  /\ worker.at = "shoot" /\ Aims(worker, surf) =>
       \A a \in Replies : Floor <= a.page.doc
  /\ worker.at = "check" /\ Aims(worker, surf) =>
       Floor <= worker.shot.page.doc

(* Why a pointer is safe.  PointerShowsDocument alone says nothing of the  *)
(* frames Chrome has sent and the surface has not shown; this does.        *)
PageInv ==
  /\ PageTypes /\ Streams(chrome, wire, PageDoc)
  /\ OneReply /\ Known /\ Painted /\ Verifies /\ Shows(surf)

(***************************************************************************)
(* What a step may do to all that.                                         *)
(***************************************************************************)
StampsOn ==
  \A x \in Stamped' :
    \/ x \in Stamped \/ x = NoRetained
    \/ /\ x.epoch = epoch.current /\ x.frame \in Flying(chrome, wire)
       /\ epoch.barrier <= x.frame.at /\ x.frame.page.doc <= PageDoc

BarrierOn ==
  \/ epoch'.barrier = epoch.barrier
  \/ /\ epoch'.barrier = chrome.clock + 1
     /\ Flying(chrome', wire') \subseteq Flying(chrome, wire)

EpochOn ==
  /\ epoch.current <= epoch'.current
  /\ \/ epoch'.nav = epoch.nav /\ PageDoc' = PageDoc /\ Floor' <= Floor
     \/ /\ epoch'.nav = epoch.current + 1 /\ epoch'.current = epoch.current + 1
        /\ PageDoc <= PageDoc'

PaintsOn ==
  /\ \A e \in Range(events') : e.kind = "paint" =>
       \/ e \in Range(events)
       \/ e.epoch = epoch'.nav /\ Floor' <= chrome'.shown.doc
  /\ \A c \in Commanded' : c.kind = "paint" =>
       \/ c \in Commanded
       \/ \E e \in Range(events) : e.kind = "paint" /\ c.nav = e.epoch

GoesOn ==
  /\ PageTypes' /\ Streams(chrome', wire', PageDoc')
  /\ Flows(chrome, wire, chrome', wire')
  /\ StampsOn /\ BarrierOn /\ EpochOn /\ PaintsOn
  /\ surf'.acceptedNav <= epoch.nav /\ Shows(surf')
  /\ worker'.shot.page.doc <= PageDoc'
  /\ \A a \in AnswerMessages : worker'.answer = <<a>> => a.page.doc <= PageDoc'

LEMMA StampedTypes ==
  ASSUME NEW s, Sound(s), NEW q \in Seq(Events)
  PROVE  /\ Stock(s) \subseteq Stamps
         /\ Range(q) \subseteq Events
         /\ \A e \in Range(q) : [epoch |-> e.epoch, frame |-> e.frame] \in Stamps
<1>1. Stock(s) \subseteq Stamps
  BY DEF Sound, Body, SoundToken, Stock
<1>2. Range(q) \subseteq Events
  BY RangeOfSeq
<1>3. \A e \in Events : [epoch |-> e.epoch, frame |-> e.frame] \in Stamps
  BY DEF Events, Stamps
<1> QED BY <1>1, <1>2, <1>3

(* All the numbers that are compared.                                      *)
Natural ==
  /\ PageDoc \in Nat /\ Floor \in Nat /\ Floor <= PageDoc
  /\ epoch.current \in Nat \ {0} /\ epoch.nav \in Nat
  /\ epoch.barrier \in Nat /\ epoch.page \in Pages
  /\ chrome.clock \in Nat /\ chrome.shown.doc \in Nat
  /\ chrome.page.doc \in Nat
  /\ surf.accepted \in Nat \ {0} /\ surf.acceptedNav \in Nat
  /\ worker.epoch \in Nat /\ worker.cmd.nav \in Nat
  /\ worker.shot \in Frames /\ worker.shot.page.doc \in Nat
  /\ Stamped \subseteq Stamps
  /\ \A x \in Stamped : x.epoch \in Nat /\ x.frame.page.doc \in Nat
  /\ \A f \in Flying(chrome, wire) : f.at \in Nat /\ f.page.doc \in Nat
  /\ \A m \in Range(wire) : m \in Messages /\ m.page.doc \in Nat

LEMMA Numbers ==
  PageTypes /\ Streams(chrome, wire, PageDoc) => Natural
<1> SUFFICES ASSUME PageTypes, Streams(chrome, wire, PageDoc) PROVE Natural
  OBVIOUS
<1>1. /\ PageDoc \in Nat /\ Floor \in Nat /\ Floor <= PageDoc
      /\ epoch.current \in Nat \ {0} /\ epoch.nav \in Nat
      /\ epoch.barrier \in Nat /\ epoch.page \in Pages
  BY DEF PageTypes, Epochs, Pages, PageDoc, Floor
<1>2. /\ chrome.clock \in Nat /\ chrome.shown.doc \in Nat
      /\ chrome.page.doc \in Nat
  BY DEF Streams, Chromes, Pages
<1>3. /\ surf.accepted \in Nat \ {0} /\ surf.acceptedNav \in Nat
  BY DEF PageTypes, Sound, Body
<1>4. /\ worker.epoch \in Nat /\ worker.cmd.nav \in Nat
      /\ worker.shot \in Frames /\ worker.shot.page.doc \in Nat
  BY DEF PageTypes, Workers, Orders, Frames, Pages
<1>5. Stamped \subseteq Stamps
  BY StampedTypes DEF PageTypes, Stamped
<1>6. \A x \in Stamps : x.epoch \in Nat /\ x.frame.page.doc \in Nat
  BY DEF Stamps, Frames, Pages
<1>7. \A f \in Frames : f.at \in Nat /\ f.page.doc \in Nat
  BY DEF Frames, Pages
<1>8. Flying(chrome, wire) \subseteq Frames
  BY FlyingFrames DEF Streams
<1>9. \A m \in Range(wire) : m \in Messages /\ m.page.doc \in Nat
  BY RangeOfSeq DEF Streams, Messages, AnswerMessages, Pages
<1> QED BY <1>1, <1>2, <1>3, <1>4, <1>5, <1>6, <1>7, <1>8, <1>9 DEF Natural

LEMMA LateStays ==
  ASSUME PageInv, GoesOn, NEW d \in Nat
  PROVE  /\ Late(epoch.barrier, d) => Late(epoch.barrier, d)'
         /\ \A at \in Nat \ {0} : FreshFrom(at, d) => FreshFrom(at, d)'
<1>1. PageTypes /\ Streams(chrome, wire, PageDoc)
  BY DEF PageInv
<1>2. Natural /\ Natural'
  <2>1. (PageTypes /\ Streams(chrome, wire, PageDoc))'
    BY DEF GoesOn
  <2> QED BY <1>1, <2>1, Numbers, PTL
<1>3. chrome.shown.doc <= chrome'.shown.doc
  BY DEF GoesOn, Flows
<1>4. ASSUME Late(epoch.barrier, d)
      PROVE  Late(epoch.barrier, d)'
  <2> SUFFICES ASSUME NEW f \in Flying(chrome', wire'), epoch'.barrier <= f.at
               PROVE  d <= f.page.doc
    BY <1>2, <1>3, <1>4 DEF Late, Natural
  <2>1. CASE f \in Flying(chrome, wire)
    <3>1. f.at <= chrome.clock
      BY <1>1, <2>1 DEF Streams
    <3>2. epoch'.barrier # chrome.clock + 1
      BY <1>2, <2>1, <3>1 DEF Natural
    <3>3. epoch.barrier <= f.at
      BY <3>2 DEF GoesOn, BarrierOn
    <3> QED BY <1>4, <2>1, <3>3 DEF Late
  <2>2. CASE f \notin Flying(chrome, wire)
    <3>1. chrome.shown.doc <= f.page.doc
      BY <2>2 DEF GoesOn, Flows
    <3> QED BY <1>2, <1>4, <3>1 DEF Late, Natural
  <2> QED BY <2>1, <2>2
<1>5. ASSUME NEW at \in Nat \ {0}, FreshFrom(at, d)
      PROVE  FreshFrom(at, d)'
  <2>1. Late(epoch.barrier, d)'
    BY <1>4, <1>5 DEF FreshFrom
  <2>2. ASSUME NEW x \in Stamped', at <= x.epoch
        PROVE  d <= x.frame.page.doc
    <3>1. CASE x \in Stamped
      BY <1>5, <2>2, <3>1 DEF FreshFrom
    <3>2. x # NoRetained
      BY <2>2 DEF NoRetained, None
    <3>3. CASE x \notin Stamped
      <4>1. x.frame \in Flying(chrome, wire) /\ epoch.barrier <= x.frame.at
        BY <3>2, <3>3 DEF GoesOn, StampsOn
      <4> QED BY <1>5, <4>1 DEF FreshFrom, Late
    <3> QED BY <3>1, <3>3
  <2> QED BY <2>1, <2>2 DEF FreshFrom
<1> QED BY <1>4, <1>5

LEMMA LateLess ==
  ASSUME Natural, NEW d \in Nat, NEW low \in Nat, low <= d
  PROVE  /\ Late(epoch.barrier, d) => Late(epoch.barrier, low)
         /\ \A at : FreshFrom(at, d) => FreshFrom(at, low)
<1>1. Late(epoch.barrier, d) => Late(epoch.barrier, low)
  BY DEF Late, Natural
<1>2. ASSUME NEW at, FreshFrom(at, d) PROVE FreshFrom(at, low)
  BY <1>1, <1>2 DEF FreshFrom, Natural
<1> QED BY <1>1, <1>2

LEMMA BothNatural ==
  ASSUME PageInv, GoesOn
  PROVE  Natural /\ Natural'
<1>1. PageTypes /\ Streams(chrome, wire, PageDoc)
  BY DEF PageInv
<1>2. (PageTypes /\ Streams(chrome, wire, PageDoc))'
  BY DEF GoesOn
<1> QED BY <1>1, <1>2, Numbers, PTL

LEMMA KnownStays ==
  ASSUME PageInv, GoesOn
  PROVE  Known' /\ Painted' /\ Shows(surf)'
<1>1. Natural /\ Natural'
  BY BothNatural
<1>2. PageDoc <= PageDoc' /\ epoch.current <= epoch'.current
      /\ epoch.nav <= epoch'.nav /\ epoch'.nav <= epoch'.current
  BY <1>1 DEF GoesOn, EpochOn, PageInv, Known, Natural
<1>3. \/ epoch'.nav = epoch.nav /\ PageDoc' = PageDoc /\ Floor' <= Floor
      \/ \A n \in Nat : n <= epoch.nav => n # epoch'.nav
  BY <1>1 DEF GoesOn, EpochOn, PageInv, Known, Natural
<1>4. Known'
  <2>1. surf'.acceptedNav <= epoch'.nav
    BY <1>1, <1>2 DEF GoesOn, Natural
  <2>2. ASSUME NEW x \in Stamped'
        PROVE  x.epoch <= epoch'.current /\ x.frame.page.doc <= PageDoc'
    <3>1. CASE x \in Stamped
      BY <1>1, <1>2, <2>2, <3>1 DEF PageInv, Known, Natural
    <3>2. CASE x = NoRetained
      BY <1>1, <3>2 DEF NoRetained, NoFrame, Nothing, None, Natural
    <3>3. CASE x \notin Stamped /\ x # NoRetained
      <4>1. x.epoch = epoch.current /\ x.frame.page.doc <= PageDoc
        BY <2>2, <3>3 DEF GoesOn, StampsOn
      <4> QED BY <1>1, <1>2, <2>2, <4>1 DEF Natural
    <3> QED BY <3>1, <3>2, <3>3
  <2> QED BY <1>2, <2>1, <2>2 DEF GoesOn, Known
<1>5. ASSUME NEW n \in Nat, n <= epoch.nav,
             n = epoch.nav => Floor <= chrome.shown.doc
      PROVE  /\ n <= epoch'.nav
             /\ n = epoch'.nav => Floor' <= chrome'.shown.doc
  <2>1. n <= epoch'.nav
    BY <1>1, <1>2, <1>5 DEF Natural
  <2>2. ASSUME n = epoch'.nav PROVE Floor' <= chrome'.shown.doc
    <3>1. epoch'.nav = epoch.nav /\ Floor' <= Floor
      BY <1>3, <1>5, <2>2
    <3>2. Floor <= chrome.shown.doc /\ chrome.shown.doc <= chrome'.shown.doc
      BY <1>5, <2>2, <3>1 DEF GoesOn, Flows
    <3> QED BY <1>1, <3>1, <3>2 DEF Natural
  <2> QED BY <2>1, <2>2
<1>6. ASSUME NEW e \in Range(events'), e.kind = "paint"
      PROVE  /\ e.epoch <= epoch'.nav
             /\ e.epoch = epoch'.nav => Floor' <= chrome'.shown.doc
  <2>1. e.epoch \in Nat
    <3>1. Range(events') \subseteq Events
      BY RangeOfSeq DEF GoesOn, PageTypes
    <3> QED BY <1>6, <3>1 DEF Events
  <2>2. CASE e \in Range(events)
    BY <1>5, <1>6, <2>1, <2>2 DEF PageInv, Painted
  <2>3. CASE e.epoch = epoch'.nav /\ Floor' <= chrome'.shown.doc
    BY <2>1, <2>3
  <2> QED BY <1>6, <2>2, <2>3 DEF GoesOn, PaintsOn
<1>7. ASSUME NEW c \in Commanded', c.kind = "paint"
      PROVE  /\ c.nav \in Nat /\ c.nav <= epoch.nav
             /\ c.nav = epoch.nav => Floor <= chrome.shown.doc
  <2>1. c.nav \in Nat
    <3>1. /\ Range(todo') \subseteq Orders /\ Range(batch') \subseteq Orders
          /\ worker'.cmd \in Orders
      BY RangeOfSeq DEF GoesOn, PageTypes, Workers
    <3> QED BY <1>7, <3>1 DEF Orders, Commanded
  <2>2. CASE c \in Commanded
    BY <1>7, <2>1, <2>2 DEF PageInv, Painted
  <2>3. CASE \E e \in Range(events) : e.kind = "paint" /\ c.nav = e.epoch
    BY <2>1, <2>3 DEF PageInv, Painted
  <2> QED BY <1>7, <2>2, <2>3 DEF GoesOn, PaintsOn
<1>8. Painted'
  BY <1>5, <1>6, <1>7 DEF Painted
<1>9. Shows(surf)'
  <2> SUFFICES ASSUME surf'.acceptedNav = epoch'.nav
               PROVE  /\ FreshFrom(surf.accepted, Floor)'
                      /\ surf'.latest # NoFrame =>
                           /\ Floor' <= surf'.latest.page.doc
                           /\ surf'.latest.page.doc <= PageDoc'
    BY DEF Shows
  <2>1. surf'.acceptedNav <= epoch.nav /\ surf'.acceptedNav \in Nat
    BY <1>1 DEF GoesOn, Natural
  <2>2. epoch'.nav = epoch.nav /\ PageDoc' = PageDoc /\ Floor' <= Floor
    BY <1>3, <2>1
  <2>3. /\ FreshFrom(surf'.accepted, Floor)
        /\ surf'.latest # NoFrame =>
             Floor <= surf'.latest.page.doc /\ surf'.latest.page.doc <= PageDoc
    BY <2>2 DEF GoesOn, Shows
  <2>4. PICK at \in Nat \ {0} : at = surf'.accepted
    BY <1>1 DEF Natural
  <2>5. PICK d \in Nat : d = Floor
    BY <1>1 DEF Natural
  <2>6. PICK low \in Nat : low = Floor' /\ low <= d
    BY <1>1, <2>2, <2>5 DEF Natural
  <2>7. FreshFrom(at, low) /\ FreshFrom(at, low)'
    BY <1>1, <2>3, <2>4, <2>5, <2>6, LateLess, LateStays
  <2>8. surf'.latest \in Frames
    BY DEF GoesOn, PageTypes, Sound, Body
  <2>9. surf'.latest.page.doc \in Nat
    BY <2>8 DEF Frames, Pages
  <2>10. surf'.latest # NoFrame =>
           Floor' <= surf'.latest.page.doc /\ surf'.latest.page.doc <= PageDoc'
    BY <1>1, <2>2, <2>3, <2>9 DEF Natural
  <2> QED BY <2>4, <2>6, <2>7, <2>10 DEF FreshFrom, Late
<1> QED BY <1>4, <1>8, <1>9

LEMMA AimsBack ==
  ASSUME PageInv, GoesOn, worker'.cmd = worker.cmd, Aims(worker, surf)',
         surf'.acceptedNav = surf.acceptedNav
  PROVE  Aims(worker, surf) /\ Floor' <= Floor /\ epoch'.nav = epoch.nav
<1>1. Natural /\ Natural'
  BY BothNatural
<1>2. \/ epoch'.nav = epoch.nav /\ Floor' <= Floor
      \/ \A n \in Nat : n <= epoch.nav => n # epoch'.nav
  BY <1>1 DEF GoesOn, EpochOn, PageInv, Known, Natural
<1>3. CASE worker.cmd.kind = "paint"
  <2>1. worker.cmd.nav <= epoch.nav
    BY <1>3 DEF PageInv, Painted, Commanded
  <2>2. worker.cmd.nav = epoch'.nav
    BY <1>3 DEF Aims
  <2> QED BY <1>1, <1>2, <1>3, <2>1, <2>2 DEF Aims, Natural
<1>4. CASE worker.cmd.kind # "paint"
  <2>1. surf.acceptedNav <= epoch.nav
    BY DEF PageInv, Known
  <2>2. surf.acceptedNav = epoch'.nav
    BY <1>4 DEF Aims
  <2> QED BY <1>1, <1>2, <1>4, <2>1, <2>2 DEF Aims, Natural
<1> QED BY <1>3, <1>4

(* A step of somebody else while the worker waits.                         *)
LEMMA VerifiesStays ==
  ASSUME PageInv, GoesOn,
         worker'.at = worker.at, worker'.cmd = worker.cmd,
         worker'.epoch = worker.epoch, worker'.shot = worker.shot,
         worker.at = "start" =>
           \/ worker'.answer = worker.answer
           \/ epoch'.current = epoch.current + 1,
         surf'.acceptedNav = surf.acceptedNav,
         ~chrome.casting => ~chrome'.casting /\ chrome'.clock = chrome.clock,
         Replies' \subseteq Replies
  PROVE  Verifies'
<1>1. Natural /\ Natural'
  BY BothNatural
<1>2. CASE Aims(worker, surf)'
  <2>1. Aims(worker, surf) /\ Floor' <= Floor /\ epoch'.nav = epoch.nav
    BY <1>2, AimsBack
  <2>2. PICK d \in Nat : d = Floor'
    BY <1>1 DEF Natural
  <2>3. /\ Late(epoch.barrier, Floor) => Late(epoch.barrier, d)'
        /\ \A at \in Nat \ {0} : FreshFrom(at, Floor) =>
             FreshFrom(at, d) /\ FreshFrom(at, d)'
    <3>1. PICK top \in Nat : top = Floor /\ d <= top
      BY <1>1, <2>1, <2>2 DEF Natural
    <3>2. /\ Late(epoch.barrier, top) => Late(epoch.barrier, d)
          /\ \A at : FreshFrom(at, top) => FreshFrom(at, d)
      BY <1>1, <3>1, LateLess
    <3>3. /\ Late(epoch.barrier, d) => Late(epoch.barrier, d)'
          /\ \A at \in Nat \ {0} : FreshFrom(at, d) => FreshFrom(at, d)'
      BY LateStays
    <3> QED BY <3>1, <3>2, <3>3
  <2>4. worker.at = "stop" =>
          /\ ~chrome'.casting /\ Floor' <= chrome'.shown.doc
          /\ \A a \in Replies' : a.at = chrome'.clock + 1
    <3>1. chrome.shown.doc <= chrome'.shown.doc
      BY DEF GoesOn, Flows
    <3> QED BY <1>1, <2>1, <3>1 DEF PageInv, Verifies, Natural
  <2>5. worker.at = "start" =>
          /\ Late(epoch.barrier, Floor)'
          /\ worker'.answer # <<>> => FreshFrom(epoch.current, Floor)'
    <3> SUFFICES ASSUME worker.at = "start"
                 PROVE  /\ Late(epoch.barrier, Floor)'
                        /\ worker'.answer # <<>> =>
                             FreshFrom(epoch.current, Floor)'
      OBVIOUS
    <3>1. Late(epoch.barrier, Floor)'
      <4>1. Late(epoch.barrier, Floor)
        BY <2>1 DEF PageInv, Verifies
      <4> QED BY <2>2, <2>3, <4>1 DEF Late
    <3>2. ASSUME worker.answer # <<>>
          PROVE  FreshFrom(epoch.current, Floor)'
      <4>1. PICK at \in Nat \ {0} : at = epoch.current
        BY <1>1 DEF Natural
      <4>2. FreshFrom(at, Floor)
        BY <2>1, <3>2, <4>1 DEF PageInv, Verifies
      <4>3. FreshFrom(at, d)'
        BY <2>3, <4>2
      <4>4. at <= epoch'.current
        BY <4>1 DEF GoesOn, EpochOn
      <4>5. \A x \in Stamped' : epoch'.current <= x.epoch => d <= x.frame.page.doc
        BY <1>1, <4>3, <4>4 DEF FreshFrom, Natural
      <4> QED BY <2>2, <3>1, <4>5 DEF FreshFrom
    <3>3. ASSUME epoch'.current = epoch.current + 1
          PROVE  FreshFrom(epoch.current, Floor)'
      <4>1. ASSUME NEW x \in Stamped', epoch'.current <= x.epoch PROVE FALSE
        <5>1. x \in Stamped => x.epoch <= epoch.current
          BY DEF PageInv, Known
        <5>2. x = NoRetained => x.epoch <= epoch.current
          BY <1>1 DEF NoRetained, None, Natural
        <5>3. x.epoch <= epoch.current
          BY <1>1, <5>1, <5>2 DEF GoesOn, StampsOn, Natural
        <5> QED BY <1>1, <3>3, <4>1, <5>3 DEF Natural
      <4> QED BY <3>1, <4>1 DEF FreshFrom
    <3> QED BY <3>1, <3>2, <3>3
  <2>6. worker.at \in {"shoot", "check"} => FreshFrom(worker.epoch, Floor)'
    <3> SUFFICES ASSUME worker.at \in {"shoot", "check"}
                 PROVE  FreshFrom(worker.epoch, Floor)'
      OBVIOUS
    <3>1. PICK at \in Nat \ {0} : at = worker.epoch
      BY <1>1 DEF PageInv, PageTypes, Natural
    <3>2. FreshFrom(at, Floor)
      BY <2>1, <3>1 DEF PageInv, Verifies
    <3>3. FreshFrom(at, d)'
      BY <2>3, <3>2
    <3> QED BY <2>2, <3>1, <3>3 DEF FreshFrom, Late
  <2>7. worker.at = "shoot" => \A a \in Replies' : Floor' <= a.page.doc
    <3> SUFFICES ASSUME worker.at = "shoot", NEW a \in Replies'
                 PROVE  Floor' <= a.page.doc
      OBVIOUS
    <3>1. a \in Replies /\ Floor <= a.page.doc
      BY <2>1 DEF PageInv, Verifies
    <3>2. a.page.doc \in Nat
      BY <1>1, <3>1 DEF Replies, Natural, AnswerMessages, Pages
    <3> QED BY <1>1, <2>1, <3>1, <3>2 DEF Natural
  <2>8. worker.at = "check" => Floor' <= worker.shot.page.doc
    BY <1>1, <2>1 DEF PageInv, Verifies, Natural
  <2> QED BY <2>4, <2>5, <2>6, <2>7, <2>8 DEF Verifies
<1>3. CASE ~Aims(worker, surf)'
  <2>1. worker.at = "stop" =>
          /\ ~chrome'.casting
          /\ \A a \in Replies' : a.at = chrome'.clock + 1
    BY DEF PageInv, Verifies
  <2> QED BY <1>3, <2>1 DEF Verifies
<1> QED BY <1>2, <1>3

(* Everybody but the worker and the reader leaves the worker alone.        *)
LEMMA OthersStep ==
  ASSUME PageInv, GoesOn, worker' = worker,
         surf'.acceptedNav = surf.acceptedNav,
         ~chrome.casting => ~chrome'.casting /\ chrome'.clock = chrome.clock,
         Replying(wire') = Replying(wire), Replies' \subseteq Replies
  PROVE  PageInv'
<1>1. OneReply'
  BY DEF PageInv, OneReply
<1>2. Verifies'
  BY VerifiesStays
<1>3. (PageTypes /\ Streams(chrome, wire, PageDoc))'
  BY DEF GoesOn
<1> QED BY <1>1, <1>2, <1>3, KnownStays DEF PageInv

(***************************************************************************)
(* Chrome.                                                                 *)
(***************************************************************************)
LEMMA ChromeGoesOn ==
  ASSUME PageInv, Streams(chrome', wire', PageDoc),
         Flows(chrome, wire, chrome', wire'),
         UNCHANGED <<epoch, events, surf, todo, batch, worker>>
  PROVE  GoesOn
<1>1. PageTypes' /\ Streams(chrome', wire', PageDoc')
  BY DEF PageInv, PageTypes, PageDoc
<1>2. StampsOn /\ PaintsOn
  BY DEF StampsOn, PaintsOn, Stamped, Commanded
<1>3. Natural
  BY Numbers DEF PageInv
<1>4. BarrierOn /\ EpochOn
  BY <1>3 DEF BarrierOn, EpochOn, PageDoc, Floor, Natural
<1>5. surf'.acceptedNav <= epoch.nav /\ Shows(surf')
  BY DEF PageInv, Known
<1>6. worker'.shot.page.doc <= PageDoc'
      /\ \A a \in AnswerMessages : worker'.answer = <<a>> =>
           a.page.doc <= PageDoc'
  BY DEF PageInv, Known, PageDoc
<1> QED BY <1>1, <1>2, <1>4, <1>5, <1>6 DEF GoesOn

LEMMA ChromeSends ==
  ASSUME PageInv, NEW m, m \in Messages \ AnswerMessages, wire' = Append(wire, m),
         chrome' \in Chromes,
         chrome.page.doc <= chrome'.page.doc,
         chrome.shown.doc <= chrome'.shown.doc,
         chrome'.shown.doc <= chrome'.page.doc,
         chrome'.page.doc <= chrome'.page.view,
         chrome'.clock = chrome.clock, chrome'.casting = chrome.casting,
         m.page.doc <= chrome'.page.doc,
         m.kind \in Turns => m.page.doc = chrome'.page.doc,
         m.kind \notin Committed => chrome'.page.doc = chrome.page.doc,
         m.kind = "paint" => m.page.doc <= chrome'.shown.doc,
         m.kind = "frame" => /\ chrome.encoder # NoFrame
                             /\ m.page = chrome.encoder.page
                             /\ m.at = chrome.encoder.at,
         chrome'.encoder \in {NoFrame, chrome.encoder},
         UNCHANGED <<epoch, events, surf, todo, batch, worker>>
  PROVE  PageInv'
<1>1. m \in Messages /\ m.kind # "answer"
  BY DEF Messages, AnswerMessages, Heard
<1>2. /\ wire \in Seq(Messages) /\ chrome \in Chromes /\ PageDoc \in Nat
      /\ Streams(chrome, wire, PageDoc) /\ chrome.clock \in Nat
  BY Numbers DEF PageInv, Streams, Natural
<1>3. /\ Streams(chrome', Append(wire, m), PageDoc)
      /\ Flows(chrome, wire, chrome', Append(wire, m))
  BY <1>1, <1>2, SendStreams
<1>4. GoesOn
  BY <1>3, ChromeGoesOn
<1>5. Replying(wire') = Replying(wire)
  BY <1>1, <1>2, SendReplying
<1>6. Replies' \subseteq Replies
  <2>1. Range(wire') = Range(wire) \cup {m}
    BY <1>1, <1>2, AppendRange
  <2> QED BY <1>1, <2>1 DEF Replies
<1> QED BY <1>4, <1>5, <1>6, OthersStep

LEMMA WithinFacts ==
  ASSUME NEW c \in Chromes, c.page.doc <= c.page.view,
         c.shown.doc <= c.page.doc
  PROVE  /\ Within(c) \in Chromes
         /\ Within(c).page.doc = c.page.doc /\ Within(c).page \in Pages
         /\ Within(c).page.doc <= Within(c).page.view
         /\ Within(c).shown.doc = c.shown.doc
         /\ Within(c).clock = c.clock /\ Within(c).casting = c.casting
         /\ Within(c).encoder = c.encoder
<1>1. PICK new : new = [c.page EXCEPT !.view = @ + 1]
  OBVIOUS
<1>2. /\ new \in Pages /\ new.doc = c.page.doc /\ new.doc <= new.view
  BY <1>1 DEF Chromes, Pages
<1>3. PICK shown : shown = IF c.shown.doc = new.doc THEN new ELSE c.shown
  OBVIOUS
<1>4. shown \in Pages /\ shown.doc = c.shown.doc
  BY <1>2, <1>3 DEF Chromes
<1>5. Within(c) = [c EXCEPT !.page = new, !.shown = shown]
  BY <1>1, <1>3 DEF Within
<1> QED BY <1>2, <1>4, <1>5 DEF Chromes

LEMMA ChromeKeepsPage ==
  ASSUME PageInv, ChromeStep
  PROVE  PageInv'
<1>0. /\ chrome \in Chromes /\ chrome.page.doc <= chrome.page.view
      /\ chrome.shown.doc <= chrome.page.doc
      /\ chrome.encoder.page.doc <= chrome.page.doc
      /\ chrome.page \in Pages /\ chrome.shown \in Pages
      /\ chrome.encoder \in Frames /\ chrome.page.doc \in Nat
      /\ chrome.page.view \in Nat /\ chrome.clock \in Nat
      /\ chrome.shown.doc \in Nat
  BY DEF PageInv, Streams, Chromes, Pages
<1>1. CASE Commits
  <2>1. PICK new : new = [doc |-> chrome.page.view + 1,
                          view |-> chrome.page.view + 1]
    OBVIOUS
  <2>2. PICK kind \in Committed :
          /\ wire' = Append(wire, Message(kind, new, None))
          /\ \/ chrome' = [chrome EXCEPT !.page = new, !.paints = 0]
             \/ chrome' = [chrome EXCEPT !.page = new, !.paints = 0,
                                         !.shown = new]
    <3>1. chrome' \in {[chrome EXCEPT !.page = new, !.paints = 0],
                       [[chrome EXCEPT !.page = new, !.paints = 0]
                          EXCEPT !.shown = new]}
          /\ \E kind \in Committed : wire' = Append(wire, Message(kind, new, None))
      BY <1>1, <2>1 DEF Commits, Sends, Committed
    <3> QED BY <3>1
  <2>3. PICK m : m = Message(kind, new, None)
    OBVIOUS
  <2>4. wire' = Append(wire, m)
        /\ UNCHANGED <<epoch, events, surf, todo, batch, worker>>
    BY <1>1, <2>2, <2>3 DEF Commits
  <2>5. /\ new \in Pages /\ new.doc <= new.view /\ chrome.page.doc <= new.doc
        /\ chrome.shown.doc <= new.doc
    BY <1>0, <2>1 DEF Pages
  <2>6. /\ m \in Messages \ AnswerMessages /\ m.kind \in Committed
        /\ m.page.doc = new.doc
    BY <2>3, <2>5 DEF Message, Messages, AnswerMessages, Heard, None, Committed
  <2>7. /\ chrome' \in Chromes /\ chrome'.page = new
        /\ chrome'.shown \in {chrome.shown, new}
        /\ chrome'.clock = chrome.clock
        /\ chrome'.casting = chrome.casting
        /\ chrome'.encoder = chrome.encoder
    <3>1. PICK shown \in {chrome.shown, new} :
            chrome' = [chrome EXCEPT !.page = new, !.paints = 0, !.shown = shown]
      <4>2. [chrome EXCEPT !.page = new, !.paints = 0]
              = [chrome EXCEPT !.page = new, !.paints = 0, !.shown = chrome.shown]
        BY <1>0 DEF Chromes
      <4> QED BY <2>2, <4>2, Zenon
    <3>2. shown \in Pages
      BY <1>0, <2>5, <3>1
    <3> QED BY <1>0, <2>5, <3>1, <3>2 DEF Chromes
  <2>8. /\ chrome.page.doc <= chrome'.page.doc
        /\ chrome.shown.doc <= chrome'.shown.doc
        /\ chrome'.shown.doc <= chrome'.page.doc
        /\ chrome'.page.doc <= chrome'.page.view
        /\ m.page.doc <= chrome'.page.doc
        /\ m.kind \in Turns => m.page.doc = chrome'.page.doc
    BY <1>0, <2>5, <2>6, <2>7 DEF Pages
  <2> QED BY <2>4, <2>6, <2>7, <2>8, ChromeSends DEF Committed
<1>2. CASE ViewChanges
  <2>1. PICK m : m = Message("within", Within(chrome).page, None)
    OBVIOUS
  <2>2. /\ chrome' = Within(chrome) /\ wire' = Append(wire, m)
        /\ UNCHANGED <<epoch, events, surf, todo, batch, worker>>
    BY <1>2, <2>1 DEF ViewChanges, Sends
  <2>3. /\ Within(chrome) \in Chromes
        /\ Within(chrome).page.doc = chrome.page.doc
        /\ Within(chrome).page \in Pages
        /\ Within(chrome).page.doc <= Within(chrome).page.view
        /\ Within(chrome).shown.doc = chrome.shown.doc
        /\ Within(chrome).clock = chrome.clock
        /\ Within(chrome).casting = chrome.casting
        /\ Within(chrome).encoder = chrome.encoder
    BY <1>0, WithinFacts
  <2>4. /\ m \in Messages \ AnswerMessages /\ m.kind = "within"
        /\ m.page.doc = chrome.page.doc
    BY <2>1, <2>3 DEF Message, Messages, AnswerMessages, Heard, None
  <2> QED BY <1>0, <2>2, <2>3, <2>4, ChromeSends DEF Committed
(* A notice, whatever it says, of the document or of an earlier one.       *)
<1>3. ASSUME NEW kind \in {"paint", "load"}, NEW page \in Pages,
             Notifies(kind, page),
             page.doc <= chrome.page.doc,
             NEW shown \in {chrome.shown, chrome.page},
             kind = "paint" => page.doc <= shown.doc,
             chrome' = [chrome EXCEPT !.paints = @ + 1, !.shown = shown]
      PROVE  PageInv'
  <2>1. PICK m : m = Message(kind, page, None)
    OBVIOUS
  <2>2. /\ wire' = Append(wire, m)
        /\ UNCHANGED <<epoch, events, surf, todo, batch, worker>>
    BY <1>3, <2>1 DEF Notifies, Sends
  <2>3. /\ m \in Messages \ AnswerMessages
        /\ m.kind = kind /\ m.page = page
    BY <2>1 DEF Message, Messages, AnswerMessages, Heard, None
  <2>4. /\ chrome' \in Chromes /\ chrome'.page = chrome.page
        /\ chrome'.shown = shown /\ chrome'.clock = chrome.clock
        /\ chrome'.casting = chrome.casting
        /\ chrome'.encoder = chrome.encoder
    <3>1. PICK n \in Nat : n = chrome.paints + 1
      BY <1>0 DEF Chromes
    <3>2. chrome' = [chrome EXCEPT !.paints = n, !.shown = shown]
      BY <1>3, <3>1
    <3> QED BY <1>0, <3>2 DEF Chromes
  <2>5. /\ chrome.shown.doc <= shown.doc /\ shown.doc <= chrome.page.doc
    BY <1>0
  <2> QED BY <1>0, <1>3, <2>2, <2>3, <2>4, <2>5, ChromeSends
          DEF Turns, Committed
<1>6. CASE Paints \/ PaintsLate \/ Loads
  <2>1. Nothing \in Pages /\ Nothing.doc <= chrome.page.doc
    BY <1>0 DEF Nothing, None, Pages
  <2>2. CASE Paints
    BY <1>0, <1>3, <2>2 DEF Paints
  <2>3. chrome = [chrome EXCEPT !.shown = chrome.shown]
    BY <1>0 DEF Chromes
  <2>4. [chrome EXCEPT !.paints = @ + 1] =
          [chrome EXCEPT !.paints = @ + 1, !.shown = chrome.shown]
    BY <1>0 DEF Chromes
  <2>5. CASE PaintsLate
    BY <1>0, <1>3, <2>4, <2>5 DEF PaintsLate
  <2>6. CASE Loads
    BY <1>0, <1>3, <2>1, <2>4, <2>6 DEF Loads
  <2> QED BY <1>6, <2>2, <2>5, <2>6
<1>4. CASE Captures
  <2>1. PICK f : f = [page |-> chrome.shown, at |-> chrome.clock + 1]
    OBVIOUS
  <2>2. /\ chrome' = [chrome EXCEPT !.clock = @ + 1, !.frames = @ + 1,
                                    !.encoder = f]
        /\ UNCHANGED <<wire, epoch, events, surf, todo, batch, worker>>
        /\ chrome.casting
    BY <1>4, <2>1 DEF Captures
  <2>3. f \in Frames /\ f.page.doc = chrome.shown.doc /\ f.at = chrome.clock + 1
    BY <1>0, <2>1 DEF Frames
  <2>4. /\ chrome' \in Chromes /\ chrome'.page = chrome.page
        /\ chrome'.shown = chrome.shown /\ chrome'.clock = chrome.clock + 1
        /\ chrome'.encoder = f
    <3>1. PICK n \in Nat : n = chrome.frames + 1
      BY <1>0 DEF Chromes
    <3>2. PICK k \in Nat : k = chrome.clock + 1
      BY <1>0
    <3>3. chrome' = [chrome EXCEPT !.clock = k, !.frames = n, !.encoder = f]
      BY <2>2, <3>1, <3>2
    <3> QED BY <1>0, <2>3, <3>2, <3>3 DEF Chromes
  <2>5. \A g \in Flying(chrome', wire') : g \in Flying(chrome, wire) \/ g = f
    BY <2>2, <2>4 DEF Flying
  <2>6. \A g \in Flying(chrome, wire) : g.at \in Nat
    BY Numbers DEF PageInv, Natural
  <2>7. Streams(chrome', wire', PageDoc)
    BY <1>0, <2>2, <2>3, <2>4, <2>5, <2>6 DEF PageInv, Streams
  <2>8. Flows(chrome, wire, chrome', wire')
    BY <1>0, <2>3, <2>4, <2>5 DEF Flows
  <2>9. GoesOn
    BY <2>2, <2>7, <2>8, ChromeGoesOn
  <2>10. Replies' \subseteq Replies
    BY <2>2 DEF Replies
  <2> QED BY <2>2, <2>9, <2>10, OthersStep
<1>5. CASE Emits
  <2>1. PICK m : m = Message("frame", chrome.encoder.page, chrome.encoder.at)
    OBVIOUS
  <2>2. /\ chrome' = [chrome EXCEPT !.encoder = NoFrame]
        /\ chrome.encoder # NoFrame /\ wire' = Append(wire, m)
        /\ UNCHANGED <<epoch, events, surf, todo, batch, worker>>
    BY <1>5, <2>1 DEF Emits, Sends
  <2>3. /\ m \in Messages \ AnswerMessages /\ m.kind = "frame"
        /\ m.page = chrome.encoder.page /\ m.at = chrome.encoder.at
    BY <1>0, <2>1 DEF Message, Messages, AnswerMessages, Heard, Frames
  <2>4. /\ chrome' \in Chromes /\ chrome'.page = chrome.page
        /\ chrome'.shown = chrome.shown /\ chrome'.clock = chrome.clock
        /\ chrome'.casting = chrome.casting /\ chrome'.encoder = NoFrame
    BY <1>0, <2>2, Unread DEF Chromes
  <2> QED BY <1>0, <2>2, <2>3, <2>4, ChromeSends DEF Turns, Committed
<1> QED BY <1>1, <1>2, <1>4, <1>5, <1>6 DEF ChromeStep

LEMMA SilentRange ==
  ASSUME NEW w \in Seq(Messages), Replying(w) = {}
  PROVE  \A m \in Range(w) : m.kind # "answer"
<1>1. Range(w) = {w[i] : i \in 1..Len(w)}
  BY RangeEquality
<1> QED BY <1>1 DEF Replying

LEMMA QueueFacts ==
  ASSUME NEW e \in Events, events \in Seq(Events), Queue(e)
  PROVE  /\ events' \in Seq(Events)
         /\ Range(events') \subseteq Range(events) \cup {e}
<1>1. PICK P \in SUBSET DOMAIN events :
        events' = Append(Without(events, P), e)
  BY DEF Queue
<1>2. PICK q : q = Without(events, P)
  OBVIOUS
<1>3. q \in Seq(Events) /\ Range(q) \subseteq Range(events)
  BY <1>2, WithoutRange
<1>4. events' \in Seq(Events) /\ Range(events') = Range(q) \cup {e}
  BY <1>1, <1>2, <1>3, AppendRange
<1> QED BY <1>3, <1>4

(* What is read is gone from the socket, and the rest is as it was.        *)
LEMMA ReadFacts ==
  ASSUME PageInv, Read
  PROVE  LET m == Head(wire)
             next == IF m.kind \in Committed THEN m.page.doc ELSE PageDoc
         IN /\ m \in Messages /\ m \in Range(wire) /\ m.page.doc \in Nat
            /\ Streams(chrome', wire', next)
            /\ Flows(chrome, wire, chrome', wire')
            /\ Flying(chrome', wire') \subseteq Flying(chrome, wire)
            /\ Range(wire') \subseteq Range(wire)
            /\ m.kind \in Turns => PageDoc <= m.page.doc
            /\ m.kind \notin Committed => m.page.doc <= PageDoc
            /\ \A i \in Replying(wire') : i + 1 \in Replying(wire) /\ i \in Nat
            /\ m.kind = "answer" => 1 \in Replying(wire)
            /\ wire' \in Seq(Messages)
<1> DEFINE m == Head(wire)
           next == IF m.kind \in Committed THEN m.page.doc ELSE PageDoc
<1>1. /\ wire \in Seq(Messages) /\ wire # <<>> /\ wire' = Tail(wire)
      /\ chrome' = chrome /\ chrome \in Chromes
      /\ Streams(chrome, wire, PageDoc)
  BY DEF PageInv, Streams, Read
<1>2. Natural
  BY Numbers DEF PageInv
<1>3. /\ m \in Messages /\ m \in Range(wire)
      /\ wire' \in Seq(Messages) /\ Range(wire') \subseteq Range(wire)
  BY <1>1, TailRange
<1>4. m.page.doc \in Nat
  BY <1>2, <1>3 DEF Natural
<1>5. /\ Ordered(wire', next, chrome.page.doc)
      /\ m.kind \in Turns => PageDoc <= m.page.doc
      /\ m.kind \notin Committed => m.page.doc <= PageDoc
  BY <1>1, <1>2, ReadOrdered DEF Streams, Natural
<1>6. /\ \A i \in Replying(wire') : i + 1 \in Replying(wire) /\ i \in Nat
      /\ m.kind = "answer" => 1 \in Replying(wire)
  BY <1>1, ReadReplying
<1> HIDE DEF m, next
<1>7. Flying(chrome', wire') \subseteq Flying(chrome, wire)
  BY <1>1, <1>3 DEF Flying
<1>8. Streams(chrome', wire', next)
  BY <1>1, <1>3, <1>5, <1>7 DEF Streams
<1>9. Flows(chrome, wire, chrome', wire')
  BY <1>1, <1>2, <1>7 DEF Flows, Natural
<1> QED BY <1>3, <1>4, <1>5, <1>6, <1>7, <1>8, <1>9 DEF m, next

(* Reading anything but an answer leaves the worker alone.                 *)
LEMMA ReadEventKeepsPage ==
  ASSUME PageInv, Read, GoesOn, worker' = worker
  PROVE  PageInv'
<1>1. chrome' = chrome /\ surf' = surf
  BY DEF Read
<1>2. Range(wire') \subseteq Range(wire)
      /\ \A i \in Replying(wire') : i + 1 \in Replying(wire) /\ i \in Nat
  BY ReadFacts
<1>3. Replies' \subseteq Replies
  BY <1>2 DEF Replies
<1>4. OneReply'
  BY <1>2 DEF PageInv, OneReply
<1>5. Verifies'
  BY <1>1, <1>3, VerifiesStays
<1>6. (PageTypes /\ Streams(chrome, wire, PageDoc))'
  BY DEF GoesOn
<1> QED BY <1>4, <1>5, <1>6, KnownStays DEF PageInv

LEMMA ReadKeepsPage ==
  ASSUME PageInv, Read
  PROVE  PageInv'
<1> PICK m : m = Head(wire)
  OBVIOUS
<1> PICK next : next = IF m.kind \in Committed THEN m.page.doc ELSE PageDoc
  OBVIOUS
<1>1. /\ m \in Messages /\ m \in Range(wire) /\ m.page.doc \in Nat
      /\ Streams(chrome', wire', next)
      /\ Flows(chrome, wire, chrome', wire')
      /\ Flying(chrome', wire') \subseteq Flying(chrome, wire)
      /\ Range(wire') \subseteq Range(wire)
      /\ m.kind \in Turns => PageDoc <= m.page.doc
      /\ m.kind \notin Committed => m.page.doc <= PageDoc
      /\ \A i \in Replying(wire') : i + 1 \in Replying(wire) /\ i \in Nat
      /\ m.kind = "answer" => 1 \in Replying(wire)
      /\ wire' \in Seq(Messages)
  BY ReadFacts
<1>2. UNCHANGED <<chrome, surf, todo, batch>>
  BY DEF Read
<1>3. Natural
  BY Numbers DEF PageInv
<1>4. m.page \in Pages /\ m.at \in Nat
  BY <1>1 DEF Messages, AnswerMessages
<1>5. PageTypes
  BY DEF PageInv
<1>6. surf'.acceptedNav <= epoch.nav /\ Shows(surf')
  BY <1>2 DEF PageInv, Known
(* Only a frame brings new pixels.                                         *)
<1>7. ASSUME \A e \in Range(events') : e \in Range(events) \/ e.kind # "frame"
      PROVE  StampsOn
  BY <1>2, <1>7 DEF StampsOn, Stamped
<1>8. ASSUME worker'.cmd = worker.cmd PROVE Commanded' = Commanded
  BY <1>2, <1>8 DEF Commanded
<1>9. CASE ReadFrame(m)
  <2>1. PICK e : e = Event("frame", epoch.current, m.page,
                           [page |-> m.page, at |-> m.at])
    OBVIOUS
  <2>2. /\ e \in Events /\ e.kind = "frame" /\ e.epoch = epoch.current
        /\ e.frame = [page |-> m.page, at |-> m.at]
    BY <1>3, <1>4, <2>1 DEF Event, Events, Heard, Frames, Pages, Natural
  <2>3. m.kind = "frame" /\ epoch' = epoch /\ worker' = worker /\ next = PageDoc
    BY <1>9 DEF ReadFrame, Committed
  <2>4. \/ events' = events
        \/ ~(m.at < epoch.barrier) /\ Queue(e)
    BY <1>9, <2>1 DEF ReadFrame
  <2>5. /\ events' \in Seq(Events)
        /\ Range(events') \subseteq Range(events) \cup {e}
        /\ events' = events \/ epoch.barrier <= m.at
    BY <1>3, <1>4, <1>5, <2>2, <2>4, QueueFacts DEF PageTypes, Natural
  <2>6. StampsOn
    <3>1. CASE events' = events
      BY <1>2, <3>1 DEF StampsOn, Stamped
    <3>2. CASE epoch.barrier <= m.at
      <4>1. e.frame \in Flying(chrome, wire)
        BY <1>1, <2>2, <2>3 DEF Flying
      <4>2. e.frame.page.doc <= PageDoc /\ epoch.barrier <= e.frame.at
        BY <1>1, <2>2, <2>3, <3>2
      <4> QED BY <1>2, <2>2, <2>5, <4>1, <4>2 DEF StampsOn, Stamped
    <3> QED BY <2>5, <3>1, <3>2
  <2>7. PageDoc' = PageDoc /\ Floor' = Floor
    BY <2>3 DEF PageDoc, Floor
  <2>8. PageTypes'
    BY <1>2, <1>5, <2>3, <2>5 DEF PageTypes
  <2>9. PaintsOn
    BY <1>8, <2>2, <2>3, <2>5 DEF PaintsOn
  <2>10. BarrierOn /\ EpochOn
    BY <1>3, <2>3, <2>7 DEF BarrierOn, EpochOn, Natural
  <2>11. worker'.shot.page.doc <= PageDoc'
         /\ \A a \in AnswerMessages : worker'.answer = <<a>> =>
              a.page.doc <= PageDoc'
    BY <2>3, <2>7 DEF PageInv, Known
  <2>12. GoesOn
    BY <1>1, <1>6, <2>3, <2>6, <2>7, <2>8, <2>9, <2>10, <2>11 DEF GoesOn
  <2> QED BY <2>3, <2>12, ReadEventKeepsPage
<1>10. CASE ReadNavigated(m)
  <2>1. PICK e : e = Event("navigated", epoch.current + 1, m.page, NoFrame)
    OBVIOUS
  <2>2. PICK p : p = Event("paint", epoch.current + 1, m.page, NoFrame)
    OBVIOUS
  <2>3. /\ e \in Events /\ e.kind = "navigated"
        /\ p \in Events /\ p.kind = "paint" /\ p.epoch = epoch.current + 1
    <3>1. epoch.current + 1 \in Nat
      BY <1>3 DEF Natural
    <3> QED BY <1>4, <2>1, <2>2, <3>1, Unread DEF Event, Events, Heard, Pages
  <2>4. PICK misled \in BOOLEAN :
          misled = (m.kind = "restored" /\ Misleads(m.page))
    OBVIOUS
  <2>5. /\ m.kind \in Committed /\ worker' = worker /\ next = m.page.doc
        /\ epoch' = [epoch EXCEPT !.current = @ + 1, !.nav = epoch.current + 1,
                                  !.page = m.page, !.misled = misled]
        /\ events' = IF m.kind = "restored" THEN Append(Append(events, e), p)
                     ELSE Append(events, e)
    BY <1>10, <2>1, <2>2, <2>4, Zenon DEF ReadNavigated, Committed
  <2>6. /\ events' \in Seq(Events)
        /\ Range(events') \subseteq Range(events) \cup {e, p}
        /\ m.kind # "restored" => Range(events') \subseteq Range(events) \cup {e}
    <3>1. events \in Seq(Events)
      BY <1>5 DEF PageTypes
    <3>2. PICK q : q = Append(events, e)
      OBVIOUS
    <3>3. q \in Seq(Events) /\ Range(q) = Range(events) \cup {e}
      BY <2>3, <3>1, <3>2, AppendRange
    <3>4. /\ Append(q, p) \in Seq(Events)
          /\ Range(Append(q, p)) = Range(q) \cup {p}
      BY <2>3, <3>3, AppendRange
    <3> QED BY <2>5, <3>2, <3>3, <3>4
  <2>7. /\ epoch' \in Epochs /\ PageDoc' = next
        /\ epoch'.current = epoch.current + 1 /\ epoch'.nav = epoch.current + 1
        /\ epoch'.barrier = epoch.barrier /\ epoch'.misled = misled
    <3>1. PICK n \in Nat \ {0} : n = epoch.current + 1
      BY <1>3 DEF Natural
    <3>2. epoch' = [epoch EXCEPT !.current = n, !.nav = n, !.page = m.page,
                                 !.misled = misled]
      BY <2>5, <3>1, Zenon
    <3>5. epoch \in Epochs
      BY <1>5 DEF PageTypes
    <3>3. /\ epoch' \in Epochs /\ epoch'.current = n
          /\ epoch'.barrier = epoch.barrier
      BY <1>4, <3>2, <3>5 DEF Epochs
    <3>4. epoch'.nav = n /\ epoch'.page = m.page /\ epoch'.misled = misled
      BY <3>2, <3>5 DEF Epochs
    <3> QED BY <2>5, <3>1, <3>3, <3>4 DEF PageDoc
  <2>8. StampsOn
    BY <1>7, <2>3, <2>6
  <2>9. PageTypes'
    BY <1>2, <1>5, <2>5, <2>6, <2>7 DEF PageTypes
  <2>10. PaintsOn
    <3>1. ASSUME m.kind = "restored"
          PROVE  p.epoch = epoch'.nav /\ Floor' <= chrome'.shown.doc
      <4>1. misled = (chrome.shown.doc < m.page.doc) /\ PageDoc' = m.page.doc
        BY <2>4, <2>5, <2>7, <3>1 DEF Misleads
      <4>2. Floor' = IF misled THEN 0 ELSE m.page.doc
        BY <2>7, <4>1 DEF Floor
      <4>3. chrome'.shown.doc \in Nat /\ chrome'.shown = chrome.shown
        BY <1>2, <1>3 DEF Natural
      <4>4. CASE misled
        BY <2>3, <2>7, <4>2, <4>3, <4>4
      <4>5. CASE ~misled
        <5>1. ~(chrome.shown.doc < m.page.doc)
          BY <4>1, <4>5, Zenon
        <5> QED BY <1>1, <2>3, <2>7, <4>2, <4>3, <4>5, <5>1
      <4> QED BY <4>4, <4>5
    <3> QED BY <1>8, <2>3, <2>5, <2>6, <3>1 DEF PaintsOn
  <2>11. PageDoc <= PageDoc'
    BY <1>1, <2>5, <2>7 DEF Turns
  <2>12. BarrierOn /\ EpochOn
    BY <1>3, <2>7, <2>11 DEF BarrierOn, EpochOn, Natural
  <2>13. worker'.shot.page.doc <= PageDoc'
         /\ \A a \in AnswerMessages : worker'.answer = <<a>> =>
              a.page.doc <= PageDoc'
    <3>1. \A a \in AnswerMessages : a.page.doc \in Nat
      BY DEF AnswerMessages, Pages
    <3>2. /\ worker.shot.page.doc <= PageDoc
          /\ \A a \in AnswerMessages : worker.answer = <<a>> =>
               a.page.doc <= PageDoc
      BY DEF PageInv, Known
    <3>3. worker.shot.page.doc \in Nat /\ PageDoc \in Nat /\ PageDoc' \in Nat
      BY <1>1, <1>3, <2>5, <2>7 DEF Natural
    <3> QED BY <2>5, <2>11, <3>1, <3>2, <3>3
  <2>14. GoesOn
    BY <1>1, <1>6, <2>7, <2>8, <2>9, <2>10, <2>12, <2>13 DEF GoesOn
  <2> QED BY <2>5, <2>14, ReadEventKeepsPage
<1>11. CASE ReadPaint(m)
  <2>1. PICK e : e = Event("paint", epoch.nav, epoch.page, NoFrame)
    OBVIOUS
  <2>2. e \in Events /\ e.kind = "paint" /\ e.epoch = epoch.nav
    BY <1>3, <2>1, Unread DEF Event, Events, Heard, Pages, Natural
  <2>3. PICK misled \in BOOLEAN :
          misled = \/ epoch.misled
                   \/ /\ m.kind = "load" \/ m.page = Nothing
                      /\ Misleads(epoch.page)
    OBVIOUS
  <2>4. /\ m.kind \in {"paint", "load"} /\ worker' = worker /\ next = PageDoc
        /\ \/ events' = events /\ epoch' = epoch
           \/ /\ m.page = Nothing \/ m.page.doc = PageDoc
              /\ Queue(e) /\ epoch' = [epoch EXCEPT !.misled = misled]
    <3>1. m.kind \in {"paint", "load"} /\ worker' = worker
      BY <1>11 DEF ReadPaint
    <3>2. \/ events' = events /\ epoch' = epoch
          \/ /\ m.page = Nothing \/ m.page.doc = PageDoc
             /\ Queue(e) /\ epoch' = [epoch EXCEPT !.misled = misled]
      BY <1>11, <2>1, <2>3, Zenon DEF ReadPaint, PageDoc
    <3> QED BY <3>1, <3>2 DEF Committed
  <2>5. /\ events' \in Seq(Events)
        /\ Range(events') \subseteq Range(events) \cup {e}
    BY <1>5, <2>2, <2>4, QueueFacts DEF PageTypes
  <2>6. StampsOn
    BY <1>7, <2>2, <2>5
  <2>7. /\ epoch' \in Epochs /\ PageDoc' = PageDoc
        /\ epoch'.current = epoch.current /\ epoch'.nav = epoch.nav
        /\ epoch'.barrier = epoch.barrier
        /\ epoch'.misled \in {epoch.misled, misled}
        /\ events' = events \/ epoch'.misled = misled
    <3>1. epoch \in Epochs
      BY <1>5 DEF PageTypes
    <3>2. CASE epoch' = epoch /\ events' = events
      BY <3>1, <3>2 DEF PageDoc
    <3>3. CASE epoch' = [epoch EXCEPT !.misled = misled]
      BY <3>1, <3>3, <2>3 DEF PageDoc, Epochs
    <3> QED BY <2>4, <3>2, <3>3
  <2>8. Floor' <= Floor /\ Floor' \in Nat
    <3>1. epoch.misled => epoch'.misled
      BY <2>3, <2>7, Zenon
    <3>2. PageDoc \in Nat
      BY <1>3 DEF Natural
    <3>3. CASE epoch'.misled
      <4>1. Floor' = 0 /\ Floor \in Nat
        BY <1>3, <3>3 DEF Floor, Natural
      <4> QED BY <4>1
    <3>4. CASE ~epoch'.misled
      <4>1. Floor' = PageDoc /\ Floor = PageDoc
        BY <2>7, <3>1, <3>4 DEF Floor
      <4> QED BY <3>2, <4>1
    <3> QED BY <3>3, <3>4
  <2>9. ASSUME events' # events PROVE Floor' <= chrome'.shown.doc
    <3>1. (m.page = Nothing \/ m.page.doc = PageDoc) /\ epoch'.misled = misled
      BY <2>4, <2>7, <2>9
    <3>2. chrome' = chrome /\ chrome.shown.doc \in Nat
      BY <1>2, <1>3 DEF Natural
    <3>3. CASE misled
      BY <2>7, <3>1, <3>2, <3>3 DEF Floor
    <3>4. CASE ~misled /\ (m.kind = "load" \/ m.page = Nothing)
      <4>1. ~(chrome.shown.doc < PageDoc)
        BY <2>3, <3>4, Zenon DEF Misleads, PageDoc
      <4>2. Floor' = PageDoc
        BY <2>7, <3>1, <3>4 DEF Floor
      <4> QED BY <1>3, <3>2, <4>1, <4>2 DEF Natural
    <3>5. CASE ~misled /\ m.kind = "paint" /\ m.page # Nothing
      <4>1. m.page.doc <= chrome.shown.doc
        BY <1>1, <3>5 DEF PageInv, Streams
      <4> QED BY <2>7, <3>1, <3>2, <3>5, <4>1 DEF Floor
    <3> QED BY <2>4, <3>3, <3>4, <3>5
  <2>10. PageTypes'
    BY <1>2, <1>5, <2>4, <2>5, <2>7 DEF PageTypes
  <2>11. PaintsOn
    BY <1>8, <2>2, <2>4, <2>5, <2>7, <2>9 DEF PaintsOn
  <2>12. BarrierOn /\ EpochOn
    BY <1>3, <2>7, <2>8 DEF BarrierOn, EpochOn, Natural
  <2>13. worker'.shot.page.doc <= PageDoc'
         /\ \A a \in AnswerMessages : worker'.answer = <<a>> =>
              a.page.doc <= PageDoc'
    BY <2>4, <2>7 DEF PageInv, Known
  <2>14. GoesOn
    BY <1>1, <1>6, <2>4, <2>6, <2>7, <2>10, <2>11, <2>12, <2>13 DEF GoesOn
  <2> QED BY <2>4, <2>14, ReadEventKeepsPage
<1>12. CASE ReadWithin(m)
  <2>1. PICK e : e = Event("within", epoch.current + 1, epoch.page, NoFrame)
    OBVIOUS
  <2>2. e \in Events /\ e.kind = "within"
    BY <1>3, <2>1, Unread DEF Event, Events, Heard, Pages, Natural
  <2>3. /\ m.kind = "within" /\ worker' = worker /\ Queue(e)
        /\ epoch' = [epoch EXCEPT !.current = @ + 1, !.same = epoch.current + 1,
                                  !.page = m.page]
        /\ next = PageDoc
    BY <1>12, <2>1 DEF ReadWithin, Committed
  <2>4. /\ events' \in Seq(Events)
        /\ Range(events') \subseteq Range(events) \cup {e}
    BY <1>5, <2>2, <2>3, QueueFacts DEF PageTypes
  <2>5. m.page.doc = PageDoc
    <3>1. PageDoc <= m.page.doc /\ m.page.doc <= PageDoc
      BY <1>1, <2>3 DEF Turns
    <3>2. PageDoc \in Nat /\ m.page.doc \in Nat
      BY <1>1, <1>3 DEF Natural
    <3> QED BY <3>1, <3>2
  <2>6. /\ epoch' \in Epochs /\ PageDoc' = PageDoc /\ Floor' = Floor
        /\ epoch'.current = epoch.current + 1 /\ epoch'.nav = epoch.nav
        /\ epoch'.barrier = epoch.barrier
    <3>1. PICK n \in Nat \ {0} : n = epoch.current + 1
      BY <1>3 DEF Natural
    <3>2. epoch' = [epoch EXCEPT !.current = n, !.same = n, !.page = m.page]
      BY <2>3, <3>1, Zenon
    <3>5. epoch \in Epochs
      BY <1>5 DEF PageTypes
    <3>3. epoch' \in Epochs /\ epoch'.current = n /\ epoch'.barrier = epoch.barrier
      BY <1>4, <3>2, <3>5 DEF Epochs
    <3>4. /\ epoch'.nav = epoch.nav /\ epoch'.page = m.page
          /\ epoch'.misled = epoch.misled
      BY <3>2, <3>5 DEF Epochs
    <3> QED BY <2>5, <3>1, <3>3, <3>4 DEF PageDoc, Floor
  <2>7. StampsOn
    BY <1>7, <2>2, <2>4
  <2>8. PageTypes'
    BY <1>2, <1>5, <2>3, <2>4, <2>6 DEF PageTypes
  <2>9. PaintsOn
    BY <1>8, <2>2, <2>3, <2>4 DEF PaintsOn
  <2>10. BarrierOn /\ EpochOn
    BY <1>3, <2>6 DEF BarrierOn, EpochOn, Natural
  <2>11. worker'.shot.page.doc <= PageDoc'
         /\ \A a \in AnswerMessages : worker'.answer = <<a>> =>
              a.page.doc <= PageDoc'
    BY <2>3, <2>6 DEF PageInv, Known
  <2>12. GoesOn
    BY <1>1, <1>6, <2>3, <2>6, <2>7, <2>8, <2>9, <2>10, <2>11 DEF GoesOn
  <2> QED BY <2>3, <2>12, ReadEventKeepsPage
<1>13. CASE ReadReply(m)
  <2>1. /\ m.kind = "answer" /\ events' = events /\ next = PageDoc
        /\ worker' = [worker EXCEPT !.answer = <<m>>]
        /\ epoch' = IF worker.at = "start"
                    THEN [epoch EXCEPT !.current = @ + 1] ELSE epoch
    BY <1>13 DEF ReadReply, Committed
  <2>2. m \in AnswerMessages
    BY <1>1, <2>1 DEF Messages, Heard
  <2>3. /\ epoch' \in Epochs /\ PageDoc' = PageDoc /\ Floor' = Floor
        /\ epoch'.nav = epoch.nav
        /\ epoch.current <= epoch'.current /\ epoch'.barrier = epoch.barrier
        /\ worker.at = "start" => epoch'.current = epoch.current + 1
    <3>1. CASE worker.at = "start"
      <4>1. PICK n \in Nat \ {0} : n = epoch.current + 1
        BY <1>3 DEF Natural
      <4>2. epoch' = [epoch EXCEPT !.current = n] /\ epoch \in Epochs
        BY <1>5, <2>1, <3>1, <4>1 DEF PageTypes
      <4>3. /\ epoch' \in Epochs /\ epoch'.current = n
            /\ epoch'.barrier = epoch.barrier
        BY <4>2 DEF Epochs
      <4>4. /\ epoch'.nav = epoch.nav /\ epoch'.page = epoch.page
            /\ epoch'.misled = epoch.misled
        BY <4>2 DEF Epochs
      <4> QED BY <1>3, <4>1, <4>3, <4>4 DEF PageDoc, Floor, Natural
    <3>2. CASE worker.at # "start"
      <4>1. epoch' = epoch /\ PageDoc' = PageDoc /\ Floor' = Floor
        BY <2>1, <3>2 DEF PageDoc, Floor
      <4>2. epoch \in Epochs /\ epoch.current <= epoch.current
        BY <1>3, <1>5 DEF PageTypes, Natural
      <4> QED BY <3>2, <4>1, <4>2
    <3> QED BY <3>1, <3>2
  <2>4. /\ worker' \in Workers /\ worker'.at = worker.at
        /\ worker'.cmd = worker.cmd /\ worker'.epoch = worker.epoch
        /\ worker'.shot = worker.shot /\ worker'.answer = <<m>>
    BY <1>5, <2>1, <2>2 DEF PageTypes, Workers
  <2>5. StampsOn
    BY <1>2, <2>1 DEF StampsOn, Stamped
  <2>6. PageTypes'
    BY <1>2, <1>5, <2>1, <2>3, <2>4 DEF PageTypes
  <2>7. PaintsOn
    BY <1>8, <2>1, <2>4 DEF PaintsOn
  <2>8. BarrierOn /\ EpochOn
    BY <1>3, <2>3 DEF BarrierOn, EpochOn, Natural
  <2>9. worker'.shot.page.doc <= PageDoc'
         /\ \A a \in AnswerMessages : worker'.answer = <<a>> =>
              a.page.doc <= PageDoc'
    BY <1>1, <2>1, <2>3, <2>4 DEF PageInv, Known
  <2>10. GoesOn
    BY <1>1, <1>6, <2>1, <2>3, <2>5, <2>6, <2>7, <2>8, <2>9 DEF GoesOn
  <2>11. Replying(wire') = {} /\ worker.at \in Waits
    <3>1. 1 \in Replying(wire)
      BY <1>1, <2>1
    <3>2. worker.at \in Waits /\ \A j \in Replying(wire) : j = 1
      BY <3>1 DEF PageInv, OneReply
    <3>3. ASSUME NEW i \in Replying(wire') PROVE FALSE
      <4>1. i \in Nat /\ i + 1 = 1 /\ i \in 1..Len(wire')
        BY <1>1, <3>2, <3>3 DEF Replying
      <4> QED BY <4>1
    <3> QED BY <3>2, <3>3
  <2>12. OneReply'
    BY <2>4, <2>11 DEF OneReply
  <2>13. Replies' \subseteq Replies
    BY <1>1, <2>1, <2>4 DEF Replies
  <2>14. Verifies'
    BY <1>2, <2>3, <2>4, <2>10, <2>13, VerifiesStays
  <2>15. (PageTypes /\ Streams(chrome, wire, PageDoc))'
    BY <2>10 DEF GoesOn
  <2> QED BY <2>10, <2>12, <2>14, <2>15, KnownStays DEF PageInv
<1> QED BY <1>9, <1>10, <1>11, <1>12, <1>13 DEF Read

(***************************************************************************)
(* The thread of the surface, the deadline and the user.                   *)
(***************************************************************************)
(* What a surface may become while the reader knows what it knows.         *)
Fits(r) ==
  /\ Sound(r) /\ r.acceptedNav <= epoch.nav /\ Shows(r)
  /\ Stock(r) \subseteq Stamped \cup {NoRetained}

LEMMA KeepsFits ==
  ASSUME PageInv, NEW r, Keeps(surf, r)
  PROVE  Fits(r) /\ r.acceptedNav = surf.acceptedNav
<1>1. /\ Sound(r) /\ r.acceptedNav = surf.acceptedNav
      /\ r.accepted = surf.accepted /\ r.latest = surf.latest
      /\ Stock(r) \subseteq Stock(surf) \cup {NoRetained}
  BY DEF Keeps, Becomes
<1>2. Shows(r)
  BY <1>1 DEF PageInv, Shows
<1> QED BY <1>1, <1>2 DEF Fits, Stamped, PageInv, Known

LEMMA EnqueueFacts ==
  ASSUME NEW cmd \in Orders, todo \in Seq(Orders), Enqueue(cmd)
  PROVE  /\ todo' \in Seq(Orders)
         /\ Range(todo') \subseteq Range(todo) \cup {cmd}
<1>1. PICK P \in SUBSET DOMAIN todo :
        todo' = Append(Without(todo, P), cmd)
  BY DEF Enqueue
<1>2. PICK q : q = Without(todo, P)
  OBVIOUS
<1>3. q \in Seq(Orders) /\ Range(q) \subseteq Range(todo)
  BY <1>2, WithoutRange
<1>4. todo' \in Seq(Orders) /\ Range(todo') = Range(q) \cup {cmd}
  BY <1>1, <1>2, <1>3, AppendRange
<1> QED BY <1>3, <1>4

LEMMA CommandFacts ==
  ASSUME NEW kind \in Kinds, NEW doc \in Nat, NEW nav \in Nat,
         NEW c, c = Command(kind, doc, nav)
  PROVE  c \in Orders /\ c.kind = kind /\ c.nav = nav
BY DEF Command, Orders

(* A step that leaves the epoch of the reader alone.                       *)
LEMMA SameEpochGoesOn ==
  ASSUME PageInv, epoch' = epoch, Streams(chrome', wire', PageDoc),
         Flows(chrome, wire, chrome', wire'),
         events' \in Seq(Events), Range(events') \subseteq Range(events),
         todo' \in Seq(Orders), batch' \in Seq(Orders), worker' \in Workers,
         worker'.at \in {"shoot", "check"} => worker'.epoch >= 1,
         Fits(surf'),
         \A c \in Commanded' : c.kind = "paint" =>
           \/ c \in Commanded
           \/ \E e \in Range(events) : e.kind = "paint" /\ c.nav = e.epoch,
         worker'.shot.page.doc <= PageDoc,
         worker'.answer \in {<<>>, worker.answer}
  PROVE  GoesOn
<1>1. PageTypes' /\ Streams(chrome', wire', PageDoc')
  BY DEF PageInv, PageTypes, PageDoc, Fits
<1>2. StampsOn
  BY DEF StampsOn, Stamped, Fits
<1>3. PaintsOn
  BY DEF PaintsOn
<1>4. Natural
  BY Numbers DEF PageInv
<1>5. BarrierOn /\ EpochOn
  BY <1>4 DEF BarrierOn, EpochOn, PageDoc, Floor, Natural
<1>6. surf'.acceptedNav <= epoch.nav /\ Shows(surf')
  BY DEF Fits
<1>7. /\ worker'.shot.page.doc <= PageDoc'
      /\ \A a \in AnswerMessages : worker'.answer = <<a>> =>
           a.page.doc <= PageDoc'
  <2>1. \A a : <<a>> # <<>>
    OBVIOUS
  <2> QED BY <2>1 DEF PageInv, Known, PageDoc
<1> QED BY <1>1, <1>2, <1>3, <1>5, <1>6, <1>7 DEF GoesOn

LEMMA SilentFlows ==
  ASSUME PageInv, UNCHANGED <<chrome, wire>>
  PROVE  Streams(chrome', wire', PageDoc) /\ Flows(chrome, wire, chrome', wire')
<1>1. Natural
  BY Numbers DEF PageInv
<1> QED BY <1>1 DEF PageInv, Flows, Natural

LEMMA SurfaceStep ==
  ASSUME PageInv, UNCHANGED <<chrome, wire, epoch, batch, worker>>,
         events' \in Seq(Events), Range(events') \subseteq Range(events),
         todo' \in Seq(Orders), Fits(surf'),
         surf'.acceptedNav = surf.acceptedNav,
         \A c \in Range(todo') : c.kind = "paint" =>
           \/ c \in Range(todo)
           \/ \E e \in Range(events) : e.kind = "paint" /\ c.nav = e.epoch
  PROVE  PageInv'
<1>1. Streams(chrome', wire', PageDoc) /\ Flows(chrome, wire, chrome', wire')
  BY SilentFlows
<1>2. /\ batch' \in Seq(Orders) /\ worker' \in Workers
      /\ worker'.at \in {"shoot", "check"} => worker'.epoch >= 1
      /\ worker'.shot.page.doc <= PageDoc
      /\ worker'.answer \in {<<>>, worker.answer}
  BY DEF PageInv, PageTypes, Known
<1>3. \A c \in Commanded' : c.kind = "paint" =>
        \/ c \in Commanded
        \/ \E e \in Range(events) : e.kind = "paint" /\ c.nav = e.epoch
  BY DEF Commanded
<1>4. GoesOn
  BY <1>1, <1>2, <1>3, SameEpochGoesOn
<1>5. Replying(wire') = Replying(wire) /\ Replies' \subseteq Replies
  BY DEF Replies
<1> QED BY <1>4, <1>5, OthersStep

LEMMA HandleEventKeepsPage ==
  ASSUME PageInv, HandleEvent
  PROVE  PageInv'
<1> PICK e : e = Head(events)
  OBVIOUS
<1>1. /\ events \in Seq(Events) /\ todo \in Seq(Orders) /\ Sound(surf)
      /\ UNCHANGED <<chrome, wire, epoch, batch, worker>>
      /\ events # <<>> /\ events' = Tail(events)
  BY DEF PageInv, PageTypes, HandleEvent
<1>2. /\ events' \in Seq(Events) /\ Range(events') \subseteq Range(events)
      /\ e \in Events /\ e \in Range(events)
  BY <1>1, TailRange
<1>3. Natural
  BY Numbers DEF PageInv
<1>4. Fits(surf) /\ Keeps(surf, surf)
  BY <1>1, KeepsItself, KeepsFits
<1>5. CASE e.kind = "frame" /\ surf' = StoredForEpoch(surf, e.frame, e.epoch)
           /\ UNCHANGED todo
  <2>1. PICK x : x = [epoch |-> e.epoch, frame |-> e.frame]
    OBVIOUS
  <2>2. e.frame \in Frames /\ e.epoch \in Nat
    BY <1>2 DEF Events
  <2>3. /\ Sound(surf') /\ surf'.acceptedNav = surf.acceptedNav
        /\ surf'.accepted = surf.accepted
        /\ surf'.latest = surf.latest
           \/ (surf'.latest = e.frame /\ e.epoch = surf.accepted)
        /\ Stock(surf') \subseteq Stock(surf) \cup {NoRetained, x}
    BY <1>1, <1>5, <2>1, <2>2, StoredForEpochBecomes
  <2>4. x \in Stamped
    BY <1>2, <1>5, <2>1 DEF Stamped
  <2>5. Stock(surf') \subseteq Stamped \cup {NoRetained}
    BY <2>3, <2>4 DEF Stamped
  <2>6. Shows(surf')
    <3> SUFFICES ASSUME surf'.acceptedNav = epoch.nav
                 PROVE  /\ FreshFrom(surf'.accepted, Floor)
                        /\ surf'.latest # NoFrame =>
                             /\ Floor <= surf'.latest.page.doc
                             /\ surf'.latest.page.doc <= PageDoc
      BY DEF Shows
    <3>1. /\ FreshFrom(surf.accepted, Floor)
          /\ surf.latest # NoFrame => /\ Floor <= surf.latest.page.doc
                                      /\ surf.latest.page.doc <= PageDoc
      BY <2>3 DEF PageInv, Shows
    <3>2. CASE surf'.latest = e.frame /\ e.epoch = surf.accepted
      <4>1. x.epoch = surf.accepted /\ x.frame = e.frame
        BY <2>1, <3>2
      <4>2. x.frame.page.doc <= PageDoc
        BY <2>4 DEF PageInv, Known
      <4>3. Floor <= x.frame.page.doc
        <5>1. x.epoch \in Nat /\ surf.accepted \in Nat
          BY <1>3, <2>4 DEF Natural
        <5> QED BY <2>4, <3>1, <4>1, <5>1 DEF FreshFrom
      <4> QED BY <2>3, <3>1, <3>2, <4>1, <4>2, <4>3
    <3> QED BY <2>3, <3>1, <3>2
  <2>7. Fits(surf')
    BY <2>3, <2>5, <2>6 DEF Fits, PageInv, Known
  <2> QED BY <1>1, <1>2, <1>5, <2>3, <2>7, SurfaceStep
<1>6. CASE e.kind = "navigated" /\ surf' = ObserveNavigation(surf, e.epoch)
           /\ UNCHANGED todo
  <2>1. Keeps(surf, surf')
    BY <1>1, <1>6, ObserveNavigationKeeps
  <2>2. Fits(surf') /\ surf'.acceptedNav = surf.acceptedNav
    BY <2>1, KeepsFits
  <2> QED BY <1>1, <1>2, <1>6, <2>2, SurfaceStep
<1>7. CASE e.kind = "paint" /\ UNCHANGED surf
           /\ (todo' = todo \/ Enqueue(Command("paint", e.doc, e.epoch)))
  <2>1. PICK c : c = Command("paint", e.doc, e.epoch)
    OBVIOUS
  <2>2. c \in Orders /\ c.nav = e.epoch
    <3>1. e.doc \in Nat /\ e.epoch \in Nat
      BY <1>2 DEF Events
    <3> QED BY <2>1, <3>1, CommandFacts DEF Kinds
  <2>3. todo' \in Seq(Orders) /\ Range(todo') \subseteq Range(todo) \cup {c}
    BY <1>1, <1>7, <2>1, <2>2, EnqueueFacts
  <2> QED BY <1>1, <1>2, <1>4, <1>7, <2>2, <2>3, SurfaceStep
<1>8. CASE e.kind = "within" /\ surf' = ObserveSame(surf, e.epoch)
           /\ (todo' = todo \/ Enqueue(Command("same", e.doc, None)))
  <2>1. PICK c : c = Command("same", e.doc, None)
    OBVIOUS
  <2>2. c \in Orders /\ c.kind # "paint"
    <3>1. e.doc \in Nat /\ None \in Nat
      BY <1>2 DEF Events, None
    <3> QED BY <2>1, <3>1, CommandFacts DEF Kinds
  <2>3. todo' \in Seq(Orders) /\ Range(todo') \subseteq Range(todo) \cup {c}
    BY <1>1, <1>8, <2>1, <2>2, EnqueueFacts
  <2>4. Keeps(surf, surf')
    BY <1>1, <1>8, ObserveSameKeeps
  <2>5. Fits(surf') /\ surf'.acceptedNav = surf.acceptedNav
    BY <2>4, KeepsFits
  <2> QED BY <1>1, <1>2, <2>2, <2>3, <2>5, SurfaceStep
<1> QED BY <1>5, <1>6, <1>7, <1>8 DEF HandleEvent

LEMMA ExpireKeepsPage ==
  ASSUME PageInv, Expire
  PROVE  PageInv'
<1>1. /\ events \in Seq(Events) /\ todo \in Seq(Orders) /\ Sound(surf)
      /\ UNCHANGED <<chrome, wire, epoch, events, todo, batch, worker>>
  BY DEF PageInv, PageTypes, Expire
<1>2. Keeps(surf, surf')
  <2>1. CASE surf' = [surf EXCEPT !.deadline = FALSE]
    <3>1. Same(surf, surf')
      BY <1>1, <2>1 DEF Same, Sound, Body, Shaped, SurfaceFields
    <3> QED BY <1>1, <3>1, SameKeeps
  <2>2. CASE \E kind : surf' = MarkAuthorityFailed(surf, kind)
    BY <1>1, <2>2, MarkAuthorityFailedKeeps
  <2> QED BY <2>1, <2>2 DEF Expire
<1>3. Fits(surf') /\ surf'.acceptedNav = surf.acceptedNav
  BY <1>2, KeepsFits
<1> QED BY <1>1, <1>3, SurfaceStep

LEMMA UserKeepsPage ==
  ASSUME PageInv, Press \/ \E kind \in Commands : Ask(kind)
  PROVE  PageInv'
<1>1. /\ events \in Seq(Events) /\ todo \in Seq(Orders) /\ Sound(surf)
      /\ UNCHANGED <<chrome, wire, epoch, events, batch, worker>>
  BY DEF PageInv, PageTypes, Press, Ask
<1>2. Keeps(surf, surf')
  <2>1. CASE surf' = [surf EXCEPT !.failures = 0]
    <3>1. Same(surf, surf')
      BY <1>1, <2>1 DEF Same, Sound, Body, Shaped, SurfaceFields
    <3> QED BY <1>1, <3>1, SameKeeps
  <2>2. CASE surf' = surf
    BY <1>1, <2>2, KeepsItself
  <2> QED BY <2>1, <2>2 DEF Press, Ask
<1>3. Fits(surf') /\ surf'.acceptedNav = surf.acceptedNav
  BY <1>2, KeepsFits
<1>4. /\ todo' \in Seq(Orders)
      /\ \A c \in Range(todo') : c.kind = "paint" => c \in Range(todo)
  <2>1. CASE Press
    BY <1>1, <2>1 DEF Press
  <2>2. ASSUME NEW kind \in Commands, Ask(kind)
        PROVE  /\ todo' \in Seq(Orders)
               /\ \A c \in Range(todo') : c.kind = "paint" => c \in Range(todo)
    <3>1. PICK c : c = Command(kind, None, None)
      OBVIOUS
    <3>2. kind \in {"navigate", "reload", "resize"}
      BY AuthorityAssumption
    <3>3. c \in Orders /\ c.kind # "paint"
      BY <3>1, <3>2, CommandFacts DEF None, Kinds
    <3> QED BY <1>1, <2>2, <3>1, <3>3, EnqueueFacts DEF Ask
  <2> QED BY <2>1, <2>2
<1> QED BY <1>1, <1>3, <1>4, SurfaceStep

(***************************************************************************)
(* The worker.                                                             *)
(***************************************************************************)
LEMMA FitsOn ==
  ASSUME NEW s, Fits(s), NEW r, Keeps(s, r)
  PROVE  Fits(r)
<1>1. /\ Sound(r) /\ r.acceptedNav = s.acceptedNav
      /\ r.accepted = s.accepted /\ r.latest = s.latest
      /\ Stock(r) \subseteq Stock(s) \cup {NoRetained}
  BY DEF Keeps, Becomes
<1>2. Shows(r)
  BY <1>1 DEF Fits, Shows
<1> QED BY <1>1, <1>2 DEF Fits

Ends == {"ok", "error", "timeout", "settled"}

LEMMA EndKeeps ==
  ASSUME NEW s, Sound(s), NEW result \in Ends,
         NEW q, q = [s EXCEPT !.held = NoToken, !.heldFresh = FALSE]
  PROVE  Keeps(s, Report(q, result))
<1>1. q = [s EXCEPT !.held = NoToken, !.heldFresh = FALSE]
  OBVIOUS
<1>2. Shaped(q)
  BY <1>1 DEF Sound, Body, Shaped
<1>3. /\ q.latest = s.latest /\ q.accepted = s.accepted
      /\ q.acceptedNav = s.acceptedNav /\ q.ptr = s.ptr
      /\ q.retained = s.retained /\ q.held = NoToken
      /\ q.rollback = s.rollback
  BY <1>1 DEF Sound, Body, Shaped, SurfaceFields
<1>4. Keeps(s, q)
  BY <1>2, <1>3, Unread DEF Keeps, Becomes, Sound, Body, Stock
<1>5. Keeps(q, Report(q, result))
  <2>1. Sound(q)
    BY <1>4 DEF Keeps, Becomes
  <2>2. result \in {"ok", "error", "timeout", "settled"}
    BY DEF Ends
  <2> QED BY <2>1, <2>2, ReportKeeps
<1> QED BY <1>4, <1>5, KeepsOn

(* An answer has come, or none was asked for.                              *)
Silent == worker.at \notin Waits \/ worker.answer # <<>>

LEMMA SilentWire ==
  ASSUME PageInv, Silent
  PROVE  Replying(wire) = {} /\ \A m \in Range(wire) : m.kind # "answer"
<1>1. Replying(wire) = {}
  BY DEF PageInv, OneReply, Silent
<1>2. wire \in Seq(Messages)
  BY DEF PageInv, Streams
<1> QED BY <1>1, <1>2, SilentRange

LEMMA AnswerCame ==
  ASSUME PageInv, worker.answer # <<>>
  PROVE  /\ Head(worker.answer) \in AnswerMessages
         /\ Head(worker.answer) \in Replies
         /\ worker.answer = <<Head(worker.answer)>>
<1>1. PICK a \in AnswerMessages : worker.answer = <<a>>
  BY DEF PageInv, PageTypes, Workers
<1>2. Head(worker.answer) = a
  BY <1>1
<1> QED BY <1>1, <1>2 DEF Replies

LEMMA AskFacts ==
  ASSUME PageInv, Silent, NEW a \in AnswerMessages, a.page.doc <= chrome.page.doc,
         wire' = Append(wire, a), chrome' \in Chromes,
         chrome'.page = chrome.page, chrome'.shown = chrome.shown,
         chrome'.encoder = chrome.encoder, chrome.clock <= chrome'.clock
  PROVE  /\ Streams(chrome', wire', PageDoc)
         /\ Flows(chrome, wire, chrome', wire')
         /\ Flying(chrome', wire') \subseteq Flying(chrome, wire)
         /\ \A i, j \in Replying(wire') : i = j
         /\ \A m \in Range(wire') : m.kind = "answer" => m = a
<1>1. a \in Messages /\ a.kind = "answer" /\ a.kind \notin Turns
  BY DEF Messages, AnswerMessages, Turns, Committed
<1>2. /\ wire \in Seq(Messages) /\ Streams(chrome, wire, PageDoc)
  BY DEF PageInv, Streams
<1>3. Natural
  BY Numbers DEF PageInv
<1>4. /\ chrome.page.doc <= chrome'.page.doc
      /\ chrome.shown.doc <= chrome'.shown.doc
      /\ chrome'.shown.doc <= chrome'.page.doc
      /\ chrome'.page.doc <= chrome'.page.view
      /\ PageDoc \in Nat
  BY <1>2, <1>3 DEF Natural, Streams
<1>5. /\ Streams(chrome', Append(wire, a), PageDoc)
      /\ Flows(chrome, wire, chrome', Append(wire, a))
  BY <1>1, <1>2, <1>4, SendStreams
<1>6. Range(wire') = Range(wire) \cup {a}
  BY <1>1, <1>2, AppendRange
<1>7. Flying(chrome', wire') \subseteq Flying(chrome, wire)
  BY <1>1, <1>6 DEF Flying
<1>8. \A i, j \in Replying(wire') : i = j
  BY <1>1, <1>2, SendReplying, SilentWire
<1>9. \A m \in Range(wire') : m.kind = "answer" => m = a
  BY <1>6, SilentWire
<1> QED BY <1>5, <1>7, <1>8, <1>9

LEMMA AnswerFacts ==
  ASSUME NEW result \in Results, NEW page \in Pages, NEW at \in Nat,
         NEW a, a = Answer(result, page, at)
  PROVE  a \in AnswerMessages /\ a.page = page /\ a.at = at
BY DEF Answer, AnswerMessages

(* A step after which the worker does not verify pixels.                   *)
LEMMA QuietKeepsPage ==
  ASSUME PageInv, UNCHANGED <<epoch, events>>,
         Streams(chrome', wire', PageDoc), Flows(chrome, wire, chrome', wire'),
         todo' \in Seq(Orders), batch' \in Seq(Orders), worker' \in Workers,
         worker'.at \notin {"stop", "start", "shoot", "check"},
         worker'.answer = <<>>, worker'.shot.page.doc <= PageDoc,
         \A c \in Commanded' : c.kind = "paint" => c \in Commanded,
         Fits(surf'),
         \A i, j \in Replying(wire') : i = j,
         worker'.at \notin Waits => Replying(wire') = {}
  PROVE  PageInv'
<1>1. events' \in Seq(Events) /\ Range(events') \subseteq Range(events)
  BY DEF PageInv, PageTypes
<1>2. GoesOn
  BY <1>1, SameEpochGoesOn
<1>3. OneReply'
  BY DEF OneReply
<1>4. Verifies'
  BY DEF Verifies
<1>5. (PageTypes /\ Streams(chrome, wire, PageDoc))'
  BY <1>2 DEF GoesOn
<1> QED BY <1>2, <1>3, <1>4, <1>5, KnownStays DEF PageInv

LEMMA IdleFacts ==
  /\ Idle \in Workers /\ Idle.at = "idle" /\ Idle.answer = <<>>
  /\ Idle.shot = NoFrame /\ NoFrame.page.doc = 0 /\ Idle.cmd.kind = "none"
<1>1. NoCommand \in Orders /\ NoCommand.kind = "none"
  BY DEF NoCommand, Orders, Kinds, None
<1> QED BY <1>1, Unread DEF Idle, Workers, Places, NoFrame, Nothing, None

LEMMA DoneKeepsPage ==
  ASSUME PageInv, Silent, NEW s, Fits(s), NEW result \in Ends, Done(s, result),
         UNCHANGED <<epoch, events, todo, batch>>
  PROVE  PageInv'
<1>1. /\ worker' = Idle /\ UNCHANGED <<chrome, wire>>
      /\ surf' = Report([s EXCEPT !.held = NoToken, !.heldFresh = FALSE], result)
  BY DEF Done
<1>2. Fits(surf')
  <2>1. PICK q : q = [s EXCEPT !.held = NoToken, !.heldFresh = FALSE]
    OBVIOUS
  <2>2. surf' = Report(q, result) /\ Sound(s)
    BY <1>1, <2>1 DEF Fits
  <2>3. Keeps(s, Report(q, result))
    BY <2>1, <2>2, EndKeeps
  <2> QED BY <2>2, <2>3, FitsOn
<1>3. Streams(chrome', wire', PageDoc) /\ Flows(chrome, wire, chrome', wire')
  BY <1>1, SilentFlows
<1>4. Replying(wire') = {}
  BY <1>1, SilentWire
<1>5. /\ todo' \in Seq(Orders) /\ batch' \in Seq(Orders)
      /\ \A c \in Commanded' : c.kind = "paint" => c \in Commanded
  BY <1>1, IdleFacts DEF PageInv, PageTypes, Commanded
<1>6. worker'.shot.page.doc <= PageDoc
  <2>1. PageDoc \in Nat
    BY Numbers DEF PageInv, Natural
  <2> QED BY <1>1, <2>1, IdleFacts
<1>7. /\ worker' \in Workers
      /\ worker'.at \notin {"stop", "start", "shoot", "check"}
      /\ worker'.answer = <<>>
  BY <1>1, IdleFacts
<1> QED BY <1>2, <1>3, <1>4, <1>5, <1>6, <1>7, QuietKeepsPage

(* The worker waits for an answer to the navigation it runs.               *)
LEMMA WaitsKeepsPage ==
  ASSUME PageInv, UNCHANGED <<epoch, events, todo, batch>>, Fits(surf'),
         Streams(chrome', wire', PageDoc), Flows(chrome, wire, chrome', wire'),
         worker' \in Workers,
         worker'.at \in {"stopload", "navigate", "snapshot"},
         worker'.answer = <<>>, worker'.cmd = worker.cmd,
         worker'.shot = worker.shot,
         \A i, j \in Replying(wire') : i = j
  PROVE  PageInv'
<1>1. /\ todo' \in Seq(Orders) /\ batch' \in Seq(Orders)
      /\ \A c \in Commanded' : c.kind = "paint" => c \in Commanded
      /\ worker'.shot.page.doc <= PageDoc
  BY DEF PageInv, PageTypes, Known, Commanded
<1>2. /\ worker'.at \notin {"stop", "start", "shoot", "check"}
      /\ worker'.at \in Waits
  BY DEF Waits
<1> QED BY <1>1, <1>2, QuietKeepsPage

Still == UNCHANGED <<epoch, events, todo, batch>>

LEMMA WorkerFacts ==
  ASSUME NEW w \in Workers, NEW at \in Places
  PROVE  LET v == [w EXCEPT !.at = at, !.answer = <<>>]
         IN /\ v \in Workers /\ v.at = at /\ v.answer = <<>>
            /\ v.cmd = w.cmd /\ v.shot = w.shot /\ v.epoch = w.epoch
<1>1. PICK v : v = [w EXCEPT !.at = at, !.answer = <<>>]
  OBVIOUS
<1>2. /\ v.at = at /\ v.answer = <<>> /\ v.cmd = w.cmd /\ v.shot = w.shot
      /\ v.epoch = w.epoch
  BY <1>1 DEF Workers
<1>3. v \in Workers
  BY <1>1 DEF Workers
<1> QED BY <1>1, <1>2, <1>3

LEMMA NothingFacts == Nothing \in Pages /\ Nothing.doc = 0 /\ None \in Nat
BY DEF Nothing, Pages, None

LEMMA NavigateKeepsPage ==
  ASSUME PageInv, Silent, Still, NEW s, Fits(s), Navigate(worker, s)
  PROVE  PageInv'
<1>1. /\ worker' = [worker EXCEPT !.at = "navigate", !.answer = <<>>]
      /\ surf' = s
  BY DEF Navigate
<1>2. /\ worker \in Workers /\ chrome \in Chromes /\ wire \in Seq(Messages)
      /\ Streams(chrome, wire, PageDoc)
  BY DEF PageInv, PageTypes, Streams
<1>3. /\ worker' \in Workers /\ worker'.at = "navigate"
      /\ worker'.answer = <<>> /\ worker'.cmd = worker.cmd
      /\ worker'.shot = worker.shot
  BY <1>1, <1>2, WorkerFacts DEF Places
<1>4. Natural
  BY Numbers DEF PageInv
<1>5. ASSUME Streams(chrome', wire', PageDoc),
             Flows(chrome, wire, chrome', wire'),
             \A i, j \in Replying(wire') : i = j
      PROVE  PageInv'
  BY <1>1, <1>3, <1>5, WaitsKeepsPage DEF Still
<1>6. ASSUME NEW result \in Results, Sends(Answer(result, Nothing, None)),
             UNCHANGED chrome
      PROVE  PageInv'
  <2>1. PICK a : a = Answer(result, Nothing, None)
    OBVIOUS
  <2>2. a \in AnswerMessages /\ a.page = Nothing
    BY <2>1, NothingFacts, AnswerFacts
  <2>3. a.page.doc <= chrome.page.doc /\ chrome.clock <= chrome'.clock
    BY <1>4, <1>6, <2>2, NothingFacts DEF Natural
  <2>4. wire' = Append(wire, a)
    BY <1>6, <2>1 DEF Sends
  <2> QED BY <1>2, <1>5, <1>6, <2>2, <2>3, <2>4, AskFacts
<1>7. ASSUME chrome' = Within(chrome),
             LET m == Message("within", chrome'.page, None)
                 a == Answer("within", Nothing, None)
             IN wire' = wire \o <<m, a>> \/ wire' = wire \o <<a, m>>
      PROVE  PageInv'
  <2>1. PICK m : m = Message("within", chrome'.page, None)
    OBVIOUS
  <2>2. PICK a : a = Answer("within", Nothing, None)
    OBVIOUS
  <2>3. /\ chrome' \in Chromes /\ chrome'.page.doc = chrome.page.doc
        /\ chrome'.page \in Pages /\ chrome'.page.doc <= chrome'.page.view
        /\ chrome'.shown.doc = chrome.shown.doc
        /\ chrome'.clock = chrome.clock /\ chrome'.encoder = chrome.encoder
        /\ chrome.shown.doc <= chrome.page.doc
    BY <1>2, <1>7, WithinFacts DEF Streams
  <2>4. a \in Messages /\ a.kind = "answer" /\ a.page.doc = 0
    <3>1. a \in AnswerMessages /\ a.page = Nothing
      BY <2>2, NothingFacts, AnswerFacts DEF Results
    <3> QED BY <3>1, NothingFacts DEF Messages, AnswerMessages
  <2>5. m \in Messages /\ m.kind = "within" /\ m.page.doc = chrome'.page.doc
    BY <2>1, <2>3 DEF Message, Messages, AnswerMessages, Heard, None
  <2>6. \A z \in {m, a} :
          /\ z \in Messages /\ z.page.doc <= chrome'.page.doc
          /\ z.kind \in Turns => z.page.doc = chrome'.page.doc
          /\ z.kind \notin Committed /\ z.kind # "paint" /\ z.kind # "frame"
    <3>1. chrome'.page.doc \in Nat
      BY <1>4, <2>3 DEF Natural
    <3> QED BY <2>4, <2>5, <3>1 DEF Turns, Committed
  <2>7. /\ chrome.page.doc <= chrome'.page.doc
        /\ chrome.shown.doc <= chrome'.shown.doc
        /\ chrome'.shown.doc <= chrome'.page.doc
        /\ chrome.clock <= chrome'.clock /\ PageDoc \in Nat
        /\ chrome'.page.doc <= chrome'.page.doc
        /\ chrome'.shown.doc <= chrome'.shown.doc
        /\ chrome'.clock <= chrome'.clock
    BY <1>4, <2>3 DEF Natural
  <2>8. ASSUME NEW x \in {m, a}, NEW y \in {m, a}, x # y,
               wire' = Append(Append(wire, x), y)
        PROVE  PageInv'
    <3>1. PICK v : v = Append(wire, x)
      OBVIOUS
    <3>2. x \in Messages /\ y \in Messages
      BY <2>6
    <3>3. Streams(chrome', v, PageDoc) /\ Flows(chrome, wire, chrome', v)
      <4>1. /\ x.page.doc <= chrome'.page.doc
            /\ x.kind \in Turns => x.page.doc = chrome'.page.doc
            /\ x.kind \notin Committed /\ x.kind # "paint" /\ x.kind # "frame"
        BY <2>6
      <4> QED BY <1>2, <2>3, <2>7, <3>1, <3>2, <4>1, SendStreams
    <3>4. v \in Seq(Messages) /\ wire' = Append(v, y)
      BY <2>8, <3>1, <3>3 DEF Streams
    <3>5. /\ Streams(chrome', Append(v, y), PageDoc)
          /\ Flows(chrome', v, chrome', Append(v, y))
      <4>1. /\ y.page.doc <= chrome'.page.doc
            /\ y.kind \in Turns => y.page.doc = chrome'.page.doc
            /\ y.kind \notin Committed /\ y.kind # "paint" /\ y.kind # "frame"
        BY <2>6
      <4> QED BY <2>3, <2>7, <3>2, <3>3, <4>1, SendStreams
    <3>6. Streams(chrome', wire', PageDoc) /\ Flows(chrome, wire, chrome', wire')
      BY <1>2, <2>3, <3>3, <3>4, <3>5, FlowsOn DEF Streams
    <3>7. \A i, j \in Replying(wire') : i = j
      <4>1. /\ Replying(v) = Replying(wire)
                 \cup {i \in {Len(wire) + 1} : x.kind = "answer"}
            /\ Replying(wire') = Replying(v)
                 \cup {i \in {Len(v) + 1} : y.kind = "answer"}
        BY <1>2, <3>1, <3>2, <3>4, SendReplying
      <4>2. Replying(wire) = {}
        BY SilentWire
      <4>3. x.kind # "answer" \/ y.kind # "answer"
        BY <2>4, <2>5, <2>8
      <4> QED BY <4>1, <4>2, <4>3
    <3> QED BY <1>5, <3>6, <3>7
  <2>9. \A x, y \in Messages : wire \o <<x, y>> = Append(Append(wire, x), y)
    <3> SUFFICES ASSUME NEW x \in Messages, NEW y \in Messages
                 PROVE  wire \o <<x, y>> = Append(Append(wire, x), y)
      OBVIOUS
    <3>1. /\ <<x>> \in Seq(Messages) /\ <<y>> \in Seq(Messages)
          /\ <<x, y>> = <<x>> \o <<y>>
      <4>1. <<x>> \in Seq(Messages) /\ <<y>> \in Seq(Messages)
        OBVIOUS
      <4>2. <<x, y>> = Append(<<x>>, y)
        OBVIOUS
      <4> QED BY <4>1, <4>2, AppendIsConcat
    <3>2. Append(wire, x) = wire \o <<x>> /\ Append(wire, x) \in Seq(Messages)
      BY <1>2, AppendIsConcat, AppendProperties
    <3>3. Append(Append(wire, x), y) = Append(wire, x) \o <<y>>
      BY <3>2, AppendIsConcat
    <3> QED BY <1>2, <3>1, <3>2, <3>3, ConcatAssociative
  <2>10. m # a
    BY <2>4, <2>5
  <2> QED BY <1>7, <2>1, <2>2, <2>6, <2>8, <2>9, <2>10
<1>8. ASSUME UNCHANGED <<chrome, wire>>
      PROVE  PageInv'
  BY <1>5, <1>8, SilentFlows, SilentWire
<1> QED BY <1>6, <1>7, <1>8 DEF Navigate, Results

LEMMA AskSnapshotKeepsPage ==
  ASSUME PageInv, Silent, Still, NEW w \in Workers, AskSnapshot(w),
         w.cmd = worker.cmd, w.shot = worker.shot
  PROVE  PageInv'
<1>1. PICK seen : seen = [current |-> epoch.current, same |-> epoch.same]
  OBVIOUS
<1>2. /\ worker' = [w EXCEPT !.at = "snapshot", !.answer = <<>>, !.seen = seen]
      /\ wire' = Append(wire, Answer("ok", chrome.page, None))
      /\ chrome' = chrome /\ surf' = surf
  BY <1>1 DEF AskSnapshot
<1>3. Natural /\ Sound(surf) /\ chrome \in Chromes
  BY Numbers DEF PageInv, PageTypes, Streams
<1>4. seen \in [current : Nat, same : Nat]
  BY <1>1 DEF PageInv, PageTypes, Epochs
<1>5. /\ worker' \in Workers /\ worker'.at = "snapshot"
      /\ worker'.answer = <<>> /\ worker'.cmd = worker.cmd
      /\ worker'.shot = worker.shot
  <2>1. worker' \in Workers
    BY <1>2, <1>4 DEF Workers, Places
  <2> QED BY <1>2, <2>1 DEF Workers
<1>6. PICK a : a = Answer("ok", chrome.page, None)
  OBVIOUS
<1>7. a \in AnswerMessages /\ a.page = chrome.page
  BY <1>3, <1>6, NothingFacts, AnswerFacts DEF Results, Chromes
<1>8. /\ Streams(chrome', wire', PageDoc) /\ Flows(chrome, wire, chrome', wire')
      /\ \A i, j \in Replying(wire') : i = j
  <2>1. a.page.doc <= chrome.page.doc /\ chrome.clock <= chrome'.clock
    BY <1>2, <1>3, <1>7 DEF Natural
  <2> QED BY <1>2, <1>3, <1>6, <1>7, <2>1, AskFacts
<1>9. Fits(surf')
  BY <1>2, <1>3, KeepsItself, KeepsFits
<1> QED BY <1>5, <1>8, <1>9, WaitsKeepsPage DEF Still

LEMMA BeginNavigationKeepsPage ==
  ASSUME PageInv, Still, BeginNavigation
  PROVE  PageInv'
<1>1. worker.at = "begin" /\ Silent /\ worker \in Workers /\ Sound(surf)
  BY DEF BeginNavigation, Silent, Waits, PageInv, PageTypes
<1>2. Fits(surf)
  BY <1>1, KeepsItself, KeepsFits
<1>3. CASE Done(surf, "error")
  BY <1>1, <1>2, <1>3, DoneKeepsPage DEF Still, Ends
<1>4. ASSUME NEW targeted, Navigate(worker, Reserve(surf, targeted))
      PROVE  PageInv'
  <2>1. Fits(Reserve(surf, targeted))
    BY <1>1, ReserveKeeps, KeepsFits
  <2> QED BY <1>1, <1>4, <2>1, NavigateKeepsPage
<1>5. CASE /\ worker' = [worker EXCEPT !.at = "stopload"]
           /\ Sends(Answer("ok", Nothing, None))
           /\ UNCHANGED <<chrome, surf>>
  <2>1. worker.answer = <<>>
    BY <1>1 DEF PageInv, OneReply, Waits
  <2>2. /\ worker' \in Workers /\ worker'.at = "stopload"
        /\ worker'.answer = <<>> /\ worker'.cmd = worker.cmd
        /\ worker'.shot = worker.shot
    BY <1>1, <1>5, <2>1 DEF Workers, Places
  <2>3. PICK a : a = Answer("ok", Nothing, None)
    OBVIOUS
  <2>4. a \in AnswerMessages /\ a.page = Nothing
    BY <2>3, NothingFacts, AnswerFacts DEF Results
  <2>5. a.page.doc <= chrome.page.doc /\ chrome.clock <= chrome'.clock
        /\ chrome \in Chromes
    <3>1. Natural
      BY Numbers DEF PageInv
    <3> QED BY <1>5, <2>4, <3>1, NothingFacts DEF Natural, PageInv, Streams
  <2>6. /\ Streams(chrome', wire', PageDoc)
        /\ Flows(chrome, wire, chrome', wire')
        /\ \A i, j \in Replying(wire') : i = j
    <3>1. wire' = Append(wire, a)
      BY <1>5, <2>3 DEF Sends
    <3> QED BY <1>1, <1>5, <2>4, <2>5, <3>1, AskFacts
  <2> QED BY <1>2, <1>5, <2>2, <2>6, WaitsKeepsPage DEF Still
<1> QED BY <1>3, <1>4, <1>5 DEF BeginNavigation

LEMMA StopLoadEndsKeepsPage ==
  ASSUME PageInv, Still, StopLoadEnds
  PROVE  PageInv'
<1>1. Silent /\ Sound(surf)
  BY DEF StopLoadEnds, Silent, PageInv, PageTypes
<1>2. Fits(surf)
  BY <1>1, KeepsItself, KeepsFits
<1>3. CASE Done(surf, "error")
  BY <1>1, <1>2, <1>3, DoneKeepsPage DEF Still, Ends
<1>4. ASSUME NEW targeted, Navigate(worker, Supersede(surf, targeted))
      PROVE  PageInv'
  <2>1. Fits(Supersede(surf, targeted))
    BY <1>1, SupersedeKeeps, KeepsFits
  <2> QED BY <1>1, <1>4, <2>1, NavigateKeepsPage
<1> QED BY <1>3, <1>4 DEF StopLoadEnds

LEMMA NavigateEndsKeepsPage ==
  ASSUME PageInv, Still, NavigateEnds
  PROVE  PageInv'
<1>1. Silent /\ Sound(surf) /\ worker \in Workers
  BY DEF NavigateEnds, Silent, PageInv, PageTypes
<1>2. ASSUME NEW s, Keeps(surf, s), NEW result \in Ends, Done(s, result)
      PROVE  PageInv'
  BY <1>1, <1>2, KeepsFits, DoneKeepsPage DEF Still
<1>3. Keeps(surf, surf) /\ Keeps(surf, MarkFailed(surf, "other"))
      /\ \A owns : Keeps(surf, Restore(surf, owns))
  BY <1>1, KeepsItself, MarkFailedKeeps, RestoreKeeps
<1>4. CASE AskSnapshot(worker)
  BY <1>1, <1>4, AskSnapshotKeepsPage
<1>5. \/ Done(surf, "ok") \/ AskSnapshot(worker)
      \/ \E owns : \E result \in {"ok", "error"} : Done(Restore(surf, owns), result)
      \/ Done(MarkFailed(surf, "other"), "error")
  BY DEF NavigateEnds
<1>6. "ok" \in Ends /\ "error" \in Ends
  BY DEF Ends
<1> QED BY <1>2, <1>3, <1>4, <1>5, <1>6

LEMMA SnapshotEndsKeepsPage ==
  ASSUME PageInv, Still, SnapshotEnds
  PROVE  PageInv'
<1>1. Silent /\ Sound(surf) /\ worker \in Workers /\ worker.answer # <<>>
  BY DEF SnapshotEnds, Silent, PageInv, PageTypes
<1>2. Fits(surf)
  BY <1>1, KeepsItself, KeepsFits
<1>3. CASE Done(surf, "ok")
  BY <1>1, <1>2, <1>3, DoneKeepsPage DEF Still, Ends
<1>4. CASE Done(FailAuthority(surf, worker.cmd), "error")
  <2>1. Fits(FailAuthority(surf, worker.cmd))
    BY <1>1, FailAuthorityKeeps, KeepsFits
  <2> QED BY <1>1, <1>4, <2>1, DoneKeepsPage DEF Still, Ends
<1>5. CASE AskSnapshot([worker EXCEPT !.tries = @ + 1])
  <2>1. PICK n \in Nat : n = worker.tries + 1
    BY <1>1 DEF Workers
  <2>2. PICK w : w = [worker EXCEPT !.tries = n]
    OBVIOUS
  <2>3. w \in Workers /\ w.cmd = worker.cmd /\ w.shot = worker.shot
    BY <1>1, <2>2 DEF Workers
  <2>4. AskSnapshot(w)
    BY <1>5, <2>1, <2>2
  <2> QED BY <1>1, <2>3, <2>4, AskSnapshotKeepsPage
<1>6. CASE /\ worker' = [Idle EXCEPT !.at = "try",
                !.cmd = Command("same", Head(worker.answer).page.doc, None)]
           /\ surf' = [surf EXCEPT !.handledSame = worker.seen.same]
           /\ UNCHANGED <<chrome, wire>>
  <2>1. PICK c : c = Command("same", Head(worker.answer).page.doc, None)
    OBVIOUS
  <2>2. c \in Orders /\ c.kind = "same"
    <3>1. Head(worker.answer).page.doc \in Nat
      BY <1>1, AnswerCame DEF AnswerMessages, Pages
    <3> QED BY <2>1, <3>1, CommandFacts, NothingFacts DEF Kinds
  <2>3. /\ worker' \in Workers /\ worker'.at = "try" /\ worker'.cmd = c
        /\ worker'.answer = <<>> /\ worker'.shot = NoFrame
    <3>1. worker' = [Idle EXCEPT !.at = "try", !.cmd = c]
      BY <1>6, <2>1
    <3>2. Idle.answer = <<>> /\ Idle.shot = NoFrame /\ Idle \in Workers
      BY IdleFacts
    <3> QED BY <2>2, <3>1, <3>2 DEF Workers, Places
  <2>4. Same(surf, surf')
    BY <1>1, <1>6 DEF Same, Sound, Body, Shaped, SurfaceFields
  <2>5. Fits(surf')
    BY <1>1, <2>4, SameKeeps, KeepsFits
  <2>6. /\ todo' \in Seq(Orders) /\ batch' \in Seq(Orders)
        /\ \A d \in Commanded' : d.kind = "paint" => d \in Commanded
    BY <2>2, <2>3 DEF PageInv, PageTypes, Commanded, Still
  <2>7. worker'.shot.page.doc <= PageDoc
    <3>1. PageDoc \in Nat
      BY Numbers DEF PageInv, Natural
    <3> QED BY <2>3, <3>1, IdleFacts
  <2>8. Replying(wire') = {}
    BY <1>1, <1>6, SilentWire
  <2>9. Streams(chrome', wire', PageDoc) /\ Flows(chrome, wire, chrome', wire')
    BY <1>6, SilentFlows
  <2> QED BY <2>3, <2>5, <2>6, <2>7, <2>8, <2>9, QuietKeepsPage DEF Still
<1> QED BY <1>3, <1>4, <1>5, <1>6 DEF SnapshotEnds

(* Steps of the verification.                                              *)

LEMMA VerifyKeepsPage ==
  ASSUME PageInv, GoesOn, worker'.at \in Waits, worker'.answer = <<>>,
         \A i, j \in Replying(wire') : i = j, Verifies'
  PROVE  PageInv'
<1>1. OneReply'
  BY DEF OneReply
<1>2. (PageTypes /\ Streams(chrome, wire, PageDoc))'
  BY DEF GoesOn
<1> QED BY <1>1, <1>2, KnownStays DEF PageInv

LEMMA AskStopKeepsPage ==
  ASSUME PageInv, Silent, Still, NEW s, Keeps(surf, s), AskStop(worker, s)
  PROVE  PageInv'
<1>1. PICK a : a = Answer("ok", Nothing, chrome.clock + 1)
  OBVIOUS
<1>2. /\ worker' = [worker EXCEPT !.at = "stop", !.answer = <<>>]
      /\ chrome' = [chrome EXCEPT !.casting = FALSE]
      /\ wire' = Append(wire, a) /\ surf' = s
  BY <1>1 DEF AskStop
<1>3. worker \in Workers /\ chrome \in Chromes /\ Natural
  BY Numbers DEF PageInv, PageTypes, Streams
<1>4. /\ worker' \in Workers /\ worker'.at = "stop" /\ worker'.answer = <<>>
      /\ worker'.cmd = worker.cmd /\ worker'.shot = worker.shot
  BY <1>2, <1>3, WorkerFacts DEF Places
<1>5. /\ chrome' \in Chromes /\ chrome'.page = chrome.page
      /\ chrome'.shown = chrome.shown /\ chrome'.encoder = chrome.encoder
      /\ chrome'.clock = chrome.clock /\ ~chrome'.casting
  BY <1>2, <1>3 DEF Chromes
<1>6. a \in AnswerMessages /\ a.page = Nothing /\ a.at = chrome.clock + 1
  <2>1. chrome.clock + 1 \in Nat
    BY <1>3 DEF Natural
  <2> QED BY <1>1, <2>1, NothingFacts, AnswerFacts DEF Results
<1>7. /\ Streams(chrome', wire', PageDoc)
      /\ Flows(chrome, wire, chrome', wire')
      /\ \A i, j \in Replying(wire') : i = j
      /\ \A m \in Range(wire') : m.kind = "answer" => m = a
  <2>1. a.page.doc <= chrome.page.doc /\ chrome.clock <= chrome'.clock
    BY <1>3, <1>5, <1>6, NothingFacts DEF Natural
  <2> QED BY <1>2, <1>5, <1>6, <2>1, AskFacts
<1>8. Fits(surf') /\ surf'.acceptedNav = surf.acceptedNav
  BY <1>2, KeepsFits
<1>9. GoesOn
  <2>1. /\ todo' \in Seq(Orders) /\ batch' \in Seq(Orders)
        /\ events' \in Seq(Events) /\ Range(events') \subseteq Range(events)
        /\ worker'.at \notin {"shoot", "check"}
        /\ worker'.shot.page.doc <= PageDoc
        /\ \A c \in Commanded' : c \in Commanded
    BY <1>4 DEF PageInv, PageTypes, Known, Commanded, Still
  <2> QED BY <1>4, <1>7, <1>8, <2>1, SameEpochGoesOn DEF Still
<1>10. ASSUME Aims(worker, surf)' PROVE Floor <= chrome.shown.doc
  <2>1. Aims(worker, surf)
    BY <1>4, <1>8, <1>10 DEF Aims, Still
  <2>2. CASE worker.cmd.kind = "paint"
    BY <2>1, <2>2 DEF Aims, PageInv, Painted, Commanded
  <2>3. CASE worker.cmd.kind # "paint"
    BY <2>1, <2>3 DEF Aims, PageInv, Shows, FreshFrom, Late
  <2> QED BY <2>2, <2>3
<1>11. Verifies'
  <2>1. \A m \in Replies' : m.at = chrome'.clock + 1
    <3>1. \A b : <<b>> # <<>>
      OBVIOUS
    <3>2. \A m \in Replies' : m = a
      BY <1>4, <1>7, <3>1 DEF Replies
    <3> QED BY <1>5, <1>6, <3>2
  <2>2. Aims(worker, surf)' => Floor' <= chrome'.shown.doc
    BY <1>5, <1>10 DEF PageDoc, Floor, Still
  <2> QED BY <1>4, <1>5, <2>1, <2>2 DEF Verifies
<1> QED BY <1>4, <1>7, <1>9, <1>11, VerifyKeepsPage DEF Waits

LEMMA BeginResizingKeepsPage ==
  ASSUME PageInv, Still, BeginResizing
  PROVE  PageInv'
<1>1. Silent /\ Sound(surf)
  BY DEF BeginResizing, Silent, Waits, PageInv, PageTypes
<1>2. PICK s : s = BeginResize(surf)
  OBVIOUS
<1>3. Keeps(surf, s) /\ Sound(s)
  BY <1>1, <1>2, BeginResizeKeeps DEF Keeps, Becomes
<1>4. CASE AskStop(worker, s)
  BY <1>1, <1>3, <1>4, AskStopKeepsPage
<1>5. CASE Done(FailResize(Restore(s, FALSE)), "error")
  <2>1. Keeps(s, Restore(s, FALSE)) /\ Sound(Restore(s, FALSE))
    BY <1>3, RestoreKeeps DEF Keeps, Becomes
  <2>2. Keeps(Restore(s, FALSE), FailResize(Restore(s, FALSE)))
    BY <2>1, FailResizeKeeps
  <2>3. Keeps(surf, FailResize(Restore(s, FALSE)))
    BY <1>3, <2>1, <2>2, KeepsOn
  <2>4. Fits(FailResize(Restore(s, FALSE)))
    BY <2>3, KeepsFits
  <2> QED BY <1>1, <1>5, <2>4, DoneKeepsPage DEF Still, Ends
<1>6. CASE Done(FailResize(s), "timeout")
  <2>1. Keeps(s, FailResize(s))
    BY <1>3, FailResizeKeeps
  <2>2. Fits(FailResize(s))
    BY <1>3, <2>1, KeepsOn, KeepsFits
  <2> QED BY <1>1, <1>6, <2>2, DoneKeepsPage DEF Still, Ends
<1> QED BY <1>2, <1>4, <1>5, <1>6 DEF BeginResizing

LEMMA TryKeepsPage ==
  ASSUME PageInv, Still, Try
  PROVE  PageInv'
<1>1. Silent /\ Sound(surf)
  BY DEF Try, Silent, Waits, PageInv, PageTypes
<1>2. Keeps(surf, surf) /\ Fits(surf)
  BY <1>1, KeepsItself, KeepsFits
<1>3. CASE AskStop(worker, surf)
  BY <1>1, <1>2, <1>3, AskStopKeepsPage
<1>4. CASE Done(surf, "settled") \/ Done(surf, "error")
  BY <1>1, <1>2, <1>4, DoneKeepsPage DEF Still, Ends
<1> QED BY <1>3, <1>4 DEF Try

LEMMA TryFailsKeepsPage ==
  ASSUME PageInv, Silent, Still, TryFails("error")
  PROVE  PageInv'
<1>1. Sound(surf) /\ worker \in Workers
  BY DEF PageInv, PageTypes
<1>2. Fits(surf) /\ Fits(FailAuthority(surf, worker.cmd))
  BY <1>1, KeepsItself, FailAuthorityKeeps, KeepsFits
<1>3. CASE \/ Done(surf, "settled")
           \/ Done(FailAuthority(surf, worker.cmd), "error")
  BY <1>2, <1>3, DoneKeepsPage DEF Still, Ends
<1>4. CASE /\ worker' = [Idle EXCEPT !.at = "try", !.cmd = worker.cmd,
                           !.tries = worker.tries + 1]
           /\ UNCHANGED <<chrome, wire, surf>>
  <2>1. PICK n \in Nat : n = worker.tries + 1
    BY <1>1 DEF Workers
  <2>2. worker.cmd \in Orders
    BY <1>1 DEF Workers
  <2>3. worker' = [Idle EXCEPT !.at = "try", !.cmd = worker.cmd, !.tries = n]
    BY <1>4, <2>1
  <2>4. /\ worker' \in Workers /\ worker'.at = "try"
        /\ worker'.cmd = worker.cmd
        /\ worker'.answer = <<>> /\ worker'.shot = NoFrame
    <3>1. Idle.answer = <<>> /\ Idle.shot = NoFrame /\ Idle \in Workers
      BY IdleFacts
    <3> QED BY <2>2, <2>3, <3>1 DEF Workers, Places
  <2>5. /\ todo' \in Seq(Orders) /\ batch' \in Seq(Orders)
        /\ \A d \in Commanded' : d.kind = "paint" => d \in Commanded
    BY <2>4 DEF PageInv, PageTypes, Commanded, Still
  <2>6. worker'.shot.page.doc <= PageDoc
    <3>1. PageDoc \in Nat
      BY Numbers DEF PageInv, Natural
    <3> QED BY <2>4, <3>1, IdleFacts
  <2>7. Replying(wire') = {}
    BY <1>4, SilentWire
  <2>8. Streams(chrome', wire', PageDoc) /\ Flows(chrome, wire, chrome', wire')
    BY <1>4, SilentFlows
  <2> QED BY <1>2, <1>4, <2>4, <2>5, <2>6, <2>7, <2>8, QuietKeepsPage DEF Still
<1> QED BY <1>3, <1>4 DEF TryFails

LEMMA TakeKeepsPage ==
  ASSUME PageInv, Take, UNCHANGED <<epoch, events>>
  PROVE  PageInv'
<1>1. PICK work : work = IF batch = <<>> THEN todo ELSE batch
  OBVIOUS
<1>2. PICK c : c = Head(work)
  OBVIOUS
<1>3. /\ worker' = [Idle EXCEPT !.at = "begin", !.cmd = c]
      /\ work # <<>> /\ batch' = Tail(work)
      /\ todo' = <<>> \/ todo' = todo
      /\ UNCHANGED <<chrome, wire, surf>> /\ worker.at = "idle"
  BY <1>1, <1>2 DEF Take
<1>4. /\ todo \in Seq(Orders) /\ batch \in Seq(Orders) /\ work \in Seq(Orders)
      /\ Range(work) \subseteq Range(todo) \cup Range(batch) /\ Sound(surf)
  BY <1>1 DEF PageInv, PageTypes
<1>5. /\ c \in Orders /\ c \in Range(work) /\ batch' \in Seq(Orders)
      /\ Range(batch') \subseteq Range(work)
  BY <1>2, <1>3, <1>4, TailRange
<1>6. todo' \in Seq(Orders) /\ Range(todo') \subseteq Range(todo)
  <2>1. <<>> \in Seq(Orders) /\ Range(<<>>) = {}
    <3>1. <<>> \in Seq(Orders) /\ Len(<<>>) = 0
      OBVIOUS
    <3>2. Range(<<>>) = {<<>>[i] : i \in 1..Len(<<>>)}
      BY <3>1, RangeEquality
    <3> QED BY <3>1, <3>2
  <2> QED BY <1>3, <1>4, <2>1
<1>7. /\ worker' \in Workers /\ worker'.at = "begin" /\ worker'.cmd = c
      /\ worker'.answer = <<>> /\ worker'.shot = NoFrame
  <2>1. Idle.answer = <<>> /\ Idle.shot = NoFrame /\ Idle \in Workers
    BY IdleFacts
  <2> QED BY <1>3, <1>5, <2>1 DEF Workers, Places
<1>8. \A d \in Commanded' : d.kind = "paint" => d \in Commanded
  BY <1>4, <1>5, <1>6, <1>7 DEF Commanded
<1>9. worker'.shot.page.doc <= PageDoc
  <2>1. PageDoc \in Nat
    BY Numbers DEF PageInv, Natural
  <2> QED BY <1>7, <2>1, IdleFacts
<1>10. Replying(wire') = {}
  BY <1>3, SilentWire DEF Silent, Waits
<1>11. Streams(chrome', wire', PageDoc) /\ Flows(chrome, wire, chrome', wire')
  BY <1>3, SilentFlows
<1>12. Fits(surf')
  BY <1>3, <1>4, KeepsItself, KeepsFits
<1> QED BY <1>5, <1>6, <1>7, <1>8, <1>9, <1>10, <1>11, <1>12, QuietKeepsPage

LEMMA StopEndsKeepsPage ==
  ASSUME PageInv, StopEnds, UNCHANGED <<events, todo, batch>>
  PROVE  PageInv'
<1>1. PICK b : b = Head(worker.answer).at
  OBVIOUS
<1>2. PICK a : a = Answer("ok", Nothing, None)
  OBVIOUS
<1>3. /\ worker.at = "stop" /\ worker.answer # <<>> /\ surf' = surf
      /\ epoch' = [epoch EXCEPT !.barrier = b]
      /\ chrome' = [chrome EXCEPT !.casting = TRUE]
      /\ wire' = Append(wire, a)
      /\ worker' = [worker EXCEPT !.at = "start", !.answer = <<>>]
  BY <1>1, <1>2 DEF StopEnds, Sends
<1>4. /\ worker \in Workers /\ chrome \in Chromes /\ Natural /\ Silent
      /\ epoch \in Epochs /\ Sound(surf) /\ Streams(chrome, wire, PageDoc)
  BY <1>3, Numbers DEF PageInv, PageTypes, Streams, Silent
<1>5. b = chrome.clock + 1 /\ b \in Nat
  <2>1. Head(worker.answer) \in Replies
    BY <1>3, AnswerCame
  <2>2. b = chrome.clock + 1
    BY <1>1, <1>3, <2>1 DEF PageInv, Verifies
  <2> QED BY <1>4, <2>2 DEF Natural
<1>6. /\ worker' \in Workers /\ worker'.at = "start" /\ worker'.answer = <<>>
      /\ worker'.cmd = worker.cmd /\ worker'.shot = worker.shot
  BY <1>3, <1>4, WorkerFacts DEF Places
<1>7. /\ chrome' \in Chromes /\ chrome'.page = chrome.page
      /\ chrome'.shown = chrome.shown /\ chrome'.encoder = chrome.encoder
      /\ chrome'.clock = chrome.clock
  BY <1>3, <1>4 DEF Chromes
<1>8. /\ epoch' \in Epochs /\ epoch'.barrier = b
      /\ epoch'.current = epoch.current /\ epoch'.nav = epoch.nav
      /\ PageDoc' = PageDoc /\ Floor' = Floor
  BY <1>3, <1>4, <1>5 DEF Epochs, PageDoc, Floor
<1>9. /\ Streams(chrome', wire', PageDoc)
      /\ Flows(chrome, wire, chrome', wire')
      /\ Flying(chrome', wire') \subseteq Flying(chrome, wire)
      /\ \A i, j \in Replying(wire') : i = j
  <2>1. a \in AnswerMessages /\ a.page = Nothing
    BY <1>2, NothingFacts, AnswerFacts DEF Results
  <2>2. a.page.doc <= chrome.page.doc /\ chrome.clock <= chrome'.clock
    BY <1>4, <1>7, <2>1, NothingFacts DEF Natural
  <2> QED BY <1>3, <1>4, <1>7, <2>1, <2>2, AskFacts
<1>10. GoesOn
  <2>1. PageTypes'
    BY <1>3, <1>6, <1>8 DEF PageInv, PageTypes
  <2>2. StampsOn /\ PaintsOn
    BY <1>3, <1>6 DEF StampsOn, PaintsOn, Stamped, Commanded
  <2>3. BarrierOn /\ EpochOn
    BY <1>4, <1>5, <1>8, <1>9 DEF BarrierOn, EpochOn, Natural
  <2>4. surf'.acceptedNav <= epoch.nav /\ Shows(surf')
    BY <1>3 DEF PageInv, Known
  <2>5. /\ worker'.shot.page.doc <= PageDoc'
        /\ \A x \in AnswerMessages : worker'.answer = <<x>> =>
             x.page.doc <= PageDoc'
    <3>1. \A x : <<x>> # <<>>
      OBVIOUS
    <3> QED BY <1>6, <1>8, <3>1 DEF PageInv, Known
  <2> QED BY <1>8, <1>9, <2>1, <2>2, <2>3, <2>4, <2>5 DEF GoesOn
<1>11. Verifies'
  <2>1. ASSUME Aims(worker, surf)' PROVE Late(epoch.barrier, Floor)'
    <3>1. Aims(worker, surf)
      BY <1>3, <1>6, <1>8, <2>1 DEF Aims
    <3>2. Floor' <= chrome'.shown.doc
      BY <1>3, <1>7, <1>8, <3>1 DEF PageInv, Verifies
    <3>3. \A f \in Flying(chrome', wire') : ~(b <= f.at)
      <4>1. \A f \in Flying(chrome, wire) : f.at \in Nat /\ f.at <= chrome.clock
        BY <1>4 DEF Natural, Streams
      <4> QED BY <1>4, <1>5, <1>9, <4>1 DEF Natural
    <3> QED BY <1>8, <3>2, <3>3 DEF Late
  <2> QED BY <1>6, <2>1 DEF Verifies
<1> QED BY <1>6, <1>9, <1>10, <1>11, VerifyKeepsPage DEF Waits

(* After a resize: the epoch of the restart, and what came of it.          *)
LEMMA ConfirmFits ==
  ASSUME PageInv, NEW at \in Nat \ {0},
         surf.acceptedNav = epoch.nav => FreshFrom(at, Floor)
  PROVE  Fits(Confirm(surf, at))
<1>1. Sound(surf) /\ Natural /\ surf.retained \in Stamped
  BY Numbers DEF PageInv, PageTypes, Stamped, Stock
<1>2. PICK r : r = Confirm(surf, at)
  OBVIOUS
<1>3. \/ Becomes(surf, r, surf.acceptedNav, surf.accepted, NoFrame)
      \/ /\ at >= surf.accepted
         /\ \/ Becomes(surf, r, surf.acceptedNav, at, NoFrame)
            \/ /\ surf.retained.epoch = at
               /\ Becomes(surf, r, surf.acceptedNav, at, surf.retained.frame)
  BY <1>1, <1>2, ConfirmBecomes
<1>4. /\ Sound(r) /\ r.acceptedNav = surf.acceptedNav
      /\ Stock(r) \subseteq Stamped \cup {NoRetained}
  BY <1>3 DEF Becomes, Stamped
<1>5. Shows(r)
  <2> SUFFICES ASSUME r.acceptedNav = epoch.nav
               PROVE  /\ FreshFrom(r.accepted, Floor)
                      /\ r.latest # NoFrame => /\ Floor <= r.latest.page.doc
                                               /\ r.latest.page.doc <= PageDoc
    BY DEF Shows
  <2>1. FreshFrom(surf.accepted, Floor) /\ FreshFrom(at, Floor)
    BY <1>4 DEF PageInv, Shows
  <2>2. FreshFrom(r.accepted, Floor)
    BY <1>3, <2>1 DEF Becomes
  <2>3. CASE r.latest = NoFrame
    BY <2>2, <2>3
  <2>4. CASE r.latest = surf.retained.frame /\ surf.retained.epoch = at
    <3>1. /\ Floor <= surf.retained.frame.page.doc
          /\ surf.retained.frame.page.doc <= PageDoc
      BY <1>1, <2>1, <2>4 DEF FreshFrom, PageInv, Known
    <3> QED BY <2>2, <2>4, <3>1
  <2> QED BY <1>3, <2>3, <2>4 DEF Becomes
<1> QED BY <1>2, <1>4, <1>5 DEF Fits, PageInv, Known

LEMMA StartEndsKeepsPage ==
  ASSUME PageInv, Still, StartEnds
  PROVE  PageInv'
<1>1. /\ worker.at = "start" /\ worker.answer # <<>> /\ Silent
      /\ worker \in Workers /\ chrome \in Chromes /\ Natural
      /\ epoch \in Epochs /\ Sound(surf) /\ Streams(chrome, wire, PageDoc)
  BY Numbers DEF StartEnds, Silent, PageInv, PageTypes, Streams
<1>2. Aims(worker, surf) => FreshFrom(epoch.current, Floor)
  BY <1>1 DEF PageInv, Verifies
<1>3. CASE worker.cmd.kind = "resize" /\ Done(Confirm(surf, epoch.current), "ok")
  <2>1. surf.acceptedNav = epoch.nav => FreshFrom(epoch.current, Floor)
    BY <1>2, <1>3 DEF Aims
  <2>2. Fits(Confirm(surf, epoch.current))
    <3>1. PICK at \in Nat \ {0} : at = epoch.current
      BY <1>1 DEF Natural
    <3>2. Fits(Confirm(surf, at))
      BY <2>1, <3>1, ConfirmFits
    <3> QED BY <3>1, <3>2
  <2> QED BY <1>1, <1>3, <2>2, DoneKeepsPage DEF Ends, Still
<1>4. CASE /\ worker' = [worker EXCEPT !.at = "shoot", !.answer = <<>>,
                          !.epoch = epoch.current]
           /\ chrome' = [chrome EXCEPT !.clock = @ + 1]
           /\ Sends(Answer("ok", chrome.shown, chrome.clock + 1))
           /\ UNCHANGED surf
  <2>1. PICK at \in Nat \ {0} : at = epoch.current
    BY <1>1 DEF Natural
  <2>2. PICK k \in Nat : k = chrome.clock + 1
    BY <1>1 DEF Natural
  <2>3. PICK a : a = Answer("ok", chrome.shown, k)
    OBVIOUS
  <2>4. /\ worker' = [worker EXCEPT !.at = "shoot", !.answer = <<>>, !.epoch = at]
        /\ chrome' = [chrome EXCEPT !.clock = k]
        /\ wire' = Append(wire, a) /\ surf' = surf
    BY <1>4, <2>1, <2>2, <2>3 DEF Sends
  <2>5. /\ worker' \in Workers /\ worker'.at = "shoot"
        /\ worker'.answer = <<>> /\ worker'.cmd = worker.cmd
        /\ worker'.shot = worker.shot /\ worker'.epoch = at
    <3>1. worker' \in Workers
      BY <1>1, <2>4 DEF Workers, Places
    <3> QED BY <1>1, <2>4, <3>1 DEF Workers
  <2>6. /\ chrome' \in Chromes /\ chrome'.page = chrome.page
        /\ chrome'.shown = chrome.shown /\ chrome'.encoder = chrome.encoder
        /\ chrome.clock <= chrome'.clock
    <3>1. chrome.clock <= k
      BY <1>1, <2>2 DEF Natural
    <3> QED BY <1>1, <2>4, <3>1 DEF Chromes
  <2>7. a \in AnswerMessages /\ a.page = chrome.shown
    BY <1>1, <2>3, AnswerFacts DEF Results, Chromes
  <2>8. /\ Streams(chrome', wire', PageDoc)
        /\ Flows(chrome, wire, chrome', wire')
        /\ \A i, j \in Replying(wire') : i = j
        /\ \A m \in Range(wire') : m.kind = "answer" => m = a
    <3>1. a.page.doc <= chrome.page.doc
      BY <1>1, <2>7 DEF Streams
    <3> QED BY <1>1, <2>4, <2>6, <2>7, <3>1, AskFacts
  <2>9. GoesOn
    <3>1. Fits(surf')
      BY <1>1, <2>4, KeepsItself, KeepsFits
    <3>2. /\ todo' \in Seq(Orders) /\ batch' \in Seq(Orders)
          /\ events' \in Seq(Events) /\ Range(events') \subseteq Range(events)
          /\ worker'.shot.page.doc <= PageDoc
          /\ \A c \in Commanded' : c \in Commanded
      BY <2>5 DEF PageInv, PageTypes, Known, Commanded, Still
    <3>3. worker'.epoch >= 1
      BY <2>5
    <3> QED BY <2>5, <2>8, <3>1, <3>2, <3>3, SameEpochGoesOn DEF Still
  <2>10. Verifies'
    <3>1. ASSUME Aims(worker, surf)'
          PROVE  /\ FreshFrom(worker.epoch, Floor)'
                 /\ \A m \in Replies' : Floor' <= m.page.doc
      <4>1. Aims(worker, surf)
        BY <2>4, <2>5, <3>1 DEF Aims, Still
      <4>2. FreshFrom(at, Floor)
        BY <1>2, <2>1, <4>1
      <4>3. PICK d \in Nat : d = Floor
        BY <1>1 DEF Natural
      <4>4. FreshFrom(at, d)'
        BY <2>9, <4>2, <4>3, LateStays
      <4>5. Floor' = d
        BY <4>3 DEF Floor, PageDoc, Still
      <4>6. FreshFrom(worker.epoch, Floor)'
        BY <2>5, <4>4, <4>5 DEF FreshFrom, Late
      <4>7. Floor' <= a.page.doc
        BY <2>7, <4>2, <4>3, <4>5 DEF FreshFrom, Late
      <4>8. \A m \in Replies' : m = a
        <5>1. \A x : <<x>> # <<>>
          OBVIOUS
        <5> QED BY <2>5, <2>8, <5>1 DEF Replies
      <4> QED BY <4>6, <4>7, <4>8
    <3> QED BY <2>5, <3>1 DEF Verifies
  <2> QED BY <2>5, <2>8, <2>9, <2>10, VerifyKeepsPage DEF Waits
<1> QED BY <1>3, <1>4 DEF StartEnds

LEMMA ShootEndsKeepsPage ==
  ASSUME PageInv, Still, ShootEnds
  PROVE  PageInv'
<1>1. /\ worker.at = "shoot" /\ worker.answer # <<>> /\ Silent
      /\ worker \in Workers /\ chrome \in Chromes /\ Natural
      /\ Sound(surf) /\ Streams(chrome, wire, PageDoc)
  BY Numbers DEF ShootEnds, Silent, PageInv, PageTypes, Streams
<1>2. PICK a : a = Head(worker.answer)
  OBVIOUS
<1>3. a \in AnswerMessages /\ a \in Replies /\ worker.answer = <<a>>
  BY <1>1, <1>2, AnswerCame
<1>4. PICK shot : shot = [page |-> a.page, at |-> a.at]
  OBVIOUS
<1>5. PICK b : b = Answer("ok", chrome.page, None)
  OBVIOUS
<1>6. /\ worker' = [worker EXCEPT !.at = "check", !.answer = <<>>, !.shot = shot]
      /\ wire' = Append(wire, b) /\ chrome' = chrome /\ surf' = surf
  BY <1>2, <1>4, <1>5 DEF ShootEnds, Sends
<1>7. /\ shot \in Frames /\ shot.page.doc = a.page.doc
      /\ a.page.doc <= PageDoc
  BY <1>3, <1>4 DEF AnswerMessages, Frames, PageInv, Known
<1>8. /\ worker' \in Workers /\ worker'.at = "check"
      /\ worker'.answer = <<>> /\ worker'.cmd = worker.cmd
      /\ worker'.shot = shot /\ worker'.epoch = worker.epoch
  <2>1. worker' \in Workers
    BY <1>1, <1>6, <1>7 DEF Workers, Places
  <2> QED BY <1>1, <1>6, <2>1 DEF Workers
<1>9. b \in AnswerMessages /\ b.page = chrome.page
  BY <1>1, <1>5, NothingFacts, AnswerFacts DEF Results, Chromes
<1>10. /\ Streams(chrome', wire', PageDoc)
       /\ Flows(chrome, wire, chrome', wire')
       /\ \A i, j \in Replying(wire') : i = j
  <2>1. b.page.doc <= chrome.page.doc /\ chrome.clock <= chrome'.clock
    BY <1>1, <1>6, <1>9 DEF Natural
  <2> QED BY <1>1, <1>6, <1>9, <2>1, AskFacts
<1>11. GoesOn
  <2>1. Fits(surf')
    BY <1>1, <1>6, KeepsItself, KeepsFits
  <2>2. /\ todo' \in Seq(Orders) /\ batch' \in Seq(Orders)
        /\ events' \in Seq(Events) /\ Range(events') \subseteq Range(events)
        /\ worker'.shot.page.doc <= PageDoc /\ worker'.epoch >= 1
        /\ \A c \in Commanded' : c \in Commanded
    BY <1>1, <1>7, <1>8 DEF PageInv, PageTypes, Commanded, Still
  <2> QED BY <1>8, <1>10, <2>1, <2>2, SameEpochGoesOn DEF Still
<1>12. Verifies'
  <2>1. ASSUME Aims(worker, surf)'
        PROVE  /\ FreshFrom(worker.epoch, Floor)'
               /\ Floor' <= worker'.shot.page.doc
    <3>1. Aims(worker, surf)
      BY <1>6, <1>8, <2>1 DEF Aims, Still
    <3>2. PICK at \in Nat \ {0} : at = worker.epoch
      BY <1>1 DEF PageInv, PageTypes, Natural
    <3>3. PICK d \in Nat : d = Floor
      BY <1>1 DEF Natural
    <3>4. FreshFrom(at, d) /\ d <= a.page.doc
      BY <1>1, <1>3, <3>1, <3>2, <3>3 DEF PageInv, Verifies
    <3>5. FreshFrom(at, d)'
      BY <1>11, <3>4, LateStays
    <3>6. Floor' = d
      BY <3>3 DEF Floor, PageDoc, Still
    <3>7. FreshFrom(worker.epoch, Floor)'
      BY <1>8, <3>2, <3>5, <3>6 DEF FreshFrom, Late
    <3> QED BY <1>7, <1>8, <3>4, <3>6, <3>7
  <2> QED BY <1>8, <2>1 DEF Verifies
<1> QED BY <1>8, <1>10, <1>11, <1>12, VerifyKeepsPage DEF Waits

(* Verified pixels are of the document they are accepted for.              *)
LEMMA VerifiedFits ==
  ASSUME PageInv, worker.at = "check", NEW r, Aims(worker, surf),
         Becomes(surf, r, epoch.nav, worker.epoch, worker.shot)
  PROVE  Fits(r)
<1>1. Natural
  BY Numbers DEF PageInv
<1>2. /\ Sound(r) /\ r.acceptedNav = epoch.nav /\ r.accepted = worker.epoch
      /\ r.latest = worker.shot
      /\ Stock(r) \subseteq Stock(surf) \cup {NoRetained}
  BY DEF Becomes
<1>3. /\ FreshFrom(worker.epoch, Floor)
      /\ Floor <= worker.shot.page.doc /\ worker.shot.page.doc <= PageDoc
  BY DEF PageInv, Verifies, Known
<1>5. Shows(r)
  BY <1>2, <1>3 DEF Shows
<1>6. r.acceptedNav <= epoch.nav
  BY <1>1, <1>2 DEF Natural
<1> QED BY <1>2, <1>5, <1>6 DEF Fits, Stamped

LEMMA CheckEndsKeepsPage ==
  ASSUME PageInv, Still, CheckEnds
  PROVE  PageInv'
<1>1. /\ worker.at = "check" /\ Silent /\ Sound(surf) /\ Natural
      /\ worker.epoch \in Nat \ {0}
  BY Numbers DEF CheckEnds, Silent, PageInv, PageTypes, Natural
<1>2. Fits(surf)
  BY <1>1, KeepsItself, KeepsFits
<1>3. CASE TryFails("error")
  BY <1>1, <1>3, TryFailsKeepsPage
<1>4. CASE /\ worker.cmd.kind = "paint"
           /\ Done(AcceptDocument(surf, worker.cmd.nav, worker.epoch,
                                  worker.shot), "ok")
  <2>1. PICK r : r = AcceptDocument(surf, worker.cmd.nav, worker.epoch,
                                    worker.shot)
    OBVIOUS
  <2>2. PICK at \in Nat \ {0} : at = worker.epoch
    BY <1>1
  <2>3. PICK nav \in Nat : nav = worker.cmd.nav
    BY <1>1 DEF Natural
  <2>4. PICK shot \in Frames : shot = worker.shot
    BY <1>1 DEF Natural
  <2>5. r = surf \/ (epoch.nav = nav /\ Becomes(surf, r, nav, at, shot))
    BY <1>1, <2>1, <2>2, <2>3, <2>4, AcceptDocumentBecomes
  <2>6. Fits(r)
    <3>1. CASE epoch.nav = nav /\ Becomes(surf, r, nav, at, shot)
      <4>1. Aims(worker, surf)
        BY <1>4, <2>3, <3>1 DEF Aims
      <4>2. Becomes(surf, r, epoch.nav, worker.epoch, worker.shot)
        BY <2>2, <2>4, <3>1
      <4> QED BY <1>1, <4>1, <4>2, VerifiedFits
    <3> QED BY <1>2, <2>5, <3>1
  <2>7. Done(r, "ok")
    BY <1>4, <2>1
  <2> QED BY <1>1, <2>6, <2>7, DoneKeepsPage DEF Still, Ends
<1>5. CASE /\ worker.cmd.kind # "paint"
           /\ Done(AcceptSame(surf, worker.epoch, worker.shot), "ok")
  <2>1. PICK r : r = AcceptSame(surf, worker.epoch, worker.shot)
    OBVIOUS
  <2>2. PICK at \in Nat \ {0} : at = worker.epoch
    BY <1>1
  <2>3. PICK shot \in Frames : shot = worker.shot
    BY <1>1 DEF Natural
  <2>4. \/ r = surf
        \/ /\ surf.acceptedNav = epoch.nav
           /\ Becomes(surf, r, surf.acceptedNav, at, shot)
    BY <1>1, <2>1, <2>2, <2>3, AcceptSameBecomes
  <2>5. Fits(r)
    <3>1. CASE /\ surf.acceptedNav = epoch.nav
               /\ Becomes(surf, r, surf.acceptedNav, at, shot)
      <4>1. Aims(worker, surf)
        BY <1>5, <3>1 DEF Aims
      <4>2. Becomes(surf, r, epoch.nav, worker.epoch, worker.shot)
        BY <2>2, <2>3, <3>1
      <4> QED BY <1>1, <4>1, <4>2, VerifiedFits
    <3> QED BY <1>2, <2>4, <3>1
  <2>6. Done(r, "ok")
    BY <1>5, <2>1
  <2> QED BY <1>1, <2>5, <2>6, DoneKeepsPage DEF Still, Ends
<1> QED BY <1>3, <1>4, <1>5 DEF CheckEnds

LEMMA TimesOutKeepsPage ==
  ASSUME PageInv, TimesOut
  PROVE  PageInv'
<1>1. /\ Sound(surf) /\ chrome \in Chromes /\ wire \in Seq(Messages)
      /\ Streams(chrome, wire, PageDoc) /\ Natural
  BY Numbers DEF PageInv, PageTypes, Streams
<1>2. PICK s \in {FailResize(surf), FailAuthority(surf, worker.cmd), surf} :
        \E result \in {"settled", "timeout"} :
          surf' = Report([s EXCEPT !.held = NoToken, !.heldFresh = FALSE], result)
  <2>1. PICK s :
          s = CASE worker.cmd.kind = "resize" -> FailResize(surf)
                [] worker.at = "snapshot" -> FailAuthority(surf, worker.cmd)
                [] worker.cmd.kind = "paint" /\ epoch.nav = worker.cmd.nav ->
                     FailAuthority(surf, worker.cmd)
                [] worker.cmd.kind = "same" -> FailAuthority(surf, worker.cmd)
                [] OTHER -> surf
    OBVIOUS
  <2>2. PICK result :
          result = IF worker.cmd.kind = "paint" /\ epoch.nav # worker.cmd.nav
                   THEN "settled" ELSE "timeout"
    OBVIOUS
  <2>3. surf' = Report([s EXCEPT !.held = NoToken, !.heldFresh = FALSE], result)
    BY <2>1, <2>2, Zenon DEF TimesOut
  <2>4. s \in {FailResize(surf), FailAuthority(surf, worker.cmd), surf}
    BY <2>1
  <2>5. result \in {"settled", "timeout"}
    BY <2>2
  <2> QED BY <2>3, <2>4, <2>5
<1>3. Fits(surf')
  <2>1. Keeps(surf, s)
    BY <1>1, KeepsItself, FailResizeKeeps, FailAuthorityKeeps
  <2>2. Fits(s) /\ Sound(s)
    BY <2>1, KeepsFits DEF Keeps, Becomes
  <2>3. Keeps(s, surf')
    <3>1. PICK result \in Ends :
            surf' = Report([s EXCEPT !.held = NoToken, !.heldFresh = FALSE], result)
      BY <1>2 DEF Ends
    <3>2. PICK q : q = [s EXCEPT !.held = NoToken, !.heldFresh = FALSE]
      OBVIOUS
    <3>3. surf' = Report(q, result)
      BY <3>1, <3>2
    <3>4. Keeps(s, Report(q, result))
      BY <2>2, <3>2, EndKeeps
    <3> QED BY <3>3, <3>4
  <2> QED BY <2>2, <2>3, FitsOn
<1>4. /\ worker' = Idle /\ UNCHANGED <<chrome, epoch, events, todo, batch>>
      /\ wire' = Without(wire, {i \in DOMAIN wire : wire[i].kind = "answer"})
  BY DEF TimesOut
<1>5. /\ Replying(wire') = {} /\ wire' \in Seq(Messages)
      /\ Range(wire') \subseteq Range(wire)
      /\ Ordered(wire', PageDoc, chrome.page.doc)
  <2>1. \A i, j \in Replying(wire) : i = j
    BY DEF PageInv, OneReply
  <2>2. /\ PageDoc \in Nat /\ chrome.page.doc \in Nat
        /\ Ordered(wire, PageDoc, chrome.page.doc)
    BY <1>1 DEF Natural, Streams
  <2> QED BY <1>1, <1>4, <2>1, <2>2, LoseReplying
<1>6. Flying(chrome', wire') \subseteq Flying(chrome, wire)
  <2>1. chrome' = chrome /\ Range(wire') \subseteq Range(wire)
    BY <1>4, <1>5
  <2> QED BY <2>1 DEF Flying
<1>7. Streams(chrome', wire', PageDoc) /\ Flows(chrome, wire, chrome', wire')
  <2>1. chrome' = chrome
    BY <1>4
  <2>2. Streams(chrome', wire', PageDoc)
    BY <1>1, <1>5, <1>6, <2>1 DEF Streams
  <2>3. Flows(chrome, wire, chrome', wire')
    <3>1. chrome.shown.doc \in Nat /\ chrome.clock \in Nat
      BY <1>1 DEF Natural
    <3> QED BY <1>6, <2>1, <3>1 DEF Flows
  <2> QED BY <2>2, <2>3
<1>8. /\ todo' \in Seq(Orders) /\ batch' \in Seq(Orders)
      /\ \A c \in Commanded' : c.kind = "paint" => c \in Commanded
  <2>1. todo' = todo /\ batch' = batch /\ worker' = Idle
    BY <1>4
  <2> QED BY <2>1, IdleFacts DEF PageInv, PageTypes, Commanded
<1>9. worker'.shot.page.doc <= PageDoc
  BY <1>1, <1>4, IdleFacts DEF Natural
<1>10. /\ worker' \in Workers /\ worker'.answer = <<>>
       /\ worker'.at \notin {"stop", "start", "shoot", "check"}
  BY <1>4, IdleFacts
<1> QED BY <1>3, <1>4, <1>5, <1>7, <1>8, <1>9, <1>10, QuietKeepsPage

LEMMA WorkerKeepsPage ==
  ASSUME PageInv, WorkerStep
  PROVE  PageInv'
<1>1. CASE /\ \/ BeginNavigation \/ StopLoadEnds \/ NavigateEnds
              \/ SnapshotEnds \/ BeginResizing \/ Try \/ StartEnds
              \/ ShootEnds \/ CheckEnds
           /\ Still
  BY <1>1, BeginNavigationKeepsPage, StopLoadEndsKeepsPage,
     NavigateEndsKeepsPage, SnapshotEndsKeepsPage, BeginResizingKeepsPage,
     TryKeepsPage, StartEndsKeepsPage, ShootEndsKeepsPage, CheckEndsKeepsPage
<1>2. CASE Take /\ UNCHANGED <<epoch, events>>
  BY <1>2, TakeKeepsPage
<1>3. CASE StopEnds /\ UNCHANGED <<events, todo, batch>>
  BY <1>3, StopEndsKeepsPage
<1> QED BY <1>1, <1>2, <1>3 DEF WorkerStep, Still

LEMMA PageInitInv == PageInit => PageInv
<1> SUFFICES ASSUME PageInit PROVE PageInv
  OBVIOUS
<1>1. /\ First \in Pages /\ First.doc = 1 /\ First.view = 1
      /\ NoFrame \in Frames /\ NoFrame.page.doc = 0
      /\ NoRetained.epoch = 0 /\ NoRetained.frame = NoFrame
  BY Unread DEF First, Pages, NoFrame, NoRetained, Nothing, None
<1>2. /\ wire = <<>> /\ events = <<>> /\ todo = <<>> /\ batch = <<>>
      /\ worker = Idle
  BY DEF PageInit
<1>3. /\ epoch \in Epochs /\ epoch.current = 1 /\ epoch.nav = 0
      /\ epoch.barrier = 0 /\ PageDoc = 1 /\ Floor = 1
  <2>1. epoch = [current |-> 1, nav |-> 0, same |-> 0, barrier |-> 0,
                 page |-> First, misled |-> FALSE]
    BY DEF PageInit, None
  <2> QED BY <1>1, <2>1 DEF Epochs, PageDoc, Floor
<1>4. /\ chrome \in Chromes /\ chrome.page = First /\ chrome.shown = First
      /\ chrome.clock = 0 /\ chrome.encoder = NoFrame
  <2>1. chrome = [page |-> First, shown |-> First, paints |-> 0, clock |-> 0,
                  frames |-> 0, casting |-> TRUE, encoder |-> NoFrame]
    BY DEF PageInit
  <2> QED BY <1>1, <2>1 DEF Chromes
<1>5. /\ Shaped(surf)
      /\ surf.latest = NoFrame /\ surf.ptr = None
      /\ surf.accepted = 1 /\ surf.acceptedNav = 0
      /\ surf.retained = NoRetained /\ surf.rollback = NoToken
      /\ surf.held = NoToken
  <2>1. Shaped(surf)
    BY DEF PageInit, Shaped, SurfaceFields
  <2> QED BY <2>1 DEF PageInit, None
<1>6. Sound(surf) /\ Stock(surf) = {NoRetained}
  BY <1>1, <1>5, Unread DEF Sound, Body, Stock, None
<1>7. \A S : <<>> \in Seq(S) /\ Len(<<>>) = 0 /\ Range(<<>>) = {}
  <2> SUFFICES ASSUME NEW S
               PROVE  <<>> \in Seq(S) /\ Len(<<>>) = 0 /\ Range(<<>>) = {}
    OBVIOUS
  <2>1. <<>> \in Seq(S) /\ Len(<<>>) = 0
    OBVIOUS
  <2>2. Range(<<>>) = {<<>>[i] : i \in 1..Len(<<>>)}
    BY <2>1, RangeEquality
  <2> QED BY <2>1, <2>2
<1>8. /\ Stamped = {NoRetained} /\ Flying(chrome, wire) = {}
      /\ Replying(wire) = {} /\ Commanded = {Idle.cmd}
  BY <1>2, <1>4, <1>6, <1>7 DEF Stamped, Flying, Replying, Commanded
<1>9. PageTypes
  BY <1>2, <1>3, <1>6, <1>7, IdleFacts DEF PageTypes
<1>10. Streams(chrome, wire, PageDoc)
  <2>1. Ordered(wire, PageDoc, chrome.page.doc)
    BY <1>1, <1>2, <1>3, <1>4, <1>7 DEF Ordered, Reached
  <2> QED BY <1>1, <1>2, <1>3, <1>4, <1>7, <1>8, <2>1 DEF Streams
<1>11. \A a : worker.answer # <<a>>
  <2>1. \A a : <<a>> # <<>>
    OBVIOUS
  <2> QED BY <1>2, <2>1, IdleFacts
<1>12. OneReply /\ Verifies
  BY <1>2, <1>8, IdleFacts DEF OneReply, Verifies
<1>13. Known
  BY <1>1, <1>2, <1>3, <1>5, <1>8, <1>11, IdleFacts DEF Known
<1>14. Painted
  BY <1>2, <1>7, <1>8, IdleFacts DEF Painted
<1>15. Shows(surf)
  BY <1>1, <1>3, <1>4, <1>5, <1>8 DEF Shows, FreshFrom, Late
<1> QED BY <1>9, <1>10, <1>12, <1>13, <1>14, <1>15 DEF PageInv

LEMMA PageStep == PageInv /\ [PageNext]_pageVars => PageInv'
<1> SUFFICES ASSUME PageInv, [PageNext]_pageVars PROVE PageInv'
  OBVIOUS
<1>1. CASE PageNext
  BY <1>1, ChromeKeepsPage, ReadKeepsPage, HandleEventKeepsPage,
     WorkerKeepsPage, TimesOutKeepsPage, ExpireKeepsPage, UserKeepsPage
     DEF PageNext
<1>2. CASE UNCHANGED pageVars
  <2>1. UNCHANGED <<chrome, wire, epoch, events, surf, todo, batch, worker>>
    BY <1>2 DEF pageVars
  <2>2. /\ events \in Seq(Events) /\ todo \in Seq(Orders) /\ Sound(surf)
    BY DEF PageInv, PageTypes
  <2>3. Fits(surf)
    BY <2>2, KeepsItself, KeepsFits
  <2> QED BY <2>1, <2>2, <2>3, SurfaceStep
<1> QED BY <1>1, <1>2

(* The inductive invariant of Chrome, its socket, the reader, the surface  *)
(* thread and the worker that verifies what is shown.                      *)
THEOREM PageInvariant == PageSpec => []PageInv
<1> QED BY PageInitInv, PageStep, PTL DEF PageSpec

(* A surface that exports a pointer (pointer authority, browser.rs) shows  *)
(* the frame the pointer is for, and that frame is of the document the     *)
(* reader knows, unless the reader took the document for painted before    *)
(* Chrome showed it: whatever navigates, times out, is refused or comes    *)
(* late.                                                                   *)
THEOREM PointersShowDocuments == PageSpec => []PointerShowsDocument
<1>1. PageInv => PointerShowsDocument
  <2> SUFFICES ASSUME PageInv, Exported(surf) # None
               PROVE  /\ surf.ptr = surf.latest.at
                      /\ epoch.misled \/ surf.latest.page.doc = epoch.page.doc
    BY DEF PointerShowsDocument
  <2>1. EpochIsCurrent(surf) /\ surf.ptr # None
    BY DEF Exported
  <2>2. surf.ptr = surf.latest.at
    BY <2>1 DEF PageInv, PageTypes, Sound
  <2>3. surf.latest # NoFrame
    BY <2>1, <2>2 DEF NoFrame
  <2>4. surf.acceptedNav = epoch.nav
    BY <2>1 DEF EpochIsCurrent
  <2>5. Floor <= surf.latest.page.doc /\ surf.latest.page.doc <= PageDoc
    BY <2>3, <2>4 DEF PageInv, Shows
  <2>6. ASSUME ~epoch.misled PROVE surf.latest.page.doc = epoch.page.doc
    <3>1. surf.latest.page.doc \in Nat /\ PageDoc \in Nat
      BY Numbers DEF PageInv, PageTypes, Natural, Sound, Body, Frames, Pages
    <3>2. Floor = PageDoc
      BY <2>6 DEF Floor
    <3> QED BY <2>5, <3>1, <3>2 DEF PageDoc
  <2> QED BY <2>2, <2>6
<1> QED BY <1>1, PageInvariant, PTL
=============================================================================
