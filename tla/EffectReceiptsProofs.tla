------------------------ MODULE EffectReceiptsProofs ------------------------
(***************************************************************************)
(* Proofs about EffectReceipts for any number of keys, workers and         *)
(* requests, any capacity and any number of restarts.                      *)
(***************************************************************************)
EXTENDS EffectReceipts, FiniteSetTheorems, TLAPS

USE DEF Prints, Jobs, States, Outcomes, Places, store, vars

LEMMA InitReceiptInv == Init => ReceiptInv
  <1> SUFFICES ASSUME Init PROVE ReceiptInv
    OBVIOUS
  <1> USE DEF Init, Absent
  <1>1. TypeOK
    BY ConstantsAssumption DEF TypeOK
  <1>2. AtMostOnce /\ OneActsPerKey
    BY DEF AtMostOnce, OneActsPerKey, Acting
  <1>3. \A k \in Keys : ReceiptDetermines(k)
    BY DEF ReceiptDetermines, Missing
  <1>4. \A w \in Workers : PlaceDetermines(w)
    BY DEF PlaceDetermines
  <1> QED
    BY <1>1, <1>2, <1>3, <1>4 DEF ReceiptInv

LEMMA LookupStep ==
  ASSUME ReceiptInv, NEW w \in Workers, NEW k \in Keys, NEW p \in Prints, LookupResourceEffect(w, k, p)
  PROVE  ReceiptInv'
  <1> USE ConstantsAssumption DEF ReceiptInv, LookupResourceEffect, ResolvePreparation, Conflict, Resumable, Replayable, Unknowable, Go, Serve, Reply
  <1>1. TypeOK'
    <2>1. (receipt \in [Keys -> [state : States, print : Prints \cup {NoPrint},
                               outcome : Outcomes, revision : Nat]])'
      BY DEF TypeOK, Absent
    <2>2. (answers \in [Keys -> SUBSET [outcome : Outcomes, revision : Nat]])'
      BY DEF TypeOK, Answer
    <2>3. (pc \in [Workers -> Places])'
      BY DEF TypeOK
    <2>4. (job \in [Workers -> Jobs \cup {NoJob}])'
      BY DEF TypeOK
    <2>5. \A ww \in Workers : (job[ww] = NoJob <=> pc[ww] = "idle")'
      BY DEF TypeOK
    <2> QED
      BY <2>1, <2>2, <2>3, <2>4, <2>5 DEF TypeOK
  <1>2. AtMostOnce'
    BY DEF TypeOK, AtMostOnce, PlaceDetermines
  <1>3. OneActsPerKey'
    BY DEF TypeOK, OneActsPerKey, Acting, Missing, Absent
  <1>4. \A kk \in Keys : ReceiptDetermines(kk)'
    <2>1. UNCHANGED <<receipt, completion, sequence, applied>>
      BY DEF store
    <2>2. CASE UNCHANGED answers
      BY <2>1, <2>2 DEF ReceiptDetermines, Missing
    <2>3. CASE ~UNCHANGED answers
      <3>1. /\ receipt[k].state = "committed"
            /\ answers' = [answers EXCEPT ![k] = @ \cup {Answer(receipt[k])}]
        BY <2>3
      <3>2. answers'[k] = answers[k] \cup {Answer(receipt[k])}
            /\ \A kk \in Keys \ {k} : answers'[kk] = answers[kk]
        BY <3>1 DEF TypeOK
      <3>3. ASSUME NEW kk \in Keys \ {k} PROVE ReceiptDetermines(kk)'
        BY <2>1, <3>2 DEF ReceiptDetermines, Missing
      <3>4. ReceiptDetermines(k)'
        BY <2>1, <3>1, <3>2 DEF ReceiptDetermines, Missing, Answer
      <3> QED
        BY <3>3, <3>4
    <2> QED
      BY <2>2, <2>3
  <1>5. \A ww \in Workers : PlaceDetermines(ww)'
    BY DEF TypeOK, PlaceDetermines, OneActsPerKey, Acting, ReceiptDetermines
  <1> QED
    BY <1>1, <1>2, <1>3, <1>4, <1>5 DEF ReceiptInv

LEMMA RejectStep ==
  ASSUME ReceiptInv, NEW w \in Workers, RejectIntent(w)
  PROVE  ReceiptInv'
  <1> USE ConstantsAssumption DEF ReceiptInv, RejectIntent, Go, Reply
  <1>1. TypeOK'
    BY DEF TypeOK, Missing, Absent, Answer
  <1>2. AtMostOnce'
    BY DEF TypeOK, AtMostOnce, PlaceDetermines
  <1>3. OneActsPerKey'
    BY DEF TypeOK, OneActsPerKey, Acting, Missing, Absent
  <1>4. \A kk \in Keys : ReceiptDetermines(kk)'
    BY DEF TypeOK, ReceiptDetermines, OneActsPerKey, Acting, Missing, Absent, Answer
  <1>5. \A ww \in Workers : PlaceDetermines(ww)'
    BY DEF TypeOK, PlaceDetermines, OneActsPerKey, Acting, ReceiptDetermines
  <1> QED
    BY <1>1, <1>2, <1>3, <1>4, <1>5 DEF ReceiptInv

LEMMA PrepareStep ==
  ASSUME ReceiptInv, NEW w \in Workers, PrepareResourceEffect(w)
  PROVE  ReceiptInv'
  <1> USE ConstantsAssumption DEF ReceiptInv, PrepareResourceEffect, ResolvePreparation, Conflict, Resumable, Replayable, Unknowable, Go, Serve, Reply
  <1>1. TypeOK'
    <2>1. (receipt \in [Keys -> [state : States, print : Prints \cup {NoPrint},
                               outcome : Outcomes, revision : Nat]])'
      <3>1. [Absent EXCEPT !.state = "pending", !.print = job[w].print]
              \in [state : States, print : Prints \cup {NoPrint},
                   outcome : Outcomes, revision : Nat]
        BY DEF TypeOK, Absent
      <3> QED
        BY <3>1 DEF TypeOK
    <2>2. (answers \in [Keys -> SUBSET [outcome : Outcomes, revision : Nat]])'
      BY DEF TypeOK, Answer
    <2>3. (pc \in [Workers -> Places])'
      BY DEF TypeOK
    <2>4. (job \in [Workers -> Jobs \cup {NoJob}])'
      BY DEF TypeOK
    <2>5. \A ww \in Workers : (job[ww] = NoJob <=> pc[ww] = "idle")'
      BY DEF TypeOK
    <2> QED
      BY <2>1, <2>2, <2>3, <2>4, <2>5 DEF TypeOK
  <1>2. AtMostOnce'
    BY DEF TypeOK, AtMostOnce, PlaceDetermines
  <1>3. OneActsPerKey'
    BY DEF TypeOK, OneActsPerKey, Acting, Missing, Absent
  <1>4. \A kk \in Keys : ReceiptDetermines(kk)'
    <2> SUFFICES ASSUME NEW kk \in Keys PROVE ReceiptDetermines(kk)'
      OBVIOUS
    <2>1. CASE UNCHANGED receipt
      BY <2>1 DEF TypeOK, ReceiptDetermines, Missing, Absent, Answer
    <2>2. CASE ~UNCHANGED receipt
      <3>1. /\ Missing(job[w].key)
            /\ receipt' = [receipt EXCEPT ![job[w].key] =
                 [Absent EXCEPT !.state = "pending", !.print = job[w].print]]
            /\ UNCHANGED <<completion, applied, answers>>
        BY <2>2
      <3> QED
        BY <3>1 DEF TypeOK, ReceiptDetermines, Missing, Absent, Answer
    <2> QED
      BY <2>1, <2>2
  <1>5. \A ww \in Workers : PlaceDetermines(ww)'
    BY DEF TypeOK, PlaceDetermines, OneActsPerKey, Acting, ReceiptDetermines
  <1> QED
    BY <1>1, <1>2, <1>3, <1>4, <1>5 DEF ReceiptInv

LEMMA MarkStep ==
  ASSUME ReceiptInv, NEW w \in Workers, MarkResourceEffectExecuting(w)
  PROVE  ReceiptInv'
  <1> DEFINE R == [state : States, print : Prints \cup {NoPrint},
                   outcome : Outcomes, revision : Nat]
  <1>1. PICK k : k = job[w].key
    OBVIOUS
  <1>2. /\ UNCHANGED <<completion, sequence, revision, events, crashes, applied,
                       answers>>
        /\ k \in Keys /\ job[w] \in Jobs /\ pc[w] = "granted"
    BY <1>1 DEF MarkResourceEffectExecuting, ReceiptInv, TypeOK, Jobs
  <1>3. TypeOK /\ AtMostOnce /\ OneActsPerKey
        /\ (\A kk \in Keys : ReceiptDetermines(kk))
        /\ (\A ww \in Workers : PlaceDetermines(ww))
    BY DEF ReceiptInv
  <1>4. AtMostOnce'
    BY <1>2, <1>3 DEF AtMostOnce
  <1>5. CASE ~Resumable(k, job[w].print)
    <2>1. /\ UNCHANGED receipt /\ pc' = [pc EXCEPT ![w] = "idle"]
          /\ job' = [job EXCEPT ![w] = NoJob]
      BY <1>1, <1>5 DEF MarkResourceEffectExecuting, Reply, Go
    <2>2. /\ pc'[w] = "idle" /\ pc' \in [Workers -> Places]
          /\ job'[w] = NoJob /\ job' \in [Workers -> Jobs \cup {NoJob}]
          /\ \A v \in Workers \ {w} : pc'[v] = pc[v] /\ job'[v] = job[v]
      BY <1>3, <2>1 DEF TypeOK, Places
    <2>3. TypeOK'
      BY <1>2, <1>3, <2>1, <2>2 DEF TypeOK
    <2>4. OneActsPerKey'
      BY <1>3, <2>1, <2>2 DEF OneActsPerKey, Acting
    <2>5. \A kk \in Keys : ReceiptDetermines(kk)'
      BY <1>2, <1>3, <2>1 DEF ReceiptDetermines, Missing
    <2>6. \A ww \in Workers : PlaceDetermines(ww)'
      BY <1>2, <1>3, <2>2 DEF PlaceDetermines
    <2> QED
      BY <1>4, <2>3, <2>4, <2>5, <2>6 DEF ReceiptInv
  <1>6. CASE Resumable(k, job[w].print)
    <2>1. PICK x : x = [receipt[k] EXCEPT !.state = "executing"]
      OBVIOUS
    <2>2. /\ receipt' = [receipt EXCEPT ![k] = x]
          /\ pc' = [pc EXCEPT ![w] = "running"] /\ UNCHANGED job
          /\ receipt[k].print = job[w].print /\ receipt[k].state = "pending"
      BY <1>1, <1>6, <2>1 DEF MarkResourceEffectExecuting, Resumable, Go
    <2>3. /\ x \in R /\ x.state = "executing" /\ x.print = job[w].print
      BY <1>2, <1>3, <2>1, <2>2 DEF TypeOK, States
    <2>4. /\ receipt' \in [Keys -> R] /\ receipt'[k] = x
          /\ \A kk \in Keys \ {k} : receipt'[kk] = receipt[kk]
      BY <1>2, <1>3, <2>2, <2>3 DEF TypeOK
    <2>5. /\ pc'[w] = "running" /\ pc' \in [Workers -> Places]
          /\ \A v \in Workers \ {w} : pc'[v] = pc[v]
      BY <1>3, <2>2 DEF TypeOK, Places
    <2>6. TypeOK'
      BY <1>2, <1>3, <2>2, <2>4, <2>5 DEF TypeOK
    <2>7. \A v \in Workers : Acting(v) => job[v].key # k
      BY <1>2, <1>3, <2>2 DEF OneActsPerKey
    <2>8. \A v \in Workers : Acting(v) => job[v].key \in Keys
      <3>1. \A v \in Workers : Acting(v) => job[v] # NoJob
        BY <1>3 DEF Acting, TypeOK
      <3> QED
        BY <1>3, <3>1 DEF TypeOK, Jobs
    <2>9. \A v \in Workers : Acting(v)' <=> v = w \/ Acting(v)
      BY <2>5 DEF Acting
    <2>10. OneActsPerKey'
      BY <1>1, <1>3, <2>2, <2>3, <2>4, <2>7, <2>8, <2>9 DEF OneActsPerKey
    <2>11. \A kk \in Keys : ReceiptDetermines(kk)'
      <3>1. \A kk \in Keys \ {k} : ReceiptDetermines(kk)'
        BY <1>2, <1>3, <2>4 DEF ReceiptDetermines, Missing
      <3>2. ReceiptDetermines(k)'
        BY <1>2, <1>3, <2>2, <2>3, <2>4 DEF ReceiptDetermines, Missing
      <3> QED
        BY <3>1, <3>2
    <2>12. \A ww \in Workers : PlaceDetermines(ww)'
      <3>1. applied[k] = 0
        BY <1>2, <1>3, <2>2 DEF ReceiptDetermines
      <3> QED
        BY <1>1, <1>2, <1>3, <2>2, <2>5, <3>1 DEF PlaceDetermines
    <2> QED
      BY <1>4, <2>6, <2>10, <2>11, <2>12 DEF ReceiptInv
  <1> QED
    BY <1>5, <1>6

LEMMA RunStep ==
  ASSUME ReceiptInv, NEW w \in Workers, RunEffect(w)
  PROVE  ReceiptInv'
  <1> USE ConstantsAssumption DEF ReceiptInv, RunEffect, Go
  <1>1. TypeOK'
    <2>1. (receipt \in [Keys -> [state : States, print : Prints \cup {NoPrint},
                               outcome : Outcomes, revision : Nat]])'
      BY DEF TypeOK, Absent
    <2>2. (answers \in [Keys -> SUBSET [outcome : Outcomes, revision : Nat]])'
      BY DEF TypeOK, Answer
    <2>3. (pc \in [Workers -> Places])'
      BY DEF TypeOK
    <2>4. (job \in [Workers -> Jobs \cup {NoJob}])'
      BY DEF TypeOK
    <2>5. \A ww \in Workers : (job[ww] = NoJob <=> pc[ww] = "idle")'
      BY DEF TypeOK
    <2> QED
      BY <2>1, <2>2, <2>3, <2>4, <2>5 DEF TypeOK
  <1>2. AtMostOnce'
    BY DEF TypeOK, AtMostOnce, PlaceDetermines
  <1>3. OneActsPerKey'
    BY DEF TypeOK, OneActsPerKey, Acting, Missing, Absent
  <1>4. \A kk \in Keys : ReceiptDetermines(kk)'
    BY DEF TypeOK, ReceiptDetermines, OneActsPerKey, Acting, Missing, Absent, Answer
  <1>5. \A ww \in Workers : PlaceDetermines(ww)'
    BY DEF TypeOK, PlaceDetermines, OneActsPerKey, Acting, ReceiptDetermines
  <1> QED
    BY <1>1, <1>2, <1>3, <1>4, <1>5 DEF ReceiptInv

LEMMA UndecidedStep ==
  ASSUME ReceiptInv, NEW w \in Workers, MarkResourceEffectIndeterminate(w)
  PROVE  ReceiptInv'
  <1> USE ConstantsAssumption DEF ReceiptInv, MarkResourceEffectIndeterminate, Go, Reply
  <1>1. TypeOK'
    <2>1. (receipt \in [Keys -> [state : States, print : Prints \cup {NoPrint},
                               outcome : Outcomes, revision : Nat]])'
      BY DEF TypeOK, Absent
    <2>2. (answers \in [Keys -> SUBSET [outcome : Outcomes, revision : Nat]])'
      BY DEF TypeOK, Answer
    <2>3. (pc \in [Workers -> Places])'
      BY DEF TypeOK
    <2>4. (job \in [Workers -> Jobs \cup {NoJob}])'
      BY DEF TypeOK
    <2>5. \A ww \in Workers : (job[ww] = NoJob <=> pc[ww] = "idle")'
      BY DEF TypeOK
    <2> QED
      BY <2>1, <2>2, <2>3, <2>4, <2>5 DEF TypeOK
  <1>2. AtMostOnce'
    BY DEF TypeOK, AtMostOnce, PlaceDetermines
  <1>3. OneActsPerKey'
    BY DEF TypeOK, OneActsPerKey, Acting, Missing, Absent
  <1>4. \A kk \in Keys : ReceiptDetermines(kk)'
    BY DEF TypeOK, ReceiptDetermines, OneActsPerKey, Acting, Missing, Absent, Answer
  <1>5. \A ww \in Workers : PlaceDetermines(ww)'
    BY DEF TypeOK, PlaceDetermines, OneActsPerKey, Acting, ReceiptDetermines
  <1> QED
    BY <1>1, <1>2, <1>3, <1>4, <1>5 DEF ReceiptInv

(* Whatever the byte budget cuts, the log holds revisions.                 *)
LEMMA RetainedType ==
  ASSUME NEW r \in Nat, events \in SUBSET Nat
  PROVE  RetainedWith(r) \subseteq SUBSET Nat
  BY DEF RetainedWith

ReceiptRecords == [state : States, print : Prints \cup {NoPrint},
                   outcome : Outcomes, revision : Nat]

(* Settling a key's receipt together with its answer keeps the receipt     *)
(* determining what ran, whatever else the commit writes.                  *)
LEMMA SettledReceipt ==
  ASSUME ReceiptInv, NEW k \in Keys, receipt[k].state = "executing",
         NEW outcome \in {"success", "failure"}, NEW r \in Nat,
         applied[k] = IF outcome = "success" THEN 1 ELSE 0,
         NEW s, s = Settled(k, outcome, r)
  PROVE  /\ s \in [Keys -> ReceiptRecords]
         /\ s[k].state = "committed" /\ s[k].print = receipt[k].print
         /\ s[k].outcome = outcome
         /\ s[k].revision = r
         /\ \A j \in Keys \ {k} : s[j] = receipt[j]
         /\ Answer(s[k]) \in [outcome : Outcomes, revision : Nat]
         /\ answers[k] = {}
<1> DEFINE R == ReceiptRecords
           x == [receipt[k] EXCEPT !.state = "committed", !.outcome = outcome,
                                   !.revision = r]
<1>1. receipt \in [Keys -> R] /\ receipt[k] \in R /\ answers[k] = {}
  BY DEF ReceiptInv, TypeOK, ReceiptDetermines, ReceiptRecords
<1>2. s = [receipt EXCEPT ![k] = x]
  BY DEF Settled
<1>3. /\ x \in R /\ x.state = "committed" /\ x.print = receipt[k].print
      /\ x.outcome = outcome /\ x.revision = r
  BY <1>1 DEF States, Outcomes, ReceiptRecords
<1>4. Answer(x) \in [outcome : Outcomes, revision : Nat]
  BY <1>3 DEF Answer, Outcomes
<1> HIDE DEF x, R
<1>5. s \in [Keys -> R] /\ s[k] = x /\ \A j \in Keys \ {k} : s[j] = receipt[j]
  BY <1>1, <1>2, <1>3
<1> QED
  BY <1>1, <1>3, <1>4, <1>5 DEF R

LEMMA CommitStep ==
  ASSUME ReceiptInv, NEW w \in Workers, CommitResourceEffect(w)
  PROVE  ReceiptInv'
  <1> DEFINE k == job[w].key
             p == job[w].print
             outcome == IF pc[w] = "applied" THEN "success" ELSE "failure"
  <1> USE ConstantsAssumption
  <1>1. /\ k \in Keys /\ p \in Prints
        /\ pc[w] \in {"applied", "refused"}
        /\ outcome \in {"success", "failure"}
        /\ applied[k] = IF outcome = "success" THEN 1 ELSE 0
    BY DEF ReceiptInv, TypeOK, CommitResourceEffect, PlaceDetermines
  <1>2. CASE Go(w, "unsettled") /\ UNCHANGED <<store, job, applied, answers>>
    <2> USE <1>1, <1>2 DEF ReceiptInv, CommitResourceEffect, Go
    <2>1. TypeOK'
      BY DEF TypeOK
    <2>2. AtMostOnce' /\ OneActsPerKey'
      BY DEF TypeOK, AtMostOnce, OneActsPerKey, Acting
    <2>3. \A kk \in Keys : ReceiptDetermines(kk)'
      BY DEF TypeOK, ReceiptDetermines, Missing, Absent, Answer
    <2>4. \A ww \in Workers : PlaceDetermines(ww)'
      BY DEF TypeOK, PlaceDetermines
    <2> QED
      BY <2>1, <2>2, <2>3, <2>4
  <1>3. CASE /\ receipt[k].print = p /\ receipt[k].state = "executing"
             /\ p \notin Inputs
             /\ CommitChange(k, outcome)
             /\ Reply(w) /\ UNCHANGED crashes
    <2>1. PICK r \in Nat :
            /\ r = revision' /\ receipt' = Settled(k, outcome, r)
      BY <1>3 DEF CommitChange, ReceiptInv, TypeOK
    <2>2. events' \in SUBSET Nat
      <3>1. revision \in Nat /\ revision + 1 \in Nat /\ events \in SUBSET Nat
        BY DEF ReceiptInv, TypeOK
      <3>2. RetainedWith(revision + 1) \subseteq SUBSET Nat
        BY <3>1, RetainedType
      <3> QED
        BY <1>3, <3>1, <3>2 DEF CommitChange
    <2>3. /\ answers' = [answers EXCEPT ![k] = @ \cup {Answer(receipt'[k])}]
          /\ UNCHANGED <<completion, sequence, applied, crashes>>
          /\ pc' = [pc EXCEPT ![w] = "idle"]
          /\ job' = [job EXCEPT ![w] = NoJob]
      BY <1>3 DEF CommitChange, Reply, Go
    <2> HIDE DEF k, p, outcome
    <2>4. /\ receipt' \in [Keys -> ReceiptRecords]
          /\ receipt'[k].state = "committed" /\ receipt'[k].outcome = outcome
          /\ \A j \in Keys \ {k} : receipt'[j] = receipt[j]
          /\ Answer(receipt'[k]) \in [outcome : Outcomes, revision : Nat]
          /\ answers[k] = {}
      BY <1>1, <1>3, <2>1, SettledReceipt
    <2>5. TypeOK'
      <3> USE DEF ReceiptInv, TypeOK
      <3>1. /\ revision' \in Nat /\ completion' \in [Keys -> Nat]
            /\ sequence' \in Nat /\ crashes' \in Nat
            /\ applied' \in [Keys -> Nat]
        BY <2>1, <2>3
      <3>2. /\ pc' \in [Workers -> Places]
            /\ job' \in [Workers -> Jobs \cup {NoJob}]
            /\ \A ww \in Workers : job'[ww] = NoJob <=> pc'[ww] = "idle"
        BY <2>3 DEF Places
      <3>3. answers' \in [Keys -> SUBSET [outcome : Outcomes, revision : Nat]]
        BY <2>3, <2>4, <1>1
      <3> QED
        BY <2>2, <2>4, <3>1, <3>2, <3>3 DEF ReceiptRecords
    <2>6. AtMostOnce'
      BY <2>3 DEF ReceiptInv, AtMostOnce
    <2>7. OneActsPerKey' /\ \A ww \in Workers : PlaceDetermines(ww)'
      BY <1>1, <2>3, <2>4 DEF ReceiptInv, TypeOK, OneActsPerKey, Acting,
                              PlaceDetermines, k
    <2>8. \A kk \in Keys : ReceiptDetermines(kk)'
      BY <1>1, <2>3, <2>4 DEF ReceiptInv, TypeOK, ReceiptDetermines, Missing,
                              Answer
    <2> QED
      BY <2>5, <2>6, <2>7, <2>8 DEF ReceiptInv
  <1>4. CASE /\ receipt[k].print = p /\ receipt[k].state = "executing"
             /\ CommitInput(k, outcome)
             /\ Reply(w) /\ UNCHANGED crashes
    <2> DEFINE done == Settled(k, outcome, revision)
               recorded == [completion EXCEPT ![k] = sequence + 1]
               given == [answers EXCEPT ![k] = @ \cup {Answer(done[k])}]
    <2>1. PICK gone \in SUBSET Keys :
            /\ \A j \in gone : recorded[j] # 0
            /\ Forget(gone, done, recorded, given)
      BY <1>4 DEF CommitInput, Surplus
    <2>2. /\ sequence' = sequence + 1
          /\ UNCHANGED <<revision, events, crashes>>
          /\ pc' = [pc EXCEPT ![w] = "idle"]
          /\ job' = [job EXCEPT ![w] = NoJob]
      BY <1>4 DEF CommitInput, Reply, Go
    <2> HIDE DEF k, p, outcome
    <2>3. /\ done \in [Keys -> ReceiptRecords]
          /\ done[k].state = "committed" /\ done[k].outcome = outcome
          /\ \A j \in Keys \ {k} : done[j] = receipt[j]
          /\ Answer(done[k]) \in [outcome : Outcomes, revision : Nat]
          /\ answers[k] = {}
      <3>1. revision \in Nat
        BY DEF ReceiptInv, TypeOK
      <3>2. done = Settled(k, outcome, revision) /\ receipt[k].state = "executing"
        BY <1>4
      <3> HIDE DEF done
      <3> QED
        BY <1>1, <3>1, <3>2, SettledReceipt
    <2>4. /\ recorded \in [Keys -> Nat]
          /\ given \in [Keys -> SUBSET [outcome : Outcomes, revision : Nat]]
          /\ given[k] = {Answer(done[k])}
          /\ \A j \in Keys \ {k} : given[j] = answers[j]
          /\ \A j \in Keys \ {k} : recorded[j] = completion[j]
          /\ recorded[k] = sequence + 1
          /\ sequence \in Nat /\ sequence' \in Nat
          /\ \A j \in Keys : completion[j] \in Nat
      <3> HIDE DEF done
      <3> QED
        BY <1>1, <2>2, <2>3 DEF ReceiptInv, TypeOK
    <2>5. \A j \in gone : done[j].state = "committed"
      BY <2>1, <2>3, <2>4 DEF ReceiptInv, ReceiptDetermines
    <2> HIDE DEF done, recorded, given
    <2>6. TypeOK'
      <3>1. receipt' \in [Keys -> [state : States, print : Prints \cup {NoPrint},
                                   outcome : Outcomes, revision : Nat]]
        <4>1. Absent \in ReceiptRecords
          BY DEF Absent, ReceiptRecords, States, Outcomes
        <4>2. receipt' \in [Keys -> ReceiptRecords]
          BY <2>1, <2>3, <4>1 DEF Forget
        <4> QED
          BY <4>2 DEF ReceiptRecords
      <3>2. /\ completion' \in [Keys -> Nat] /\ applied' \in [Keys -> Nat]
            /\ answers' \in [Keys -> SUBSET [outcome : Outcomes, revision : Nat]]
        BY <2>1, <2>4 DEF Forget, ReceiptInv, TypeOK
      <3> QED
        BY <2>2, <3>1, <3>2 DEF ReceiptInv, TypeOK
    <2>7. AtMostOnce'
      BY <2>1 DEF ReceiptInv, AtMostOnce, Forget
    <2>8. \A v \in Workers : Acting(v)' => /\ v # w /\ Acting(v)
                                           /\ job'[v] = job[v]
                                           /\ job[v].key \in Keys \ (gone \cup {k})
      BY <1>1, <2>2, <2>3, <2>5 DEF ReceiptInv, TypeOK, OneActsPerKey, Acting, k
    <2>9. \A j \in Keys \ (gone \cup {k}) : receipt'[j] = receipt[j]
                                            /\ applied'[j] = applied[j]
      BY <2>1, <2>3 DEF Forget
    <2>10. OneActsPerKey' /\ \A ww \in Workers : PlaceDetermines(ww)'
      <3>1. \A v \in Workers : Acting(v)' => pc'[v] = pc[v]
        BY <2>2, <2>8 DEF ReceiptInv, TypeOK
      <3> QED
        BY <2>8, <2>9, <3>1 DEF ReceiptInv, OneActsPerKey, PlaceDetermines, Acting
    <2>11. \A kk \in Keys : ReceiptDetermines(kk)'
      <3> SUFFICES ASSUME NEW kk \in Keys PROVE ReceiptDetermines(kk)'
        OBVIOUS
      <3>1. CASE kk \in gone
        BY <2>1, <2>2, <2>4, <3>1 DEF Forget, ReceiptDetermines, Missing, Absent
      <3>2. CASE kk = k /\ kk \notin gone
        BY <1>1, <2>1, <2>2, <2>3, <2>4, <3>2
           DEF Forget, ReceiptDetermines, Missing, Answer
      <3>3. CASE kk # k /\ kk \notin gone
        BY <2>1, <2>2, <2>3, <2>4, <3>3
           DEF ReceiptInv, Forget, ReceiptDetermines, Missing, Answer
      <3> QED
        BY <3>1, <3>2, <3>3
    <2> QED
      BY <2>6, <2>7, <2>10, <2>11 DEF ReceiptInv
  <1> QED
    BY <1>2, <1>3, <1>4 DEF CommitResourceEffect

LEMMA RestartStep ==
  ASSUME ReceiptInv, Restart
  PROVE  ReceiptInv'
  <1>1. /\ pc' = [v \in Workers |-> "idle"] /\ job' = [v \in Workers |-> NoJob]
        /\ crashes' = crashes + 1
        /\ UNCHANGED <<sequence, revision, events>>
    BY DEF Restart
  <1>2. PICK gone \in SUBSET Keys :
          /\ \A j \in gone : completion[j] # 0
          /\ Forget(gone, Recovered, completion, answers)
    BY DEF Restart, Surplus
  <1>3. /\ Recovered \in [Keys -> [state : States, print : Prints \cup {NoPrint},
                                   outcome : Outcomes, revision : Nat]]
        /\ \A j \in Keys : \/ Recovered[j] = receipt[j]
                           \/ /\ receipt[j].state = "executing"
                              /\ Recovered[j].state = "indeterminate"
    BY DEF ReceiptInv, TypeOK, Recovered
  <1>4. TypeOK'
    <2>1. receipt' \in [Keys -> [state : States, print : Prints \cup {NoPrint},
                                 outcome : Outcomes, revision : Nat]]
      BY <1>2, <1>3, ConstantsAssumption DEF Forget, Absent
    <2>2. /\ completion' \in [Keys -> Nat] /\ applied' \in [Keys -> Nat]
          /\ answers' \in [Keys -> SUBSET [outcome : Outcomes, revision : Nat]]
      BY <1>2 DEF Forget, ReceiptInv, TypeOK
    <2> QED
      BY <1>1, <2>1, <2>2 DEF ReceiptInv, TypeOK
  <1>5. AtMostOnce'
    BY <1>2 DEF ReceiptInv, AtMostOnce, Forget
  <1>6. OneActsPerKey' /\ \A ww \in Workers : PlaceDetermines(ww)'
    BY <1>1 DEF OneActsPerKey, PlaceDetermines, Acting
  <1>7. \A kk \in Keys : ReceiptDetermines(kk)'
    <2> SUFFICES ASSUME NEW kk \in Keys PROVE ReceiptDetermines(kk)'
      OBVIOUS
    <2>1. CASE kk \in gone
      BY <1>1, <1>2, <2>1 DEF ReceiptInv, TypeOK, Forget, ReceiptDetermines,
                              Missing, Absent
    <2>2. CASE kk \notin gone
      BY <1>1, <1>2, <1>3, <2>2 DEF ReceiptInv, Forget, ReceiptDetermines, Missing,
                              Absent, Answer
    <2> QED
      BY <2>1, <2>2
  <1> QED
    BY <1>4, <1>5, <1>6, <1>7 DEF ReceiptInv

LEMMA NextStep == ReceiptInv /\ [Next]_vars => ReceiptInv'
  <1> SUFFICES ASSUME ReceiptInv, [Next]_vars PROVE ReceiptInv'
    OBVIOUS
  <1>1. CASE \E w \in Workers, k \in Keys, p \in Prints :
               LookupResourceEffect(w, k, p)
    BY <1>1, LookupStep DEF Prints
  <1>2. CASE \E w \in Workers : Proceed(w)
    BY <1>2, RejectStep, PrepareStep, MarkStep, RunStep, CommitStep,
       UndecidedStep DEF Proceed
  <1>3. CASE Restart
    BY <1>3, RestartStep
  <1>4. CASE UNCHANGED vars
    <2> USE <1>4 DEF ReceiptInv
    <2>1. TypeOK' /\ AtMostOnce'
      BY DEF TypeOK, AtMostOnce
    <2>2. OneActsPerKey' /\ \A w \in Workers : PlaceDetermines(w)'
      BY DEF OneActsPerKey, PlaceDetermines, Acting
    <2>3. \A k \in Keys : ReceiptDetermines(k)'
      BY DEF ReceiptDetermines, Missing, Absent, Answer
    <2> QED
      BY <2>1, <2>2, <2>3
  <1> QED
    BY <1>1, <1>2, <1>3, <1>4 DEF Next

(* The receipts, the history of the effects and the places of the workers  *)
(* stay in agreement through every race, failed commit and restart.        *)
THEOREM ReceiptsInvariant == Spec => []ReceiptInv
  BY InitReceiptInv, NextStep, PTL DEF Spec

(* Every variable keeps its type; in particular a worker holds a request   *)
(* exactly while it is not idle.                                           *)
THEOREM TypeCorrect == Spec => []TypeOK
  <1>1. ReceiptInv => TypeOK
    BY DEF ReceiptInv
  <1> QED
    BY <1>1, ReceiptsInvariant, PTL

(* No effect runs twice under one retained receipt, for any number of      *)
(* concurrent retries and of restarts.                                     *)
THEOREM EffectRunsAtMostOnce == Spec => []AtMostOnce
  <1>1. ReceiptInv => AtMostOnce
    BY DEF ReceiptInv
  <1> QED
    BY <1>1, ReceiptsInvariant, PTL

(* Between executing and settled, a key has one acting worker.             *)
THEOREM OneWorkerActsPerKey == Spec => []OneActsPerKey
  <1>1. ReceiptInv => OneActsPerKey
    BY DEF ReceiptInv
  <1> QED
    BY <1>1, ReceiptsInvariant, PTL

(* Success answers are only given for effects that ran, failure answers    *)
(* only for effects that did not and never will under that receipt.        *)
THEOREM AnswersAreTrue == Spec => []AnswersTellTheTruth
  <1>1. ReceiptInv => AnswersTellTheTruth
    BY DEF ReceiptInv, AnswersTellTheTruth, ReceiptDetermines, Answer
  <1> QED
    BY <1>1, ReceiptsInvariant, PTL

(* All definite answers for a key agree in outcome and revision.           *)
THEOREM RetriesReplayOneAnswer == Spec => []ReplayIsStable
  <1>1. ReceiptInv => ReplayIsStable
    BY DEF ReceiptInv, ReplayIsStable, ReceiptDetermines
  <1> QED
    BY <1>1, ReceiptsInvariant, PTL

(* An effect that ran is behind a receipt no retry can execute again.      *)
THEOREM RunEffectsAreRecorded == Spec => []AppliedIsRecorded
  <1>1. ReceiptInv => AppliedIsRecorded
    BY DEF ReceiptInv, TypeOK, AppliedIsRecorded, ReceiptDetermines
  <1> QED
    BY <1>1, ReceiptsInvariant, PTL

-----------------------------------------------------------------------------
(* Refinement.  A key that keeps its status and its run count stutters.    *)
Same(k) == Status(receipt'[k]) = Status(receipt[k]) /\ applied'[k] = applied[k]

(* One step of a key, in the terms of AtMostOnceEffect.                    *)
Moves(k) ==
  LET s == Status(receipt[k])
      t == Status(receipt'[k])
  IN \/ Same(k)
     \/ s = "free" /\ t = "claimed" /\ applied'[k] = 0
     \/ s = "claimed" /\ t = "claimed" /\ applied[k] = 0 /\ applied'[k] = 1
     \/ s = "claimed" /\ t = "done" /\ applied[k] = 1 /\ applied'[k] = 1
     \/ s = "claimed" /\ t = "refused" /\ applied[k] = 0 /\ applied'[k] = 0
     \/ s = "claimed" /\ t = "unknown" /\ applied'[k] = applied[k]
     \/ s \in {"done", "refused"} /\ t = "free" /\ applied'[k] = 0

LEMMA MovesRefine == (\A k \in Keys : Moves(k)) => Promise!Next
  BY DEF Moves, Same, Promise!Next, Promise!Claim, Promise!Run, Promise!Succeed, Promise!Refuse,
         Promise!GiveUp, Promise!Forget, Promise!Keep, Promise!Becomes

LEMMA QuietMoves ==
  ASSUME UNCHANGED <<receipt, applied>>
  PROVE  \A k \in Keys : Moves(k)
  BY DEF Moves, Same

LEMMA PrepareMoves ==
  ASSUME ReceiptInv, NEW w \in Workers, PrepareResourceEffect(w)
  PROVE  \A k \in Keys : Moves(k)
  <1>1. CASE UNCHANGED receipt
    BY <1>1, QuietMoves DEF PrepareResourceEffect, ResolvePreparation
  <1>2. CASE ~UNCHANGED receipt
    <2>1. /\ Missing(job[w].key) /\ UNCHANGED applied
          /\ receipt' = [receipt EXCEPT ![job[w].key] =
               [Absent EXCEPT !.state = "pending", !.print = job[w].print]]
      BY <1>2 DEF PrepareResourceEffect, ResolvePreparation
    <2> QED
      BY <2>1 DEF ReceiptInv, TypeOK, Missing, Absent, Moves, Same, Status
  <1> QED
    BY <1>1, <1>2

LEMMA MarkMoves ==
  ASSUME ReceiptInv, NEW w \in Workers, MarkResourceEffectExecuting(w)
  PROVE  \A k \in Keys : Moves(k)
  <1>1. CASE UNCHANGED receipt
    BY <1>1, QuietMoves DEF MarkResourceEffectExecuting
  <1>2. CASE ~UNCHANGED receipt
    <2>1. /\ job[w].key \in Keys /\ UNCHANGED applied
          /\ receipt[job[w].key].state = "pending"
          /\ receipt' = [receipt EXCEPT ![job[w].key].state = "executing"]
      BY <1>2 DEF MarkResourceEffectExecuting, Resumable, ReceiptInv, TypeOK
    <2>2. /\ receipt'[job[w].key].state = "executing"
          /\ \A k \in Keys \ {job[w].key} : receipt'[k] = receipt[k]
          /\ applied[job[w].key] = 0
      BY <2>1 DEF ReceiptInv, TypeOK, ReceiptDetermines
    <2> QED
      BY <2>1, <2>2 DEF Moves, Same, Status
  <1> QED
    BY <1>1, <1>2

LEMMA RunMoves ==
  ASSUME ReceiptInv, NEW w \in Workers, RunEffect(w)
  PROVE  \A k \in Keys : Moves(k)
  <1>1. /\ job[w].key \in Keys /\ UNCHANGED receipt
        /\ Status(receipt[job[w].key]) = "claimed"
        /\ applied[job[w].key] = 0
    BY DEF RunEffect, ReceiptInv, TypeOK, OneActsPerKey, Acting,
           PlaceDetermines, Status
  <1> QED
    BY <1>1 DEF RunEffect, ReceiptInv, TypeOK, Moves, Same

LEMMA UndecidedMoves ==
  ASSUME ReceiptInv, NEW w \in Workers, MarkResourceEffectIndeterminate(w)
  PROVE  \A k \in Keys : Moves(k)
  <1>1. CASE UNCHANGED receipt
    BY <1>1, QuietMoves DEF MarkResourceEffectIndeterminate
  <1>2. CASE ~UNCHANGED receipt
    <2>1. /\ job[w].key \in Keys /\ UNCHANGED applied
          /\ receipt[job[w].key].state = "executing"
          /\ receipt' = [receipt EXCEPT ![job[w].key].state = "indeterminate"]
      BY <1>2 DEF MarkResourceEffectIndeterminate, ReceiptInv, TypeOK,
                  OneActsPerKey, Acting
    <2>2. /\ receipt'[job[w].key].state = "indeterminate"
          /\ \A k \in Keys \ {job[w].key} : receipt'[k] = receipt[k]
      BY <2>1 DEF ReceiptInv, TypeOK
    <2> QED
      BY <2>1, <2>2 DEF Moves, Same, Status
  <1> QED
    BY <1>1, <1>2

(* The input just completed is newer than every other, so that pruning     *)
(* never takes it.                                                         *)
LEMMA NewestIsKept ==
  ASSUME ReceiptInv, NEW k \in Keys
  PROVE  k \notin Surplus([completion EXCEPT ![k] = sequence + 1])
  <1> DEFINE recorded == [completion EXCEPT ![k] = sequence + 1]
  <1>1. {j \in Keys : recorded[j] > recorded[k]} = {}
    BY DEF ReceiptInv, TypeOK, ReceiptDetermines
  <1>2. Cardinality({j \in Keys : recorded[j] > recorded[k]}) < Capacity
    BY <1>1, FS_EmptySet, ConstantsAssumption
  <1>3. \A n \in Nat, m \in Nat : n < m => ~(n >= m)
    OBVIOUS
  <1>4. Cardinality({j \in Keys : recorded[j] > recorded[k]}) = 0
    BY <1>1, FS_EmptySet
  <1> QED
    BY <1>2, <1>3, <1>4, ConstantsAssumption DEF Surplus

LEMMA CommitMoves ==
  ASSUME ReceiptInv, NEW w \in Workers, CommitResourceEffect(w)
  PROVE  \A k \in Keys : Moves(k)
  <1> DEFINE k == job[w].key
             p == job[w].print
             outcome == IF pc[w] = "applied" THEN "success" ELSE "failure"
  <1>1. /\ k \in Keys
        /\ outcome \in {"success", "failure"}
        /\ applied[k] = IF outcome = "success" THEN 1 ELSE 0
        /\ revision \in Nat /\ revision + 1 \in Nat
    BY DEF ReceiptInv, TypeOK, CommitResourceEffect, PlaceDetermines
  <1>2. CASE UNCHANGED <<store, job, applied, answers>>
    BY <1>2, QuietMoves
  <1>3. CASE /\ receipt[k].state = "executing" /\ CommitChange(k, outcome)
    <2>1. PICK r \in Nat : receipt' = Settled(k, outcome, r)
      BY <1>1, <1>3 DEF CommitChange, ReceiptInv, TypeOK
    <2>2. UNCHANGED applied
      BY <1>3 DEF CommitChange
    <2> HIDE DEF k, p, outcome
    <2>3. /\ receipt'[k].state = "committed" /\ receipt'[k].outcome = outcome
          /\ \A j \in Keys \ {k} : receipt'[j] = receipt[j]
      BY <1>1, <1>3, <2>1, SettledReceipt
    <2> QED
      BY <1>1, <1>3, <2>2, <2>3 DEF Moves, Same, Status
  <1>4. CASE /\ receipt[k].state = "executing" /\ CommitInput(k, outcome)
    <2> DEFINE done == Settled(k, outcome, revision)
               recorded == [completion EXCEPT ![k] = sequence + 1]
               given == [answers EXCEPT ![k] = @ \cup {Answer(done[k])}]
    <2>1. PICK gone \in SUBSET Keys :
            /\ \A j \in gone : recorded[j] # 0
            /\ gone \subseteq Surplus(recorded)
            /\ Forget(gone, done, recorded, given)
      BY <1>4 DEF CommitInput, Surplus
    <2>2. k \notin gone
      BY <1>1, <2>1, NewestIsKept
    <2> HIDE DEF k, p, outcome
    <2>3. /\ done[k].state = "committed" /\ done[k].outcome = outcome
          /\ \A j \in Keys \ {k} : done[j] = receipt[j]
      BY <1>1, <1>4, SettledReceipt
    <2>4. \A j \in Keys \ {k} : recorded[j] = completion[j]
      BY <1>1 DEF ReceiptInv, TypeOK
    <2>5. \A j \in gone : receipt[j].state = "committed"
      BY <2>1, <2>2, <2>4 DEF ReceiptInv, ReceiptDetermines
    <2> HIDE DEF done, recorded, given
    <2> SUFFICES ASSUME NEW j \in Keys PROVE Moves(j)
      OBVIOUS
    <2>6. CASE j \in gone
      BY <2>1, <2>5, <2>6 DEF Forget, Absent, Moves, Status
    <2>7. CASE j = k
      BY <1>1, <1>4, <2>1, <2>2, <2>3, <2>7 DEF Forget, Moves, Status
    <2>8. CASE j \notin gone /\ j # k
      BY <2>1, <2>3, <2>8 DEF Forget, Moves, Same
    <2> QED
      BY <2>6, <2>7, <2>8
  <1> QED
    BY <1>2, <1>3, <1>4 DEF CommitResourceEffect

LEMMA RestartMoves ==
  ASSUME ReceiptInv, Restart
  PROVE  \A k \in Keys : Moves(k)
  <1>1. PICK gone \in SUBSET Keys :
          /\ \A j \in gone : completion[j] # 0
          /\ Forget(gone, Recovered, completion, answers)
    BY DEF Restart, Surplus
  <1> SUFFICES ASSUME NEW k \in Keys PROVE Moves(k)
    OBVIOUS
  <1>2. CASE k \in gone
    BY <1>1, <1>2 DEF ReceiptInv, ReceiptDetermines, Forget, Absent, Moves, Status
  <1>3. CASE k \notin gone
    BY <1>1, <1>3 DEF ReceiptInv, TypeOK, Recovered, Forget, Moves, Same, Status
  <1> QED
    BY <1>2, <1>3

(* The threads, the table and its pruning implement AtMostOnceEffect: each *)
(* step moves every key as the abstract specification allows or not at all.*)
THEOREM ReceiptsImplementPromise == Spec => ImplementsPromise
  <1>1. Init => Promise!Init
    BY DEF Init, Absent, Promise!Init, Status
  <1>2. ReceiptInv /\ [Next]_vars
          => [Promise!Next]_<<[k \in Keys |-> Status(receipt[k])], applied>>
    <2> SUFFICES ASSUME ReceiptInv, [Next]_vars
                 PROVE  \A k \in Keys : Moves(k)
      BY MovesRefine
    <2>1. CASE \E w \in Workers, k \in Keys, p \in Prints :
                 LookupResourceEffect(w, k, p)
      BY <2>1, QuietMoves DEF LookupResourceEffect, ResolvePreparation
    <2>2. CASE \E w \in Workers : RejectIntent(w)
      BY <2>2, QuietMoves DEF RejectIntent
    <2>3. CASE \E w \in Workers : Proceed(w)
      BY <2>2, <2>3, PrepareMoves, MarkMoves, RunMoves, CommitMoves,
         UndecidedMoves DEF Proceed
    <2>4. CASE Restart
      BY <2>4, RestartMoves
    <2>5. CASE UNCHANGED vars
      BY <2>5, QuietMoves
    <2> QED
      BY <2>1, <2>3, <2>4, <2>5 DEF Next
  <1> QED
    BY <1>1, <1>2, ReceiptsInvariant, PTL DEF Spec, ImplementsPromise, Promise!Spec
-----------------------------------------------------------------------------
(* What is forgotten.  Completions are numbered like the rows they stand   *)
(* for: no two of them alike, and only inputs have one.                    *)
CompletionInv ==
  /\ \A k \in Keys : completion[k] # 0 => receipt[k].print \in Inputs
  /\ \A j, k \in Keys : completion[j] # 0 /\ completion[j] = completion[k] => j = k

(* What a step may do to the receipt of a key.                             *)
Kept(k) ==
  receipt[k].state \in {"committed", "indeterminate"} =>
    \/ receipt'[k] = receipt[k]
    \/ /\ receipt[k].print \in Inputs /\ receipt[k].state = "committed"
       /\ completion[k] <= sequence' - Capacity

(* Capacity completions are newer than one that is surplus, and there is   *)
(* room for so many numbers between it and the newest.                     *)
LEMMA SurplusIsOld ==
  ASSUME NEW c \in [Keys -> Nat], NEW top \in Nat, NEW k \in Surplus(c),
         \A j \in Keys : c[j] <= top,
         \A i, j \in Keys : c[i] # 0 /\ c[i] = c[j] => i = j
  PROVE  k \in Keys /\ c[k] # 0 /\ c[k] <= top - Capacity
  <1> DEFINE newer == {j \in Keys : c[j] > c[k]}
             f == [j \in newer |-> c[j]]
  <1>1. k \in Keys /\ c[k] \in Nat \ {0} /\ Cardinality(newer) >= Capacity
    BY DEF Surplus
  <1>2. f \in Injection(newer, c[k] + 1 .. top)
    <2>1. f \in [newer -> c[k] + 1 .. top]
      BY <1>1
    <2>2. \A i, j \in newer : f[i] = f[j] => i = j
      BY <1>1
    <2> QED
      BY <2>1, <2>2 DEF Injection, IsInjective
  <1>3. IsFiniteSet(c[k] + 1 .. top)
        /\ Cardinality(c[k] + 1 .. top) =
             IF c[k] + 1 > top THEN 0 ELSE top - (c[k] + 1) + 1
    <2>1. c[k] + 1 \in Int /\ top \in Int
      BY <1>1
    <2> QED
      BY <2>1, FS_Interval
  <1> HIDE DEF f
  <1>4. Cardinality(newer) <= Cardinality(c[k] + 1 .. top)
    BY <1>2, <1>3, FS_Injection
  <1>5. c[k] <= top
    BY <1>1
  <1>6. Cardinality(newer) \in Nat
    <2>1. IsFiniteSet(newer)
      BY <1>2, <1>3, FS_Injection
    <2> QED
      BY <2>1, FS_CardinalityType
  <1> HIDE DEF newer
  <1> QED
    BY <1>1, <1>3, <1>4, <1>5, <1>6, ConstantsAssumption

LEMMA QuietKeeps ==
  ASSUME CompletionInv, UNCHANGED <<receipt, completion>>
  PROVE  CompletionInv' /\ \A k \in Keys : Kept(k)
  BY DEF CompletionInv, Kept

(* Steps that change one receipt that is not settled.                      *)
LEMMA UnsettledKeeps ==
  ASSUME ReceiptInv, CompletionInv, UNCHANGED completion, NEW k \in Keys,
         receipt[k].state \notin {"committed", "indeterminate"},
         \A j \in Keys \ {k} : receipt'[j] = receipt[j]
  PROVE  CompletionInv' /\ \A j \in Keys : Kept(j)
  <1>1. completion[k] = 0
    BY DEF ReceiptInv, ReceiptDetermines
  <1> QED
    BY <1>1 DEF CompletionInv, Kept

LEMMA CommitInputKeeps ==
  ASSUME ReceiptInv, CompletionInv, NEW k \in Keys, NEW outcome,
         receipt[k].state = "executing", receipt[k].print \in Inputs,
         CommitInput(k, outcome)
  PROVE  CompletionInv' /\ \A j \in Keys : Kept(j)
  <1> DEFINE done == Settled(k, outcome, revision)
             recorded == [completion EXCEPT ![k] = sequence + 1]
  <1>0. PICK gone : gone = IF (sequence + 1) % PruneInterval = 0
                           THEN Surplus(recorded) ELSE {}
    OBVIOUS
  <1>1. /\ receipt' = [j \in Keys |-> IF j \in gone THEN Absent ELSE done[j]]
        /\ completion' = [j \in Keys |-> IF j \in gone THEN 0 ELSE recorded[j]]
        /\ gone \subseteq Surplus(recorded)
    BY <1>0 DEF CommitInput, Forget
  <1>2. sequence' = sequence + 1 /\ sequence \in Nat
    BY DEF CommitInput, ReceiptInv, TypeOK
  <1>3. /\ recorded \in [Keys -> Nat] /\ recorded[k] = sequence + 1
        /\ \A j \in Keys \ {k} : recorded[j] = completion[j]
        /\ \A j \in Keys : completion[j] \in Nat /\ completion[j] <= sequence
    BY <1>2 DEF ReceiptInv, TypeOK, ReceiptDetermines
  <1>4. k \notin gone
    BY <1>1, NewestIsKept
  <1>5. /\ \A j \in Keys \ {k} : done[j] = receipt[j]
        /\ done[k].print = receipt[k].print
    BY DEF Settled, ReceiptInv, TypeOK
  <1> HIDE DEF done, recorded
  <1>6. \A i, j \in Keys : recorded[i] # 0 /\ recorded[i] = recorded[j] => i = j
    BY <1>2, <1>3 DEF CompletionInv
  <1>7. \A j \in gone : j \in Keys /\ recorded[j] # 0
                        /\ recorded[j] <= sequence + 1 - Capacity
    <2>1. \A j \in Keys : recorded[j] <= sequence + 1
      BY <1>2, <1>3
    <2>2. PICK top \in Nat : top = sequence + 1
      BY <1>2
    <2>3. ASSUME NEW j \in Surplus(recorded)
          PROVE  j \in Keys /\ recorded[j] # 0 /\ recorded[j] <= top - Capacity
      <3>1. \A i \in Keys : recorded[i] <= top
        BY <2>1, <2>2
      <3> QED
        BY <1>3, <1>6, <3>1, SurplusIsOld
    <2> QED
      BY <1>1, <1>2, <2>2, <2>3, ConstantsAssumption
  <1>8. CompletionInv'
    BY <1>1, <1>3, <1>4, <1>5, <1>6 DEF CompletionInv
  <1>9. ASSUME NEW j \in Keys PROVE Kept(j)
    <2>1. CASE j \in gone
      <3>1. j # k /\ completion[j] # 0 /\ completion[j] <= sequence' - Capacity
        <4>1. j # k /\ j \in Keys \ {k}
          BY <1>4, <2>1
        <4>2. recorded[j] = completion[j]
          BY <1>3, <4>1
        <4>3. recorded[j] # 0 /\ recorded[j] <= sequence + 1 - Capacity
          BY <1>7, <2>1
        <4> QED
          BY <1>2, <4>1, <4>2, <4>3, ConstantsAssumption
      <3>2. receipt[j].state = "committed" /\ receipt[j].print \in Inputs
        BY <3>1 DEF ReceiptInv, ReceiptDetermines, CompletionInv
      <3> QED
        BY <3>1, <3>2 DEF Kept
    <2>2. CASE j \notin gone
      BY <1>1, <1>5, <2>2 DEF Kept
    <2> QED
      BY <2>1, <2>2
  <1> QED
    BY <1>8, <1>9

LEMMA RestartKeeps ==
  ASSUME ReceiptInv, CompletionInv, Restart
  PROVE  CompletionInv' /\ \A j \in Keys : Kept(j)
  <1>1. PICK gone : gone = Surplus(completion)
    OBVIOUS
  <1>2. /\ receipt' = [j \in Keys |-> IF j \in gone THEN Absent ELSE Recovered[j]]
        /\ completion' = [j \in Keys |-> IF j \in gone THEN 0 ELSE completion[j]]
        /\ sequence' = sequence
    BY <1>1 DEF Restart, Forget
  <1>3. /\ sequence \in Nat /\ completion \in [Keys -> Nat]
        /\ \A j \in Keys : completion[j] <= sequence
    BY DEF ReceiptInv, TypeOK, ReceiptDetermines
  <1>4. \A j \in gone : j \in Keys /\ completion[j] # 0
                        /\ completion[j] <= sequence - Capacity
    BY <1>1, <1>3, SurplusIsOld DEF CompletionInv
  <1>5. \A j \in Keys : /\ Recovered[j].print = receipt[j].print
                        /\ receipt[j].state # "executing" =>
                             Recovered[j] = receipt[j]
    BY DEF Recovered, ReceiptInv, TypeOK
  <1>6. CompletionInv'
    BY <1>2, <1>5 DEF CompletionInv
  <1>7. ASSUME NEW j \in Keys PROVE Kept(j)
    <2>1. CASE j \in gone
      BY <1>2, <1>4, <2>1 DEF Kept, ReceiptInv, ReceiptDetermines, CompletionInv
    <2>2. CASE j \notin gone
      BY <1>2, <1>5, <2>2 DEF Kept
    <2> QED
      BY <2>1, <2>2
  <1> QED
    BY <1>6, <1>7

LEMMA StepKeeps ==
  ASSUME ReceiptInv, CompletionInv, [Next]_vars
  PROVE  CompletionInv' /\ \A k \in Keys : Kept(k)
  <1>1. CASE UNCHANGED <<receipt, completion>>
    BY <1>1, QuietKeeps
  <1>2. ASSUME NEW w \in Workers, PrepareResourceEffect(w), ~UNCHANGED receipt
        PROVE  CompletionInv' /\ \A k \in Keys : Kept(k)
    <2>1. /\ Missing(job[w].key) /\ UNCHANGED completion
          /\ receipt' = [receipt EXCEPT ![job[w].key] =
               [Absent EXCEPT !.state = "pending", !.print = job[w].print]]
          /\ pc[w] = "missed"
      BY <1>2 DEF PrepareResourceEffect, ResolvePreparation
    <2>2. job[w].key \in Keys
      BY <2>1 DEF ReceiptInv, TypeOK
    <2>3. \A j \in Keys \ {job[w].key} : receipt'[j] = receipt[j]
      BY <2>1 DEF ReceiptInv, TypeOK
    <2> QED
      BY <2>1, <2>2, <2>3, UnsettledKeeps DEF Missing
  <1>3. ASSUME NEW w \in Workers, ~UNCHANGED receipt,
               \/ MarkResourceEffectExecuting(w)
               \/ MarkResourceEffectIndeterminate(w)
        PROVE  CompletionInv' /\ \A k \in Keys : Kept(k)
    <2>1. /\ UNCHANGED completion /\ pc[w] \in {"granted", "unsettled"}
          /\ receipt[job[w].key].state \in {"pending", "executing"}
          /\ \E s \in States : receipt' = [receipt EXCEPT ![job[w].key].state = s]
      BY <1>3 DEF MarkResourceEffectExecuting, Resumable,
                  MarkResourceEffectIndeterminate
    <2>2. job[w].key \in Keys
      BY <2>1 DEF ReceiptInv, TypeOK
    <2>3. \A j \in Keys \ {job[w].key} : receipt'[j] = receipt[j]
      BY <2>1, <2>2 DEF ReceiptInv, TypeOK
    <2> QED
      BY <2>1, <2>2, <2>3, UnsettledKeeps
  <1>4. ASSUME NEW w \in Workers, CommitResourceEffect(w), ~UNCHANGED receipt
        PROVE  CompletionInv' /\ \A k \in Keys : Kept(k)
    <2>1. PICK k \in Keys, outcome \in Outcomes :
            /\ receipt[k].state = "executing"
            /\ \/ receipt[k].print \in Inputs /\ CommitInput(k, outcome)
               \/ CommitChange(k, outcome)
      <3>1. job[w].key \in Keys
        BY <1>4 DEF CommitResourceEffect, ReceiptInv, TypeOK
      <3> QED
        BY <1>4, <3>1 DEF CommitResourceEffect
    <2>2. CASE receipt[k].print \in Inputs /\ CommitInput(k, outcome)
      BY <2>1, <2>2, CommitInputKeeps
    <2>3. CASE CommitChange(k, outcome)
      <3>1. UNCHANGED completion
            /\ \A j \in Keys \ {k} : receipt'[j] = receipt[j]
        BY <2>3 DEF CommitChange, Settled, ReceiptInv, TypeOK
      <3> QED
        BY <2>1, <3>1, UnsettledKeeps
    <2> QED
      BY <2>1, <2>2, <2>3
  <1>5. CASE Restart
    BY <1>5, RestartKeeps
  <1>6. ASSUME NEW w \in Workers, RejectIntent(w) \/ RunEffect(w)
        PROVE  UNCHANGED <<receipt, completion>>
    BY <1>6 DEF RejectIntent, RunEffect
  <1>7. ASSUME NEW w \in Workers, NEW k \in Keys, NEW p \in Prints,
               LookupResourceEffect(w, k, p)
        PROVE  UNCHANGED <<receipt, completion>>
    BY <1>7 DEF LookupResourceEffect, ResolvePreparation
  <1>8. ASSUME NEW w \in Workers, UNCHANGED receipt,
               PrepareResourceEffect(w) \/ MarkResourceEffectExecuting(w)
                 \/ MarkResourceEffectIndeterminate(w)
        PROVE  UNCHANGED completion
    BY <1>8 DEF PrepareResourceEffect, ResolvePreparation,
                MarkResourceEffectExecuting, MarkResourceEffectIndeterminate
  <1>9. ASSUME NEW w \in Workers, CommitResourceEffect(w), UNCHANGED receipt
        PROVE  UNCHANGED completion
    <2> DEFINE k == job[w].key
               outcome == IF pc[w] = "applied" THEN "success" ELSE "failure"
    <2> SUFFICES ASSUME k \in Keys, receipt[k].state = "executing",
                        CommitInput(k, outcome) \/ CommitChange(k, outcome)
                 PROVE  UNCHANGED completion
      BY <1>9 DEF CommitResourceEffect, ReceiptInv, TypeOK
    <2>1. CASE CommitChange(k, outcome)
      BY <2>1 DEF CommitChange
    <2>2. CASE CommitInput(k, outcome)
      <3>1. PICK kk : kk = k
        OBVIOUS
      <3>2. receipt'[kk] \in {Absent, Settled(kk, outcome, revision)[kk]}
        BY <2>2, <3>1 DEF CommitInput, Forget
      <3>3. Settled(kk, outcome, revision)[kk].state = "committed"
        BY <3>1 DEF Settled, ReceiptInv, TypeOK
      <3>4. receipt'[kk].state # "executing"
        BY <3>2, <3>3 DEF Absent
      <3> QED
        BY <1>9, <3>1, <3>4
    <2> QED
      BY <2>1, <2>2
  <1> QED
    BY <1>1, <1>2, <1>3, <1>4, <1>5, <1>6, <1>7, <1>8, <1>9 DEF Next, Proceed

(* A settled receipt is final, and pruning only forgets inputs after which *)
(* Capacity others completed, whatever the restarts and the interval.      *)
THEOREM OnlyOldInputsAreForgotten == Spec => ForgetsOnlyOldInputs
  <1>1. Init => CompletionInv
    BY DEF Init, CompletionInv
  <1>2. ReceiptInv /\ CompletionInv /\ [Next]_vars => CompletionInv'
    BY StepKeeps
  <1>3. ReceiptInv /\ CompletionInv /\ [Next]_vars =>
          [\A k \in Keys : Kept(k)]_vars
    BY StepKeeps
  <1> QED
    BY <1>1, <1>2, <1>3, ReceiptsInvariant, PTL
    DEF Spec, ForgetsOnlyOldInputs, Kept

-----------------------------------------------------------------------------
(* The retained events are the last ones, without a gap, and the newest of *)
(* them is always there.                                                   *)
EventLog ==
  /\ events \subseteq 1..revision
  /\ \A e \in events : e..revision \subseteq events
  /\ revision > 0 => revision \in events
  /\ Cardinality(events) <= EventCapacity

(* Pruning behind a new event keeps the log so.                            *)
LEMMA RetainedLog ==
  ASSUME revision \in Nat, EventLog, NEW r, r = revision + 1,
         NEW log \in RetainedWith(r)
  PROVE  /\ log \subseteq 1..r
         /\ \A e \in log : e..r \subseteq log
         /\ r \in log
         /\ Cardinality(log) <= EventCapacity
  <1>1. PICK oldest \in events \cup {r} :
          /\ log = {e \in events \cup {r} : e >= oldest}
          /\ Cardinality({e \in events \cup {r} : e >= oldest}) <= EventCapacity
    BY DEF RetainedWith
  <1>2. events \cup {r} \subseteq 1..r /\ oldest \in 1..r /\ r \in Nat
    BY <1>1 DEF EventLog
  <1>3. \A e \in events \cup {r} : e..r \subseteq events \cup {r}
    <2> SUFFICES ASSUME NEW e \in events, NEW n \in e..r, n # r
                 PROVE  n \in events
      BY <1>2
    <2>1. e..revision \subseteq events /\ n \in e..revision
      BY <1>2 DEF EventLog
    <2> QED
      BY <2>1
  <1>4. \A e \in log : e..r \subseteq log
    BY <1>1, <1>2, <1>3
  <1>5. log \subseteq 1..r /\ r \in log
    <2>1. r >= oldest
      BY <1>2
    <2> QED
      BY <1>1, <1>2, <2>1
  <1> QED
    BY <1>1, <1>4, <1>5

LEMMA StepLogs == ReceiptInv /\ EventLog /\ [Next]_vars => EventLog'
  <1> SUFFICES ASSUME ReceiptInv, EventLog, [Next]_vars PROVE EventLog'
    OBVIOUS
  <1>1. CASE UNCHANGED <<revision, events>>
    BY <1>1 DEF EventLog
  <1>2. CASE /\ revision' = revision + 1
             /\ events' \in RetainedWith(revision + 1)
    <2>1. PICK r : r = revision + 1
      OBVIOUS
    <2>2. revision \in Nat
      BY DEF ReceiptInv, TypeOK
    <2>3. /\ events' \subseteq 1..r /\ r \in events'
          /\ \A e \in events' : e..r \subseteq events'
          /\ Cardinality(events') <= EventCapacity
      BY <1>2, <2>1, <2>2, RetainedLog
    <2> QED
      BY <1>2, <2>1, <2>3 DEF EventLog
  <1>3. ASSUME NEW w \in Workers, CommitResourceEffect(w)
        PROVE  \/ UNCHANGED <<revision, events>>
               \/ /\ revision' = revision + 1
                  /\ events' \in RetainedWith(revision + 1)
    BY <1>3 DEF CommitResourceEffect, CommitChange, CommitInput, store
  <1>4. ASSUME NEW w \in Workers, NEW k \in Keys, NEW p \in Prints,
               LookupResourceEffect(w, k, p)
        PROVE  UNCHANGED <<revision, events>>
    BY <1>4 DEF LookupResourceEffect, ResolvePreparation, store
  <1>5. ASSUME NEW w \in Workers,
               \/ RejectIntent(w) \/ PrepareResourceEffect(w)
               \/ MarkResourceEffectExecuting(w) \/ RunEffect(w)
               \/ MarkResourceEffectIndeterminate(w)
        PROVE  UNCHANGED <<revision, events>>
    BY <1>5 DEF RejectIntent, PrepareResourceEffect, ResolvePreparation,
                MarkResourceEffectExecuting, RunEffect,
                MarkResourceEffectIndeterminate, store
  <1>6. CASE Restart
    BY <1>1, <1>6 DEF Restart
  <1>7. CASE UNCHANGED vars
    BY <1>1, <1>7 DEF vars, store
  <1> QED
    BY <1>1, <1>2, <1>3, <1>4, <1>5, <1>6, <1>7 DEF Next, Proceed

(* The log of resource events is bounded and has no gap, so that a page of *)
(* it holds every revision after the cursor it was asked for, or the       *)
(* client is told that it is behind (resource_events_after).               *)
THEOREM PagesAreComplete == Spec => [](PagesMissNothing /\ EventLog)
  <1>1. Init => EventLog
    BY ConstantsAssumption, FS_EmptySet DEF Init, EventLog
  <1>2. ReceiptInv /\ EventLog => PagesMissNothing
    <2> SUFFICES ASSUME ReceiptInv, EventLog, NEW cursor \in 0..revision,
                        ~CursorGap(cursor)
                 PROVE  EventsAfter(cursor) = (cursor + 1)..revision
      BY DEF PagesMissNothing
    <2>1. revision \in Nat /\ cursor \in Nat /\ cursor <= revision
      BY DEF ReceiptInv, TypeOK
    <2>2. EventsAfter(cursor) \subseteq (cursor + 1)..revision
      <3>1. \A e \in events : e \in Nat /\ e <= revision
        BY <2>1 DEF EventLog
      <3> QED
        BY <2>1, <3>1 DEF EventsAfter
    <2>3. CASE events = {}
      <3>1. cursor = revision
        BY <2>1, <2>3 DEF CursorGap
      <3>2. (cursor + 1)..revision = {}
        BY <2>1, <3>1
      <3> QED
        BY <2>2, <3>2
    <2>4. CASE events # {}
      <3>1. PICK e \in events : cursor >= e - 1
        BY <2>1, <2>4 DEF CursorGap, EventLog
      <3>2. e \in Nat /\ e..revision \subseteq events
        BY <2>1, <3>1 DEF EventLog
      <3>3. \A n \in (cursor + 1)..revision : n \in e..revision /\ n > cursor
        BY <2>1, <3>1, <3>2
      <3> QED
        BY <2>2, <3>2, <3>3 DEF EventsAfter
    <2> QED
      BY <2>3, <2>4
  <1> QED
    BY <1>1, <1>2, StepLogs, ReceiptsInvariant, PTL DEF Spec
=============================================================================
