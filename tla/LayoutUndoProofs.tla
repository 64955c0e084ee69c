-------------------------- MODULE LayoutUndoProofs --------------------------
(***************************************************************************)
(* What holds of LayoutUndo for any number of screens, panes, tabs, undo   *)
(* steps and clients: undoing keeps the panes as long as it undoes no half *)
(* of a swap across screens, the latest change can be undone, and a token  *)
(* closes what its client was shown.                                       *)
(***************************************************************************)
EXTENDS LayoutUndo, SequenceTheorems, FiniteSetTheorems, TLAPS

(* The changes of h since the last swap across screens lead to the panes   *)
(* P: each was recorded with the panes of P that no later change created,  *)
(* and no two created the same pane.  A swap creates none.                 *)
Chain(h, P) ==
  /\ \A i \in DOMAIN h : Whole(h, i) =>
       /\ h[i].before.panes \cap CreatedFrom(h, i) = {}
       /\ h[i].before.panes \cup CreatedFrom(h, i) = P
  /\ \A i, j \in DOMAIN h : Whole(h, i) /\ i < j =>
       h[i].created \cap h[j].created = {}
  /\ \A i \in DOMAIN h : h[i].across => h[i].created = {}

(* The history h of a screen with the panes P, at revision r.              *)
Good(h, P, r) ==
  /\ h \in Seq(Entries) /\ Len(h) <= UndoLimit
  /\ Chain(h, P)
  /\ h = <<>> \/ Last(h).after = r

-----------------------------------------------------------------------------
(* What the operations on a history do to a chain.                         *)
LEMMA Skeleton ==
  ASSUME NEW g \in Seq(Entries), NEW h \in Seq(Entries), NEW P, Chain(h, P),
         Len(g) = Len(h),
         \A i \in 1..Len(h) : /\ g[i].before.panes = h[i].before.panes
                              /\ g[i].created = h[i].created
                              /\ g[i].across = h[i].across
  PROVE  Chain(g, P)
<1>1. DOMAIN g = 1..Len(h) /\ DOMAIN h = 1..Len(h) /\ Len(h) \in Nat
  OBVIOUS
<1>2. \A i \in 1..Len(h) : CreatedFrom(g, i) = CreatedFrom(h, i)
  BY <1>1 DEF CreatedFrom
<1>3. \A i \in 1..Len(h) : Whole(g, i) => Whole(h, i)
  BY <1>1 DEF Whole
<1> QED
  BY <1>1, <1>2, <1>3 DEF Chain

LEMMA AppendedChain ==
  ASSUME NEW h \in Seq(Entries), NEW P, Chain(h, P), NEW e \in Entries,
         e.before.panes = P, e.created \cap P = {}, ~e.across
  PROVE  Chain(Append(h, e), P \cup e.created)
<1> DEFINE g == Append(h, e)
           n == Len(h) + 1
<1>1. /\ g \in Seq(Entries) /\ Len(h) \in Nat /\ n \in Nat /\ Len(g) = n
      /\ DOMAIN g = 1..n /\ DOMAIN h = 1..Len(h) /\ g[n] = e
      /\ \A i \in 1..Len(h) : g[i] = h[i]
  BY AppendProperties
<1> HIDE DEF g
<1>2. CreatedFrom(g, n) = e.created
  <2>1. n..Len(g) = {n}
    BY <1>1
  <2> QED
    BY <1>1, <2>1 DEF CreatedFrom
<1>3. ASSUME NEW i \in 1..Len(h)
      PROVE  CreatedFrom(g, i) = CreatedFrom(h, i) \cup e.created
  <2>1. i..Len(g) = (i..Len(h)) \cup {n}
    BY <1>1
  <2>2. \A j \in i..Len(h) : g[j].created = h[j].created
    BY <1>1
  <2> QED
    BY <1>1, <2>1, <2>2 DEF CreatedFrom
<1>w. ASSUME NEW i \in 1..Len(h), Whole(g, i)
      PROVE  Whole(h, i)
  BY <1>1, <1>w DEF Whole
<1>4. ASSUME NEW i \in 1..Len(h), Whole(h, i)
      PROVE  h[i].created \subseteq P /\ h[i].before.panes \subseteq P
  <2>1. h[i].created \subseteq CreatedFrom(h, i)
    BY <1>1 DEF CreatedFrom
  <2> QED
    BY <1>1, <1>4, <2>1 DEF Chain
<1>5. ASSUME NEW i \in DOMAIN g, Whole(g, i)
      PROVE  /\ g[i].before.panes \cap CreatedFrom(g, i) = {}
             /\ g[i].before.panes \cup CreatedFrom(g, i) = P \cup e.created
  <2>1. CASE i = n
    BY <1>1, <1>2, <2>1
  <2>2. CASE i \in 1..Len(h)
    <3>0. Whole(h, i)
      BY <1>5, <1>w, <2>2
    <3>1. /\ h[i].before.panes \cap CreatedFrom(h, i) = {}
          /\ h[i].before.panes \cup CreatedFrom(h, i) = P
      BY <1>1, <2>2, <3>0 DEF Chain
    <3>2. g[i].before.panes = h[i].before.panes
      BY <1>1, <2>2
    <3> QED
      BY <1>3, <1>4, <2>2, <3>0, <3>1, <3>2
  <2> QED
    BY <1>1, <2>1, <2>2
<1>6. ASSUME NEW i \in DOMAIN g, NEW j \in DOMAIN g, Whole(g, i), i < j
      PROVE  g[i].created \cap g[j].created = {}
  <2>0. i \in 1..Len(h) /\ g[i].created = h[i].created
    BY <1>1, <1>6
  <2>1. i \in 1..Len(h) /\ g[i].created = h[i].created /\ Whole(h, i)
    BY <1>6, <1>w, <2>0
  <2>2. CASE j = n
    BY <1>1, <1>4, <2>1, <2>2
  <2>3. CASE j \in 1..Len(h)
    BY <1>1, <1>6, <2>1, <2>3 DEF Chain
  <2> QED
    BY <1>1, <2>2, <2>3
<1>7. \A i \in DOMAIN g : g[i].across => g[i].created = {}
  BY <1>1 DEF Chain
<1> QED
  BY <1>5, <1>6, <1>7 DEF Chain, g

(* Behind a swap across screens nothing is promised.                       *)
LEMMA AcrossChain ==
  ASSUME NEW h \in Seq(Entries), NEW P, NEW Q, Chain(h, P), NEW e \in Entries,
         e.across, e.created = {}
  PROVE  Chain(Append(h, e), Q)
<1> DEFINE g == Append(h, e)
           n == Len(h) + 1
<1>1. /\ Len(h) \in Nat /\ n \in Nat /\ Len(g) = n
      /\ DOMAIN g = 1..n /\ DOMAIN h = 1..Len(h) /\ g[n] = e
      /\ \A i \in 1..Len(h) : g[i] = h[i]
  BY AppendProperties
<1> HIDE DEF g
<1>2. \A i \in DOMAIN g : ~Whole(g, i)
  BY <1>1 DEF Whole
<1>3. \A i \in DOMAIN g : g[i].across => g[i].created = {}
  BY <1>1 DEF Chain
<1> QED
  BY <1>2, <1>3 DEF Chain, g

LEMMA TailChain ==
  ASSUME NEW h \in Seq(Entries), NEW P, Chain(h, P), h # <<>>
  PROVE  Chain(Tail(h), P)
<1> DEFINE g == Tail(h)
<1>1. /\ g \in Seq(Entries) /\ Len(h) \in Nat /\ Len(h) > 0 /\ Len(g) = Len(h) - 1
      /\ DOMAIN g = 1..Len(g) /\ DOMAIN h = 1..Len(h)
      /\ \A i \in 1..Len(g) : g[i] = h[i + 1]
  BY HeadTailProperties
<1> HIDE DEF g
<1>2. ASSUME NEW i \in 1..Len(g)
      PROVE  CreatedFrom(g, i) = CreatedFrom(h, i + 1)
  <2>1. ASSUME NEW j \in i..Len(g)
        PROVE  j + 1 \in (i + 1)..Len(h) /\ g[j] = h[j + 1]
    BY <1>1
  <2>2. ASSUME NEW k \in (i + 1)..Len(h)
        PROVE  k - 1 \in i..Len(g) /\ g[k - 1] = h[k]
    <3>1. k - 1 \in i..Len(g) /\ (k - 1) + 1 = k /\ k - 1 \in 1..Len(g)
      BY <1>1
    <3> QED
      BY <1>1, <3>1
  <2> QED
    BY <2>1, <2>2 DEF CreatedFrom
<1>3. \A i \in DOMAIN g : i + 1 \in DOMAIN h
  BY <1>1
<1>4. ASSUME NEW i \in DOMAIN g, Whole(g, i)
      PROVE  Whole(h, i + 1)
  <2>1. ASSUME NEW k \in (i + 1)..Len(h)
        PROVE  ~h[k].across
    <3>1. k - 1 \in i..Len(g) /\ (k - 1) + 1 = k /\ k - 1 \in 1..Len(g)
      BY <1>1
    <3> QED
      BY <1>1, <1>4, <3>1 DEF Whole
  <2> QED
    BY <2>1 DEF Whole
<1>5. ASSUME NEW i \in DOMAIN g, Whole(g, i)
      PROVE  /\ g[i].before.panes \cap CreatedFrom(g, i) = {}
             /\ g[i].before.panes \cup CreatedFrom(g, i) = P
             /\ \A j \in DOMAIN g : i < j => g[i].created \cap g[j].created = {}
  <2>1. i + 1 \in DOMAIN h /\ Whole(h, i + 1) /\ g[i] = h[i + 1]
    BY <1>1, <1>3, <1>4, <1>5
  <2>2. \A j \in DOMAIN g : i < j => i + 1 < j + 1 /\ j + 1 \in DOMAIN h
                                  /\ g[j] = h[j + 1]
    BY <1>1
  <2> QED
    BY <1>1, <1>2, <2>1, <2>2 DEF Chain
<1>6. \A i \in DOMAIN g : g[i].across => g[i].created = {}
  BY <1>1, <1>3 DEF Chain
<1> QED
  BY <1>5, <1>6 DEF Chain, g

LEMMA FrontChain ==
  ASSUME NEW h \in Seq(Entries), NEW P, Chain(h, P), h # <<>>, ~Last(h).across
  PROVE  /\ Front(h) \in Seq(Entries) /\ Len(Front(h)) = Len(h) - 1
         /\ Chain(Front(h), Last(h).before.panes)
<1> DEFINE g == Front(h)
           n == Len(h)
           e == Last(h)
<1>1. /\ g \in Seq(Entries) /\ n \in Nat /\ n > 0 /\ Len(g) = n - 1
      /\ DOMAIN g = 1..(n - 1) /\ DOMAIN h = 1..n /\ h[n] = e
      /\ \A i \in 1..(n - 1) : g[i] = h[i]
  <2>1. n \in Nat /\ n > 0 /\ DOMAIN h = 1..n /\ h[n] = e
    BY DEF Last
  <2>2. g \in Seq(Entries) /\ Len(g) = n - 1 /\ \A i \in 1..(n - 1) : g[i] = h[i]
    BY <2>1 DEF Front
  <2> QED
    BY <2>1, <2>2
<1>0. ~e.across
  OBVIOUS
<1> HIDE DEF g, e
<1>w. ASSUME NEW i \in 1..(n - 1), Whole(g, i)
      PROVE  Whole(h, i)
  BY <1>0, <1>1, <1>w DEF Whole
<1>v. Whole(h, n)
  BY <1>0, <1>1 DEF Whole
<1>2. ASSUME NEW i \in 1..(n - 1)
      PROVE  CreatedFrom(h, i) = CreatedFrom(g, i) \cup e.created
  <2>1. i..n = (i..(n - 1)) \cup {n}
    BY <1>1
  <2>2. \A j \in i..(n - 1) : g[j].created = h[j].created
    BY <1>1
  <2> QED
    BY <1>1, <2>1, <2>2 DEF CreatedFrom
<1>3. /\ e.before.panes \cap e.created = {}
      /\ e.before.panes \cup e.created = P
  <2>1. CreatedFrom(h, n) = e.created
    <3>1. n..Len(h) = {n}
      BY <1>1
    <3> QED
      BY <1>1, <3>1 DEF CreatedFrom
  <2> QED
    BY <1>1, <1>v, <2>1 DEF Chain
<1>4. ASSUME NEW i \in 1..(n - 1), Whole(g, i)
      PROVE  CreatedFrom(g, i) \cap e.created = {}
  <2>1. ASSUME NEW j \in i..(n - 1)
        PROVE  h[j].created \cap h[n].created = {}
    <3>1. j \in DOMAIN h /\ n \in DOMAIN h /\ j < n /\ Whole(h, j)
      BY <1>1, <1>4, <1>w DEF Whole
    <3> QED
      BY <3>1 DEF Chain
  <2>2. \A j \in i..Len(g) : g[j].created \cap e.created = {}
    BY <1>1, <2>1
  <2> QED
    BY <2>2 DEF CreatedFrom
<1>5. ASSUME NEW i \in DOMAIN g, Whole(g, i)
      PROVE  /\ g[i].before.panes \cap CreatedFrom(g, i) = {}
             /\ g[i].before.panes \cup CreatedFrom(g, i) = e.before.panes
  <2>0. Whole(h, i)
    BY <1>1, <1>5, <1>w
  <2>1. /\ h[i].before.panes \cap CreatedFrom(h, i) = {}
        /\ h[i].before.panes \cup CreatedFrom(h, i) = P
    BY <1>1, <2>0 DEF Chain
  <2>2. g[i] = h[i]
    BY <1>1
  <2> QED
    BY <1>1, <1>2, <1>3, <1>4, <1>5, <2>1, <2>2
<1>6. ASSUME NEW i \in DOMAIN g, NEW j \in DOMAIN g, Whole(g, i), i < j
      PROVE  g[i].created \cap g[j].created = {}
  <2>1. Whole(h, i)
    BY <1>1, <1>6, <1>w
  <2> QED
    BY <1>1, <1>6, <2>1 DEF Chain
<1>7. \A i \in DOMAIN g : g[i].across => g[i].created = {}
  BY <1>1 DEF Chain
<1> QED
  BY <1>1, <1>5, <1>6, <1>7 DEF Chain, g, e

-----------------------------------------------------------------------------
(* What they do to a good history.                                         *)
LEMMA GoodEmpty ==
  ASSUME NEW P, NEW r
  PROVE  Good(<<>>, P, r)
<1>1. <<>> \in Seq(Entries) /\ Len(<<>>) = 0 /\ DOMAIN <<>> = {}
  OBVIOUS
<1>2. Len(<<>>) <= UndoLimit
  BY <1>1, LayoutAssumption
<1> QED
  BY <1>1, <1>2 DEF Good, Chain

LEMMA GoodRefreshed ==
  ASSUME NEW h \in Seq(Entries), NEW P, NEW n \in Nat, Chain(h, P),
         Len(h) <= UndoLimit
  PROVE  Good(Refreshed(h, n), P, n)
<1>1. CASE h = <<>>
  BY <1>1, GoodEmpty DEF Refreshed
<1>2. CASE h # <<>>
  <2> DEFINE g == [h EXCEPT ![Len(h)] = [@ EXCEPT !.after = n, !.coalesce = NoKey]]
             e == [h[Len(h)] EXCEPT !.after = n, !.coalesce = NoKey]
  <2>1. Len(h) \in 1..Len(h) /\ DOMAIN h = 1..Len(h) /\ h[Len(h)] \in Entries
    BY <1>2
  <2>2. /\ e \in Entries /\ e.before = h[Len(h)].before
        /\ e.created = h[Len(h)].created /\ e.after = n
        /\ e.across = h[Len(h)].across
    BY <2>1 DEF Entries
  <2>3. /\ g \in Seq(Entries) /\ Len(g) = Len(h) /\ g[Len(h)] = e
        /\ \A i \in 1..Len(h) : i # Len(h) => g[i] = h[i]
    BY <2>1, <2>2, ExceptSeq
  <2> HIDE DEF g, e
  <2>4. Chain(g, P)
    BY <2>2, <2>3, Skeleton
  <2>5. g = Refreshed(h, n)
    BY <1>2 DEF Refreshed, g
  <2> QED
    BY <2>2, <2>3, <2>4, <2>5 DEF Good, Last
<1> QED
  BY <1>1, <1>2

LEMMA RefreshedTop ==
  ASSUME NEW h, NEW P, NEW r \in Nat, Good(h, P, r)
  PROVE  Good(Refreshed(h, r + 1), P, r + 1)
<1>1. h \in Seq(Entries) /\ Chain(h, P) /\ Len(h) <= UndoLimit /\ r + 1 \in Nat
  BY DEF Good
<1> QED
  BY <1>1, GoodRefreshed

LEMMA GoodExtended ==
  ASSUME NEW h, NEW P, NEW r \in Nat, Good(h, P, r), h # <<>>
  PROVE  Good([h EXCEPT ![Len(h)].after = r + 1], P, r + 1)
<1> DEFINE g == [h EXCEPT ![Len(h)].after = r + 1]
           e == [h[Len(h)] EXCEPT !.after = r + 1]
<1>0. h \in Seq(Entries) /\ Chain(h, P) /\ Len(h) <= UndoLimit
  BY DEF Good
<1>1. Len(h) \in 1..Len(h) /\ DOMAIN h = 1..Len(h) /\ h[Len(h)] \in Entries
  BY <1>0
<1>2. /\ e \in Entries /\ e.before = h[Len(h)].before
      /\ e.created = h[Len(h)].created /\ e.after = r + 1
      /\ e.across = h[Len(h)].across
  BY <1>1 DEF Entries
<1>3. /\ g \in Seq(Entries) /\ Len(g) = Len(h) /\ g[Len(h)] = e
      /\ \A i \in 1..Len(h) : i # Len(h) => g[i] = h[i]
  BY <1>0, <1>1, <1>2, ExceptSeq
<1> HIDE DEF g, e
<1>4. Chain(g, P)
  BY <1>0, <1>2, <1>3, Skeleton
<1>5. Good(g, P, r + 1)
  BY <1>0, <1>2, <1>3, <1>4 DEF Good, Last
<1> QED
  BY <1>5 DEF g

LEMMA GoodAppended ==
  ASSUME NEW h, NEW P, NEW r \in Nat, Good(h, P, r), NEW e \in Entries,
         NEW Q, e.after = r + 1,
         \/ /\ e.before.panes = P /\ e.created \cap P = {} /\ ~e.across
            /\ Q = P \cup e.created
         \/ e.across /\ e.created = {}
  PROVE  Good(Trimmed(Append(h, e)), Q, r + 1)
<1> DEFINE g == Append(h, e)
<1>0. h \in Seq(Entries) /\ Chain(h, P) /\ Len(h) <= UndoLimit
  BY DEF Good
<1>1. /\ g \in Seq(Entries) /\ Len(h) \in Nat /\ Len(g) = Len(h) + 1
      /\ g[Len(h) + 1] = e /\ g # <<>>
  BY <1>0, AppendProperties
<1>2. Chain(g, Q)
  BY <1>0, AppendedChain, AcrossChain
<1> HIDE DEF g
<1>3. UndoLimit \in Nat /\ UndoLimit > 0
  BY LayoutAssumption
<1>4. CASE Len(g) <= UndoLimit
  <2>1. Trimmed(g) = g
    BY <1>1, <1>3, <1>4 DEF Trimmed
  <2>2. Last(g) = e
    BY <1>1 DEF Last
  <2>3. Good(g, Q, r + 1)
    BY <1>1, <1>2, <1>4, <2>2 DEF Good
  <2> QED
    BY <2>1, <2>3 DEF g
<1>5. CASE Len(g) > UndoLimit
  <2>1. Trimmed(g) = Tail(g)
    BY <1>5 DEF Trimmed
  <2>2. /\ Tail(g) \in Seq(Entries) /\ Len(Tail(g)) = Len(h)
        /\ \A i \in 1..Len(Tail(g)) : Tail(g)[i] = g[i + 1]
    BY <1>1, HeadTailProperties
  <2>3. Len(h) > 0
    BY <1>1, <1>3, <1>5
  <2>4. Last(Tail(g)) = e
    BY <1>1, <2>2, <2>3 DEF Last
  <2>5. Chain(Tail(g), Q)
    BY <1>1, <1>2, TailChain
  <2> QED
    BY <1>0, <2>1, <2>2, <2>4, <2>5 DEF Good, g
<1> QED
  BY <1>1, <1>3, <1>4, <1>5

LEMMA GoodUndone ==
  ASSUME NEW h, NEW P, NEW r, Good(h, P, r), h # <<>>, ~Last(h).across,
         NEW n \in Nat
  PROVE  Good(Refreshed(Front(h), n), Last(h).before.panes, n)
<1>1. h \in Seq(Entries) /\ Chain(h, P) /\ Len(h) <= UndoLimit /\ Len(h) \in Nat
  BY DEF Good
<1>2. /\ Front(h) \in Seq(Entries) /\ Len(Front(h)) = Len(h) - 1
      /\ Chain(Front(h), Last(h).before.panes)
  BY <1>1, FrontChain
<1>3. Len(Front(h)) <= UndoLimit
  BY <1>1, <1>2, LayoutAssumption
<1> QED
  BY <1>2, <1>3, GoodRefreshed

LEMMA LastCloses ==
  ASSUME NEW h, NEW P, NEW r, Good(h, P, r), h # <<>>, ~Last(h).across
  PROVE  /\ Last(h) \in Entries
         /\ Last(h).before.panes \cap Last(h).created = {}
         /\ Last(h).before.panes \cup Last(h).created = P
<1>1. h \in Seq(Entries) /\ Chain(h, P)
  BY DEF Good
<1>2. Len(h) \in DOMAIN h /\ Len(h) \in Nat /\ Last(h) = h[Len(h)]
  BY <1>1 DEF Last
<1>3. CreatedFrom(h, Len(h)) = Last(h).created
  <2>1. Len(h)..Len(h) = {Len(h)}
    BY <1>2
  <2> QED
    BY <1>2, <2>1 DEF CreatedFrom
<1>4. Whole(h, Len(h))
  BY <1>2 DEF Whole
<1> QED
  BY <1>1, <1>2, <1>3, <1>4 DEF Chain

(* The change that created a pane was not a swap.                          *)
LEMMA LastCreates ==
  ASSUME NEW h, NEW P, NEW r, Good(h, P, r), h # <<>>, Last(h).created # {}
  PROVE  ~Last(h).across
<1>1. h \in Seq(Entries) /\ Chain(h, P)
  BY DEF Good
<1>2. Len(h) \in DOMAIN h /\ Last(h) = h[Len(h)]
  BY <1>1 DEF Last
<1> QED
  BY <1>1, <1>2 DEF Chain

-----------------------------------------------------------------------------
(* The screens.  Every operation on them is one of these four.             *)
Screened ==
  /\ layout \in [Screens -> Layout] /\ revision \in [Screens -> Nat]
  /\ history \in [Screens -> Seq(Entries)]
HistInv ==
  /\ Screened
  /\ \A s \in Screens : Good(history[s], layout[s].panes, revision[s])

LEMMA Screening ==
  ASSUME layout' \in [Screens -> Layout], revision' \in [Screens -> Nat],
         DOMAIN history' = Screens, history' = [s \in Screens |-> history'[s]],
         \A s \in Screens : Good(history'[s], layout'[s].panes, revision'[s])
  PROVE  HistInv'
BY DEF HistInv, Screened, Good

LEMMA RecordKeeps ==
  ASSUME HistInv, NEW changed, NEW new, NEW created \in SUBSET Panes,
         NEW key \in Keys \cup {NoKey}, NEW across \in BOOLEAN,
         Record(changed, new, created, key, across),
         across => created = {} /\ key = NoKey,
         \A s \in Screens \cap changed :
           /\ new[s] \in Layout
           /\ ~across => /\ new[s].panes = layout[s].panes \cup created
                         /\ layout[s].panes \cap created = {}
  PROVE  HistInv'
<1>1. /\ layout' \in [Screens -> Layout] /\ revision' \in [Screens -> Nat]
      /\ DOMAIN history' = Screens /\ history' = [s \in Screens |-> history'[s]]
  BY DEF HistInv, Screened, Record
<1>2. ASSUME NEW s \in Screens
      PROVE  Good(history'[s], layout'[s].panes, revision'[s])
  <2>1. /\ Good(history[s], layout[s].panes, revision[s])
        /\ revision[s] \in Nat /\ layout[s] \in Layout
    BY DEF HistInv, Screened
  <2>2. CASE s \notin changed
    BY <2>1, <2>2 DEF Record
  <2>3. CASE s \in changed
    <3>1. /\ ~across => /\ layout'[s].panes = layout[s].panes \cup created
                        /\ layout[s].panes \cap created = {}
          /\ history'[s] = Recorded(s, created, key, across)
          /\ revision'[s] = revision[s] + 1
      BY <2>3 DEF Record
    <3>2. CASE Coalesces(s, created, key)
      <4>1. history[s] # <<>> /\ created = {} /\ ~across
        BY <3>2 DEF Coalesces
      <4>2. Good([history[s] EXCEPT ![Len(history[s])].after = revision[s] + 1],
                 layout[s].panes, revision[s] + 1)
        BY <2>1, <4>1, GoodExtended
      <4> QED
        BY <3>1, <3>2, <4>1, <4>2 DEF Recorded
    <3>3. CASE ~Coalesces(s, created, key)
      <4> DEFINE e == Entry(s, created, key, across)
      <4>1. /\ e \in Entries /\ e.before.panes = layout[s].panes
            /\ e.created = created /\ e.after = revision[s] + 1
            /\ e.across = across
        BY <2>1 DEF Entry, Entries
      <4> HIDE DEF e
      <4>2. Good(Trimmed(Append(history[s], e)), layout'[s].panes,
                 revision[s] + 1)
        BY <2>1, <3>1, <4>1, GoodAppended
      <4> QED
        BY <3>1, <3>3, <4>1, <4>2 DEF Recorded, e
    <3> QED
      BY <3>2, <3>3
  <2> QED
    BY <2>2, <2>3
<1> QED
  BY <1>1, <1>2, Screening

LEMMA FenceKeeps ==
  ASSUME HistInv, NEW panes, Fence(panes)
  PROVE  HistInv'
<1>1. /\ layout' \in [Screens -> Layout] /\ revision' \in [Screens -> Nat]
      /\ DOMAIN history' = Screens /\ history' = [s \in Screens |-> history'[s]]
  BY DEF HistInv, Screened, Fence
<1>2. ASSUME NEW s \in Screens
      PROVE  Good(history'[s], layout'[s].panes, revision'[s])
  <2>1. /\ Good(history[s], layout[s].panes, revision[s])
        /\ revision[s] \in Nat /\ layout' = layout
    BY DEF HistInv, Screened, Fence
  <2>2. CASE ~Fenced(s, panes)
    BY <2>1, <2>2 DEF Fence
  <2>3. CASE Fenced(s, panes)
    <3>1. /\ history'[s] = Refreshed(history[s], revision[s] + 1)
          /\ revision'[s] = revision[s] + 1
      BY <2>3 DEF Fence
    <3>2. Good(Refreshed(history[s], revision[s] + 1), layout[s].panes,
               revision[s] + 1)
      BY <2>1, RefreshedTop
    <3> QED
      BY <2>1, <3>1, <3>2
  <2> QED
    BY <2>2, <2>3
<1> QED
  BY <1>1, <1>2, Screening

LEMMA CollapseKeeps ==
  ASSUME HistInv, NEW p, NEW fenced, Collapse(p, fenced)
  PROVE  HistInv'
<1>1. /\ layout' \in [Screens -> Layout] /\ revision' \in [Screens -> Nat]
      /\ DOMAIN history' = Screens /\ history' = [s \in Screens |-> history'[s]]
  <2>1. \A s \in Screens : Without(layout[s], p) \in Layout
    BY DEF HistInv, Screened, Without, Layout
  <2>2. layout' \in [Screens -> Layout]
    BY <2>1 DEF Collapse
  <2>3. revision' \in [Screens -> Nat]
    BY DEF HistInv, Screened, Collapse
  <2>4. DOMAIN history' = Screens /\ history' = [s \in Screens |-> history'[s]]
    BY DEF Collapse
  <2> QED
    BY <2>2, <2>3, <2>4
<1>2. ASSUME NEW s \in Screens
      PROVE  Good(history'[s], layout'[s].panes, revision'[s])
  <2>1. /\ Good(history[s], layout[s].panes, revision[s])
        /\ revision[s] \in Nat
    BY DEF HistInv, Screened
  <2>2. CASE p \in layout[s].panes
    BY <2>2, GoodEmpty DEF Collapse, CollapsedHistory
  <2>3. CASE p \notin layout[s].panes
    <3>1. layout'[s].panes = layout[s].panes
      BY <2>3 DEF Collapse, Without, HistInv, Screened, Layout
    <3>2. Good(Refreshed(history[s], revision[s] + 1), layout[s].panes,
               revision[s] + 1)
      BY <2>1, RefreshedTop
    <3>3. CASE Fenced(s, fenced)
      BY <2>1, <2>3, <3>1, <3>2, <3>3 DEF Collapse
    <3>4. CASE ~Fenced(s, fenced)
      BY <2>1, <2>3, <3>1, <3>4 DEF Collapse
    <3> QED
      BY <3>3, <3>4
  <2> QED
    BY <2>2, <2>3
<1> QED
  BY <1>1, <1>2, Screening

LEMMA UndoneKeeps ==
  ASSUME HistInv, NEW s \in Screens, NEW bumps \in Nat, history[s] # <<>>,
         ~Last(history[s]).across, Undone(s, bumps)
  PROVE  HistInv'
<1> DEFINE n == revision[s] + bumps + 1
<1>1. /\ Good(history[s], layout[s].panes, revision[s])
      /\ revision[s] \in Nat /\ n \in Nat
  BY DEF HistInv, Screened
<1>2. Last(history[s]) \in Entries
  BY <1>1, LastCloses
<1>3. Good(Refreshed(Front(history[s]), n), Last(history[s]).before.panes, n)
  BY <1>1, GoodUndone
<1>4. /\ layout' = [layout EXCEPT ![s] = Last(history[s]).before]
      /\ revision' = [revision EXCEPT ![s] = n]
      /\ history' = [history EXCEPT ![s] = Refreshed(Front(@), n)]
  BY DEF Undone
<1>5. Last(history[s]).before \in Layout
  BY <1>2 DEF Entries
<1> HIDE DEF n
<1>6. /\ layout' \in [Screens -> Layout] /\ revision' \in [Screens -> Nat]
      /\ DOMAIN history' = Screens /\ history' = [r \in Screens |-> history'[r]]
  BY <1>1, <1>4, <1>5 DEF HistInv, Screened
<1>7. ASSUME NEW r \in Screens
      PROVE  Good(history'[r], layout'[r].panes, revision'[r])
  BY <1>3, <1>4 DEF HistInv, Screened
<1> QED
  BY <1>6, <1>7, Screening

-----------------------------------------------------------------------------
(* Panes and tabs.                                                         *)
Typed ==
  /\ tabs \in [Panes -> SUBSET Tabs]
  /\ nextPane \in Nat /\ nextTab \in Nat
Fresh == \A p \in Panes : p >= nextPane => p \notin Live
Apart == \A s, r \in Screens : s # r => layout[s].panes \cap layout[r].panes = {}
Filled == \A p \in Panes : p \in Live <=> tabs[p] # {}
Places == Typed /\ Fresh /\ Apart /\ Filled

(* Where a confirmed undo may stand: what a client that came with a token  *)
(* was shown is what its token names, and only a client that came with a   *)
(* revision gets its token late.                                           *)
Views == UNION {[S -> SUBSET Tabs] : S \in SUBSET Panes}
Tokens == [revision : Nat, closes : Views]
Waiting == [step : {"previewed", "checked", "tokened", "reserved"},
            by : {"revision", "token"}, screen : Screens, revision : Nat,
            shown : Views, token : Tokens]
Closed == [step : {"done"}, by : {"revision", "token"}, shown : Views,
           closed : SUBSET Tabs]
Sound(r) ==
  \/ r = Idle
  \/ /\ r \in Waiting
     /\ r.step \in {"checked", "tokened"} => r.by = "revision"
     /\ r.by = "token" => r.token.closes = r.shown
  \/ /\ r \in Closed
     /\ r.by = "token" => r.closed = UNION {r.shown[p] : p \in DOMAIN r.shown}
Held ==
  /\ DOMAIN client = Clients /\ client = [c \in Clients |-> client[c]]
  /\ \A c \in Clients : Sound(client[c])

(* All of it holds until one half of a swap across screens is undone; the   *)
(* types, the latest entry and what is confirmed hold then too.            *)
Sane == HistInv /\ Places /\ Held
Latest(h, r) == Len(h) <= UndoLimit /\ (h = <<>> \/ Last(h).after = r)
Loose ==
  /\ Screened /\ Typed /\ Held
  /\ \A s \in Screens : Latest(history[s], revision[s])
LayoutInv == torn \in BOOLEAN /\ Loose /\ (~torn => Sane)

(* The panes stay where they are.                                          *)
LEMMA SamePlaces ==
  ASSUME Places, \A s \in Screens : layout'[s].panes = layout[s].panes,
         tabs' \in [Panes -> SUBSET Tabs],
         \A p \in Panes : tabs'[p] = {} <=> tabs[p] = {},
         UNCHANGED nextPane, nextTab' \in Nat
  PROVE  Places'
<1>1. Live' = Live
  BY DEF Live
<1> QED
  BY <1>1 DEF Places, Typed, Fresh, Apart, Filled

LEMMA NothingMoved ==
  ASSUME HistInv, Places, UNCHANGED <<screenVars, tabs, nextPane, nextTab>>
  PROVE  HistInv' /\ Places'
<1>1. HistInv'
  BY DEF screenVars, HistInv, Screened
<1>2. Places'
  BY SamePlaces DEF screenVars, Places, Typed
<1> QED
  BY <1>1, <1>2

(* Panes of one screen are gone, with their tabs.                          *)
LEMMA FewerPlaces ==
  ASSUME Places, NEW gone, layout \in [Screens -> Layout],
         \A s \in Screens : layout'[s].panes = layout[s].panes \ gone,
         tabs' \in [Panes -> SUBSET Tabs],
         \A p \in Panes \ gone : tabs'[p] = {} <=> tabs[p] = {},
         \A p \in Panes \cap gone : tabs'[p] = {},
         UNCHANGED <<nextPane, nextTab>>
  PROVE  Places'
<1>1. Live' = Live \ gone
  BY DEF Live
<1> QED
  BY <1>1 DEF Places, Typed, Fresh, Apart, Filled

LEMMA RecordedLayout ==
  ASSUME layout \in [Screens -> Layout], NEW changed, NEW new, NEW created,
         NEW key, NEW across, Record(changed, new, created, key, across),
         NEW s \in Screens
  PROVE  layout'[s] = IF s \in changed THEN new[s] ELSE layout[s]
BY DEF Record

LEMMA PaneOfTab ==
  ASSUME Places, HistInv, NEW t \in Shown
  PROVE  PaneOf(t) \in Panes /\ t \in tabs[PaneOf(t)]
<1>1. \E p \in Panes : t \in tabs[p]
  BY DEF Shown, Live, HistInv, Screened, Layout
<1> QED
  BY <1>1 DEF PaneOf

-----------------------------------------------------------------------------
(* The operations, one lemma each.                                         *)
LEMMA AddPaneKeeps ==
  ASSUME HistInv, Places, NEW s \in Screens, AddPane(s)
  PROVE  HistInv' /\ Places'
<1> DEFINE new == [layout EXCEPT ![s].panes = @ \cup {nextPane}]
<1>1. /\ nextPane \in Panes /\ nextPane \in Nat /\ nextPane \notin Live
      /\ layout \in [Screens -> Layout] /\ tabs[nextPane] = {}
  BY DEF AddPane, Places, Typed, Fresh, HistInv, Screened, Apart, Filled
<1>2. /\ new[s] \in Layout /\ new[s].panes = layout[s].panes \cup {nextPane}
      /\ layout[s].panes \cap {nextPane} = {}
  BY <1>1 DEF Layout, Live
<1>3. PICK no : ~no /\ no \in BOOLEAN /\ Record({s}, new, {nextPane}, NoKey, no)
  BY DEF AddPane
<1> HIDE DEF new
<1>4. HistInv'
  BY <1>1, <1>2, <1>3, RecordKeeps
<1>5. /\ layout'[s].panes = layout[s].panes \cup {nextPane}
      /\ \A r \in Screens \ {s} : layout'[r] = layout[r]
  BY <1>1, <1>2, <1>3, RecordedLayout
<1>6. /\ tabs' = [tabs EXCEPT ![nextPane] = {nextTab}]
      /\ nextTab \in Tabs /\ nextPane' = nextPane + 1 /\ nextTab' = nextTab + 1
  BY DEF AddPane
<1>7. Live' = Live \cup {nextPane}
  BY <1>5 DEF Live
<1>8. Typed'
  BY <1>1, <1>6 DEF Places, Typed
<1>9. Fresh'
  BY <1>1, <1>6, <1>7 DEF Places, Fresh, Panes
<1>10. \A r, q \in Screens : r # q => layout'[r].panes \cap layout'[q].panes = {}
  BY <1>1, <1>5 DEF Places, Apart, Filled, Live
<1>11. \A p \in Panes : p \in Live' <=> tabs'[p] # {}
  BY <1>1, <1>6, <1>7 DEF Places, Apart, Filled, Typed
<1> QED
  BY <1>4, <1>8, <1>9, <1>10, <1>11 DEF Places, Apart, Filled

LEMMA AddTabKeeps ==
  ASSUME HistInv, Places, NEW p \in Panes, AddTab(p)
  PROVE  HistInv' /\ Places'
<1>1. HistInv'
  BY FenceKeeps DEF AddTab
<1>2. /\ tabs' = [tabs EXCEPT ![p] = @ \cup {nextTab}] /\ nextTab \in Tabs
      /\ p \in Live /\ layout' = layout
      /\ nextTab' = nextTab + 1 /\ UNCHANGED nextPane
  BY DEF AddTab, Fence
<1>3. tabs' \in [Panes -> SUBSET Tabs] /\ nextTab' \in Nat
  BY <1>2 DEF Places, Typed
<1>4. \A r \in Panes : tabs'[r] = {} <=> tabs[r] = {}
  BY <1>2 DEF Places, Typed, Apart, Filled
<1> QED
  BY <1>1, <1>2, <1>3, <1>4, SamePlaces

LEMMA CollapsedPanes ==
  ASSUME layout \in [Screens -> Layout], NEW p, NEW fenced, Collapse(p, fenced),
         NEW s \in Screens
  PROVE  layout'[s].panes = layout[s].panes \ {p}
BY DEF Collapse, Without, Layout

LEMMA CloseTabKeeps ==
  ASSUME HistInv, Places, NEW t \in Tabs, CloseTab(t)
  PROVE  HistInv' /\ Places'
<1>1. PICK p \in Panes : p = PaneOf(t) /\ t \in tabs[p]
  BY PaneOfTab DEF CloseTab
<1>2. /\ tabs' = [tabs EXCEPT ![p] = @ \ {t}] /\ UNCHANGED <<nextPane, nextTab>>
      /\ IF tabs[p] = {t} THEN Collapse(p, {}) ELSE Fence({p})
  BY <1>1 DEF CloseTab
<1>3. /\ tabs' \in [Panes -> SUBSET Tabs] /\ tabs'[p] = tabs[p] \ {t}
      /\ \A r \in Panes \ {p} : tabs'[r] = tabs[r]
      /\ layout \in [Screens -> Layout] /\ nextTab' \in Nat
  BY <1>2 DEF Places, Typed, HistInv, Screened
<1>4. CASE tabs[p] = {t}
  <2>1. HistInv'
    BY <1>2, <1>4, CollapseKeeps
  <2>2. \A s \in Screens : layout'[s].panes = layout[s].panes \ {p}
    BY <1>2, <1>3, <1>4, CollapsedPanes
  <2>3. tabs'[p] = {}
    BY <1>3, <1>4
  <2> QED
    BY <1>2, <1>3, <2>1, <2>2, <2>3, FewerPlaces
<1>5. CASE tabs[p] # {t}
  <2>1. HistInv' /\ layout' = layout
    BY <1>2, <1>5, FenceKeeps DEF Fence
  <2>2. tabs'[p] # {} /\ tabs[p] # {}
    BY <1>1, <1>3, <1>5
  <2> QED
    BY <1>2, <1>3, <2>1, <2>2, SamePlaces
<1> QED
  BY <1>4, <1>5

LEMMA MovedTabs ==
  ASSUME HistInv, Places, NEW t \in Shown, NEW q \in Live \ {PaneOf(t)},
         tabs' = Moved(t, q)
  PROVE  /\ tabs' \in [Panes -> SUBSET Tabs] /\ q \in Panes
         /\ PaneOf(t) \in Panes /\ t \in tabs[PaneOf(t)]
         /\ tabs'[PaneOf(t)] = tabs[PaneOf(t)] \ {t}
         /\ tabs'[q] # {} /\ tabs[q] # {}
         /\ \A r \in Panes \ {PaneOf(t), q} : tabs'[r] = tabs[r]
<1>1. PICK p \in Panes : p = PaneOf(t) /\ t \in tabs[p]
  BY PaneOfTab
<1>2. q \in Panes /\ q # p /\ tabs[q] # {}
  BY <1>1 DEF Live, HistInv, Screened, Layout, Places, Apart, Filled
<1>3. tabs \in [Panes -> SUBSET Tabs] /\ t \in Tabs
  BY <1>1 DEF Places, Typed
<1>4. tabs' = [tabs EXCEPT ![p] = @ \ {t}, ![q] = @ \cup {t}]
  BY <1>1 DEF Moved
<1> QED
  BY <1>1, <1>2, <1>3, <1>4

LEMMA MoveKeeps ==
  ASSUME HistInv, Places, NEW t \in Tabs, NEW q \in Panes,
         MoveTab(t, q) \/ MoveTerminal(t, q)
  PROVE  HistInv' /\ Places'
<1>1. /\ t \in Shown /\ q \in Live \ {PaneOf(t)} /\ tabs' = Moved(t, q)
      /\ UNCHANGED <<nextPane, nextTab>>
  BY DEF MoveTab, MoveTerminal
<1>2. PICK p \in Panes : p = PaneOf(t)
  BY <1>1, MovedTabs
<1>3. /\ tabs' \in [Panes -> SUBSET Tabs] /\ t \in tabs[p]
      /\ tabs'[p] = tabs[p] \ {t} /\ tabs'[q] # {} /\ tabs[q] # {}
      /\ \A r \in Panes \ {p, q} : tabs'[r] = tabs[r]
      /\ layout \in [Screens -> Layout] /\ nextTab' \in Nat
  BY <1>1, <1>2, MovedTabs DEF HistInv, Screened, Places, Typed
<1>4. CASE MoveTerminal(t, q)
  <2>1. HistInv' /\ layout' = layout /\ tabs[p] # {t}
    BY <1>2, <1>4 DEF MoveTerminal, screenVars, HistInv, Screened
  <2>2. \A r \in Panes : tabs'[r] = {} <=> tabs[r] = {}
    BY <1>3, <2>1
  <2> QED
    BY <1>1, <1>3, <2>1, <2>2, SamePlaces
<1>5. CASE MoveTab(t, q) /\ tabs[p] = {t}
  <2>1. Collapse(p, {p, q})
    BY <1>2, <1>5 DEF MoveTab
  <2>2. HistInv'
    BY <2>1, CollapseKeeps
  <2>3. \A s \in Screens : layout'[s].panes = layout[s].panes \ {p}
    BY <1>3, <2>1, CollapsedPanes
  <2>4. /\ tabs'[p] = {}
        /\ \A r \in Panes \ {p} : tabs'[r] = {} <=> tabs[r] = {}
    BY <1>3, <1>5
  <2> QED
    BY <1>1, <1>3, <2>2, <2>3, <2>4, FewerPlaces
<1>6. CASE MoveTab(t, q) /\ tabs[p] # {t}
  <2>1. Fence({p, q})
    BY <1>2, <1>6 DEF MoveTab
  <2>2. HistInv' /\ layout' = layout
    BY <2>1, FenceKeeps DEF Fence
  <2>3. \A r \in Panes : tabs'[r] = {} <=> tabs[r] = {}
    BY <1>3, <1>6
  <2> QED
    BY <1>1, <1>3, <2>2, <2>3, SamePlaces
<1> QED
  BY <1>4, <1>5, <1>6

LEMMA ReshapedKeeps ==
  ASSUME HistInv, NEW s \in Screens, NEW key \in Keys \cup {NoKey},
         Record({s}, [layout EXCEPT ![s].shape = 1 - @], {}, key, FALSE)
  PROVE  HistInv' /\ \A r \in Screens : layout'[r].panes = layout[r].panes
<1> DEFINE new == [layout EXCEPT ![s].shape = 1 - @]
<1>1. layout \in [Screens -> Layout] /\ layout[s].shape \in {0, 1}
  BY DEF HistInv, Screened, Layout
<1>2. new[s] \in Layout /\ new[s].panes = layout[s].panes \cup {}
  BY <1>1 DEF Layout
<1>3. PICK no : ~no /\ no \in BOOLEAN /\ Record({s}, new, {}, key, no)
  OBVIOUS
<1> HIDE DEF new
<1>4. HistInv'
  BY <1>2, <1>3, RecordKeeps
<1> QED
  BY <1>1, <1>2, <1>3, <1>4, RecordedLayout

LEMMA ResizeKeeps ==
  ASSUME HistInv, Places, NEW s \in Screens, NEW key \in Keys \cup {NoKey},
         Resize(s, key)
  PROVE  HistInv' /\ Places'
BY ReshapedKeeps, SamePlaces DEF Resize, Places, Typed

LEMMA ApplyKeeps ==
  ASSUME HistInv, Places, NEW s \in Screens,
         NEW home \in [TabsIn(layout[s].panes) -> layout[s].panes],
         ApplyLayout(s, home)
  PROVE  HistInv' /\ Places'
<1>1. /\ HistInv' /\ \A r \in Screens : layout'[r].panes = layout[r].panes
  BY ReshapedKeeps DEF ApplyLayout
<1>2. /\ Surjective(home, layout[s].panes) /\ UNCHANGED <<nextPane, nextTab>>
      /\ tabs' = [p \in Panes |-> IF p \in layout[s].panes
                                  THEN {t \in DOMAIN home : home[t] = p} ELSE tabs[p]]
  BY DEF ApplyLayout
<1>3. layout[s].panes \subseteq Panes /\ layout[s].panes \subseteq Live
  BY DEF HistInv, Screened, Layout, Live
<1>4. TabsIn(layout[s].panes) \subseteq Tabs
  BY <1>3 DEF TabsIn, Places, Typed
<1>5. tabs' \in [Panes -> SUBSET Tabs] /\ nextTab' \in Nat
  BY <1>2, <1>4 DEF Places, Typed
<1>6. ASSUME NEW p \in layout[s].panes
      PROVE  tabs'[p] # {} /\ tabs[p] # {}
  <2>1. PICK t \in DOMAIN home : home[t] = p
    BY <1>2 DEF Surjective
  <2>2. t \in tabs'[p]
    BY <1>2, <1>3, <2>1
  <2> QED
    BY <1>3, <2>2 DEF Places, Apart, Filled
<1>7. \A p \in Panes : tabs'[p] = {} <=> tabs[p] = {}
  BY <1>2, <1>6
<1> QED
  BY <1>1, <1>2, <1>5, <1>7, SamePlaces

LEMMA SwapKeeps ==
  ASSUME HistInv, Places, NEW p \in Panes, NEW q \in Panes, Swap(p, q)
  PROVE  HistInv' /\ Places'
<1> DEFINE both == {s \in Screens : layout[s].panes \cap {p, q} # {}}
           new == [s \in Screens |-> Exchanged(layout[s], p, q)]
           across == Cardinality(both) > 1
<1>1. /\ layout \in [Screens -> Layout] /\ p # q
      /\ Record(both, new, {}, NoKey, across)
      /\ tabs' = tabs /\ UNCHANGED <<nextPane, nextTab>>
  BY DEF HistInv, Screened, Swap, Panes
<1>2. PICK a \in Screens : p \in layout[a].panes
  BY DEF Swap, Live
<1>3. PICK b \in Screens : q \in layout[b].panes
  BY DEF Swap, Live
<1>4. \A s \in Screens : /\ p \in layout[s].panes <=> s = a
                         /\ q \in layout[s].panes <=> s = b
  BY <1>2, <1>3 DEF Places, Apart
<1>5. both = {a, b}
  BY <1>2, <1>3, <1>4
<1>6. \A s \in Screens : new[s] \in Layout
  BY <1>1 DEF Exchanged, Layout
<1>7. across \in BOOLEAN
  OBVIOUS
<1>8. CASE a = b
  <2>1. both = {a}
    BY <1>5, <1>8
  <2>2. ~across
    BY <2>1, FS_Singleton
  <2>3. new[a].panes = layout[a].panes
    BY <1>1, <1>2, <1>3, <1>8 DEF Exchanged, Layout
  <2> HIDE DEF new, both, across
  <2>4. HistInv'
    BY <1>1, <1>6, <1>7, <2>1, <2>2, <2>3, RecordKeeps
  <2>5. \A s \in Screens : layout'[s].panes = layout[s].panes
    BY <1>1, <2>1, <2>3, RecordedLayout
  <2> QED
    BY <1>1, <2>4, <2>5, SamePlaces DEF Places, Typed
<1>9. CASE a # b
  <2>1. across
    <3>1. Cardinality({a}) = 1 /\ IsFiniteSet({a})
      BY FS_Singleton
    <3>2. Cardinality({a} \cup {b}) = 2
      BY <1>9, <3>1, FS_AddElement
    <3>3. {a, b} = {a} \cup {b}
      OBVIOUS
    <3> QED
      BY <1>5, <3>2, <3>3
  <2>2. /\ new[a].panes = (layout[a].panes \ {p}) \cup {q}
        /\ new[b].panes = (layout[b].panes \ {q}) \cup {p}
    BY <1>1, <1>4, <1>9 DEF Exchanged, Layout
  <2> HIDE DEF new, both, across
  <2>3. HistInv'
    BY <1>1, <1>6, <1>7, <2>1, RecordKeeps
  <2>4. /\ layout'[a].panes = (layout[a].panes \ {p}) \cup {q}
        /\ layout'[b].panes = (layout[b].panes \ {q}) \cup {p}
        /\ \A s \in Screens \ {a, b} : layout'[s].panes = layout[s].panes
    BY <1>1, <1>5, <2>2, RecordedLayout
  <2>5. Apart'
    BY <1>4, <1>9, <2>4 DEF Places, Apart
  <2>6. Live' = Live
    <3>1. ASSUME NEW x PROVE x \in Live' <=> x \in Live
      <4>1. CASE x = p \/ x = q
        BY <1>2, <1>3, <2>4, <4>1 DEF Live
      <4>2. CASE x # p /\ x # q
        <5>1. \A s \in Screens : x \in layout'[s].panes <=> x \in layout[s].panes
          BY <2>4, <4>2
        <5> QED
          BY <5>1 DEF Live
      <4> QED
        BY <4>1, <4>2
    <3> QED
      BY <3>1
  <2> QED
    BY <1>1, <2>3, <2>5, <2>6 DEF Places, Typed, Fresh, Filled
<1> QED
  BY <1>8, <1>9

LEMMA UndoneLayout ==
  ASSUME HistInv, NEW s \in Screens, history[s] # <<>>, ~Last(history[s]).across,
         NEW bumps, Undone(s, bumps), NEW r \in Screens
  PROVE  layout'[r].panes =
           IF r = s THEN layout[s].panes \ Last(history[s]).created
           ELSE layout[r].panes
<1>1. /\ Last(history[s]).before.panes \cap Last(history[s]).created = {}
      /\ Last(history[s]).before.panes \cup Last(history[s]).created
           = layout[s].panes
  BY LastCloses DEF HistInv
<1>2. layout' = [layout EXCEPT ![s] = Last(history[s]).before]
  BY DEF Undone
<1> QED
  BY <1>1, <1>2 DEF HistInv, Screened

LEMMA UndoKeeps ==
  ASSUME HistInv, Places, NEW s \in Screens, Undo(s), ~Last(history[s]).across
  PROVE  HistInv' /\ Places'
<1>1. /\ history[s] # <<>> /\ Last(history[s]).created = {} /\ Undone(s, 0)
      /\ UNCHANGED <<tabs, nextPane, nextTab>>
  BY DEF Undo, Undoable
<1>2. HistInv'
  BY <1>1, UndoneKeeps
<1>3. \A r \in Screens : layout'[r].panes = layout[r].panes
  BY <1>1, UndoneLayout
<1> QED
  BY <1>1, <1>2, <1>3, SamePlaces DEF Places, Typed

(* The undo of one half of a swap across screens leaves the types, and the *)
(* entry below it as the latest.                                           *)
LEMMA RefreshedEntries ==
  ASSUME NEW h \in Seq(Entries), NEW n \in Nat
  PROVE  /\ Refreshed(h, n) \in Seq(Entries) /\ Len(Refreshed(h, n)) = Len(h)
         /\ Refreshed(h, n) = <<>> \/ Last(Refreshed(h, n)).after = n
<1>1. CASE h = <<>>
  BY <1>1 DEF Refreshed
<1>2. CASE h # <<>>
  <2> DEFINE g == [h EXCEPT ![Len(h)] = [@ EXCEPT !.after = n, !.coalesce = NoKey]]
             e == [h[Len(h)] EXCEPT !.after = n, !.coalesce = NoKey]
  <2>1. Len(h) \in 1..Len(h) /\ DOMAIN h = 1..Len(h) /\ h[Len(h)] \in Entries
    BY <1>2
  <2>2. e \in Entries /\ e.after = n
    BY <2>1 DEF Entries
  <2>3. g \in Seq(Entries) /\ Len(g) = Len(h) /\ g[Len(h)] = e
    BY <2>1, <2>2, ExceptSeq
  <2> HIDE DEF g, e
  <2>4. g = Refreshed(h, n)
    BY <1>2 DEF Refreshed, g
  <2> QED
    BY <2>2, <2>3, <2>4 DEF Last
<1> QED
  BY <1>1, <1>2

LEMMA TearingKeeps ==
  ASSUME Sane, NEW s \in Screens, Undo(s)
  PROVE  Loose'
<1> DEFINE h == history[s]
           n == revision[s] + 1
           g == Refreshed(Front(h), n)
<1>1. /\ h # <<>> /\ h \in Seq(Entries) /\ Len(h) <= UndoLimit
      /\ n \in Nat /\ Screened /\ revision[s] + 0 + 1 = n
  BY DEF Undo, Undoable, Sane, HistInv, Screened, Good
<1>2. /\ layout' = [layout EXCEPT ![s] = Last(h).before]
      /\ revision' = [revision EXCEPT ![s] = n]
      /\ history' = [history EXCEPT ![s] = g]
      /\ UNCHANGED <<tabs, nextPane, nextTab, client>>
  BY <1>1 DEF Undo, Undone
<1>3. /\ Front(h) \in Seq(Entries) /\ Len(Front(h)) = Len(h) - 1
      /\ Len(h) \in Nat /\ Last(h) \in Entries
  BY <1>1 DEF Front, Last
<1>4. /\ g \in Seq(Entries) /\ Len(g) = Len(h) - 1
      /\ g = <<>> \/ Last(g).after = n
  BY <1>1, <1>3, RefreshedEntries
<1> HIDE DEF n, g, h
<1>5. Latest(g, n)
  BY <1>1, <1>3, <1>4, LayoutAssumption DEF Latest
<1>6. Screened'
  BY <1>1, <1>2, <1>3, <1>4 DEF Screened, Entries
<1>7. \A r \in Screens : Latest(history'[r], revision'[r])
  BY <1>1, <1>2, <1>5 DEF Sane, HistInv, Good, Latest, Screened
<1>8. Typed' /\ Held'
  BY <1>2 DEF Sane, Places, Typed, Held
<1> QED
  BY <1>6, <1>7, <1>8 DEF Loose

(* A confirmed undo closes the panes the latest change created.            *)
LEMMA ClosingKeeps ==
  ASSUME HistInv, Places, NEW s \in Screens, history[s] # <<>>,
         ~Last(history[s]).across,
         NEW created, created = Last(history[s]).created,
         NEW bumps \in Nat, Undone(s, bumps),
         tabs' = [p \in Panes |-> IF p \in created THEN {} ELSE tabs[p]],
         UNCHANGED <<nextPane, nextTab>>
  PROVE  HistInv' /\ Places'
<1>1. HistInv'
  BY UndoneKeeps
<1>2. created \subseteq layout[s].panes
  BY LastCloses DEF HistInv
<1>3. \A r \in Screens : layout'[r].panes = layout[r].panes \ created
  BY <1>2, UndoneLayout DEF Places, Apart, Filled
<1>4. tabs' \in [Panes -> SUBSET Tabs] /\ layout \in [Screens -> Layout]
  BY DEF Places, Typed, HistInv, Screened
<1> QED
  BY <1>1, <1>3, <1>4, FewerPlaces

-----------------------------------------------------------------------------
(* The clients.                                                            *)
LEMMA ClientKeeps ==
  ASSUME Held, NEW c \in Clients, NEW r, Sound(r), client' = [client EXCEPT ![c] = r]
  PROVE  Held'
BY DEF Held

LEMMA ConfirmableToken ==
  ASSUME HistInv, Places, NEW s \in Screens, Confirmable(s)
  PROVE  /\ Token(s) \in Tokens /\ ~Last(history[s]).across
         /\ Token(s).closes = [p \in Last(history[s]).created |-> tabs[p]]
         /\ Token(s).closes \in Views /\ revision[s] \in Nat
<1> DEFINE v == [p \in Last(history[s]).created |-> tabs[p]]
<1>0. ~Last(history[s]).across
  BY LastCreates DEF HistInv, Confirmable, Undoable
<1>1. Last(history[s]).created \in SUBSET Panes
  BY <1>0, LastCloses DEF HistInv, Confirmable, Undoable, Entries
<1>2. v \in [Last(history[s]).created -> SUBSET Tabs]
  BY <1>1 DEF Places, Typed
<1>3. v \in Views
  BY <1>1, <1>2 DEF Views
<1>4. revision[s] \in Nat
  BY DEF HistInv, Screened
<1>5. Token(s) = [revision |-> revision[s], closes |-> v]
  BY DEF Token
<1> HIDE DEF v
<1>6. Token(s) \in Tokens /\ Token(s).closes = v
  BY <1>3, <1>4, <1>5 DEF Tokens
<1> QED
  BY <1>0, <1>3, <1>4, <1>6 DEF v

LEMMA PreviewKeeps ==
  ASSUME Sane, NEW c \in Clients, NEW s \in Screens,
         NEW by \in {"revision", "token"}, Preview(c, s, by)
  PROVE  Held'
<1> DEFINE v == [p \in Last(history[s]).created |-> tabs[p]]
           r == [step |-> "previewed", by |-> by, screen |-> s,
                 revision |-> revision[s], shown |-> v, token |-> Token(s)]
<1>1. Confirmable(s) /\ client' = [client EXCEPT ![c] = r]
  BY DEF Preview
<1>2. /\ Token(s) \in Tokens /\ Token(s).closes = v /\ v \in Views
      /\ revision[s] \in Nat
  BY <1>1, ConfirmableToken DEF Sane
<1> HIDE DEF v
<1>3. r \in Waiting /\ r.step = "previewed" /\ r.token.closes = r.shown
  BY <1>2 DEF Waiting
<1>4. Sound(r)
  BY <1>3 DEF Sound
<1> HIDE DEF r
<1> QED
  BY <1>1, <1>4, ClientKeeps DEF Sane

LEMMA WaitingClient ==
  ASSUME Held, NEW c \in Clients,
         client[c].step \in {"previewed", "checked", "tokened", "reserved"}
  PROVE  /\ client[c] \in Waiting
         /\ client[c].step \in {"checked", "tokened"} => client[c].by = "revision"
         /\ client[c].by = "token" => client[c].token.closes = client[c].shown
<1>1. Sound(client[c])
  BY DEF Held
<1>2. client[c] # Idle
  BY DEF Idle
<1>3. client[c] \notin Closed
  BY DEF Closed
<1> QED
  BY <1>1, <1>2, <1>3 DEF Sound

LEMMA TurnKeeps ==
  ASSUME Held, NEW c \in Clients, NEW holds \in BOOLEAN, NEW next,
         holds => Sound(next), Turn(c, holds, next)
  PROVE  Held'
<1>1. CASE holds
  BY <1>1, ClientKeeps DEF Turn
<1>2. CASE ~holds
  BY <1>2, ClientKeeps DEF Turn, Sound
<1> QED
  BY <1>1, <1>2

LEMMA RetryKeeps ==
  ASSUME Sane, NEW c \in Clients, Retry(c)
  PROVE  Held'
<1> DEFINE s == client[c].screen
           r == [client[c] EXCEPT !.step = "checked"]
           h == Confirmable(s) /\ revision[s] = client[c].revision
<1>1. /\ client[c].step = "previewed" /\ client[c].by = "revision"
      /\ Turn(c, h, r)
  BY DEF Retry
<1>2. client[c] \in Waiting
  BY <1>1, WaitingClient DEF Sane
<1>3. r \in Waiting /\ r.by = "revision"
  BY <1>1, <1>2 DEF Waiting
<1>4. Sound(r)
  BY <1>3 DEF Sound
<1>5. h \in BOOLEAN
  BY DEF Confirmable, Undoable
<1> HIDE DEF r, h
<1> QED
  BY <1>1, <1>4, <1>5, TurnKeeps DEF Sane

LEMMA TakeTokenKeeps ==
  ASSUME Sane, NEW c \in Clients, TakeToken(c)
  PROVE  Held'
<1> DEFINE s == client[c].screen
           r == [client[c] EXCEPT !.step = "tokened",
                                  !.token = IF Confirmable(s) THEN Token(s) ELSE @]
           h == Confirmable(s)
<1>1. client[c].step = "checked" /\ Turn(c, h, r)
  BY DEF TakeToken
<1>2. client[c] \in Waiting /\ client[c].by = "revision"
  BY <1>1, WaitingClient DEF Sane
<1>3. s \in Screens
  BY <1>2 DEF Waiting
<1>4. ASSUME h
      PROVE  Sound(r)
  <2>1. Token(s) \in Tokens
    BY <1>3, <1>4, ConfirmableToken DEF Sane
  <2>2. r = [client[c] EXCEPT !.step = "tokened", !.token = Token(s)]
    BY <1>4
  <2> HIDE DEF r
  <2>3. r \in Waiting /\ r.by = "revision"
    BY <1>2, <2>1, <2>2 DEF Waiting
  <2> QED
    BY <2>3 DEF Sound
<1>5. h \in BOOLEAN
  BY DEF Confirmable, Undoable
<1> HIDE DEF r, h
<1> QED
  BY <1>1, <1>4, <1>5, TurnKeeps DEF Sane

LEMMA ReserveKeeps ==
  ASSUME Sane, NEW c \in Clients, Reserve(c)
  PROVE  Held'
<1> DEFINE s == client[c].screen
           r == [client[c] EXCEPT !.step = "reserved", !.revision = revision[s]]
           h == /\ Confirmable(s)
                /\ client[c].by = "revision" => revision[s] = client[c].revision
                /\ client[c].token = Token(s)
<1>1. client[c].step \in {"tokened", "previewed"} /\ Turn(c, h, r)
  BY DEF Reserve
<1>2. /\ client[c] \in Waiting
      /\ client[c].by = "token" => client[c].token.closes = client[c].shown
  BY <1>1, WaitingClient DEF Sane
<1>3. revision[s] \in Nat
  BY <1>2 DEF Waiting, Sane, HistInv, Screened
<1>4. /\ r \in Waiting /\ r.step = "reserved" /\ r.by = client[c].by
      /\ r.token = client[c].token /\ r.shown = client[c].shown
  BY <1>2, <1>3 DEF Waiting
<1>5. Sound(r)
  BY <1>2, <1>4 DEF Sound
<1>6. h \in BOOLEAN
  BY DEF Confirmable, Undoable
<1> HIDE DEF r, h
<1> QED
  BY <1>1, <1>5, <1>6, TurnKeeps DEF Sane

LEMMA TabsAreFew ==
  ASSUME Places, NEW panes \in SUBSET Panes
  PROVE  TabsIn(panes) \in SUBSET Tabs /\ Cardinality(TabsIn(panes)) \in Nat
<1>1. TabsIn(panes) \in SUBSET Tabs
  BY DEF TabsIn, Places, Typed
<1>2. IsFiniteSet(Tabs)
  BY FS_Interval, LayoutAssumption DEF Tabs
<1> QED
  BY <1>1, <1>2, FS_Subset, FS_CardinalityType

LEMMA ExecuteKeeps ==
  ASSUME Sane, NEW c \in Clients, Execute(c)
  PROVE  Sane'
<1> DEFINE s == client[c].screen
           created == Last(history[s]).created
           closed == TabsIn(created)
<1>1. client[c].step = "reserved" /\ UNCHANGED <<nextPane, nextTab>>
  BY DEF Execute
<1>2. /\ client[c] \in Waiting
      /\ client[c].by = "token" => client[c].token.closes = client[c].shown
  BY <1>1, WaitingClient DEF Sane
<1>3. s \in Screens
  BY <1>2 DEF Waiting
<1>4. CASE MayClose(c, s)
  <2> DEFINE r == [step |-> "done", by |-> client[c].by, shown |-> client[c].shown,
                   closed |-> closed]
  <2>1. /\ Undone(s, Cardinality(closed))
        /\ tabs' = [p \in Panes |-> IF p \in created THEN {} ELSE tabs[p]]
        /\ client' = [client EXCEPT ![c] =
             [step |-> "done", by |-> @.by, shown |-> @.shown, closed |-> closed]]
    BY <1>4 DEF Execute
  <2>2. client' = [client EXCEPT ![c] = r]
    BY <2>1
  <2>3. /\ Confirmable(s) /\ history[s] # <<>> /\ client[c].token = Token(s)
        /\ Token(s).closes = [p \in created |-> tabs[p]]
        /\ ~Last(history[s]).across
    BY <1>3, <1>4, ConfirmableToken DEF MayClose, Confirmable, Undoable, Sane
  <2>4. created \in SUBSET Panes
    BY <1>3, <2>3, LastCloses DEF Sane, HistInv, Entries
  <2>5. closed \in SUBSET Tabs /\ Cardinality(closed) \in Nat
    BY <2>4, TabsAreFew DEF Sane
  <2>6. ASSUME client[c].by = "token"
        PROVE  closed = UNION {client[c].shown[p] : p \in DOMAIN client[c].shown}
    <3>1. client[c].shown = [p \in created |-> tabs[p]]
      BY <1>2, <2>3, <2>6
    <3> QED
      BY <3>1 DEF TabsIn
  <2> HIDE DEF closed
  <2>7. r \in Closed /\ r.by = client[c].by /\ r.shown = client[c].shown
        /\ r.closed = closed
    BY <1>2, <2>5 DEF Waiting, Closed
  <2>8. Sound(r)
    BY <2>6, <2>7 DEF Sound
  <2> HIDE DEF r, created
  <2>9. Held'
    BY <2>2, <2>8, ClientKeeps DEF Sane
  <2>10. HistInv' /\ Places'
    BY <1>1, <1>3, <2>1, <2>3, <2>5, ClosingKeeps DEF Sane, created
  <2> QED
    BY <2>9, <2>10 DEF Sane
<1>5. CASE ~MayClose(c, s)
  <2>1. /\ client' = [client EXCEPT ![c] = Idle]
        /\ UNCHANGED <<screenVars, tabs>>
    BY <1>5 DEF Execute
  <2>2. Sound(Idle)
    BY DEF Sound
  <2>3. Held'
    BY <2>1, <2>2, ClientKeeps DEF Sane
  <2> QED
    BY <1>1, <2>1, <2>3, NothingMoved DEF Sane
<1> QED
  BY <1>4, <1>5

-----------------------------------------------------------------------------
(* Every step keeps the invariant.                                         *)
LEMMA InitHolds == Init => LayoutInv
<1> SUFFICES ASSUME Init PROVE LayoutInv
  OBVIOUS
<1> DEFINE n == Cardinality(Screens)
<1>1. /\ n \in Nat /\ Screens = 1..n /\ Screens \subseteq Panes
      /\ Screens \subseteq Tabs /\ MaxPanes \in Nat /\ MaxTabs \in Nat
  BY LayoutAssumption, FS_CardinalityType DEF Panes, Tabs
<1> HIDE DEF n
<1>2. /\ layout = [s \in Screens |-> [panes |-> {s}, shape |-> 0]]
      /\ revision = [s \in Screens |-> 0] /\ history = [s \in Screens |-> <<>>]
      /\ tabs = [p \in Panes |-> IF p \in Screens THEN {p} ELSE {}]
      /\ nextPane = n + 1 /\ nextTab = n + 1
      /\ client = [c \in Clients |-> Idle]
  BY DEF Init, n
<1>3. Live = Screens
  BY <1>2 DEF Live
<1>4. HistInv
  <2>1. Screened
    BY <1>1, <1>2 DEF Screened, Layout
  <2>2. \A s \in Screens : Good(history[s], layout[s].panes, revision[s])
    BY <1>2, GoodEmpty
  <2> QED
    BY <2>1, <2>2 DEF HistInv
<1>5. Typed
  BY <1>1, <1>2 DEF Typed
<1>6. Fresh
  BY <1>1, <1>2, <1>3 DEF Fresh, Panes
<1>7. Apart /\ Filled
  BY <1>1, <1>2, <1>3 DEF Apart, Filled
<1>8. Held
  BY <1>2 DEF Held, Sound
<1>9. \A s \in Screens : Latest(history[s], revision[s])
  BY <1>4 DEF HistInv, Good, Latest
<1>10. torn = FALSE
  BY DEF Init
<1> QED
  BY <1>4, <1>5, <1>6, <1>7, <1>8, <1>9, <1>10
  DEF LayoutInv, Loose, Sane, Places, HistInv

LEMMA ClientStays ==
  ASSUME Held, UNCHANGED client
  PROVE  Held'
BY DEF Held

LEMMA StepKeeps ==
  ASSUME Sane, torn = FALSE, Next
  PROVE  (torn' = FALSE /\ Sane') \/ (torn' = TRUE /\ Loose')
<1> DEFINE Kept == torn' = FALSE /\ Sane'
<1> USE DEF Sane
<1>1. ASSUME NEW s \in Screens, AddPane(s)
      PROVE  Kept
  BY <1>1, AddPaneKeeps, ClientStays DEF AddPane
<1>2. ASSUME NEW p \in Panes, AddTab(p)
      PROVE  Kept
  BY <1>2, AddTabKeeps, ClientStays DEF AddTab
<1>3. ASSUME NEW t \in Tabs, CloseTab(t)
      PROVE  Kept
  BY <1>3, CloseTabKeeps, ClientStays DEF CloseTab
<1>4. ASSUME NEW t \in Tabs, NEW q \in Panes, MoveTab(t, q) \/ MoveTerminal(t, q)
      PROVE  Kept
  BY <1>4, MoveKeeps, ClientStays DEF MoveTab, MoveTerminal
<1>5. ASSUME NEW s \in Screens, NEW key \in Keys \cup {NoKey}, Resize(s, key)
      PROVE  Kept
  BY <1>5, ResizeKeeps, ClientStays DEF Resize
<1>6. ASSUME NEW p \in Panes, NEW q \in Panes, Swap(p, q)
      PROVE  Kept
  BY <1>6, SwapKeeps, ClientStays DEF Swap
<1>7. ASSUME NEW s \in Screens,
             NEW home \in [TabsIn(layout[s].panes) -> layout[s].panes],
             ApplyLayout(s, home)
      PROVE  Kept
  BY <1>7, ApplyKeeps, ClientStays DEF ApplyLayout
<1>8. ASSUME NEW s \in Screens, Undo(s)
      PROVE  Kept \/ (torn' = TRUE /\ Loose')
  <2>1. CASE ~Last(history[s]).across
    <3>1. UNCHANGED client /\ torn' = Last(history[s]).across
      BY <1>8 DEF Undo
    <3>2. history[s] \in Seq(Entries) /\ history[s] # <<>>
      BY <1>8 DEF Undo, Undoable, HistInv, Screened
    <3>3. Last(history[s]) \in Entries
      BY <3>2 DEF Last
    <3>4. torn' = FALSE
      BY <2>1, <3>1, <3>3 DEF Entries
    <3> QED
      BY <1>8, <2>1, <3>1, <3>4, UndoKeeps, ClientStays
  <2>2. CASE Last(history[s]).across
    <3>1. history[s] \in Seq(Entries) /\ history[s] # <<>>
      BY <1>8 DEF Undo, Undoable, HistInv, Screened
    <3>2. Last(history[s]) \in Entries
      BY <3>1 DEF Last
    <3>3. torn' = TRUE
      BY <1>8, <2>2, <3>2 DEF Undo, Entries
    <3> QED
      BY <1>8, <3>3, TearingKeeps
  <2> QED
    BY <2>1, <2>2
<1>9. ASSUME NEW c \in Clients, NEW s \in Screens, NEW by \in {"revision", "token"},
             Preview(c, s, by)
      PROVE  Kept
  <2>1. Held'
    BY <1>9, PreviewKeeps
  <2> QED
    BY <1>9, <2>1, NothingMoved DEF Preview
<1>10. ASSUME NEW c \in Clients, Retry(c) \/ TakeToken(c) \/ Reserve(c)
       PROVE  Kept
  <2>1. Held'
    BY <1>10, RetryKeeps, TakeTokenKeeps, ReserveKeeps
  <2>2. UNCHANGED <<screenVars, tabs, nextPane, nextTab, torn>>
    BY <1>10 DEF Retry, TakeToken, Reserve
  <2> QED
    BY <2>1, <2>2, NothingMoved
<1>11. ASSUME NEW c \in Clients, Execute(c)
       PROVE  Kept
  BY <1>11, ExecuteKeeps DEF Execute
<1> HIDE DEF Sane
<1> HIDE DEF Kept
<1>12. Kept \/ (torn' = TRUE /\ Loose')
  BY <1>1, <1>2, <1>3, <1>4, <1>5, <1>6, <1>7, <1>8, <1>9, <1>10, <1>11 DEF Next
<1> QED
  BY <1>12 DEF Kept

(* Nothing happens after the undo of one half of a swap.                   *)
LEMMA WholeYet == Next => ~torn
<1>1. \A s \in Screens : AddPane(s) \/ Undo(s) => ~torn
  BY DEF AddPane, Undo, Room
<1>2. \A p \in Panes : AddTab(p) => ~torn
  BY DEF AddTab, Room
<1>3. \A t \in Tabs : CloseTab(t) => ~torn
  BY DEF CloseTab, Room
<1>4. \A t \in Tabs, q \in Panes : MoveTab(t, q) \/ MoveTerminal(t, q) => ~torn
  BY DEF MoveTab, MoveTerminal, Room
<1>5. \A s \in Screens, key \in Keys \cup {NoKey} : Resize(s, key) => ~torn
  BY DEF Resize, Room
<1>6. \A p, q \in Panes : Swap(p, q) => ~torn
  BY DEF Swap, Room
<1>7. \A s \in Screens : \A home : ApplyLayout(s, home) => ~torn
  BY DEF ApplyLayout, Room
<1>8. \A c \in Clients, s \in Screens, by \in {"revision", "token"} :
        Preview(c, s, by) => ~torn
  BY DEF Preview
<1>9. \A c \in Clients :
        Retry(c) \/ TakeToken(c) \/ Reserve(c) \/ Execute(c) => ~torn
  BY DEF Retry, TakeToken, Reserve, Execute
<1> QED
  BY <1>1, <1>2, <1>3, <1>4, <1>5, <1>6, <1>7, <1>8, <1>9 DEF Next

LEMMA InvariantKept == LayoutInv /\ [Next]_vars => LayoutInv'
<1> SUFFICES ASSUME LayoutInv, [Next]_vars PROVE LayoutInv'
  OBVIOUS
<1>1. CASE Next
  <2>1. torn = FALSE
    BY <1>1, WholeYet DEF LayoutInv
  <2>2. (torn' = FALSE /\ Sane') \/ (torn' = TRUE /\ Loose')
    BY <1>1, <2>1, StepKeeps DEF LayoutInv
  <2>3. torn' \in BOOLEAN
    BY <2>2
  <2>4. Sane' => Loose'
    BY DEF Sane, Loose, HistInv, Places, Good, Latest
  <2> QED
    BY <2>2, <2>3, <2>4 DEF LayoutInv
<1>2. CASE UNCHANGED vars
  <2>1. Loose'
    BY <1>2 DEF vars, screenVars, LayoutInv, Loose, Screened, Typed, Held
  <2>2. Sane => Sane'
    BY <1>2, NothingMoved, ClientStays DEF vars, screenVars, Sane
  <2> QED
    BY <1>2, <2>1, <2>2 DEF vars, LayoutInv
<1> QED
  BY <1>1, <1>2

(* LayoutInv is inductive, swaps across screens and their undo included.   *)
THEOREM LayoutInvariant == Spec => []LayoutInv
BY InitHolds, InvariantKept, PTL DEF Spec

(* Type correctness; in particular no history exceeds LAYOUT_UNDO_LIMIT.   *)
THEOREM TypeCorrect == Spec => []TypeOK
<1>1. LayoutInv => TypeOK
  <2> SUFFICES ASSUME LayoutInv PROVE TypeOK
    OBVIOUS
  <2>1. \A c \in Clients : client[c].step \in Steps
    BY DEF LayoutInv, Loose, Held, Sound, Idle, Waiting, Closed, Steps
  <2> QED
    BY <2>1 DEF LayoutInv, Loose, Screened, Latest, Typed, TypeOK
<1> QED
  BY <1>1, LayoutInvariant, PTL

(* Undone to any depth without undoing a swap across screens, a screen     *)
(* shows its panes of now without those created since (undo_layout and its *)
(* plain twin of mux.rs).                                                  *)
THEOREM UndoIsSafe == Spec => []UndoKeepsPanes
<1>1. LayoutInv => UndoKeepsPanes
  BY DEF LayoutInv, Sane, HistInv, Good, Chain, UndoKeepsPanes
<1> QED
  BY <1>1, LayoutInvariant, PTL

(* The latest entry is the one the revision stands at: every bump that is  *)
(* no change of its own is carried into it.                                *)
THEOREM LatestStaysUndoable == Spec => []LatestIsUndoable
<1>1. LayoutInv => LatestIsUndoable
  BY DEF LayoutInv, Loose, Latest, LatestIsUndoable
<1> QED
  BY <1>1, LayoutInvariant, PTL

(* A pane is on one screen, and lives exactly as long as it has tabs,      *)
(* until one half of a swap across screens is undone.                      *)
THEOREM PanesHavePlaces == Spec => []EveryPaneHasItsPlace
<1>1. LayoutInv => EveryPaneHasItsPlace
  BY DEF LayoutInv, Sane, Places, Apart, Filled, EveryPaneHasItsPlace
<1> QED
  BY <1>1, LayoutInvariant, PTL

(* What an undo confirmed with a token closes is what its client was shown. *)
THEOREM TokensAreTrue == Spec => []TokenClosesWhatItShowed
<1>1. LayoutInv => TokenClosesWhatItShowed
  <2> SUFFICES ASSUME LayoutInv, NEW c \in Clients,
                      client[c].step = "done", client[c].by = "token"
               PROVE  client[c].closed
                        = UNION {client[c].shown[p] : p \in DOMAIN client[c].shown}
    BY DEF TokenClosesWhatItShowed
  <2>1. Sound(client[c]) /\ client[c] # Idle /\ client[c] \notin Waiting
    BY DEF LayoutInv, Loose, Held, Idle, Waiting
  <2> QED
    BY <2>1 DEF Sound
<1> QED
  BY <1>1, LayoutInvariant, PTL
=============================================================================
