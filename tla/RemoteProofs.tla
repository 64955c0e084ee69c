---------------------------- MODULE RemoteProofs ----------------------------
(***************************************************************************)
(* What holds of the clients that are not local.                           *)
(*                                                                         *)
(* RemoteTree, for all capacities, retries and numbers of changes: a quiet *)
(* screen shows what the daemon has, and trees come in their order.  The   *)
(* proof of a step has two halves: StepDoes says what a step does in terms *)
(* of the invariant, and the Keeps lemmas that it is thereby kept.         *)
(*                                                                         *)
(* Pairing, for all peers, limits and numbers of requests: a request is    *)
(* resolved once, credentials are what was approved, and peers stay within *)
(* their limits.  None of it depends on the TUI: whatever request its      *)
(* dialog is about, an answer settles only one that is live.               *)
(***************************************************************************)
EXTENDS Pairing, RemoteTree, FiniteSetTheorems, SequenceTheorems, TLAPS

(***************************************************************************)
(* The remote copy.  The inductive invariant: what the screen lacks is on  *)
(* its way, asked for, marked, or given up.                                *)
(***************************************************************************)
Has(events, kind) == \E i \in 1..Len(events) : events[i].kind = kind
\* The last title in a queue, if there is one.
Newest(events, title) ==
  \A i \in 1..Len(events) :
    (/\ events[i].kind = "title"
     /\ \A j \in (i + 1)..Len(events) : events[j].kind # "title") =>
      events[i].title = title

Jobs == [seq : Nat, identity : BOOLEAN,
         at : {"waiting", "asked", "answered", "done", "free"},
         gen : Nat, tree : Nat, title : Nat, ok : BOOLEAN]
Streamed == [kind : {"tree", "layout", "title"}, title : Nat]
Messages == Streamed \cup [kind : {"titles", "committed"}]
              \cup [kind : {"refreshed"}, job : Jobs]

Clients == [stale : BOOLEAN, queued : BOOLEAN, dirty : BOOLEAN,
            seq : Nat, jobs : SUBSET Jobs]
Boxes(states) == [events : Seq(Streamed), state : states]

\* Until the first recovery the forwarder has nothing to drain.
Typed ==
  /\ server \in [tree : Nat, title : Nat]
  /\ stream \in Boxes({"open", "overflowed", "told"})
  /\ cache \in [tree : Nat, title : Nat, gen : Nat,
                late : [gen : Nat, title : Nat]]
  /\ recovery \in [at : {"idle", "asking", "answered"}, again : BOOLEAN]
  /\ local \in Boxes({"open", "overflowed"})
  /\ forwarder = [at |-> "run", backlog |-> <<>>]
  /\ ingress \in [title : Nat, dirty : BOOLEAN, wake : BOOLEAN]
  /\ barrier = [now |-> 0, last |-> 0]
  /\ chan \in Seq(Messages)
  /\ client \in Clients
  /\ app \in [tree : Nat, title : Nat, seq : Nat, layout : Nat,
              attempts : 0..BackgroundRetries, retry : BOOLEAN]
  /\ spent \in [mutations : Nat, failures : Nat, inputs : Nat, lost : BOOLEAN]

\* Refreshes whose result has been sent, and those still due.
SentIn(messages) ==
  {messages[i].job :
     i \in {k \in 1..Len(messages) : messages[k].kind = "refreshed"}}
Sent == SentIn(chan)
Due == client.jobs \cup Sent
Owing == client.seq > Forwarder /\ client.seq > app.seq

(* The claim: one refresh at most is not over, the last one; an older one  *)
(* only waits for its result to be sent or taken.                          *)
OneClaim ==
  /\ client.seq >= Forwarder /\ app.seq <= client.seq
  /\ \A j \in Due : Forwarder < j.seq /\ j.seq <= client.seq
  /\ \A j \in Sent : j.at = "free"
  /\ \A j \in client.jobs : j.at # "free" =>
       /\ client.queued /\ j.seq = client.seq /\ app.seq < j.seq
       /\ \A k \in Due : k.seq = j.seq => k = j
  /\ client.queued => \E j \in client.jobs : j.at # "free"
  /\ Owing => \E j \in Due : j.seq = client.seq

(* Trees in the order of the refreshes: what a refresh brings is no older  *)
(* than what an earlier one brought, and no older than the application's.  *)
Ended(j) == j.at \in {"done", "free"}
Took(j) == j.at = "answered" \/ j.ok
TreesInOrder ==
  /\ 1 <= app.tree /\ app.tree <= cache.tree /\ cache.tree <= server.tree
  /\ \A j \in Due :
       /\ j.ok => Ended(j)
       /\ Ended(j) => j.ok \/ spent.failures > 0
       /\ j.at = "answered" => cache.tree <= j.tree /\ j.tree <= server.tree
       /\ j.ok => /\ 1 <= j.tree /\ j.tree <= cache.tree
                  /\ j.seq = client.seq => j.tree = cache.tree
                  /\ app.seq < j.seq => app.tree <= j.tree
  /\ \A i, j \in Due : i.ok /\ j.ok /\ i.seq < j.seq => i.tree <= j.tree

(* Every title anywhere is one the daemon has given, and a tree without    *)
(* the tab has none.                                                       *)
TitlesAmong(events, titles) ==
  \A i \in 1..Len(events) : events[i].kind = "title" => events[i].title \in titles
Known == 1..server.title
Named(tree, title) == IF HasTab(tree) THEN title \in Known ELSE title = NoTitle
TitlesShown ==
  /\ Named(server.tree, server.title)
  /\ Named(cache.tree, cache.title) /\ Named(app.tree, app.title)
TitlesTaken ==
  \A j \in Due : j.gen <= cache.gen /\ (Took(j) => Named(j.tree, j.title))
TitlesOnTheWay ==
  /\ TitlesAmong(stream.events, Known) /\ TitlesAmong(local.events, Known)
  /\ ingress.title # NoTitle => ingress.title \in Known
  /\ cache.late.gen <= cache.gen
  /\ cache.late.gen > 0 => cache.late.title \in Known
LastTitleOnTheWay == stream.state = "open" => Newest(stream.events, server.title)
TitlesAreKnown ==
  TitlesShown /\ TitlesTaken /\ TitlesOnTheWay /\ LastTitleOnTheWay

(* A title the ingress holds is shown, or a wake-up for it is under way.   *)
IngressShows ==
  /\ ingress.dirty => ingress.wake /\ ingress.title # NoTitle
  /\ ingress.wake => Has(chan, "titles")
  /\ HasTab(app.tree) /\ ingress.title # NoTitle /\ ~ingress.dirty =>
       app.title = ingress.title

(* Who has been told of an overflow subscribes again.                      *)
RecoveryRuns ==
  /\ recovery.at # "idle" => spent.lost
  /\ stream.state = "told" =>
       \/ recovery.at = "asking"
       \/ recovery.at = "answered" /\ recovery.again

(* As long as nothing is lost: once every event is read and no mark is     *)
(* left, the last refresh brings the tree of the daemon, or has failed and *)
(* is retried; and the cache and the ingress have the last title.          *)
Changes(events) == Has(events, "tree") \/ Has(events, "layout")
Current(j) ==
  \/ j.at \in {"waiting", "asked"}
  \/ Took(j) /\ j.tree = server.tree
FailedBackground(j) == Ended(j) /\ ~j.ok /\ ~j.identity

Whole == ~spent.lost /\ stream.state = "open"
WholeTree ==
  Whole /\ ~Changes(stream.events) /\ ~client.stale =>
    /\ \A j \in Due : Owing /\ j.seq = client.seq =>
         Current(j) \/ FailedBackground(j)
    /\ \/ Owing \/ app.retry \/ app.attempts = BackgroundRetries
       \/ app.tree = server.tree
WholeTitle ==
  Whole /\ ~Has(stream.events, "title") =>
    /\ HasTab(cache.tree) => cache.title = server.title
    /\ cache.late.gen > 0 => cache.late.title = server.title
    /\ \A j \in Due :
         j.at = "answered" /\ HasTab(j.tree) /\ cache.late.gen <= j.gen =>
           j.title = server.title
    /\ local.state = "open" =>
         /\ Newest(local.events, server.title)
         /\ \/ Has(local.events, "title")
            \/ ingress.title = server.title
            \/ ingress.title = NoTitle /\ server.title <= 1

(* As long as no refresh fails, lost events or not: whatever the last      *)
(* refresh lacks, some event, wake-up or mark tells of.                    *)
News ==
  \/ Changes(stream.events) \/ stream.state # "open" \/ recovery.at # "idle"
  \/ Has(local.events, "tree") \/ Has(chan, "tree")
Marked == News \/ client.stale \/ client.dirty
Told ==
  \/ News
  \/ client.stale /\ (Has(local.events, "layout") \/ Has(chan, "layout"))
Carries == Has(local.events, "title") \/ ingress.title # NoTitle
Good(j) ==
  CASE j.at = "waiting" -> TRUE
    [] j.at = "asked" -> cache.late.gen > j.gen => cache.late.title = server.title
    [] j.at = "answered" ->
         IF cache.late.gen > j.gen /\ HasTab(j.tree)
         THEN cache.late.title = server.title ELSE j.title = server.title
    [] OTHER -> cache.title = server.title /\ (j.title = server.title \/ Carries)
Unfailing == spent.failures = 0 /\ local.state = "open"
TreeAsked ==
  Unfailing => IF Owing
    THEN Marked \/ \A j \in Due : j.seq = client.seq => Current(j)
    ELSE Told \/ app.tree = server.tree
TitleAsked ==
  Unfailing /\ ~Has(stream.events, "title") => IF Owing
    THEN Marked \/ \A j \in Due : j.seq = client.seq => Good(j)
    ELSE \/ Told
         \/ /\ cache.title = server.title
            /\ app.title = server.title \/ Carries

ScreenInv ==
  barrier.last = 0 =>
    /\ Typed /\ OneClaim /\ TreesInOrder /\ TitlesAreKnown
    /\ IngressShows /\ RecoveryRuns
    /\ WholeTree /\ WholeTitle /\ TreeAsked /\ TitleAsked

-----------------------------------------------------------------------------
(* The queues.                                                             *)

(* An event added to a queue, and one taken from it.                       *)
LEMMA AppendHas ==
  ASSUME NEW S, NEW s \in Seq(S), NEW e \in S, NEW kind
  PROVE  /\ Append(s, e) \in Seq(S)
         /\ Has(Append(s, e), kind) <=> Has(s, kind) \/ e.kind = kind
<1>1. /\ Append(s, e) \in Seq(S) /\ Len(Append(s, e)) = Len(s) + 1
      /\ Len(s) \in Nat /\ Append(s, e)[Len(s) + 1] = e
      /\ \A i \in 1..Len(s) : Append(s, e)[i] = s[i]
  OBVIOUS
<1>2. 1..(Len(s) + 1) = 1..Len(s) \cup {Len(s) + 1}
  BY <1>1
<1> QED
  BY <1>1, <1>2 DEF Has

LEMMA TailHas ==
  ASSUME NEW S, NEW s \in Seq(S), s # <<>>, NEW kind
  PROVE  /\ Tail(s) \in Seq(S) /\ Head(s) \in S /\ Len(Tail(s)) = Len(s) - 1
         /\ \A i \in 1..(Len(s) - 1) : Tail(s)[i] = s[i + 1]
         /\ Len(s) \in Nat \ {0} /\ Head(s) = s[1]
         /\ Has(s, kind) <=> Head(s).kind = kind \/ Has(Tail(s), kind)
<1>1. /\ Tail(s) \in Seq(S) /\ Head(s) \in S /\ Len(Tail(s)) = Len(s) - 1
      /\ \A i \in 1..(Len(s) - 1) : Tail(s)[i] = s[i + 1]
      /\ Len(s) \in Nat \ {0} /\ Head(s) = s[1]
  OBVIOUS
<1>2. ASSUME NEW i \in 1..Len(s), s[i].kind = kind
      PROVE  Head(s).kind = kind \/ Has(Tail(s), kind)
  <2>1. CASE i = 1
    BY <1>1, <1>2, <2>1
  <2>2. CASE i # 1
    <3>1. i - 1 \in 1..(Len(s) - 1) /\ Tail(s)[i - 1] = s[i]
      BY <1>1, <1>2, <2>2
    <3> QED
      BY <1>1, <1>2, <3>1 DEF Has
  <2> QED
    BY <2>1, <2>2
<1>3. ASSUME NEW i \in 1..(Len(s) - 1), Tail(s)[i].kind = kind
      PROVE  Has(s, kind)
  <2>1. i + 1 \in 1..Len(s) /\ s[i + 1] = Tail(s)[i]
    BY <1>1
  <2> QED
    BY <1>3, <2>1 DEF Has
<1>4. Head(s).kind = kind => Has(s, kind)
  BY <1>1 DEF Has
<1> QED
  BY <1>1, <1>2, <1>3, <1>4 DEF Has

(* Removing a title leaves the other events.                               *)
LEMMA RemovedHas ==
  ASSUME NEW S, NEW s \in Seq(S), NEW n \in 1..Len(s), s[n].kind = "title"
  PROVE  /\ RemoveAt(s, n) \in Seq(S)
         /\ \A i \in 1..Len(RemoveAt(s, n)) :
              \E j \in 1..Len(s) : RemoveAt(s, n)[i] = s[j]
         /\ \A j \in 1..Len(s) : s[j].kind # "title" =>
              \E i \in 1..Len(RemoveAt(s, n)) : RemoveAt(s, n)[i] = s[j]
<1> DEFINE r == RemoveAt(s, n)
<1> DEFINE a == SubSeq(s, 1, n - 1)
           b == SubSeq(s, n + 1, Len(s))
<1>0. Len(s) \in Nat /\ \A k \in 1..Len(s) : s[k] \in S
  BY LenProperties, ElementOfSeq
<1>a. /\ a \in Seq(S) /\ Len(a) = n - 1
      /\ \A k \in 1..n - 1 : a[k] = s[k]
  <2>1. n - 1 \in Int /\ \A k \in 1..n - 1 : s[k] \in S
    BY <1>0
  <2>2. /\ a \in Seq(S) /\ Len(a) = IF 1 <= n - 1 THEN n - 1 - 1 + 1 ELSE 0
        /\ \A k \in 1..n - 1 - 1 + 1 : a[k] = s[1 + k - 1]
    BY <2>1, SubSeqProperties
  <2> QED
    BY <2>2, <1>0
<1>b. /\ b \in Seq(S) /\ Len(b) = Len(s) - n
      /\ \A k \in 1..Len(s) - n : b[k] = s[k + n]
  <2>1. /\ n + 1 \in Int /\ Len(s) \in Int
        /\ \A k \in n + 1..Len(s) : s[k] \in S
    BY <1>0
  <2>2. /\ b \in Seq(S)
        /\ Len(b) = IF n + 1 <= Len(s) THEN Len(s) - (n + 1) + 1 ELSE 0
        /\ \A k \in 1..Len(s) - (n + 1) + 1 : b[k] = s[n + 1 + k - 1]
    BY <2>1, SubSeqProperties
  <2> QED
    BY <2>2, <1>0
<1>c. r = a \o b
  BY DEF RemoveAt
<1> HIDE DEF r, a, b
<1>1. /\ r \in Seq(S) /\ Len(r) = Len(s) - 1 /\ Len(s) \in Nat
      /\ \A i \in 1..(Len(s) - 1) : r[i] = IF i < n THEN s[i] ELSE s[i + 1]
  <2>1. /\ r \in Seq(S) /\ Len(r) = Len(a) + Len(b)
        /\ \A k \in 1..Len(a) + Len(b) :
             r[k] = IF k <= Len(a) THEN a[k] ELSE b[k - Len(a)]
    BY <1>a, <1>b, <1>c, ConcatProperties
  <2>2. Len(r) = Len(s) - 1
    BY <1>0, <1>a, <1>b, <2>1
  <2>3. ASSUME NEW k \in 1..(Len(s) - 1)
        PROVE  r[k] = IF k < n THEN s[k] ELSE s[k + 1]
    <3>1. CASE k < n
      <4>1. k \in 1..Len(a) /\ k \in 1..(n - 1) /\ k \in 1..Len(a) + Len(b)
        BY <1>0, <1>a, <1>b, <3>1
      <4>2. r[k] = a[k] /\ a[k] = s[k]
        BY <1>a, <2>1, <4>1
      <4> QED
        BY <3>1, <4>2
    <3>2. CASE ~(k < n)
      <4>1. k - (n - 1) \in 1..Len(s) - n /\ k - (n - 1) + n = k + 1
        BY <1>0, <3>2
      <4>2. k \in 1..Len(a) + Len(b) /\ ~(k <= Len(a)) /\ Len(a) = n - 1
        BY <1>0, <1>a, <1>b, <3>2
      <4>3. r[k] = b[k - (n - 1)]
        BY <2>1, <4>2
      <4> QED
        BY <1>b, <3>2, <4>1, <4>3
    <3> QED
      BY <3>1, <3>2
  <2> QED
    BY <1>0, <2>1, <2>2, <2>3
<1>2. ASSUME NEW i \in 1..Len(r)
      PROVE  \E j \in 1..Len(s) : r[i] = s[j]
  BY <1>1
<1>3. ASSUME NEW j \in 1..Len(s), s[j].kind # "title"
      PROVE  \E i \in 1..Len(r) : r[i] = s[j]
  <2>1. j # n
    BY <1>3
  <2>2. CASE j < n
    BY <1>1, <2>2
  <2>3. CASE j > n
    <3>1. j - 1 \in 1..Len(r) /\ r[j - 1] = s[j]
      BY <1>1, <2>3
    <3> QED
      BY <3>1
  <2> QED
    BY <2>1, <2>2, <2>3
<1> QED
  BY <1>1, <1>2, <1>3 DEF r

(* The newest title of a queue to which an event is added.                 *)
LEMMA AppendNewest ==
  ASSUME NEW S, NEW s \in Seq(S), NEW e \in S, NEW title
  PROVE  /\ e.kind = "title" => Newest(Append(s, e), e.title)
         /\ e.kind # "title" /\ Newest(s, title) => Newest(Append(s, e), title)
<1>1. /\ Len(Append(s, e)) = Len(s) + 1
      /\ Len(s) \in Nat /\ Append(s, e)[Len(s) + 1] = e
      /\ \A i \in 1..Len(s) : Append(s, e)[i] = s[i]
  OBVIOUS
<1>2. ASSUME e.kind = "title" PROVE Newest(Append(s, e), e.title)
  <2> SUFFICES ASSUME NEW i \in 1..(Len(s) + 1),
                      \A j \in (i + 1)..(Len(s) + 1) :
                        Append(s, e)[j].kind # "title"
               PROVE  Append(s, e)[i].title = e.title
    BY <1>1 DEF Newest
  <2>1. CASE i = Len(s) + 1
    BY <1>1, <2>1
  <2>2. CASE i # Len(s) + 1
    <3>1. Len(s) + 1 \in (i + 1)..(Len(s) + 1)
      BY <1>1, <2>2
    <3> QED
      BY <1>1, <1>2, <3>1
  <2> QED
    BY <2>1, <2>2
<1>3. ASSUME e.kind # "title", Newest(s, title)
      PROVE  Newest(Append(s, e), title)
  <2> SUFFICES ASSUME NEW i \in 1..(Len(s) + 1),
                      Append(s, e)[i].kind = "title",
                      \A j \in (i + 1)..(Len(s) + 1) :
                        Append(s, e)[j].kind # "title"
               PROVE  Append(s, e)[i].title = title
    BY <1>1 DEF Newest
  <2>1. i \in 1..Len(s)
    BY <1>1, <1>3
  <2>2. \A j \in (i + 1)..Len(s) :
          j \in (i + 1)..(Len(s) + 1) /\ Append(s, e)[j] = s[j]
    BY <1>1, <2>1
  <2> QED
    BY <1>1, <1>3, <2>1, <2>2 DEF Newest
<1> QED
  BY <1>2, <1>3

LEMMA TailNewest ==
  ASSUME NEW S, NEW s \in Seq(S), s # <<>>, NEW title, Newest(s, title)
  PROVE  /\ Newest(Tail(s), title)
         /\ Head(s).kind = "title" /\ ~Has(Tail(s), "title") =>
              Head(s).title = title
<1>1. /\ Len(Tail(s)) = Len(s) - 1 /\ Len(s) \in Nat \ {0} /\ Head(s) = s[1]
      /\ \A i \in 1..(Len(s) - 1) : Tail(s)[i] = s[i + 1]
  OBVIOUS
<1>2. ASSUME NEW i \in 1..(Len(s) - 1), Tail(s)[i].kind = "title",
             \A j \in (i + 1)..(Len(s) - 1) : Tail(s)[j].kind # "title"
      PROVE  Tail(s)[i].title = title
  <2>1. i + 1 \in 1..Len(s) /\ s[i + 1] = Tail(s)[i]
    BY <1>1
  <2>2. ASSUME NEW j \in (i + 2)..Len(s) PROVE s[j].kind # "title"
    <3>1. j - 1 \in (i + 1)..(Len(s) - 1) /\ j - 1 \in 1..(Len(s) - 1)
          /\ (j - 1) + 1 = j
      BY <1>1, <2>2
    <3> QED
      BY <1>1, <1>2, <3>1
  <2> QED
    BY <1>2, <2>1, <2>2 DEF Newest
<1>3. ASSUME s[1].kind = "title", ~Has(Tail(s), "title")
      PROVE  s[1].title = title
  <2>1. ASSUME NEW j \in 2..Len(s) PROVE s[j].kind # "title"
    <3>1. j - 1 \in 1..(Len(s) - 1) /\ (j - 1) + 1 = j
      BY <1>1, <2>1
    <3> QED
      BY <1>1, <1>3, <3>1 DEF Has
  <2> QED
    BY <1>1, <1>3, <2>1 DEF Newest
<1> QED
  BY <1>1, <1>2, <1>3 DEF Newest

(* What a mailbox holds after an event: everything but a title it replaces *)
(* and the event itself.                                                   *)
Added(older, new, event) ==
  /\ \A kind \in {"tree", "layout"} :
       Has(new, kind) <=> Has(older, kind) \/ event.kind = kind
  /\ Has(new, "title") <=> Has(older, "title") \/ event.kind = "title"
  /\ event.kind = "title" => Newest(new, event.title)
  /\ event.kind # "title" =>
       \A title \in Nat : Newest(older, title) => Newest(new, title)
  /\ \A i \in 1..Len(new) :
       new[i] = event \/ \E j \in 1..Len(older) : new[i] = older[j]

(* Mailboxes: what is posted comes last, and only an older title goes.     *)
LEMMA PlainAdds ==
  ASSUME NEW s \in Seq(Streamed), NEW e \in Streamed
  PROVE  Append(s, e) \in Seq(Streamed) /\ Added(s, Append(s, e), e)
<1>1. \A i \in 1..Len(Append(s, e)) :
        Append(s, e)[i] = e \/ \E j \in 1..Len(s) : Append(s, e)[i] = s[j]
  OBVIOUS
<1> QED
  BY <1>1, AppendHas, AppendNewest DEF Added

LEMMA ReplacingAdds ==
  ASSUME NEW s \in Seq(Streamed), NEW e \in Streamed, e.kind = "title",
         NEW n \in 1..Len(s), s[n].kind = "title"
  PROVE  /\ Append(RemoveAt(s, n), e) \in Seq(Streamed)
         /\ Added(s, Append(RemoveAt(s, n), e), e)
<1> DEFINE r == RemoveAt(s, n)
<1>1. /\ r \in Seq(Streamed)
      /\ \A i \in 1..Len(r) : \E j \in 1..Len(s) : r[i] = s[j]
      /\ \A j \in 1..Len(s) : s[j].kind # "title" =>
           \E i \in 1..Len(r) : r[i] = s[j]
  BY RemovedHas
<1>2. \A kind \in {"tree", "layout"} : Has(r, kind) <=> Has(s, kind)
  BY <1>1 DEF Has
<1>3. Has(s, "title")
  BY DEF Has
<1> HIDE DEF r
<1>4. Append(r, e) \in Seq(Streamed) /\ Added(r, Append(r, e), e)
  BY <1>1, PlainAdds
<1>5. \A i \in 1..Len(Append(r, e)) :
        \/ Append(r, e)[i] = e
        \/ \E j \in 1..Len(s) : Append(r, e)[i] = s[j]
  BY <1>1, <1>4 DEF Added
<1>6. Append(r, e) \in Seq(Streamed) /\ Added(s, Append(r, e), e)
  BY <1>2, <1>3, <1>4, <1>5 DEF Added
<1> QED
  BY <1>6 DEF r

(* A mailbox after a push: it is closed, or it took the event.             *)
Accepted(box, after, event) ==
  \/ box.state # "open" /\ after = box
  \/ /\ box.state = "open" /\ after.state = "overflowed"
     /\ after.events = box.events
  \/ /\ box.state = "open" /\ after.state = "open"
     /\ Added(box.events, after.events, event)

LEMMA PushedBox ==
  ASSUME NEW states, {"open", "overflowed"} \subseteq states,
         NEW box \in Boxes(states), NEW e \in Streamed, NEW others \in Seq(Streamed),
         NEW capacity, Added(box.events, Append(others, e), e)
  PROVE  /\ Pushed(box, others, e, capacity) \in Boxes(states)
         /\ Accepted(box, Pushed(box, others, e, capacity), e)
<1> DEFINE after == Pushed(box, others, e, capacity)
<1>1. box.events \in Seq(Streamed) /\ box.state \in states
  BY DEF Boxes
<1>2. CASE box.state # "open"
  BY <1>2 DEF Pushed, Accepted
<1>3. CASE box.state = "open" /\ Len(others) < capacity
  <2>1. after = [box EXCEPT !.events = Append(others, e)]
    BY <1>3 DEF Pushed
  <2>2. Append(others, e) \in Seq(Streamed)
    OBVIOUS
  <2> HIDE DEF after
  <2>3. /\ after \in Boxes(states) /\ after.state = "open"
        /\ after.events = Append(others, e)
    BY <1>1, <1>3, <2>1, <2>2 DEF Boxes
  <2> QED
    BY <1>3, <2>3 DEF Accepted, after
<1>4. CASE box.state = "open" /\ ~(Len(others) < capacity)
  <2>1. after = [box EXCEPT !.state = "overflowed"]
    BY <1>4 DEF Pushed
  <2>2. /\ after \in Boxes(states) /\ after.state = "overflowed"
        /\ after.events = box.events
    BY <1>1, <2>1 DEF Boxes
  <2> QED
    BY <1>4, <2>2 DEF Accepted
<1> QED
  BY <1>2, <1>3, <1>4

LEMMA PostedBox ==
  ASSUME NEW box \in Boxes({"open", "overflowed"}), NEW e \in Streamed
  PROVE  /\ Posted(box, e) \in Boxes({"open", "overflowed"})
         /\ Accepted(box, Posted(box, e), e)
<1> DEFINE waits == e.kind = "title" /\ TitlesIn(box.events) # {}
           n == CHOOSE i \in TitlesIn(box.events) : TRUE
<1>1. box.events \in Seq(Streamed)
  BY DEF Boxes
<1>2. CASE waits
  <2>1. n \in 1..Len(box.events) /\ box.events[n].kind = "title"
    BY <1>1, <1>2 DEF TitlesIn
  <2>2. RemoveAt(box.events, n) \in Seq(Streamed)
    BY <1>1, <2>1, RemovedHas
  <2>3. Added(box.events, Append(RemoveAt(box.events, n), e), e)
    BY <1>1, <1>2, <2>1, ReplacingAdds
  <2>4. Posted(box, e)
          = Pushed(box, RemoveAt(box.events, n), e, LocalCapacity)
    BY <1>2 DEF Posted
  <2> HIDE DEF n
  <2> QED
    BY <2>2, <2>3, <2>4, PushedBox
<1>3. CASE ~waits
  <2>1. Posted(box, e) = Pushed(box, box.events, e, LocalCapacity)
    BY <1>3 DEF Posted
  <2> QED
    BY <1>1, <2>1, PlainAdds, PushedBox
<1> QED
  BY <1>2, <1>3

LEMMA PublishedBox ==
  ASSUME stream \in Boxes({"open", "overflowed", "told"}), NEW e \in Streamed,
         Publish(e)
  PROVE  /\ stream' \in Boxes({"open", "overflowed", "told"})
         /\ Accepted(stream, stream', e)
<1>1. stream.events \in Seq(Streamed)
  BY DEF Boxes
<1>2. CASE stream' = Pushed(stream, stream.events, e, MailCapacity)
  BY <1>1, <1>2, PlainAdds, PushedBox
<1>3. ASSUME e.kind = "title", NEW n \in TitlesIn(stream.events),
             stream' = Pushed(stream, RemoveAt(stream.events, n), e, MailCapacity)
      PROVE  /\ stream' \in Boxes({"open", "overflowed", "told"})
             /\ Accepted(stream, stream', e)
  <2>1. n \in 1..Len(stream.events) /\ stream.events[n].kind = "title"
    BY <1>1 DEF TitlesIn
  <2>2. /\ RemoveAt(stream.events, n) \in Seq(Streamed)
        /\ Added(stream.events, Append(RemoveAt(stream.events, n), e), e)
    BY <1>1, <1>3, <2>1, RemovedHas, ReplacingAdds
  <2> QED
    BY <1>3, <2>2, PushedBox
<1> QED
  BY <1>2, <1>3 DEF Publish

-----------------------------------------------------------------------------
(* The channel and the refreshes.                                          *)

(* Results in the channel to the application.                              *)
LEMMA SentJobs ==
  ASSUME NEW s \in Seq(Messages)
  PROVE  SentIn(s) \subseteq Jobs
<1> SUFFICES ASSUME NEW i \in 1..Len(s), s[i].kind = "refreshed"
             PROVE  s[i].job \in Jobs
  BY DEF SentIn
<1>1. s[i] \in Messages
  OBVIOUS
<1>2. s[i] \in [kind : {"refreshed"}, job : Jobs]
  BY <1>1 DEF Messages, Streamed
<1> QED
  BY <1>2

LEMMA AppendSent ==
  ASSUME NEW s \in Seq(Messages), NEW m \in Messages
  PROVE  /\ m.kind # "refreshed" => SentIn(Append(s, m)) = SentIn(s)
         /\ m.kind = "refreshed" => SentIn(Append(s, m)) = SentIn(s) \cup {m.job}
<1>1. /\ Len(Append(s, m)) = Len(s) + 1
      /\ Len(s) \in Nat /\ Append(s, m)[Len(s) + 1] = m
      /\ \A i \in 1..Len(s) : Append(s, m)[i] = s[i]
  OBVIOUS
<1>2. 1..(Len(s) + 1) = 1..Len(s) \cup {Len(s) + 1}
  BY <1>1
<1>3. ASSUME NEW j \in SentIn(s) PROVE j \in SentIn(Append(s, m))
  BY <1>1, <1>2, <1>3 DEF SentIn
<1>4. ASSUME NEW j \in SentIn(Append(s, m))
      PROVE  j \in SentIn(s) \/ (m.kind = "refreshed" /\ j = m.job)
  <2>1. PICK i \in 1..Len(Append(s, m)) :
          Append(s, m)[i].kind = "refreshed" /\ j = Append(s, m)[i].job
    BY <1>4 DEF SentIn
  <2>2. CASE i \in 1..Len(s)
    BY <1>1, <2>1, <2>2 DEF SentIn
  <2>3. CASE i = Len(s) + 1
    BY <1>1, <2>1, <2>3
  <2> QED
    BY <1>1, <1>2, <2>1, <2>2, <2>3
<1>5. m.kind = "refreshed" => m.job \in SentIn(Append(s, m))
  BY <1>1, <1>2 DEF SentIn
<1> QED
  BY <1>3, <1>4, <1>5

LEMMA TailSent ==
  ASSUME NEW s \in Seq(Messages), s # <<>>
  PROVE  /\ SentIn(Tail(s)) \subseteq SentIn(s)
         /\ Head(s).kind # "refreshed" => SentIn(Tail(s)) = SentIn(s)
         /\ Head(s).kind = "refreshed" =>
              /\ Head(s).job \in SentIn(s)
              /\ SentIn(s) \subseteq SentIn(Tail(s)) \cup {Head(s).job}
<1>1. /\ Len(Tail(s)) = Len(s) - 1 /\ Len(s) \in Nat \ {0} /\ Head(s) = s[1]
      /\ \A i \in 1..(Len(s) - 1) : Tail(s)[i] = s[i + 1]
  OBVIOUS
<1>2. ASSUME NEW i \in 1..(Len(s) - 1), Tail(s)[i].kind = "refreshed"
      PROVE  Tail(s)[i].job \in SentIn(s)
  <2>1. i + 1 \in 1..Len(s) /\ s[i + 1] = Tail(s)[i]
    BY <1>1
  <2> QED
    BY <1>2, <2>1 DEF SentIn
<1>3. ASSUME NEW i \in 1..Len(s), s[i].kind = "refreshed", i # 1
      PROVE  s[i].job \in SentIn(Tail(s))
  <2>1. i - 1 \in 1..Len(Tail(s)) /\ Tail(s)[i - 1] = s[i]
    BY <1>1, <1>3
  <2> QED
    BY <1>3, <2>1 DEF SentIn
<1>4. Head(s).kind = "refreshed" => Head(s).job \in SentIn(s)
  BY <1>1 DEF SentIn
<1>5. SentIn(Tail(s)) \subseteq SentIn(s)
  BY <1>1, <1>2 DEF SentIn
<1>6. \A i \in 1..Len(s) : s[i].kind = "refreshed" =>
        s[i].job \in SentIn(Tail(s)) \/ i = 1
  BY <1>3
<1>7. Head(s).kind # "refreshed" => SentIn(s) \subseteq SentIn(Tail(s))
  BY <1>1, <1>6 DEF SentIn
<1>8. Head(s).kind = "refreshed" =>
        SentIn(s) \subseteq SentIn(Tail(s)) \cup {Head(s).job}
  BY <1>1, <1>6 DEF SentIn
<1> QED
  BY <1>4, <1>5, <1>7, <1>8

(* What the application does to the claim and the marks: it starts a       *)
(* refresh, or leaves the refreshes alone.                                 *)
Starts(c, r) ==
  /\ ~c.queued /\ r.queued /\ r.seq = c.seq + 1
  /\ \E identity \in BOOLEAN : r.jobs = c.jobs \cup {Job(c.seq + 1, identity)}
Rests(c, r) == r.queued = c.queued /\ r.seq = c.seq /\ r.jobs = c.jobs

LEMMA JobType ==
  ASSUME NEW seq \in Nat, NEW identity \in BOOLEAN
  PROVE  /\ Job(seq, identity) \in Jobs /\ Job(seq, identity).seq = seq
         /\ Job(seq, identity).at = "waiting" /\ Job(seq, identity).gen = 0
         /\ Job(seq, identity).ok = FALSE
  BY DEF Job, Jobs, NoTitle

(* What the functions of the application do to the refreshes.              *)
LEMMA StartedMoves ==
  ASSUME NEW c \in Clients, NEW identity \in BOOLEAN, ~c.queued
  PROVE  /\ Started(c, identity) \in Clients /\ Starts(c, Started(c, identity))
         /\ Started(c, identity).stale = c.stale
         /\ Started(c, identity).dirty = c.dirty
<1> DEFINE r == Started(c, identity)
           job == Job(c.seq + 1, identity)
<1>1. c.seq + 1 \in Nat
  BY DEF Clients
<1>2. job \in Jobs
  BY <1>1, JobType
<1>3. r = [c EXCEPT !.queued = TRUE, !.seq = @ + 1, !.jobs = @ \cup {job}]
  BY DEF Started
<1> HIDE DEF r, job
<1>4. /\ r \in Clients /\ r.queued = TRUE /\ r.seq = c.seq + 1
      /\ r.jobs = c.jobs \cup {job} /\ r.stale = c.stale /\ r.dirty = c.dirty
  BY <1>1, <1>2, <1>3 DEF Clients
<1> QED
  BY <1>4 DEF Starts, r, job

LEMMA IfStaleMoves ==
  ASSUME NEW c \in Clients
  PROVE  /\ IfStale(c) \in Clients
         /\ IfStale(c).stale = c.stale /\ IfStale(c).dirty = c.dirty
         /\ c.stale /\ ~c.queued => Starts(c, IfStale(c))
         /\ ~(c.stale /\ ~c.queued) => IfStale(c) = c
<1>1. CASE c.stale /\ ~c.queued
  <2>1. IfStale(c) = Started(c, TRUE)
    BY <1>1 DEF IfStale
  <2> QED
    BY <1>1, <2>1, StartedMoves
<1>2. CASE ~(c.stale /\ ~c.queued)
  BY <1>2 DEF IfStale
<1> QED
  BY <1>1, <1>2

LEMMA BackgroundMoves ==
  ASSUME NEW c \in Clients
  PROVE  /\ Background(c) \in Clients /\ Background(c).stale = c.stale
         /\ ~c.queued => Starts(c, Background(c))
         /\ c.queued => Rests(c, Background(c)) /\ Background(c).dirty
<1>1. CASE c.queued
  <2>1. Background(c) = [c EXCEPT !.dirty = TRUE]
    BY <1>1 DEF Background
  <2> QED
    BY <1>1, <2>1 DEF Clients, Rests
<1>2. CASE ~c.queued
  <2>1. Background(c) = Started(c, FALSE)
    BY <1>2 DEF Background
  <2> QED
    BY <1>2, <2>1, StartedMoves
<1> QED
  BY <1>1, <1>2

LEMMA CompletedMoves ==
  ASSUME NEW c \in Clients, NEW all \in BOOLEAN
  PROVE  /\ Completed(c, all) \in Clients /\ Completed(c, all).stale = c.stale
         /\ \/ Starts(c, Completed(c, all))
            \/ /\ Rests(c, Completed(c, all))
               /\ c.queued \/ (~c.dirty /\ (all => ~c.stale))
               /\ c.dirty => c.stale \/ Completed(c, all).dirty
<1> DEFINE r == Completed(c, all)
           taken == [c EXCEPT !.dirty = FALSE]
<1>1. /\ taken \in Clients /\ taken.stale = c.stale /\ taken.queued = c.queued
      /\ taken.seq = c.seq /\ taken.jobs = c.jobs /\ taken.dirty = FALSE
  BY DEF Clients
<1>2. \A x : Starts(taken, x) <=> Starts(c, x)
  BY <1>1 DEF Starts
<1>3. \A x : Rests(taken, x) <=> Rests(c, x)
  BY <1>1 DEF Rests
<1>4. Rests(taken, taken)
  BY DEF Rests
<1>5. CASE c.stale /\ (all \/ c.dirty)
  <2>1. r = IfStale(taken)
    BY <1>5 DEF Completed
  <2> HIDE DEF r, taken
  <2>2. r \in Clients /\ r.stale = c.stale
    BY <1>1, <2>1, IfStaleMoves
  <2>3. CASE c.queued
    <3>1. r = taken
      BY <1>1, <2>1, <2>3, IfStaleMoves
    <3>2. Rests(c, r)
      BY <1>3, <1>4, <3>1
    <3> QED
      BY <1>5, <2>2, <2>3, <3>2 DEF r
  <2>4. CASE ~c.queued
    <3>1. Starts(taken, r)
      BY <1>1, <1>5, <2>1, <2>4, IfStaleMoves
    <3> QED
      BY <1>2, <2>2, <3>1 DEF r
  <2> QED
    BY <2>3, <2>4
<1>6. CASE ~c.stale /\ c.dirty
  <2>1. r = Background(taken)
    BY <1>6 DEF Completed
  <2> HIDE DEF r, taken
  <2> QED
    BY <1>1, <1>2, <1>3, <1>4, <1>6, <2>1, BackgroundMoves DEF r
<1>7. CASE ~(c.stale /\ (all \/ c.dirty)) /\ ~(~c.stale /\ c.dirty)
  <2>1. r = taken
    BY <1>7 DEF Completed
  <2> HIDE DEF r, taken
  <2> QED
    BY <1>1, <1>3, <1>4, <1>7, <2>1 DEF r
<1> QED
  BY <1>5, <1>6, <1>7

-----------------------------------------------------------------------------
(* What the steps do.                                                      *)

Reader == <<cache, recovery, local, forwarder, ingress, barrier, chan, client, app>>
Kinds == {"tree", "layout", "titles"}
SameNews(older, new) == \A kind \in Kinds : Has(new, kind) <=> Has(older, kind)

(* The daemon changes its tree, with or without this client.               *)
Grows ==
  /\ server'.tree = server.tree + 1
  /\ server'.title = IF HasTab(server.tree) THEN server.title ELSE 1
  /\ \E e \in {Tree, Layout} : Accepted(stream, stream', e)
  /\ spent'.failures = spent.failures /\ spent'.lost = spent.lost
  /\ UNCHANGED Reader
LEMMA ChangeDoes ==
  ASSUME Typed, NEW e \in {Tree, Layout}, Change(e) \/ Mutate(e)
  PROVE  Typed' /\ Grows
<1>1. /\ server' = Grown /\ Publish(e) /\ UNCHANGED Reader
      /\ spent' = spent \/ spent' = [spent EXCEPT !.mutations = @ + 1]
  BY DEF Change, Mutate, Reader, forwarding
<1>2. e \in Streamed
  BY DEF Tree, Layout, Streamed, NoTitle
<1>3. stream' \in Boxes({"open", "overflowed", "told"}) /\ Accepted(stream, stream', e)
  BY <1>1, <1>2, PublishedBox DEF Typed
<1>4. /\ server' \in [tree : Nat, title : Nat]
      /\ server'.tree = server.tree + 1
      /\ server'.title = IF HasTab(server.tree) THEN server.title ELSE 1
  <2>1. server.tree \in Nat /\ server.title \in Nat
    BY DEF Typed
  <2>2. PICK n \in Nat : n = server.tree + 1
    BY <2>1
  <2>3. PICK m \in Nat : m = IF HasTab(server.tree) THEN server.title ELSE 1
    BY <2>1
  <2>4. server' = [tree |-> n, title |-> m]
    BY <1>1, <2>2, <2>3 DEF Grown
  <2> QED
    BY <2>2, <2>3, <2>4
<1>5. /\ spent' \in [mutations : Nat, failures : Nat, inputs : Nat, lost : BOOLEAN]
      /\ spent'.failures = spent.failures /\ spent'.lost = spent.lost
  <2>0. spent \in [mutations : Nat, failures : Nat, inputs : Nat, lost : BOOLEAN]
    BY DEF Typed
  <2>1. CASE spent' = spent
    BY <2>0, <2>1
  <2>2. CASE spent' = [spent EXCEPT !.mutations = @ + 1]
    BY <2>0, <2>2
  <2> QED
    BY <1>1, <2>1, <2>2
<1>6. Typed'
  <2>1. UNCHANGED <<cache, recovery, local, forwarder, ingress, barrier, chan,
                    client, app>>
    BY <1>1 DEF Reader
  <2> QED
    BY <1>3, <1>4, <1>5, <2>1 DEF Typed
<1> QED
  BY <1>1, <1>3, <1>4, <1>5, <1>6 DEF Grows

Retitles ==
  /\ HasTab(server.tree)
  /\ server'.tree = server.tree /\ server'.title = server.title + 1
  /\ Accepted(stream, stream', Title(server.title + 1))
  /\ UNCHANGED <<Reader, spent>>
LEMMA RetitleDoes ==
  ASSUME Typed, Retitle
  PROVE  Typed' /\ Retitles
<1>1. /\ server' = [server EXCEPT !.title = @ + 1] /\ HasTab(server.tree)
      /\ Publish(Title(server.title + 1)) /\ UNCHANGED <<Reader, spent>>
  BY DEF Retitle, Reader, forwarding
<1>2. Title(server.title + 1) \in Streamed
  <2>1. PICK n \in Nat : n = server.title + 1
    BY DEF Typed
  <2>2. [kind |-> "title", title |-> n] \in Streamed
    BY DEF Streamed
  <2> QED
    BY <2>1, <2>2 DEF Title
<1>3. /\ stream' \in Boxes({"open", "overflowed", "told"})
      /\ Accepted(stream, stream', Title(server.title + 1))
  BY <1>1, <1>2, PublishedBox DEF Typed
<1>4. /\ server' \in [tree : Nat, title : Nat]
      /\ server'.tree = server.tree /\ server'.title = server.title + 1
  <2>1. server \in [tree : Nat, title : Nat]
    BY DEF Typed
  <2>2. PICK n \in Nat : n = server.title + 1
    BY <2>1
  <2>3. server' = [server EXCEPT !.title = n]
    BY <1>1, <2>2
  <2> QED
    BY <2>1, <2>2, <2>3
<1>5. Typed'
  <2>1. UNCHANGED <<cache, recovery, local, forwarder, ingress, barrier, chan,
                    client, app, spent>>
    BY <1>1 DEF Reader
  <2> QED
    BY <1>3, <1>4, <2>1 DEF Typed
<1> QED
  BY <1>1, <1>3, <1>4, <1>5 DEF Retitles

Returns ==
  /\ client'.stale /\ client'.dirty = client.dirty /\ Rests(client, client')
  /\ Sent' = Sent /\ SameNews(chan, chan')
  /\ UNCHANGED <<server, stream, cache, recovery, local, ingress, app, spent>>
LEMMA ReturnDoes ==
  ASSUME Typed, MutationReturns
  PROVE  Typed' /\ Returns
<1> DEFINE message == [kind |-> "committed"]
<1>1. /\ client' = [client EXCEPT !.stale = TRUE]
      /\ chan' = Append(chan, message)
      /\ UNCHANGED <<server, stream, cache, recovery, local, forwarder, ingress,
                     barrier, app, spent>>
  BY DEF MutationReturns, daemonVars, forwarding
<1>2. message \in Messages /\ message.kind = "committed"
  BY DEF Messages
<1> HIDE DEF message
<1>3. /\ chan' \in Seq(Messages) /\ Sent' = Sent /\ SameNews(chan, chan')
  BY <1>1, <1>2, AppendHas, AppendSent DEF Typed, Sent, SameNews, Kinds
<1>4. /\ client' \in Clients /\ client'.stale = TRUE
      /\ client'.dirty = client.dirty /\ Rests(client, client')
  BY <1>1 DEF Typed, Clients, Rests
<1>5. Typed'
  BY <1>1, <1>3, <1>4 DEF Typed
<1> QED
  BY <1>1, <1>3, <1>4, <1>5 DEF Returns

LEMMA RetitledType ==
  ASSUME Typed, NEW title \in Nat
  PROVE  /\ Retitled(title) \in [tree : Nat, title : Nat, gen : Nat,
                                 late : [gen : Nat, title : Nat]]
         /\ Retitled(title).tree = cache.tree
         /\ Retitled(title).gen = cache.gen + 1
         /\ Retitled(title).late = [gen |-> cache.gen + 1, title |-> title]
         /\ Retitled(title).title = IF HasTab(cache.tree) THEN title
                                    ELSE cache.title
<1> DEFINE late == [gen |-> cache.gen + 1, title |-> title]
           shown == IF HasTab(cache.tree) THEN title ELSE cache.title
<1>0. cache \in [tree : Nat, title : Nat, gen : Nat,
                late : [gen : Nat, title : Nat]]
  BY DEF Typed
<1>1. late \in [gen : Nat, title : Nat] /\ shown \in Nat
  BY <1>0
<1>2. Retitled(title) = [cache EXCEPT !.gen = @ + 1, !.late = late, !.title = shown]
  BY DEF Retitled
<1> HIDE DEF late, shown
<1>a. Retitled(title) = [tree |-> cache.tree, title |-> shown,
                         gen |-> cache.gen + 1, late |-> late]
  BY <1>0, <1>2
<1>b. cache.gen + 1 \in Nat /\ cache.tree \in Nat
  BY <1>0
<1>3. /\ Retitled(title) \in [tree : Nat, title : Nat, gen : Nat,
                              late : [gen : Nat, title : Nat]]
      /\ Retitled(title).tree = cache.tree
      /\ Retitled(title).gen = cache.gen + 1
      /\ Retitled(title).late = late /\ Retitled(title).title = shown
  BY <1>1, <1>a, <1>b
<1> QED
  BY <1>3 DEF late, shown

(* The reader takes an event of the stream.                                *)
Reads ==
  /\ stream.events # <<>> /\ stream'.events = Tail(stream.events)
  /\ stream'.state = stream.state
  /\ client'.dirty = client.dirty /\ Rests(client, client')
  /\ UNCHANGED <<server, recovery, ingress, chan, app, spent>>
ReadsChange(e) ==
  /\ e.kind \in {"tree", "layout"} /\ client'.stale
  /\ Accepted(local, local', e)
  /\ UNCHANGED cache
ReadsTitle(e) ==
  /\ e.kind = "title"
  /\ cache' = Retitled(e.title)
  /\ \/ /\ ~HasTab(cache.tree) /\ ~client.stale /\ client'.stale
        /\ \E middle \in Boxes({"open", "overflowed"}) :
             Accepted(local, middle, Tree) /\ Accepted(middle, local', e)
     \/ /\ HasTab(cache.tree) \/ client.stale
        /\ client'.stale = client.stale
        /\ Accepted(local, local', e)
LEMMA ReadDoes ==
  ASSUME Typed, Read
  PROVE  /\ Typed' /\ Reads /\ Head(stream.events) \in Streamed
         /\ ReadsChange(Head(stream.events)) \/ ReadsTitle(Head(stream.events))
<1> DEFINE e == Head(stream.events)
<1>1. /\ stream.events # <<>> /\ stream' = [stream EXCEPT !.events = Tail(@)]
      /\ IF e.kind = "title" THEN ReadTitle(e) ELSE ReadChange(e)
      /\ UNCHANGED <<server, recovery, forwarder, ingress, barrier, chan, app, spent>>
  BY DEF Read, forwarding
<1>2. stream.events \in Seq(Streamed)
  BY DEF Typed, Boxes
<1>3. /\ e \in Streamed /\ Tail(stream.events) \in Seq(Streamed)
  BY <1>1, <1>2
<1>4. /\ stream' \in Boxes({"open", "overflowed", "told"})
      /\ stream'.events = Tail(stream.events) /\ stream'.state = stream.state
  BY <1>1, <1>3 DEF Typed, Boxes
<1> HIDE DEF e
<1>5. CASE e.kind # "title"
  <2>1. /\ client' = [client EXCEPT !.stale = TRUE] /\ UNCHANGED cache
        /\ local' = Posted(local, e)
    BY <1>1, <1>5 DEF ReadChange
  <2>2. local' \in Boxes({"open", "overflowed"}) /\ Accepted(local, local', e)
    BY <1>3, <2>1, PostedBox DEF Typed
  <2>3. /\ client' \in Clients /\ client'.stale = TRUE
        /\ client'.dirty = client.dirty /\ Rests(client, client')
    BY <2>1 DEF Typed, Clients, Rests
  <2>4. e.kind \in {"tree", "layout"}
    BY <1>3, <1>5 DEF Streamed
  <2>5. Typed'
    BY <1>1, <1>4, <2>1, <2>2, <2>3 DEF Typed
  <2> QED
    BY <1>1, <1>3, <1>4, <2>1, <2>2, <2>3, <2>4, <2>5 DEF Reads, ReadsChange, e
<1>6. CASE e.kind = "title"
  <2> DEFINE tells == ~HasTab(cache.tree) /\ ~client.stale
  <2>1. /\ cache' = Retitled(e.title)
        /\ client' = [client EXCEPT !.stale = @ \/ tells]
        /\ local' = Posted(IF tells THEN Posted(local, Tree) ELSE local, e)
    BY <1>1, <1>6 DEF ReadTitle
  <2>2. /\ cache' \in [tree : Nat, title : Nat, gen : Nat,
                       late : [gen : Nat, title : Nat]]
    BY <1>3, <2>1, RetitledType DEF Typed, Streamed
  <2>3. Tree \in Streamed
    BY DEF Tree, Streamed, NoTitle
  <2>4. client' \in Clients /\ client'.dirty = client.dirty /\ Rests(client, client')
    BY <2>1 DEF Typed, Clients, Rests
  <2>5. CASE tells
    <3>1. local' = Posted(Posted(local, Tree), e)
      BY <2>1, <2>5
    <3>2. /\ Posted(local, Tree) \in Boxes({"open", "overflowed"})
          /\ Accepted(local, Posted(local, Tree), Tree)
      BY <2>3, PostedBox DEF Typed
    <3>3. /\ local' \in Boxes({"open", "overflowed"})
          /\ Accepted(Posted(local, Tree), local', e)
      BY <1>3, <3>1, <3>2, PostedBox
    <3>4. client'.stale
      BY <2>1, <2>5 DEF Typed, Clients
    <3>5. Typed'
      BY <1>1, <1>4, <2>2, <2>4, <3>3 DEF Typed
    <3>6. ReadsTitle(e)
      BY <1>6, <2>1, <2>5, <3>2, <3>3, <3>4 DEF ReadsTitle
    <3> QED
      BY <1>1, <1>3, <1>4, <2>4, <3>5, <3>6 DEF Reads, e
  <2>6. CASE ~tells
    <3>1. local' = Posted(local, e)
      BY <2>1, <2>6
    <3>2. local' \in Boxes({"open", "overflowed"}) /\ Accepted(local, local', e)
      BY <1>3, <3>1, PostedBox DEF Typed
    <3>3. client'.stale = client.stale
      BY <2>1, <2>6 DEF Typed, Clients
    <3>4. Typed'
      BY <1>1, <1>4, <2>2, <2>4, <3>2 DEF Typed
    <3>5. ReadsTitle(e)
      BY <1>6, <2>1, <2>6, <3>2, <3>3 DEF ReadsTitle
    <3> QED
      BY <1>1, <1>3, <1>4, <2>4, <3>4, <3>5 DEF Reads, e
  <2> QED
    BY <2>5, <2>6
<1> QED
  BY <1>5, <1>6

(* The stream ends and is opened again.                                    *)
Reopening == <<server, cache, ingress, chan, app>>
Reopens ==
  /\ client'.dirty = client.dirty /\ Rests(client, client')
  /\ spent'.failures = spent.failures
  /\ UNCHANGED Reopening
  /\ \/ /\ spent'.lost /\ stream'.state = "told" /\ stream'.events = <<>>
        /\ client'.stale /\ UNCHANGED local
        /\ \/ recovery'.at = "asking"
           \/ recovery'.at = recovery.at /\ recovery.at # "idle" /\ recovery'.again
     \/ /\ recovery.at # "idle" /\ spent'.lost = spent.lost
        /\ client'.stale = client.stale
        /\ \/ stream' = Fresh /\ recovery'.at = "answered" /\ UNCHANGED local
           \/ /\ stream' = stream /\ recovery'.at = "asking" /\ UNCHANGED local
           \/ /\ stream' = stream /\ recovery'.at = "idle" /\ ~recovery.again
              /\ recovery.at = "answered"
              /\ Accepted(local, local', Tree)
LEMMA OverflowDoes ==
  ASSUME Typed, ReadOverflow
  PROVE  Typed' /\ Reopens
<1>1. /\ stream' = [events |-> <<>>, state |-> "told"]
      /\ client' = [client EXCEPT !.stale = TRUE]
      /\ recovery' = IF recovery.at = "idle" THEN [recovery EXCEPT !.at = "asking"]
                     ELSE [recovery EXCEPT !.again = TRUE]
      /\ spent' = [spent EXCEPT !.lost = TRUE]
      /\ UNCHANGED <<Reopening, local, forwarder, barrier>>
  BY DEF ReadOverflow, Reopening, forwarding
<1>2. /\ stream' \in Boxes({"open", "overflowed", "told"})
      /\ stream'.state = "told" /\ stream'.events = <<>>
  BY <1>1 DEF Boxes
<1>3. /\ client' \in Clients /\ client'.stale = TRUE
      /\ client'.dirty = client.dirty /\ Rests(client, client')
  BY <1>1 DEF Typed, Clients, Rests
<1>4. recovery \in [at : {"idle", "asking", "answered"}, again : BOOLEAN]
  BY DEF Typed
<1>5. /\ recovery' \in [at : {"idle", "asking", "answered"}, again : BOOLEAN]
      /\ \/ recovery'.at = "asking"
         \/ recovery'.at = recovery.at /\ recovery.at # "idle" /\ recovery'.again
  <2>1. CASE recovery.at = "idle"
    BY <1>1, <1>4, <2>1
  <2>2. CASE recovery.at # "idle"
    BY <1>1, <1>4, <2>2
  <2> QED
    BY <2>1, <2>2
<1>6. spent \in [mutations : Nat, failures : Nat, inputs : Nat, lost : BOOLEAN]
  BY DEF Typed
<1>7. /\ spent' \in [mutations : Nat, failures : Nat, inputs : Nat, lost : BOOLEAN]
      /\ spent'.failures = spent.failures /\ spent'.lost = TRUE
  BY <1>1, <1>6
<1>8. Typed'
  BY <1>1, <1>2, <1>3, <1>5, <1>7 DEF Typed, Reopening
<1> QED
  BY <1>1, <1>2, <1>3, <1>5, <1>7, <1>8 DEF Reopens

LEMMA ReopenDoes ==
  ASSUME Typed, Resubscribe \/ Resubscribed
  PROVE  Typed' /\ Reopens
<1>0. /\ recovery \in [at : {"idle", "asking", "answered"}, again : BOOLEAN]
      /\ Rests(client, client)
  BY DEF Typed, Rests
<1>1. CASE Resubscribe
  <2>1. /\ recovery.at = "asking" /\ stream' = Fresh
        /\ recovery' = [at |-> "answered", again |-> FALSE]
        /\ UNCHANGED <<Reopening, local, forwarder, barrier, client, spent>>
    BY <1>1 DEF Resubscribe, Reopening, forwarding
  <2>2. stream' \in Boxes({"open", "overflowed", "told"})
    BY <2>1 DEF Boxes, Fresh
  <2>3. Typed'
    BY <2>1, <2>2 DEF Typed, Reopening
  <2> QED
    BY <1>0, <2>1, <2>3 DEF Reopens
<1>2. CASE Resubscribed
  <2>1. /\ recovery.at = "answered"
        /\ IF recovery.again
           THEN recovery' = [recovery EXCEPT !.at = "asking"] /\ UNCHANGED local
           ELSE /\ recovery' = [recovery EXCEPT !.at = "idle"]
                /\ local' = Posted(local, Tree)
        /\ UNCHANGED <<Reopening, stream, forwarder, barrier, client, spent>>
    BY <1>2 DEF Resubscribed, Reopening, forwarding, daemonVars
  <2>2. CASE recovery.again
    <3>1. /\ recovery' \in [at : {"idle", "asking", "answered"}, again : BOOLEAN]
          /\ recovery'.at = "asking" /\ UNCHANGED local
      BY <1>0, <2>1, <2>2
    <3>2. Typed'
      BY <2>1, <3>1 DEF Typed, Reopening
    <3> QED
      BY <1>0, <2>1, <3>1, <3>2 DEF Reopens
  <2>3. CASE ~recovery.again
    <3>1. /\ recovery' \in [at : {"idle", "asking", "answered"}, again : BOOLEAN]
          /\ recovery'.at = "idle" /\ local' = Posted(local, Tree)
      BY <1>0, <2>1, <2>3
    <3>2. Tree \in Streamed
      BY DEF Tree, Streamed, NoTitle
    <3>3. local' \in Boxes({"open", "overflowed"}) /\ Accepted(local, local', Tree)
      BY <3>1, <3>2, PostedBox DEF Typed
    <3>4. Typed'
      BY <2>1, <3>1, <3>3 DEF Typed, Reopening
    <3> QED
      BY <1>0, <2>1, <2>3, <3>1, <3>3, <3>4 DEF Reopens
  <2> QED
    BY <2>2, <2>3
<1> QED
  BY <1>1, <1>2

(* The forwarding thread hands an event on, a title by way of the ingress. *)
Forwards ==
  /\ local.events # <<>>
  /\ local'.events = Tail(local.events) /\ local'.state = local.state
  /\ UNCHANGED <<server, stream, cache, recovery, client, app, spent>>
  /\ Sent' = Sent
  /\ LET e == Head(local.events)
     IN \/ /\ e.kind = "title"
           /\ \A kind \in {"tree", "layout"} : Has(chan', kind) <=> Has(chan, kind)
           /\ ingress'.title = e.title /\ ingress'.dirty /\ ingress'.wake
           /\ ingress.wake => SameNews(chan, chan')
           /\ ~ingress.wake => Has(chan', "titles")
        \/ /\ e.kind \in {"tree", "layout"}
           /\ UNCHANGED ingress
           /\ \A kind \in Kinds : Has(chan', kind) <=> Has(chan, kind) \/ kind = e.kind
LEMMA ForwardDoes ==
  ASSUME Typed, Forward
  PROVE  Typed' /\ Forwards
<1> DEFINE e == Head(local.events)
<1>1. /\ local.events # <<>> /\ local' = [local EXCEPT !.events = Tail(@)]
      /\ Forwarded(e)
      /\ UNCHANGED <<server, stream, cache, recovery, forwarder, barrier, client,
                     app, spent>>
  BY DEF Forward, daemonVars
<1>2. local.events \in Seq(Streamed)
  BY DEF Typed, Boxes
<1>3. e \in Streamed /\ Tail(local.events) \in Seq(Streamed)
  BY <1>1, <1>2
<1> HIDE DEF e
<1>4. /\ local' \in Boxes({"open", "overflowed"})
      /\ local'.events = Tail(local.events) /\ local'.state = local.state
  BY <1>1, <1>3 DEF Typed, Boxes
<1>5. CASE e.kind = "title"
  <2>1. /\ ingress' = [title |-> e.title, dirty |-> TRUE, wake |-> TRUE]
        /\ chan' = IF ingress.wake THEN chan ELSE Append(chan, TitlesReady)
    BY <1>1, <1>5 DEF Forwarded
  <2>2. TitlesReady \in Messages /\ TitlesReady.kind = "titles"
    BY DEF TitlesReady, Messages
  <2>3. /\ chan' \in Seq(Messages) /\ Sent' = Sent
        /\ ingress.wake => SameNews(chan, chan')
        /\ ~ingress.wake => Has(chan', "titles")
        /\ \A kind \in {"tree", "layout"} : Has(chan', kind) <=> Has(chan, kind)
    <3>1. CASE ingress.wake
      BY <2>1, <3>1 DEF Typed, Sent, SameNews
    <3>2. CASE ~ingress.wake
      BY <2>1, <2>2, <3>2, AppendHas, AppendSent DEF Typed, Sent
    <3> QED
      BY <3>1, <3>2
  <2>4. /\ ingress' \in [title : Nat, dirty : BOOLEAN, wake : BOOLEAN]
        /\ ingress'.title = e.title /\ ingress'.dirty /\ ingress'.wake
    BY <1>3, <2>1 DEF Streamed
  <2>5. Typed'
    BY <1>1, <1>4, <2>3, <2>4 DEF Typed
  <2> QED
    BY <1>1, <1>4, <1>5, <2>3, <2>4, <2>5 DEF Forwards, e
<1>6. CASE e.kind # "title"
  <2>1. chan' = Append(chan, e) /\ UNCHANGED ingress
    BY <1>1, <1>6 DEF Forwarded
  <2>2. e \in Messages /\ e.kind \in {"tree", "layout"}
    BY <1>3, <1>6 DEF Messages, Streamed
  <2>3. /\ chan' \in Seq(Messages) /\ Sent' = Sent
        /\ \A kind \in Kinds : Has(chan', kind) <=> Has(chan, kind) \/ kind = e.kind
    BY <2>1, <2>2, AppendHas, AppendSent DEF Typed, Sent
  <2>4. Typed'
    <3>1. UNCHANGED <<server, stream, cache, recovery, forwarder, ingress, barrier,
                      client, app, spent>>
      BY <1>1, <2>1
    <3> QED
      BY <1>4, <2>3, <3>1 DEF Typed
  <2> QED
    BY <1>1, <1>4, <2>1, <2>2, <2>3, <2>4 DEF Forwards, e
<1> QED
  BY <1>5, <1>6

(* A turn of the application takes the head of the channel.                *)
LEMMA TurnTakes ==
  ASSUME Typed, NEW kind, Turn(kind)
  PROVE  /\ chan' \in Seq(Messages) /\ Head(chan) \in Messages
         /\ Head(chan).kind = kind /\ Sent' \subseteq Sent
         /\ kind # "refreshed" => Sent' = Sent
         /\ kind = "refreshed" => /\ Head(chan).job \in Sent
                                  /\ Sent \subseteq Sent' \cup {Head(chan).job}
         /\ \A k \in Kinds : Has(chan, k) <=> k = kind \/ Has(chan', k)
<1>1. chan # <<>> /\ Head(chan).kind = kind /\ chan' = Tail(chan) /\ chan \in Seq(Messages)
  BY DEF Turn, Typed
<1>2. /\ chan' \in Seq(Messages) /\ Head(chan) \in Messages
      /\ \A k : Has(chan, k) <=> k = kind \/ Has(chan', k)
  BY <1>1, TailHas
<1> QED
  BY <1>1, <1>2, TailSent DEF Sent

Idle == <<server, stream, cache, recovery, local, ingress, app, spent>>
HandlesChange ==
  /\ Sent' = Sent /\ client'.stale = client.stale /\ UNCHANGED Idle
  /\ \E kind \in {"tree", "layout"} :
       /\ \A k \in Kinds : Has(chan, k) <=> k = kind \/ Has(chan', k)
       /\ \/ Starts(client, client')
          \/ /\ Rests(client, client') /\ (client.dirty => client'.dirty)
             /\ client.stale => client.queued
             /\ kind = "tree" => client.queued /\ (client.stale \/ client'.dirty)
LEMMA HandleChangeDoes ==
  ASSUME Typed, HandleChange
  PROVE  Typed' /\ HandlesChange
<1>1. PICK kind \in {"tree", "layout"} : Turn(kind)
  BY DEF HandleChange
<1>2. /\ Head(chan).kind = kind /\ chan' \in Seq(Messages) /\ Sent' = Sent
      /\ \A k \in Kinds : Has(chan, k) <=> k = kind \/ Has(chan', k)
  BY <1>1, TurnTakes
<1>3. /\ client' = IF client.stale \/ Head(chan).kind = "layout"
                   THEN IfStale(client) ELSE Background(client)
      /\ UNCHANGED <<Idle, forwarder, barrier>>
  BY DEF HandleChange, Else, daemonVars, Idle
<1>4. client \in Clients /\ Rests(client, client)
  BY DEF Typed, Rests
<1>5. /\ client' \in Clients /\ client'.stale = client.stale
      /\ \/ Starts(client, client')
         \/ /\ Rests(client, client') /\ (client.dirty => client'.dirty)
            /\ client.stale => client.queued
            /\ kind = "tree" => client.queued /\ (client.stale \/ client'.dirty)
  <2>1. CASE client.stale \/ kind = "layout"
    <3>1. client' = IfStale(client)
      BY <1>2, <1>3, <2>1
    <3>2. CASE client.stale /\ ~client.queued
      BY <1>4, <3>1, <3>2, IfStaleMoves
    <3>3. CASE ~(client.stale /\ ~client.queued)
      <4>1. client' = client
        BY <1>4, <3>1, <3>3, IfStaleMoves
      <4> QED
        BY <1>4, <2>1, <3>3, <4>1
    <3> QED
      BY <3>2, <3>3
  <2>2. CASE ~(client.stale \/ kind = "layout")
    <3>1. client' = Background(client)
      BY <1>2, <1>3, <2>2
    <3> QED
      BY <1>4, <2>2, <3>1, BackgroundMoves
  <2> QED
    BY <2>1, <2>2
<1>6. Typed'
  BY <1>2, <1>3, <1>5 DEF Typed, Idle
<1> QED
  BY <1>2, <1>3, <1>5, <1>6 DEF HandlesChange

HandlesTitles ==
  /\ Sent' = Sent
  /\ \A kind \in {"tree", "layout"} : Has(chan', kind) <=> Has(chan, kind)
  /\ ingress'.title = ingress.title /\ ~ingress'.dirty /\ ~ingress'.wake
  /\ app'.tree = app.tree /\ app'.seq = app.seq
  /\ app'.attempts = app.attempts /\ app'.retry = app.retry
  /\ app'.title = IF ingress.dirty /\ HasTab(app.tree) THEN ingress.title
                  ELSE app.title
  /\ UNCHANGED <<server, stream, cache, recovery, local, client, spent>>
LEMMA HandleTitlesDoes ==
  ASSUME Typed, HandleTitles
  PROVE  Typed' /\ HandlesTitles
<1>1. /\ Turn("titles")
      /\ ingress' = [ingress EXCEPT !.dirty = FALSE, !.wake = FALSE]
      /\ app' = IF ingress.dirty /\ HasTab(app.tree)
                THEN [app EXCEPT !.title = ingress.title] ELSE app
      /\ UNCHANGED <<server, stream, cache, recovery, local, client, spent,
                     forwarder, barrier>>
  BY DEF HandleTitles, Else, daemonVars
<1>2. /\ chan' \in Seq(Messages) /\ Sent' = Sent
      /\ \A k \in Kinds : Has(chan, k) <=> k = "titles" \/ Has(chan', k)
  BY <1>1, TurnTakes
<1>3. /\ \A kind \in {"tree", "layout"} : Has(chan', kind) <=> Has(chan, kind)
  BY <1>2 DEF Kinds
<1>4. ingress \in [title : Nat, dirty : BOOLEAN, wake : BOOLEAN]
  BY DEF Typed
<1>5. ingress' = [title |-> ingress.title, dirty |-> FALSE, wake |-> FALSE]
  BY <1>1, <1>4
<1>6. /\ ingress' \in [title : Nat, dirty : BOOLEAN, wake : BOOLEAN]
      /\ ingress'.title = ingress.title /\ ~ingress'.dirty /\ ~ingress'.wake
  BY <1>4, <1>5
<1>7. app \in [tree : Nat, title : Nat, seq : Nat, layout : Nat,
               attempts : 0..BackgroundRetries, retry : BOOLEAN]
  BY DEF Typed
<1>8. /\ app' \in [tree : Nat, title : Nat, seq : Nat, layout : Nat,
                   attempts : 0..BackgroundRetries, retry : BOOLEAN]
      /\ app'.tree = app.tree /\ app'.seq = app.seq
      /\ app'.attempts = app.attempts /\ app'.retry = app.retry
      /\ app'.title = IF ingress.dirty /\ HasTab(app.tree) THEN ingress.title
                      ELSE app.title
  <2>1. CASE ingress.dirty /\ HasTab(app.tree)
    BY <1>1, <1>4, <1>7, <2>1
  <2>2. CASE ~(ingress.dirty /\ HasTab(app.tree))
    BY <1>1, <1>7, <2>2
  <2> QED
    BY <2>1, <2>2
<1>9. Typed'
  BY <1>1, <1>2, <1>6, <1>8 DEF Typed
<1> QED
  BY <1>1, <1>2, <1>3, <1>6, <1>8, <1>9 DEF HandlesTitles

(* HandleCommitted, RetryIsDue and Input.                                  *)
Still == <<server, stream, cache, recovery, local, ingress>>
Nudges ==
  /\ Sent' = Sent /\ SameNews(chan, chan')
  /\ spent'.failures = spent.failures /\ spent'.lost = spent.lost
  /\ app'.tree = app.tree /\ app'.title = app.title /\ app'.seq = app.seq
  /\ app'.attempts = app.attempts
  /\ UNCHANGED Still
  /\ \/ /\ app'.retry = app.retry /\ client'.stale
        /\ Starts(client, client') \/ (Rests(client, client') /\ client.queued)
     \/ /\ client'.stale = client.stale
        /\ Starts(client, client')
             \/ (Rests(client, client') /\ client.queued /\ client'.dirty)
LEMMA NudgeDoes ==
  ASSUME Typed, HandleCommitted \/ RetryIsDue \/ Input
  PROVE  Typed' /\ Nudges
<1>0. /\ client \in Clients /\ \A kind : Rests(client, client)
      /\ app \in [tree : Nat, title : Nat, seq : Nat, layout : Nat,
                  attempts : 0..BackgroundRetries, retry : BOOLEAN]
      /\ spent \in [mutations : Nat, failures : Nat, inputs : Nat, lost : BOOLEAN]
  BY DEF Typed, Rests
<1>1. CASE HandleCommitted
  <2> DEFINE marked == [client EXCEPT !.stale = TRUE]
  <2>1. /\ Turn("committed") /\ app' = [app EXCEPT !.layout = LayoutRetries]
        /\ client' = IfStale(marked)
        /\ UNCHANGED <<Still, forwarder, barrier, spent>>
    BY <1>1 DEF HandleCommitted, Else, daemonVars, Still
  <2>2. /\ chan' \in Seq(Messages) /\ Sent' = Sent
        /\ \A k \in Kinds : Has(chan, k) <=> k = "committed" \/ Has(chan', k)
    BY <2>1, TurnTakes
  <2>3. SameNews(chan, chan')
    BY <2>2 DEF SameNews, Kinds
  <2>4. /\ app' \in [tree : Nat, title : Nat, seq : Nat, layout : Nat,
                     attempts : 0..BackgroundRetries, retry : BOOLEAN]
        /\ app'.tree = app.tree /\ app'.title = app.title /\ app'.seq = app.seq
        /\ app'.attempts = app.attempts /\ app'.retry = app.retry
    BY <1>0, <2>1, RemoteTreeAssumption
  <2>5. /\ marked \in Clients /\ marked.stale = TRUE
        /\ marked.queued = client.queued /\ marked.seq = client.seq
        /\ marked.jobs = client.jobs
    BY <1>0 DEF Clients
  <2> HIDE DEF marked
  <2>6. /\ client' \in Clients /\ client'.stale
    BY <2>1, <2>5, IfStaleMoves
  <2>7. Starts(client, client') \/ (Rests(client, client') /\ client.queued)
    <3>1. CASE client.queued
      <4>1. client' = marked
        BY <2>1, <2>5, <3>1, IfStaleMoves
      <4> QED
        BY <2>5, <3>1, <4>1 DEF Rests
    <3>2. CASE ~client.queued
      <4>1. Starts(marked, client')
        BY <2>1, <2>5, <3>2, IfStaleMoves
      <4> QED
        BY <2>5, <4>1 DEF Starts
    <3> QED
      BY <3>1, <3>2
  <2>8. Typed'
    BY <2>1, <2>2, <2>4, <2>6 DEF Typed, Still
  <2> QED
    BY <2>1, <2>2, <2>3, <2>4, <2>6, <2>7, <2>8 DEF Nudges
<1>2. CASE RetryIsDue
  <2>1. /\ app' = [app EXCEPT !.retry = FALSE] /\ client' = Background(client)
        /\ UNCHANGED <<Still, forwarder, barrier, spent, chan>>
    BY <1>2 DEF RetryIsDue, Else, daemonVars, Still
  <2>2. /\ app' \in [tree : Nat, title : Nat, seq : Nat, layout : Nat,
                     attempts : 0..BackgroundRetries, retry : BOOLEAN]
        /\ app'.tree = app.tree /\ app'.title = app.title /\ app'.seq = app.seq
        /\ app'.attempts = app.attempts
    BY <1>0, <2>1
  <2>3. /\ client' \in Clients /\ client'.stale = client.stale
        /\ Starts(client, client')
             \/ (Rests(client, client') /\ client.queued /\ client'.dirty)
    BY <1>0, <2>1, BackgroundMoves
  <2>4. Sent' = Sent /\ SameNews(chan, chan')
    BY <2>1 DEF Sent, SameNews
  <2>5. Typed'
    BY <2>1, <2>2, <2>3 DEF Typed, Still
  <2> QED
    BY <2>1, <2>2, <2>3, <2>4, <2>5 DEF Nudges
<1>3. CASE Input
  <2>1. /\ IfStale(client) # client /\ client' = IfStale(client)
        /\ spent' = [spent EXCEPT !.inputs = @ + 1]
        /\ UNCHANGED <<Still, forwarder, barrier, chan, app>>
    BY <1>3 DEF Input, forwarding, daemonVars, Still
  <2>2. /\ spent' \in [mutations : Nat, failures : Nat, inputs : Nat, lost : BOOLEAN]
        /\ spent'.failures = spent.failures /\ spent'.lost = spent.lost
    BY <1>0, <2>1
  <2>3. /\ client' \in Clients /\ client'.stale = client.stale
        /\ Starts(client, client')
    BY <1>0, <2>1, IfStaleMoves
  <2>4. Sent' = Sent /\ SameNews(chan, chan')
    BY <2>1 DEF Sent, SameNews
  <2>5. Typed'
    BY <2>1, <2>2, <2>3 DEF Typed, Still
  <2> QED
    BY <2>1, <2>2, <2>3, <2>4, <2>5 DEF Nudges
<1> QED
  BY <1>1, <1>2, <1>3

(* HandleRefreshed: the result of a refresh.                               *)
Delivered == <<server, stream, cache, recovery, local, spent>>
ShowsJob(k) ==
  /\ app'.tree = k.tree
  /\ LET gone == HasTab(app.tree) /\ ~HasTab(k.tree)
         title == IF gone THEN NoTitle ELSE ingress.title
     IN /\ app'.title = IF HasTab(k.tree) /\ title # NoTitle THEN title ELSE k.title
        /\ ingress'.title = title /\ ingress'.wake = ingress.wake
        /\ ingress'.dirty = (ingress.dirty /\ ~gone)
  /\ client'.stale = client.stale
  /\ \/ Starts(client, client')
     \/ /\ Rests(client, client') /\ (client.queued \/ (~client.dirty /\ ~client.stale))
        /\ client.dirty => client.stale \/ client'.dirty
Fails(k) ==
  /\ app'.tree = app.tree /\ app'.title = app.title /\ UNCHANGED ingress
  /\ client.stale => client'.stale
  /\ Starts(client, client') \/ Rests(client, client')
  /\ \/ k.identity /\ app'.attempts = app.attempts /\ app'.retry = app.retry
     \/ ~k.identity /\ (app'.retry \/ app'.attempts = BackgroundRetries)
Delivers(k) ==
  /\ k \in Sent /\ Sent' \subseteq Sent /\ Sent \subseteq Sent' \cup {k}
  /\ SameNews(chan, chan') /\ UNCHANGED Delivered
  /\ \/ k.seq <= app.seq /\ UNCHANGED <<app, ingress, client>>
     \/ k.seq > app.seq /\ app'.seq = k.seq /\ k.ok /\ ShowsJob(k)
     \/ k.seq > app.seq /\ app'.seq = k.seq /\ ~k.ok /\ Fails(k)

AppType == [tree : Nat, title : Nat, seq : Nat, layout : Nat,
            attempts : 0..BackgroundRetries, retry : BOOLEAN]
LEMMA ShowDoes ==
  ASSUME Typed, NEW k \in Jobs,
         Shows(k, [[app EXCEPT !.seq = k.seq]
                     EXCEPT !.layout = 0, !.attempts = 0, !.retry = FALSE]),
         client' = Completed(client, TRUE)
  PROVE  /\ app' \in AppType /\ app'.seq = k.seq
         /\ ingress' \in [title : Nat, dirty : BOOLEAN, wake : BOOLEAN]
         /\ client' \in Clients
         /\ ShowsJob(k)
<1> DEFINE gone == HasTab(app.tree) /\ ~HasTab(k.tree)
           title == IF gone THEN NoTitle ELSE ingress.title
           shown == IF HasTab(k.tree) /\ title # NoTitle THEN title ELSE k.title
           next == [[app EXCEPT !.seq = k.seq]
                      EXCEPT !.layout = 0, !.attempts = 0, !.retry = FALSE]
<1>0. /\ app \in AppType /\ client \in Clients
      /\ ingress \in [title : Nat, dirty : BOOLEAN, wake : BOOLEAN]
      /\ k.tree \in Nat /\ k.title \in Nat /\ k.seq \in Nat
  BY DEF Typed, AppType, Jobs
<1>1. title \in Nat /\ shown \in Nat
  BY <1>0 DEF NoTitle
<1>2. /\ app' = [next EXCEPT !.tree = k.tree, !.title = shown]
      /\ ingress' = [ingress EXCEPT !.title = title, !.dirty = @ /\ ~gone]
  BY DEF Shows
<1> HIDE DEF shown, title
<1>3. next = [tree |-> app.tree, title |-> app.title, seq |-> k.seq, layout |-> 0,
              attempts |-> 0, retry |-> FALSE]
  <2>1. [app EXCEPT !.seq = k.seq]
          = [tree |-> app.tree, title |-> app.title, seq |-> k.seq,
             layout |-> app.layout, attempts |-> app.attempts, retry |-> app.retry]
    BY <1>0 DEF AppType
  <2> DEFINE accepted == [app EXCEPT !.seq = k.seq]
  <2>2. accepted = [tree |-> app.tree, title |-> app.title, seq |-> k.seq,
                    layout |-> app.layout, attempts |-> app.attempts,
                    retry |-> app.retry]
    BY <2>1
  <2>3. next = [accepted EXCEPT !.layout = 0, !.attempts = 0, !.retry = FALSE]
    OBVIOUS
  <2> HIDE DEF accepted, next
  <2> QED
    BY <2>2, <2>3
<1> HIDE DEF next
<1>4. app' = [tree |-> k.tree, title |-> shown, seq |-> k.seq, layout |-> 0,
              attempts |-> 0, retry |-> FALSE]
  BY <1>2, <1>3
<1>5. /\ app' \in AppType /\ app'.seq = k.seq /\ app'.tree = k.tree
      /\ app'.title = shown
  BY <1>0, <1>1, <1>4, RemoteTreeAssumption DEF AppType
<1> HIDE DEF gone
<1>6. CASE gone
  <2>1. ingress' = [title |-> title, dirty |-> FALSE, wake |-> ingress.wake]
    BY <1>0, <1>2, <1>6
  <2>2. /\ ingress' \in [title : Nat, dirty : BOOLEAN, wake : BOOLEAN]
        /\ ingress'.title = title /\ ingress'.wake = ingress.wake
        /\ ingress'.dirty = FALSE
    BY <1>0, <1>1, <2>1
  <2>3. ingress'.dirty = (ingress.dirty /\ ~gone)
    BY <1>6, <2>2
  <2> QED
    BY <1>0, <1>5, <2>2, <2>3, CompletedMoves DEF ShowsJob, shown, title, gone
<1>7. CASE ~gone
  <2>1. ingress' = [title |-> title, dirty |-> ingress.dirty, wake |-> ingress.wake]
    BY <1>0, <1>2, <1>7
  <2>2. /\ ingress' \in [title : Nat, dirty : BOOLEAN, wake : BOOLEAN]
        /\ ingress'.title = title /\ ingress'.wake = ingress.wake
        /\ ingress'.dirty = ingress.dirty
    BY <1>0, <1>1, <2>1
  <2>3. ingress'.dirty = (ingress.dirty /\ ~gone)
    BY <1>0, <1>7, <2>2
  <2> QED
    BY <1>0, <1>5, <2>2, <2>3, CompletedMoves DEF ShowsJob, shown, title, gone
<1> QED
  BY <1>6, <1>7

LEMMA FailDoes ==
  ASSUME Typed, NEW k \in Jobs, ~k.ok, UNCHANGED ingress,
         LET accepted == [app EXCEPT !.seq = k.seq]
             again == app.layout > 0
             retries == app.attempts < BackgroundRetries
         IN \/ /\ k.identity
               /\ app' = [accepted EXCEPT !.layout = IF again THEN @ - 1 ELSE @]
               /\ client' = Completed([client EXCEPT !.stale = @ \/ again], again)
            \/ /\ ~k.identity
               /\ app' = [accepted EXCEPT !.retry = retries,
                           !.attempts = IF retries THEN @ + 1 ELSE @]
               /\ client' = [client EXCEPT !.dirty = FALSE]
  PROVE  app' \in AppType /\ app'.seq = k.seq /\ client' \in Clients /\ Fails(k)
<1> DEFINE accepted == [app EXCEPT !.seq = k.seq]
           again == app.layout > 0
           retries == app.attempts < BackgroundRetries
<1>0. /\ app \in AppType /\ client \in Clients /\ k.seq \in Nat
      /\ BackgroundRetries \in Nat
  BY RemoteTreeAssumption DEF Typed, AppType, Jobs
<1>1. accepted = [tree |-> app.tree, title |-> app.title, seq |-> k.seq,
                  layout |-> app.layout, attempts |-> app.attempts,
                  retry |-> app.retry]
  BY <1>0 DEF AppType
<1>2. CASE k.identity
  <2> DEFINE layout == IF again THEN app.layout - 1 ELSE app.layout
             marked == [client EXCEPT !.stale = @ \/ again]
  <2>1. layout \in Nat
    BY <1>0 DEF AppType
  <2>2. /\ app' = [accepted EXCEPT !.layout = IF again THEN @ - 1 ELSE @]
        /\ client' = Completed(marked, again)
    BY <1>2
  <2>3. app' = [tree |-> app.tree, title |-> app.title, seq |-> k.seq,
                layout |-> layout, attempts |-> app.attempts, retry |-> app.retry]
    BY <1>1, <2>2
  <2> HIDE DEF layout
  <2>4. /\ app' \in AppType /\ app'.seq = k.seq /\ app'.tree = app.tree
        /\ app'.title = app.title /\ app'.attempts = app.attempts
        /\ app'.retry = app.retry
    BY <1>0, <2>1, <2>3 DEF AppType
  <2>5. /\ marked \in Clients /\ marked.queued = client.queued
        /\ marked.seq = client.seq /\ marked.jobs = client.jobs
        /\ client.stale => marked.stale
    BY <1>0 DEF Clients
  <2>6. again \in BOOLEAN
    OBVIOUS
  <2> HIDE DEF marked, again
  <2>7. /\ client' \in Clients /\ client'.stale = marked.stale
        /\ Starts(marked, client') \/ Rests(marked, client')
    BY <2>2, <2>5, <2>6, CompletedMoves
  <2>8. Starts(client, client') \/ Rests(client, client')
    BY <2>5, <2>7 DEF Starts, Rests
  <2> QED
    BY <1>2, <2>4, <2>5, <2>7, <2>8 DEF Fails
<1>3. CASE ~k.identity
  <2> DEFINE attempts == IF retries THEN app.attempts + 1 ELSE app.attempts
  <2>1. /\ attempts \in 0..BackgroundRetries
        /\ ~retries => attempts = BackgroundRetries
    BY <1>0 DEF AppType
  <2>2. /\ app' = [accepted EXCEPT !.retry = retries,
                     !.attempts = IF retries THEN @ + 1 ELSE @]
        /\ client' = [client EXCEPT !.dirty = FALSE]
    BY <1>3
  <2>3. app' = [tree |-> app.tree, title |-> app.title, seq |-> k.seq,
                layout |-> app.layout, attempts |-> attempts, retry |-> retries]
    BY <1>1, <2>2
  <2>4. retries \in BOOLEAN
    OBVIOUS
  <2> HIDE DEF attempts, retries
  <2>5. /\ app' \in AppType /\ app'.seq = k.seq /\ app'.tree = app.tree
        /\ app'.title = app.title /\ app'.attempts = attempts
        /\ app'.retry = retries
    BY <1>0, <2>1, <2>3, <2>4 DEF AppType
  <2>6. client' \in Clients /\ client'.stale = client.stale /\ Rests(client, client')
    BY <1>0, <2>2 DEF Clients, Rests
  <2> QED
    BY <1>3, <2>1, <2>4, <2>5, <2>6 DEF Fails
<1> QED
  BY <1>2, <1>3

LEMMA HandleRefreshedDoes ==
  ASSUME Typed, HandleRefreshed
  PROVE  Typed' /\ \E k \in Jobs : Delivers(k)
<1> DEFINE k == Head(chan).job
<1>1. Turn("refreshed") /\ UNCHANGED <<Delivered, forwarder, barrier>>
  BY DEF HandleRefreshed, Else, daemonVars, Delivered
<1>2. /\ chan' \in Seq(Messages) /\ k \in Sent /\ Sent' \subseteq Sent
      /\ Sent \subseteq Sent' \cup {k}
      /\ \A kind \in Kinds : Has(chan, kind) <=> kind = "refreshed" \/ Has(chan', kind)
  BY <1>1, TurnTakes
<1>3. SameNews(chan, chan')
  BY <1>2 DEF SameNews, Kinds
<1>4. k \in Jobs
  BY <1>2, SentJobs DEF Sent, Typed
<1>5. app.seq \in Nat /\ k.seq \in Nat /\ k.ok \in BOOLEAN /\ k.identity \in BOOLEAN
  BY <1>4 DEF Typed, Jobs
<1>6. CASE ~Accepts(k)
  <2>1. UNCHANGED <<app, ingress, client>>
    BY <1>6 DEF HandleRefreshed
  <2>2. k.seq <= app.seq
    BY <1>5, <1>6 DEF Accepts
  <2>3. Typed'
    BY <1>1, <1>2, <2>1 DEF Typed, Delivered
  <2> QED
    BY <1>1, <1>2, <1>3, <1>4, <2>1, <2>2, <2>3 DEF Delivers
<1>7. CASE Accepts(k) /\ k.ok
  <2>1. /\ Shows(k, [[app EXCEPT !.seq = k.seq]
                       EXCEPT !.layout = 0, !.attempts = 0, !.retry = FALSE])
        /\ client' = Completed(client, TRUE)
    BY <1>7 DEF HandleRefreshed
  <2> HIDE DEF k
  <2>2. /\ app' \in AppType /\ app'.seq = k.seq
        /\ ingress' \in [title : Nat, dirty : BOOLEAN, wake : BOOLEAN]
        /\ client' \in Clients /\ ShowsJob(k)
    BY <1>4, <2>1, ShowDoes
  <2>3. Typed'
    BY <1>1, <1>2, <2>2 DEF Typed, Delivered, AppType
  <2> QED
    BY <1>1, <1>2, <1>3, <1>4, <1>7, <2>2, <2>3 DEF Delivers, Accepts
<1>8. CASE Accepts(k) /\ ~k.ok
  <2>1. /\ UNCHANGED ingress
        /\ LET accepted == [app EXCEPT !.seq = k.seq]
               again == app.layout > 0
               retries == app.attempts < BackgroundRetries
           IN \/ /\ k.identity
                 /\ app' = [accepted EXCEPT !.layout = IF again THEN @ - 1 ELSE @]
                 /\ client' = Completed([client EXCEPT !.stale = @ \/ again], again)
              \/ /\ ~k.identity
                 /\ app' = [accepted EXCEPT !.retry = retries,
                             !.attempts = IF retries THEN @ + 1 ELSE @]
                 /\ client' = [client EXCEPT !.dirty = FALSE]
    <3>1. CASE k.identity
      BY <1>8, <3>1 DEF HandleRefreshed
    <3>2. CASE ~k.identity
      BY <1>8, <3>2 DEF HandleRefreshed
    <3> QED
      BY <3>1, <3>2
  <2> HIDE DEF k
  <2>2. app' \in AppType /\ app'.seq = k.seq /\ client' \in Clients /\ Fails(k)
    BY <1>4, <1>8, <2>1, FailDoes
  <2>3. Typed'
    BY <1>1, <1>2, <2>1, <2>2 DEF Typed, Delivered, AppType
  <2> QED
    BY <1>1, <1>2, <1>3, <1>4, <1>8, <2>2, <2>3 DEF Delivers, Accepts
<1> QED
  BY <1>6, <1>7, <1>8

(* A refresh moves on: next takes the place of job.                        *)
Swaps(job, next) ==
  /\ job \in client.jobs /\ next \in Jobs
  /\ client'.jobs = (client.jobs \ {job}) \cup {next}
  /\ client'.seq = client.seq /\ client'.dirty = client.dirty
  /\ next.seq = job.seq /\ next.identity = job.identity
  /\ UNCHANGED <<server, stream, recovery, local, ingress, chan, app>>
  /\ Sent' = Sent

Begins(job, next) ==
  /\ job.at = "waiting" /\ next.at = "asked" /\ next.gen = cache.gen
  /\ next.tree = job.tree /\ next.title = job.title /\ next.ok = job.ok
  /\ client'.stale = (client.stale /\ ~job.identity)
  /\ client'.queued = client.queued /\ UNCHANGED <<cache, spent>>
LEMMA BeginRefreshDoes ==
  ASSUME Typed, NEW job \in client.jobs, BeginRefresh(job)
  PROVE  Typed' /\ \E next : Swaps(job, next) /\ Begins(job, next)
<1> DEFINE next == [job EXCEPT !.at = "asked", !.gen = cache.gen]
           stale == client.stale /\ ~job.identity
           moved == [client EXCEPT !.jobs = (@ \ {job}) \cup {next}]
<1>0. /\ client \in Clients /\ job \in Jobs /\ cache.gen \in Nat
  BY DEF Typed, Clients
<1>1. /\ job.at = "waiting"
      /\ client' = [moved EXCEPT !.stale = stale]
      /\ UNCHANGED <<server, stream, cache, recovery, local, forwarder, ingress,
                     barrier, chan, app, spent>>
  BY <1>0 DEF BeginRefresh, Moved, daemonVars, forwarding, Clients
<1>b. job \in [seq : Nat, identity : BOOLEAN,
              at : {"waiting", "asked", "answered", "done", "free"},
              gen : Nat, tree : Nat, title : Nat, ok : BOOLEAN]
  BY <1>0 DEF Jobs
<1>c. next = [job EXCEPT !.at = "asked", !.gen = cache.gen]
  OBVIOUS
<1> HIDE DEF next
<1>2. next = [seq |-> job.seq, identity |-> job.identity, at |-> "asked",
              gen |-> cache.gen, tree |-> job.tree, title |-> job.title,
              ok |-> job.ok]
  BY <1>b, <1>c
<1>3. next \in Jobs
  BY <1>0, <1>2 DEF Jobs
<1>4. /\ moved \in Clients /\ moved.jobs = (client.jobs \ {job}) \cup {next}
      /\ moved.seq = client.seq /\ moved.dirty = client.dirty
      /\ moved.queued = client.queued
  BY <1>0, <1>3 DEF Clients
<1> HIDE DEF moved
<1>5. stale \in BOOLEAN
  OBVIOUS
<1> HIDE DEF stale
<1>6. /\ client' \in Clients /\ client'.jobs = moved.jobs
      /\ client'.seq = moved.seq /\ client'.dirty = moved.dirty
      /\ client'.queued = moved.queued /\ client'.stale = stale
  BY <1>1, <1>4, <1>5 DEF Clients
<1>7. Typed'
  BY <1>1, <1>6 DEF Typed
<1>8. Swaps(job, next)
  BY <1>1, <1>2, <1>3, <1>4, <1>6 DEF Swaps, Sent
<1>9. Begins(job, next)
  BY <1>1, <1>2, <1>4, <1>6 DEF Begins, stale
<1> QED
  BY <1>7, <1>8, <1>9

Quietly == <<cache, spent>>
SameMarks == client'.stale = client.stale /\ client'.queued = client.queued
Answers(job, next) ==
  /\ job.at = "asked" /\ next.at = "answered" /\ next.gen = job.gen
  /\ next.tree = server.tree /\ next.title = server.title /\ next.ok = job.ok
  /\ SameMarks /\ UNCHANGED Quietly
LEMMA GetTreeDoes ==
  ASSUME Typed, NEW job \in client.jobs, GetTree(job)
  PROVE  Typed' /\ \E next : Swaps(job, next) /\ Answers(job, next)
<1> DEFINE next == [job EXCEPT !.at = "answered", !.tree = server.tree,
                                                  !.title = server.title]
<1>0. /\ client \in Clients /\ job \in Jobs
      /\ server.tree \in Nat /\ server.title \in Nat
  BY DEF Typed, Clients
<1>1. /\ job.at = "asked"
      /\ client' = [client EXCEPT !.jobs = (@ \ {job}) \cup {next}]
      /\ UNCHANGED <<server, stream, cache, recovery, local, forwarder, ingress,
                     barrier, chan, app, spent>>
  BY DEF GetTree, Moved, daemonVars, forwarding
<1>b. job \in [seq : Nat, identity : BOOLEAN,
              at : {"waiting", "asked", "answered", "done", "free"},
              gen : Nat, tree : Nat, title : Nat, ok : BOOLEAN]
  BY <1>0 DEF Jobs
<1>c. next = [job EXCEPT !.at = "answered", !.tree = server.tree,
              !.title = server.title]
  OBVIOUS
<1> HIDE DEF next
<1>2. next = [seq |-> job.seq, identity |-> job.identity, at |-> "answered",
              gen |-> job.gen, tree |-> server.tree, title |-> server.title,
              ok |-> job.ok]
  BY <1>b, <1>c
<1>3. next \in Jobs
  BY <1>0, <1>2 DEF Jobs
<1>4. /\ client' \in Clients /\ client'.jobs = (client.jobs \ {job}) \cup {next}
      /\ client'.seq = client.seq /\ client'.dirty = client.dirty
      /\ SameMarks
  BY <1>0, <1>1, <1>3 DEF Clients, SameMarks
<1>5. Typed'
  BY <1>1, <1>4 DEF Typed
<1>6. Swaps(job, next)
  BY <1>1, <1>2, <1>3, <1>4 DEF Swaps, Sent
<1>7. Answers(job, next)
  BY <1>1, <1>2, <1>4 DEF Answers, Quietly
<1> QED
  BY <1>5, <1>6, <1>7

LEMMA ReplacedType ==
  ASSUME Typed, NEW job \in Jobs
  PROVE  /\ Replaced(job) \in [tree : Nat, title : Nat, gen : Nat,
                               late : [gen : Nat, title : Nat]]
         /\ Replaced(job).tree = job.tree /\ Replaced(job).gen = cache.gen
         /\ cache.late.gen > job.gen /\ HasTab(job.tree) =>
              Replaced(job).title = cache.late.title
         /\ ~(cache.late.gen > job.gen /\ HasTab(job.tree)) =>
              Replaced(job).title = job.title
         /\ cache.late.gen > job.gen /\ ~HasTab(job.tree) =>
              Replaced(job).late = cache.late
         /\ ~(cache.late.gen > job.gen /\ ~HasTab(job.tree)) =>
              Replaced(job).late = [gen |-> 0, title |-> NoTitle]
<1> DEFINE isLate == cache.late.gen > job.gen
           keeps == isLate /\ ~HasTab(job.tree)
           title == IF isLate /\ HasTab(job.tree) THEN cache.late.title ELSE job.title
           late == IF keeps THEN cache.late ELSE [gen |-> 0, title |-> NoTitle]
<1>0. /\ cache \in [tree : Nat, title : Nat, gen : Nat,
                   late : [gen : Nat, title : Nat]]
      /\ job.tree \in Nat /\ job.title \in Nat
  BY DEF Typed, Jobs
<1>1. title \in Nat /\ late \in [gen : Nat, title : Nat]
  BY <1>0 DEF NoTitle
<1>2. Replaced(job) = [cache EXCEPT !.tree = job.tree, !.title = title, !.late = late]
  BY DEF Replaced
<1>3. /\ isLate /\ HasTab(job.tree) => title = cache.late.title
      /\ ~(isLate /\ HasTab(job.tree)) => title = job.title
      /\ keeps => late = cache.late
      /\ ~keeps => late = [gen |-> 0, title |-> NoTitle]
  OBVIOUS
<1> HIDE DEF title, late
<1>4. Replaced(job) = [tree |-> job.tree, title |-> title, gen |-> cache.gen,
                       late |-> late]
  BY <1>0, <1>2
<1>5. cache.gen \in Nat
  BY <1>0
<1>6. /\ Replaced(job) \in [tree : Nat, title : Nat, gen : Nat,
                            late : [gen : Nat, title : Nat]]
      /\ Replaced(job).tree = job.tree /\ Replaced(job).gen = cache.gen
      /\ Replaced(job).title = title /\ Replaced(job).late = late
  BY <1>0, <1>1, <1>4, <1>5
<1> QED
  BY <1>3, <1>6

Replaces(job, next) ==
  /\ job.at = "answered" /\ next.at = "done" /\ next.ok
  /\ next.gen = job.gen /\ next.tree = job.tree /\ next.title = cache'.title
  /\ cache' = Replaced(job) /\ SameMarks /\ UNCHANGED spent
LEMMA ReplaceDoes ==
  ASSUME Typed, NEW job \in client.jobs, Replace(job)
  PROVE  Typed' /\ \E next : Swaps(job, next) /\ Replaces(job, next)
<1> DEFINE title == Replaced(job).title
           next == [job EXCEPT !.at = "done", !.ok = TRUE, !.title = title]
<1>0. client \in Clients /\ job \in Jobs
  BY DEF Typed, Clients
<1>1. /\ job.at = "answered" /\ cache' = Replaced(job)
      /\ client' = [client EXCEPT !.jobs = (@ \ {job}) \cup {next}]
      /\ UNCHANGED <<server, stream, recovery, local, forwarder, ingress,
                     barrier, chan, app, spent>>
  BY DEF Replace, Moved, daemonVars, forwarding
<1>a. /\ cache' \in [tree : Nat, title : Nat, gen : Nat,
                     late : [gen : Nat, title : Nat]]
      /\ cache'.title = title /\ title \in Nat
  BY <1>0, <1>1, ReplacedType
<1> HIDE DEF title
<1>b. job \in [seq : Nat, identity : BOOLEAN,
              at : {"waiting", "asked", "answered", "done", "free"},
              gen : Nat, tree : Nat, title : Nat, ok : BOOLEAN]
  BY <1>0 DEF Jobs
<1>c. next = [job EXCEPT !.at = "done", !.ok = TRUE, !.title = title]
  OBVIOUS
<1> HIDE DEF next
<1>2. next = [seq |-> job.seq, identity |-> job.identity, at |-> "done",
              gen |-> job.gen, tree |-> job.tree, title |-> title, ok |-> TRUE]
  BY <1>b, <1>c
<1>3. next \in Jobs
  BY <1>0, <1>a, <1>2 DEF Jobs
<1>4. /\ client' \in Clients /\ client'.jobs = (client.jobs \ {job}) \cup {next}
      /\ client'.seq = client.seq /\ client'.dirty = client.dirty
      /\ SameMarks
  BY <1>0, <1>1, <1>3 DEF Clients, SameMarks
<1>5. Typed'
  BY <1>1, <1>a, <1>4 DEF Typed
<1>6. Swaps(job, next)
  BY <1>1, <1>2, <1>3, <1>4 DEF Swaps, Sent
<1>7. Replaces(job, next)
  BY <1>1, <1>a, <1>2, <1>4 DEF Replaces
<1> QED
  BY <1>5, <1>6, <1>7

Abandons(job, next) ==
  /\ job.at \in {"asked", "answered"} /\ next.at = "done" /\ next.gen = job.gen
  /\ next.tree = job.tree /\ next.title = job.title /\ next.ok = job.ok
  /\ client'.stale = (client.stale \/ job.identity)
  /\ client'.queued = client.queued /\ UNCHANGED cache
  /\ spent'.failures = spent.failures + 1 /\ spent'.lost = spent.lost
LEMMA AbandonDoes ==
  ASSUME Typed, NEW job \in client.jobs, Fail(job)
  PROVE  Typed' /\ \E next : Swaps(job, next) /\ Abandons(job, next)
<1> DEFINE next == [job EXCEPT !.at = "done"]
           stale == client.stale \/ job.identity
           moved == [client EXCEPT !.jobs = (@ \ {job}) \cup {next}]
<1>0. /\ client \in Clients /\ job \in Jobs
      /\ spent \in [mutations : Nat, failures : Nat, inputs : Nat, lost : BOOLEAN]
  BY DEF Typed, Clients
<1>1. /\ job.at \in {"asked", "answered"}
      /\ client' = [moved EXCEPT !.stale = stale]
      /\ spent' = [spent EXCEPT !.failures = @ + 1]
      /\ UNCHANGED <<server, stream, cache, recovery, local, forwarder, ingress,
                     barrier, chan, app>>
  BY <1>0 DEF Fail, Moved, daemonVars, forwarding, Clients
<1>2. next = [seq |-> job.seq, identity |-> job.identity, at |-> "done",
              gen |-> job.gen, tree |-> job.tree, title |-> job.title,
              ok |-> job.ok]
  BY <1>0 DEF Jobs
<1> HIDE DEF next
<1>3. next \in Jobs
  BY <1>0, <1>2 DEF Jobs
<1>4. /\ moved \in Clients /\ moved.jobs = (client.jobs \ {job}) \cup {next}
      /\ moved.seq = client.seq /\ moved.dirty = client.dirty
      /\ moved.queued = client.queued
  BY <1>0, <1>3 DEF Clients
<1> HIDE DEF moved
<1>5. stale \in BOOLEAN
  BY <1>0 DEF Clients, Jobs
<1> HIDE DEF stale
<1>6. /\ client' \in Clients /\ client'.jobs = moved.jobs
      /\ client'.seq = moved.seq /\ client'.dirty = moved.dirty
      /\ client'.queued = moved.queued /\ client'.stale = stale
  BY <1>1, <1>4, <1>5 DEF Clients
<1>a. /\ spent' \in [mutations : Nat, failures : Nat, inputs : Nat, lost : BOOLEAN]
      /\ spent'.failures = spent.failures + 1 /\ spent'.lost = spent.lost
  BY <1>0, <1>1
<1>7. Typed'
  BY <1>1, <1>6, <1>a DEF Typed
<1>8. Swaps(job, next)
  BY <1>1, <1>2, <1>3, <1>4, <1>6 DEF Swaps, Sent
<1>9. Abandons(job, next)
  BY <1>1, <1>2, <1>4, <1>6, <1>a DEF Abandons, stale
<1> QED
  BY <1>7, <1>8, <1>9

Drops(job, next) ==
  /\ job.at = "done" /\ next.at = "free" /\ next.gen = job.gen
  /\ next.tree = job.tree /\ next.title = job.title /\ next.ok = job.ok
  /\ client'.stale = client.stale /\ ~client'.queued /\ UNCHANGED Quietly
LEMMA DropClaimDoes ==
  ASSUME Typed, NEW job \in client.jobs, DropClaim(job)
  PROVE  Typed' /\ \E next : Swaps(job, next) /\ Drops(job, next)
<1> DEFINE next == [job EXCEPT !.at = "free"]
           moved == [client EXCEPT !.jobs = (@ \ {job}) \cup {next}]
<1>0. client \in Clients /\ job \in Jobs
  BY DEF Typed, Clients
<1>1. /\ job.at = "done"
      /\ client' = [moved EXCEPT !.queued = FALSE]
      /\ UNCHANGED <<server, stream, cache, recovery, local, forwarder, ingress,
                     barrier, chan, app, spent>>
  BY DEF DropClaim, Moved, daemonVars, forwarding
<1>2. next = [seq |-> job.seq, identity |-> job.identity, at |-> "free",
              gen |-> job.gen, tree |-> job.tree, title |-> job.title,
              ok |-> job.ok]
  BY <1>0 DEF Jobs
<1> HIDE DEF next
<1>3. next \in Jobs
  BY <1>0, <1>2 DEF Jobs
<1>4. /\ moved \in Clients /\ moved.jobs = (client.jobs \ {job}) \cup {next}
      /\ moved.seq = client.seq /\ moved.dirty = client.dirty
      /\ moved.stale = client.stale
  BY <1>0, <1>3 DEF Clients
<1> HIDE DEF moved
<1>6. /\ client' \in Clients /\ client'.jobs = moved.jobs
      /\ client'.seq = moved.seq /\ client'.dirty = moved.dirty
      /\ client'.queued = FALSE /\ client'.stale = moved.stale
  BY <1>1, <1>4 DEF Clients
<1>7. Typed'
  BY <1>1, <1>6 DEF Typed
<1>8. Swaps(job, next)
  BY <1>1, <1>2, <1>3, <1>4, <1>6 DEF Swaps, Sent
<1>9. Drops(job, next)
  BY <1>1, <1>2, <1>4, <1>6 DEF Drops, Quietly
<1> QED
  BY <1>7, <1>8, <1>9

(* The result of a refresh goes to the application.                        *)
Sends(job) ==
  /\ job \in client.jobs /\ job.at = "free"
  /\ client'.jobs = client.jobs \ {job} /\ Sent' = Sent \cup {job}
  /\ client'.seq = client.seq /\ client'.dirty = client.dirty
  /\ client'.stale = client.stale /\ client'.queued = client.queued
  /\ SameNews(chan, chan')
  /\ UNCHANGED <<server, stream, cache, recovery, local, ingress, app, spent>>
LEMMA SendDoes ==
  ASSUME Typed, NEW job \in client.jobs, Send(job)
  PROVE  Typed' /\ Sends(job)
<1> DEFINE message == [kind |-> "refreshed", job |-> job]
<1>0. client \in Clients /\ job \in Jobs /\ chan \in Seq(Messages)
  BY DEF Typed, Clients
<1>1. /\ job.at = "free" /\ client' = [client EXCEPT !.jobs = @ \ {job}]
      /\ chan' = Append(chan, message)
      /\ UNCHANGED <<server, stream, cache, recovery, local, forwarder, ingress,
                     barrier, app, spent>>
  BY DEF Send, daemonVars, forwarding
<1>2. message \in Messages /\ message.kind = "refreshed" /\ message.job = job
  BY <1>0 DEF Messages
<1> HIDE DEF message
<1>3. /\ client' \in Clients /\ client'.jobs = client.jobs \ {job}
      /\ client'.seq = client.seq /\ client'.dirty = client.dirty
      /\ client'.stale = client.stale /\ client'.queued = client.queued
  BY <1>0, <1>1 DEF Clients
<1>4. chan' \in Seq(Messages) /\ SameNews(chan, chan')
  BY <1>0, <1>1, <1>2, AppendHas DEF SameNews, Kinds
<1>5. Sent' = Sent \cup {job}
  BY <1>0, <1>1, <1>2, AppendSent DEF Sent
<1>6. Typed'
  BY <1>1, <1>3, <1>4 DEF Typed
<1> QED
  BY <1>1, <1>3, <1>4, <1>5, <1>6 DEF Sends

-----------------------------------------------------------------------------
(* One step of the session.                                                *)

ReadsEvent ==
  /\ Reads /\ Head(stream.events) \in Streamed
  /\ ReadsChange(Head(stream.events)) \/ ReadsTitle(Head(stream.events))
Moves(job, next) ==
  \/ Begins(job, next) \/ Answers(job, next) \/ Replaces(job, next)
  \/ Abandons(job, next) \/ Drops(job, next)
Swapping == \E job \in Jobs, next \in Jobs : Swaps(job, next) /\ Moves(job, next)
Delivering == \E k \in Jobs : Delivers(k)
Sending == \E job \in Jobs : Sends(job)
Effects ==
  \/ Grows \/ Retitles \/ Returns \/ ReadsEvent \/ Reopens \/ Forwards
  \/ HandlesChange \/ HandlesTitles \/ Nudges \/ Delivering
  \/ Swapping \/ Sending

LEMMA DueType ==
  ASSUME Typed
  PROVE  /\ client.seq \in Nat /\ app.seq \in Nat
         /\ client.stale \in BOOLEAN /\ client.queued \in BOOLEAN
         /\ client.jobs \subseteq Jobs /\ Sent \subseteq Jobs /\ Due \subseteq Jobs
         /\ \A j \in Jobs :
              /\ j.seq \in Nat /\ j.gen \in Nat /\ j.tree \in Nat /\ j.title \in Nat
              /\ j.ok \in BOOLEAN /\ j.identity \in BOOLEAN
              /\ j.at \in {"waiting", "asked", "answered", "done", "free"}
<1>1. Sent \subseteq Jobs
  BY SentJobs DEF Sent, Typed
<1>2. client \in Clients /\ app.seq \in Nat
  BY DEF Typed
<1>3. /\ client.seq \in Nat /\ client.jobs \subseteq Jobs
      /\ client.stale \in BOOLEAN /\ client.queued \in BOOLEAN
  BY <1>2 DEF Clients
<1>4. Due \subseteq Jobs
  BY <1>1, <1>3 DEF Due
<1> QED
  BY <1>1, <1>2, <1>3, <1>4 DEF Jobs

(* Every step, as long as the mailbox of the client holds, has one of      *)
(* these effects.                                                          *)
LEMMA StepDoes ==
  ASSUME Typed, OneClaim, TreeNext, barrier'.last = 0
  PROVE  Typed' /\ Effects
<1>0. /\ forwarder = [at |-> "run", backlog |-> <<>>] /\ barrier.last = 0
      /\ client.jobs \subseteq Jobs /\ barrier = [now |-> 0, last |-> 0]
  BY DueType DEF Typed
<1>1. ASSUME NEW e \in {Tree, Layout}, Change(e) \/ Mutate(e)
      PROVE  Typed' /\ Effects
  BY <1>1, ChangeDoes DEF Effects
<1>2. CASE Retitle
  BY <1>2, RetitleDoes DEF Effects
<1>3. CASE MutationReturns
  BY <1>3, ReturnDoes DEF Effects
<1>4. CASE Read
  BY <1>4, ReadDoes DEF Effects, ReadsEvent
<1>5. CASE ReadOverflow \/ Resubscribe \/ Resubscribed
  BY <1>5, OverflowDoes, ReopenDoes DEF Effects
<1>6. CASE Forward
  BY <1>6, ForwardDoes DEF Effects
<1>7. CASE HandleChange
  BY <1>7, HandleChangeDoes DEF Effects
<1>8. CASE HandleTitles
  BY <1>8, HandleTitlesDoes DEF Effects
<1>9. CASE HandleCommitted \/ RetryIsDue \/ Input
  BY <1>9, NudgeDoes DEF Effects
<1>10. CASE HandleRefreshed
  BY <1>10, HandleRefreshedDoes DEF Effects, Delivering
<1>11. ASSUME NEW job \in client.jobs, Refresh(job) \/ Fail(job)
       PROVE  Typed' /\ Effects
  <2>1. CASE Send(job)
    BY <1>0, <2>1, SendDoes DEF Effects, Sending
  <2>2. CASE ~Send(job)
    <3>1. /\ Typed'
          /\ \E next : Swaps(job, next) /\ Moves(job, next)
      BY <1>11, <2>2, BeginRefreshDoes, GetTreeDoes, ReplaceDoes, AbandonDoes,
         DropClaimDoes DEF Refresh, Moves
    <3>2. \A next : Swaps(job, next) => next \in Jobs
      BY DEF Swaps
    <3> QED
      BY <1>0, <3>1, <3>2 DEF Effects, Swapping
  <2> QED
    BY <2>1, <2>2
<1>12. ASSUME StartRecovery PROVE FALSE
  BY <1>0, <1>12 DEF StartRecovery
<1>13. ASSUME Drain \/ AskForTree \/ EndRecovery PROVE FALSE
  BY <1>0, <1>13 DEF Drain, AskForTree, EndRecovery
<1>14. ASSUME NEW job \in client.jobs, Recover(job) PROVE FALSE
  <2>1. job \in Due /\ job.seq = Forwarder /\ Forwarder \in Nat
    BY <1>14 DEF Recover, Due, Forwarder
  <2> QED
    BY <2>1 DEF OneClaim
<1>15. ASSUME HandleRecovered \/ HandleComplete PROVE FALSE
  <2>1. PICK kind \in {"recovered", "complete"} : Turn(kind)
    BY <1>15 DEF HandleRecovered, HandleComplete
  <2>2. Head(chan) \in Messages /\ Head(chan).kind = kind
    BY <2>1, TurnTakes
  <2> QED
    BY <2>1, <2>2 DEF Messages, Streamed
<1> QED
  BY <1>1, <1>2, <1>3, <1>4, <1>5, <1>6, <1>7, <1>8, <1>9, <1>10, <1>11, <1>12,
     <1>13, <1>14, <1>15 DEF TreeNext, ForwarderStep, AppStep

(* The claim: a turn of the application starts a refresh or rests.         *)
LEMMA TurnClaim ==
  ASSUME Typed, Typed', OneClaim,
         Starts(client, client') \/ Rests(client, client'),
         Sent' \subseteq Sent, app.seq <= app'.seq,
         app'.seq = app.seq \/ \E k \in Sent : app'.seq = k.seq,
         \A j \in Sent : j \in Sent' \/ j.seq <= app'.seq
  PROVE  OneClaim'
<1>0. /\ client.seq \in Nat /\ app.seq \in Nat /\ app'.seq \in Nat
      /\ client'.seq \in Nat /\ Forwarder \in Nat
      /\ \A j \in Due : j.seq \in Nat
  BY DueType DEF Forwarder, Typed, Clients
<1>1. app'.seq <= client.seq
  BY DEF OneClaim, Due
<1>2. CASE Rests(client, client')
  <2>1. /\ client'.jobs = client.jobs /\ client'.seq = client.seq
        /\ client'.queued = client.queued
    BY <1>2 DEF Rests
  <2>2. Due' \subseteq Due
    BY <2>1 DEF Due
  <2>3. ASSUME NEW j \in client'.jobs, j.at # "free"
        PROVE  /\ client'.queued /\ j.seq = client'.seq /\ app'.seq < j.seq
               /\ \A k \in Due' : k.seq = j.seq => k = j
    <3>1. /\ client.queued /\ j.seq = client.seq /\ app.seq < j.seq
          /\ \A k \in Due : k.seq = j.seq => k = j
      BY <2>1, <2>3 DEF OneClaim
    <3>2. \A k \in Sent : k.seq # j.seq /\ k.seq <= client.seq
      BY <2>3, <3>1 DEF OneClaim, Due
    <3> QED
      BY <1>0, <2>1, <2>2, <3>1, <3>2 DEF Due
  <2>4. ASSUME Owing' PROVE \E j \in Due' : j.seq = client'.seq
    <3>1. Owing
      BY <1>0, <2>1, <2>4 DEF Owing
    <3>2. PICK j \in Due : j.seq = client.seq
      BY <3>1 DEF OneClaim
    <3>3. ~(j.seq <= app'.seq)
      BY <1>0, <2>1, <2>4, <3>2 DEF Owing
    <3> QED
      BY <2>1, <3>2, <3>3 DEF Due
  <2> QED
    BY <1>1, <2>1, <2>2, <2>3, <2>4 DEF OneClaim
<1>3. CASE Starts(client, client')
  <2>1. PICK identity \in BOOLEAN :
          client'.jobs = client.jobs \cup {Job(client.seq + 1, identity)}
    BY <1>3 DEF Starts
  <2>2. ~client.queued /\ client'.queued /\ client'.seq = client.seq + 1
    BY <1>3 DEF Starts
  <2> DEFINE new == Job(client.seq + 1, identity)
  <2>3. new.seq = client.seq + 1 /\ new.at = "waiting"
    <3>1. client.seq + 1 \in Nat
      BY <1>0
    <3> QED
      BY <2>1, <3>1, JobType
  <2> HIDE DEF new
  <2>4. client'.jobs = client.jobs \cup {new} /\ Due' \subseteq Due \cup {new}
    BY <2>1 DEF new, Due
  <2>5. \A j \in client.jobs : j.at = "free"
    BY <2>2 DEF OneClaim
  <2>6. \A j \in Due : j.seq <= client.seq /\ Forwarder < j.seq
    BY DEF OneClaim
  <2>7. client.seq >= Forwarder /\ \A j \in Sent : j.at = "free"
    BY DEF OneClaim
  <2> QED
    BY <1>0, <1>1, <2>2, <2>3, <2>4, <2>5, <2>6, <2>7 DEF OneClaim, Due
<1> QED
  BY <1>2, <1>3

(* A refresh that moves on is the last one, and the others have ended.      *)
LEMMA SwapDue ==
  ASSUME Typed, OneClaim, NEW job \in Jobs, NEW next \in Jobs,
         Swaps(job, next), Moves(job, next)
  PROVE  /\ job \in Due /\ next \in Due' /\ client.queued /\ Owing
         /\ client'.seq = client.seq /\ job.seq = client.seq /\ next.seq = client.seq
         /\ app' = app /\ Owing'
         /\ \A k \in Due' : k = next
              \/ (k \in Due /\ k # job /\ k.at = "free" /\ k.seq < client.seq)
<1>0. /\ client.seq \in Nat /\ app.seq \in Nat /\ Forwarder \in Nat
      /\ \A j \in Due : j.seq \in Nat
  BY DueType DEF Forwarder
<1>1. /\ job \in client.jobs /\ client'.jobs = (client.jobs \ {job}) \cup {next}
      /\ client'.seq = client.seq /\ app' = app /\ next.seq = job.seq /\ Sent' = Sent
  BY DEF Swaps
<1>2. job.at # "free"
  BY DEF Moves, Begins, Answers, Replaces, Abandons, Drops
<1>3. /\ client.queued /\ job.seq = client.seq /\ app.seq < job.seq
      /\ \A k \in Due : k.seq = job.seq => k = job
  BY <1>1, <1>2 DEF OneClaim
<1>4. \A j \in Due : j # job => j.at = "free" /\ j.seq < client.seq
  <2> SUFFICES ASSUME NEW j \in Due, j # job
               PROVE  j.at = "free" /\ j.seq < client.seq
    OBVIOUS
  <2>1. j.seq <= client.seq /\ j.seq # client.seq
    BY <1>3 DEF OneClaim
  <2>2. j.at = "free"
    BY <2>1 DEF OneClaim, Due
  <2> QED
    BY <1>0, <2>1, <2>2
<1>5. job \notin Sent
  BY <1>2 DEF OneClaim
<1>6. \A k \in Due' : k = next \/ (k \in Due /\ k # job)
  BY <1>1, <1>5 DEF Due
<1>7. job \in Due /\ next \in Due' /\ client.seq > Forwarder
  BY <1>1, <1>3 DEF Due, OneClaim
<1>8. Owing /\ Owing'
  BY <1>0, <1>1, <1>3, <1>7 DEF Owing
<1> QED
  BY <1>1, <1>3, <1>4, <1>6, <1>7, <1>8

LEMMA SwapClaim ==
  ASSUME Typed, OneClaim, NEW job \in Jobs, NEW next \in Jobs,
         Swaps(job, next), Moves(job, next)
  PROVE  OneClaim'
<1>0. /\ client.seq \in Nat /\ app.seq \in Nat /\ Forwarder \in Nat
      /\ \A j \in Due : j.seq \in Nat
  BY DueType DEF Forwarder
<1>1. /\ client'.jobs = (client.jobs \ {job}) \cup {next} /\ Sent' = Sent
      /\ client'.seq = client.seq /\ app' = app /\ next.seq = client.seq
      /\ next \in client'.jobs /\ next \in Due' /\ job \in Due
      /\ job.seq = client.seq
  BY SwapDue DEF Swaps
<1>2. \A k \in Due' : k = next \/ (k \in Due /\ k.at = "free" /\ k.seq < client.seq)
  BY SwapDue
<1>3. client.queued /\ app.seq < client.seq /\ Forwarder < client.seq
  BY SwapDue DEF Owing
<1>4. client'.queued <=> next.at # "free"
  BY <1>3 DEF Moves, Begins, Answers, Replaces, Abandons, Drops, SameMarks
<1>5. ASSUME NEW j \in client'.jobs, j.at # "free"
      PROVE  /\ client'.queued /\ j.seq = client'.seq /\ app'.seq < j.seq
             /\ \A k \in Due' : k.seq = j.seq => k = j
  <2>1. j = next
    BY <1>2, <1>5 DEF Due
  <2> QED
    BY <1>0, <1>1, <1>2, <1>3, <1>4, <1>5, <2>1
<1>6. \A j \in Due' : Forwarder < j.seq /\ j.seq <= client'.seq
  BY <1>0, <1>1, <1>2, <1>3 DEF OneClaim
<1>7. \A j \in Sent' : j.at = "free"
  BY <1>1 DEF OneClaim
<1>8. client'.seq >= Forwarder /\ app'.seq <= client'.seq
  BY <1>1 DEF OneClaim
<1> QED
  BY <1>1, <1>4, <1>5, <1>6, <1>7, <1>8 DEF OneClaim

(* A turn of the application adds nothing but a new refresh.               *)
LEMMA TurnDue ==
  ASSUME Typed, Starts(client, client') \/ Rests(client, client'),
         Sent' \subseteq Sent
  PROVE  /\ client'.seq \in {client.seq, client.seq + 1}
         /\ \A j \in Due' : j \in Due
              \/ (/\ Starts(client, client') /\ j.seq = client.seq + 1
                  /\ j.at = "waiting" /\ j.gen = 0 /\ ~j.ok)
<1>0. client.seq + 1 \in Nat
  BY DueType
<1>1. CASE Rests(client, client')
  BY <1>1 DEF Rests, Due
<1>2. CASE Starts(client, client')
  <2>1. PICK identity \in BOOLEAN :
          client'.jobs = client.jobs \cup {Job(client.seq + 1, identity)}
    BY <1>2 DEF Starts
  <2> DEFINE new == Job(client.seq + 1, identity)
  <2>2. /\ new.seq = client.seq + 1 /\ new.at = "waiting" /\ new.gen = 0
        /\ ~new.ok
    BY <1>0, JobType
  <2>3. Due' \subseteq Due \cup {new}
    BY <2>1 DEF Due
  <2> HIDE DEF new
  <2> QED
    BY <1>2, <2>2, <2>3 DEF Starts
<1> QED
  BY <1>1, <1>2

(* One refresh at a time.                                                  *)
LEMMA KeepsOneClaim ==
  ASSUME Typed, Typed', OneClaim, Effects
  PROVE  OneClaim'
<1>0. client.seq \in Nat /\ app.seq \in Nat /\ Rests(client, client)
  BY DueType DEF Rests
<1>1. CASE Grows \/ Retitles
  BY <1>0, <1>1, TurnClaim DEF Grows, Retitles, Reader, Sent
<1>2. CASE Returns \/ Reopens \/ Forwards
  BY <1>0, <1>2, TurnClaim DEF Returns, Reopens, Forwards, Reopening, Sent
<1>3. CASE ReadsEvent
  BY <1>0, <1>3, TurnClaim DEF ReadsEvent, Reads, Sent
<1>4. CASE HandlesChange \/ HandlesTitles
  BY <1>0, <1>4, TurnClaim DEF HandlesChange, HandlesTitles, Idle
<1>5. CASE Nudges
  BY <1>0, <1>5, TurnClaim DEF Nudges
<1>6. CASE Delivering
  <2>1. PICK k \in Jobs : Delivers(k)
    BY <1>6 DEF Delivering
  <2>2. k.seq \in Nat /\ k \in Sent /\ Sent' \subseteq Sent /\ Sent \subseteq Sent' \cup {k}
    BY <2>1, DueType DEF Delivers
  <2>3. CASE k.seq <= app.seq
    <3>1. app' = app /\ client' = client
      BY <1>0, <2>1, <2>2, <2>3 DEF Delivers
    <3> QED
      BY <1>0, <2>2, <2>3, <3>1, TurnClaim
  <2>4. CASE k.seq > app.seq
    <3>1. /\ app'.seq = k.seq
          /\ Starts(client, client') \/ Rests(client, client')
      BY <1>0, <2>1, <2>2, <2>4 DEF Delivers, ShowsJob, Fails
    <3> QED
      BY <1>0, <2>2, <2>4, <3>1, TurnClaim
  <2> QED
    BY <1>0, <2>2, <2>3, <2>4
<1>7. CASE Swapping
  BY <1>7, SwapClaim DEF Swapping
<1>8. CASE Sending
  <2>1. PICK job \in Jobs : Sends(job)
    BY <1>8 DEF Sending
  <2>2. /\ job \in client.jobs /\ job.at = "free" /\ client'.jobs = client.jobs \ {job}
        /\ Sent' = Sent \cup {job} /\ client'.seq = client.seq
        /\ client'.queued = client.queued /\ app' = app
    BY <2>1 DEF Sends
  <2>3. Due' = Due
    BY <2>2 DEF Due
  <2> QED
    BY <2>2, <2>3 DEF OneClaim, Owing
<1> QED
  BY <1>1, <1>2, <1>3, <1>4, <1>5, <1>6, <1>7, <1>8 DEF Effects

(* The trees.                                                              *)
Like(j, k) ==
  /\ j.seq = k.seq /\ j.tree = k.tree /\ j.ok = k.ok
  /\ (Ended(j) <=> Ended(k)) /\ (j.at = "answered" <=> k.at = "answered")
Plain(j) ==
  /\ ~j.ok
  /\ \/ j.at \in {"waiting", "asked"}
     \/ j.at = "answered" /\ j.tree = server'.tree
     \/ Ended(j) /\ spent'.failures > 0
LEMMA SameTrees ==
  ASSUME Typed, Typed', OneClaim, TreesInOrder,
         app'.tree = app.tree, cache'.tree = cache.tree,
         server.tree <= server'.tree, app.seq <= app'.seq,
         client.seq <= client'.seq, spent.failures <= spent'.failures,
         \A j \in Due' : (\E k \in Due : Like(j, k)) \/ Plain(j)
  PROVE  TreesInOrder' /\ app.tree <= app'.tree
<1>0. /\ client.seq \in Nat /\ app.seq \in Nat /\ app'.seq \in Nat
      /\ client'.seq \in Nat
      /\ app.tree \in Nat /\ cache.tree \in Nat /\ server.tree \in Nat
      /\ server'.tree \in Nat /\ spent.failures \in Nat /\ spent'.failures \in Nat
  BY DEF Typed, Clients
<1>1. \A j \in Due : j.seq \in Nat /\ j.tree \in Nat /\ j.seq <= client.seq
  BY DueType DEF OneClaim
<1>2. 1 <= app'.tree /\ app'.tree <= cache'.tree /\ cache'.tree <= server'.tree
  BY <1>0 DEF TreesInOrder
<1>3. ASSUME NEW j \in Due'
      PROVE  /\ j.ok => Ended(j)
             /\ Ended(j) => j.ok \/ spent'.failures > 0
             /\ j.at = "answered" => cache'.tree <= j.tree /\ j.tree <= server'.tree
             /\ j.ok => /\ 1 <= j.tree /\ j.tree <= cache'.tree
                        /\ j.seq = client'.seq => j.tree = cache'.tree
                        /\ app'.seq < j.seq => app'.tree <= j.tree
  <2>1. CASE Plain(j)
    BY <1>0, <1>2, <2>1 DEF Plain, Ended
  <2>2. ASSUME NEW k \in Due, Like(j, k)
        PROVE  /\ j.ok => Ended(j)
               /\ Ended(j) => j.ok \/ spent'.failures > 0
               /\ j.at = "answered" => cache'.tree <= j.tree /\ j.tree <= server'.tree
               /\ j.ok => /\ 1 <= j.tree /\ j.tree <= cache'.tree
                          /\ j.seq = client'.seq => j.tree = cache'.tree
                          /\ app'.seq < j.seq => app'.tree <= j.tree
    <3>1. /\ j.seq = k.seq /\ j.tree = k.tree /\ j.ok = k.ok
          /\ (Ended(j) <=> Ended(k)) /\ (j.at = "answered" <=> k.at = "answered")
      BY <2>2 DEF Like
    <3>2. /\ k.ok => Ended(k)
          /\ Ended(k) => k.ok \/ spent.failures > 0
          /\ k.at = "answered" => cache.tree <= k.tree /\ k.tree <= server.tree
          /\ k.ok => /\ 1 <= k.tree /\ k.tree <= cache.tree
                     /\ k.seq = client.seq => k.tree = cache.tree
                     /\ app.seq < k.seq => app.tree <= k.tree
      BY <2>2 DEF TreesInOrder
    <3>3. k.tree \in Nat /\ k.seq \in Nat /\ k.seq <= client.seq
      BY <1>1, <2>2
    <3> QED
      BY <1>0, <3>1, <3>2, <3>3
  <2> QED
    BY <2>1, <2>2
<1>4. ASSUME NEW i \in Due', NEW j \in Due', i.ok, j.ok, i.seq < j.seq
      PROVE  i.tree <= j.tree
  <2>1. PICK a \in Due, b \in Due : Like(i, a) /\ Like(j, b)
    BY <1>4 DEF Plain
  <2>2. a.ok /\ b.ok /\ a.seq < b.seq /\ a.tree = i.tree /\ b.tree = j.tree
    BY <1>4, <2>1 DEF Like
  <2> QED
    BY <2>2 DEF TreesInOrder
<1> QED
  BY <1>0, <1>2, <1>3, <1>4 DEF TreesInOrder

LEMMA ReplacedTrees ==
  ASSUME Typed, Typed', OneClaim, TreesInOrder, NEW job \in Jobs, NEW next \in Jobs,
         Swaps(job, next), Replaces(job, next)
  PROVE  TreesInOrder' /\ app.tree <= app'.tree
<1>0. /\ client.seq \in Nat /\ app.seq \in Nat
      /\ app.tree \in Nat /\ cache.tree \in Nat /\ server.tree \in Nat
      /\ \A j \in Due : j.seq \in Nat /\ j.tree \in Nat
  BY DueType DEF Typed
<1>1. /\ job \in Due /\ client'.seq = client.seq /\ next.seq = client.seq /\ app' = app
      /\ \A k \in Due' : k = next
           \/ (k \in Due /\ k.at = "free" /\ k.seq < client.seq)
  BY SwapDue DEF Moves
<1>2. /\ job.at = "answered" /\ next.at = "done" /\ next.ok /\ next.tree = job.tree
      /\ spent' = spent /\ server' = server /\ cache'.tree = job.tree
  BY ReplacedType DEF Replaces, Swaps
<1>3. cache.tree <= job.tree /\ job.tree <= server.tree /\ job.tree \in Nat
  BY <1>0, <1>1, <1>2 DEF TreesInOrder
<1>4. 1 <= app.tree /\ app.tree <= cache.tree
  BY DEF TreesInOrder
<1>5. ASSUME NEW j \in Due'
      PROVE  /\ j.ok => Ended(j)
             /\ Ended(j) => j.ok \/ spent'.failures > 0
             /\ j.at = "answered" => cache'.tree <= j.tree /\ j.tree <= server'.tree
             /\ j.ok => /\ 1 <= j.tree /\ j.tree <= cache'.tree
                        /\ j.seq = client'.seq => j.tree = cache'.tree
                        /\ app'.seq < j.seq => app'.tree <= j.tree
  <2>1. CASE j = next
    BY <1>0, <1>1, <1>2, <1>3, <1>4, <2>1 DEF Ended
  <2>2. CASE j # next
    <3>1. j \in Due /\ j.at = "free" /\ j.seq < client.seq /\ j.tree \in Nat /\ j.seq \in Nat
      BY <1>0, <1>1, <2>2
    <3>2. /\ j.ok \/ spent.failures > 0
          /\ j.ok => /\ 1 <= j.tree /\ j.tree <= cache.tree
                     /\ app.seq < j.seq => app.tree <= j.tree
      BY <3>1 DEF TreesInOrder, Ended
    <3> QED
      BY <1>0, <1>1, <1>2, <1>3, <3>1, <3>2 DEF Ended
  <2> QED
    BY <2>1, <2>2
<1>6. ASSUME NEW i \in Due', NEW j \in Due', i.ok, j.ok, i.seq < j.seq
      PROVE  i.tree <= j.tree
  <2>1. i # next /\ i \in Due /\ i.seq < client.seq
    BY <1>0, <1>1, <1>6
  <2>2. CASE j = next
    <3>1. i.tree <= cache.tree /\ i.tree \in Nat
      BY <1>0, <1>6, <2>1 DEF TreesInOrder
    <3> QED
      BY <1>0, <1>2, <1>3, <2>2, <3>1
  <2>3. CASE j # next
    BY <1>1, <1>6, <2>1, <2>3 DEF TreesInOrder
  <2> QED
    BY <2>2, <2>3
<1> QED
  BY <1>0, <1>1, <1>2, <1>3, <1>4, <1>5, <1>6 DEF TreesInOrder

LEMMA DeliveredTrees ==
  ASSUME Typed, Typed', OneClaim, TreesInOrder, NEW k \in Jobs, Delivers(k)
  PROVE  TreesInOrder' /\ app.tree <= app'.tree
<1>0. /\ client.seq \in Nat /\ app.seq \in Nat /\ k.seq \in Nat
      /\ app.tree \in Nat /\ cache.tree \in Nat /\ server.tree \in Nat
      /\ \A j \in Due : j.seq \in Nat /\ j.tree \in Nat
  BY DueType DEF Typed
<1>1. /\ k \in Sent /\ Sent' \subseteq Sent /\ k \in Due
      /\ server' = server /\ cache' = cache /\ spent' = spent
  BY DEF Delivers, Delivered, Due
<1>2. Starts(client, client') \/ Rests(client, client')
  <2>1. Rests(client, client)
    BY DEF Rests
  <2> QED
    BY <2>1 DEF Delivers, ShowsJob, Fails
<1>3. /\ client'.seq \in {client.seq, client.seq + 1}
      /\ \A j \in Due' : j \in Due \/ (j.at = "waiting" /\ ~j.ok)
  BY <1>1, <1>2, TurnDue
<1>4. \A j \in Due' : (\E i \in Due : Like(j, i)) \/ Plain(j)
  BY <1>3 DEF Like, Plain
<1>5. CASE app'.tree = app.tree
  <2>1. app.seq <= app'.seq /\ spent.failures <= spent'.failures
    <3>1. spent.failures \in Nat /\ app'.seq \in {app.seq, k.seq}
      BY DEF Delivers, Typed
    <3>2. app.seq <= app'.seq
      BY <1>0 DEF Delivers
    <3> QED
      BY <1>1, <3>1, <3>2
  <2> QED
    BY <1>0, <1>1, <1>3, <1>4, <1>5, <2>1, SameTrees
<1>6. CASE k.ok /\ k.seq > app.seq /\ app'.seq = k.seq /\ app'.tree = k.tree
  <2>1. 1 <= k.tree /\ k.tree <= cache.tree /\ app.tree <= k.tree /\ k.tree \in Nat
    BY <1>0, <1>1, <1>6 DEF TreesInOrder
  <2>2. ASSUME NEW j \in Due'
        PROVE  /\ j.ok => Ended(j)
               /\ Ended(j) => j.ok \/ spent'.failures > 0
               /\ j.at = "answered" => cache'.tree <= j.tree /\ j.tree <= server'.tree
               /\ j.ok => /\ 1 <= j.tree /\ j.tree <= cache'.tree
                          /\ j.seq = client'.seq => j.tree = cache'.tree
                          /\ app'.seq < j.seq => app'.tree <= j.tree
    <3>1. CASE j \in Due
      <4>1. j.seq <= client.seq /\ j.seq \in Nat /\ j.tree \in Nat
        BY <1>0, <3>1 DEF OneClaim
      <4>2. j.ok /\ j.seq = client'.seq => j.seq = client.seq
        BY <1>0, <1>3, <4>1
      <4>3. j.ok /\ app'.seq < j.seq => app'.tree <= j.tree
        BY <1>1, <1>6, <3>1 DEF TreesInOrder
      <4> QED
        BY <1>1, <3>1, <4>2, <4>3 DEF TreesInOrder
    <3>2. CASE j \notin Due
      BY <1>3, <2>2, <3>2 DEF Ended
    <3> QED
      BY <3>1, <3>2
  <2>3. ASSUME NEW i \in Due', NEW j \in Due', i.ok, j.ok, i.seq < j.seq
        PROVE  i.tree <= j.tree
    BY <1>3, <2>3 DEF TreesInOrder
  <2> QED
    BY <1>1, <1>6, <2>1, <2>2, <2>3 DEF TreesInOrder
<1> QED
  BY <1>0, <1>5, <1>6 DEF Delivers, ShowsJob, Fails

(* The application goes to newer trees only.                               *)
LEMMA KeepsTrees ==
  ASSUME Typed, Typed', OneClaim, TreesInOrder, Effects
  PROVE  TreesInOrder' /\ app.tree <= app'.tree
<1>0. /\ client.seq \in Nat /\ app.seq \in Nat /\ Rests(client, client)
      /\ server.tree \in Nat /\ spent.failures \in Nat /\ cache.tree \in Nat
      /\ app.tree \in Nat
      /\ \A j : Like(j, j)
  BY DueType DEF Rests, Like, Typed
<1>a. ASSUME Starts(client, client') \/ Rests(client, client'), Sent' = Sent
      PROVE  /\ client.seq <= client'.seq
             /\ \A j \in Due' : (\E k \in Due : Like(j, k)) \/ Plain(j)
  <2>1. /\ client'.seq \in {client.seq, client.seq + 1}
        /\ \A j \in Due' : j \in Due \/ (j.at = "waiting" /\ ~j.ok)
    BY <1>a, TurnDue
  <2> QED
    BY <1>0, <2>1 DEF Plain
<1>1. CASE Grows \/ Retitles
  BY <1>0, <1>a, <1>1, SameTrees DEF Grows, Retitles, Reader, Sent
<1>2. CASE Returns \/ Reopens \/ Forwards
  BY <1>0, <1>a, <1>2, SameTrees DEF Returns, Reopens, Forwards, Reopening, Sent
<1>3. CASE ReadsEvent
  <2>1. cache'.tree = cache.tree
    <3>1. Head(stream.events).title \in Nat
      BY <1>3 DEF ReadsEvent, Streamed
    <3>2. CASE ReadsChange(Head(stream.events))
      BY <3>2 DEF ReadsChange
    <3>3. CASE ReadsTitle(Head(stream.events))
      BY <3>1, <3>3, RetitledType DEF ReadsTitle
    <3> QED
      BY <1>3, <3>2, <3>3 DEF ReadsEvent
  <2> QED
    BY <1>0, <1>a, <1>3, <2>1, SameTrees DEF ReadsEvent, Reads, Sent
<1>4. CASE HandlesChange \/ HandlesTitles
  BY <1>0, <1>a, <1>4, SameTrees DEF HandlesChange, HandlesTitles, Idle
<1>5. CASE Nudges
  BY <1>0, <1>a, <1>5, SameTrees DEF Nudges, Still
<1>6. CASE Delivering
  BY <1>6, DeliveredTrees DEF Delivering
<1>7. CASE Swapping
  <2>1. PICK job \in Jobs, next \in Jobs : Swaps(job, next) /\ Moves(job, next)
    BY <1>7 DEF Swapping
  <2>2. CASE Replaces(job, next)
    BY <2>1, <2>2, ReplacedTrees
  <2>3. CASE ~Replaces(job, next)
    <3>1. /\ job \in Due /\ client'.seq = client.seq /\ next.seq = job.seq /\ app' = app
          /\ \A k \in Due' : k = next \/ k \in Due
      BY <2>1, SwapDue
    <3>2. server' = server /\ cache' = cache
      BY <2>1, <2>3 DEF Swaps, Moves, Begins, Answers, Abandons, Drops, Quietly
    <3>3. spent'.failures = spent.failures \/ spent'.failures = spent.failures + 1
      BY <2>1, <2>3 DEF Moves, Begins, Answers, Abandons, Drops, Quietly
    <3>4. job.at \notin {"done", "free"} => ~job.ok
      BY <3>1 DEF TreesInOrder, Ended
    <3>5. Like(next, job) \/ Plain(next)
      <4>1. CASE Begins(job, next)
        BY <3>4, <4>1 DEF Begins, Plain
      <4>2. CASE Answers(job, next)
        BY <3>2, <3>4, <4>2 DEF Answers, Plain
      <4>3. CASE Abandons(job, next)
        BY <1>0, <3>4, <4>3 DEF Abandons, Plain, Ended
      <4>4. CASE Drops(job, next)
        BY <3>1, <4>4 DEF Drops, Like, Ended
      <4> QED
        BY <2>1, <2>3, <4>1, <4>2, <4>3, <4>4 DEF Moves
    <3>6. \A j \in Due' : (\E k \in Due : Like(j, k)) \/ Plain(j)
      BY <1>0, <3>1, <3>5
    <3> QED
      BY <1>0, <3>1, <3>2, <3>3, <3>6, SameTrees
  <2> QED
    BY <2>2, <2>3
<1>8. CASE Sending
  <2>1. PICK job \in Jobs : Sends(job)
    BY <1>8 DEF Sending
  <2>2. /\ client'.jobs = client.jobs \ {job} /\ job \in client.jobs
        /\ Sent' = Sent \cup {job} /\ client'.seq = client.seq
        /\ server' = server /\ cache' = cache /\ app' = app /\ spent' = spent
    BY <2>1 DEF Sends
  <2>3. Due' = Due
    BY <2>2 DEF Due
  <2> QED
    BY <1>0, <2>2, <2>3, SameTrees
<1> QED
  BY <1>1, <1>2, <1>3, <1>4, <1>5, <1>6, <1>7, <1>8 DEF Effects

(* The titles.                                                             *)
LEMMA AcceptedTitles ==
  ASSUME NEW box, NEW after, NEW e, NEW S, NEW T, S \subseteq T,
         Accepted(box, after, e), TitlesAmong(box.events, S),
         e.kind = "title" => e.title \in T
  PROVE  TitlesAmong(after.events, T)
<1>1. CASE after.events = box.events
  BY <1>1 DEF TitlesAmong
<1>2. CASE Added(box.events, after.events, e)
  BY <1>2 DEF TitlesAmong, Added
<1> QED
  BY <1>1, <1>2 DEF Accepted

LEMMA TailTitles ==
  ASSUME NEW s \in Seq(Streamed), s # <<>>, NEW T, TitlesAmong(s, T)
  PROVE  /\ TitlesAmong(Tail(s), T) /\ Head(s) \in Streamed
         /\ Head(s).kind = "title" => Head(s).title \in T
<1>1. /\ Len(Tail(s)) = Len(s) - 1 /\ Head(s) \in Streamed
      /\ \A i \in 1..(Len(s) - 1) : Tail(s)[i] = s[i + 1]
      /\ Len(s) \in Nat \ {0} /\ Head(s) = s[1]
  BY TailHas
<1> QED
  BY <1>1 DEF TitlesAmong

(* Titles that are known stay so.                                          *)
LEMMA KnownGrows ==
  ASSUME Typed, Typed', TreesInOrder, TitlesShown, Effects
  PROVE  /\ Known \subseteq Known' /\ Named(server.tree, server.title)'
         /\ \A tree, title : Named(tree, title) => Named(tree, title)'
<1>0. /\ server.title \in Nat /\ server.tree \in Nat
      /\ server'.title \in Nat /\ server'.tree \in Nat
  BY DEF Typed
<1>a. 1 <= server.tree
  <2>1. app.tree \in Nat /\ cache.tree \in Nat
    BY DEF Typed
  <2> QED
    BY <1>0, <2>1 DEF TreesInOrder
<1>1. CASE server' = server
  BY <1>1 DEF TitlesShown, Named, Known
<1>2. CASE Grows
  <2>1. /\ server'.tree = server.tree + 1
        /\ server'.title = IF HasTab(server.tree) THEN server.title ELSE 1
    BY <1>2 DEF Grows
  <2>2. Named(server.tree, server.title)
    BY DEF TitlesShown
  <2>3. server.title <= server'.title
    BY <1>0, <2>1, <2>2 DEF Named, NoTitle
  <2>4. HasTab(server'.tree) => server'.title \in Known'
    BY <1>0, <2>1, <2>2 DEF Named, Known, HasTab
  <2>5. ~HasTab(server'.tree) => server'.title = NoTitle
    BY <1>0, <1>a, <2>1, <2>2 DEF Named, HasTab
  <2> QED
    BY <1>0, <2>3, <2>4, <2>5 DEF Known, Named
<1>3. CASE Retitles
  BY <1>0, <1>3 DEF Retitles, Named, Known
<1>4. Grows \/ Retitles \/ server' = server
  BY DEF Effects, Returns, ReadsEvent, Reads, Reopens, Reopening, Forwards,
     HandlesChange,
     Idle, HandlesTitles, Nudges, Still, Delivering, Delivers, Delivered,
     Swapping,
     Swaps, Sending, Sends
<1> QED
  BY <1>1, <1>2, <1>3, <1>4

LEMMA KeepsTitlesShown ==
  ASSUME Typed, Typed', OneClaim, TreesInOrder, TitlesAreKnown, IngressShows,
         Effects
  PROVE  TitlesShown'
<1>0. /\ Known \subseteq Known' /\ Named(server.tree, server.title)'
      /\ \A tree, title : Named(tree, title) => Named(tree, title)'
  BY KnownGrows DEF TitlesAreKnown
<1>1. /\ Named(cache.tree, cache.title) /\ Named(app.tree, app.title)
      /\ ingress.title # NoTitle => ingress.title \in Known
  BY DEF TitlesAreKnown, TitlesShown, TitlesOnTheWay
<1>2. Named(cache.tree, cache.title)'
  <2>1. CASE cache' = cache
    BY <1>0, <1>1, <2>1 DEF Named
  <2>2. CASE ReadsEvent /\ cache' # cache
    <3> DEFINE e == Head(stream.events)
    <3>1. /\ stream.events # <<>> /\ stream.events \in Seq(Streamed)
          /\ TitlesAmong(stream.events, Known) /\ server' = server
      BY <2>2 DEF ReadsEvent, Reads, Typed, Boxes, TitlesAreKnown, TitlesOnTheWay
    <3>2. e \in Streamed /\ (e.kind = "title" => e.title \in Known)
      BY <3>1, TailTitles
    <3>3. e.kind = "title" /\ cache' = Retitled(e.title)
      BY <2>2 DEF ReadsEvent, ReadsChange, ReadsTitle
    <3>4. e.title \in Nat
      BY <3>2 DEF Streamed
    <3> HIDE DEF e
    <3>5. /\ cache'.tree = cache.tree
          /\ cache'.title = IF HasTab(cache.tree) THEN e.title ELSE cache.title
      BY <3>3, <3>4, RetitledType
    <3>6. Named(cache'.tree, cache'.title)
      BY <1>1, <3>2, <3>3, <3>5 DEF Named
    <3> QED
      BY <3>1, <3>6 DEF Named, Known
  <2>3. CASE Swapping /\ cache' # cache
    <3>1. PICK job \in Jobs, next \in Jobs : Swaps(job, next) /\ Moves(job, next)
      BY <2>3 DEF Swapping
    <3>2. Replaces(job, next) /\ server' = server /\ job \in Due
      BY <2>3, <3>1, SwapDue
         DEF Swaps, Moves, Begins, Answers, Abandons, Drops, Quietly
    <3>3. Named(job.tree, job.title)
      BY <3>2 DEF TitlesAreKnown, TitlesTaken, Took, Replaces
    <3>4. /\ job.gen \in Nat /\ cache.late.gen \in Nat
          /\ cache.late.gen > 0 => cache.late.title \in Known
      BY <3>2, DueType DEF Typed, TitlesAreKnown, TitlesOnTheWay
    <3>5. /\ cache'.tree = job.tree
          /\ cache.late.gen > job.gen /\ HasTab(job.tree) =>
               cache'.title = cache.late.title
          /\ ~(cache.late.gen > job.gen /\ HasTab(job.tree)) =>
               cache'.title = job.title
      BY <3>2, ReplacedType DEF Replaces
    <3>6. Named(cache'.tree, cache'.title)
      BY <3>3, <3>4, <3>5 DEF Named
    <3> QED
      BY <3>2, <3>6 DEF Named, Known
  <2> QED
    BY <2>1, <2>2, <2>3 DEF Effects, Grows, Retitles, Reader, Returns, Reopens,
       Reopening, Forwards, HandlesChange, Idle, HandlesTitles, Nudges, Still,
       Delivering, Delivers, Delivered, Sending, Sends
<1>3. Named(app.tree, app.title)'
  <2>1. CASE app'.tree = app.tree /\ app'.title = app.title
    BY <1>0, <1>1, <2>1 DEF Named
  <2>2. CASE HandlesTitles
    <3>1. app'.tree = app.tree
      BY <2>2 DEF HandlesTitles
    <3>2. CASE ingress.dirty /\ HasTab(app.tree)
      <4>1. app'.title = ingress.title /\ ingress.title \in Known
        BY <1>1, <2>2, <3>2 DEF HandlesTitles, IngressShows
      <4> QED
        BY <1>0, <3>1, <3>2, <4>1 DEF Named
    <3>3. CASE ~(ingress.dirty /\ HasTab(app.tree))
      BY <2>1, <2>2, <3>1, <3>3 DEF HandlesTitles
    <3> QED
      BY <3>2, <3>3
  <2>3. CASE Delivering
    <3>1. PICK k \in Jobs : Delivers(k)
      BY <2>3 DEF Delivering
    <3>2. CASE k.ok /\ ShowsJob(k)
      <4>1. k \in Due
        BY <3>1 DEF Delivers, Due
      <4>2. Named(k.tree, k.title)
        BY <3>2, <4>1 DEF TitlesAreKnown, TitlesTaken, Took
      <4>3. app'.tree = k.tree
        BY <3>2 DEF ShowsJob
      <4>4. \/ app'.title = k.title
            \/ /\ HasTab(k.tree) /\ ingress.title # NoTitle
               /\ app'.title = ingress.title
        BY <3>2 DEF ShowsJob
      <4>5. Named(app'.tree, app'.title)
        BY <1>1, <4>2, <4>3, <4>4 DEF Named
      <4> QED
        BY <1>0, <4>5 DEF Named
    <3>3. CASE app'.tree = app.tree /\ app'.title = app.title
      BY <2>1, <3>3
    <3> QED
      BY <3>1, <3>2, <3>3 DEF Delivers, Fails
  <2> QED
    BY <2>1, <2>2, <2>3 DEF Effects, Grows, Retitles, Reader, Returns, Reopens,
       Reopening, Forwards, HandlesChange, Idle, Nudges, ReadsEvent, Reads,
       Swapping, Swaps, Sending, Sends
<1> QED
  BY <1>0, <1>2, <1>3 DEF TitlesShown

LEMMA KeepsTitlesTaken ==
  ASSUME Typed, Typed', OneClaim, TreesInOrder, TitlesAreKnown, IngressShows,
         Effects
  PROVE  TitlesTaken'
<1>0. /\ \A tree, title : Named(tree, title) => Named(tree, title)'
      /\ cache.gen \in Nat
  BY KnownGrows DEF TitlesAreKnown, Typed
<1>1. cache'.gen = cache.gen \/ cache'.gen = cache.gen + 1
  <2>1. CASE cache' = cache
    BY <2>1
  <2>2. CASE ReadsEvent /\ cache' # cache
    <3>1. Head(stream.events).title \in Nat
      BY <2>2 DEF ReadsEvent, Streamed
    <3> QED
      BY <2>2, <3>1, RetitledType DEF ReadsEvent, ReadsTitle, ReadsChange
  <2>3. CASE Swapping /\ cache' # cache
    BY <2>3, ReplacedType
       DEF Swapping, Moves, Begins, Answers, Abandons, Drops, Quietly, Replaces
  <2> QED
    BY <2>1, <2>2, <2>3 DEF Effects, Grows, Retitles, Reader, Returns, Reopens,
       Reopening, Forwards, HandlesChange, Idle, HandlesTitles, Nudges, Still,
       Delivering, Delivers, Delivered, Sending, Sends
<1>2. ASSUME NEW j \in Due'
      PROVE  j.gen <= cache'.gen /\ (Took(j) => Named(j.tree, j.title)')
  <2>1. CASE j \in Due
    <3>1. j.gen <= cache.gen /\ (Took(j) => Named(j.tree, j.title)) /\ j.gen \in Nat
      BY <2>1, DueType DEF TitlesAreKnown, TitlesTaken
    <3> QED
      BY <1>0, <1>1, <3>1
  <2>2. CASE j.gen = 0 /\ j.at = "waiting" /\ ~j.ok
    BY <1>0, <1>1, <2>2 DEF Took
  <2>3. CASE Swapping /\ j \notin Due
    <3>1. PICK job \in Jobs, next \in Jobs : Swaps(job, next) /\ Moves(job, next)
      BY <2>3 DEF Swapping
    <3>2. j = next /\ job \in Due /\ server' = server
      BY <2>3, <3>1, SwapDue DEF Swaps
    <3>3. job.gen <= cache.gen /\ (Took(job) => Named(job.tree, job.title)) /\ job.gen \in Nat
      BY <3>2, DueType DEF TitlesAreKnown, TitlesTaken
    <3>4. job.ok => Ended(job)
      BY <3>2 DEF TreesInOrder
    <3>5. next.gen <= cache'.gen
      BY <1>0, <1>1, <3>1, <3>3
         DEF Moves, Begins, Answers, Replaces, Abandons, Drops, Quietly
    <3>6. Took(next) => Named(next.tree, next.title)'
      <4>1. CASE Answers(job, next)
        <5>1. next.tree = server'.tree /\ next.title = server'.title
          BY <3>2, <4>1 DEF Answers
        <5>2. Named(server.tree, server.title)'
          BY KnownGrows DEF TitlesAreKnown
        <5> QED
          BY <5>1, <5>2 DEF Named
      <4>2. CASE Replaces(job, next)
        <5>1. /\ next.tree = cache'.tree /\ next.title = cache'.title
          BY <3>2, <4>2, ReplacedType DEF Replaces
        <5>2. Named(cache.tree, cache.title)'
          BY KeepsTitlesShown DEF TitlesShown
        <5> QED
          BY <5>1, <5>2 DEF Named
      <4>3. CASE Begins(job, next)
        BY <3>4, <4>3 DEF Begins, Took, Ended
      <4>4. CASE Abandons(job, next)
        BY <3>4, <4>4 DEF Abandons, Took, Ended
      <4>5. CASE Drops(job, next)
        BY <1>0, <3>3, <4>5 DEF Drops, Took
      <4> QED
        BY <3>1, <4>1, <4>2, <4>3, <4>4, <4>5 DEF Moves
    <3> QED
      BY <3>2, <3>5, <3>6
  <2>4. j \in Due \/ (j.gen = 0 /\ j.at = "waiting" /\ ~j.ok) \/ Swapping
    <3>1. CASE Sending
      BY <3>1 DEF Sending, Sends, Due
    <3>2. ASSUME Starts(client, client') \/ Rests(client, client'), Sent' \subseteq Sent
          PROVE  j \in Due \/ (j.gen = 0 /\ j.at = "waiting" /\ ~j.ok)
      BY <3>2, TurnDue
    <3>3. ASSUME ~Sending, ~Swapping
          PROVE  Starts(client, client') \/ Rests(client, client')
      <4>1. Rests(client, client)
        BY DEF Rests
      <4> QED
        BY <3>3, <4>1 DEF Effects, Grows, Retitles, Reader, Returns, Reopens,
           Reopening, Forwards, HandlesChange, Idle, HandlesTitles, Nudges, Still,
           Delivering, Delivers, Delivered, ShowsJob, Fails, ReadsEvent, Reads
    <3>4. ASSUME ~Sending, ~Swapping PROVE Sent' \subseteq Sent
      BY <3>4 DEF Effects, Grows, Retitles, Reader, Returns, Reopens, Sent,
         Reopening, Forwards, HandlesChange, HandlesTitles, Nudges,
         Delivering, Delivers, ReadsEvent, Reads
    <3> QED
      BY <3>1, <3>2, <3>3, <3>4
  <2> QED
    BY <2>1, <2>2, <2>3, <2>4
<1> QED
  BY <1>2 DEF TitlesTaken, Named, Known

LEMMA KeepsTitlesOnTheWay ==
  ASSUME Typed, Typed', OneClaim, TreesInOrder, TitlesAreKnown, Effects
  PROVE  TitlesOnTheWay'
<1>0. Known \subseteq Known'
  BY KnownGrows DEF TitlesAreKnown
<1>1. /\ TitlesAmong(stream.events, Known) /\ TitlesAmong(local.events, Known)
      /\ ingress.title # NoTitle => ingress.title \in Known
      /\ cache.late.gen <= cache.gen
      /\ cache.late.gen > 0 => cache.late.title \in Known
  BY DEF TitlesAreKnown, TitlesOnTheWay
<1>2. /\ stream.events \in Seq(Streamed) /\ local.events \in Seq(Streamed)
      /\ cache.gen \in Nat /\ cache.late.gen \in Nat
  BY DEF Typed, Boxes
<1>3. Tree.kind # "title" /\ Layout.kind # "title"
  BY DEF Tree, Layout
<1>4. ReadsEvent =>
        /\ TitlesAmong(Tail(stream.events), Known) /\ Head(stream.events) \in Streamed
        /\ Head(stream.events).title \in Nat
        /\ Head(stream.events).kind = "title" => Head(stream.events).title \in Known
  BY <1>1, <1>2, TailTitles DEF ReadsEvent, Reads, Streamed
<1>5. TitlesAmong(stream'.events, Known')
  <2>1. CASE stream'.events = stream.events
    BY <1>0, <1>1, <2>1 DEF TitlesAmong
  <2>2. CASE Grows
    BY <1>0, <1>1, <1>3, <2>2, AcceptedTitles DEF Grows
  <2>3. CASE Retitles
    <3>1. Title(server.title + 1).title \in Known'
      <4>1. server.title \in Nat /\ server'.title = server.title + 1
        BY <2>3 DEF Retitles, Typed
      <4>2. server.title + 1 \in 1..server'.title
        BY <4>1
      <4> QED
        BY <4>2 DEF Title, Known
    <3> QED
      BY <1>0, <1>1, <2>3, <3>1, AcceptedTitles DEF Retitles
  <2>4. CASE ReadsEvent
    BY <1>0, <1>4, <2>4 DEF ReadsEvent, Reads, TitlesAmong
  <2>5. CASE Reopens
    <3>1. stream' = stream \/ stream'.events = <<>>
      BY <2>5 DEF Reopens, Fresh
    <3>2. CASE stream'.events = <<>>
      BY <3>2 DEF TitlesAmong
    <3> QED
      BY <2>1, <3>1, <3>2
  <2> QED
    BY <2>1, <2>2, <2>3, <2>4, <2>5 DEF Effects, Returns, Forwards, HandlesChange,
       Idle, HandlesTitles, Nudges, Still, Delivering, Delivers, Delivered,
       Swapping, Swaps, Sending, Sends
<1>6. TitlesAmong(local'.events, Known')
  <2>1. CASE local' = local
    BY <1>0, <1>1, <2>1 DEF TitlesAmong
  <2>2. CASE ReadsEvent
    <3> DEFINE e == Head(stream.events)
    <3>1. e.kind = "title" => e.title \in Known
      BY <1>4, <2>2
    <3>2. CASE Accepted(local, local', e)
      <4> HIDE DEF e
      <4> QED
        BY <1>0, <1>1, <3>1, <3>2, AcceptedTitles
    <3>3. ASSUME NEW middle \in Boxes({"open", "overflowed"}),
                 Accepted(local, middle, Tree), Accepted(middle, local', e)
          PROVE  TitlesAmong(local'.events, Known')
      <4> HIDE DEF e
      <4>1. TitlesAmong(middle.events, Known)
        BY <1>1, <1>3, <3>3, AcceptedTitles
      <4> QED
        BY <1>0, <3>1, <3>3, <4>1, AcceptedTitles
    <3> QED
      BY <2>2, <3>2, <3>3 DEF ReadsEvent, ReadsChange, ReadsTitle
  <2>3. CASE Reopens
    <3>1. CASE Accepted(local, local', Tree)
      BY <1>0, <1>1, <1>3, <3>1, AcceptedTitles
    <3> QED
      BY <2>1, <2>3, <3>1 DEF Reopens
  <2>4. CASE Forwards
    <3>1. TitlesAmong(Tail(local.events), Known)
      BY <1>1, <1>2, <2>4, TailTitles DEF Forwards
    <3> QED
      BY <1>0, <2>4, <3>1 DEF Forwards, TitlesAmong
  <2> QED
    BY <2>1, <2>2, <2>3, <2>4 DEF Effects, Grows, Retitles, Reader, Returns,
       HandlesChange, Idle, HandlesTitles, Nudges, Still, Delivering, Delivers,
       Delivered, Swapping, Swaps, Sending, Sends
<1>7. ingress'.title # NoTitle => ingress'.title \in Known'
  <2>1. CASE ingress'.title \in {ingress.title, NoTitle}
    BY <1>0, <1>1, <2>1
  <2>2. CASE Forwards
    <3>1. Head(local.events).kind = "title" => Head(local.events).title \in Known
      BY <1>1, <1>2, <2>2, TailTitles DEF Forwards
    <3> QED
      BY <1>0, <2>1, <2>2, <3>1 DEF Forwards
  <2>3. CASE Delivering
    <3>1. PICK k \in Jobs : Delivers(k)
      BY <2>3 DEF Delivering
    <3>2. ingress'.title \in {ingress.title, NoTitle}
      BY <3>1 DEF Delivers, ShowsJob, Fails
    <3> QED
      BY <2>1, <3>2
  <2> QED
    BY <2>1, <2>2, <2>3 DEF Effects, Grows, Retitles, Reader, Returns, Reopens,
       Reopening, HandlesChange, Idle, HandlesTitles, Nudges, Still, ReadsEvent,
       Reads, Swapping, Swaps, Sending, Sends
<1>8. /\ cache'.late.gen <= cache'.gen
      /\ cache'.late.gen > 0 => cache'.late.title \in Known'
  <2>1. CASE cache' = cache
    BY <1>0, <1>1, <2>1
  <2>2. CASE ReadsEvent /\ cache' # cache
    <3> DEFINE e == Head(stream.events)
    <3>1. e.kind = "title" /\ cache' = Retitled(e.title)
      BY <2>2 DEF ReadsEvent, ReadsChange, ReadsTitle
    <3>2. e.title \in Nat /\ e.title \in Known
      BY <1>4, <2>2, <3>1
    <3> HIDE DEF e
    <3>3. /\ cache'.gen = cache.gen + 1
          /\ cache'.late = [gen |-> cache.gen + 1, title |-> e.title]
      BY <3>1, <3>2, RetitledType
    <3> QED
      BY <1>0, <1>2, <3>2, <3>3
  <2>3. CASE Swapping /\ cache' # cache
    <3>1. PICK job \in Jobs, next \in Jobs : Replaces(job, next)
      BY <2>3 DEF Swapping, Moves, Begins, Answers, Abandons, Drops, Quietly
    <3>2. cache'.gen = cache.gen
      BY <3>1, ReplacedType DEF Replaces
    <3>3. cache'.late = cache.late \/ cache'.late = [gen |-> 0, title |-> NoTitle]
      BY <3>1, ReplacedType DEF Replaces
    <3> QED
      BY <1>0, <1>1, <1>2, <3>2, <3>3
  <2> QED
    BY <2>1, <2>2, <2>3 DEF Effects, Grows, Retitles, Reader, Returns, Reopens,
       Reopening, Forwards, HandlesChange, Idle, HandlesTitles, Nudges, Still,
       Delivering, Delivers, Delivered, Sending, Sends
<1> QED
  BY <1>5, <1>6, <1>7, <1>8 DEF TitlesOnTheWay

LEMMA KeepsLastTitle ==
  ASSUME Typed, Typed', OneClaim, TreesInOrder, TitlesAreKnown, Effects
  PROVE  LastTitleOnTheWay'
<1> SUFFICES ASSUME stream'.state = "open"
             PROVE  Newest(stream'.events, server'.title)
  BY DEF LastTitleOnTheWay
<1>0. /\ stream.events \in Seq(Streamed) /\ server.title \in Nat /\ server.tree \in Nat
      /\ TitlesAmong(stream.events, Known)
      /\ stream.state = "open" => Newest(stream.events, server.title)
  BY DEF Typed, Boxes, TitlesAreKnown, TitlesOnTheWay, LastTitleOnTheWay
<1>1. CASE stream' = stream /\ server' = server
  BY <1>0, <1>1
<1>2. CASE Grows
  <2>1. PICK e \in {Tree, Layout} : Accepted(stream, stream', e)
    BY <1>2 DEF Grows
  <2>2. /\ e.kind # "title" /\ stream.state = "open"
        /\ Added(stream.events, stream'.events, e)
    BY <2>1 DEF Accepted, Tree, Layout
  <2>3. server'.title = IF HasTab(server.tree) THEN server.title ELSE 1
    BY <1>2 DEF Grows
  <2>4. CASE HasTab(server.tree)
    BY <1>0, <2>2, <2>3, <2>4 DEF Added
  <2>5. CASE ~HasTab(server.tree)
    <3>1. server.title = 0
      BY <2>5 DEF TitlesAreKnown, TitlesShown, Named, NoTitle
    <3>2. Newest(stream.events, 1)
      BY <1>0, <3>1 DEF TitlesAmong, Known, Newest
    <3> QED
      BY <2>2, <2>3, <2>5, <3>2 DEF Added
  <2> QED
    BY <2>4, <2>5
<1>3. CASE Retitles
  BY <1>3 DEF Retitles, Accepted, Added, Title
<1>4. CASE ReadsEvent
  BY <1>0, <1>4, TailNewest DEF ReadsEvent, Reads
<1>5. CASE Reopens
  <2>1. CASE stream'.events = <<>>
    BY <2>1 DEF Newest
  <2> QED
    BY <1>1, <1>5, <2>1 DEF Reopens, Reopening, Fresh
<1> QED
  BY <1>1, <1>2, <1>3, <1>4, <1>5 DEF Effects, Returns, Forwards, HandlesChange,
     Idle, HandlesTitles, Nudges, Still, Delivering, Delivers, Delivered,
     Swapping, Swaps, Sending, Sends

(* The ingress and the subscription.                                       *)
LEMMA DeliveredIngress ==
  ASSUME Typed, OneClaim, TreesInOrder, NEW k \in Jobs, Delivers(k)
  PROVE  /\ ingress'.title = ingress.title /\ ingress'.wake = ingress.wake
         /\ ingress'.dirty = ingress.dirty
         /\ k.ok /\ app'.seq # app.seq =>
              app'.title = IF HasTab(k.tree) /\ ingress.title # NoTitle
                           THEN ingress.title ELSE k.title
<1>1. k.tree \in Nat /\ app.tree \in Nat /\ app.seq \in Nat /\ k.seq \in Nat
  BY DueType DEF Typed
<1>2. CASE k.ok /\ k.seq > app.seq /\ app'.seq = k.seq /\ ShowsJob(k)
  <2>1. app.tree <= k.tree
    BY <1>1, <1>2 DEF Delivers, TreesInOrder, Due
  <2>2. HasTab(app.tree) => HasTab(k.tree)
    BY <1>1, <2>1 DEF HasTab
  <2>3. ingress.dirty \in BOOLEAN
    BY DEF Typed
  <2> QED
    BY <1>2, <2>2, <2>3 DEF ShowsJob
<1> QED
  BY <1>2 DEF Delivers, Fails

(* Titles of the ingress are shown or announced.                           *)
LEMMA KeepsIngress ==
  ASSUME Typed, Typed', OneClaim, TreesInOrder, TitlesAreKnown, IngressShows,
         Effects
  PROVE  IngressShows'
<1>0. /\ ingress.dirty => ingress.wake /\ ingress.title # NoTitle
      /\ ingress.wake => Has(chan, "titles")
      /\ HasTab(app.tree) /\ ingress.title # NoTitle /\ ~ingress.dirty =>
           app.title = ingress.title
  BY DEF IngressShows
<1>1. ASSUME Has(chan, "titles") => Has(chan', "titles"), ingress' = ingress,
             app'.tree = app.tree, app'.title = app.title
      PROVE  IngressShows'
  BY <1>0, <1>1 DEF IngressShows
<1>2. CASE Grows \/ Retitles \/ Reopens \/ Swapping
  BY <1>1, <1>2 DEF Grows, Retitles, Reader, Reopens, Reopening, Swapping, Swaps
<1>3. CASE Returns \/ ReadsEvent \/ Nudges \/ Sending
  BY <1>1, <1>3
     DEF Returns, ReadsEvent, Reads, Nudges, Still, Sending, Sends, SameNews,
     Kinds
<1>4. CASE HandlesChange
  BY <1>1, <1>4 DEF HandlesChange, Idle, Kinds
<1>5. CASE Forwards
  <2> DEFINE e == Head(local.events)
  <2>1. CASE /\ e.kind = "title"
             /\ ingress'.title = e.title /\ ingress'.dirty /\ ingress'.wake
             /\ ingress.wake => SameNews(chan, chan')
             /\ ~ingress.wake => Has(chan', "titles")
    <3>1. e.title \in Known
      BY <1>5, <2>1, TailTitles
         DEF Forwards, TitlesAreKnown, TitlesOnTheWay, Typed, Boxes
    <3>2. ingress'.title # NoTitle
      BY <2>1, <3>1 DEF Known, NoTitle
    <3>3. Has(chan', "titles")
      BY <1>0, <2>1 DEF SameNews, Kinds
    <3> QED
      BY <2>1, <3>2, <3>3 DEF IngressShows
  <2>2. CASE ingress' = ingress
             /\ \A kind \in Kinds : Has(chan', kind) <=> Has(chan, kind) \/ kind = e.kind
    BY <1>1, <1>5, <2>2 DEF Forwards, Kinds
  <2> QED
    BY <1>5, <2>1, <2>2 DEF Forwards
<1>6. CASE HandlesTitles
  BY <1>0, <1>6 DEF HandlesTitles, IngressShows
<1>7. CASE Delivering
  <2>1. PICK k \in Jobs : Delivers(k)
    BY <1>7 DEF Delivering
  <2>2. Has(chan', "titles") <=> Has(chan, "titles")
    BY <2>1 DEF Delivers, SameNews, Kinds
  <2>3. CASE k.ok /\ k.seq > app.seq /\ app'.seq = k.seq /\ ShowsJob(k)
    <3>1. app.seq \in Nat /\ k.seq \in Nat
      BY DueType
    <3>4. /\ app'.tree = k.tree /\ ingress'.title = ingress.title
          /\ ingress'.wake = ingress.wake /\ ingress'.dirty = ingress.dirty
          /\ app'.title = IF HasTab(k.tree) /\ ingress.title # NoTitle
                          THEN ingress.title ELSE k.title
      BY <2>1, <2>3, <3>1, DeliveredIngress DEF ShowsJob
    <3> QED
      BY <1>0, <2>2, <3>4 DEF IngressShows
  <2>4. CASE ingress' = ingress /\ app'.tree = app.tree /\ app'.title = app.title
    BY <1>1, <2>2, <2>4
  <2> QED
    BY <2>1, <2>3, <2>4 DEF Delivers, Fails
<1> QED
  BY <1>2, <1>3, <1>4, <1>5, <1>6, <1>7 DEF Effects

(* An overflow that was told is made good.                                 *)
LEMMA KeepsRecovery ==
  ASSUME Typed, Typed', RecoveryRuns, Effects
  PROVE  RecoveryRuns'
<1>0. /\ recovery.at # "idle" => spent.lost
      /\ stream.state = "told" =>
           recovery.at = "asking" \/ (recovery.at = "answered" /\ recovery.again)
      /\ recovery'.at \in {"idle", "asking", "answered"}
      /\ recovery.at \in {"idle", "asking", "answered"}
      /\ spent.lost \in BOOLEAN /\ spent'.lost \in BOOLEAN
  BY DEF RecoveryRuns, Typed
<1>1. CASE Reopens
  BY <1>0, <1>1 DEF Reopens, Fresh, RecoveryRuns
<1>2. ASSUME recovery' = recovery, spent'.lost = spent.lost,
             stream'.state = "told" => stream.state = "told"
      PROVE  RecoveryRuns'
  BY <1>0, <1>2 DEF RecoveryRuns
<1>3. CASE Grows \/ Retitles
  <2>1. \A e : Accepted(stream, stream', e) /\ stream'.state = "told" =>
          stream.state = "told"
    BY DEF Accepted
  <2> QED
    BY <1>2, <1>3, <2>1 DEF Grows, Retitles, Reader
<1>4. CASE Swapping
  <2>1. stream' = stream /\ recovery' = recovery /\ spent'.lost = spent.lost
    BY <1>4 DEF Swapping, Swaps, Moves, Begins, Answers, Replaces, Abandons,
       Drops, Quietly
  <2> QED
    BY <1>2, <2>1
<1> QED
  BY <1>1, <1>2, <1>3, <1>4 DEF Effects, Returns, Forwards, HandlesChange,
     ReadsEvent,
     Reads, Idle, HandlesTitles, Nudges, Still, Delivering, Delivers, Delivered,
     Sending, Sends

(* A copy that is not marked stale.                                        *)
Anew == Owing /\ \A j \in Due : j.seq = client.seq => j.at = "waiting"
LEMMA StartedAnew ==
  ASSUME Typed, OneClaim, Starts(client, client'), Sent' \subseteq Sent,
         app'.seq \in Nat, app'.seq <= client.seq
  PROVE  Anew'
<1>0. client.seq \in Nat /\ Forwarder \in Nat /\ client.seq >= Forwarder
  BY DueType DEF Forwarder, OneClaim
<1>1. client'.seq = client.seq + 1
  BY DEF Starts
<1>2. ASSUME NEW j \in Due', j.seq = client'.seq PROVE j.at = "waiting"
  <2>1. j \in Due => j.seq <= client.seq
    BY DEF OneClaim
  <2> QED
    BY <1>0, <1>1, <1>2, <2>1, TurnDue
<1>3. Owing'
  BY <1>0, <1>1 DEF Owing
<1> QED
  BY <1>2, <1>3 DEF Anew

LEMMA QueuedIsOwing ==
  ASSUME Typed, OneClaim, client.queued
  PROVE  Owing
<1>1. PICK j \in client.jobs : j.at # "free"
  BY DEF OneClaim
<1>2. j \in Due /\ j.seq = client.seq /\ app.seq < j.seq
  BY <1>1 DEF OneClaim, Due
<1>3. Forwarder < j.seq
  BY <1>2 DEF OneClaim
<1> QED
  BY <1>2, <1>3, DueType DEF Owing, Forwarder

Unmarked == Whole /\ ~Changes(stream.events) /\ ~client.stale
LEMMA SameWholeTree ==
  ASSUME Typed, OneClaim, WholeTree,
         client'.seq = client.seq, Due' \subseteq Due, app'.seq = app.seq,
         app'.tree = app.tree, app'.attempts = app.attempts,
         app'.retry = app.retry \/ client.queued,
         server'.tree = server.tree, Unmarked' => Unmarked
  PROVE  WholeTree'
<1> SUFFICES ASSUME Unmarked'
             PROVE  /\ \A j \in Due' : Owing' /\ j.seq = client'.seq =>
                         Current(j)' \/ FailedBackground(j)
                    /\ \/ Owing' \/ app'.retry \/ app'.attempts = BackgroundRetries
                       \/ app'.tree = server'.tree
  BY DEF WholeTree, Unmarked, FailedBackground, Ended
<1>1. Owing' <=> Owing
  BY DEF Owing
<1>2. /\ \A j \in Due : Owing /\ j.seq = client.seq =>
           Current(j) \/ FailedBackground(j)
      /\ \/ Owing \/ app.retry \/ app.attempts = BackgroundRetries
         \/ app.tree = server.tree
  BY DEF WholeTree, Unmarked
<1>3. client.queued => Owing
  BY QueuedIsOwing
<1>4. \A j \in Due : Current(j) => Current(j)'
  BY DEF Current, Took
<1> QED
  BY <1>1, <1>2, <1>3, <1>4

LEMMA AnewWholeTree ==
  ASSUME Anew'
  PROVE  WholeTree'
  BY DEF Anew, WholeTree, Current

(* A refresh that takes its tree after the last change has it.             *)
LEMMA SwappedWholeTree ==
  ASSUME Typed, Typed', OneClaim, TreesInOrder, WholeTree,
         NEW job \in Jobs, NEW next \in Jobs, Swaps(job, next), Moves(job, next)
  PROVE  WholeTree'
<1> SUFFICES ASSUME Unmarked'
             PROVE  \A j \in Due' : j.seq = client'.seq =>
                         Current(j)' \/ FailedBackground(j)
  <2>1. Owing'
    BY SwapDue
  <2> QED
    BY <2>1 DEF WholeTree, Unmarked, FailedBackground, Ended
<1>1. /\ Owing /\ client'.seq = client.seq /\ job.seq = client.seq /\ job \in Due
      /\ \A k \in Due' : k = next \/ k.seq < client.seq
      /\ client.seq \in Nat
  BY SwapDue, DueType
<1>2. \A j \in Due' : j.seq = client'.seq => j = next
  BY <1>1
<1>3. server' = server /\ stream' = stream
  BY DEF Swaps
<1>4. Whole /\ ~Changes(stream.events)
  BY <1>3 DEF Unmarked, Whole, Moves, Begins, Answers, Replaces, Abandons,
     Drops, Quietly
<1>5. ~client.stale => Current(job) \/ FailedBackground(job)
  BY <1>1, <1>4 DEF WholeTree
<1>6. job.ok => Ended(job)
  BY <1>1 DEF TreesInOrder
<1>7. Current(next)' \/ FailedBackground(next)
  <2>1. CASE Begins(job, next)
    BY <2>1 DEF Begins, Current
  <2>2. CASE Answers(job, next)
    BY <1>3, <2>2 DEF Answers, Current, Took
  <2>3. CASE Replaces(job, next)
    <3>1. ~client.stale
      BY <2>3 DEF Replaces, SameMarks, Unmarked
    <3>2. job.tree = server.tree
      BY <1>5, <2>3, <3>1 DEF Replaces, Current, FailedBackground, Ended
    <3> QED
      BY <1>3, <2>3, <3>2 DEF Replaces, Current, Took
  <2>4. CASE Abandons(job, next)
    <3>1. ~job.identity
      BY <2>4 DEF Abandons, Unmarked
    <3> QED
      BY <1>6, <2>4, <3>1 DEF Abandons, FailedBackground, Ended, Swaps
  <2>5. CASE Drops(job, next)
    <3>1. ~client.stale /\ next.identity = job.identity
      BY <2>5 DEF Drops, Unmarked, Swaps
    <3>2. Current(job) \/ FailedBackground(job)
      BY <1>5, <3>1
    <3> QED
      BY <1>3, <2>5, <3>1, <3>2 DEF Drops, Current, Took, FailedBackground, Ended
  <2> QED
    BY <2>1, <2>2, <2>3, <2>4, <2>5 DEF Moves
<1> QED
  BY <1>2, <1>7

(* The last refresh has come in.                                           *)
LEMMA LastDelivered ==
  ASSUME Typed, OneClaim, NEW k \in Jobs, Delivers(k), k.seq > app.seq,
         app'.seq = k.seq, Rests(client, client')
  PROVE  /\ Owing /\ k \in Due /\ k.at = "free"
         /\ client'.seq = client.seq /\ Due' \subseteq Due
         /\ ~Owing' => k.seq = client.seq /\ ~client.queued
<1>0. client.seq \in Nat /\ app.seq \in Nat /\ k.seq \in Nat /\ Forwarder \in Nat
  BY DueType DEF Forwarder
<1>1. k \in Sent /\ Sent' \subseteq Sent /\ k \in Due
  BY DEF Delivers, Due
<1>2. k.at = "free" /\ Forwarder < k.seq /\ k.seq <= client.seq
  BY <1>1 DEF OneClaim
<1>3. client'.seq = client.seq /\ client'.jobs = client.jobs /\ Due' \subseteq Due
  BY <1>1 DEF Rests, Due
<1>4. ~Owing' => k.seq = client.seq
  BY <1>0, <1>2, <1>3 DEF Owing
<1>5. ASSUME k.seq = client.seq, client.queued PROVE FALSE
  <2>1. PICK j \in client.jobs : j.at # "free"
    BY <1>5 DEF OneClaim
  <2>2. j.seq = client.seq /\ \A i \in Due : i.seq = j.seq => i = j
    BY <2>1 DEF OneClaim
  <2> QED
    BY <1>1, <1>2, <1>5, <2>1, <2>2
<1> QED
  BY <1>0, <1>1, <1>2, <1>3, <1>4, <1>5 DEF Owing

LEMMA DeliveredWholeTree ==
  ASSUME Typed, Typed', OneClaim, TreesInOrder, WholeTree, NEW k \in Jobs,
         Delivers(k)
  PROVE  WholeTree'
<1>0. /\ client.seq \in Nat /\ app.seq \in Nat /\ k.seq \in Nat /\ app'.seq \in Nat
      /\ client.stale \in BOOLEAN
  BY DueType DEF Typed
<1>1. /\ k \in Sent /\ Sent' \subseteq Sent /\ k \in Due /\ k.seq <= client.seq
      /\ server' = server /\ stream' = stream /\ spent' = spent
  BY DEF Delivers, Delivered, Due, OneClaim
<1>2. CASE k.seq <= app.seq
  <2>1. app' = app /\ client' = client
    BY <1>0, <1>2 DEF Delivers
  <2>2. Due' \subseteq Due
    BY <1>1, <2>1 DEF Due
  <2> QED
    BY <1>1, <2>1, <2>2, SameWholeTree DEF Unmarked, Whole
<1>3. CASE k.seq > app.seq
  <2>1. /\ app'.seq = k.seq /\ ((k.ok /\ ShowsJob(k)) \/ (~k.ok /\ Fails(k)))
        /\ client.stale => client'.stale
        /\ Starts(client, client') \/ Rests(client, client')
    BY <1>0, <1>3 DEF Delivers, ShowsJob, Fails
  <2>2. CASE Starts(client, client')
    BY <1>0, <1>1, <2>1, <2>2, StartedAnew, AnewWholeTree
  <2>3. CASE Rests(client, client')
    <3>1. /\ Owing /\ k.at = "free" /\ client'.seq = client.seq /\ Due' \subseteq Due
          /\ ~Owing' => k.seq = client.seq
      BY <1>3, <2>1, <2>3, LastDelivered
    <3> SUFFICES ASSUME Unmarked'
                 PROVE  /\ \A j \in Due' : Owing' /\ j.seq = client'.seq =>
                             Current(j)' \/ FailedBackground(j)
                        /\ \/ Owing' \/ app'.retry
                           \/ app'.attempts = BackgroundRetries
                           \/ app'.tree = server'.tree
      BY DEF WholeTree, Unmarked, FailedBackground, Ended
    <3>2. Unmarked
      BY <1>1, <2>1 DEF Unmarked, Whole
    <3>3. \A j \in Due : j.seq = client.seq => Current(j) \/ FailedBackground(j)
      BY <3>1, <3>2 DEF WholeTree, Unmarked
    <3>4. \A j : Current(j) => Current(j)'
      BY <1>1 DEF Current, Took
    <3>5. CASE ~Owing'
      <4>1. Current(k) \/ FailedBackground(k)
        BY <1>1, <3>1, <3>3, <3>5
      <4>2. CASE k.ok
        <5>1. k.tree = server.tree /\ app'.tree = k.tree
          BY <2>1, <3>1, <4>1, <4>2 DEF Current, FailedBackground, ShowsJob
        <5> QED
          BY <1>1, <3>5, <5>1
      <4>3. CASE ~k.ok
        <5>1. ~k.identity
          BY <3>1, <4>1, <4>3 DEF Current, Took, FailedBackground
        <5> QED
          BY <2>1, <3>5, <4>3, <5>1 DEF Fails
      <4> QED
        BY <4>2, <4>3
    <3> QED
      BY <3>1, <3>3, <3>4, <3>5
  <2> QED
    BY <2>1, <2>2, <2>3
<1> QED
  BY <1>0, <1>2, <1>3

(* Nothing lost: the last tree.                                            *)
LEMMA KeepsWholeTree ==
  ASSUME Typed, Typed', OneClaim, TreesInOrder, RecoveryRuns, WholeTree, Effects
  PROVE  WholeTree'
<1>0. /\ client.seq \in Nat /\ app.seq \in Nat /\ client.stale \in BOOLEAN
      /\ stream.events \in Seq(Streamed) /\ app.seq <= client.seq
      /\ spent.lost \in BOOLEAN /\ app'.seq \in Nat
  BY DueType DEF Typed, Boxes, OneClaim
<1>a. ASSUME Rests(client, client'), Sent' = Sent
      PROVE  client'.seq = client.seq /\ Due' = Due
  BY <1>a DEF Rests, Due
<1>1. CASE Grows
  <2>1. stream'.state # "open" \/ Changes(stream'.events)
    BY <1>1 DEF Grows, Accepted, Added, Changes, Tree, Layout
  <2> QED
    BY <2>1 DEF WholeTree, Whole
<1>2. CASE Retitles
  <2>1. stream'.state = "open" =>
          stream.state = "open" /\ (Changes(stream'.events) <=> Changes(stream.events))
    BY <1>2 DEF Retitles, Accepted, Added, Changes, Title
  <2>2. client' = client /\ app' = app /\ spent' = spent /\ Due' = Due /\ server'.tree = server.tree
    BY <1>2 DEF Retitles, Reader, Due, Sent
  <2> QED
    BY <2>1, <2>2, SameWholeTree DEF Unmarked, Whole
<1>3. CASE Returns
  BY <1>3 DEF Returns, WholeTree
<1>4. CASE ReadsEvent
  <2>1. CASE client'.stale
    BY <2>1 DEF WholeTree
  <2>2. CASE ReadsTitle(Head(stream.events)) /\ ~client'.stale
    <3>1. Head(stream.events).kind = "title" /\ client'.stale = client.stale
      BY <2>2 DEF ReadsTitle
    <3>2. Changes(stream'.events) <=> Changes(stream.events)
      BY <1>0, <1>4, <3>1, TailHas DEF ReadsEvent, Reads, Changes
    <3> QED
      BY <1>4, <1>a, <3>1, <3>2, SameWholeTree DEF ReadsEvent, Reads, Unmarked,
         Whole, Sent
  <2> QED
    BY <1>4, <2>1, <2>2 DEF ReadsEvent, ReadsChange
<1>5. CASE Reopens
  <2>1. spent'.lost
    BY <1>5 DEF Reopens, RecoveryRuns
  <2> QED
    BY <2>1 DEF WholeTree, Whole
<1>6. CASE Forwards
  BY <1>6, SameWholeTree DEF Forwards, Unmarked, Whole, Due
<1>7. CASE HandlesChange
  <2>1. CASE Starts(client, client')
    BY <1>0, <1>7, <2>1, StartedAnew, AnewWholeTree DEF HandlesChange, Idle
  <2>2. CASE Rests(client, client')
    BY <1>7, <1>a, <2>2, SameWholeTree DEF HandlesChange, Idle, Unmarked, Whole
  <2> QED
    BY <1>7, <2>1, <2>2 DEF HandlesChange
<1>8. CASE HandlesTitles
  BY <1>8, SameWholeTree DEF HandlesTitles, Unmarked, Whole, Due
<1>9. CASE Nudges
  <2>1. CASE Starts(client, client')
    BY <1>0, <1>9, <2>1, StartedAnew, AnewWholeTree DEF Nudges
  <2>2. CASE client'.stale
    BY <2>2 DEF WholeTree
  <2>3. CASE client'.stale = client.stale /\ Rests(client, client') /\ client.queued
    BY <1>9, <1>a, <2>3, SameWholeTree DEF Nudges, Still, Unmarked, Whole
  <2> QED
    BY <1>9, <2>1, <2>2, <2>3 DEF Nudges
<1>10. CASE Delivering
  BY <1>10, DeliveredWholeTree DEF Delivering
<1>11. CASE Swapping
  BY <1>11, SwappedWholeTree DEF Swapping
<1>12. CASE Sending
  <2>1. PICK job \in Jobs : Sends(job)
    BY <1>12 DEF Sending
  <2>2. Due' = Due
    BY <2>1 DEF Sends, Due
  <2> QED
    BY <2>1, <2>2, SameWholeTree DEF Sends, Unmarked, Whole
<1> QED
  BY <1>1, <1>2, <1>3, <1>4, <1>5, <1>6, <1>7, <1>8, <1>9, <1>10, <1>11,
     <1>12 DEF Effects

(* No title is under way and nothing was lost.                             *)
TitlesRead == Whole /\ ~Has(stream.events, "title")
LateTitle == cache.late.gen > 0 => cache.late.title = server.title
Late(j) == j.at = "answered" /\ HasTab(j.tree) /\ cache.late.gen <= j.gen
Passed ==
  /\ Newest(local.events, server.title)
  /\ \/ Has(local.events, "title") \/ ingress.title = server.title
     \/ ingress.title = NoTitle /\ server.title <= 1

LEMMA SameWholeTitle ==
  ASSUME WholeTitle, TitlesRead' => TitlesRead, server'.title = server.title,
         cache' = cache, local' = local, ingress'.title = ingress.title,
         \A j \in Due' : j \in Due \/ j.at # "answered"
  PROVE  WholeTitle'
  BY DEF WholeTitle, TitlesRead, Newest

(* A title that is read reaches the cache and the mailbox.                 *)
LEMMA ReadWholeTitle ==
  ASSUME Typed, Typed', OneClaim, TreesInOrder, TitlesAreKnown, WholeTitle,
         ReadsEvent
  PROVE  WholeTitle'
<1> DEFINE e == Head(stream.events)
<1> SUFFICES ASSUME TitlesRead'
             PROVE  /\ HasTab(cache'.tree) => cache'.title = server'.title
                    /\ cache'.late.gen > 0 => cache'.late.title = server'.title
                    /\ \A j \in Due' : Late(j)' => j.title = server'.title
                    /\ local'.state = "open" => Passed'
  BY DEF WholeTitle, TitlesRead, Late, Passed
<1>0. /\ stream.events \in Seq(Streamed) /\ stream.events # <<>> /\ e \in Streamed
      /\ stream'.events = Tail(stream.events) /\ server' = server /\ ingress' = ingress
      /\ stream.state = "open" /\ ~Has(Tail(stream.events), "title") /\ Whole
      /\ Due' = Due /\ cache.gen \in Nat /\ server.title \in Nat
  BY DEF ReadsEvent, Reads, Typed, Boxes, TitlesRead, Whole, Rests, Due, Sent
<1>1. CASE ReadsChange(e)
  <2>1. e.kind \in {"tree", "layout"} /\ cache' = cache /\ Accepted(local, local', e)
    BY <1>1 DEF ReadsChange
  <2>2. ~Has(stream.events, "title")
    BY <1>0, <2>1, TailHas
  <2> HIDE DEF e
  <2>3. /\ HasTab(cache.tree) => cache.title = server.title
        /\ cache.late.gen > 0 => cache.late.title = server.title
        /\ \A j \in Due : Late(j) => j.title = server.title
        /\ local.state = "open" => Passed
    BY <1>0, <2>2 DEF WholeTitle, Late, Passed
  <2>4. ASSUME local'.state = "open" PROVE Passed'
    <3>1. local.state = "open" /\ Added(local.events, local'.events, e)
      BY <2>4, <2>1 DEF Accepted
    <3> QED
      BY <1>0, <2>1, <2>3, <3>1 DEF Passed, Added
  <2> QED
    BY <1>0, <2>1, <2>3, <2>4 DEF Late
<1>2. CASE ReadsTitle(e)
  <2>1. e.kind = "title" /\ cache' = Retitled(e.title) /\ e.title \in Nat
    BY <1>0, <1>2 DEF ReadsTitle, Streamed
  <2>2. e.title = server.title
    BY <1>0, <2>1, TailNewest DEF TitlesAreKnown, LastTitleOnTheWay
  <2> HIDE DEF e
  <2>3. /\ cache'.tree = cache.tree
        /\ cache'.late = [gen |-> cache.gen + 1, title |-> e.title]
        /\ HasTab(cache.tree) => cache'.title = e.title
    BY <2>1, RetitledType
  <2>4. ASSUME NEW j \in Due' PROVE ~(cache'.late.gen <= j.gen)
    <3>1. j.gen <= cache.gen /\ j.gen \in Nat
      BY <1>0, <2>4, DueType DEF TitlesAreKnown, TitlesTaken
    <3> QED
      BY <1>0, <2>3, <3>1
  <2>5. ASSUME local'.state = "open" PROVE Passed'
    <3>1. /\ \E box : Accepted(box, local', e)
      BY <1>2 DEF ReadsTitle
    <3>2. Newest(local'.events, e.title) /\ Has(local'.events, "title")
      BY <2>1, <2>5, <3>1 DEF Accepted, Added
    <3> QED
      BY <1>0, <2>2, <3>2 DEF Passed
  <2> QED
    BY <1>0, <2>2, <2>3, <2>4, <2>5 DEF Late
<1> QED
  BY <1>1, <1>2 DEF ReadsEvent

LEMMA ForwardWholeTitle ==
  ASSUME Typed, Typed', OneClaim, TreesInOrder, TitlesAreKnown, WholeTitle, Forwards
  PROVE  WholeTitle'
<1> DEFINE e == Head(local.events)
<1>0. /\ local.events \in Seq(Streamed) /\ local.events # <<>> /\ e \in Streamed
      /\ local'.events = Tail(local.events) /\ local'.state = local.state
      /\ server' = server /\ cache' = cache /\ stream' = stream /\ spent' = spent
      /\ Due' = Due
  <2>1. local.events \in Seq(Streamed)
    BY DEF Typed, Boxes
  <2>2. /\ local.events # <<>>
        /\ local'.events = Tail(local.events) /\ local'.state = local.state
        /\ UNCHANGED <<server, cache, stream, spent, client>> /\ Sent' = Sent
    BY DEF Forwards
  <2> QED
    BY <2>1, <2>2, TailHas DEF Due
<1> SUFFICES ASSUME local.state = "open", TitlesRead
             PROVE  Passed'
  BY <1>0 DEF WholeTitle, TitlesRead, Whole, Passed, Late
<1>1. Passed
  BY DEF WholeTitle, TitlesRead, Passed
<1>2. /\ Newest(Tail(local.events), server.title)
      /\ e.kind = "title" /\ ~Has(Tail(local.events), "title") =>
           e.title = server.title
  BY <1>0, <1>1, TailNewest DEF Passed
<1>3. Has(local.events, "title") <=> e.kind = "title" \/ Has(Tail(local.events), "title")
  BY <1>0, TailHas
<1>4. CASE e.kind = "title"
  <2>1. ingress'.title = e.title
    BY <1>4 DEF Forwards
  <2> HIDE DEF e
  <2> QED
    BY <1>0, <1>2, <1>4, <2>1 DEF Passed
<1>5. CASE e.kind # "title"
  <2>1. ingress' = ingress
    BY <1>5 DEF Forwards
  <2> HIDE DEF e
  <2> QED
    BY <1>0, <1>1, <1>2, <1>3, <1>5, <2>1 DEF Passed
<1> QED
  BY <1>4, <1>5

(* A late title stays with the refresh that was answered before it.        *)
LEMMA SwappedWholeTitle ==
  ASSUME Typed, Typed', OneClaim, TreesInOrder, TitlesAreKnown, WholeTitle,
         NEW job \in Jobs, NEW next \in Jobs, Swaps(job, next), Moves(job, next)
  PROVE  WholeTitle'
<1>1. /\ job \in Due /\ server' = server /\ stream' = stream /\ local' = local
      /\ ingress' = ingress /\ spent'.lost = spent.lost
      /\ \A k \in Due' : k = next \/ (k \in Due /\ k.at = "free")
  BY SwapDue DEF Swaps, Moves, Begins, Answers, Replaces, Abandons, Drops, Quietly
<1>2. /\ cache.late.gen \in Nat /\ job.gen \in Nat
  BY DueType DEF Typed
<1> SUFFICES ASSUME TitlesRead
             PROVE  /\ HasTab(cache'.tree) => cache'.title = server'.title
                    /\ cache'.late.gen > 0 => cache'.late.title = server'.title
                    /\ Late(next)' => next.title = server'.title
  <2>1. TitlesRead => (local.state = "open" => Passed)
    BY DEF WholeTitle, TitlesRead, Passed
  <2>2. TitlesRead' <=> TitlesRead
    BY <1>1 DEF TitlesRead, Whole
  <2>3. Passed => Passed'
    BY <1>1 DEF Passed
  <2>4. ASSUME NEW j \in Due', Late(j)' PROVE j = next
    BY <1>1, <2>4 DEF Late
  <2> QED
    BY <1>1, <2>1, <2>2, <2>3, <2>4 DEF WholeTitle, TitlesRead, Passed, Late
<1>3. /\ HasTab(cache.tree) => cache.title = server.title
      /\ cache.late.gen > 0 => cache.late.title = server.title
      /\ Late(job) => job.title = server.title
  BY <1>1 DEF WholeTitle, TitlesRead, Late
<1>4. CASE Replaces(job, next)
  <2>1. /\ cache' = Replaced(job) /\ next.at = "done" /\ job.at = "answered"
    BY <1>4 DEF Replaces
  <2>2. /\ cache'.tree = job.tree
        /\ cache.late.gen > job.gen /\ HasTab(job.tree) =>
             cache'.title = cache.late.title
        /\ ~(cache.late.gen > job.gen /\ HasTab(job.tree)) =>
             cache'.title = job.title
        /\ cache'.late = cache.late \/ cache'.late = [gen |-> 0, title |-> NoTitle]
    BY <2>1, ReplacedType
  <2> QED
    BY <1>1, <1>2, <1>3, <2>1, <2>2 DEF Late
<1>5. CASE Answers(job, next)
  BY <1>1, <1>3, <1>5 DEF Answers, Quietly
<1>6. CASE Begins(job, next) \/ Abandons(job, next) \/ Drops(job, next)
  BY <1>1, <1>3, <1>6 DEF Begins, Abandons, Drops, Quietly, Late
<1> QED
  BY <1>4, <1>5, <1>6 DEF Moves

(* Nothing lost: the last title.                                           *)
LEMMA KeepsWholeTitle ==
  ASSUME Typed, Typed', OneClaim, TreesInOrder, TitlesAreKnown, RecoveryRuns,
         WholeTitle, Effects
  PROVE  WholeTitle'
<1>0. /\ stream.events \in Seq(Streamed) /\ server.title \in Nat /\ server.tree \in Nat
      /\ cache.tree \in Nat /\ cache.late.gen \in Nat
  BY DEF Typed, Boxes
<1>a. ASSUME Starts(client, client') \/ Rests(client, client'), Sent' \subseteq Sent
      PROVE  \A j \in Due' : j \in Due \/ j.at # "answered"
  BY <1>a, TurnDue
<1>b. Rests(client, client)
  BY DEF Rests
<1>1. CASE Grows
  <2>1. CASE stream'.state # "open"
    BY <2>1 DEF WholeTitle, Whole
  <2>2. CASE stream'.state = "open"
    <3>1. /\ stream.state = "open" /\ spent'.lost = spent.lost
          /\ Has(stream'.events, "title") <=> Has(stream.events, "title")
      BY <1>1, <2>2 DEF Grows, Accepted, Added, Tree, Layout
    <3>2. TitlesRead' <=> TitlesRead
      BY <2>2, <3>1 DEF TitlesRead, Whole
    <3>3. cache' = cache /\ local' = local /\ ingress' = ingress /\ Due' = Due
      BY <1>1 DEF Grows, Reader, Due, Sent
    <3>4. CASE HasTab(server.tree)
      <4>1. server'.title = server.title
        BY <1>1, <3>4 DEF Grows
      <4> QED
        BY <3>2, <3>3, <4>1, SameWholeTitle
    <3>5. CASE ~HasTab(server.tree)
      <4>1. server.title = 0 /\ server'.title = 1
        BY <1>1, <3>5 DEF Grows, TitlesAreKnown, TitlesShown, Named, NoTitle
      <4>2. /\ ~HasTab(cache.tree)
            /\ \A j \in Due : j.at = "answered" => ~HasTab(j.tree)
        <5>1. \A j \in Due : j.tree \in Nat /\ (j.at = "answered" => j.tree <= server.tree)
          BY DueType DEF TreesInOrder
        <5> QED
          BY <1>0, <3>5, <5>1 DEF HasTab, TreesInOrder
      <4>3. ~(cache.late.gen > 0) /\ ingress.title = NoTitle
        BY <4>1 DEF TitlesAreKnown, TitlesOnTheWay, Known
      <4>4. Newest(local.events, 1)
        BY <4>1 DEF TitlesAreKnown, TitlesOnTheWay, Known, TitlesAmong, Newest
      <4> QED
        BY <3>3, <4>1, <4>2, <4>3, <4>4 DEF WholeTitle
    <3> QED
      BY <3>4, <3>5
  <2> QED
    BY <2>1, <2>2
<1>2. CASE Retitles
  <2>1. stream'.state = "open" => Has(stream'.events, "title")
    BY <1>2 DEF Retitles, Accepted, Added, Title
  <2> QED
    BY <2>1 DEF WholeTitle, Whole
<1>3. CASE ReadsEvent
  BY <1>3, ReadWholeTitle
<1>4. CASE Reopens
  <2>1. spent'.lost
    BY <1>4 DEF Reopens, RecoveryRuns
  <2> QED
    BY <2>1 DEF WholeTitle, Whole
<1>5. CASE Forwards
  BY <1>5, ForwardWholeTitle
<1>6. CASE Returns \/ HandlesChange
  BY <1>a, <1>b, <1>6, SameWholeTitle
     DEF Returns, HandlesChange, Idle, TitlesRead, Whole
<1>7. CASE HandlesTitles \/ Nudges
  BY <1>a, <1>b, <1>7, SameWholeTitle
     DEF HandlesTitles, Nudges, Still, TitlesRead, Whole
<1>8. CASE Delivering
  <2>1. PICK k \in Jobs : Delivers(k)
    BY <1>8 DEF Delivering
  <2>2. /\ stream' = stream /\ server' = server /\ cache' = cache /\ local' = local
        /\ spent' = spent /\ ingress'.title = ingress.title
    BY <2>1, DeliveredIngress DEF Delivers, Delivered
  <2>3. Sent' \subseteq Sent /\ (Starts(client, client') \/ Rests(client, client'))
    BY <1>b, <2>1 DEF Delivers, ShowsJob, Fails
  <2> QED
    BY <1>a, <2>2, <2>3, SameWholeTitle DEF TitlesRead, Whole
<1>9. CASE Swapping
  BY <1>9, SwappedWholeTitle DEF Swapping
<1>10. CASE Sending
  <2>1. PICK job \in Jobs : Sends(job)
    BY <1>10 DEF Sending
  <2>2. Due' = Due
    BY <2>1 DEF Sends, Due
  <2> QED
    BY <2>1, <2>2, SameWholeTitle DEF Sends, TitlesRead, Whole
<1> QED
  BY <1>1, <1>2, <1>3, <1>4, <1>5, <1>6, <1>7, <1>8, <1>9, <1>10 DEF Effects

(* No request has failed: the application is told of what it does not show.*)
Sure == (Owing => Marked) /\ (~Owing => Told)
Steady ==
  /\ server'.tree = server.tree /\ client'.seq = client.seq /\ Due' \subseteq Due
  /\ Owing' <=> Owing
  /\ Owing => (Marked => Marked')
  /\ ~Owing => app'.tree = app.tree /\ (Told => Told')
Settles(k) ==
  /\ Delivers(k) /\ k \in Due /\ k.seq = client.seq /\ k.at = "free" /\ k.ok
  /\ app'.seq # app.seq /\ app'.tree = k.tree
  /\ Owing /\ ~Owing' /\ (Marked => Told')
Layouts == Has(local.events, "layout") \/ Has(chan, "layout")

LEMMA NewsIsSure ==
  ASSUME News' PROVE Sure'
  BY DEF Sure, Marked, Told

LEMMA StaysSteady ==
  ASSUME server'.tree = server.tree, app'.tree = app.tree, app'.seq = app.seq,
         client'.seq = client.seq, Due' \subseteq Due,
         News => News', client.stale => client'.stale,
         client.dirty => client'.dirty, Layouts => Layouts'
  PROVE  Steady
  BY DEF Steady, Owing, Marked, Told, Layouts

LEMMA PublishedNews ==
  ASSUME NEW e, e.kind \in {"tree", "layout"}, Accepted(stream, stream', e)
  PROVE  News'
  BY DEF Accepted, Added, News, Changes

(* Reading an event marks the copy, or passes the event on.                *)
LEMMA ReadAsking ==
  ASSUME Typed, Typed', OneClaim, ReadsEvent, Unfailing'
  PROVE  /\ Unfailing /\ (Sure' \/ Steady)
         /\ Sure' \/ ReadsTitle(Head(stream.events))
<1> DEFINE e == Head(stream.events)
<1>1. /\ stream.events \in Seq(Streamed) /\ stream.events # <<>>
      /\ stream'.events = Tail(stream.events) /\ stream'.state = stream.state
      /\ UNCHANGED <<server, recovery, chan, app, spent>> /\ Rests(client, client')
      /\ client'.dirty = client.dirty
      /\ local'.state = "open" /\ spent.failures = 0
      /\ client.stale \in BOOLEAN
  BY DueType DEF ReadsEvent, Reads, Typed, Boxes, Unfailing
<1>2. Due' = Due /\ client'.seq = client.seq
  BY <1>1 DEF Rests, Due, Sent
<1>3. \A kind : Has(stream.events, kind) <=> e.kind = kind \/ Has(stream'.events, kind)
  BY <1>1, TailHas
<1>4. CASE ReadsChange(e)
  <2>1. e.kind \in {"tree", "layout"} /\ client'.stale /\ Accepted(local, local', e)
    BY <1>4 DEF ReadsChange
  <2> HIDE DEF e
  <2>2. local.state = "open" /\ Has(local'.events, e.kind)
    BY <1>1, <2>1 DEF Accepted, Added
  <2>3. Sure'
    BY <2>1, <2>2 DEF Sure, Marked, Told, News
  <2> QED
    BY <1>1, <2>2, <2>3 DEF Unfailing
<1>5. CASE ReadsTitle(e)
  <2>1. e.kind = "title" /\ (client.stale => client'.stale)
    BY <1>5 DEF ReadsTitle
  <2>2. /\ local.state = "open"
        /\ \A kind \in {"tree", "layout"} :
             Has(local.events, kind) => Has(local'.events, kind)
    <3>1. \/ Accepted(local, local', e)
          \/ \E middle \in Boxes({"open", "overflowed"}) :
               Accepted(local, middle, Tree) /\ Accepted(middle, local', e)
      BY <1>5 DEF ReadsTitle
    <3> HIDE DEF e
    <3>2. CASE Accepted(local, local', e)
      BY <1>1, <3>2 DEF Accepted, Added
    <3>3. ASSUME NEW middle \in Boxes({"open", "overflowed"}),
                 Accepted(local, middle, Tree), Accepted(middle, local', e)
          PROVE  /\ local.state = "open"
                 /\ \A kind \in {"tree", "layout"} :
                      Has(local.events, kind) => Has(local'.events, kind)
      <4>1. /\ middle.state = "open"
            /\ \A kind \in {"tree", "layout"} :
                 Has(middle.events, kind) => Has(local'.events, kind)
        BY <1>1, <3>3 DEF Accepted, Added
      <4>2. /\ local.state = "open"
            /\ \A kind \in {"tree", "layout"} :
                 Has(local.events, kind) => Has(middle.events, kind)
        BY <3>3, <4>1 DEF Accepted, Added
      <4> QED
        BY <4>1, <4>2
    <3> QED
      BY <3>1, <3>2, <3>3
  <2>3. News => News'
    BY <1>1, <1>3, <2>1, <2>2 DEF News, Changes
  <2>4. Steady
    BY <1>1, <1>2, <2>1, <2>2, <2>3, StaysSteady DEF Layouts
  <2> QED
    BY <1>1, <1>5, <2>2, <2>4 DEF Unfailing
<1> QED
  BY <1>4, <1>5 DEF ReadsEvent

LEMMA ForwardAsking ==
  ASSUME Typed, OneClaim, Forwards
  PROVE  Sure' \/ Steady
<1> DEFINE e == Head(local.events)
<1>1. /\ local.events \in Seq(Streamed) /\ local.events # <<>>
      /\ local'.events = Tail(local.events)
      /\ UNCHANGED <<server, stream, recovery, client, app>> /\ Sent' = Sent
  BY DEF Forwards, Typed, Boxes
<1>2. Due' = Due
  BY <1>1 DEF Due
<1>3. \A kind : Has(local.events, kind) <=> e.kind = kind \/ Has(local'.events, kind)
  BY <1>1, TailHas
<1>4. CASE /\ e.kind = "title"
           /\ \A kind \in {"tree", "layout"} : Has(chan', kind) <=> Has(chan, kind)
  BY <1>1, <1>2, <1>3, <1>4, StaysSteady DEF News, Layouts
<1>5. CASE /\ e.kind \in {"tree", "layout"}
           /\ \A kind \in Kinds : Has(chan', kind) <=> Has(chan, kind) \/ kind = e.kind
  BY <1>1, <1>2, <1>3, <1>5, StaysSteady DEF News, Layouts, Kinds
<1> QED
  BY <1>4, <1>5 DEF Forwards

LEMMA ChangeAsking ==
  ASSUME Typed, Typed', OneClaim, HandlesChange
  PROVE  Sure' \/ Anew' \/ Steady
<1>0. /\ app.seq \in Nat /\ app.seq <= client.seq
      /\ client.stale \in BOOLEAN
  BY DueType DEF OneClaim
<1>1. /\ UNCHANGED Idle /\ Sent' = Sent /\ client'.stale = client.stale
  BY DEF HandlesChange
<1>2. CASE Starts(client, client')
  BY <1>0, <1>1, <1>2, StartedAnew DEF Idle
<1>3. CASE ~Starts(client, client')
  <2>1. PICK kind \in {"tree", "layout"} :
          /\ \A k \in Kinds : Has(chan, k) <=> k = kind \/ Has(chan', k)
          /\ Rests(client, client') /\ (client.dirty => client'.dirty)
          /\ client.stale => client.queued
          /\ kind = "tree" => client.queued /\ (client.stale \/ client'.dirty)
    BY <1>3 DEF HandlesChange
  <2>2. Due' = Due /\ client'.seq = client.seq
    BY <1>1, <2>1 DEF Rests, Due
  <2>3. CASE client.queued
    <3>1. Owing /\ Owing'
      BY <1>1, <2>2, <2>3, QueuedIsOwing DEF Owing, Idle
    <3>2. CASE kind = "tree"
      BY <1>1, <2>1, <3>1, <3>2 DEF Sure, Marked
    <3>3. CASE kind = "layout"
      <4>1. News => News'
        BY <1>1, <2>1, <3>3 DEF News, Idle, Kinds
      <4>2. (Marked => Marked')
        BY <1>1, <2>1, <4>1 DEF Marked
      <4>3. CASE Marked
        BY <3>1, <4>2, <4>3 DEF Sure
      <4>4. CASE ~Marked
        BY <1>1, <2>2, <3>1, <4>4 DEF Steady, Marked, Told, Idle
      <4> QED
        BY <4>3, <4>4
    <3> QED
      BY <3>2, <3>3
  <2>4. CASE ~client.queued
    <3>1. kind = "layout" /\ ~client.stale
      BY <2>1, <2>4
    <3>2. News => News'
      BY <1>1, <2>1, <3>1 DEF News, Idle, Kinds
    <3> QED
      BY <1>1, <2>1, <2>2, <3>1, <3>2 DEF Steady, Owing, Marked, Told, Idle
  <2> QED
    BY <2>3, <2>4
<1> QED
  BY <1>2, <1>3

LEMMA NudgeAsking ==
  ASSUME Typed, Typed', OneClaim, Nudges
  PROVE  Sure' \/ Anew'
<1>0. app.seq \in Nat /\ app.seq <= client.seq
  BY DueType DEF OneClaim
<1>1. CASE Starts(client, client')
  BY <1>0, <1>1, StartedAnew DEF Nudges
<1>2. CASE /\ Rests(client, client') /\ client.queued
           /\ client'.stale \/ client'.dirty
  <2>1. Owing'
    BY <1>2, QueuedIsOwing DEF Owing, Rests, Nudges
  <2> QED
    BY <1>2, <2>1 DEF Sure, Marked
<1> QED
  BY <1>1, <1>2 DEF Nudges

(* A result starts another refresh, settles, or comes too late.            *)
LEMMA DeliverAsking ==
  ASSUME Typed, Typed', OneClaim, TreesInOrder, NEW k \in Jobs, Delivers(k),
         Unfailing
  PROVE  \/ Anew' \/ Settles(k)
         \/ Steady /\ (~Owing => app' = app)
<1>0. /\ app.seq \in Nat /\ k.seq \in Nat /\ client.stale \in BOOLEAN
      /\ client.seq \in Nat
  BY DueType
<1>1. /\ k \in Sent /\ Sent' \subseteq Sent /\ k \in Due
      /\ UNCHANGED Delivered /\ SameNews(chan, chan')
  BY DEF Delivers, Due
<1>2. News <=> News'
  BY <1>1 DEF News, Delivered, SameNews, Kinds
<1>3. Layouts <=> Layouts'
  BY <1>1 DEF Layouts, Delivered, SameNews, Kinds
<1>4. k.ok /\ k.at = "free" /\ k.seq <= client.seq
  BY <1>1 DEF OneClaim, TreesInOrder, Unfailing, Ended
<1>5. CASE k.seq <= app.seq
  <2>1. app' = app /\ client' = client
    BY <1>0, <1>5 DEF Delivers
  <2>2. Due' \subseteq Due
    BY <1>1, <2>1 DEF Due
  <2>3. Steady
    BY <1>1, <1>2, <1>3, <2>1, <2>2, StaysSteady DEF Delivered
  <2> QED
    BY <2>1, <2>3
<1>6. CASE k.seq > app.seq
  <2>1. app'.seq = k.seq /\ ShowsJob(k)
    BY <1>0, <1>4, <1>6 DEF Delivers
  <2>2. CASE Starts(client, client')
    BY <1>0, <1>1, <1>4, <2>1, <2>2, StartedAnew
  <2>3. CASE ~Starts(client, client')
    <3>1. /\ Rests(client, client')
          /\ client.queued \/ (~client.dirty /\ ~client.stale)
          /\ client.dirty => client.stale \/ client'.dirty
          /\ client'.stale = client.stale
      BY <2>1, <2>3 DEF ShowsJob
    <3>2. /\ Owing /\ client'.seq = client.seq /\ Due' \subseteq Due
          /\ ~Owing' => k.seq = client.seq /\ ~client.queued
      BY <1>6, <2>1, <3>1, LastDelivered
    <3>3. Marked => Marked'
      BY <1>2, <3>1 DEF Marked
    <3>4. CASE Owing'
      BY <1>1, <3>2, <3>3, <3>4 DEF Steady, Delivered
    <3>5. CASE ~Owing'
      <4>1. Marked => Told'
        BY <1>2, <3>1, <3>2, <3>5 DEF Marked, Told
      <4>2. app'.seq # app.seq /\ app'.tree = k.tree
        BY <1>0, <1>6, <2>1 DEF ShowsJob
      <4>3. Settles(k)
        BY <1>1, <1>4, <3>2, <3>5, <4>1, <4>2 DEF Settles
      <4> QED
        BY <4>3
    <3> QED
      BY <3>4, <3>5
  <2> QED
    BY <2>2, <2>3
<1> QED
  BY <1>0, <1>5, <1>6

LEMMA SureIsAsked ==
  ASSUME Sure' \/ Anew'
  PROVE  TreeAsked' /\ TitleAsked'
  BY DEF Sure, Anew, TreeAsked, TitleAsked, Current, Good

LEMMA SteadyTree ==
  ASSUME Unfailing, TreeAsked, Steady
  PROVE  TreeAsked'
<1>1. \A j : Current(j) => Current(j)'
  BY DEF Steady, Current, Took
<1> QED
  BY <1>1 DEF Steady, TreeAsked

LEMMA SteadyTitle ==
  ASSUME Unfailing, TitleAsked, Steady,
         ~Has(stream'.events, "title") => ~Has(stream.events, "title"),
         server'.title = server.title, cache' = cache, Carries => Carries',
         ~Owing => app'.title = app.title \/ Carries'
  PROVE  TitleAsked'
<1>1. \A j : Good(j) => Good(j)'
  BY DEF Good
<1> QED
  BY <1>1 DEF Steady, TitleAsked

LEMMA SettledAsked ==
  ASSUME Typed, OneClaim, TreesInOrder, TitlesAreKnown, TreeAsked, TitleAsked,
         Unfailing,
         NEW k \in Jobs, Settles(k)
  PROVE  TreeAsked' /\ TitleAsked'
<1>1. /\ stream' = stream /\ server' = server /\ cache' = cache /\ local' = local
      /\ k \in Due /\ k.seq = client.seq /\ k.at = "free" /\ k.ok
      /\ Owing /\ ~Owing' /\ (Marked => Told') /\ app'.tree = k.tree
  BY DEF Settles, Delivers, Delivered
<1>2. /\ ingress'.title = ingress.title
      /\ app'.title = IF HasTab(k.tree) /\ ingress.title # NoTitle
                      THEN ingress.title ELSE k.title
  BY DeliveredIngress DEF Settles
<1>3. Carries' <=> Carries
  BY <1>1, <1>2 DEF Carries
<1>4. CASE Marked
  BY <1>1, <1>4 DEF TreeAsked, TitleAsked
<1>5. CASE ~Marked
  <2>1. k.tree = server.tree
    BY <1>1, <1>5 DEF TreeAsked, Current
  <2>2. TreeAsked'
    BY <1>1, <2>1 DEF TreeAsked
  <2>3. ASSUME ~Has(stream.events, "title")
        PROVE  cache.title = server.title /\ (app'.title = server.title \/ Carries)
    <3>1. Good(k)
      BY <1>1, <1>5, <2>3 DEF TitleAsked
    <3>2. cache.title = server.title /\ (k.title = server.title \/ Carries)
      BY <1>1, <3>1 DEF Good
    <3> QED
      BY <1>2, <3>2 DEF Carries
  <2>4. TitleAsked'
    BY <1>1, <1>3, <2>3 DEF TitleAsked
  <2> QED
    BY <2>2, <2>4
<1> QED
  BY <1>4, <1>5

LEMMA SwappedAsked ==
  ASSUME Typed, Typed', OneClaim, TreesInOrder, TitlesAreKnown, TreeAsked,
         TitleAsked,
         NEW job \in Jobs, NEW next \in Jobs, Swaps(job, next), Moves(job, next)
  PROVE  TreeAsked' /\ TitleAsked'
<1> SUFFICES ASSUME Unfailing'
             PROVE  TreeAsked' /\ TitleAsked'
  BY DEF TreeAsked, TitleAsked
<1>1. /\ job \in Due /\ Owing /\ Owing' /\ client'.seq = client.seq
      /\ job.seq = client.seq /\ client.seq \in Nat
      /\ \A k \in Due' : k = next \/ k.seq < client.seq
      /\ UNCHANGED <<server, stream, recovery, local, ingress, chan, app>>
      /\ client'.dirty = client.dirty
  BY SwapDue, DueType DEF Swaps
<1>2. \A k \in Due' : k.seq = client'.seq => k = next
  BY <1>1
<1>3. ~Abandons(job, next)
  <2>1. spent.failures \in Nat
    BY DEF Typed
  <2> QED
    BY <2>1 DEF Abandons, Unfailing
<1>4. Unfailing
  BY <1>1, <1>3
     DEF Unfailing, Moves, Begins, Answers, Replaces, Drops, Quietly
<1>5. /\ cache.late.gen \in Nat /\ job.gen \in Nat /\ cache.gen \in Nat
      /\ cache.late.gen <= cache.gen
      /\ job.ok => Ended(job)
  BY <1>1, DueType DEF Typed, TitlesAreKnown, TitlesOnTheWay, TreesInOrder
<1> SUFFICES Marked' \/ /\ Current(next)'
                        /\ ~Has(stream.events, "title") => Good(next)'
  BY <1>1, <1>2 DEF TreeAsked, TitleAsked
<1>6. CASE Begins(job, next)
  BY <1>5, <1>6 DEF Begins, Quietly, Current, Good
<1>7. CASE ~Begins(job, next)
  <2>1. client'.stale = client.stale
    BY <1>3, <1>7 DEF Moves, Answers, Replaces, Drops, SameMarks
  <2>2. Marked => Marked'
    BY <1>1, <2>1 DEF Marked, News
  <2> SUFFICES ASSUME ~Marked
               PROVE  /\ Current(next)'
                      /\ ~Has(stream.events, "title") => Good(next)'
    BY <2>2
  <2>3. /\ Current(job)
        /\ ~Has(stream.events, "title") => Good(job)
    BY <1>1, <1>4 DEF TreeAsked, TitleAsked
  <2>4. CASE Answers(job, next)
    BY <1>1, <2>3, <2>4 DEF Answers, Quietly, Current, Took, Good
  <2>5. CASE Replaces(job, next)
    <3>1. /\ job.at = "answered" /\ next.at = "done" /\ next.ok /\ next.tree = job.tree
          /\ next.title = cache'.title /\ cache' = Replaced(job)
      BY <2>5 DEF Replaces
    <3>2. /\ cache.late.gen > job.gen /\ HasTab(job.tree) =>
               cache'.title = cache.late.title
          /\ ~(cache.late.gen > job.gen /\ HasTab(job.tree)) =>
               cache'.title = job.title
      BY <3>1, ReplacedType
    <3>3. Current(next)'
      BY <1>1, <2>3, <3>1 DEF Current, Took
    <3>4. ASSUME ~Has(stream.events, "title") PROVE cache'.title = server.title
      <4>1. IF cache.late.gen > job.gen /\ HasTab(job.tree)
            THEN cache.late.title = server.title ELSE job.title = server.title
        BY <2>3, <3>1, <3>4 DEF Good
      <4> QED
        BY <3>2, <4>1
    <3> QED
      BY <1>1, <3>1, <3>3, <3>4 DEF Good
  <2>6. CASE Drops(job, next)
    <3>1. /\ job.at = "done" /\ next.at = "free" /\ next.ok = job.ok
          /\ next.tree = job.tree /\ next.title = job.title /\ cache' = cache
      BY <2>6 DEF Drops, Quietly
    <3> QED
      BY <1>1, <2>3, <3>1 DEF Current, Took, Good, Carries
  <2> QED
    BY <1>3, <1>7, <2>4, <2>5, <2>6 DEF Moves
<1> QED
  BY <1>6, <1>7

(* Every title under way is of a tree with the tab.                        *)
LEMMA TitledTree ==
  ASSUME Typed, TitlesAreKnown, NEW title \in Known
  PROVE  HasTab(server.tree) /\ title # NoTitle
<1>1. server.title \in Nat /\ server.title # 0
  BY DEF Known, Typed
<1> QED
  BY <1>1 DEF TitlesAreKnown, TitlesShown, Named, NoTitle, Known

LEMMA ReadAsked ==
  ASSUME Typed, Typed', OneClaim, TreesInOrder, TitlesAreKnown, TreeAsked,
         TitleAsked,
         ReadsEvent
  PROVE  TreeAsked' /\ TitleAsked'
<1> DEFINE e == Head(stream.events)
<1> SUFFICES ASSUME Unfailing'
             PROVE  TreeAsked' /\ TitleAsked'
  BY DEF TreeAsked, TitleAsked
<1>1. Unfailing /\ (Sure' \/ (Steady /\ ReadsTitle(e)))
  BY ReadAsking
<1>2. CASE Sure'
  BY <1>2, SureIsAsked
<1>3. CASE ~Sure' /\ Steady /\ ReadsTitle(e)
  <2>1. TreeAsked'
    BY <1>1, <1>3, SteadyTree
  <2> SUFFICES ASSUME ~Has(stream'.events, "title")
               PROVE  TitleAsked'
    BY <2>1 DEF TitleAsked
  <2>2. /\ stream.events \in Seq(Streamed) /\ stream.events # <<>>
        /\ stream'.events = Tail(stream.events) /\ stream'.state = stream.state
        /\ server' = server /\ app' = app /\ client'.seq = client.seq /\ Due' = Due
        /\ e \in Streamed /\ local'.state = "open" /\ cache.gen \in Nat
    BY DEF ReadsEvent, Reads, Typed, Boxes, Rests, Due, Sent, Unfailing
  <2>3. e.kind = "title" /\ cache' = Retitled(e.title) /\ e.title \in Nat
    BY <1>3, <2>2 DEF ReadsTitle, Streamed
  <2>4. e.title \in Known
    BY <2>2, <2>3, TailTitles DEF TitlesAreKnown, TitlesOnTheWay
  <2>5. stream.state = "open"
    <3>1. ~News'
      BY <1>3, NewsIsSure
    <3> QED
      BY <2>2, <3>1 DEF News
  <2>6. e.title = server.title
    BY <2>2, <2>3, <2>5, TailNewest DEF TitlesAreKnown, LastTitleOnTheWay
  <2>7. Has(local'.events, "title")
    <3>1. \E box : Accepted(box, local', e)
      BY <1>3 DEF ReadsTitle
    <3> HIDE DEF e
    <3> QED
      BY <2>2, <2>3, <3>1 DEF Accepted, Added
  <2> HIDE DEF e
  <2>8. HasTab(server.tree)
    BY <2>4, TitledTree
  <2>9. /\ cache'.tree = cache.tree
        /\ cache'.late = [gen |-> cache.gen + 1, title |-> e.title]
        /\ HasTab(cache.tree) => cache'.title = e.title
    BY <2>3, RetitledType
  <2>a. CASE Owing
    <3>1. Owing' /\ ~Marked'
      BY <1>3, <2>a DEF Steady, Sure
    <3>2. ~Marked
      BY <1>3, <2>a, <3>1 DEF Steady
    <3>3. ASSUME NEW j \in Due, j.seq = client.seq PROVE Good(j)'
      <4>1. Current(j)
        BY <1>1, <2>a, <3>2, <3>3 DEF TreeAsked
      <4>2. /\ j.gen <= cache.gen /\ j.gen \in Nat
            /\ j.ok => j.tree = cache.tree
            /\ Ended(j) => j.ok
            /\ j.at \in {"waiting", "asked", "answered", "done", "free"}
        BY <1>1, <3>3, DueType
           DEF TitlesAreKnown, TitlesTaken, TreesInOrder, Unfailing
      <4>3. cache'.late.gen > j.gen /\ cache'.late.title = server'.title
        BY <2>2, <2>6, <2>9, <4>2
      <4>4. CASE j.at = "waiting" \/ j.at = "asked"
        BY <4>3, <4>4 DEF Good
      <4>5. CASE j.at = "answered"
        <5>1. HasTab(j.tree)
          BY <2>8, <4>1, <4>5 DEF Current
        <5> QED
          BY <4>3, <4>5, <5>1 DEF Good
      <4>6. CASE j.at = "done" \/ j.at = "free"
        <5>1. j.ok /\ j.tree = server.tree
          BY <4>1, <4>2, <4>6 DEF Ended, Current
        <5>2. cache'.title = server'.title
          BY <2>2, <2>6, <2>8, <2>9, <4>2, <5>1
        <5> QED
          BY <2>7, <4>6, <5>2 DEF Good, Carries
      <4> QED
        BY <4>2, <4>4, <4>5, <4>6
    <3> QED
      BY <2>2, <3>1, <3>3 DEF TitleAsked
  <2>b. CASE ~Owing
    <3>1. ~Owing' /\ ~Told'
      BY <1>3, <2>b DEF Steady, Sure
    <3>2. ~Told
      BY <1>3, <2>b, <3>1 DEF Steady
    <3>3. app.tree = server.tree
      BY <1>1, <2>b, <3>2 DEF TreeAsked
    <3>4. app.tree <= cache.tree /\ app.tree \in Nat /\ cache.tree \in Nat
      BY DEF TreesInOrder, Typed
    <3>5. HasTab(cache.tree)
      BY <2>8, <3>3, <3>4 DEF HasTab
    <3> QED
      BY <2>2, <2>6, <2>7, <2>9, <3>1, <3>5 DEF TitleAsked, Carries
  <2> QED
    BY <2>a, <2>b
<1> QED
  BY <1>1, <1>2, <1>3

(* No failure: what the screen lacks is told of.                           *)
LEMMA KeepsAsked ==
  ASSUME Typed, Typed', OneClaim, TreesInOrder, TitlesAreKnown, IngressShows,
         TreeAsked, TitleAsked, Effects
  PROVE  TreeAsked' /\ TitleAsked'
<1> SUFFICES ASSUME Unfailing'
             PROVE  TreeAsked' /\ TitleAsked'
  BY DEF TreeAsked, TitleAsked
<1>1. CASE Grows
  <2>1. News'
    BY <1>1, PublishedNews DEF Grows, Tree, Layout
  <2> QED
    BY <2>1, NewsIsSure, SureIsAsked
<1>2. CASE Retitles
  <2>1. UNCHANGED Reader /\ spent' = spent /\ server'.tree = server.tree
    BY <1>2 DEF Retitles
  <2>2. Unfailing
    BY <2>1 DEF Unfailing, Reader
  <2>3. CASE stream'.state # "open"
    BY <2>3, NewsIsSure, SureIsAsked DEF News
  <2>4. CASE stream'.state = "open"
    <3>1. /\ stream.state = "open" /\ Has(stream'.events, "title")
          /\ Changes(stream'.events) <=> Changes(stream.events)
      BY <1>2, <2>4 DEF Retitles, Accepted, Added, Title, Changes
    <3>2. News' <=> News
      BY <2>1, <2>4, <3>1 DEF News, Reader
    <3>3. Due' = Due
      BY <2>1 DEF Due, Sent, Reader
    <3>4. Steady
      BY <2>1, <3>2, <3>3, StaysSteady DEF Reader, Layouts
    <3> QED
      BY <2>2, <3>1, <3>4, SteadyTree DEF TitleAsked
  <2> QED
    BY <2>3, <2>4
<1>3. CASE Returns
  <2>1. Unfailing /\ Due' = Due /\ client'.seq = client.seq
    BY <1>3 DEF Returns, Unfailing, Due, Rests
  <2>2. News' <=> News
    BY <1>3 DEF Returns, News, SameNews, Kinds
  <2>3. Layouts' <=> Layouts
    BY <1>3 DEF Returns, Layouts, SameNews, Kinds
  <2>4. Steady
    BY <1>3, <2>1, <2>2, <2>3, StaysSteady DEF Returns
  <2> QED
    BY <1>3, <2>1, <2>4, SteadyTree, SteadyTitle DEF Returns, Carries
<1>4. CASE ReadsEvent
  BY <1>4, ReadAsked
<1>5. CASE Reopens
  <2>1. News'
    <3>1. CASE stream'.state = "told"
      BY <3>1 DEF News
    <3>2. CASE recovery'.at \in {"asking", "answered"}
      BY <3>2 DEF News
    <3>3. CASE Accepted(local, local', Tree)
      BY <3>3 DEF Accepted, Added, News, Unfailing, Tree
    <3> QED
      BY <1>5, <3>1, <3>2, <3>3 DEF Reopens
  <2> QED
    BY <2>1, NewsIsSure, SureIsAsked
<1>6. CASE Forwards
  <2>1. Unfailing
    BY <1>6 DEF Forwards, Unfailing
  <2>2. CASE Sure'
    BY <2>2, SureIsAsked
  <2>3. CASE Steady
    <3> DEFINE e == Head(local.events)
    <3>1. /\ local.events \in Seq(Streamed) /\ local.events # <<>>
          /\ local'.events = Tail(local.events)
          /\ UNCHANGED <<server, stream, cache, app>>
          /\ (e.kind = "title" /\ ingress'.title = e.title)
               \/ (e.kind \in {"tree", "layout"} /\ ingress' = ingress)
      BY <1>6 DEF Forwards, Typed, Boxes
    <3>2. Has(local.events, "title") <=> e.kind = "title" \/ Has(local'.events, "title")
      BY <3>1, TailHas
    <3>3. e.kind = "title" => e.title # NoTitle
      BY <3>1, TailTitles, TitledTree DEF TitlesAreKnown, TitlesOnTheWay
    <3> HIDE DEF e
    <3>4. Carries => Carries'
      BY <3>1, <3>2, <3>3 DEF Carries
    <3> QED
      BY <2>1, <2>3, <3>1, <3>4, SteadyTree, SteadyTitle
  <2> QED
    BY <1>6, <2>2, <2>3, ForwardAsking
<1>7. CASE HandlesChange
  <2>1. Unfailing /\ UNCHANGED Idle
    BY <1>7 DEF HandlesChange, Idle, Unfailing
  <2>2. CASE Sure' \/ Anew'
    BY <2>2, SureIsAsked
  <2>3. CASE Steady
    BY <2>1, <2>3, SteadyTree, SteadyTitle DEF Idle, Carries
  <2> QED
    BY <1>7, <2>2, <2>3, ChangeAsking
<1>8. CASE HandlesTitles
  <2>1. Unfailing /\ Due' = Due
    BY <1>8 DEF HandlesTitles, Unfailing, Due
  <2>2. Steady
    BY <1>8, <2>1, StaysSteady DEF HandlesTitles, News, Layouts
  <2>3. app'.title = app.title \/ ingress'.title # NoTitle
    BY <1>8 DEF HandlesTitles, IngressShows
  <2> QED
    BY <1>8, <2>1, <2>2, <2>3, SteadyTree, SteadyTitle DEF HandlesTitles, Carries
<1>9. CASE Nudges
  BY <1>9, NudgeAsking, SureIsAsked
<1>10. CASE Delivering
  <2>1. PICK k \in Jobs : Delivers(k)
    BY <1>10 DEF Delivering
  <2>2. /\ Unfailing /\ ingress'.title = ingress.title
        /\ UNCHANGED Delivered
    BY <2>1, DeliveredIngress DEF Delivers, Delivered, Unfailing
  <2>3. CASE Anew'
    BY <2>3, SureIsAsked
  <2>4. CASE Settles(k)
    BY <2>2, <2>4, SettledAsked
  <2>5. CASE Steady /\ (~Owing => app' = app)
    BY <2>2, <2>5, SteadyTree, SteadyTitle DEF Delivered, Carries
  <2> QED
    BY <2>1, <2>2, <2>3, <2>4, <2>5, DeliverAsking
<1>11. CASE Swapping
  BY <1>11, SwappedAsked DEF Swapping
<1>12. CASE Sending
  <2>1. PICK job \in Jobs : Sends(job)
    BY <1>12 DEF Sending
  <2>2. Due' = Due
    BY <2>1 DEF Sends, Due
  <2>3. Unfailing /\ (News' <=> News) /\ (Layouts' <=> Layouts)
    BY <2>1 DEF Sends, Unfailing, News, Layouts, SameNews, Kinds
  <2>4. Steady
    BY <2>1, <2>2, <2>3, StaysSteady DEF Sends
  <2> QED
    BY <2>1, <2>3, <2>4, SteadyTree, SteadyTitle DEF Sends, Carries
<1> QED
  BY <1>1, <1>2, <1>3, <1>4, <1>5, <1>6, <1>7, <1>8, <1>9, <1>10, <1>11,
     <1>12 DEF Effects

-----------------------------------------------------------------------------
(* The invariant holds.                                                    *)

BarrierType == barrier \in [now : Nat, last : Nat]

\* The barrier of a recovery has a new number.
LEMMA BarrierRises ==
  ASSUME BarrierType, TreeNext
  PROVE  /\ BarrierType' /\ barrier.last <= barrier'.last
         /\ StartRecovery \/ barrier'.last = barrier.last
<1>0. barrier.last \in Nat
  BY DEF BarrierType
<1>1. CASE StartRecovery
  <2>1. barrier' = [now |-> barrier.last + 1, last |-> barrier.last + 1]
    BY <1>1 DEF StartRecovery
  <2> QED
    BY <1>0, <1>1, <2>1 DEF BarrierType
<1>2. CASE HandleRecovered
  <2>1. barrier' \in {barrier, [barrier EXCEPT !.now = 0]}
    BY <1>2 DEF HandleRecovered
  <2> QED
    BY <1>0, <2>1 DEF BarrierType
<1>3. CASE HandleComplete
  <2>1. barrier' \in {barrier, [barrier EXCEPT !.now = 0]}
    BY <1>3 DEF HandleComplete
  <2> QED
    BY <1>0, <2>1 DEF BarrierType
<1>4. ASSUME barrier' = barrier
      PROVE  /\ BarrierType' /\ barrier.last <= barrier'.last
             /\ barrier'.last = barrier.last
  BY <1>0, <1>4 DEF BarrierType
<1>5. ASSUME NEW e \in {Tree, Layout}, Change(e) \/ Mutate(e)
      PROVE  barrier' = barrier
  BY <1>5 DEF Change, Mutate, forwarding
<1>6. ASSUME \/ Retitle \/ MutationReturns \/ Read \/ ReadOverflow
             \/ Resubscribe \/ Resubscribed \/ Forward \/ Drain \/ AskForTree
             \/ EndRecovery \/ Input
      PROVE  barrier' = barrier
  BY <1>6 DEF Retitle, MutationReturns, Read, ReadOverflow, Resubscribe,
     Resubscribed,
     Forward, Drain, AskForTree, EndRecovery, Input, forwarding
<1>7. ASSUME NEW job \in client.jobs, Recover(job) \/ Refresh(job) \/ Fail(job)
      PROVE  barrier' = barrier
  BY <1>7 DEF Recover, Refresh, BeginRefresh, GetTree, Replace, DropClaim,
     Send, Fail,
     forwarding
<1>8. ASSUME HandleChange \/ HandleTitles \/ HandleCommitted \/ HandleRefreshed \/ RetryIsDue
      PROVE  barrier' = barrier
  BY <1>8 DEF HandleChange, HandleTitles, HandleCommitted, HandleRefreshed,
     RetryIsDue
<1> QED
  BY <1>1, <1>2, <1>3, <1>4, <1>5, <1>6, <1>7, <1>8
     DEF TreeNext, ForwarderStep, AppStep

LEMMA SentNothing ==
  ASSUME chan = <<>>
  PROVE  Sent = {}
  BY DEF Sent, SentIn

(* The invariant holds at first, and every step keeps it.                  *)
LEMMA ScreenInit ==
  ASSUME TreeInit
  PROVE  BarrierType /\ ScreenInv
<1>0. /\ server = [tree |-> 1, title |-> 0] /\ stream = [events |-> <<>>, state |-> "open"]
      /\ cache = [tree |-> 1, title |-> 0, gen |-> 0,
                  late |-> [gen |-> 0, title |-> 0]]
      /\ recovery = [at |-> "idle", again |-> FALSE]
      /\ local = [events |-> <<>>, state |-> "open"]
      /\ forwarder = [at |-> "run", backlog |-> <<>>]
      /\ ingress = [title |-> 0, dirty |-> FALSE, wake |-> FALSE]
      /\ barrier = [now |-> 0, last |-> 0] /\ chan = <<>>
      /\ client = [stale |-> FALSE, queued |-> FALSE, dirty |-> FALSE, seq |-> 1,
                   jobs |-> {}]
      /\ app = [tree |-> 1, title |-> 0, seq |-> 0, layout |-> 0,
                attempts |-> 0, retry |-> FALSE]
      /\ spent = [mutations |-> 0, failures |-> 0, inputs |-> 0, lost |-> FALSE]
  BY DEF TreeInit, NoTitle, Fresh, Forwarder
<1>1. Due = {} /\ ~Owing
  BY <1>0, SentNothing DEF Due, Owing, Forwarder
<1>2. Typed
  <2>1. 0 \in 0..BackgroundRetries
    BY RemoteTreeAssumption
  <2>2. stream \in Boxes({"open", "overflowed", "told"}) /\ local \in Boxes({"open", "overflowed"})
    BY <1>0 DEF Boxes
  <2>3. client \in Clients /\ chan \in Seq(Messages)
    BY <1>0 DEF Clients
  <2> QED
    BY <1>0, <2>1, <2>2, <2>3 DEF Typed
<1>3. OneClaim
  BY <1>0, <1>1 DEF OneClaim, Forwarder, Due
<1>4. TreesInOrder
  BY <1>0, <1>1 DEF TreesInOrder
<1>5. TitlesAreKnown
  BY <1>0, <1>1 DEF TitlesAreKnown, TitlesShown, TitlesTaken, TitlesOnTheWay,
     LastTitleOnTheWay, TitlesAmong, Newest, Named, HasTab, NoTitle
<1>6. IngressShows /\ RecoveryRuns
  BY <1>0 DEF IngressShows, RecoveryRuns, HasTab
<1>7. WholeTree
  BY <1>0, <1>1 DEF WholeTree
<1>8. WholeTitle
  BY <1>0, <1>1 DEF WholeTitle, Newest, HasTab
<1>9. TreeAsked /\ TitleAsked
  BY <1>0, <1>1 DEF TreeAsked, TitleAsked
<1>10. BarrierType
  BY <1>0 DEF BarrierType
<1> QED
  BY <1>2, <1>3, <1>4, <1>5, <1>6, <1>7, <1>8, <1>9, <1>10 DEF ScreenInv

LEMMA ScreenStep ==
  ASSUME BarrierType, ScreenInv, TreeNext
  PROVE  /\ BarrierType' /\ ScreenInv'
         /\ barrier'.last = 0 => app.tree <= app'.tree
<1>1. BarrierType' /\ barrier.last <= barrier'.last
  BY BarrierRises
<1> SUFFICES ASSUME barrier'.last = 0
             PROVE  ScreenInv' /\ app.tree <= app'.tree
  BY <1>1 DEF ScreenInv
<1>2. barrier.last = 0
  BY <1>1 DEF BarrierType
<1>3. /\ Typed /\ OneClaim /\ TreesInOrder /\ TitlesAreKnown /\ IngressShows
      /\ RecoveryRuns /\ WholeTree /\ WholeTitle /\ TreeAsked /\ TitleAsked
  BY <1>2 DEF ScreenInv
<1>4. Typed' /\ Effects
  BY <1>3, StepDoes
<1>5. OneClaim' /\ TreesInOrder' /\ app.tree <= app'.tree
  BY <1>3, <1>4, KeepsOneClaim, KeepsTrees
<1>6. TitlesAreKnown'
  BY <1>3, <1>4, KeepsTitlesShown, KeepsTitlesTaken, KeepsTitlesOnTheWay,
     KeepsLastTitle DEF TitlesAreKnown
<1>7. IngressShows' /\ RecoveryRuns'
  BY <1>3, <1>4, KeepsIngress, KeepsRecovery
<1>8. WholeTree' /\ WholeTitle'
  BY <1>3, <1>4, KeepsWholeTree, KeepsWholeTitle
<1>9. TreeAsked' /\ TitleAsked'
  BY <1>3, <1>4, KeepsAsked
<1> QED
  BY <1>4, <1>5, <1>6, <1>7, <1>8, <1>9 DEF ScreenInv

LEMMA ScreenStutters ==
  ASSUME BarrierType, ScreenInv, UNCHANGED treeVars
  PROVE  BarrierType' /\ ScreenInv'
<1>1. UNCHANGED <<server, stream, cache, recovery, local, forwarder, ingress, barrier,
                  chan, client, app, spent>>
  BY DEF treeVars
<1>2. Due' = Due /\ Sent' = Sent
  BY <1>1 DEF Due, Sent
<1>3. BarrierType' /\ (barrier'.last = barrier.last)
  BY <1>1 DEF BarrierType
<1> SUFFICES ASSUME barrier.last = 0 PROVE ScreenInv'
  BY <1>3 DEF ScreenInv
<1>4. /\ Typed /\ OneClaim /\ TreesInOrder /\ TitlesAreKnown /\ IngressShows
      /\ RecoveryRuns /\ WholeTree /\ WholeTitle /\ TreeAsked /\ TitleAsked
  BY DEF ScreenInv
<1>5. Typed' /\ OneClaim' /\ TreesInOrder'
  BY <1>1, <1>2, <1>4 DEF Typed, OneClaim, TreesInOrder, Owing
<1>6. TitlesAreKnown' /\ IngressShows' /\ RecoveryRuns'
  <2>1. TitlesShown' /\ TitlesTaken'
    BY <1>1, <1>2, <1>4 DEF TitlesAreKnown, TitlesShown, TitlesTaken, Named, Known
  <2>2. TitlesOnTheWay'
    BY <1>1, <1>4 DEF TitlesAreKnown, TitlesOnTheWay, TitlesAmong, Named, Known
  <2>3. LastTitleOnTheWay'
    BY <1>1, <1>4 DEF TitlesAreKnown, LastTitleOnTheWay, TitlesAmong, Named, Known
  <2>4. IngressShows' /\ RecoveryRuns'
    BY <1>1, <1>2, <1>4 DEF IngressShows, RecoveryRuns
  <2> QED
    BY <2>1, <2>2, <2>3, <2>4 DEF TitlesAreKnown
<1>7. WholeTree' /\ WholeTitle'
  BY <1>1, <1>2, <1>4 DEF WholeTree, WholeTitle, Whole, Owing, Current,
     FailedBackground
<1>8. TreeAsked' /\ TitleAsked'
  <2>1. /\ Unfailing' <=> Unfailing
        /\ Owing' <=> Owing
        /\ Marked' <=> Marked
        /\ Told' <=> Told
        /\ Carries' <=> Carries
    BY <1>1 DEF Unfailing, Owing, Marked, Told, News, Carries
  <2>2. \A j : (Current(j)' <=> Current(j)) /\ (Good(j)' <=> Good(j))
    BY <1>1, <2>1 DEF Current, Took, Good
  <2> QED
    BY <1>1, <1>2, <1>4, <2>1, <2>2 DEF TreeAsked, TitleAsked
<1> QED
  BY <1>5, <1>6, <1>7, <1>8 DEF ScreenInv

(* What the invariant says of a quiet screen.                              *)
LEMMA ScreenImplies ==
  ASSUME BarrierType, ScreenInv
  PROVE  QuietScreenIsTrue
<1> SUFFICES ASSUME Silent, barrier.last = 0,
                    \/ spent.failures = 0
                    \/ ~(client.stale \/ app.attempts = BackgroundRetries \/ spent.lost)
             PROVE  ScreenIsTrue
  <2>1. barrier.last = 0 => spent.failures \in Nat
    BY DEF ScreenInv, Typed
  <2> QED
    BY <2>1 DEF QuietScreenIsTrue
<1>1. /\ Typed /\ OneClaim /\ TreesInOrder /\ TitlesAreKnown /\ IngressShows
      /\ RecoveryRuns /\ WholeTree /\ WholeTitle /\ TreeAsked /\ TitleAsked
  BY DEF ScreenInv
<1>2. /\ stream.events = <<>> /\ stream.state = "open" /\ recovery.at = "idle"
      /\ local.events = <<>> /\ local.state = "open" /\ chan = <<>>
      /\ client.jobs = {} /\ ~app.retry
  BY DEF Silent, Fresh
<1>3. Due = {} /\ ~Owing
  BY <1>1, <1>2, SentNothing DEF Due, OneClaim
<1>4. \A kind : ~Has(stream.events, kind) /\ ~Has(local.events, kind) /\ ~Has(chan, kind)
  BY <1>2 DEF Has
<1>5. ~Told
  BY <1>2, <1>4 DEF Told, News, Changes
<1>6. ~ingress.dirty
  BY <1>1, <1>4 DEF IngressShows
<1>7. /\ server.title \in Nat /\ app.tree \in Nat /\ cache.tree \in Nat
      /\ server.tree \in Nat
  BY <1>1 DEF Typed
<1>8. ingress.title # NoTitle => HasTab(server.tree)
  BY <1>1, TitledTree DEF TitlesAreKnown, TitlesOnTheWay
<1>9. ~spent.lost =>
        ingress.title = server.title \/ (ingress.title = NoTitle /\ server.title <= 1)
  BY <1>1, <1>2, <1>4 DEF WholeTitle, Whole
<1>10. app.tree = server.tree
  <2>1. CASE spent.failures = 0
    BY <1>1, <1>2, <1>3, <1>5, <2>1 DEF TreeAsked, Unfailing
  <2>2. CASE ~(client.stale \/ app.attempts = BackgroundRetries \/ spent.lost)
    BY <1>1, <1>2, <1>3, <1>4, <2>2 DEF WholeTree, Whole, Changes
  <2> QED
    BY <2>1, <2>2
<1>11. cache.tree = server.tree
  BY <1>1, <1>7, <1>10 DEF TreesInOrder
<1>12. cache.title = server.title
  <2>1. CASE spent.failures = 0
    BY <1>1, <1>2, <1>3, <1>4, <1>5, <2>1 DEF TitleAsked, Unfailing
  <2>2. CASE ~(client.stale \/ app.attempts = BackgroundRetries \/ spent.lost)
    <3>1. HasTab(cache.tree) => cache.title = server.title
      BY <1>1, <1>2, <1>4, <2>2 DEF WholeTitle, Whole
    <3>2. ~HasTab(cache.tree) => cache.title = NoTitle /\ server.title = NoTitle
      BY <1>1, <1>11 DEF TitlesAreKnown, TitlesShown, Named
    <3> QED
      BY <3>1, <3>2
  <2> QED
    BY <2>1, <2>2
<1>13. app.title = server.title \/ HeldOver
  <2>1. CASE ~HasTab(server.tree)
    BY <1>1, <1>10, <2>1 DEF TitlesAreKnown, TitlesShown, Named
  <2>2. CASE HasTab(server.tree) /\ ingress.title # NoTitle
    <3>1. app.title = ingress.title
      BY <1>1, <1>6, <1>10, <2>2 DEF IngressShows
    <3> QED
      BY <1>9, <2>2, <3>1 DEF HeldOver
  <2>3. CASE HasTab(server.tree) /\ ingress.title = NoTitle
    <3>1. app.title \in 1..server.title
      BY <1>1, <1>10, <2>3 DEF TitlesAreKnown, TitlesShown, Named, Known
    <3>2. CASE spent.failures = 0
      BY <1>1, <1>2, <1>3, <1>4, <1>5, <2>3, <3>2 DEF TitleAsked, Unfailing,
         Carries
    <3>3. CASE ~spent.lost
      <4>1. server.title <= 1
        BY <1>7, <1>9, <2>3, <3>3 DEF NoTitle
      <4> QED
        BY <1>7, <3>1, <4>1
    <3> QED
      BY <3>2, <3>3
  <2> QED
    BY <2>1, <2>2, <2>3
<1> QED
  BY <1>10, <1>12, <1>13 DEF ScreenIsTrue

(* The invariant of the remote copy, for every capacity and every bound:   *)
(* as long as the mailbox of the client has held, one refresh at most      *)
(* holds the claim, trees come in their order, and whatever the screen     *)
(* lacks is under way, asked for, marked or given up.                      *)
THEOREM TreeInvariant == TreeSpec => [](BarrierType /\ ScreenInv)
<1>1. TreeInit => BarrierType /\ ScreenInv
  BY ScreenInit
<1>2. BarrierType /\ ScreenInv /\ [TreeNext]_treeVars => (BarrierType /\ ScreenInv)'
  BY ScreenStep, ScreenStutters
<1> QED
  BY <1>1, <1>2, PTL DEF TreeSpec

(* As long as the mailbox of the client itself has not overflowed: when    *)
(* nothing is under way, the application shows the tree and the title of   *)
(* the daemon, or a request has failed and that is known, for every order  *)
(* of the changes, the overflows of the subscription, the refreshes and    *)
(* their answers.  Excepted are a title held over lost events, and what a  *)
(* failed request leaves wrong when events were lost too.                  *)
THEOREM QuietScreensAreTrue == TreeSpec => []QuietScreenIsTrue
<1>1. BarrierType /\ ScreenInv => QuietScreenIsTrue
  BY ScreenImplies
<1> QED
  BY <1>1, TreeInvariant, PTL

(* The application never goes back to an older tree, whichever refresh     *)
(* delivers first (accept_refresh_sequence).                               *)
THEOREM TreesNeverGoBack == TreeSpec => ShownTreeNeverGoesBack
<1>1. BarrierType /\ ScreenInv /\ [TreeNext]_treeVars =>
        [barrier.last = 0 => app'.tree >= app.tree]_treeVars
  <2> SUFFICES ASSUME BarrierType, ScreenInv, TreeNext, barrier.last = 0
               PROVE  app'.tree >= app.tree
    OBVIOUS
  <2>1. StartRecovery \/ (barrier'.last = 0 /\ Typed')
    BY BarrierRises, ScreenStep DEF ScreenInv
  <2>2. app.tree \in Nat
    BY DEF ScreenInv, Typed
  <2>3. CASE StartRecovery
    BY <2>2, <2>3 DEF StartRecovery
  <2>4. CASE barrier'.last = 0 /\ Typed'
    <3>1. app'.tree \in Nat
      BY <2>4 DEF Typed
    <3> QED
      BY <2>2, <2>4, <3>1, ScreenStep
  <2> QED
    BY <2>1, <2>3, <2>4, BarrierRises
<1> QED
  BY <1>1, TreeInvariant, PTL DEF TreeSpec, ShownTreeNeverGoesBack

(***************************************************************************)
(* Pairing.                                                                *)
(***************************************************************************)
USE PairingAssumption

Decisions == {"open", "approved", "denied", "closed"}

(* Types without the TUI, and the requests between old and new.            *)
Counted ==
  begun \in 0..MaxRequests /\ old \in 0..begun /\ pending \in SUBSET (1..begun)
PairingTyped ==
  /\ Counted
  /\ peer \in [Ids -> Peers \cup {NoPeer}]
  /\ decision \in [Ids -> Decisions]
  /\ place \in [Ids -> {"none", "begun", "waiting", "cancelling", "paired", "gone"}]
  /\ committed \in [Ids -> {"none", "accept", "reject"}]
  /\ granted \in SUBSET Ids
  /\ mail \in SUBSET Events
  /\ told \in [Ids -> Nat]

(* Nothing is known of a request before its challenge.                     *)
Unused ==
  \A i \in Ids : i > begun =>
    /\ peer[i] = NoPeer /\ decision[i] = "open" /\ committed[i] = "none"
    /\ told[i] = 0 /\ Resolved(i) \notin mail

(* A pending request has no answer, neither durable nor sent.              *)
Unsettled ==
  \A i \in pending : decision[i] = "open" /\ committed[i] = "none"

(* A peer has one request on the table, and its window is not overfull.    *)
Limited ==
  /\ \A i, j \in pending : peer[i] = peer[j] => i = j
  /\ \A p \in Peers : Cardinality(Recent(p)) <= MaxPerWindow

Base == PairingTyped /\ Unused /\ Unsettled

PairingInv == Base /\ ResolvedOnce /\ CredentialsAreApproved /\ Limited

-----------------------------------------------------------------------------
(* The steps by what they do to the broker, wherever they come from.       *)
Prunes ==
  /\ decision' = Pruned /\ pending' = Live
  /\ UNCHANGED <<begun, peer, old, place, committed, granted, mail, told>>
Quiet == UNCHANGED <<broker, place, grants, mail, told>>

LEMMA Steps ==
  ASSUME [Next]_vars
  PROVE  \/ \E p \in Peers : Begin(p)
         \/ Age
         \/ \E e \in mail : Emit(e)
         \/ \E i \in Ids : SendChallenge(i) \/ Wait(i) \/ Cancel(i)
         \/ \E i : \E approve, durable \in BOOLEAN : Respond(i, approve, durable)
         \/ Prunes
         \/ Quiet
<1>1. CASE Look \/ Snapshot
  BY <1>1 DEF Look, Snapshot, Prunes, grants
<1>2. CASE Subscribe \/ Handle \/ UNCHANGED vars
  BY <1>2 DEF Subscribe, Handle, vars, Quiet, broker, grants
<1>3. ASSUME NEW approve \in BOOLEAN, Resolve(approve)
      PROVE  \E i : \E a, d \in BOOLEAN : Respond(i, a, d)
  BY <1>3 DEF Resolve
<1>4. ASSUME NEW i \in Ids, NEW approve \in BOOLEAN, NEW durable \in BOOLEAN,
             Answer(i, approve, durable)
      PROVE  \E j : \E a, d \in BOOLEAN : Respond(j, a, d)
  BY <1>4 DEF Answer
<1> QED
  BY <1>1, <1>2, <1>3, <1>4 DEF Next, Tui, Requester

LEMMA EventFacts ==
  /\ \A i \in Ids : Requested(i) \in Events /\ Resolved(i) \in Events
  /\ \A i, j \in Ids : Resolved(i) = Resolved(j) => i = j
  /\ \A i, j \in Ids : Resolved(i) # Requested(j)
  /\ \A e \in Events : e.id \in Ids /\ (e.kind = "resolved" => e = Resolved(e.id))
  /\ \A e \in Events : e.kind # "resolved" => e = Requested(e.id)
BY DEF Events, Requested, Resolved

LEMMA CountingFacts ==
  ASSUME Counted
  PROVE  /\ begun \in Nat /\ old \in Nat /\ old <= begun /\ begun <= MaxRequests
         /\ pending \subseteq Ids
         /\ \A i \in pending : i \in Nat /\ i >= 1 /\ i <= begun
BY DEF Counted, Ids

LEMMA PruningFacts ==
  ASSUME PairingTyped
  PROVE  /\ Live \subseteq pending /\ Live \subseteq Ids
         /\ Pruned \in [Ids -> Decisions]
         /\ \A i \in Ids : i \notin pending => Pruned[i] = decision[i]
         /\ \A i \in Live : Pruned[i] = decision[i]
         /\ \A i \in pending \ Live : Pruned[i] = "closed"
<1>1. Live \subseteq pending /\ Live \subseteq Ids
  BY CountingFacts DEF PairingTyped, Live
<1>2. pending \subseteq Ids
  BY CountingFacts DEF PairingTyped
<1> HIDE DEF Live
<1>3. Pruned \in [Ids -> Decisions]
  BY <1>1 DEF PairingTyped, Pruned, Decisions
<1> QED
  BY <1>1, <1>2, <1>3 DEF Pruned

-----------------------------------------------------------------------------
(* Types, requests to come, and requests on the table.                     *)
LEMMA InitBase == Init => Base
BY DEF Init, Base, PairingTyped, Counted, Decisions, Unused, Unsettled, Ids

LEMMA PruningBase ==
  ASSUME Base, Prunes
  PROVE  Base'
<1>1. PairingTyped /\ Counted /\ Unused /\ Unsettled
  BY DEF Base, PairingTyped
<1>2. /\ begun \in Nat /\ \A i \in pending : i <= begun
      /\ Live \subseteq pending /\ \A i \in Live : Pruned[i] = decision[i]
      /\ \A i \in Ids : i \notin pending => Pruned[i] = decision[i]
      /\ Pruned \in [Ids -> Decisions]
  BY <1>1, CountingFacts, PruningFacts
<1>3. /\ decision' = Pruned /\ pending' = Live
      /\ UNCHANGED <<begun, peer, old, place, committed, granted, mail, told>>
  BY DEF Prunes
<1>4. PairingTyped'
  BY <1>1, <1>2, <1>3 DEF PairingTyped, Counted
<1>5. ASSUME NEW i \in Ids, i > begun PROVE i \notin pending
  BY <1>2, <1>5 DEF Ids
<1>6. Unused'
  BY <1>1, <1>2, <1>3, <1>5 DEF Unused
<1>7. Unsettled'
  BY <1>1, <1>2, <1>3 DEF Unsettled
<1> QED
  BY <1>4, <1>6, <1>7 DEF Base

LEMMA StepBase ==
  ASSUME Base, [Next]_vars
  PROVE  Base'
<1> USE DEF Base
<1>0. /\ Counted
      /\ begun \in Nat /\ old \in Nat /\ old <= begun /\ begun <= MaxRequests
      /\ pending \subseteq Ids /\ Ids \subseteq Nat /\ MaxRequests \in Nat
      /\ \A i \in pending : i \in Nat /\ i >= 1 /\ i <= begun
  BY CountingFacts DEF PairingTyped, Ids
<1>1. ASSUME NEW p \in Peers, Begin(p) PROVE Base'
  <2>1. CASE Admitted(p)
    <3> DEFINE n == begun + 1
    <3>1. n \in Ids /\ begun' = n /\ n \notin pending
      BY <1>0, <1>1, <2>1 DEF Begin, Ids
    <3>2. Counted'
      BY <1>0, <1>1, <2>1, <3>1, PruningFacts DEF Begin, Counted, Ids
    <3>3. decision' = Pruned /\ decision' \in [Ids -> Decisions]
      BY <1>1, PruningFacts DEF Begin
    <3>4. /\ peer' \in [Ids -> Peers \cup {NoPeer}]
          /\ place' \in [Ids -> {"none", "begun", "waiting", "cancelling",
                                  "paired", "gone"}]
      BY <1>1, <2>1, <3>1 DEF Begin, PairingTyped
    <3>5. /\ mail' \in SUBSET Events
          /\ UNCHANGED <<committed, granted, told>>
      BY <1>1, <2>1, <3>1, EventFacts DEF Begin, PairingTyped, grants
    <3>6. PairingTyped'
      BY <3>2, <3>3, <3>4, <3>5 DEF PairingTyped
    <3>7. ASSUME NEW i \in Ids, i > n
          PROVE  /\ peer'[i] = NoPeer /\ decision'[i] = "open"
                 /\ committed'[i] = "none"
                 /\ told'[i] = 0 /\ Resolved(i) \notin mail'
      <4>1. i > begun /\ i # n /\ i \notin pending
        BY <1>0, <3>1, <3>7 DEF Ids
      <4>2. peer' = [peer EXCEPT ![n] = p] /\ mail' = mail \cup {Requested(n)}
        BY <1>1, <2>1 DEF Begin
      <4> QED
        BY <3>1, <3>3, <3>5, <4>1, <4>2, PruningFacts, EventFacts DEF PairingTyped, Unused
    <3>8. Unused'
      BY <3>1, <3>7 DEF Unused
    <3>9. pending' = Live \cup {n}
      BY <1>1, <2>1 DEF Begin
    <3>10. n > begun
      BY <1>0
    <3>11. Unsettled'
      BY <3>1, <3>3, <3>5, <3>9, <3>10, PruningFacts DEF Unused, Unsettled
    <3> QED BY <3>6, <3>8, <3>11
  <2>2. CASE ~Admitted(p)
    <3>1. Prunes
      BY <1>1, <2>2 DEF Begin, Prunes, grants
    <3> QED BY <3>1, PruningBase
  <2> QED BY <2>1, <2>2
<1>2. CASE Age
  <2>1. Counted' /\ UNCHANGED <<begun, pending>>
    BY <1>0, <1>2 DEF Age, Counted
  <2> QED
    BY <1>2, <2>1 DEF Age, PairingTyped, Unused, Unsettled, grants
<1>3. ASSUME NEW e \in mail, Emit(e) PROVE Base'
  <2>1. e \in Events /\ e.id \in Ids /\ (e.kind = "resolved" => e = Resolved(e.id))
    BY EventFacts DEF PairingTyped
  <2>2. /\ UNCHANGED <<broker, place, grants>> /\ mail' = mail \ {e}
        /\ told' = IF e.kind = "resolved" THEN [told EXCEPT ![e.id] = @ + 1] ELSE told
    BY <1>3 DEF Emit
  <2>3. told' \in [Ids -> Nat]
    BY <2>1, <2>2 DEF PairingTyped
  <2>4. PairingTyped' /\ Unsettled'
    BY <2>2, <2>3 DEF PairingTyped, Counted, Unsettled, broker, grants
  <2>5. ASSUME NEW i \in Ids, i > begun PROVE told'[i] = 0
    <3>1. told[i] = 0 /\ Resolved(i) \notin mail
      BY <2>5 DEF Unused
    <3>2. e.kind = "resolved" => e.id # i
      BY <2>1, <3>1
    <3> QED BY <2>1, <2>2, <3>1, <3>2 DEF PairingTyped
  <2>6. Unused'
    BY <2>2, <2>5 DEF Unused, broker, grants
  <2> QED BY <2>4, <2>6
<1>4. ASSUME NEW i \in Ids, SendChallenge(i) \/ Wait(i) PROVE Base'
  <2>1. /\ UNCHANGED <<broker, grants, mail, told>>
        /\ \E to \in {"waiting", "cancelling", "paired", "gone"} :
             place' = [place EXCEPT ![i] = to]
    BY <1>4 DEF SendChallenge, Wait
  <2> QED
    BY <2>1 DEF PairingTyped, Counted, Unused, Unsettled, broker, grants
<1>5. ASSUME NEW i \in Ids, Cancel(i) PROVE Base'
  <2>1. CASE i \in pending
    <3>1. /\ pending' = pending \ {i} /\ mail' = mail \cup {Resolved(i)}
          /\ decision' = [decision EXCEPT ![i] = "closed"]
          /\ place' = [place EXCEPT ![i] = "gone"]
          /\ UNCHANGED <<begun, old, peer, committed, granted, told>>
      BY <1>5, <2>1 DEF Cancel, grants
    <3>2. PairingTyped'
      BY <1>0, <3>1, EventFacts DEF PairingTyped, Counted, Decisions
    <3>3. Unused' /\ Unsettled'
      BY <1>0, <2>1, <3>1, EventFacts DEF PairingTyped, Unused, Unsettled
    <3> QED BY <3>2, <3>3
  <2>2. CASE i \notin pending
    <3>1. /\ place' = [place EXCEPT ![i] = "gone"]
          /\ UNCHANGED <<broker, grants, mail, told>>
      BY <1>5, <2>2 DEF Cancel, broker
    <3> QED
      BY <3>1 DEF PairingTyped, Counted, Unused, Unsettled, broker, grants
  <2> QED BY <2>1, <2>2
<1>6. ASSUME NEW i, NEW approve \in BOOLEAN, NEW durable \in BOOLEAN,
             Respond(i, approve, durable)
      PROVE  Base'
  <2>1. CASE Refused(i, approve, durable)
    <3>1. Prunes
      BY <1>6, <2>1 DEF Respond, Refused, Prunes
    <3> QED BY <3>1, PruningBase
  <2>2. CASE Settled(i, approve, durable)
    <3>1. i \in Live /\ i \in Ids /\ i \in pending /\ i <= begun
      BY <1>0, <2>2, PruningFacts DEF Settled
    <3>2. /\ UNCHANGED <<begun, old, peer, place, told>>
          /\ pending' = Live \ {i} /\ mail' = mail \cup {Resolved(i)}
          /\ \E d \in {"approved", "denied"} : decision' = [Pruned EXCEPT ![i] = d]
          /\ \/ committed' = committed
             \/ \E c \in {"accept", "reject"} :
                  committed' = [committed EXCEPT ![i] = c]
          /\ granted' \subseteq granted \cup {i}
      BY <1>6, <2>2 DEF Respond, Settled
    <3>3. Counted'
      BY <1>0, <3>2, PruningFacts DEF Counted
    <3>4. PairingTyped'
      BY <3>1, <3>2, <3>3, PruningFacts, EventFacts DEF PairingTyped, Decisions
    <3>5. Unused'
      BY <1>0, <3>1, <3>2, PruningFacts, EventFacts DEF PairingTyped, Unused
    <3>6. Unsettled'
      BY <3>1, <3>2, PruningFacts DEF PairingTyped, Unsettled
    <3> QED BY <3>4, <3>5, <3>6
  <2> QED BY <1>6, <2>1, <2>2 DEF Respond
<1>7. CASE Prunes
  BY <1>7, PruningBase
<1>8. CASE Quiet
  BY <1>8 DEF Quiet, broker, grants, PairingTyped, Counted, Unused, Unsettled
<1> QED
  BY <1>1, <1>2, <1>3, <1>4, <1>5, <1>6, <1>7, <1>8, Steps

-----------------------------------------------------------------------------
(* Resolved once: of the parties that may end a request only the one that  *)
(* takes it off the table has something to say.                            *)
Said(i) == told[i] + (IF Resolved(i) \in mail THEN 1 ELSE 0)

LEMMA InitOnce == Init => ResolvedOnce
BY DEF Init, ResolvedOnce, Ids

LEMMA StepOnce ==
  ASSUME Base, ResolvedOnce, [Next]_vars
  PROVE  ResolvedOnce'
<1>0. PairingTyped /\ Counted /\ Unused /\ told \in [Ids -> Nat] /\ mail \subseteq Events
  BY DEF Base, PairingTyped
<1>1. \A i \in Ids : Said(i) \in Nat /\ Said(i) <= (IF i \in pending THEN 0 ELSE 1)
  BY <1>0 DEF ResolvedOnce, Said
<1>2. SUFFICES ASSUME NEW i \in Ids
               PROVE  Said(i)' <= (IF i \in pending' THEN 0 ELSE 1)
  BY DEF ResolvedOnce, Said
<1> USE DEF Said
<1>3. CASE pending' \subseteq pending /\ UNCHANGED told
             /\ (Resolved(i) \in mail' => Resolved(i) \in mail)
  BY <1>0, <1>1, <1>3
<1>4. ASSUME NEW j \in Ids, j \in pending, j \notin pending',
             pending' \subseteq pending, UNCHANGED told,
             mail' = mail \cup {Resolved(j)}
      PROVE  Said(i)' <= (IF i \in pending' THEN 0 ELSE 1)
  <2>1. CASE i = j
    BY <1>0, <1>1, <1>4, <2>1
  <2>2. CASE i # j
    BY <1>0, <1>1, <1>3, <1>4, <2>2, EventFacts
  <2> QED BY <2>1, <2>2
<1>5. ASSUME NEW p \in Peers, Begin(p) PROVE Said(i)' <= (IF i \in pending' THEN 0 ELSE 1)
  <2>1. /\ pending' \subseteq pending \cup {begun + 1} /\ UNCHANGED told
        /\ begun + 1 > begun
        /\ begun + 1 \notin Ids \/ mail' \subseteq mail \cup {Requested(begun + 1)}
    BY <1>0, <1>5, PruningFacts, CountingFacts DEF Begin, grants
  <2>2. Resolved(i) \in mail' => Resolved(i) \in mail
    BY <1>0, <1>5, EventFacts, CountingFacts DEF Begin, Ids
  <2>3. i = begun + 1 => Said(i) = 0
    BY <1>0, <2>1 DEF Unused
  <2> QED
    BY <1>0, <1>1, <2>1, <2>2, <2>3
<1>6. ASSUME NEW e \in mail, Emit(e) PROVE Said(i)' <= (IF i \in pending' THEN 0 ELSE 1)
  <2>1. /\ e.id \in Ids /\ UNCHANGED pending /\ mail' = mail \ {e}
        /\ told' = IF e.kind = "resolved" THEN [told EXCEPT ![e.id] = @ + 1] ELSE told
        /\ e.kind = "resolved" => e = Resolved(e.id)
    BY <1>0, <1>6, EventFacts DEF Emit, broker
  <2>2. CASE e = Resolved(i)
    <3>1. e.kind = "resolved" /\ e.id = i
      BY <2>2 DEF Resolved
    <3> QED BY <1>0, <1>1, <2>1, <2>2, <3>1
  <2>3. CASE e # Resolved(i)
    <3>1. told'[i] = told[i]
      BY <1>0, <2>1, <2>3
    <3> QED BY <1>0, <1>1, <2>1, <2>3, <3>1
  <2> QED BY <2>2, <2>3
<1>7. ASSUME NEW j \in Ids, SendChallenge(j) \/ Wait(j) \/ Cancel(j)
      PROVE  Said(i)' <= (IF i \in pending' THEN 0 ELSE 1)
  BY <1>3, <1>4, <1>7 DEF SendChallenge, Wait, Cancel, broker
<1>8. ASSUME NEW j, NEW approve \in BOOLEAN, NEW durable \in BOOLEAN,
             Respond(j, approve, durable)
      PROVE  Said(i)' <= (IF i \in pending' THEN 0 ELSE 1)
  <2>1. CASE Refused(j, approve, durable)
    BY <1>0, <1>3, <1>8, <2>1, PruningFacts DEF Respond, Refused
  <2>2. CASE Settled(j, approve, durable)
    BY <1>0, <1>4, <1>8, <2>2, PruningFacts DEF Respond, Settled
  <2> QED BY <1>8, <2>1, <2>2 DEF Respond
<1>9. CASE Age \/ Prunes \/ Quiet
  BY <1>0, <1>3, <1>9, PruningFacts DEF Age, Prunes, Quiet, broker
<1> QED
  BY <1>5, <1>6, <1>7, <1>8, <1>9, Steps

-----------------------------------------------------------------------------
(* Credentials: a decision other than "open" is never taken back, and      *)
(* "approved" is given together with the credential.                       *)
LEMMA InitCredentials == Init => CredentialsAreApproved
BY DEF Init, CredentialsAreApproved

LEMMA StepCredentials ==
  ASSUME Base, CredentialsAreApproved, [Next]_vars
  PROVE  CredentialsAreApproved'
<1>0. /\ PairingTyped /\ Counted /\ Unsettled /\ decision \in [Ids -> Decisions]
      /\ pending \subseteq Ids /\ granted \subseteq Ids
  BY CountingFacts DEF Base, PairingTyped
<1> DEFINE Agree(i) ==
      /\ i \in granted <=> decision[i] = "approved"
      /\ place[i] = "paired" => i \in granted
      /\ committed[i] = "accept" => i \in granted
      /\ committed[i] = "reject" => i \notin granted
<1>1. \A i \in Ids : Agree(i)
  BY DEF CredentialsAreApproved
<1>2. SUFFICES /\ \A i \in Ids : Agree(i)'
               /\ granted' \subseteq Ids
  BY DEF CredentialsAreApproved
<1>3. ASSUME UNCHANGED <<committed, granted>>,
             \A i \in Ids : decision'[i] = "approved" <=> decision[i] = "approved",
             \A i \in Ids : place'[i] = "paired" => place[i] = "paired"
      PROVE  (\A i \in Ids : Agree(i)') /\ granted' \subseteq Ids
  BY <1>0, <1>1, <1>3
<1>4. ASSUME decision' = Pruned
      PROVE  \A i \in Ids : decision'[i] = "approved" <=> decision[i] = "approved"
  BY <1>0, <1>4, PruningFacts DEF Unsettled
<1>5. ASSUME NEW p \in Peers, Begin(p)
      PROVE  (\A i \in Ids : Agree(i)') /\ granted' \subseteq Ids
  <2>1. decision' = Pruned /\ UNCHANGED <<committed, granted>>
    BY <1>5 DEF Begin, grants
  <2>2. \A i \in Ids : place'[i] = "paired" => place[i] = "paired"
    BY <1>0, <1>5 DEF Begin, PairingTyped
  <2> QED BY <1>3, <1>4, <2>1, <2>2
<1>6. ASSUME NEW j \in Ids, SendChallenge(j) \/ Cancel(j)
      PROVE  (\A i \in Ids : Agree(i)') /\ granted' \subseteq Ids
  <2>1. UNCHANGED <<committed, granted>>
    BY <1>6 DEF SendChallenge, Cancel, grants
  <2>2. \A i \in Ids : decision'[i] = "approved" <=> decision[i] = "approved"
    BY <1>0, <1>6 DEF SendChallenge, Cancel, broker, Unsettled, PairingTyped
  <2>3. \A i \in Ids : place'[i] = "paired" => place[i] = "paired"
    BY <1>0, <1>6 DEF SendChallenge, Cancel, PairingTyped
  <2> QED BY <1>3, <2>1, <2>2, <2>3
<1>7. ASSUME NEW j \in Ids, Wait(j)
      PROVE  (\A i \in Ids : Agree(i)') /\ granted' \subseteq Ids
  <2>1. UNCHANGED <<committed, granted, decision>>
    BY <1>7 DEF Wait, grants, broker
  <2>2. \A i \in Ids : place'[i] = "paired" =>
          place[i] = "paired" \/ decision[i] = "approved"
    BY <1>0, <1>7 DEF Wait, PairingTyped
  <2> QED BY <1>0, <1>1, <2>1, <2>2
<1>8. ASSUME NEW j, NEW approve \in BOOLEAN, NEW durable \in BOOLEAN,
             Respond(j, approve, durable)
      PROVE  (\A i \in Ids : Agree(i)') /\ granted' \subseteq Ids
  <2>1. CASE Refused(j, approve, durable)
    BY <1>3, <1>4, <1>8, <2>1 DEF Respond, Refused
  <2>2. CASE Settled(j, approve, durable)
    <3>1. /\ j \in Ids /\ j \in pending
          /\ decision[j] = "open" /\ committed[j] = "none" /\ j \notin granted
          /\ Pruned \in [Ids -> Decisions]
      BY <1>0, <1>1, <2>2, PruningFacts DEF Settled, Unsettled
    <3>2. /\ UNCHANGED place
          /\ granted' = IF approve THEN granted \cup {j} ELSE granted
          /\ decision' = [Pruned EXCEPT ![j] = IF approve THEN "approved" ELSE "denied"]
          /\ committed' = IF ~durable THEN committed
               ELSE [committed EXCEPT ![j] = IF approve THEN "accept" ELSE "reject"]
      BY <1>8, <2>2 DEF Respond, Settled
    <3>3. \A i \in Ids : Pruned[i] = "approved" <=> decision[i] = "approved"
      BY <1>0, PruningFacts DEF Unsettled
    <3>4. ASSUME NEW i \in Ids, i # j PROVE Agree(i)'
      BY <1>0, <1>1, <3>1, <3>2, <3>3, <3>4 DEF PairingTyped
    <3>5. Agree(j)'
      BY <1>0, <1>1, <3>1, <3>2 DEF PairingTyped
    <3> QED BY <1>0, <3>1, <3>2, <3>4, <3>5
  <2> QED BY <1>8, <2>1, <2>2 DEF Respond
<1>9. CASE Prunes
  BY <1>3, <1>4, <1>9 DEF Prunes
<1>10. CASE Age \/ Quiet \/ \E e \in mail : Emit(e)
  BY <1>3, <1>10 DEF Age, Quiet, Emit, broker, grants
<1> QED
  BY <1>5, <1>6, <1>7, <1>8, <1>9, <1>10, Steps

-----------------------------------------------------------------------------
(* Limits: a challenge enters the window of its peer only when there is    *)
(* room, and leaves it by age alone.                                       *)
LEMMA RecentFinite == Counted => \A p : IsFiniteSet(Recent(p))
<1> SUFFICES ASSUME Counted, NEW p PROVE IsFiniteSet(Recent(p))
  OBVIOUS
<1>1. old + 1 \in Int /\ begun \in Int
  BY CountingFacts
<1>2. IsFiniteSet((old + 1)..begun)
  BY <1>1, FS_Interval
<1>3. Recent(p) \in SUBSET ((old + 1)..begun)
  BY DEF Recent
<1> QED BY <1>2, <1>3, FS_Subset

LEMMA InitLimited == Init => Limited
<1> SUFFICES ASSUME Init PROVE Limited
  OBVIOUS
<1>1. \A p \in Peers : Recent(p) = {}
  BY DEF Init, Recent
<1>2. Cardinality({}) = 0 /\ 0 <= MaxPerWindow
  BY FS_EmptySet
<1>3. \A p \in Peers : Cardinality(Recent(p)) <= MaxPerWindow
  BY <1>1, <1>2
<1> QED BY <1>3 DEF Init, Limited

LEMMA StepLimited ==
  ASSUME Base, Limited, [Next]_vars
  PROVE  Limited'
<1>0. /\ PairingTyped /\ Counted /\ begun \in Nat /\ old \in Nat /\ old <= begun
      /\ pending \subseteq 1..begun /\ Live \subseteq pending
  BY CountingFacts, PruningFacts DEF Base, PairingTyped, Counted
<1>1. ASSUME UNCHANGED <<begun, old, peer>>, pending' \subseteq pending
      PROVE  Limited'
  BY <1>1 DEF Limited, Recent
<1>2. ASSUME NEW p \in Peers, Begin(p) PROVE Limited'
  <2>1. CASE ~Admitted(p)
    BY <1>0, <1>1, <1>2, <2>1 DEF Begin
  <2>2. CASE Admitted(p)
    <3> DEFINE n == begun + 1
    <3>1. /\ begun' = n /\ UNCHANGED old /\ pending' = Live \cup {n}
          /\ peer' = [peer EXCEPT ![n] = p]
          /\ n \in Ids /\ n \notin pending /\ n \in Nat
      BY <1>0, <1>2, <2>2 DEF Begin, Ids
    <3>2. \A i \in 1..begun : peer'[i] = peer[i]
      BY <1>0, <3>1 DEF PairingTyped, Ids
    <3>3. peer'[n] = p
      BY <1>0, <3>1 DEF PairingTyped
    <3>4. \A i, j \in pending' : peer'[i] = peer'[j] => i = j
      <4>1. \A i \in Live : peer'[i] = peer[i] /\ peer[i] # p
        BY <1>0, <2>2, <3>2 DEF Admitted
      <4> QED BY <1>0, <3>1, <3>3, <4>1 DEF Limited
    <3>5. (old + 1)..n = ((old + 1)..begun) \cup {n} /\ (old + 1)..begun \subseteq 1..begun
      BY <1>0
    <3>6. \A q \in Peers : Recent(q)' =
            {i \in ((old + 1)..begun) \cup {n} : peer'[i] = q}
      BY <3>1, <3>5 DEF Recent
    <3>7. ASSUME NEW q \in Peers
          PROVE  Cardinality(Recent(q))' <= MaxPerWindow
      <4>1. CASE q = p
        <5>1. Recent(q)' = Recent(q) \cup {n}
          BY <3>2, <3>3, <3>5, <3>6, <4>1 DEF Recent
        <5>2. n \notin Recent(q)
          BY <1>0 DEF Recent
        <5>3. IsFiniteSet(Recent(q)) /\ Cardinality(Recent(q)) < MaxPerWindow
          BY <1>0, <2>2, <4>1, RecentFinite DEF Admitted
        <5>4. Cardinality(Recent(q) \cup {n}) = Cardinality(Recent(q)) + 1
          BY <5>2, <5>3, FS_AddElement
        <5>5. Cardinality(Recent(q)) \in Nat
          BY <5>3, FS_CardinalityType
        <5> QED BY <5>1, <5>3, <5>4, <5>5
      <4>2. CASE q # p
        <5>1. Recent(q)' = Recent(q)
          BY <3>2, <3>3, <3>5, <3>6, <4>2 DEF Recent
        <5> QED BY <5>1 DEF Limited
      <4> QED BY <4>1, <4>2
    <3> QED BY <3>4, <3>7 DEF Limited
  <2> QED BY <2>1, <2>2
<1>3. CASE Age
  <2>1. UNCHANGED <<begun, peer, pending>> /\ old' = old + 1
    BY <1>3 DEF Age
  <2>2. ASSUME NEW p \in Peers PROVE Cardinality(Recent(p))' <= MaxPerWindow
    <3>1. Recent(p)' \in SUBSET Recent(p)
      BY <1>0, <2>1 DEF Recent
    <3>2. /\ Cardinality(Recent(p)') <= Cardinality(Recent(p))
          /\ Cardinality(Recent(p)) \in Nat /\ Cardinality(Recent(p)') \in Nat
      BY <1>0, <3>1, RecentFinite, FS_Subset, FS_CardinalityType
    <3> QED BY <3>2 DEF Limited
  <2> QED BY <2>1, <2>2 DEF Limited
<1>4. ASSUME NEW j \in Ids, SendChallenge(j) \/ Wait(j) \/ Cancel(j) PROVE Limited'
  BY <1>1, <1>4 DEF SendChallenge, Wait, Cancel, broker
<1>5. ASSUME NEW j, NEW approve \in BOOLEAN, NEW durable \in BOOLEAN,
             Respond(j, approve, durable)
      PROVE  Limited'
  BY <1>0, <1>1, <1>5 DEF Respond, Refused, Settled
<1>6. CASE Prunes \/ Quiet \/ \E e \in mail : Emit(e)
  BY <1>0, <1>1, <1>6 DEF Prunes, Quiet, Emit, broker
<1> QED
  BY <1>2, <1>3, <1>4, <1>5, <1>6, Steps

LEMMA LimitedImplies ==
  ASSUME PairingTyped, Limited
  PROVE  PeersAreLimited
<1> SUFFICES ASSUME NEW p \in Peers
             PROVE  /\ Cardinality(Recent(p)) <= MaxPerWindow
                    /\ Cardinality({i \in pending : peer[i] = p}) <= 1
  BY DEF PeersAreLimited, Recent
<1> DEFINE S == {i \in pending : peer[i] = p}
<1>1. CASE S = {}
  BY <1>1, FS_EmptySet DEF Limited
<1>2. ASSUME NEW i \in S PROVE Cardinality(S) = 1
  <2>1. S = {i}
    BY <1>2 DEF Limited
  <2> QED BY <2>1, FS_Singleton
<1> QED BY <1>1, <1>2 DEF Limited

-----------------------------------------------------------------------------
(* The inductive invariant of the broker and of everybody around it.       *)
THEOREM PairingInvariant == Spec => []PairingInv
<1>1. Init => PairingInv
  BY InitBase, InitOnce, InitCredentials, InitLimited DEF PairingInv
<1>2. PairingInv /\ [Next]_vars => PairingInv'
  BY StepBase, StepOnce, StepCredentials, StepLimited DEF PairingInv
<1> QED BY <1>1, <1>2, PTL DEF Spec

(* A request is resolved once, for any number of requests: of respond_after, *)
(* cancel and prune only the one that takes it off the table announces it.   *)
THEOREM RequestsAreResolvedOnce == Spec => []ResolvedOnce
<1>1. PairingInv => ResolvedOnce
  BY DEF PairingInv
<1> QED BY <1>1, PairingInvariant, PTL

(* Credentials go with approvals, whatever durable commits fail and however  *)
(* late the answers are.                                                     *)
THEOREM CredentialsFollowApprovals == Spec => []CredentialsAreApproved
<1>1. PairingInv => CredentialsAreApproved
  BY DEF PairingInv
<1> QED BY <1>1, PairingInvariant, PTL

(* For every MAX_REQUESTS_PER_WINDOW, a peer has no more challenges than     *)
(* that in a window, and one pending.                                        *)
THEOREM PeersStayLimited == Spec => []PeersAreLimited
<1>1. PairingInv => PeersAreLimited
  BY LimitedImplies DEF PairingInv, Base
<1> QED BY <1>1, PairingInvariant, PTL
=============================================================================
