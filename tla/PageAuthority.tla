--------------------------- MODULE PageAuthority ---------------------------
(***************************************************************************)
(* Which pixels of a page a browser surface shows, and when a pointer may  *)
(* act on them (browser.rs and the FrameEpoch of cmux-tui-cdp/client.rs).  *)
(*                                                                         *)
(* Chrome sends navigations, paints and screencast frames over one socket. *)
(* The reader stamps each with a frame epoch and queues it for the thread  *)
(* of the surface, which sets barriers on the state of the surface.  The   *)
(* worker of the surface runs commands one at a time: navigations of the   *)
(* user, resizes, and the captures that lift a barrier.  It waits for      *)
(* Chrome in the middle of them, without a lock, while the reader and the  *)
(* thread of the surface go on.                                            *)
(*                                                                         *)
(* A page is a document and a view of it: a document navigation changes    *)
(* both, a same-document navigation the view only; views are numbered in   *)
(* the order of Chrome, and the first view of a document names it.  A      *)
(* frame carries the page it shows and the time of its capture, by which   *)
(* it is known (BrowserFrame::seq).  0 is None in every epoch and frame.   *)
(***************************************************************************)
EXTENDS Naturals, Sequences, SequencesExt, FiniteSetsExt

CONSTANTS
  MaxViews,       \* bound: navigations of Chrome
  MaxPaints,      \* bound: lifecycle notices of one document
  MaxFrames,      \* bound: screencast frames
  Commands,       \* kinds of user commands: navigate, reload, resize
  MaxCommands,    \* bound: commands of the user
  MaxTimeouts,    \* bound: calls that time out
  Attempts,       \* AUTHORITY_CAPTURE_ATTEMPTS
  ResizeRetries   \* BROWSER_RECONFIGURE_RETRY_DELAYS.len()

ASSUME AuthorityAssumption ==
  /\ {MaxViews, MaxPaints, MaxFrames, MaxCommands, MaxTimeouts, Attempts,
      ResizeRetries} \subseteq Nat
  /\ Attempts > 0
  /\ Commands \subseteq {"navigate", "reload", "resize"}

VARIABLES
  chrome,   \* the page, what is painted of it, and the screencast
  wire,     \* what Chrome has sent and the reader has not read
  epoch,    \* FrameEpoch, what the reader knows of the page, and whether it
            \* was misled about it (a ghost)
  events,   \* the route to the thread of the surface
  surf,     \* BrowserState
  todo,     \* the lanes of commands the worker has not taken
  batch,    \* the commands it has taken
  worker,   \* the command it runs, and where it stands
  asked,    \* commands of the user so far
  expired,  \* calls that have timed out so far
  press     \* the last press accepted: its generation and its document

pageVars == <<chrome, wire, epoch, events, surf, todo, batch, worker, asked,
          expired, press>>

None == 0
Nothing == [doc |-> None, view |-> None]
NoFrame == [page |-> Nothing, at |-> None]
NoRetained == [epoch |-> None, frame |-> NoFrame]
NoPress == [gen |-> None, doc |-> None]
NoToken ==
  [expected |-> None, ptr |-> None, latest |-> None, gen |-> None,
   pendFrame |-> None, pendNav |-> None, deadline |-> FALSE,
   pendSame |-> FALSE, acceptedNav |-> None, retained |-> NoRetained]
NoCommand == [kind |-> "none", doc |-> None, nav |-> None]
Idle == [at |-> "idle", cmd |-> NoCommand, tries |-> 0, answer |-> <<>>,
         seen |-> [current |-> None, same |-> None], epoch |-> None,
         shot |-> NoFrame]
Retryable == {"resize", "page", "updated"}

First == [doc |-> 1, view |-> 1]

\* A queue without the one element that stands at one of these positions.
Without(queue, positions) ==
  IF positions = {} THEN queue
  ELSE RemoveAt(queue, CHOOSE i \in positions : TRUE)

\* A surface after its bootstrap: live, without a frame.
PageInit ==
  /\ chrome = [page |-> First, shown |-> First, paints |-> 0, clock |-> 0,
               frames |-> 0, casting |-> TRUE, encoder |-> NoFrame]
  /\ wire = <<>>
  /\ epoch = [current |-> 1, nav |-> None, same |-> None, barrier |-> None,
              page |-> First, misled |-> FALSE]
  /\ events = <<>>
  /\ surf = [status |-> "live", kind |-> "none", latest |-> NoFrame,
             ptr |-> None, gen |-> 1, accepted |-> 1, acceptedNav |-> None,
             handledNav |-> None, handledSame |-> None,
             pendFrame |-> None, pendNav |-> None, pendDoc |-> None,
             pendSame |-> FALSE, deadline |-> FALSE, recovery |-> FALSE,
             retained |-> NoRetained, rollback |-> NoToken,
             rollbackFresh |-> FALSE, held |-> NoToken, heldFresh |-> FALSE,
             silences |-> 0, reported |-> FALSE, failures |-> 0]
  /\ todo = <<>> /\ batch = <<>> /\ worker = Idle
  /\ asked = 0 /\ expired = 0 /\ press = NoPress

(***************************************************************************)
(* Chrome.                                                                 *)
(***************************************************************************)
Message(kind, page, at) == [kind |-> kind, page |-> page, at |-> at]

Sends(m) == wire' = Append(wire, m)

\* A document commits; its pixels show once it has painted.  One restored
\* from the back-forward cache may show at once.
Commits ==
  /\ chrome.page.view < MaxViews
  /\ LET view == chrome.page.view + 1
         new == [doc |-> view, view |-> view]
         next == [chrome EXCEPT !.page = new, !.paints = 0]
     IN \/ chrome' = next /\ Sends(Message("navigated", new, None))
        \/ /\ chrome' \in {next, [next EXCEPT !.shown = new]}
           /\ Sends(Message("restored", new, None))
  /\ UNCHANGED <<epoch, events, surf, todo, batch, worker, asked, expired,
                 press>>

Within(c) ==
  LET new == [c.page EXCEPT !.view = @ + 1]
  IN [c EXCEPT !.page = new,
               !.shown = IF c.shown.doc = new.doc THEN new ELSE @]

ViewChanges ==
  /\ chrome.page.view < MaxViews
  /\ chrome' = Within(chrome)
  /\ Sends(Message("within", chrome'.page, None))
  /\ UNCHANGED <<epoch, events, surf, todo, batch, worker, asked, expired,
                 press>>

\* A lifecycle notice of the document, which its loader names.
Notifies(kind, page) ==
  /\ chrome.page.doc # First.doc /\ chrome.paints < MaxPaints
  /\ Sends(Message(kind, page, None))
  /\ UNCHANGED <<epoch, events, surf, todo, batch, worker, asked, expired,
                 press>>

\* firstPaint or firstContentfulPaint, which may come late
Paints ==
  /\ Notifies("paint", chrome.page)
  /\ chrome' = [chrome EXCEPT !.paints = @ + 1, !.shown = chrome.page]

PaintsLate ==
  /\ Notifies("paint", chrome.shown)
  /\ chrome' = [chrome EXCEPT !.paints = @ + 1]

\* A load event and a notice without a loader say nothing of the pixels.
Loads ==
  /\ \E page \in {chrome.page, Nothing} : Notifies("load", page)
  /\ chrome' = [chrome EXCEPT !.paints = @ + 1]

\* A frame is captured, and encoded for a while before it is sent.
Captures ==
  /\ chrome.casting /\ chrome.encoder = NoFrame /\ chrome.frames < MaxFrames
  /\ chrome' = [chrome EXCEPT !.clock = @ + 1, !.frames = @ + 1,
                  !.encoder = [page |-> chrome.shown, at |-> chrome.clock + 1]]
  /\ UNCHANGED <<wire, epoch, events, surf, todo, batch, worker, asked,
                 expired, press>>

Emits ==
  /\ chrome.encoder # NoFrame
  /\ Sends(Message("frame", chrome.encoder.page, chrome.encoder.at))
  /\ chrome' = [chrome EXCEPT !.encoder = NoFrame]
  /\ UNCHANGED <<epoch, events, surf, todo, batch, worker, asked, expired,
                 press>>

ChromeStep ==
  \/ Commits \/ ViewChanges \/ Paints \/ PaintsLate \/ Loads \/ Captures
  \/ Emits

(***************************************************************************)
(* The reader: stamp, then queue.  A frame takes the place of the frame    *)
(* that waits (see BrowserRoutes).                                         *)
(***************************************************************************)
Event(kind, at, page, frame) ==
  [kind |-> kind, epoch |-> at, doc |-> page.doc, frame |-> frame]

Queue(e) ==
  events' = Append(Without(events, {i \in DOMAIN events :
                     e.kind = "frame" /\ events[i].kind = "frame"}), e)

ReadFrame(m) ==
  /\ m.kind = "frame"
  /\ IF m.at < epoch.barrier
     THEN UNCHANGED events
     ELSE Queue(Event("frame", epoch.current, m.page,
                      [page |-> m.page, at |-> m.at]))
  /\ UNCHANGED <<epoch, worker>>

\* The reader takes a document for painted that Chrome does not show yet.
Misleads(page) == chrome.shown.doc < page.doc

\* A restored document is taken for painted there and then.
ReadNavigated(m) ==
  /\ m.kind \in {"navigated", "restored"}
  /\ epoch' = [epoch EXCEPT !.current = @ + 1, !.nav = epoch.current + 1,
                  !.page = m.page,
                  !.misled = m.kind = "restored" /\ Misleads(m.page)]
  /\ LET turn == Event("navigated", epoch.current + 1, m.page, NoFrame)
         painted == Event("paint", epoch.current + 1, m.page, NoFrame)
     IN events' = IF m.kind = "restored"
                  THEN Append(Append(events, turn), painted)
                  ELSE Append(events, turn)
  /\ UNCHANGED worker

\* The pending document is the one of the last navigation: a notice that
\* names it or no document is taken for its paint, and so is a load event.
ReadPaint(m) ==
  /\ m.kind \in {"paint", "load"}
  /\ IF epoch.nav # None /\ (m.page = Nothing \/ m.page.doc = epoch.page.doc)
     THEN /\ Queue(Event("paint", epoch.nav, epoch.page, NoFrame))
          /\ epoch' = [epoch EXCEPT
               !.misled = \/ @
                          \/ /\ m.kind = "load" \/ m.page = Nothing
                             /\ Misleads(epoch.page)]
     ELSE UNCHANGED <<events, epoch>>
  /\ UNCHANGED worker

ReadWithin(m) ==
  /\ m.kind = "within"
  /\ epoch' = [epoch EXCEPT !.current = @ + 1, !.same = epoch.current + 1,
                            !.page = m.page]
  /\ Queue(Event("within", epoch.current + 1, epoch.page, NoFrame))
  /\ UNCHANGED worker

\* The answer to Page.startScreencast advances the epoch before it wakes its
\* caller.
ReadReply(m) ==
  /\ m.kind = "answer"
  /\ worker' = [worker EXCEPT !.answer = <<m>>]
  /\ epoch' = IF worker.at = "start" THEN [epoch EXCEPT !.current = @ + 1]
              ELSE epoch
  /\ UNCHANGED events

Read ==
  /\ wire # <<>>
  /\ LET m == Head(wire)
     IN ReadFrame(m) \/ ReadNavigated(m) \/ ReadPaint(m) \/ ReadWithin(m)
        \/ ReadReply(m)
  /\ wire' = Tail(wire)
  /\ UNCHANGED <<chrome, surf, todo, batch, asked, expired, press>>

(***************************************************************************)
(* The state of the surface: pointer, frames and barriers.  Each operator  *)
(* maps the state before a function of browser.rs to the state after it.   *)
(***************************************************************************)
EpochIsCurrent(s) ==
  /\ s.pendFrame = None /\ s.pendNav = None /\ s.pendDoc = None /\ ~s.pendSame
  /\ s.accepted = epoch.current
  /\ s.acceptedNav = epoch.nav
  /\ s.handledSame = epoch.same

Exported(s) == IF EpochIsCurrent(s) THEN s.ptr ELSE None

\* Every change of the pointer is a new revision: no token is fresh after it.
SetPointer(s, ptr) ==
  [s EXCEPT !.ptr = ptr, !.rollbackFresh = FALSE, !.heldFresh = FALSE]

Invalidate(s, revoke) ==
  [SetPointer(s, None) EXCEPT !.gen = IF revoke THEN @ + 1 ELSE @]

\* What invalidate_pointer_frame_locked keeps of the state before it.
Token(s, expected) ==
  [expected |-> expected, ptr |-> s.ptr, latest |-> s.latest.at,
   gen |-> s.gen, pendFrame |-> s.pendFrame, pendNav |-> s.pendNav,
   deadline |-> s.deadline, pendSame |-> s.pendSame,
   acceptedNav |-> s.acceptedNav, retained |-> s.retained]

\* require_navigation_session and require_verification_session
MayNavigate(s) == s.status = "live" \/ s.kind \in Retryable
MayVerify(s) == s.status = "live" \/ (s.recovery /\ s.kind \in Retryable)

Settled(s) ==
  [s EXCEPT !.pendFrame = None, !.pendNav = None, !.pendDoc = None,
            !.pendSame = FALSE, !.deadline = FALSE, !.recovery = FALSE,
            !.retained = NoRetained, !.rollback = NoToken]

MarkFailed(s, kind) ==
  Settled(Invalidate([s EXCEPT !.status = "failed", !.kind = kind], FALSE))

MarkAuthorityFailed(s, kind) ==
  [Invalidate([s EXCEPT !.status = "failed", !.kind = kind], FALSE)
     EXCEPT !.deadline = FALSE, !.recovery = TRUE]

ClearError(s) ==
  IF s.status = "failed"
  THEN [s EXCEPT !.status = "live", !.kind = "none", !.failures = 0]
  ELSE s

MayAuthorize(s) ==
  s.status = "live" /\ s.pendNav = None /\ s.pendDoc = None /\ ~s.pendSame

\* store_frame_locked
Stored(s, frame) ==
  LET woken == IF s.kind = "silent"
               THEN [s EXCEPT !.status = "live", !.kind = "none",
                              !.reported = FALSE]
               ELSE s
      ptr == IF MayAuthorize(woken) THEN frame.at ELSE None
      shown == [woken EXCEPT !.latest = frame]
  IN IF shown.ptr = ptr THEN shown ELSE SetPointer(shown, ptr)

Retain(s, frame, at) ==
  IF at >= s.retained.epoch
  THEN [s EXCEPT !.retained = [epoch |-> at, frame |-> frame]]
  ELSE s

\* Mutant: frames of an earlier epoch pass as well.
StoredForAnyEpoch(s, frame, at) ==
  CASE s.pendFrame # None ->
         IF at >= s.pendFrame THEN Retain(s, frame, at) ELSE s
    [] s.pendFrame = None /\ at > s.accepted -> Retain(s, frame, at)
    [] OTHER -> Stored(s, frame)

StoredForEpoch(s, frame, at) ==
  CASE s.pendFrame # None ->
         IF at >= s.pendFrame THEN Retain(s, frame, at) ELSE s
    [] s.pendFrame = None /\ at > s.accepted -> Retain(s, frame, at)
    [] s.pendFrame = None /\ at < s.accepted -> s
    [] OTHER -> Stored(s, frame)

\* accept_frame_epoch_locked, for the restart of a resize.
AcceptEpoch(s, at) ==
  LET open == [s EXCEPT !.accepted = at,
                 !.pendFrame = IF at >= s.pendFrame THEN None ELSE s.pendFrame,
                 !.retained = IF s.retained.epoch > at THEN @ ELSE NoRetained]
  IN IF at < s.accepted THEN s
     ELSE IF s.retained.epoch = at THEN Stored(open, s.retained.frame)
     ELSE open

(***************************************************************************)
(* The thread of the surface.                                              *)
(***************************************************************************)
ObserveNavigation(s, at) ==
  LET known == IF epoch.same < at THEN [s EXCEPT !.handledSame = epoch.same]
               ELSE s
      precedes == s.pendNav # None /\ at < s.pendNav
      revoked == s.pendNav # None /\ ~s.pendSame
      barred == [known EXCEPT !.recovery = @ /\ s.pendNav # None,
                   !.handledNav = at, !.pendNav = None, !.pendSame = FALSE,
                   !.rollback = NoToken]
  IN CASE at <= s.handledNav -> s
       [] at > s.handledNav /\ precedes /\ at # epoch.nav -> known
       [] at > s.handledNav /\ precedes /\ at = epoch.nav ->
            [known EXCEPT !.handledNav = at, !.pendDoc = at, !.deadline = TRUE]
       [] OTHER ->
            [Invalidate(barred, ~revoked) EXCEPT
               !.pendDoc = at, !.deadline = TRUE, !.retained = NoRetained,
               !.pendFrame = Max({s.pendFrame, at, s.accepted})]

ObserveSame(s, at) ==
  IF \/ at <= s.handledSame \/ at # epoch.same \/ s.pendDoc # None
     \/ (s.pendNav # None /\ ~s.pendSame) \/ ~MayVerify(s)
  THEN s
  ELSE [Invalidate(s, FALSE) EXCEPT
          !.handledSame = at, !.recovery = @ /\ s.pendSame,
          !.pendFrame = Max({s.pendFrame, at}), !.pendNav = None,
          !.pendSame = TRUE, !.deadline = TRUE, !.retained = NoRetained,
          !.rollback = NoToken]

NeedsDocument(s, nav) == s.pendDoc = nav
NeedsSame(s) == s.pendDoc = None /\ s.pendSame

Authority == {"paint", "same"}

\* The lanes: the latest navigation and the latest authority replace the one
\* that waits; every other command queues up.
InLane(a, b) ==
  (a.kind = "navigate" /\ b = a) \/ {a.kind, b.kind} \subseteq Authority

Enqueue(cmd) ==
  todo' = Append(Without(todo, {i \in DOMAIN todo : InLane(todo[i], cmd)}), cmd)

Command(kind, doc, nav) == [kind |-> kind, doc |-> doc, nav |-> nav]

HandleEvent ==
  /\ events # <<>>
  /\ LET e == Head(events)
     IN \/ /\ e.kind = "frame"
           /\ surf' = StoredForEpoch(surf, e.frame, e.epoch)
           /\ UNCHANGED todo
        \/ /\ e.kind = "navigated"
           /\ surf' = ObserveNavigation(surf, e.epoch)
           /\ UNCHANGED todo
        \/ /\ e.kind = "paint"
           /\ IF NeedsDocument(surf, e.epoch)
              THEN Enqueue(Command("paint", e.doc, e.epoch))
              ELSE UNCHANGED todo
           /\ UNCHANGED surf
        \/ /\ e.kind = "within"
           /\ surf' = ObserveSame(surf, e.epoch)
           /\ IF NeedsSame(surf') THEN Enqueue(Command("same", e.doc, None))
              ELSE UNCHANGED todo
  /\ events' = Tail(events)
  /\ UNCHANGED <<chrome, wire, epoch, batch, worker, asked, expired, press>>

(***************************************************************************)
(* Barriers of commands, and what lifts them or gives them up.             *)
(***************************************************************************)
Install(s, targeted, token) ==
  [s EXCEPT !.pendFrame = token.expected, !.pendNav = token.expected,
            !.deadline = TRUE, !.pendSame = targeted,
            !.recovery = s.kind \in Retryable, !.retained = NoRetained,
            !.rollback = token, !.rollbackFresh = TRUE,
            !.held = token, !.heldFresh = TRUE]

Reserve(s, targeted) ==
  Install(Invalidate(s, ~targeted), targeted, Token(s, epoch.current + 1))

IsFree(s) == s.pendFrame = None /\ s.pendNav = None /\ s.pendDoc = None
NavigationPending(s) == s.pendNav # None \/ s.pendDoc # None \/ s.pendSame

\* begin_superseding_navigation_frame_transition: the rollback of a command
\* that never committed outlives it, and so do verified pixels.
Supersede(s, targeted) ==
  LET preserved == /\ targeted /\ s.rollback # NoToken /\ s.pendDoc = None
                   /\ s.rollbackFresh /\ epoch.current < s.rollback.expected
                   /\ s.latest.at = s.rollback.latest
      verified == /\ s.pendDoc = None /\ s.status = "live"
                  /\ s.acceptedNav = epoch.nav /\ s.accepted = epoch.current
                  /\ s.latest # NoFrame
  IN CASE preserved ->
            Install(Settled(s), targeted,
                    [s.rollback EXCEPT !.expected = epoch.current + 1])
       [] ~preserved /\ verified ->
            Reserve(SetPointer(Settled(s), s.latest.at), targeted)
       [] OTHER -> Reserve(Settled(s), targeted)

BeginResize(s) ==
  LET token == Token(s, epoch.current + 1)
  IN [Invalidate(s, FALSE) EXCEPT
        !.pendFrame = token.expected, !.retained = NoRetained,
        !.held = token, !.heldFresh = TRUE]

PutBack(s, owns) ==
  LET t == s.held
  IN [SetPointer(s, t.ptr) EXCEPT
        !.gen = t.gen, !.pendFrame = t.pendFrame, !.pendNav = t.pendNav,
        !.deadline = t.deadline, !.pendSame = t.pendSame, !.recovery = FALSE,
        !.retained = t.retained,
        !.rollback = IF owns THEN NoToken ELSE s.rollback]

\* restore_pointer_frame_after_failed_command; "owns" when the rollback of
\* the surface is the one of the command.
Restore(s, owns) ==
  LET t == s.held
      precedes == /\ owns /\ t.acceptedNav < epoch.nav /\ epoch.nav < t.expected
                  /\ s.handledNav >= epoch.nav
      reset == [s EXCEPT
                  !.pendNav = t.pendNav, !.pendSame = t.pendSame,
                  !.deadline = IF t.pendNav # None THEN t.deadline ELSE @,
                  !.recovery = FALSE, !.rollback = NoToken,
                  !.retained = NoRetained, !.gen = t.gen]
      refused == \/ ~s.heldFresh
                 \/ ~MayVerify(s)
                 \/ s.latest.at # t.latest
  IN CASE precedes /\ s.acceptedNav = epoch.nav ->
            [SetPointer(reset, IF s.status = "live" THEN s.latest.at ELSE None)
               EXCEPT !.gen = t.gen + 1, !.pendFrame = t.pendFrame]
       [] precedes /\ s.acceptedNav # epoch.nav ->
            [SetPointer(reset, None) EXCEPT
               !.pendFrame = IF s.pendDoc = None THEN None
                             ELSE Max({epoch.current, s.pendDoc, s.accepted})]
       [] ~precedes /\ refused ->
            IF owns THEN [s EXCEPT !.rollback = NoToken, !.recovery = FALSE]
            ELSE s
       [] OTHER -> PutBack(s, owns)

AcceptDocument(s, nav, at, frame) ==
  LET precedes == s.pendNav # None /\ nav < s.pendNav
      painted == IF precedes THEN [s EXCEPT !.pendDoc = None] ELSE Settled(s)
      cleared == IF s.recovery /\ ~precedes THEN ClearError(painted) ELSE painted
  IN IF \/ s.pendDoc # nav \/ s.handledNav # nav \/ epoch.nav # nav \/ at < nav
     THEN s
     ELSE Stored([cleared EXCEPT !.acceptedNav = nav, !.accepted = at], frame)

AcceptSame(s, at, frame) ==
  IF \/ ~NeedsSame(s) \/ s.handledSame # epoch.same
     \/ s.acceptedNav # epoch.nav \/ at # epoch.current
  THEN s
  ELSE Stored([IF s.recovery THEN ClearError(Settled(s)) ELSE Settled(s)
                 EXCEPT !.accepted = at], frame)

FailAuthority(s, cmd) ==
  CASE cmd.kind = "paint" /\ s.pendDoc = cmd.nav -> MarkFailed(s, "page")
    [] cmd.kind # "paint" /\ NeedsSame(s) -> MarkFailed(s, "updated")
    [] OTHER -> s

\* confirm_reconfigure, of a geometry that has changed
Confirm(s, at) ==
  LET sized == [SetPointer(s, None) EXCEPT !.latest = NoFrame, !.failures = 0]
  IN IF at >= s.accepted /\ at >= s.pendFrame THEN AcceptEpoch(sized, at)
     ELSE sized

FailResize(s) ==
  LET more == \E i \in 1..Len(todo \o batch) : (todo \o batch)[i].kind = "resize"
  IN IF s.failures >= ResizeRetries /\ ~more
     THEN MarkFailed([s EXCEPT !.failures = @ + 1], "resize")
     ELSE [s EXCEPT !.failures = @ + 1]

(***************************************************************************)
(* The worker.  A call is executed by Chrome when it is asked; its answer  *)
(* travels behind what Chrome has sent before.                             *)
(***************************************************************************)
Answer(result, page, at) ==
  [kind |-> "answer", result |-> result, page |-> page, at |-> at]

\* record_browser_worker_result
Report(s, result) ==
  CASE result = "settled" -> s
    [] result \in {"ok", "error"} -> [s EXCEPT !.silences = 0]
    [] result = "timeout" ->
         IF s.silences > 0 /\ ~s.reported
         THEN MarkFailed([s EXCEPT !.silences = 2, !.reported = TRUE], "silent")
         ELSE [s EXCEPT !.silences = IF @ < 2 THEN @ + 1 ELSE @]

Done(s, result) ==
  /\ surf' = Report([s EXCEPT !.held = NoToken, !.heldFresh = FALSE], result)
  /\ worker' = Idle
  /\ UNCHANGED <<chrome, wire>>

AskStop(w, s) ==
  /\ worker' = [w EXCEPT !.at = "stop", !.answer = <<>>]
  /\ chrome' = [chrome EXCEPT !.casting = FALSE]
  /\ wire' = Append(wire, Answer("ok", Nothing, chrome.clock + 1))
  /\ surf' = s

AskSnapshot(w) ==
  /\ worker' = [w EXCEPT !.at = "snapshot", !.answer = <<>>,
                  !.seen = [current |-> epoch.current, same |-> epoch.same]]
  /\ wire' = Append(wire, Answer("ok", chrome.page, None))
  /\ UNCHANGED <<chrome, surf>>

\* Page.navigate and Page.reload.  What Chrome does after "loads" is a
\* navigation like any other; "lost" is a call that will time out.
Navigate(w, s) ==
  /\ surf' = s
  /\ worker' = [w EXCEPT !.at = "navigate", !.answer = <<>>]
  /\ \/ /\ \E result \in {"loads", "refused"} :
             Sends(Answer(result, Nothing, None))
        /\ UNCHANGED chrome
     \/ /\ w.cmd.kind = "navigate"
        /\ \E result \in {"download", "errored"} :
             Sends(Answer(result, Nothing, None))
        /\ UNCHANGED chrome
     \/ /\ w.cmd.kind = "navigate" /\ chrome.page.view < MaxViews
        /\ chrome' = Within(chrome)
        /\ LET m == Message("within", chrome'.page, None)
               a == Answer("within", Nothing, None)
           IN wire' = wire \o <<m, a>> \/ wire' = wire \o <<a, m>>
     \/ expired < MaxTimeouts /\ UNCHANGED <<chrome, wire>>

\* take the lanes when the last batch is through
Take ==
  /\ worker.at = "idle"
  /\ LET work == IF batch = <<>> THEN todo ELSE batch
     IN /\ work # <<>>
        /\ worker' = [Idle EXCEPT !.at = "begin", !.cmd = Head(work)]
        /\ batch' = Tail(work)
  /\ todo' = IF batch = <<>> THEN <<>> ELSE todo
  /\ UNCHANGED <<chrome, wire, surf>>

BeginNavigation ==
  /\ worker.at = "begin" /\ worker.cmd.kind \in {"navigate", "reload"}
  /\ CASE ~MayNavigate(surf) -> Done(surf, "error")
       [] MayNavigate(surf) /\ IsFree(surf) ->
            Navigate(worker, Reserve(surf, worker.cmd.kind = "navigate"))
       [] MayNavigate(surf) /\ ~IsFree(surf) /\ NavigationPending(surf) ->
            /\ worker' = [worker EXCEPT !.at = "stopload"]
            /\ Sends(Answer("ok", Nothing, None))
            /\ UNCHANGED <<chrome, surf>>
       [] OTHER -> Done(surf, "error")

StopLoadEnds ==
  /\ worker.at = "stopload" /\ worker.answer # <<>>
  /\ IF ~NavigationPending(surf) /\ surf.pendFrame # None
     THEN Done(surf, "error")
     ELSE Navigate(worker, Supersede(surf, worker.cmd.kind = "navigate"))

NavigateEnds ==
  /\ worker.at = "navigate" /\ worker.answer # <<>>
  /\ LET result == Head(worker.answer).result
     IN CASE result = "loads" -> Done(surf, "ok")
          [] result = "within" /\ NeedsSame(surf) -> AskSnapshot(worker)
          [] result = "within" /\ ~NeedsSame(surf) -> Done(surf, "ok")
          [] result = "refused" ->
               Done(Restore(surf, surf.rollback # NoToken), "error")
          [] result = "download" ->
               Done(Restore(surf, surf.rollback # NoToken), "ok")
          [] OTHER -> Done(MarkFailed(surf, "other"), "error")

\* reconcile_loaderless_navigation; "Attempts" bounds its two loops.
SnapshotEnds ==
  /\ worker.at = "snapshot" /\ worker.answer # <<>>
  /\ LET valid == worker.seen.current = epoch.current
         agreed == worker.seen.same = epoch.same /\ NeedsSame(surf)
         more == worker.tries + 1 < Attempts
     IN CASE valid /\ agreed ->
               /\ worker' = [Idle EXCEPT !.at = "try",
                    !.cmd = Command("same", Head(worker.answer).page.doc, None)]
               /\ surf' = [surf EXCEPT !.handledSame = worker.seen.same]
               /\ UNCHANGED <<chrome, wire>>
          [] valid /\ ~agreed /\ ~NeedsSame(surf) -> Done(surf, "ok")
          [] (~valid \/ (NeedsSame(surf) /\ ~agreed)) /\ more ->
               AskSnapshot([worker EXCEPT !.tries = @ + 1])
          [] OTHER -> Done(FailAuthority(surf, worker.cmd), "error")

\* set_device_metrics, then the restart
BeginResizing ==
  /\ worker.at = "begin" /\ worker.cmd.kind = "resize"
  /\ LET s == BeginResize(surf)
     IN \/ AskStop(worker, s)
        \/ Done(FailResize(Restore(s, FALSE)), "error")
        \/ expired < MaxTimeouts /\ Done(FailResize(s), "timeout")

\* One attempt to verify the pixels of a page.
Try ==
  /\ worker.at = "try" \/ (worker.at = "begin" /\ worker.cmd.kind \in Authority)
  /\ LET needed == IF worker.cmd.kind = "paint"
                   THEN NeedsDocument(surf, worker.cmd.nav)
                        /\ epoch.nav = worker.cmd.nav
                   ELSE NeedsSame(surf)
     IN CASE ~needed -> Done(surf, "settled")
          [] needed /\ worker.tries = 0 /\ ~MayVerify(surf) -> Done(surf, "error")
          [] OTHER -> AskStop(worker, surf)

TryFails(result) ==
  CASE worker.cmd.kind = "paint" /\ epoch.nav # worker.cmd.nav ->
         Done(surf, "settled")
    [] (worker.cmd.kind = "paint" => epoch.nav = worker.cmd.nav)
         /\ (result = "timeout" \/ worker.tries + 1 = Attempts) ->
         Done(FailAuthority(surf, worker.cmd), result)
    [] OTHER ->
         /\ worker' = [Idle EXCEPT !.at = "try", !.cmd = worker.cmd,
                         !.tries = worker.tries + 1]
         /\ UNCHANGED <<chrome, wire, surf>>

\* The barrier is Chrome's clock once the screencast has stopped.
StopEnds ==
  /\ worker.at = "stop" /\ worker.answer # <<>>
  /\ epoch' = [epoch EXCEPT !.barrier = Head(worker.answer).at]
  /\ chrome' = [chrome EXCEPT !.casting = TRUE]
  /\ Sends(Answer("ok", Nothing, None))
  /\ worker' = [worker EXCEPT !.at = "start", !.answer = <<>>]
  /\ UNCHANGED surf

\* The epoch is read after the answer has come.
StartEnds ==
  /\ worker.at = "start" /\ worker.answer # <<>>
  /\ IF worker.cmd.kind = "resize"
     THEN Done(Confirm(surf, epoch.current), "ok")
     ELSE /\ worker' = [worker EXCEPT !.at = "shoot", !.answer = <<>>,
                          !.epoch = epoch.current]
          /\ chrome' = [chrome EXCEPT !.clock = @ + 1]
          /\ Sends(Answer("ok", chrome.shown, chrome.clock + 1))
          /\ UNCHANGED surf

ShootEnds ==
  /\ worker.at = "shoot" /\ worker.answer # <<>>
  /\ LET a == Head(worker.answer)
     IN worker' = [worker EXCEPT !.at = "check", !.answer = <<>>,
                     !.shot = [page |-> a.page, at |-> a.at]]
  /\ Sends(Answer("ok", chrome.page, None))
  /\ UNCHANGED <<chrome, surf>>

CheckEnds ==
  /\ worker.at = "check" /\ worker.answer # <<>>
  /\ IF Head(worker.answer).page.doc # worker.cmd.doc
     THEN TryFails("error")
     ELSE IF worker.cmd.kind = "paint"
     THEN Done(AcceptDocument(surf, worker.cmd.nav, worker.epoch, worker.shot), "ok")
     ELSE Done(AcceptSame(surf, worker.epoch, worker.shot), "ok")

\* The call leaves the pending map, and an answer that still comes is lost;
\* one that came before may have advanced the epoch.  The failure to stop
\* the screencast of a resize is ignored.
TimesOut ==
  /\ worker.at \in {"stopload", "navigate", "snapshot", "stop", "start",
                    "shoot", "check"}
  /\ ~(worker.at = "stop" /\ worker.cmd.kind = "resize")
  /\ expired < MaxTimeouts
  /\ expired' = expired + 1
  /\ LET s == CASE worker.cmd.kind = "resize" -> FailResize(surf)
                [] worker.at = "snapshot" -> FailAuthority(surf, worker.cmd)
                [] worker.cmd.kind = "paint" /\ epoch.nav = worker.cmd.nav ->
                     FailAuthority(surf, worker.cmd)
                [] worker.cmd.kind = "same" -> FailAuthority(surf, worker.cmd)
                [] OTHER -> surf
         result == IF worker.cmd.kind = "paint" /\ epoch.nav # worker.cmd.nav
                   THEN "settled" ELSE "timeout"
     IN surf' = Report([s EXCEPT !.held = NoToken, !.heldFresh = FALSE], result)
  /\ worker' = Idle
  /\ wire' = Without(wire, {i \in DOMAIN wire : wire[i].kind = "answer"})
  /\ UNCHANGED <<chrome, epoch, events, todo, batch, asked, press>>

\* Mutant: the deadline passes and the surface does not say so.
ExpireQuietly ==
  /\ worker.at \in {"idle", "begin"} /\ surf.deadline
  /\ surf' = [surf EXCEPT !.deadline = FALSE]
  /\ UNCHANGED <<chrome, wire, epoch, events, todo, batch, worker, asked,
                 expired, press>>

\* expire_navigation_authority, between two commands
Expire ==
  /\ worker.at \in {"idle", "begin"} /\ surf.deadline
  /\ surf' = IF NavigationPending(surf)
             THEN MarkAuthorityFailed(surf, IF NeedsSame(surf) THEN "updated"
                                            ELSE "page")
             ELSE [surf EXCEPT !.deadline = FALSE]
  /\ UNCHANGED <<chrome, wire, epoch, events, todo, batch, worker, asked,
                 expired, press>>

WorkerStep ==
  \/ /\ \/ BeginNavigation \/ StopLoadEnds \/ NavigateEnds \/ SnapshotEnds
        \/ BeginResizing \/ Try \/ StartEnds \/ ShootEnds \/ CheckEnds
     /\ UNCHANGED <<epoch, events, todo, batch, asked, expired, press>>
  \/ /\ Take
     /\ UNCHANGED <<epoch, events, asked, expired, press>>
  \/ /\ StopEnds
     /\ UNCHANGED <<events, todo, batch, asked, expired, press>>

(***************************************************************************)
(* The user.                                                               *)
(***************************************************************************)
Ask(kind) ==
  /\ asked < MaxCommands
  /\ asked' = asked + 1
  /\ Enqueue(Command(kind, None, None))
  /\ \/ kind # "resize" /\ UNCHANGED surf
     \/ kind = "resize" /\ surf.failures <= ResizeRetries /\ UNCHANGED surf
     \/ kind = "resize" /\ surf' = [surf EXCEPT !.failures = 0]
  /\ UNCHANGED <<chrome, wire, epoch, events, batch, worker, expired, press>>

Press ==
  /\ Exported(surf) # None
  /\ press' = [gen |-> surf.gen, doc |-> surf.latest.page.doc]
  /\ UNCHANGED <<chrome, wire, epoch, events, surf, todo, batch, worker, asked,
                 expired>>

PageNext ==
  \/ ChromeStep \/ Read \/ HandleEvent \/ WorkerStep \/ TimesOut \/ Expire
  \/ \E kind \in Commands : Ask(kind)
  \/ Press

PageSpec == PageInit /\ [][PageNext]_pageVars

(***************************************************************************)
(* Threads run, and time passes; Chrome and the user owe nothing.          *)
(***************************************************************************)
FairPageSpec ==
  /\ PageSpec
  /\ WF_pageVars(Read) /\ WF_pageVars(HandleEvent)
  /\ WF_pageVars(WorkerStep \/ TimesOut) /\ WF_pageVars(Expire)

(***************************************************************************)
(* Properties.                                                             *)
(***************************************************************************)
PageTypeOK ==
  /\ epoch.nav <= epoch.current /\ epoch.same <= epoch.current
  /\ surf.accepted <= epoch.current /\ surf.acceptedNav <= epoch.nav
  /\ surf.handledNav <= epoch.nav /\ surf.handledSame <= epoch.same
  /\ surf.status \in {"live", "failed"}
  /\ surf.kind \in Retryable \cup {"none", "other", "silent"}
  /\ surf.status = "live" <=> surf.kind = "none"
  /\ Len(todo) <= MaxCommands + 1 /\ worker.tries < Attempts

(***************************************************************************)
(* A pointer is let through only to the frame the surface shows, and that  *)
(* frame is of the document the reader of the connection knows, unless it  *)
(* was told that this document had painted when it had not.  The pixels    *)
(* may be those of an earlier view of it: a frame may be captured before a *)
(* same-document navigation and be sent after it.                          *)
(***************************************************************************)
PointerShowsDocument ==
  Exported(surf) # None =>
    /\ surf.ptr = surf.latest.at
    /\ epoch.misled \/ surf.latest.page.doc = epoch.page.doc

(***************************************************************************)
(* The same without the exception.  A load event, a notice without a       *)
(* loader and a restore from the back-forward cache all count as the paint *)
(* of the pending document: with pixels of the document before it, which   *)
(* Chrome still shows, the pointer is let through to the new one.          *)
(***************************************************************************)
PointerIsForItsPixels ==
  Exported(surf) # None => surf.latest.page.doc = epoch.page.doc

(***************************************************************************)
(* A press that is still taken for current was made on the document the    *)
(* reader knows: its release and its motion do not reach another one.  (As *)
(* above, unless the reader was misled.)                                   *)
(***************************************************************************)
CaptureIsCurrent == press.gen = surf.gen /\ surf.acceptedNav = epoch.nav

CaptureBelongsToDocument ==
  press # NoPress /\ CaptureIsCurrent /\ ~epoch.misled =>
    press.doc = epoch.page.doc

(***************************************************************************)
(* A navigation barrier does not stay: it is lifted, or the surface fails. *)
(***************************************************************************)
BarrierSettles ==
  NavigationPending(surf) ~> ~NavigationPending(surf) \/ surf.status = "failed"

(***************************************************************************)
(* A live surface that shows a frame, waits for nothing and has handled    *)
(* all events, with its worker idle, lets the pointer through.             *)
(***************************************************************************)
Quiet ==
  /\ wire = <<>> /\ events = <<>> /\ todo = <<>> /\ batch = <<>>
  /\ worker.at = "idle" /\ chrome.encoder = NoFrame
  /\ surf.status = "live" /\ surf.latest # NoFrame
  /\ IsFree(surf) /\ ~surf.pendSame

QuietPageIsClickable == Quiet => Exported(surf) # None
=============================================================================
