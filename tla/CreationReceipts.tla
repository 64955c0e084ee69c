------------------------- MODULE CreationReceipts -------------------------
(***************************************************************************)
(* Creation of a terminal under a correlation key (effect_store.rs,        *)
(* mux/resource_topology.rs, and the launch of a terminal in mux.rs).      *)
(*                                                                         *)
(* A client names what it wants with a correlation key and each of its     *)
(* attempts with an idempotency key.  The intent of the first attempt      *)
(* fixes the id of the terminal, and of the workspace when the operation   *)
(* makes one; every later attempt runs the stored intent.  One creation    *)
(* runs at a time (resource_creation_execution), in many transactions.     *)
(* What it left behind decides what its receipt says: an execution that    *)
(* fails, or that a crash interrupts, is settled by evidence.              *)
(*                                                                         *)
(* close_terminal does not take the creation lock.  It runs in two steps,  *)
(* the durable close and the removal from the state, anywhere between the  *)
(* steps of a creation.  A host publishes its record after its shell has   *)
(* started and outlives its launcher; a daemon that starts knows the hosts *)
(* by their records, and goes on in a thread for those it cannot reach.    *)
(***************************************************************************)
EXTENDS Naturals, FiniteSets

CONSTANTS
  Creations,    \* correlation keys
  WithWorkspace,\* those that make a workspace; the others add a tab
  MaxAttempts,  \* bound: idempotency keys of one creation
  MaxStarts,    \* bound: starts of the daemon
  MaxCloses,    \* bound: calls of close_terminal
  MaxFailures   \* bound: writes of receipts and topology that fail

ASSUME CreationAssumption ==
  /\ "none" \notin Creations /\ WithWorkspace \subseteq Creations
  /\ {MaxAttempts, MaxStarts, MaxCloses, MaxFailures} \subseteq Nat
  /\ MaxStarts > 0

VARIABLES
  receipt,  \* resource_creation_receipts: state, attempt and generation
  effect,   \* resource_effect_receipts of each attempt
  row,      \* terminal_hosts: the lifecycle of the terminal
  place,    \* the workspace of the creation, and whether its tab is durable
  host,     \* the terminal host: its shell, its record, and (ghosts) how often
            \* it ran the command and whether the last start missed it
  live,     \* State: the runtime in the catalog, its tab in a pane, and the
            \* thread that adopts or ends a host the start did not reach
  daemon,   \* whether it serves, and its generation
  exec,     \* the creation that runs, and where it stands
  closer,   \* a close_terminal that has committed and not removed
  spent     \* what has been used of the bounds, and (ghost) the creations
            \* whose settlement failed in this generation of the daemon

vars == <<receipt, effect, row, place, host, live, daemon, exec, closer, spent>>

Attempts == 1..MaxAttempts
Final == {"Exited", "Tombstoned"}
Living == {"Launching", "Adopting", "Running"}
Nobody == [c |-> "none", n |-> 0]
Idle == [at |-> "idle", by |-> Nobody, evidence |-> "none"]
Nothing == [runtime |-> FALSE, tab |-> FALSE, sought |-> FALSE]

Init ==
  /\ receipt = [c \in Creations |-> [state |-> "absent", n |-> 0, gen |-> 0]]
  /\ effect = [c \in Creations |-> [n \in Attempts |-> "absent"]]
  /\ row = [c \in Creations |-> "Absent"]
  /\ place = [c \in Creations |-> [workspace |-> "absent", published |-> FALSE]]
  /\ host = [c \in Creations |->
       [process |-> "none", record |-> FALSE, runs |-> 0, missed |-> FALSE]]
  /\ live = [c \in Creations |-> Nothing]
  /\ daemon = [status |-> "up", gen |-> 1]
  /\ exec = Idle /\ closer = "none"
  /\ spent = [closes |-> 0, failures |-> 0, left |-> {}]

(***************************************************************************)
(* The receipts.                                                           *)
(***************************************************************************)
\* lookup_resource_creation and prepare_resource_creation.
Answer(c, n) ==
  LET r == receipt[c]
  IN CASE r.state # "absent" /\ r.n # n /\ effect[c][n] = "failure" -> "failed"
       [] r.state = "absent" -> "execute"
       [] r.state = "created" -> "created"
       [] r.state = "prepared" /\ r.n = n -> "execute"
       [] r.state = "not_applied" /\ r.n = n -> "failed"
       [] r.state = "not_applied" /\ effect[c][n] = "absent" -> "execute"
       [] OTHER -> "blocked"

Prepared(c, n) ==
  /\ receipt' = [receipt EXCEPT ![c] = [state |-> "prepared", n |-> n, gen |-> 0]]
  /\ effect' = [effect EXCEPT ![c][n] = "pending"]

Executing(c, n) ==
  /\ receipt' = [receipt EXCEPT ![c].state = "executing", ![c].gen = daemon.gen]
  /\ effect' = [effect EXCEPT ![c][n] = "executing"]

Settled(c, state, outcome) ==
  /\ receipt' = [receipt EXCEPT ![c].state = state, ![c].gen = 0]
  /\ effect' = [effect EXCEPT ![c][receipt[c].n] = outcome]

Created(c) == Settled(c, "created", "success")
NotApplied(c) == Settled(c, "not_applied", "failure")
Indeterminate(c) == Settled(c, "indeterminate", "indeterminate")

Interrupted(c) == receipt[c].state = "executing" /\ receipt[c].gen # daemon.gen

\* resolve_resource_creation: what a client is told to do next.
Recovery(c) ==
  CASE receipt[c].state \in {"absent", "not_applied"} -> "retry_new_key"
    [] receipt[c].state = "prepared" -> "retry_same_key"
    [] receipt[c].state = "created" -> "none"
    [] receipt[c].state = "executing" /\ ~Interrupted(c) -> "wait"
    [] OTHER -> "do_not_retry"

SameReceipts == UNCHANGED <<receipt, effect>>

WriteFails ==
  /\ spent.failures < MaxFailures
  /\ spent' = [spent EXCEPT !.failures = @ + 1]

(***************************************************************************)
(* An execution.                                                           *)
(***************************************************************************)
At(step) == daemon.status = "up" /\ exec.at = step

Goes(step) == exec' = [exec EXCEPT !.at = step]

\* The request waits for the lock and reads the receipt.
Request(c, n) ==
  /\ At("idle") /\ Answer(c, n) = "execute"
  /\ Prepared(c, n)
  /\ exec' = [at |-> "prepared", by |-> [c |-> c, n |-> n], evidence |-> "none"]
  /\ UNCHANGED <<row, place, host, live, daemon, closer, spent>>

\* mark_resource_effect_executing
MarkExecuting ==
  LET c == exec.by.c IN
  /\ At("prepared")
  /\ \/ /\ Executing(c, exec.by.n)
        /\ Goes(IF c \in WithWorkspace THEN "workspace" ELSE "reserve")
        /\ UNCHANGED spent
     \/ WriteFails /\ SameReceipts /\ exec' = Idle
  /\ UNCHANGED <<row, place, host, live, daemon, closer>>

\* A workspace that was made before is replayed, whatever became of it.
CreateWorkspace ==
  LET c == exec.by.c IN
  /\ At("workspace")
  /\ IF place[c].workspace = "absent"
     THEN place' = [place EXCEPT ![c].workspace = "staged"] ELSE UNCHANGED place
  /\ Goes(IF place'[c].workspace = "staged" THEN "reserve" ELSE "failed")
  /\ SameReceipts /\ UNCHANGED <<row, host, live, daemon, closer, spent>>

\* Mutant of Reserve: the replayed reservation launches again.
ReserveAgain ==
  /\ At("reserve")
  /\ row' = [row EXCEPT ![exec.by.c] = "Launching"] /\ Goes("launch")
  /\ SameReceipts /\ UNCHANGED <<place, host, live, daemon, closer, spent>>

\* A reservation that was made before is replayed, and refused.
Reserve ==
  LET c == exec.by.c IN
  /\ At("reserve")
  /\ IF row[c] = "Absent"
     THEN row' = [row EXCEPT ![c] = "Launching"] /\ Goes("launch")
     ELSE UNCHANGED row /\ Goes("failed")
  /\ SameReceipts /\ UNCHANGED <<place, host, live, daemon, closer, spent>>

ReserveFails ==
  /\ At("reserve") /\ WriteFails /\ Goes("failed")
  /\ SameReceipts /\ UNCHANGED <<row, place, host, live, daemon, closer>>

\* persist_terminal_exit: the first outcome stays, and takes the tab along.
ExitPersisted(c) ==
  /\ row' = [row EXCEPT ![c] = IF @ \in Final THEN @ ELSE "Exited"]
  /\ place' = [place EXCEPT ![c].published = FALSE]

Detached(c) ==
  live' = [live EXCEPT ![c].runtime = FALSE, ![c].tab = FALSE]

Killed(c) ==
  host' = [host EXCEPT ![c].process = IF @ = "alive" THEN "dead" ELSE @]

Launch ==
  LET c == exec.by.c IN
  /\ At("launch")
  /\ host' = [host EXCEPT ![c].process = "alive", ![c].runs = @ + 1]
  /\ Goes("ready")
  /\ SameReceipts /\ UNCHANGED <<row, place, live, daemon, closer, spent>>

\* The host writes its record and then says Ready, to whoever still listens.
PublishRecord(c) ==
  /\ host[c].process = "alive" /\ ~host[c].record
  /\ host' = [host EXCEPT ![c].record = TRUE]
  /\ SameReceipts /\ UNCHANGED <<row, place, live, daemon, exec, closer, spent>>

\* Before it is Ready the host dies with its launcher's handle.
LaunchFails ==
  LET c == exec.by.c IN
  /\ \/ At("launch") /\ UNCHANGED host
     \/ At("ready") /\ ~host[c].record /\ Killed(c)
  /\ ExitPersisted(c) /\ Goes("failed")
  /\ SameReceipts /\ UNCHANGED <<live, daemon, closer, spent>>

Ready ==
  LET c == exec.by.c IN
  /\ At("ready") /\ (host[c].process = "alive" => host[c].record)
  /\ IF row[c] = "Launching"
     THEN row' = [row EXCEPT ![c] = "Running"] /\ Goes("insert") /\ UNCHANGED host
     ELSE Killed(c) /\ Goes("failed") /\ UNCHANGED row
  /\ SameReceipts /\ UNCHANGED <<place, live, daemon, closer, spent>>

Insert ==
  /\ At("insert")
  /\ live' = [live EXCEPT ![exec.by.c].runtime = TRUE]
  /\ Goes("attach")
  /\ SameReceipts /\ UNCHANGED <<row, place, host, daemon, closer, spent>>

\* effect_add_terminal_tab pushes the tab, then looks for its surface.
AttachTab ==
  LET c == exec.by.c IN
  /\ At("attach") /\ c \notin WithWorkspace
  /\ live' = [live EXCEPT ![c].tab = TRUE]
  /\ Goes(IF live[c].runtime THEN "commit" ELSE "failed")
  /\ SameReceipts /\ UNCHANGED <<row, place, host, daemon, closer, spent>>

\* bind_running_terminal_to_canonical_workspace looks first.
MayBind(c) == row[c] = "Running" /\ live[c].runtime

AttachToWorkspace ==
  LET c == exec.by.c IN
  /\ At("attach") /\ c \in WithWorkspace /\ MayBind(c)
  /\ live' = [live EXCEPT ![c].tab = TRUE]
  /\ Goes("commit")
  /\ SameReceipts /\ UNCHANGED <<row, place, host, daemon, closer, spent>>

\* Mutant of AttachFails: the error is returned and the host left running.
AttachFailsBare ==
  LET c == exec.by.c IN
  /\ At("attach") /\ (c \in WithWorkspace => ~MayBind(c)) /\ Goes("failed")
  /\ SameReceipts /\ UNCHANGED <<row, place, host, live, daemon, closer, spent>>

\* fail_hosted_terminal_attachment: the pane of the tab may have gone.
AttachFails ==
  LET c == exec.by.c IN
  /\ At("attach") /\ (c \in WithWorkspace => ~MayBind(c))
  /\ ExitPersisted(c) /\ Detached(c) /\ Killed(c) /\ Goes("failed")
  /\ SameReceipts /\ UNCHANGED <<daemon, closer, spent>>

\* The projection of the whole tree names the terminal of every tab: that of
\* its runtime, or of the durable tab before its host is adopted.
Projects ==
  \A c \in Creations : live[c].tab =>
    (live[c].runtime \/ place[c].published) /\ row[c] # "Tombstoned"

Published ==
  place' = [c \in Creations |->
    [workspace |-> IF place[c].workspace = "staged" THEN "open" ELSE place[c].workspace,
     published |-> live[c].tab]]

ProjectionFails ==
  \/ WriteFails
  \/ ~Projects /\ UNCHANGED spent

\* commit_full_resource_effect_projection
Commit ==
  /\ At("commit") /\ Projects
  /\ Created(exec.by.c) /\ Published /\ exec' = Idle
  /\ UNCHANGED <<row, host, live, daemon, closer, spent>>

CommitFails ==
  /\ At("commit") /\ ProjectionFails
  /\ Goes("failed")
  /\ SameReceipts /\ UNCHANGED <<row, place, host, live, daemon, closer>>

(***************************************************************************)
(* Settlement.                                                             *)
(***************************************************************************)
\* Mutant of Evidence: startup waits for a terminal that has ended.
EvidenceWaits(c) ==
  IF row[c] = "Absent" THEN
    IF place[c].workspace \in {"staged", "open"} THEN "ambiguous" ELSE "not_applied"
  ELSE IF live[c].runtime /\ live[c].tab THEN "created"
  ELSE IF Interrupted(c) THEN "pending"
  ELSE IF row[c] \in Living \/ live[c].runtime THEN "ambiguous_live" ELSE "closed"

\* resource_creation_evidence
Evidence(c) ==
  CASE row[c] = "Absent" ->
         IF place[c].workspace \in {"staged", "open"} THEN "ambiguous" ELSE "not_applied"
    [] row[c] # "Absent" /\ live[c].runtime /\ live[c].tab -> "created"
    [] \/ live[c].runtime /\ ~live[c].tab
       \/ ~live[c].runtime /\ row[c] \in Living ->
         IF Interrupted(c) THEN "pending" ELSE "ambiguous_live"
    [] ~live[c].runtime /\ row[c] \in Final -> "closed"

\* Mutant of RolledBack: the staged workspace stays.
RolledBackNot(c) == UNCHANGED place

\* rollback_interrupted_workspace_creation
RolledBack(c) ==
  place' = [place EXCEPT ![c].workspace = IF @ = "staged" THEN "closed" ELSE @]

GatherEvidence(c) ==
  exec' = [at |-> "settle", by |-> [c |-> c, n |-> receipt[c].n],
           evidence |-> Evidence(c)]

LooksAtFailure ==
  /\ At("failed") /\ GatherEvidence(exec.by.c)
  /\ SameReceipts /\ UNCHANGED <<row, place, host, live, daemon, closer, spent>>

\* A daemon that starts settles what the daemon before it left executing.
LooksAtInterrupted(c) ==
  /\ daemon.status = "starting" /\ exec = Idle
  /\ Interrupted(c) /\ Evidence(c) # "pending" /\ GatherEvidence(c)
  /\ SameReceipts /\ UNCHANGED <<row, place, host, live, daemon, closer, spent>>

SettleCreated ==
  LET c == exec.by.c IN
  /\ exec.at = "settle" /\ exec.evidence = "created"
  /\ \/ Projects /\ Created(c) /\ Published /\ exec' = Idle /\ UNCHANGED spent
     \/ /\ ProjectionFails
        /\ exec' = IF Interrupted(c) THEN Idle ELSE [exec EXCEPT !.evidence = "lost"]
        /\ SameReceipts /\ UNCHANGED place
  /\ UNCHANGED <<row, host, live, daemon, closer>>

RollsBack == exec.evidence \in {"not_applied", "ambiguous", "closed"}

Withdrawn(c) == IF RollsBack THEN RolledBack(c) ELSE UNCHANGED place

\* Nothing is there, or the terminal ended after a failure that is known.
SettleNotApplied ==
  LET c == exec.by.c IN
  /\ exec.at = "settle"
  /\ \/ exec.evidence = "not_applied"
     \/ exec.evidence = "closed" /\ ~Interrupted(c)
  /\ Withdrawn(c)
  /\ \/ NotApplied(c) /\ exec' = Idle /\ UNCHANGED spent
     \/ WriteFails /\ SameReceipts /\ exec' = [exec EXCEPT !.evidence = "lost"]
  /\ UNCHANGED <<row, host, live, daemon, closer>>

Doubtful(c) ==
  \/ exec.evidence \in {"ambiguous", "ambiguous_live", "lost"}
  \/ exec.evidence = "closed" /\ Interrupted(c)

SettleIndeterminate ==
  LET c == exec.by.c IN
  /\ exec.at = "settle" /\ Doubtful(c)
  /\ Withdrawn(c) /\ Indeterminate(c) /\ exec' = Idle
  /\ UNCHANGED <<row, host, live, daemon, closer, spent>>

\* The daemon ends: what it held in memory is gone.
Stops ==
  /\ daemon' = [daemon EXCEPT !.status = "down"]
  /\ exec' = Idle /\ live' = [c \in Creations |-> Nothing]

\* The close of the staged workspace fails, or the mark after it: the error
\* is returned and no receipt is written.  A daemon that is starting does not
\* start; one that serves looks at the creation no more.
SettleFails ==
  LET c == exec.by.c IN
  /\ exec.at = "settle" /\ spent.failures < MaxFailures
  /\ \/ RollsBack /\ place[c].workspace = "staged" /\ UNCHANGED place
     \/ Doubtful(c) /\ Withdrawn(c)
  /\ \/ /\ daemon.status = "starting" /\ Stops
        /\ spent' = [spent EXCEPT !.failures = @ + 1]
     \/ /\ daemon.status = "up" /\ exec' = Idle /\ UNCHANGED <<live, daemon>>
        /\ spent' = [spent EXCEPT !.failures = @ + 1, !.left = @ \cup {c}]
  /\ SameReceipts /\ UNCHANGED <<row, host, closer>>

(***************************************************************************)
(* What runs beside it: a close, the end of a shell, and the daemon.       *)
(***************************************************************************)
\* close_terminal_with_mutation: the durable close, then the state.
CloseDurably(c) ==
  /\ daemon.status = "up" /\ closer = "none" /\ row[c] # "Absent"
  /\ spent.closes < MaxCloses
  /\ spent' = [spent EXCEPT !.closes = @ + 1]
  /\ row' = [row EXCEPT ![c] = "Tombstoned"]
  /\ place' = [place EXCEPT ![c].published = FALSE]
  /\ closer' = c
  /\ SameReceipts /\ UNCHANGED <<host, live, daemon, exec>>

\* It finds the tab through the runtime or the durable placement.  Without a
\* runtime the host is known by its record, and may not be reached.
CloseRemoves ==
  /\ daemon.status = "up" /\ closer # "none"
  /\ IF live[closer].runtime \/ live[closer].sought
     THEN Detached(closer) ELSE UNCHANGED live
  /\ \/ (live[closer].runtime \/ host[closer].record) /\ Killed(closer)
     \/ ~live[closer].runtime /\ UNCHANGED host
  /\ closer' = "none"
  /\ SameReceipts /\ UNCHANGED <<row, place, daemon, exec, spent>>

ShellExits(c) ==
  /\ host[c].process = "alive" /\ Killed(c)
  /\ SameReceipts /\ UNCHANGED <<row, place, live, daemon, exec, closer, spent>>

\* surface_exited waits for the creation that runs.
SurfaceExited(c) ==
  /\ At("idle") /\ live[c].runtime /\ host[c].process = "dead"
  /\ ExitPersisted(c) /\ Detached(c)
  /\ SameReceipts /\ UNCHANGED <<host, daemon, exec, closer, spent>>

Crash ==
  /\ daemon.status # "down" /\ daemon.gen < MaxStarts
  /\ Stops /\ closer' = "none"
  /\ SameReceipts /\ UNCHANGED <<row, place, host, spent>>

\* adopt_terminal_hosts (see HostedTerminals): a host is known by its record.
Listed(c) == host[c].process = "alive" /\ host[c].record

\* A workspace that was staged is restored for an open creation only.
HasPlace(c) ==
  \/ c \notin WithWorkspace \/ place[c].workspace = "open"
  \/ place[c].workspace = "staged" /\ receipt[c].state = "executing"

Adopted(c) == row[c] \in Living /\ HasPlace(c)

\* A host without a record is taken for one that never was; what is listed
\* and not reached is left to a thread.
Recovered(c, reached) ==
  CASE row[c] \notin Living -> row[c]
    [] row[c] \in Living /\ c \in reached /\ Adopted(c) -> "Running"
    [] row[c] \in Living /\ Listed(c) /\ ~(c \in reached /\ Adopted(c)) -> "Adopting"
    [] row[c] \in Living /\ ~Listed(c) -> "Exited"

MayStart == Cardinality({c \in Creations : receipt[c].state = "executing"}) <= 1

Start ==
  /\ daemon.status = "down" /\ MayStart
  /\ daemon' = [status |-> "starting", gen |-> daemon.gen + 1]
  /\ \E reached \in SUBSET {c \in Creations : Listed(c)} :
       /\ row' = [c \in Creations |-> Recovered(c, reached)]
       /\ live' = [c \in Creations |->
            [runtime |-> c \in reached /\ Adopted(c),
             tab |-> \/ c \in reached /\ Adopted(c)
                     \/ Listed(c) /\ row[c] \in Living /\ place[c].published,
             sought |-> Listed(c) /\ (c \in reached => row[c] \in Living /\ ~HasPlace(c))]]
       /\ host' = [c \in Creations |->
            [host[c] EXCEPT
              !.process = IF c \in reached /\ row[c] \in Final THEN "dead" ELSE @,
              !.missed = host[c].process = "alive" /\ ~host[c].record]]
  /\ place' = [c \in Creations |->
       [published |-> place[c].published /\ row[c] \in Living /\ Listed(c),
        workspace |-> IF place[c].workspace = "staged" /\ ~HasPlace(c)
                      THEN "stranded" ELSE place[c].workspace]]
  /\ spent' = [spent EXCEPT !.left = {}]
  /\ SameReceipts /\ UNCHANGED <<exec, closer>>

\* The thread of schedule_terminal_adoption: it attaches the host, finds it
\* dead, or ends it for a row that was closed meanwhile.
Adoption(c) ==
  /\ daemon.status # "down" /\ live[c].sought
  /\ \/ /\ row[c] \in Living /\ host[c].process = "alive" /\ HasPlace(c)
        /\ row' = [row EXCEPT ![c] = "Running"]
        /\ live' = [live EXCEPT ![c] =
             [runtime |-> TRUE, tab |-> TRUE, sought |-> FALSE]]
        /\ UNCHANGED <<place, host>>
     \/ /\ row[c] \in Living /\ host[c].process = "dead"
        /\ ExitPersisted(c) /\ live' = [live EXCEPT ![c] = Nothing]
        /\ UNCHANGED host
     \/ /\ row[c] \in Final /\ Killed(c)
        /\ live' = [live EXCEPT ![c] = Nothing]
        /\ UNCHANGED <<row, place>>
  /\ SameReceipts /\ UNCHANGED <<daemon, exec, closer, spent>>

Serve ==
  /\ daemon.status = "starting" /\ exec = Idle
  /\ \A c \in Creations : ~Interrupted(c)
  /\ daemon' = [daemon EXCEPT !.status = "up"]
  /\ SameReceipts /\ UNCHANGED <<row, place, host, live, exec, closer, spent>>

Execute ==
  \/ MarkExecuting \/ CreateWorkspace \/ Reserve \/ ReserveFails
  \/ Launch \/ LaunchFails \/ Ready \/ Insert
  \/ AttachTab \/ AttachToWorkspace \/ AttachFails \/ Commit \/ CommitFails

Settle ==
  \/ LooksAtFailure \/ \E c \in Creations : LooksAtInterrupted(c)
  \/ SettleCreated \/ SettleNotApplied \/ SettleIndeterminate \/ SettleFails

Daemon == Start \/ Serve

Next ==
  \/ \E c \in Creations, n \in Attempts : Request(c, n)
  \/ Execute \/ Settle \/ Daemon \/ Crash \/ CloseRemoves
  \/ \E c \in Creations :
       \/ CloseDurably(c) \/ ShellExits(c) \/ SurfaceExited(c)
       \/ PublishRecord(c) \/ Adoption(c)

\* The threads of the daemon run on, a daemon that is down is started, and a
\* host that has started its shell publishes its record.
Fairness ==
  /\ WF_vars(Execute) /\ WF_vars(Settle) /\ WF_vars(Daemon)
  /\ WF_vars(CloseRemoves)
  /\ \A c \in Creations : /\ WF_vars(SurfaceExited(c)) /\ WF_vars(Adoption(c))
                         /\ WF_vars(PublishRecord(c))

Spec == Init /\ [][Next]_vars /\ Fairness
(***************************************************************************)
(* Properties.                                                             *)
(***************************************************************************)
TypeOK ==
  /\ receipt \in [Creations -> [state : {"absent", "prepared", "executing",
       "created", "not_applied", "indeterminate"},
       n : 0..MaxAttempts, gen : Nat]]
  /\ effect \in [Creations -> [Attempts -> {"absent", "pending", "executing",
       "success", "failure", "indeterminate"}]]
  /\ row \in [Creations -> {"Absent"} \cup Living \cup Final]
  /\ place \in [Creations ->
       [workspace : {"absent", "staged", "open", "closed", "stranded"},
        published : BOOLEAN]]
  /\ host \in [Creations -> [process : {"none", "alive", "dead"},
       record : BOOLEAN, runs : Nat, missed : BOOLEAN]]
  /\ live \in [Creations -> [runtime : BOOLEAN, tab : BOOLEAN, sought : BOOLEAN]]
  /\ daemon \in [status : {"up", "down", "starting"}, gen : Nat]
  /\ closer \in Creations \cup {"none"}

Quiet == daemon.status = "up" /\ exec = Idle /\ closer = "none"

\* However often a creation is retried, resumed and interrupted, with the
\* same key or with new ones, its command is run at most once.
RunsOnce == \A c \in Creations : host[c].runs <= 1

\* When nothing runs, a terminal host that lives has a runtime and a tab, or
\* a thread that goes on to adopt or end it: no race of a launch with a close,
\* an exit or a restart leaves a shell that nobody can see.  Excepted is a
\* host whose launcher died before it had published its record: the daemon
\* that starts takes it for one that never was (see EveryLiveHostHasTab).
LiveHostHasTab ==
  Quiet => \A c \in Creations :
    host[c].process = "alive" =>
      \/ live[c].runtime /\ live[c].tab
      \/ live[c].sought \/ host[c].missed

\* The same without the excepted host.  The code does not keep it.
EveryLiveHostHasTab ==
  Quiet => \A c \in Creations :
    host[c].process = "alive" =>
      (live[c].runtime /\ live[c].tab) \/ live[c].sought

\* A client that is told not_applied finds nothing of it: no process, no
\* runtime, no workspace that was staged for it.
NotAppliedLeavesNothing ==
  Quiet => \A c \in Creations :
    receipt[c].state = "not_applied" =>
      /\ host[c].process # "alive" /\ ~live[c].runtime
      /\ place[c].workspace # "staged"

\* A creation that executes is settled, whatever crashes, closes or exits
\* meanwhile and whichever host is slow to be reached, unless a write of its
\* settlement fails while the daemon serves, which only the next start makes
\* good, or the daemon that went down finds two such creations and never
\* starts again (mux.rs:2220).
ExecutionSettles ==
  \A c \in Creations :
    receipt[c].state = "executing" ~>
      \/ receipt[c].state # "executing" \/ c \in spent.left
      \/ daemon.status = "down" /\ ~MayStart

\* A client that is told to retry a failed creation with a new key gets an
\* attempt of its own: the terminal of the stored intent must still be free,
\* or the retry is refused as a replay of the reservation.
RetryMaySucceed ==
  \A c \in Creations : Recovery(c) = "retry_new_key" => row[c] = "Absent"
=============================================================================
