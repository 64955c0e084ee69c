-------------------------- MODULE HostedTerminals --------------------------
(***************************************************************************)
(* The life of a hosted terminal across daemon restarts.  Four parties     *)
(* hold part of the truth about one terminal: the registry row (SQLite),   *)
(* the host process that owns the shell, the host's two files (the         *)
(* discovery record "<id>.json" and the exit sidecar "<id>.exit"), and the *)
(* daemon, whose threads spawn, adopt, reconnect, reap and close.  The     *)
(* daemon may be killed between any two of its steps, the host too, and a  *)
(* stream between them may break.                                          *)
(*                                                                         *)
(* Sources: mux.rs (adopt_terminal_hosts and its neighbours, close,        *)
(* spawn), terminal_host_runtime.rs (both ends of the host protocol) and   *)
(* surface.rs (the hosted reader).                                         *)
(*                                                                         *)
(* An id is launched at most once, so an incarnation needs no name of its  *)
(* own and the branches for a foreign incarnation, for a record without a  *)
(* row (the one-release import) and for version 1 records are left out.    *)
(* A failed SQLite or file write is retried by the code; here the step is  *)
(* simply taken later.                                                     *)
(***************************************************************************)
EXTENDS Integers, FiniteSets

CONSTANTS
  Terminals,
  Faults,     \* the kinds of fault the environment may inject
  MaxFaults   \* bound: how many of them

FaultKinds == {"crash",   \* the daemon process dies
               "kill",    \* a host process is killed
               "drop",    \* an admin stream breaks
               "connect", \* a connection to a living host fails
               "launch",  \* the host cannot be started
               "setup",   \* Surface construction fails after the launch
               "pixels",  \* the host does not acknowledge its cell size
               "attach",  \* the tree change for a new surface fails
               "giveup"}  \* a reader exhausts its reconnect attempts

ASSUME HostedAssumption ==
  /\ Faults \subseteq FaultKinds
  /\ MaxFaults \in Nat

VARIABLES
  terminal,  \* what the parties know of each terminal
  daemon,    \* "down", then the stages of a start, then "up"
  faults     \* faults so far: how many, and (a ghost) of which kinds

vars == <<terminal, daemon, faults>>

Reasons == {"launch-failed", "surface-attach-failed", "missing-host-record",
            "host-proven-dead", "host-exited-during-adoption", "no-sidecar"}
Outcomes == {"exact"} \cup Reasons

LiveRows  == {"Launching", "Adopting", "Running"}
FinalRows == {"Exited", "Tombstoned"}

Spawning == {"idle", "reserved", "launching", "connected", "rollback", "ready",
             "inserted", "ack"}
Adopting == {"idle", "listed", "ackExit", "cleanup", "ending", "probing",
             "buried", "reprobing", "held", "checked", "reap", "ack",
             "ackMark", "stale", "retry"}
Closing  == {"idle", "closing", "waiting", "discover", "awaiting"}
Links    == {"none", "connected", "reconnecting", "exited", "ack", "dead",
             "failed", "stopped"}
Hosts    == {"None", "Starting", "Serving", "Drained", "Published", "Released",
             "Gone", "Lost"}

Entries ==
  [row : {"Absent"} \cup LiveRows \cup FinalRows,
   outcome : {"none"} \cup Outcomes,
   record : BOOLEAN, sidecar : BOOLEAN,      \* the host's files
   host : Hosts,
   owner : BOOLEAN,                          \* launch_owner_stream_ready
   told : BOOLEAN,                           \* a Terminate frame arrived
   spawn : Spawning, adopt : Adopting, close : Closing,
   bound : BOOLEAN,                          \* the runtime is in State
   link : Links,                             \* the surface's reader
   seen : {"none", "exact", "no-sidecar"},   \* the surface's exit
   sawExit : BOOLEAN, sawRecord : BOOLEAN]   \* the startup listing

(* The part of an entry that dies with the daemon.                         *)
Forgotten(s) ==
  [s EXCEPT !.spawn = "idle", !.adopt = "idle", !.close = "idle",
            !.bound = FALSE, !.link = "none", !.seen = "none",
            !.sawExit = FALSE, !.sawRecord = FALSE]

Blank ==
  [row |-> "Absent", outcome |-> "none", record |-> FALSE, sidecar |-> FALSE,
   host |-> "None", owner |-> FALSE, told |-> FALSE, spawn |-> "idle",
   adopt |-> "idle", close |-> "idle", bound |-> FALSE, link |-> "none",
   seen |-> "none", sawExit |-> FALSE, sawRecord |-> FALSE]

Init ==
  /\ terminal = [t \in Terminals |-> Blank]
  /\ daemon = "up"
  /\ faults = [count |-> 0, kinds |-> {}]

Put(t, s) == terminal' = [terminal EXCEPT ![t] = s] /\ UNCHANGED daemon
Do(t, s) == Put(t, s) /\ UNCHANGED faults
Fault(kind) ==
  /\ kind \in Faults /\ faults.count < MaxFaults
  /\ faults' = [count |-> faults.count + 1, kinds |-> faults.kinds \cup {kind}]
Tally == [count : 0..MaxFaults, kinds : SUBSET Faults]

-----------------------------------------------------------------------------
(* Final(s): the row is latched.  Wrote(s): the exact exit status is, or   *)
(* was, on disk.  Dead(s): the flock on the host's nonce can be taken.     *)
(* Reachable(s): a connection gets a Snapshot and then every later frame.  *)
Final(s)     == s.row \in FinalRows
Wrote(s)     == s.host \in {"Published", "Released", "Gone"}
Dead(s)      == s.host \in {"Released", "Gone", "Lost"}
Reachable(s) == s.host \in {"Serving", "Drained"}
Ended(s)     == s.link \in {"exited", "ack", "dead"}   \* Surface::is_dead

(* A connection is the owner stream the launch barrier waits for.          *)
Opened(s)    == [s EXCEPT !.owner = TRUE]
Commanded(s) == [s EXCEPT !.owner = TRUE, !.told = TRUE]
(* A Terminate frame needs an open stream to travel on.                    *)
Killed(s) == IF s.link = "connected" THEN [s EXCEPT !.told = TRUE] ELSE s
Unbound(s) == IF s.bound THEN [Killed(s) EXCEPT !.bound = FALSE] ELSE s

\* Mutant: a later observation of the exit overwrites the first.
LatchedAgain(s, outcome) ==
  IF s.row = "Tombstoned" THEN s
  ELSE Unbound([s EXCEPT !.row = "Exited", !.outcome = outcome])
(* persist_terminal_exit, with the detach of the views and the runtime:    *)
(* the first observer of the exit wins, a closed terminal stays closed.    *)
Latched(s, outcome) ==
  IF s.row = "Tombstoned" THEN s
  ELSE IF s.row = "Exited" THEN Unbound(s)
  ELSE Unbound([s EXCEPT !.row = "Exited", !.outcome = outcome])

(* mark_terminal_exited_and_detach: a sidecar written meanwhile gives the  *)
(* exact status, and is acknowledged once the row has it.                  *)
Marked(s, reason) ==
  IF s.row = "Tombstoned" THEN [s EXCEPT !.adopt = "stale"]
  ELSE IF s.sidecar THEN [Latched(s, "exact") EXCEPT !.adopt = "ackMark"]
  ELSE [Latched(s, reason) EXCEPT !.adopt = "stale"]

-----------------------------------------------------------------------------
(* The host process (serve_terminal_host_stdio and its exit publisher).    *)
KilledHost(s) == [s EXCEPT !.host = IF Wrote(s) THEN "Gone" ELSE "Lost"]

(* The record is on disk before the host says Ready.                       *)
PublishRecord(t) ==
  LET s == terminal[t] IN
  /\ s.host = "Starting"
  /\ Do(t, [s EXCEPT !.host = "Serving", !.record = TRUE])

(* The shell ends and its PTY is drained, by itself or on Terminate.       *)
ShellExits(t) ==
  LET s == terminal[t] IN
  /\ s.host = "Serving"
  /\ Do(t, [s EXCEPT !.host = "Drained"])

(* A launcher that vanished no longer holds the exit back.                 *)
OwnerTimeout(t) ==
  LET s == terminal[t] IN
  /\ s.host \in {"Serving", "Drained"} /\ ~s.owner
  /\ Do(t, Opened(s))

(* The sidecar is durable before the Exit frame is broadcast.              *)
PublishExit(t) ==
  LET s == terminal[t] IN
  /\ s.host = "Drained" /\ s.owner
  /\ Do(t, [s EXCEPT !.host = "Published", !.sidecar = TRUE])

ReleaseLease(t) ==
  LET s == terminal[t] IN
  /\ s.host = "Published"
  /\ Do(t, [s EXCEPT !.host = "Released"])

RemoveRecord(t) ==
  LET s == terminal[t] IN
  /\ s.host = "Released"
  /\ Do(t, [s EXCEPT !.host = "Gone", !.record = FALSE])

(* A killed host leaves its files; the kernel drops its lock.              *)
KillHost(t) ==
  LET s == terminal[t] IN
  /\ s.host \notin {"None", "Gone", "Lost"}
  /\ Fault("kill")
  /\ Put(t, KilledHost(s))

-----------------------------------------------------------------------------
(* Spawning: spawn_surface_with, and the launch half of the host protocol. *)
Reserve(t) ==
  LET s == terminal[t] IN
  /\ daemon = "up" /\ s.row = "Absent"
  /\ Do(t, [s EXCEPT !.row = "Launching", !.spawn = "reserved"])

LaunchHost(t) ==
  LET s == terminal[t] IN
  /\ s.spawn = "reserved" /\ s.host = "None"
  /\ Do(t, [s EXCEPT !.host = "Starting", !.spawn = "launching"])

(* The launcher kills its child unless the child beat it to the end.       *)
LaunchFails(t) ==
  LET s == terminal[t]
      failed == [Latched(s, "launch-failed") EXCEPT !.spawn = "idle"]
  IN /\ s.spawn \in {"reserved", "launching"}
     /\ \/ Fault("launch") /\ Put(t, IF s.spawn = "reserved" THEN failed
                                     ELSE KilledHost(failed))
        \/ /\ s.spawn = "launching" /\ (Wrote(s) \/ s.host = "Lost")
           /\ Do(t, failed)

ConnectLaunched(t) ==
  LET s == terminal[t] IN
  /\ s.spawn = "launching" /\ s.record /\ Reachable(s)
  /\ Do(t, [Opened(s) EXCEPT !.link = "connected", !.spawn = "connected"])

(* HostAttachment::drop of an uncommitted launch: terminate, wait for the  *)
(* process, then discard the evidence of a launch that never was.          *)
RollBack(t) ==
  LET s == terminal[t] IN
  /\ s.spawn = "connected" /\ s.link = "connected"
  /\ Fault("setup")
  /\ Put(t, [Killed(s) EXCEPT !.link = "none", !.spawn = "rollback"])

RolledBack(t) ==
  LET s == terminal[t] IN
  /\ s.spawn = "rollback" /\ s.host \in {"Gone", "Lost"}
  /\ Do(t, [s EXCEPT !.sidecar = FALSE, !.host = "Lost",
                     !.spawn = "launching"])

(* Running is committed before the surface is anywhere in State.           *)
CommitReady(t) ==
  LET s == terminal[t] IN
  /\ s.spawn = "connected"
  /\ Do(t, IF s.row = "Launching"
           THEN [s EXCEPT !.row = "Running", !.spawn = "ready"]
           ELSE [Killed(s) EXCEPT !.spawn = "idle"])

(* The exit it tries to record is refused by transition_terminal_lifecycle *)
(* and the error is dropped: the row stays as it is.                       *)
CellPixelsFail(t) ==
  LET s == terminal[t] IN
  /\ s.spawn = "ready"
  /\ Fault("pixels")
  /\ Put(t, [Killed(s) EXCEPT !.spawn = "idle"])

InsertSurface(t) ==
  LET s == terminal[t] IN
  /\ s.spawn = "ready"
  /\ Do(t, [s EXCEPT !.bound = TRUE, !.spawn = "inserted"])

(* fail_hosted_terminal_attachment: the row first, the runtime second.     *)
AttachmentFails(t) ==
  LET s == terminal[t] IN
  /\ s.spawn = "inserted"
  /\ Fault("attach")
  /\ Put(t, [Unbound(Latched(s, "surface-attach-failed")) EXCEPT
               !.spawn = "idle"])

(* reap_if_dead closes the race of an exit with the insertion.             *)
Reaped(s) == IF Ended(s) THEN Latched(s, s.seen) ELSE s
AfterReap(s) == IF Ended(s) THEN "ack" ELSE "idle"

ReapSpawned(t) ==
  LET s == terminal[t] IN
  /\ s.spawn = "inserted"
  /\ Do(t, [Reaped(s) EXCEPT !.spawn = AfterReap(s)])

(* Only the sidecar equal to the recorded exit is removed.                 *)
Acknowledged(s) == IF s.seen = "exact" THEN [s EXCEPT !.sidecar = FALSE] ELSE s

AckSpawned(t) ==
  LET s == terminal[t] IN
  /\ s.spawn = "ack"
  /\ Do(t, [Acknowledged(s) EXCEPT !.spawn = "idle"])

-----------------------------------------------------------------------------
(* The hosted reader of a surface.  Its Exit frame is read in order, even  *)
(* from a host that has already ended.                                     *)
ReadExit(t) ==
  LET s == terminal[t] IN
  /\ s.link = "connected" /\ Wrote(s)
  /\ Do(t, [s EXCEPT !.link = "exited", !.seen = "exact"])

(* terminal_host_connection_lost: the reader goes on only for a surface    *)
(* that State knows and whose row is live.                                 *)
Known(s) == s.bound /\ s.row \in {"Running", "Adopting"}

LoseLink(t) ==
  LET s == terminal[t] IN
  /\ s.link = "connected"
  /\ \/ Fault("drop")
     \/ s.host \in {"Lost", "Gone"} /\ UNCHANGED faults
  /\ Put(t, IF Known(s)
            THEN [s EXCEPT !.row = "Adopting", !.link = "reconnecting"]
            ELSE [s EXCEPT !.link = "stopped"])

\* Mutant: the reader waits for a sidecar that a killed host never wrote.
ReadLossOfSidecar(t) ==
  LET s == terminal[t] IN
  /\ s.link = "reconnecting" /\ Dead(s) /\ s.sidecar
  /\ Do(t, [s EXCEPT !.link = "exited", !.seen = "exact"])
(* The liveness probe proves the host dead; its sidecar is read.           *)
ReadLoss(t) ==
  LET s == terminal[t] IN
  /\ s.link = "reconnecting" /\ Dead(s)
  /\ Do(t, [s EXCEPT !.link = "exited",
                     !.seen = IF s.sidecar THEN "exact" ELSE "no-sidecar"])

(* terminal_host_reconnected                                               *)
Reconnect(t) ==
  LET s == terminal[t] IN
  /\ s.link = "reconnecting" /\ Reachable(s)
  /\ Do(t, IF Known(s)
           THEN [Opened(s) EXCEPT !.row = "Running", !.link = "connected"]
           ELSE [Opened(s) EXCEPT !.link = "failed"])

GiveUp(t) ==
  LET s == terminal[t] IN
  /\ s.link = "reconnecting"
  /\ Fault("giveup")
  /\ Put(t, [s EXCEPT !.link = "failed"])

(* surface_exited: nothing to do for a surface that State does not know.   *)
SurfaceExited(t) ==
  LET s == terminal[t] IN
  /\ s.link = "exited"
  /\ Do(t, IF s.bound THEN [Latched(s, s.seen) EXCEPT !.link = "ack"]
           ELSE [s EXCEPT !.link = "dead"])

AckRead(t) ==
  LET s == terminal[t] IN
  /\ s.link = "ack"
  /\ Do(t, [Acknowledged(s) EXCEPT !.link = "dead"])

-----------------------------------------------------------------------------
(* close_terminal_with_mutation: the tombstone is durable before anything  *)
(* is taken down, and a repeated close takes down what is left.            *)
CloseTerminal(t) ==
  LET s == terminal[t] IN
  /\ daemon = "up" /\ s.row # "Absent" /\ s.close = "idle"
  /\ Do(t, [s EXCEPT !.row = "Tombstoned", !.close = "closing"])

(* The runtime leaves State, and is terminated over its own stream.        *)
TakeRuntime(t) ==
  LET s == terminal[t]
      taken == [Killed(s) EXCEPT !.bound = FALSE]
  IN /\ s.close = "closing"
     /\ Do(t, IF s.bound /\ (s.link = "connected" \/ Ended(s))
              THEN [taken EXCEPT !.close = "waiting"]
              ELSE [s EXCEPT !.bound = FALSE, !.close = "discover"])

CloseObserved(t) ==
  LET s == terminal[t] IN
  /\ s.close = "waiting" /\ Ended(s)
  /\ Do(t, [Acknowledged(s) EXCEPT !.close = "idle"])

CloseTimesOut(t) ==
  LET s == terminal[t] IN
  /\ s.close = "waiting" /\ ~Ended(s)
  /\ Do(t, [Killed(s) EXCEPT !.close = "discover"])

(* terminate_discovered_terminal_host: over a stream of its own when the   *)
(* host can be reached, and the sidecar of the closed row in any case.     *)
Discover(t) ==
  LET s == terminal[t]
      forgone == [s EXCEPT !.sidecar = FALSE, !.close = "idle"]
  IN /\ s.close = "discover"
     /\ \/ /\ s.record /\ Reachable(s)
           /\ Do(t, [Commanded(s) EXCEPT !.close = "awaiting"])
        \/ ~(s.record /\ Reachable(s)) /\ Do(t, forgone)
        \/ s.record /\ Reachable(s) /\ Fault("connect") /\ Put(t, forgone)

(* The exit arrives, or four seconds pass.                                 *)
Discovered(t) ==
  LET s == terminal[t] IN
  /\ s.close = "awaiting"
  /\ Do(t, [s EXCEPT !.sidecar = FALSE, !.close = "idle"])

-----------------------------------------------------------------------------
(* The daemon dies and starts again: adopt_terminal_hosts runs before the  *)
(* first request is served, and lists the sidecars before the records.     *)
Crash ==
  /\ daemon # "down"
  /\ Fault("crash")
  /\ daemon' = "down"
  /\ terminal' = [t \in Terminals |-> Forgotten(terminal[t])]

LoadExitRecords ==
  /\ daemon = "down"
  /\ daemon' = "listing"
  /\ terminal' = [t \in Terminals |->
                    [terminal[t] EXCEPT !.sawExit = terminal[t].sidecar]]
  /\ UNCHANGED faults

LoadHostRecords ==
  /\ daemon = "listing"
  /\ daemon' = "adopting"
  /\ terminal' = [t \in Terminals |->
                    [terminal[t] EXCEPT !.sawRecord = terminal[t].record,
                                        !.adopt = "listed"]]
  /\ UNCHANGED faults

\* Mutant: the sidecar is acknowledged before the exit is latched.
ReconcileUnlatched(t) ==
  LET s == terminal[t] IN
  /\ s.adopt = "listed" /\ s.sawExit
  /\ Do(t, [s EXCEPT !.sidecar = FALSE, !.adopt = "ackExit"])
(* First pass: a sidecar's exact exit, acknowledged once it is latched.    *)
ReconcileExit(t) ==
  LET s == terminal[t] IN
  /\ s.adopt = "listed" /\ s.sawExit
  /\ Do(t, [Latched(s, "exact") EXCEPT !.adopt = "ackExit"])

AckReconciled(t) ==
  LET s == terminal[t] IN
  /\ s.adopt = "ackExit"
  /\ Do(t, [s EXCEPT !.sidecar = FALSE,
                     !.adopt = IF s.sawRecord THEN "cleanup" ELSE "idle"])

\* Mutant: the record of a final row is left alone.
AdoptRecordOfLive(t) ==
  LET s == terminal[t] IN
  /\ s.adopt = "listed" /\ ~s.sawExit /\ s.sawRecord
  /\ Do(t, IF Final(s) THEN [s EXCEPT !.adopt = "idle"]
           ELSE [s EXCEPT !.row = "Adopting", !.adopt = "probing"])
(* Second pass: the listed records.                                        *)
AdoptRecord(t) ==
  LET s == terminal[t] IN
  /\ s.adopt = "listed" /\ ~s.sawExit /\ s.sawRecord
  /\ Do(t, IF Final(s) THEN [Unbound(s) EXCEPT !.adopt = "cleanup"]
           ELSE [s EXCEPT !.row = "Adopting", !.adopt = "probing"])

(* Third pass: a live row without a record is taken for a closed crash     *)
(* window.                                                                 *)
MissingRecord(t) ==
  LET s == terminal[t] IN
  /\ s.adopt = "listed" /\ ~s.sawExit /\ ~s.sawRecord
  /\ \A u \in Terminals : terminal[u].adopt = "listed" =>
       ~terminal[u].sawExit /\ ~terminal[u].sawRecord
  /\ Do(t, IF s.row \in LiveRows THEN Marked(s, "missing-host-record")
           ELSE [s EXCEPT !.adopt = "idle"])

\* Mutant: an unreachable host is taken for dead.
BuryUnreachable(t) ==
  LET s == terminal[t] IN
  /\ s.adopt = "probing" /\ (Dead(s) \/ ~Reachable(s))
  /\ Do(t, [s EXCEPT !.record = FALSE, !.adopt = "buried"])
(* Positive proof of death: the record goes first, then the row.           *)
BuryRecord(t) ==
  LET s == terminal[t] IN
  /\ s.adopt = "probing" /\ Dead(s)
  /\ Do(t, [s EXCEPT !.record = FALSE, !.adopt = "buried"])

MarkBuried(t) ==
  LET s == terminal[t] IN
  /\ s.adopt = "buried"
  /\ Do(t, Marked(s, "host-proven-dead"))

AdoptHost(t) ==
  LET s == terminal[t] IN
  /\ s.adopt \in {"probing", "reprobing"} /\ Reachable(s)
  /\ Do(t, [Opened(s) EXCEPT !.link = "connected", !.seen = "none",
                             !.adopt = "held"])

\* Mutant: the retry thread is not scheduled.
AdoptForgets(t) ==
  LET s == terminal[t] IN
  /\ s.adopt \in {"probing", "reprobing"} /\ ~Dead(s)
  /\ IF Reachable(s) THEN Fault("connect") ELSE UNCHANGED faults
  /\ Put(t, [s EXCEPT !.adopt = "idle"])
(* Failure to connect is not proof of death: schedule_terminal_adoption.   *)
AdoptFails(t) ==
  LET s == terminal[t] IN
  /\ s.adopt \in {"probing", "reprobing"} /\ ~Dead(s)
  /\ IF Reachable(s) THEN Fault("connect") ELSE UNCHANGED faults
  /\ Put(t, [s EXCEPT !.adopt = "retry"])

(* finish_terminal_adoption looks at the surface, then takes its locks.    *)
InspectAdopted(t) ==
  LET s == terminal[t]
      died == "host-exited-during-adoption"
  IN /\ s.adopt = "held"
     /\ Do(t, IF Ended(s)
              THEN [Marked(Latched(s, died), died) EXCEPT !.link = "none"]
              ELSE [s EXCEPT !.adopt = "checked"])

FinishAdoption(t) ==
  LET s == terminal[t] IN
  /\ s.adopt = "checked"
  /\ Do(t, IF s.row = "Adopting"
           THEN [s EXCEPT !.row = "Running", !.bound = TRUE, !.adopt = "reap"]
           ELSE IF Ended(s) \/ Dead(s)
           THEN [Marked(s, "host-exited-during-adoption") EXCEPT
                   !.link = "none"]
           ELSE [s EXCEPT !.link = "none", !.adopt = "retry"])

ReapAdopted(t) ==
  LET s == terminal[t] IN
  /\ s.adopt = "reap"
  /\ Do(t, [Reaped(s) EXCEPT !.adopt = AfterReap(s)])

AckAdopted(t) ==
  LET s == terminal[t] IN
  /\ s.adopt = "ack"
  /\ Do(t, [Acknowledged(s) EXCEPT !.adopt = "idle"])

AckMarked(t) ==
  LET s == terminal[t] IN
  /\ s.adopt = "ackMark"
  /\ Do(t, [s EXCEPT !.sidecar = FALSE, !.adopt = "stale"])

(* remove_stale_terminal_host_record probes again before it deletes; only  *)
(* a record that was listed has a path to delete.                          *)
RemoveStale(t) ==
  LET s == terminal[t] IN
  /\ s.adopt = "stale"
  /\ Do(t, IF s.sawRecord /\ Dead(s)
           THEN [s EXCEPT !.record = FALSE, !.adopt = "idle"]
           ELSE [s EXCEPT !.adopt = "idle"])

(* cleanup_terminal_host_record, for the host of a row that is final.      *)
Cleanup(t) ==
  LET s == terminal[t] IN
  /\ s.adopt = "cleanup"
  /\ \/ Dead(s) /\ Do(t, [s EXCEPT !.record = FALSE, !.adopt = "idle"])
     \/ Reachable(s) /\ Do(t, [Commanded(s) EXCEPT !.adopt = "ending"])
     \/ /\ ~Dead(s)
        /\ IF Reachable(s) THEN Fault("connect") ELSE UNCHANGED faults
        /\ Put(t, [s EXCEPT !.adopt = "retry"])

(* terminate_and_wait_for_exit, under its deadline.                        *)
EndingHost(t) ==
  LET s == terminal[t] IN
  /\ s.adopt = "ending"
  /\ \/ Wrote(s) /\ Do(t, [s EXCEPT !.sidecar = FALSE, !.adopt = "idle"])
     \/ ~Wrote(s) /\ Do(t, [s EXCEPT !.adopt = "retry"])

(* The retry thread re-reads the row each time it wakes.                   *)
RetryAdoption(t) ==
  LET s == terminal[t] IN
  /\ s.adopt = "retry"
  /\ Do(t, IF Final(s) THEN [Unbound(s) EXCEPT !.adopt = "cleanup"]
           ELSE IF s.row = "Running" /\ s.bound
           THEN [s EXCEPT !.adopt = "idle"]
           ELSE [s EXCEPT !.row = "Adopting", !.adopt = "reprobing"])

(* On this path the row goes first, then the record.                       *)
MarkUnadopted(t) ==
  LET s == terminal[t] IN
  /\ s.adopt = "reprobing" /\ Dead(s)
  /\ Do(t, Marked(s, "host-proven-dead"))

StartupDone ==
  /\ daemon = "adopting"
  /\ \A t \in Terminals : terminal[t].adopt \in {"idle", "retry"}
  /\ daemon' = "up"
  /\ UNCHANGED <<terminal, faults>>

HostStep(t) ==
  PublishRecord(t) \/ OwnerTimeout(t) \/ PublishExit(t) \/ ReleaseLease(t)
    \/ RemoveRecord(t)
SpawnStep(t) ==
  LaunchHost(t) \/ LaunchFails(t) \/ ConnectLaunched(t) \/ RolledBack(t)
    \/ CommitReady(t) \/ InsertSurface(t) \/ ReapSpawned(t) \/ AckSpawned(t)
ReaderStep(t) ==
  ReadExit(t) \/ LoseLink(t) \/ ReadLoss(t) \/ Reconnect(t)
    \/ SurfaceExited(t) \/ AckRead(t)
CloseStep(t) ==
  TakeRuntime(t) \/ CloseObserved(t) \/ CloseTimesOut(t) \/ Discover(t)
    \/ Discovered(t)
AdoptStep(t) ==
  ReconcileExit(t) \/ AckReconciled(t) \/ AdoptRecord(t) \/ MissingRecord(t)
    \/ BuryRecord(t) \/ MarkBuried(t) \/ AdoptHost(t) \/ AdoptFails(t)
    \/ InspectAdopted(t) \/ FinishAdoption(t) \/ ReapAdopted(t)
    \/ AckAdopted(t) \/ AckMarked(t) \/ RemoveStale(t) \/ Cleanup(t)
    \/ EndingHost(t) \/ RetryAdoption(t) \/ MarkUnadopted(t)
FaultStep(t) ==
  KillHost(t) \/ RollBack(t) \/ CellPixelsFail(t) \/ AttachmentFails(t)
    \/ GiveUp(t)
RestartStep == LoadExitRecords \/ LoadHostRecords \/ StartupDone

Next ==
  \/ \E t \in Terminals : \/ HostStep(t) \/ SpawnStep(t) \/ ReaderStep(t)
                          \/ CloseStep(t) \/ AdoptStep(t) \/ FaultStep(t)
                          \/ Reserve(t) \/ ShellExits(t) \/ CloseTerminal(t)
  \/ RestartStep \/ Crash

Spec == Init /\ [][Next]_vars

-----------------------------------------------------------------------------
(* The entry of a terminal names only states its parties have, and a row   *)
(* that exited by itself says how.                                         *)
TypeOK ==
  /\ terminal \in [Terminals -> Entries]
  /\ \A t \in Terminals :
       terminal[t].row = "Exited" => terminal[t].outcome # "none"
  /\ daemon \in {"down", "listing", "adopting", "up"}
  /\ faults \in Tally

(* An exact exit status that is on disk stays there until its row has it,  *)
(* or the row is closed: whoever removes a sidecar does so after the       *)
(* commit, wherever the daemon died before.  What a row may say instead is *)
(* that its terminal never came up (the launch or the change of the tree   *)
(* failed), or was missed by a start before the host had its record; the   *)
(* loss that is left is the one of ExactStatusSurvivesAdoption below.      *)
NeverUp == {"launch-failed", "surface-attach-failed", "missing-host-record"}
StatusIsKept ==
  \A t \in Terminals : LET s == terminal[t] IN
    Wrote(s) =>
      \/ s.sidecar /\ ~Final(s)
      \/ s.row = "Tombstoned"
      \/ /\ s.row = "Exited"
         /\ s.outcome \in {"exact", "host-exited-during-adoption"} \cup NeverUp

(* A row is closed for one of the three reasons that rest on the absence   *)
(* of a host or of a sidecar only while no exact status exists.  The guess *)
(* of an adoption is not one of them: it is made without a look at the     *)
(* sidecar (mux.rs:2883, ExactStatusSurvivesAdoption).                     *)
GuessesAre(reasons) ==
  \A t \in Terminals :
    (terminal[t].row # "Exited" /\ terminal'[t].row = "Exited"
       /\ terminal'[t].outcome \in reasons) => ~Wrote(terminal[t])
AbsenceIsChecked ==
  [][GuessesAre({"missing-host-record", "host-proven-dead", "no-sidecar"})]_vars

(* A shell that may still be running can be found again by its record:     *)
(* failing to reach a host never removes it.                               *)
LiveHostIsDiscoverable ==
  \A t \in Terminals :
    terminal[t].host \in {"Serving", "Drained", "Published"} =>
      terminal[t].record

(* A row that says Running or Adopting has a runtime in State or a thread  *)
(* that is working on it; nothing live is forgotten by its daemon, unless  *)
(* a host has not acknowledged its cell size (see EveryLiveRowIsTended).   *)
LiveRowIsTended ==
  \A t \in Terminals :
    daemon = "up" /\ terminal[t].row \in LiveRows =>
      \/ terminal[t].bound \/ terminal[t].spawn # "idle"
      \/ terminal[t].adopt # "idle" \/ "pixels" \in faults.kinds

(* The commits of all these threads are ones the registry accepts, and the *)
(* first recorded exit is the one that stays.                              *)
Lifecycle == INSTANCE TerminalLifecycle WITH
  row <- [t \in Terminals |-> terminal[t].row],
  outcome <- [t \in Terminals |-> terminal[t].outcome],
  NoOutcome <- "none"
ImplementsLifecycle == Lifecycle!Spec

(* Why StatusIsKept holds and why no commit is refused: what each thread's *)
(* place says about the row, and the row about everything else.            *)
Deaths == {"host-proven-dead", "no-sidecar"}
Consistent(s) ==
  /\ s.row = "Exited" => s.outcome # "none"
  /\ s.row = "Absent" =>
       /\ s.host = "None" /\ ~s.record /\ ~s.sidecar /\ ~s.bound
       /\ s.spawn = "idle" /\ s.close = "idle" /\ s.link = "none"
       /\ s.adopt \in {"idle", "listed"} /\ ~s.sawExit /\ ~s.sawRecord
  /\ Wrote(s) => s.sidecar \/ Final(s)
  /\ s.host \in {"Serving", "Drained", "Published"} => s.record
  /\ s.close # "idle" => s.row = "Tombstoned"
  /\ s.adopt \in {"ackExit", "cleanup", "ending", "ack", "ackMark"} => Final(s)
  /\ s.spawn = "ack" => Final(s)
  /\ s.link = "ack" => Final(s)
  /\ Ended(s) => s.seen # "none"
  /\ s.seen = "no-sidecar" => s.host = "Lost" \/ Final(s)
  /\ s.adopt = "buried" => Dead(s)
  /\ s.row = "Exited" /\ s.outcome \in Deaths => s.host = "Lost"

EntriesInv ==
  /\ terminal \in [Terminals -> Entries]
  /\ daemon \in {"down", "listing", "adopting", "up"}
  /\ faults \in Tally
  /\ \A t \in Terminals : Consistent(terminal[t])

-----------------------------------------------------------------------------
(* Every thread goes on; a host that was told to terminate ends its shell. *)
(* Faults, requests and the shell's own exit are owed to nobody.           *)
Fairness ==
  /\ \A t \in Terminals :
       /\ WF_vars(HostStep(t))
       /\ WF_vars(terminal[t].told /\ ShellExits(t))
       /\ WF_vars(SpawnStep(t))
       /\ WF_vars(ReaderStep(t))
       /\ WF_vars(CloseStep(t))
       /\ WF_vars(AdoptStep(t))
  /\ WF_vars(RestartStep)
FairSpec == Spec /\ Fairness

(* The end of a shell reaches its row, unless its reader has stopped or    *)
(* given up, or the row is the one that EveryLiveRowIsTended is about.     *)
ExitIsRecorded ==
  \A t \in Terminals :
    (terminal[t].row \in {"Running", "Adopting"} /\
     terminal[t].host \in {"Published", "Released", "Gone", "Lost"}) ~>
      \/ Final(terminal[t]) \/ terminal[t].link = "stopped"
      \/ {"giveup", "pixels"} \cap faults.kinds # {}

(* A close that has begun ends the shell although the daemon dies on the   *)
(* way, and so does the next start for a closed terminal it finds a record *)
(* of.  (A host still starting when its daemon died has no record yet, and *)
(* is not found before the start after the next one.)  A connection that   *)
(* fails ends the search of a close, and is excepted.                      *)
CloseEndsShell ==
  \A t \in Terminals :
    (terminal[t].row = "Tombstoned" /\ terminal[t].host = "Serving"
       /\ (terminal[t].close # "idle" \/ terminal[t].sawRecord)) ~>
      terminal[t].host # "Serving" \/ "connect" \in faults.kinds

-----------------------------------------------------------------------------
(* What the code's comments say and the code does not do.                  *)

(* fail_hosted_terminal_attachment and its like see to it that no row is   *)
(* left live when a launch fails: it is, when only the cell size was not   *)
(* acknowledged.                                                           *)
EveryLiveRowIsTended ==
  \A t \in Terminals :
    daemon = "up" /\ terminal[t].row \in LiveRows =>
      \/ terminal[t].bound \/ terminal[t].spawn # "idle"
      \/ terminal[t].adopt # "idle"

(* "The exact status cannot be collapsed": an exit that arrives between    *)
(* the adoption of its host and the commit of Running keeps its status.    *)
ExactStatusSurvivesAdoption ==
  [][GuessesAre({"host-exited-during-adoption"})]_vars

(* "The surface keeps its tab and reconnects the same incarnation."        *)
BrokenStreamReconnects ==
  \A t \in Terminals :
    (terminal[t].bound /\ terminal[t].host = "Serving"
       /\ terminal[t].link # "connected") ~>
      (~terminal[t].bound \/ terminal[t].host # "Serving"
         \/ terminal[t].link = "connected")
=============================================================================
