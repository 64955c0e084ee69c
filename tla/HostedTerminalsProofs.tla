----------------------- MODULE HostedTerminalsProofs -----------------------
(***************************************************************************)
(* Every step of one terminal replaces its entry by a good one, moves its  *)
(* row as the registry allows, and never sets a guess against a status     *)
(* that was written (Fine, Stepped).  The lemmas show it action by action; *)
(* the theorems read it off for all terminals, any set of faults and any   *)
(* number of them.  The second half shows in the same way that no step     *)
(* leaves a live row without a runtime or a thread (Tends).                *)
(***************************************************************************)
EXTENDS HostedTerminals, TLAPS

USE DEF LiveRows, FinalRows, Hosts, Spawning, Adopting, Closing, Links,
        Reasons, Outcomes, Deaths, NeverUp, Final, Wrote, Dead, Reachable, Ended

Absences == {"missing-host-record", "host-proven-dead", "no-sidecar"}

Good(s) == s \in Entries /\ Consistent(s)
Same(s, r) == r \in Entries /\ r.row = s.row /\ r.outcome = s.outcome
Moved(s, r) ==
  \/ r.row = s.row /\ r.outcome = s.outcome
  \/ /\ <<s.row, r.row>> \in Lifecycle!Allowed
     /\ IF r.row = "Exited" THEN r.outcome \in Outcomes
        ELSE r.outcome = s.outcome
Proven(s, r) ==
  (s.row # "Exited" /\ r.row = "Exited" /\ r.outcome \in Absences)
    => ~Wrote(s)
Fine(s, r) == Good(r) /\ Moved(s, r) /\ Proven(s, r)
(* Faults are of known kinds, and their tally grows.                       *)
Spending == faults' \in Tally /\ faults.kinds \subseteq faults'.kinds
Stepped(t) ==
  /\ terminal' = [terminal EXCEPT ![t] = terminal'[t]]
  /\ Fine(terminal[t], terminal'[t])
  /\ daemon' = daemon
  /\ Spending

-----------------------------------------------------------------------------
(* Entries, one field at a time.                                           *)

LEMMA SameSelf ==
  ASSUME NEW s, Good(s)
  PROVE  Same(s, s)
BY DEF Good, Same

(* An entry with one field replaced is an entry, with the same row.        *)
LEMMA Setting ==
  ASSUME NEW s, NEW q, Same(s, q)
  PROVE  /\ \A v \in Hosts : Same(s, [q EXCEPT !.host = v])
         /\ \A v \in Spawning : Same(s, [q EXCEPT !.spawn = v])
         /\ \A v \in Adopting : Same(s, [q EXCEPT !.adopt = v])
         /\ \A v \in Closing : Same(s, [q EXCEPT !.close = v])
         /\ \A v \in Links : Same(s, [q EXCEPT !.link = v])
         /\ \A v \in BOOLEAN : Same(s, [q EXCEPT !.record = v])
         /\ \A v \in BOOLEAN : Same(s, [q EXCEPT !.sidecar = v])
         /\ \A v \in BOOLEAN : Same(s, [q EXCEPT !.owner = v])
         /\ \A v \in BOOLEAN : Same(s, [q EXCEPT !.told = v])
         /\ \A v \in BOOLEAN : Same(s, [q EXCEPT !.bound = v])
         /\ \A v \in BOOLEAN : Same(s, [q EXCEPT !.sawExit = v])
         /\ \A v \in BOOLEAN : Same(s, [q EXCEPT !.sawRecord = v])
         /\ \A v \in {"none", "exact", "no-sidecar"} : Same(s, [q EXCEPT !.seen = v])
<1>1. \A v \in Hosts : Same(s, [q EXCEPT !.host = v])
  BY DEF Entries, Same
<1>2. \A v \in Spawning : Same(s, [q EXCEPT !.spawn = v])
  BY DEF Entries, Same
<1>3. \A v \in Adopting : Same(s, [q EXCEPT !.adopt = v])
  BY DEF Entries, Same
<1>4. \A v \in Closing : Same(s, [q EXCEPT !.close = v])
  BY DEF Entries, Same
<1>5. \A v \in Links : Same(s, [q EXCEPT !.link = v])
  BY DEF Entries, Same
<1>6. \A v \in BOOLEAN : Same(s, [q EXCEPT !.record = v])
  BY DEF Entries, Same
<1>7. \A v \in BOOLEAN : Same(s, [q EXCEPT !.sidecar = v])
  BY DEF Entries, Same
<1>8. \A v \in BOOLEAN : Same(s, [q EXCEPT !.owner = v])
  BY DEF Entries, Same
<1>9. \A v \in BOOLEAN : Same(s, [q EXCEPT !.told = v])
  BY DEF Entries, Same
<1>10. \A v \in BOOLEAN : Same(s, [q EXCEPT !.bound = v])
  BY DEF Entries, Same
<1>11. \A v \in BOOLEAN : Same(s, [q EXCEPT !.sawExit = v])
  BY DEF Entries, Same
<1>12. \A v \in BOOLEAN : Same(s, [q EXCEPT !.sawRecord = v])
  BY DEF Entries, Same
<1>13. \A v \in {"none", "exact", "no-sidecar"} : Same(s, [q EXCEPT !.seen = v])
  BY DEF Entries, Same
<1> QED BY <1>1, <1>2, <1>3, <1>4, <1>5, <1>6, <1>7,
          <1>8, <1>9, <1>10, <1>11, <1>12, <1>13

(* Good steps compose with changes that leave the row alone.               *)
LEMMA FineThen ==
  ASSUME NEW s, NEW q, Fine(s, q), NEW r, Good(r), Same(q, r)
  PROVE  Fine(s, r)
BY DEF Fine, Moved, Proven, Same

LEMMA FineAlready ==
  ASSUME NEW s, Good(s)
  PROVE  Fine(s, s)
BY DEF Fine, Moved, Proven

(* A live row may go back and forth between Adopting and Running.          *)
LEMMA LiveRow ==
  ASSUME NEW s, Good(s), s.row \in LiveRows, NEW q, Good(q), Same(s, q),
         NEW v \in {"Adopting", "Running"}
  PROVE  Fine(s, [q EXCEPT !.row = v]) /\ [q EXCEPT !.row = v].row = v
<1> DEFINE r == [q EXCEPT !.row = v]
<1>1. r \in Entries /\ r.row = v /\ r.outcome = s.outcome
  BY DEF Same, Entries
<1>2. Good(r) BY <1>1 DEF Same, Good, Consistent, Entries
<1>3. <<s.row, v>> \in Lifecycle!Allowed
  BY DEF Lifecycle!Allowed, Lifecycle!Live
<1> QED BY <1>1, <1>2, <1>3 DEF Fine, Moved, Proven

(* A close tombstones any row there is.                                    *)
LEMMA ClosedRow ==
  ASSUME NEW s, Good(s), s.row # "Absent"
  PROVE  /\ Fine(s, [s EXCEPT !.row = "Tombstoned"])
         /\ [s EXCEPT !.row = "Tombstoned"].row = "Tombstoned"
<1> DEFINE q == [s EXCEPT !.row = "Tombstoned"]
<1>1. q \in Entries /\ q.row = "Tombstoned" /\ q.outcome = s.outcome
  BY DEF Good, Entries
<1>2. Good(q) BY <1>1 DEF Good, Consistent, Entries
<1>3. <<s.row, "Tombstoned">> \in Lifecycle!Allowed
        \/ s.row = "Tombstoned"
  BY DEF Lifecycle!Allowed, Lifecycle!Live, Good, Entries
<1> QED BY <1>1, <1>2, <1>3 DEF Fine, Moved, Proven

-----------------------------------------------------------------------------
(* The helpers of the model.                                               *)

(* What a connection, a command or the end of a runtime sets is never part *)
(* of the argument.                                                        *)
LEMMA OpenedGood ==
  ASSUME NEW s, Good(s)
  PROVE  Good(Opened(s)) /\ Same(s, Opened(s))
<1>1. Same(s, Opened(s)) BY SameSelf, Setting DEF Opened
<1>2. Good(Opened(s)) BY <1>1 DEF Good, Opened, Same, Consistent, Entries
<1> QED BY <1>1, <1>2

LEMMA CommandedGood ==
  ASSUME NEW s, Good(s)
  PROVE  Good(Commanded(s)) /\ Same(s, Commanded(s))
<1>1. Same(s, Commanded(s)) BY SameSelf, Setting DEF Commanded
<1>2. Good(Commanded(s))
  BY <1>1 DEF Good, Commanded, Same, Consistent, Entries
<1> QED BY <1>1, <1>2

LEMMA KilledGood ==
  ASSUME NEW s, Good(s)
  PROVE  /\ Good(Killed(s)) /\ Same(s, Killed(s))
         /\ Killed(s).seen = s.seen
<1>1. CASE s.link = "connected"
  <2> DEFINE r == [s EXCEPT !.told = TRUE]
  <2>1. Same(s, r) BY SameSelf, Setting
  <2>2. Good(r) BY <2>1 DEF Good, Same, Consistent, Entries
  <2>3. r.seen = s.seen BY DEF Good, Entries
  <2> QED BY <1>1, <2>1, <2>2, <2>3 DEF Killed
<1>2. CASE s.link # "connected"
  BY <1>2 DEF Killed, Good, Same
<1> QED BY <1>1, <1>2

LEMMA UnboundGood ==
  ASSUME NEW s, Good(s)
  PROVE  /\ Good(Unbound(s)) /\ Same(s, Unbound(s))
         /\ Unbound(s).seen = s.seen
<1> DEFINE q == Killed(s)
<1>1. Good(q) /\ Same(s, q) /\ q.seen = s.seen
  BY KilledGood
<1>2. ASSUME NEW p, Good(p)
      PROVE  /\ Good([p EXCEPT !.bound = FALSE])
             /\ Same(p, [p EXCEPT !.bound = FALSE])
             /\ [p EXCEPT !.bound = FALSE].seen = p.seen
  <2> DEFINE r == [p EXCEPT !.bound = FALSE]
  <2>1. Same(p, r) BY <1>2, SameSelf, Setting
  <2>2. Good(r) BY <1>2, <2>1 DEF Good, Same, Consistent, Entries
  <2>3. r.seen = p.seen BY <1>2 DEF Good, Entries
  <2> QED BY <2>1, <2>2, <2>3
<1>3. CASE s.bound
  BY <1>1, <1>2, <1>3 DEF Unbound, Same
<1>4. CASE ~s.bound
  BY <1>4 DEF Unbound, Good, Same
<1> QED BY <1>3, <1>4

LEMMA AcknowledgedGood ==
  ASSUME NEW s, Good(s), Final(s)
  PROVE  /\ Good(Acknowledged(s)) /\ Same(s, Acknowledged(s))
         /\ Acknowledged(s).seen = s.seen
<1>1. CASE s.seen = "exact"
  <2> DEFINE r == [s EXCEPT !.sidecar = FALSE]
  <2>1. Same(s, r) BY SameSelf, Setting
  <2>2. Good(r) BY <2>1 DEF Good, Same, Consistent, Entries
  <2>3. r.seen = s.seen BY DEF Good, Entries
  <2> QED BY <1>1, <2>1, <2>2, <2>3 DEF Acknowledged
<1>2. CASE s.seen # "exact"
  BY <1>2 DEF Acknowledged, Good, Same
<1> QED BY <1>1, <1>2

LEMMA KilledHostGood ==
  ASSUME NEW s, Good(s), s.row # "Absent"
  PROVE  Good(KilledHost(s)) /\ Same(s, KilledHost(s))
<1> PICK h \in {"Gone", "Lost"} : h = IF Wrote(s) THEN "Gone" ELSE "Lost"
  OBVIOUS
<1> DEFINE r == [s EXCEPT !.host = h]
<1>1. Same(s, r) BY SameSelf, Setting
<1>2. Good(r) BY <1>1 DEF Good, Same, Consistent, Entries
<1> QED BY <1>1, <1>2 DEF KilledHost

(* The latch: a guess needs that nothing was written, an exact status      *)
(* needs nothing, and either way the row ends up final.                    *)
LEMMA LatchedFine ==
  ASSUME NEW s, Good(s), s.row # "Absent", NEW o \in Outcomes,
         o \in Absences => ~Wrote(s) \/ Final(s),
         o \in Deaths => s.host = "Lost" \/ Final(s)
  PROVE  /\ Fine(s, Latched(s, o)) /\ Final(Latched(s, o))
         /\ Final(s) => Same(s, Latched(s, o))
         /\ Latched(s, o).seen = s.seen
<1> DEFINE q == [s EXCEPT !.row = "Exited", !.outcome = o]
<1>1. CASE s.row = "Tombstoned"
  BY <1>1, FineAlready, SameSelf DEF Latched
<1>2. CASE s.row = "Exited"
  BY <1>2, UnboundGood, FineAlready, FineThen DEF Latched, Same
<1>3. CASE s.row \in LiveRows
  <2>1. /\ q \in Entries /\ q.row = "Exited" /\ q.outcome = o
        /\ q.seen = s.seen
    <3> DEFINE p == [s EXCEPT !.row = "Exited"]
    <3>1. p \in Entries /\ p.row = "Exited" /\ p.seen = s.seen
      BY DEF Good, Entries
    <3>2. q = [p EXCEPT !.outcome = o]
      BY DEF Good, Entries
    <3> HIDE DEF p, q
    <3> QED BY <3>1, <3>2 DEF Entries
  <2>2. Good(q) BY <2>1, <1>3 DEF Good, Consistent, Entries
  <2>3. Latched(s, o) = Unbound(q) BY <1>3 DEF Latched
  <2>4. /\ Good(Unbound(q)) /\ Same(q, Unbound(q))
        /\ Unbound(q).seen = q.seen
    BY <2>2, UnboundGood
  <2>5. <<s.row, "Exited">> \in Lifecycle!Allowed
    BY <1>3 DEF Lifecycle!Allowed, Lifecycle!Live
  <2>6. Fine(s, q)
    BY <2>1, <2>2, <2>5, <1>3 DEF Fine, Moved, Proven, Absences
  <2> QED BY <1>3, <2>1, <2>3, <2>4, <2>6, FineThen DEF Same
<1> QED BY <1>1, <1>2, <1>3 DEF Good, Entries

(* The threads' places: those from which a sidecar is deleted need a final *)
(* row.                                                                    *)
LEMMA AdoptAt ==
  ASSUME NEW s, NEW q, Fine(s, q), NEW place \in Adopting,
         q.row # "Absent" \/ place = "idle",
         place \in {"ackExit", "cleanup", "ending", "ack", "ackMark"} =>
           Final(q),
         place = "buried" => Dead(q)
  PROVE  /\ Fine(s, [q EXCEPT !.adopt = place])
         /\ Same(q, [q EXCEPT !.adopt = place])
<1> DEFINE r == [q EXCEPT !.adopt = place]
<1>1. Same(q, r) BY SameSelf, Setting DEF Fine
<1>2. Good(r) BY <1>1 DEF Same, Fine, Good, Consistent, Entries
<1> QED BY <1>1, <1>2, FineThen

LEMMA SpawnAt ==
  ASSUME NEW s, NEW q, Fine(s, q), q.row # "Absent", NEW place \in Spawning,
         place = "ack" => Final(q)
  PROVE  /\ Fine(s, [q EXCEPT !.spawn = place])
         /\ Same(q, [q EXCEPT !.spawn = place])
<1> DEFINE r == [q EXCEPT !.spawn = place]
<1>1. Same(q, r) BY SameSelf, Setting DEF Fine
<1>2. Good(r) BY <1>1 DEF Same, Fine, Good, Consistent, Entries
<1> QED BY <1>1, <1>2, FineThen

LEMMA LinkAt ==
  ASSUME NEW s, NEW q, Fine(s, q), q.row # "Absent",
         NEW place \in {"none", "connected", "reconnecting", "ack", "dead",
                        "failed", "stopped"},
         place = "ack" => Final(q),
         place \in {"ack", "dead"} => q.seen # "none"
  PROVE  /\ Fine(s, [q EXCEPT !.link = place])
         /\ Same(q, [q EXCEPT !.link = place])
<1> DEFINE r == [q EXCEPT !.link = place]
<1>1. Same(q, r) BY SameSelf, Setting DEF Fine
<1>2. Good(r) BY <1>1 DEF Same, Fine, Good, Consistent, Entries
<1> QED BY <1>1, <1>2, FineThen

LEMMA BoundAt ==
  ASSUME NEW s, NEW q, Fine(s, q), q.row # "Absent", NEW v \in BOOLEAN
  PROVE  /\ Fine(s, [q EXCEPT !.bound = v])
         /\ Same(q, [q EXCEPT !.bound = v])
<1> DEFINE r == [q EXCEPT !.bound = v]
<1>1. Same(q, r) BY SameSelf, Setting DEF Fine
<1>2. Good(r) BY <1>1 DEF Same, Fine, Good, Consistent, Entries
<1> QED BY <1>1, <1>2, FineThen

LEMMA CloseAt ==
  ASSUME NEW s, NEW q, Fine(s, q), NEW place \in Closing,
         place # "idle" => q.row = "Tombstoned"
  PROVE  Fine(s, [q EXCEPT !.close = place])
<1> DEFINE r == [q EXCEPT !.close = place]
<1>1. Same(q, r) BY SameSelf, Setting DEF Fine
<1>2. Good(r) BY <1>1 DEF Same, Fine, Good, Consistent, Entries
<1> QED BY <1>1, <1>2, FineThen

(* A sidecar is deleted under a final row, a record under a dead host.     *)
LEMMA SidecarGone ==
  ASSUME NEW s, Good(s), Final(s)
  PROVE  Fine(s, [s EXCEPT !.sidecar = FALSE])
         /\ Same(s, [s EXCEPT !.sidecar = FALSE])
<1> DEFINE r == [s EXCEPT !.sidecar = FALSE]
<1>1. Same(s, r) BY SameSelf, Setting
<1>2. Good(r) BY <1>1 DEF Same, Good, Consistent, Entries
<1> QED BY <1>1, <1>2, FineAlready, FineThen

LEMMA RecordGone ==
  ASSUME NEW s, Good(s), Dead(s)
  PROVE  Fine(s, [s EXCEPT !.record = FALSE])
         /\ Same(s, [s EXCEPT !.record = FALSE])
<1> DEFINE r == [s EXCEPT !.record = FALSE]
<1>1. Same(s, r) BY SameSelf, Setting
<1>2. Good(r) BY <1>1 DEF Same, Good, Consistent, Entries
<1> QED BY <1>1, <1>2, FineAlready, FineThen

(* mark_terminal_exited_and_detach reads the sidecar before it guesses.    *)
LEMMA MarkedFine ==
  ASSUME NEW s, Good(s), s.row # "Absent", NEW o \in Reasons,
         o \in Deaths => Dead(s)
  PROVE  /\ Fine(s, Marked(s, o)) /\ Marked(s, o).row # "Absent"
         /\ Final(s) => Same(s, Marked(s, o))
<1>1. CASE s.row = "Tombstoned"
  BY <1>1, FineAlready, AdoptAt DEF Marked, Same
<1>2. CASE s.row # "Tombstoned"
  <2>1. PICK x \in {"exact", o}, place \in {"ackMark", "stale"} :
          /\ Marked(s, o) = [Latched(s, x) EXCEPT !.adopt = place]
          /\ x \in Absences => ~s.sidecar
    BY <1>2 DEF Marked, Absences
  <2>2. /\ x \in Absences => ~Wrote(s) \/ Final(s)
        /\ x \in Deaths => s.host = "Lost" \/ Final(s)
    BY <2>1 DEF Good, Consistent, Absences
  <2>3. /\ Fine(s, Latched(s, x)) /\ Final(Latched(s, x))
        /\ Final(s) => Same(s, Latched(s, x))
    BY <2>1, <2>2, LatchedFine
  <2>4. /\ Fine(s, [Latched(s, x) EXCEPT !.adopt = place])
        /\ Same(Latched(s, x), [Latched(s, x) EXCEPT !.adopt = place])
    BY <2>3, AdoptAt
  <2> QED BY <2>1, <2>3, <2>4 DEF Same
<1> QED BY <1>1, <1>2

(* reap_if_dead latches what the surface has seen.                         *)
LEMMA SeenFine ==
  ASSUME NEW s, Good(s), s.row # "Absent", Ended(s) \/ s.link = "exited"
  PROVE  /\ Fine(s, Latched(s, s.seen)) /\ Final(Latched(s, s.seen))
         /\ Latched(s, s.seen).seen = s.seen /\ s.seen # "none"
<1>1. s.seen \in {"exact", "no-sidecar"}
  BY DEF Good, Consistent, Entries
<1>2. s.seen = "no-sidecar" => s.host = "Lost" \/ Final(s)
  BY DEF Good, Consistent
<1>3. CASE s.seen = "exact"
  BY <1>1, <1>3, LatchedFine DEF Absences
<1>4. CASE s.seen = "no-sidecar"
  BY <1>2, <1>4, LatchedFine DEF Absences
<1> QED BY <1>1, <1>3, <1>4

LEMMA ReapedFine ==
  ASSUME NEW s, Good(s), s.row # "Absent"
  PROVE  /\ Fine(s, Reaped(s)) /\ Reaped(s).row # "Absent"
         /\ AfterReap(s) \in {"ack", "idle"}
         /\ AfterReap(s) = "ack" => Final(Reaped(s))
<1>1. CASE Ended(s)
  BY <1>1, SeenFine DEF Reaped, AfterReap
<1>2. CASE ~Ended(s)
  BY <1>2, FineAlready DEF Reaped, AfterReap
<1> QED BY <1>1, <1>2

-----------------------------------------------------------------------------
(* From a fine entry to a step of the system.                              *)

LEMMA FaultSpends ==
  ASSUME EntriesInv, NEW kind, Fault(kind)
  PROVE  Spending
BY HostedAssumption DEF Fault, EntriesInv, Tally, Spending

LEMMA NoFault ==
  ASSUME EntriesInv, UNCHANGED faults
  PROVE  Spending
BY DEF EntriesInv, Spending

LEMMA PutStep ==
  ASSUME EntriesInv, NEW t \in Terminals, NEW r, Fine(terminal[t], r),
         Put(t, r), Spending
  PROVE  Stepped(t)
BY DEF Stepped, Put, EntriesInv

LEMMA DoStep ==
  ASSUME EntriesInv, NEW t \in Terminals, NEW r, Fine(terminal[t], r), Do(t, r)
  PROVE  Stepped(t)
BY PutStep, NoFault DEF Do

LEMMA FaultyStep ==
  ASSUME EntriesInv, NEW t \in Terminals, NEW r, Fine(terminal[t], r),
         Put(t, r), NEW kind, Fault(kind)
  PROVE  Stepped(t)
BY PutStep, FaultSpends

LEMMA KeepRow ==
  ASSUME NEW s, Good(s), NEW r, Good(r), Same(s, r)
  PROVE  Fine(s, r)
BY FineAlready, FineThen

(* The steps of the host process.                                          *)
LEMMA HostMoves ==
  ASSUME EntriesInv, NEW t \in Terminals, HostStep(t)
  PROVE  Stepped(t)
<1> PICK s : s = terminal[t] OBVIOUS
<1>0. Good(s) BY DEF EntriesInv, Good
<1>1. CASE PublishRecord(t)
  <2> DEFINE r == [s EXCEPT !.host = "Serving", !.record = TRUE]
  <2>1. s.host = "Starting" /\ Do(t, r)
    BY <1>1 DEF PublishRecord
  <2>2. Same(s, r)
    BY <1>0, SameSelf, Setting
  <2>3. Good(r)
    BY <1>0, <2>1, <2>2 DEF Same, Good, Consistent, Entries
  <2> QED BY <1>0, <2>1, <2>2, <2>3, KeepRow, DoStep
<1>2. CASE OwnerTimeout(t)
  BY <1>2, <1>0, OpenedGood, KeepRow, DoStep DEF OwnerTimeout
<1>3. CASE PublishExit(t)
  <2> DEFINE r == [s EXCEPT !.host = "Published", !.sidecar = TRUE]
  <2>1. s.host = "Drained" /\ Do(t, r)
    BY <1>3 DEF PublishExit
  <2>2. Same(s, r)
    BY <1>0, SameSelf, Setting
  <2>3. Good(r)
    BY <1>0, <2>1, <2>2 DEF Same, Good, Consistent, Entries
  <2> QED BY <1>0, <2>1, <2>2, <2>3, KeepRow, DoStep
<1>4. CASE ReleaseLease(t)
  <2> DEFINE r == [s EXCEPT !.host = "Released"]
  <2>1. s.host = "Published" /\ Do(t, r)
    BY <1>4 DEF ReleaseLease
  <2>2. Same(s, r)
    BY <1>0, SameSelf, Setting
  <2>3. Good(r)
    BY <1>0, <2>1, <2>2 DEF Same, Good, Consistent, Entries
  <2> QED BY <1>0, <2>1, <2>2, <2>3, KeepRow, DoStep
<1>5. CASE RemoveRecord(t)
  <2> DEFINE r == [s EXCEPT !.host = "Gone", !.record = FALSE]
  <2>1. s.host = "Released" /\ Do(t, r)
    BY <1>5 DEF RemoveRecord
  <2>2. Same(s, r)
    BY <1>0, SameSelf, Setting
  <2>3. Good(r)
    BY <1>0, <2>1, <2>2 DEF Same, Good, Consistent, Entries
  <2> QED BY <1>0, <2>1, <2>2, <2>3, KeepRow, DoStep
<1> QED BY <1>1, <1>2, <1>3, <1>4, <1>5
     DEF HostStep

(* The steps of a spawn.                                                   *)
LEMMA SpawnMoves ==
  ASSUME EntriesInv, NEW t \in Terminals, SpawnStep(t)
  PROVE  Stepped(t)
<1> PICK s : s = terminal[t] OBVIOUS
<1>0. Good(s) BY DEF EntriesInv, Good
<1>1. CASE LaunchHost(t)
  <2> DEFINE r == [s EXCEPT !.host = "Starting", !.spawn = "launching"]
  <2>1. s.spawn = "reserved" /\ s.host = "None" /\ Do(t, r)
    BY <1>1 DEF LaunchHost
  <2>2. Same(s, r)
    BY <1>0, SameSelf, Setting
  <2>3. Good(r)
    BY <1>0, <2>1, <2>2 DEF Same, Good, Consistent, Entries
  <2> QED BY <1>0, <2>1, <2>2, <2>3, KeepRow, DoStep
<1>2. CASE LaunchFails(t)
  <2> DEFINE failed == [Latched(s, "launch-failed") EXCEPT !.spawn = "idle"]
  <2>1. s.row # "Absent"
    BY <1>2, <1>0 DEF LaunchFails, Good, Consistent
  <2> DEFINE q == Latched(s, "launch-failed")
  <2>5. Fine(s, q) /\ q.row # "Absent"
    BY <1>0, <2>1, LatchedFine DEF Absences
  <2>2. Fine(s, failed) /\ failed.row # "Absent"
    BY <2>5, SpawnAt DEF Same
  <2>3. Fine(s, KilledHost(failed))
    BY <2>2, KilledHostGood, FineThen DEF Fine
  <2>4. \/ Do(t, failed)
        \/ (Put(t, failed) \/ Put(t, KilledHost(failed))) /\ Fault("launch")
    BY <1>2 DEF LaunchFails
  <2> QED BY <2>2, <2>3, <2>4, DoStep, FaultyStep
<1>3. CASE ConnectLaunched(t)
  <2> DEFINE r == [s EXCEPT !.owner = TRUE, !.link = "connected", !.spawn = "connected"]
  <2>1. s.spawn = "launching" /\ Do(t, r)
    BY <1>3 DEF ConnectLaunched, Opened
  <2>2. Same(s, r)
    BY <1>0, SameSelf, Setting
  <2>3. Good(r)
    BY <1>0, <2>1, <2>2 DEF Same, Good, Consistent, Entries
  <2> QED BY <1>0, <2>1, <2>2, <2>3, KeepRow, DoStep
<1>4. CASE RolledBack(t)
  <2> DEFINE r == [s EXCEPT !.sidecar = FALSE, !.host = "Lost", !.spawn = "launching"]
  <2>1. s.spawn = "rollback" /\ Do(t, r)
    BY <1>4 DEF RolledBack
  <2>2. Same(s, r)
    BY <1>0, SameSelf, Setting
  <2>3. Good(r)
    BY <1>0, <2>1, <2>2 DEF Same, Good, Consistent, Entries
  <2> QED BY <1>0, <2>1, <2>2, <2>3, KeepRow, DoStep
<1>5. CASE CommitReady(t)
  <2>1. s.row # "Absent"
    BY <1>5, <1>0 DEF CommitReady, Good, Consistent
  <2>2. CASE s.row = "Launching"
    <3> DEFINE q == [s EXCEPT !.row = "Running"]
    <3>1. Fine(s, q) /\ q.row = "Running"
      BY <1>0, <2>2, SameSelf, LiveRow
    <3>2. Fine(s, [q EXCEPT !.spawn = "ready"])
      BY <3>1, SpawnAt
    <3> QED BY <1>5, <2>2, <3>2, DoStep DEF CommitReady
  <2>3. CASE s.row # "Launching"
    <3>1. Fine(s, Killed(s)) /\ Killed(s).row # "Absent"
      BY <1>0, <2>1, KilledGood, KeepRow DEF Same
    <3>2. Fine(s, [Killed(s) EXCEPT !.spawn = "idle"])
      BY <3>1, SpawnAt
    <3> QED BY <1>5, <2>3, <3>2, DoStep DEF CommitReady
  <2> QED BY <2>2, <2>3
<1>6. CASE InsertSurface(t)
  <2> DEFINE r == [s EXCEPT !.bound = TRUE, !.spawn = "inserted"]
  <2>1. s.spawn = "ready" /\ Do(t, r)
    BY <1>6 DEF InsertSurface
  <2>2. Same(s, r)
    BY <1>0, SameSelf, Setting
  <2>3. Good(r)
    BY <1>0, <2>1, <2>2 DEF Same, Good, Consistent, Entries
  <2> QED BY <1>0, <2>1, <2>2, <2>3, KeepRow, DoStep
<1>7. CASE ReapSpawned(t)
  <2>1. s.row # "Absent"
    BY <1>7, <1>0 DEF ReapSpawned, Good, Consistent
  <2>2. Fine(s, [Reaped(s) EXCEPT !.spawn = AfterReap(s)])
    BY <1>0, <2>1, ReapedFine, SpawnAt
  <2> QED BY <1>7, <2>2, DoStep DEF ReapSpawned
<1>8. CASE AckSpawned(t)
  <2>1. Final(s)
    BY <1>8, <1>0 DEF AckSpawned, Good, Consistent
  <2>2. Fine(s, Acknowledged(s)) /\ Acknowledged(s).row # "Absent"
    BY <1>0, <2>1, AcknowledgedGood, KeepRow DEF Same
  <2>3. Fine(s, [Acknowledged(s) EXCEPT !.spawn = "idle"])
    BY <2>2, SpawnAt
  <2> QED BY <1>8, <2>3, DoStep DEF AckSpawned
<1> QED BY <1>1, <1>2, <1>3, <1>4, <1>5, <1>6, <1>7, <1>8
     DEF SpawnStep

(* The steps of a surface's reader.                                        *)
LEMMA ReaderMoves ==
  ASSUME EntriesInv, NEW t \in Terminals, ReaderStep(t)
  PROVE  Stepped(t)
<1> PICK s : s = terminal[t] OBVIOUS
<1>0. Good(s) BY DEF EntriesInv, Good
<1>1. CASE ReadExit(t)
  <2> DEFINE r == [s EXCEPT !.link = "exited", !.seen = "exact"]
  <2>1. s.link = "connected" /\ Do(t, r)
    BY <1>1 DEF ReadExit
  <2>2. Same(s, r)
    BY <1>0, SameSelf, Setting
  <2>3. Good(r)
    BY <1>0, <2>1, <2>2 DEF Same, Good, Consistent, Entries
  <2> QED BY <1>0, <2>1, <2>2, <2>3, KeepRow, DoStep
<1>2. CASE LoseLink(t)
  <2>1. s.row # "Absent" /\ Spending
    BY <1>2, <1>0, FaultSpends, NoFault
    DEF LoseLink, Good, Consistent
  <2>2. CASE Known(s)
    <3> DEFINE q == [s EXCEPT !.row = "Adopting"]
    <3>1. Fine(s, q) /\ q.row = "Adopting"
      BY <1>0, <2>2, SameSelf, LiveRow DEF Known
    <3>2. Fine(s, [q EXCEPT !.link = "reconnecting"])
      BY <3>1, LinkAt
    <3> QED BY <1>2, <2>1, <2>2, <3>2, PutStep DEF LoseLink
  <2>3. CASE ~Known(s)
    <3>1. Fine(s, [s EXCEPT !.link = "stopped"])
      BY <1>0, <2>1, FineAlready, LinkAt
    <3> QED BY <1>2, <2>1, <2>3, <3>1, PutStep DEF LoseLink
  <2> QED BY <2>2, <2>3
<1>3. CASE ReadLoss(t)
  <2> PICK x \in {"exact", "no-sidecar"} :
           x = IF s.sidecar THEN "exact" ELSE "no-sidecar"
    OBVIOUS
  <2> DEFINE r == [s EXCEPT !.link = "exited", !.seen = x]
  <2>1. s.link = "reconnecting" /\ Dead(s) /\ Do(t, r)
    BY <1>3 DEF ReadLoss
  <2>2. Same(s, r)
    BY <1>0, SameSelf, Setting
  <2>3. Good(r)
    BY <1>0, <2>1, <2>2 DEF Same, Good, Consistent, Entries
  <2> QED BY <1>0, <2>1, <2>2, <2>3, KeepRow, DoStep
<1>4. CASE Reconnect(t)
  <2> DEFINE q == Opened(s)
  <2>1. s.row # "Absent"
    BY <1>4, <1>0 DEF Reconnect, Good, Consistent
  <2>2. Good(q) /\ Same(s, q)
    BY <1>0, OpenedGood
  <2> HIDE DEF q
  <2>3. CASE Known(s)
    <3> DEFINE p == [q EXCEPT !.row = "Running"]
    <3>1. Fine(s, p) /\ p.row = "Running"
      BY <1>0, <2>2, <2>3, LiveRow DEF Known
    <3>2. Fine(s, [p EXCEPT !.link = "connected"])
      BY <3>1, LinkAt
    <3> QED BY <1>4, <2>3, <3>2, DoStep DEF Reconnect, q
  <2>4. CASE ~Known(s)
    <3>1. Fine(s, [q EXCEPT !.link = "failed"])
      BY <1>0, <2>1, <2>2, KeepRow, LinkAt DEF Same
    <3> QED BY <1>4, <2>4, <3>1, DoStep DEF Reconnect, q
  <2> QED BY <2>3, <2>4
<1>5. CASE SurfaceExited(t)
  <2>1. s.row # "Absent" /\ s.link = "exited"
    BY <1>5, <1>0 DEF SurfaceExited, Good, Consistent
  <2>2. /\ Fine(s, Latched(s, s.seen)) /\ Final(Latched(s, s.seen))
        /\ Latched(s, s.seen).seen # "none" /\ s.seen # "none"
    BY <1>0, <2>1, SeenFine
  <2>3. Fine(s, [Latched(s, s.seen) EXCEPT !.link = "ack"])
    BY <2>2, LinkAt
  <2>4. Fine(s, [s EXCEPT !.link = "dead"])
    BY <1>0, <2>1, <2>2, FineAlready, LinkAt
  <2> QED BY <1>5, <2>3, <2>4, DoStep DEF SurfaceExited
<1>6. CASE AckRead(t)
  <2>1. Final(s) /\ s.seen # "none"
    BY <1>6, <1>0 DEF AckRead, Good, Consistent
  <2>2. /\ Fine(s, Acknowledged(s)) /\ Acknowledged(s).row # "Absent"
        /\ Acknowledged(s).seen # "none"
    BY <1>0, <2>1, AcknowledgedGood, KeepRow DEF Same
  <2>3. Fine(s, [Acknowledged(s) EXCEPT !.link = "dead"])
    BY <2>2, LinkAt
  <2> QED BY <1>6, <2>3, DoStep DEF AckRead
<1> QED BY <1>1, <1>2, <1>3, <1>4, <1>5, <1>6
     DEF ReaderStep

(* The steps of a close.                                                   *)
LEMMA CloseMoves ==
  ASSUME EntriesInv, NEW t \in Terminals, CloseStep(t)
  PROVE  Stepped(t)
<1> PICK s : s = terminal[t] OBVIOUS
<1>0. Good(s) BY DEF EntriesInv, Good
<1>1. CASE TakeRuntime(t)
  <2>1. s.row = "Tombstoned"
    BY <1>1, <1>0 DEF TakeRuntime, Good, Consistent
  <2>2. ASSUME NEW q, Good(q), Same(s, q), NEW place \in Closing
        PROVE  Fine(s, [[q EXCEPT !.bound = FALSE] EXCEPT !.close = place])
    <3>1. /\ Fine(s, [q EXCEPT !.bound = FALSE])
          /\ Same(q, [q EXCEPT !.bound = FALSE])
      BY <1>0, <2>1, <2>2, KeepRow, BoundAt DEF Same
    <3> QED BY <2>1, <2>2, <3>1, CloseAt DEF Same
  <2>3. /\ Fine(s, [[Killed(s) EXCEPT !.bound = FALSE] EXCEPT
                      !.close = "waiting"])
        /\ Fine(s, [[s EXCEPT !.bound = FALSE] EXCEPT !.close = "discover"])
    BY <1>0, <2>2, KilledGood, SameSelf
  <2> QED BY <1>1, <2>3, DoStep DEF TakeRuntime
<1>2. CASE CloseObserved(t)
  <2>1. Final(s)
    BY <1>2, <1>0 DEF CloseObserved, Good, Consistent
  <2>2. Fine(s, Acknowledged(s))
    BY <1>0, <2>1, AcknowledgedGood, KeepRow
  <2>3. Fine(s, [Acknowledged(s) EXCEPT !.close = "idle"])
    BY <2>2, CloseAt
  <2> QED BY <1>2, <2>3, DoStep DEF CloseObserved
<1>3. CASE CloseTimesOut(t)
  <2>1. s.row = "Tombstoned"
    BY <1>3, <1>0 DEF CloseTimesOut, Good, Consistent
  <2>2. Fine(s, Killed(s)) /\ Killed(s).row = "Tombstoned"
    BY <1>0, <2>1, KilledGood, KeepRow DEF Same
  <2>3. Fine(s, [Killed(s) EXCEPT !.close = "discover"])
    BY <2>2, CloseAt
  <2> QED BY <1>3, <2>3, DoStep DEF CloseTimesOut
<1>4. CASE Discover(t)
  <2>1. s.row = "Tombstoned"
    BY <1>4, <1>0 DEF Discover, Good, Consistent
  <2>2. Fine(s, Commanded(s)) /\ Commanded(s).row = "Tombstoned"
    BY <1>0, <2>1, CommandedGood, KeepRow DEF Same
  <2>3. Fine(s, [Commanded(s) EXCEPT !.close = "awaiting"])
    BY <2>2, CloseAt
  <2>4. Fine(s, [s EXCEPT !.sidecar = FALSE, !.close = "idle"])
    BY <1>0, <2>1, SidecarGone, CloseAt
  <2> QED BY <1>4, <2>3, <2>4, DoStep, FaultyStep DEF Discover
<1>5. CASE Discovered(t)
  <2>1. Final(s)
    BY <1>5, <1>0 DEF Discovered, Good, Consistent
  <2>2. Fine(s, [s EXCEPT !.sidecar = FALSE, !.close = "idle"])
    BY <1>0, <2>1, SidecarGone, CloseAt
  <2> QED BY <1>5, <2>2, DoStep DEF Discovered
<1> QED BY <1>1, <1>2, <1>3, <1>4, <1>5
     DEF CloseStep

(* The steps of a start and of the adoption it schedules.                  *)
LEMMA AdoptMoves ==
  ASSUME EntriesInv, NEW t \in Terminals, AdoptStep(t)
  PROVE  Stepped(t)
<1> PICK s : s = terminal[t] OBVIOUS
<1>0. Good(s) BY DEF EntriesInv, Good
<1>1. CASE ReconcileExit(t)
  <2>1. s.row # "Absent"
    BY <1>1, <1>0 DEF ReconcileExit, Good, Consistent
  <2>2. Fine(s, Latched(s, "exact")) /\ Final(Latched(s, "exact"))
    BY <1>0, <2>1, LatchedFine DEF Absences
  <2>3. Fine(s, [Latched(s, "exact") EXCEPT !.adopt = "ackExit"])
    BY <2>2, AdoptAt
  <2> QED BY <1>1, <2>3, DoStep DEF ReconcileExit
<1>2. CASE AckReconciled(t)
  <2>1. Final(s)
    BY <1>2, <1>0 DEF AckReconciled, Good, Consistent
  <2> PICK place \in {"cleanup", "idle"} :
           place = IF s.sawRecord THEN "cleanup" ELSE "idle"
    OBVIOUS
  <2>2. Fine(s, [s EXCEPT !.sidecar = FALSE, !.adopt = place])
    BY <1>0, <2>1, SidecarGone, AdoptAt DEF Same
  <2> QED BY <1>2, <2>2, DoStep DEF AckReconciled
<1>3. CASE AdoptRecord(t)
  <2>1. s.row # "Absent"
    BY <1>3, <1>0 DEF AdoptRecord, Good, Consistent
  <2>2. CASE Final(s)
    <3>1. Fine(s, Unbound(s)) /\ Final(Unbound(s))
      BY <1>0, <2>2, UnboundGood, KeepRow DEF Same
    <3>2. Fine(s, [Unbound(s) EXCEPT !.adopt = "cleanup"])
      BY <3>1, AdoptAt
    <3> QED BY <1>3, <2>2, <3>2, DoStep DEF AdoptRecord
  <2>3. CASE ~Final(s)
    <3> DEFINE q == [s EXCEPT !.row = "Adopting"]
    <3>1. Fine(s, q) /\ q.row = "Adopting"
      BY <1>0, <2>1, <2>3, SameSelf, LiveRow DEF Good, Entries
    <3>2. Fine(s, [q EXCEPT !.adopt = "probing"])
      BY <3>1, AdoptAt
    <3> QED BY <1>3, <2>3, <3>2, DoStep DEF AdoptRecord
  <2> QED BY <2>2, <2>3
<1>4. CASE MissingRecord(t)
  <2>1. s.row \in LiveRows => Fine(s, Marked(s, "missing-host-record"))
    BY <1>0, MarkedFine
  <2>2. Fine(s, [s EXCEPT !.adopt = "idle"])
    BY <1>0, FineAlready, AdoptAt
  <2> QED BY <1>4, <2>1, <2>2, DoStep DEF MissingRecord
<1>5. CASE BuryRecord(t)
  <2>1. s.row # "Absent" /\ Dead(s)
    BY <1>5, <1>0 DEF BuryRecord, Good, Consistent
  <2> DEFINE q == [s EXCEPT !.record = FALSE]
  <2>3. Fine(s, q) /\ q.row # "Absent" /\ Dead(q)
    BY <1>0, <2>1, RecordGone DEF Same, Good, Entries
  <2>2. Fine(s, [q EXCEPT !.adopt = "buried"])
    BY <2>3, AdoptAt
  <2> QED BY <1>5, <2>2, DoStep DEF BuryRecord
<1>6. CASE MarkBuried(t)
  <2>1. s.row # "Absent" /\ Dead(s)
    BY <1>6, <1>0 DEF MarkBuried, Good, Consistent
  <2> QED BY <1>6, <1>0, <2>1, MarkedFine, DoStep DEF MarkBuried
<1>7. CASE AdoptHost(t)
  <2> DEFINE r == [s EXCEPT !.owner = TRUE, !.link = "connected", !.seen = "none",
                       !.adopt = "held"]
  <2>1. s.adopt \in {"probing", "reprobing"} /\ Do(t, r)
    BY <1>7 DEF AdoptHost, Opened
  <2>2. Same(s, r)
    BY <1>0, SameSelf, Setting
  <2>3. Good(r)
    BY <1>0, <2>1, <2>2 DEF Same, Good, Consistent, Entries
  <2> QED BY <1>0, <2>1, <2>2, <2>3, KeepRow, DoStep
<1>8. CASE AdoptFails(t)
  <2>1. s.row # "Absent" /\ Spending
    BY <1>8, <1>0, FaultSpends, NoFault
    DEF AdoptFails, Good, Consistent
  <2>2. Fine(s, [s EXCEPT !.adopt = "retry"])
    BY <1>0, <2>1, FineAlready, AdoptAt
  <2> QED BY <1>8, <2>1, <2>2, PutStep DEF AdoptFails
<1>9. CASE InspectAdopted(t)
  <2> DEFINE died == "host-exited-during-adoption"
             q == Latched(s, died)
             r == Marked(q, died)
  <2>1. s.row # "Absent"
    BY <1>9, <1>0 DEF InspectAdopted, Good, Consistent
  <2>2. Fine(s, q) /\ Final(q)
    BY <1>0, <2>1, LatchedFine DEF Absences
  <2> HIDE DEF q
  <2>3. Fine(q, r) /\ Same(q, r)
    BY <2>2, MarkedFine DEF Fine
  <2> HIDE DEF r
  <2>4. Fine(s, r) /\ r.row # "Absent"
    BY <2>2, <2>3, FineThen DEF Fine, Same
  <2>5. Fine(s, [r EXCEPT !.link = "none"])
    BY <2>4, LinkAt
  <2>6. Fine(s, [s EXCEPT !.adopt = "checked"])
    BY <1>0, <2>1, FineAlready, AdoptAt
  <2> QED BY <1>9, <2>5, <2>6, DoStep DEF InspectAdopted, q, r
<1>10. CASE FinishAdoption(t)
  <2> DEFINE q == [s EXCEPT !.row = "Running"]
             p == [q EXCEPT !.bound = TRUE]
             m == Marked(s, "host-exited-during-adoption")
             l == [s EXCEPT !.link = "none"]
  <2>1. s.row # "Absent"
    BY <1>10, <1>0 DEF FinishAdoption, Good, Consistent
  <2>2. ASSUME s.row = "Adopting"
        PROVE  Fine(s, [p EXCEPT !.adopt = "reap"])
    <3>1. Fine(s, q) /\ q.row = "Running"
      BY <1>0, <2>2, SameSelf, LiveRow
    <3>2. Fine(s, p) /\ p.row = "Running"
      BY <3>1, BoundAt DEF Same
    <3> HIDE DEF p
    <3> QED BY <3>2, AdoptAt
  <2>3. Fine(s, [m EXCEPT !.link = "none"])
    BY <1>0, <2>1, MarkedFine, LinkAt
  <2>4. Fine(s, [l EXCEPT !.adopt = "retry"])
    <3>1. Fine(s, l) /\ l.row # "Absent"
      BY <1>0, <2>1, FineAlready, LinkAt DEF Same
    <3> HIDE DEF l
    <3> QED BY <3>1, AdoptAt
  <2> QED BY <1>10, <2>2, <2>3, <2>4, DoStep DEF FinishAdoption
<1>11. CASE ReapAdopted(t)
  <2>1. s.row # "Absent"
    BY <1>11, <1>0 DEF ReapAdopted, Good, Consistent
  <2>2. Fine(s, [Reaped(s) EXCEPT !.adopt = AfterReap(s)])
    BY <1>0, <2>1, ReapedFine, AdoptAt
  <2> QED BY <1>11, <2>2, DoStep DEF ReapAdopted
<1>12. CASE AckAdopted(t)
  <2>1. Final(s)
    BY <1>12, <1>0 DEF AckAdopted, Good, Consistent
  <2>2. Fine(s, Acknowledged(s))
    BY <1>0, <2>1, AcknowledgedGood, KeepRow
  <2>3. Fine(s, [Acknowledged(s) EXCEPT !.adopt = "idle"])
    BY <2>2, AdoptAt
  <2> QED BY <1>12, <2>3, DoStep DEF AckAdopted
<1>13. CASE AckMarked(t)
  <2>1. Final(s)
    BY <1>13, <1>0 DEF AckMarked, Good, Consistent
  <2>2. Fine(s, [s EXCEPT !.sidecar = FALSE, !.adopt = "stale"])
    BY <1>0, <2>1, SidecarGone, AdoptAt DEF Same
  <2> QED BY <1>13, <2>2, DoStep DEF AckMarked
<1>14. CASE RemoveStale(t)
  <2>1. Dead(s) => Fine(s, [s EXCEPT !.record = FALSE, !.adopt = "idle"])
    BY <1>0, RecordGone, AdoptAt
  <2>2. Fine(s, [s EXCEPT !.adopt = "idle"])
    BY <1>0, FineAlready, AdoptAt
  <2> QED BY <1>14, <2>1, <2>2, DoStep DEF RemoveStale
<1>15. CASE Cleanup(t)
  <2>1. Final(s) /\ Spending
    BY <1>15, <1>0, FaultSpends, NoFault
    DEF Cleanup, Do, Good, Consistent
  <2>2. Dead(s) => Fine(s, [s EXCEPT !.record = FALSE, !.adopt = "idle"])
    BY <1>0, RecordGone, AdoptAt
  <2>3. Fine(s, [Commanded(s) EXCEPT !.adopt = "ending"])
    BY <1>0, <2>1, CommandedGood, KeepRow, AdoptAt DEF Same
  <2>4. Fine(s, [s EXCEPT !.adopt = "retry"])
    BY <1>0, <2>1, FineAlready, AdoptAt
  <2> QED BY <1>15, <2>1, <2>2, <2>3, <2>4, DoStep, PutStep DEF Cleanup
<1>16. CASE EndingHost(t)
  <2>1. Final(s)
    BY <1>16, <1>0 DEF EndingHost, Good, Consistent
  <2>2. Fine(s, [s EXCEPT !.sidecar = FALSE, !.adopt = "idle"])
    BY <1>0, <2>1, SidecarGone, AdoptAt
  <2>3. Fine(s, [s EXCEPT !.adopt = "retry"])
    BY <1>0, <2>1, FineAlready, AdoptAt
  <2> QED BY <1>16, <2>2, <2>3, DoStep DEF EndingHost
<1>17. CASE RetryAdoption(t)
  <2>1. s.row # "Absent"
    BY <1>17, <1>0 DEF RetryAdoption, Good, Consistent
  <2>2. CASE Final(s)
    <3>1. Fine(s, Unbound(s)) /\ Final(Unbound(s))
      BY <1>0, <2>2, UnboundGood, KeepRow DEF Same
    <3>2. Fine(s, [Unbound(s) EXCEPT !.adopt = "cleanup"])
      BY <3>1, AdoptAt
    <3> QED BY <1>17, <2>2, <3>2, DoStep DEF RetryAdoption
  <2>3. CASE ~Final(s)
    <3> DEFINE q == [s EXCEPT !.row = "Adopting"]
    <3>1. Fine(s, q) /\ q.row = "Adopting"
      BY <1>0, <2>1, <2>3, SameSelf, LiveRow DEF Good, Entries
    <3>2. Fine(s, [q EXCEPT !.adopt = "reprobing"])
      BY <3>1, AdoptAt
    <3>3. Fine(s, [s EXCEPT !.adopt = "idle"])
      BY <1>0, FineAlready, AdoptAt
    <3> QED BY <1>17, <2>3, <3>2, <3>3, DoStep DEF RetryAdoption
  <2> QED BY <2>2, <2>3
<1>18. CASE MarkUnadopted(t)
  <2>1. s.row # "Absent" /\ Dead(s)
    BY <1>18, <1>0 DEF MarkUnadopted, Good, Consistent
  <2> QED BY <1>18, <1>0, <2>1, MarkedFine, DoStep DEF MarkUnadopted
<1> QED BY <1>1, <1>2, <1>3, <1>4, <1>5, <1>6, <1>7, <1>8, <1>9,
          <1>10, <1>11, <1>12, <1>13, <1>14, <1>15, <1>16, <1>17, <1>18
     DEF AdoptStep

(* The faults of one terminal.                                             *)
LEMMA FaultMoves ==
  ASSUME EntriesInv, NEW t \in Terminals, FaultStep(t)
  PROVE  Stepped(t)
<1> PICK s : s = terminal[t] OBVIOUS
<1>0. Good(s) BY DEF EntriesInv, Good
<1>1. CASE KillHost(t)
  <2>1. s.row # "Absent"
    BY <1>1, <1>0 DEF KillHost, Good, Consistent
  <2>2. Fine(s, KilledHost(s))
    BY <1>0, <2>1, KilledHostGood, KeepRow
  <2> QED BY <1>1, <2>2, FaultyStep DEF KillHost
<1>2. CASE RollBack(t)
  <2> DEFINE q == [Killed(s) EXCEPT !.link = "none"]
  <2>1. s.row # "Absent"
    BY <1>2, <1>0 DEF RollBack, Good, Consistent
  <2>2. Fine(s, Killed(s)) /\ Killed(s).row # "Absent"
    BY <1>0, <2>1, KilledGood, KeepRow DEF Same
  <2>3. Fine(s, q) /\ q.row # "Absent"
    BY <2>2, LinkAt DEF Same
  <2>4. Fine(s, [q EXCEPT !.spawn = "rollback"])
    BY <2>3, SpawnAt
  <2> QED BY <1>2, <2>4, FaultyStep DEF RollBack
<1>3. CASE CellPixelsFail(t)
  <2>1. s.row # "Absent"
    BY <1>3, <1>0 DEF CellPixelsFail, Good, Consistent
  <2>2. Fine(s, Killed(s)) /\ Killed(s).row # "Absent"
    BY <1>0, <2>1, KilledGood, KeepRow DEF Same
  <2>3. Fine(s, [Killed(s) EXCEPT !.spawn = "idle"])
    BY <2>2, SpawnAt
  <2> QED BY <1>3, <2>3, FaultyStep DEF CellPixelsFail
<1>4. CASE AttachmentFails(t)
  <2> DEFINE q == Latched(s, "surface-attach-failed")
  <2>1. s.row # "Absent"
    BY <1>4, <1>0 DEF AttachmentFails, Good, Consistent
  <2>2. Fine(s, q) /\ Final(q)
    BY <1>0, <2>1, LatchedFine DEF Absences
  <2> HIDE DEF q
  <2>3. Fine(s, Unbound(q)) /\ Unbound(q).row # "Absent"
    BY <2>2, UnboundGood, FineThen DEF Fine, Same
  <2>4. Fine(s, [Unbound(q) EXCEPT !.spawn = "idle"])
    BY <2>3, SpawnAt
  <2> QED BY <1>4, <2>4, FaultyStep DEF AttachmentFails, q
<1>5. CASE GiveUp(t)
  <2>1. s.row # "Absent"
    BY <1>5, <1>0 DEF GiveUp, Good, Consistent
  <2>2. Fine(s, [s EXCEPT !.link = "failed"])
    BY <1>0, <2>1, FineAlready, LinkAt
  <2> QED BY <1>5, <2>2, FaultyStep DEF GiveUp
<1> QED BY <1>1, <1>2, <1>3, <1>4, <1>5
     DEF FaultStep

(* What is asked of the daemon, and the shell's own end.                   *)
LEMMA RequestMoves ==
  ASSUME EntriesInv, NEW t \in Terminals,
         Reserve(t) \/ ShellExits(t) \/ CloseTerminal(t)
  PROVE  Stepped(t)
<1> PICK s : s = terminal[t] OBVIOUS
<1>0. Good(s) BY DEF EntriesInv, Good
<1>1. CASE Reserve(t)
  <2> DEFINE q == [s EXCEPT !.row = "Launching"]
  <2>1. s.row = "Absent"
    BY <1>1 DEF Reserve
  <2>2. q \in Entries /\ q.row = "Launching" /\ q.outcome = s.outcome
    BY <1>0 DEF Good, Entries
  <2>3. Good(q)
    BY <1>0, <2>1, <2>2 DEF Good, Consistent, Entries
  <2>4. Fine(s, q)
    BY <2>1, <2>2, <2>3 DEF Fine, Moved, Proven, Lifecycle!Allowed
  <2>5. Fine(s, [q EXCEPT !.spawn = "reserved"])
    BY <2>2, <2>4, SpawnAt
  <2> QED BY <1>1, <2>5, DoStep DEF Reserve
<1>2. CASE ShellExits(t)
  <2> DEFINE r == [s EXCEPT !.host = "Drained"]
  <2>1. s.host = "Serving" /\ Do(t, r)
    BY <1>2 DEF ShellExits
  <2>2. Same(s, r)
    BY <1>0, SameSelf, Setting
  <2>3. Good(r)
    BY <1>0, <2>1, <2>2 DEF Same, Good, Consistent, Entries
  <2> QED BY <1>0, <2>1, <2>2, <2>3, KeepRow, DoStep
<1>3. CASE CloseTerminal(t)
  <2> DEFINE q == [s EXCEPT !.row = "Tombstoned"]
  <2>1. s.row # "Absent"
    BY <1>3 DEF CloseTerminal
  <2>2. Fine(s, q) /\ q.row = "Tombstoned"
    BY <1>0, <2>1, ClosedRow
  <2>3. Fine(s, [q EXCEPT !.close = "closing"])
    BY <2>2, CloseAt
  <2> QED BY <1>3, <2>3, DoStep DEF CloseTerminal
<1> QED BY <1>1, <1>2, <1>3

-----------------------------------------------------------------------------
(* All terminals at once.                                                  *)
AllFine ==
  /\ terminal' \in [Terminals -> Entries]
  /\ \A t \in Terminals : Fine(terminal[t], terminal'[t])
  /\ daemon' \in {"down", "listing", "adopting", "up"}
  /\ Spending

LEMMA OneStepFine ==
  ASSUME EntriesInv, NEW t \in Terminals, Stepped(t)
  PROVE  AllFine
<1>1. terminal' \in [Terminals -> Entries]
  BY DEF Stepped, Fine, Good, EntriesInv
<1>2. ASSUME NEW u \in Terminals, u # t
      PROVE  Fine(terminal[u], terminal'[u])
  <2>1. terminal'[u] = terminal[u] /\ Good(terminal[u])
    BY <1>2 DEF Stepped, EntriesInv, Good
  <2> QED BY <2>1, FineAlready
<1> QED BY <1>1, <1>2 DEF Stepped, AllFine, EntriesInv

(* The daemon's own steps touch every entry, and only the part of it that  *)
(* belongs to the daemon.                                                  *)
LEMMA DaemonFine ==
  ASSUME EntriesInv, RestartStep \/ Crash
  PROVE  AllFine
<1>1. ASSUME NEW s, Good(s)
      PROVE  /\ Same(s, Forgotten(s)) /\ Good(Forgotten(s))
             /\ LET r == [s EXCEPT !.sawExit = s.sidecar]
                IN  Same(s, r) /\ Good(r)
             /\ LET r == [s EXCEPT !.sawRecord = s.record, !.adopt = "listed"]
                IN  Same(s, r) /\ Good(r)
  <2>1. Same(s, Forgotten(s))
    BY <1>1, SameSelf, Setting DEF Forgotten
  <2>2. Good(Forgotten(s))
    BY <1>1, <2>1 DEF Forgotten, Same, Good, Consistent, Entries
  <2> DEFINE x == [s EXCEPT !.sawExit = s.sidecar]
             l == [s EXCEPT !.sawRecord = s.record, !.adopt = "listed"]
  <2>3. s.sidecar \in BOOLEAN /\ s.record \in BOOLEAN
    BY <1>1 DEF Good, Entries
  <2>4. Same(s, x) /\ Same(s, l)
    BY <1>1, <2>3, SameSelf, Setting
  <2>5. Good(x)
    BY <1>1, <2>4 DEF Same, Good, Consistent, Entries
  <2>6. Good(l)
    BY <1>1, <2>4 DEF Same, Good, Consistent, Entries
  <2> QED BY <2>1, <2>2, <2>4, <2>5, <2>6
<1>2. \A t \in Terminals : Good(terminal[t])
  BY DEF EntriesInv, Good
<1>3. CASE Crash
  <2>1. \A t \in Terminals : Fine(terminal[t], terminal'[t])
    BY <1>1, <1>2, <1>3, KeepRow DEF Crash
  <2> QED BY <1>3, <2>1, FaultSpends
      DEF AllFine, Crash, EntriesInv, Fine, Good
<1>4. CASE LoadExitRecords
  <2>1. \A t \in Terminals : Fine(terminal[t], terminal'[t])
    BY <1>1, <1>2, <1>4, KeepRow DEF LoadExitRecords
  <2> QED BY <1>4, <2>1, NoFault DEF AllFine, LoadExitRecords, EntriesInv, Fine, Good
<1>5. CASE LoadHostRecords
  <2>1. \A t \in Terminals : Fine(terminal[t], terminal'[t])
    BY <1>1, <1>2, <1>5, KeepRow DEF LoadHostRecords
  <2> QED BY <1>5, <2>1, NoFault DEF AllFine, LoadHostRecords, EntriesInv, Fine, Good
<1>6. CASE StartupDone
  BY <1>2, <1>6, FineAlready, NoFault DEF AllFine, StartupDone, EntriesInv
<1> QED BY <1>3, <1>4, <1>5, <1>6 DEF RestartStep

LEMMA NextFine ==
  ASSUME EntriesInv, [Next]_vars
  PROVE  AllFine
<1>1. ASSUME NEW t \in Terminals,
             \/ HostStep(t) \/ SpawnStep(t) \/ ReaderStep(t)
             \/ CloseStep(t) \/ AdoptStep(t) \/ FaultStep(t)
             \/ Reserve(t) \/ ShellExits(t) \/ CloseTerminal(t)
      PROVE  Stepped(t)
  BY <1>1, HostMoves, SpawnMoves, ReaderMoves, CloseMoves, AdoptMoves,
     FaultMoves, RequestMoves
<1>2. CASE UNCHANGED vars
  BY <1>2, FineAlready, NoFault DEF vars, AllFine, EntriesInv, Good
<1> QED BY <1>1, <1>2, OneStepFine, DaemonFine DEF Next

LEMMA InitEntries == Init => EntriesInv
BY HostedAssumption DEF Init, EntriesInv, Tally, Blank, Consistent, Entries

LEMMA NextEntries == EntriesInv /\ [Next]_vars => EntriesInv'
BY NextFine DEF AllFine, Spending, Fine, Good, EntriesInv

-----------------------------------------------------------------------------
(* What each thread's place says about its row holds whatever the threads, *)
(* the hosts and the faults do.                                            *)
THEOREM EntriesInvariant == Spec => []EntriesInv
BY InitEntries, NextEntries, PTL DEF Spec

(* Every entry is one its parties can be in, and an exited row says how.   *)
THEOREM TypeCorrect == Spec => []TypeOK
<1>1. EntriesInv => TypeOK
  BY DEF EntriesInv, Consistent, TypeOK
<1> QED BY <1>1, EntriesInvariant, PTL

(* An exact status that reached the disk stays there while its row is      *)
(* live, and the row then has it, or is closed, or says one of four other  *)
(* things: that the terminal never came up, that a start missed its record *)
(* (NeverUp), or the guess of an adoption.  It is never taken for a death  *)
(* without a status.                                                       *)
THEOREM ExitStatusIsKept == Spec => []StatusIsKept
<1>1. EntriesInv => StatusIsKept
  <2> SUFFICES ASSUME EntriesInv, NEW t \in Terminals, Wrote(terminal[t])
               PROVE  LET s == terminal[t] IN
                      \/ s.sidecar /\ ~Final(s)
                      \/ s.row = "Tombstoned"
                      \/ /\ s.row = "Exited"
                         /\ s.outcome \in
                              {"exact", "host-exited-during-adoption"} \cup NeverUp
    BY DEF StatusIsKept
  <2>1. terminal[t] \in Entries /\ Consistent(terminal[t])
    BY DEF EntriesInv
  <2>2. terminal[t].outcome \in {"none"} \cup Outcomes
    BY <2>1 DEF Entries
  <2> QED
    BY <2>1, <2>2 DEF Consistent
<1> QED BY <1>1, EntriesInvariant, PTL

(* No path removes the discovery record of a host that may have a shell.   *)
THEOREM LiveHostsStayDiscoverable == Spec => []LiveHostIsDiscoverable
<1>1. EntriesInv => LiveHostIsDiscoverable
  BY DEF EntriesInv, Consistent, LiveHostIsDiscoverable
<1> QED BY <1>1, EntriesInvariant, PTL

(* The three reasons that rest on an absence (no record, a dead host, no   *)
(* sidecar) are only recorded when there is no exact status, although the  *)
(* files are read and the row is written in different steps.  The guess of *)
(* an adoption, which looks at no file, is not among them.                 *)
THEOREM GuessesRestOnAbsence == Spec => AbsenceIsChecked
<1>1. EntriesInv /\ [Next]_vars
        => [GuessesAre({"missing-host-record", "host-proven-dead",
                        "no-sidecar"})]_vars
  BY NextFine DEF AllFine, Fine, Proven, Absences, GuessesAre
<1> QED BY <1>1, EntriesInvariant, PTL DEF Spec, AbsenceIsChecked

(* All commits of all threads are transitions the registry accepts, and    *)
(* the first outcome stays.                                                *)
THEOREM HostedImplementsLifecycle == Spec => ImplementsLifecycle
<1>1. Init => Lifecycle!Init
  BY DEF Init, Blank, Lifecycle!Init
<1>2. EntriesInv /\ [Next]_vars
        => [Lifecycle!Next]_<<[t \in Terminals |-> terminal[t].row],
                              [t \in Terminals |-> terminal[t].outcome]>>
  <2> SUFFICES ASSUME EntriesInv, [Next]_vars PROVE Lifecycle!Next
    OBVIOUS
  <2>1. ASSUME NEW t \in Terminals
        PROVE  Lifecycle!Move(t) \/ Lifecycle!Keep(t)
    <3>1. Moved(terminal[t], terminal'[t])
      BY NextFine DEF AllFine, Fine
    <3> QED BY <3>1 DEF Moved, Lifecycle!Move, Lifecycle!Keep
  <2> QED BY <2>1 DEF Lifecycle!Next
<1> QED BY <1>1, <1>2, EntriesInvariant, PTL
    DEF Spec, ImplementsLifecycle, Lifecycle!Spec

-----------------------------------------------------------------------------
(* Live rows are tended.  Where a thread stands says what it has left of   *)
(* the row and of the runtime, as long as the cell size of a new host is   *)
(* acknowledged: when it is not, the spawn ends and leaves a Running row   *)
(* that nobody tends.                                                      *)
Early == {"reserved", "launching", "connected", "rollback"}
Places(s) ==
  /\ s.spawn \in Early => s.row = "Launching" \/ Final(s)
  /\ s.spawn # "idle" => s.adopt = "idle"
  /\ s.spawn = "inserted" => s.bound \/ Final(s)
  /\ s.adopt = "reap" => s.bound \/ Final(s)
  /\ s.adopt = "stale" => Final(s)
Tended(s) ==
  s.row \in LiveRows => s.bound \/ s.spawn # "idle" \/ s.adopt # "idle"

(* Threads outside a start of the daemon have left the listing behind, and *)
(* nothing is spawned during one.                                          *)
TendedInv ==
  /\ daemon # "up" => \A t \in Terminals : terminal[t].spawn = "idle"
  /\ daemon = "up" => \A t \in Terminals : terminal[t].adopt # "listed"
  /\ \A t \in Terminals : Places(terminal[t])
  /\ daemon \in {"adopting", "up"} => \A t \in Terminals : Tended(terminal[t])

Tends(s, r) ==
  /\ Places(r)
  /\ Tended(s) => Tended(r)
  /\ r.adopt = "listed" => s.adopt = "listed"
  /\ r.spawn # "idle" => s.spawn # "idle"

Alike(s, r) == /\ r \in Entries /\ r.row = s.row /\ r.spawn = s.spawn
               /\ r.adopt = s.adopt /\ r.bound = s.bound
Ending(s, r) == /\ r \in Entries /\ Final(r) /\ r.spawn = s.spawn
                /\ r.adopt = s.adopt

(* An entry with a field of no concern replaced, and one with a field that  *)
(* is.                                                                     *)
LEMMA Leaving ==
  ASSUME NEW s, NEW q, Alike(s, q)
  PROVE  /\ \A v \in Hosts : Alike(s, [q EXCEPT !.host = v])
         /\ \A v \in Closing : Alike(s, [q EXCEPT !.close = v])
         /\ \A v \in Links : Alike(s, [q EXCEPT !.link = v])
         /\ \A v \in BOOLEAN : Alike(s, [q EXCEPT !.record = v])
         /\ \A v \in BOOLEAN : Alike(s, [q EXCEPT !.sidecar = v])
         /\ \A v \in BOOLEAN : Alike(s, [q EXCEPT !.owner = v])
         /\ \A v \in BOOLEAN : Alike(s, [q EXCEPT !.told = v])
         /\ \A v \in {"none", "exact", "no-sidecar"} :
              Alike(s, [q EXCEPT !.seen = v])
<1>1. \A v \in Hosts : Alike(s, [q EXCEPT !.host = v])
  BY DEF Entries, Alike
<1>2. \A v \in Closing : Alike(s, [q EXCEPT !.close = v])
  BY DEF Entries, Alike
<1>3. \A v \in Links : Alike(s, [q EXCEPT !.link = v])
  BY DEF Entries, Alike
<1>4. \A v \in BOOLEAN : Alike(s, [q EXCEPT !.record = v])
  BY DEF Entries, Alike
<1>5. \A v \in BOOLEAN : Alike(s, [q EXCEPT !.sidecar = v])
  BY DEF Entries, Alike
<1>6. \A v \in BOOLEAN : Alike(s, [q EXCEPT !.owner = v])
  BY DEF Entries, Alike
<1>7. \A v \in BOOLEAN : Alike(s, [q EXCEPT !.told = v])
  BY DEF Entries, Alike
<1>8. \A v \in {"none", "exact", "no-sidecar"} : Alike(s, [q EXCEPT !.seen = v])
  BY DEF Entries, Alike
<1> QED BY <1>1, <1>2, <1>3, <1>4, <1>5, <1>6, <1>7, <1>8

Placed(r, row, spawn, adopt, bound) ==
  /\ r \in Entries /\ r.row = row /\ r.spawn = spawn
  /\ r.adopt = adopt /\ r.bound = bound

LEMMA Placing ==
  ASSUME NEW q, q \in Entries
  PROVE  /\ \A v \in LiveRows \cup FinalRows :
              LET r == [q EXCEPT !.row = v]
              IN  Placed(r, v, q.spawn, q.adopt, q.bound)
         /\ \A v \in Spawning :
              LET r == [q EXCEPT !.spawn = v]
              IN  Placed(r, q.row, v, q.adopt, q.bound)
         /\ \A v \in Adopting :
              LET r == [q EXCEPT !.adopt = v]
              IN  Placed(r, q.row, q.spawn, v, q.bound)
         /\ \A v \in BOOLEAN :
              LET r == [q EXCEPT !.bound = v]
              IN  Placed(r, q.row, q.spawn, q.adopt, v)
<1>1. \A v \in LiveRows \cup FinalRows :
        LET r == [q EXCEPT !.row = v]
        IN  Placed(r, v, q.spawn, q.adopt, q.bound)
  BY DEF Entries, Placed
<1>2. \A v \in Spawning :
        LET r == [q EXCEPT !.spawn = v]
        IN  Placed(r, q.row, v, q.adopt, q.bound)
  BY DEF Entries, Placed
<1>3. \A v \in Adopting :
        LET r == [q EXCEPT !.adopt = v]
        IN  Placed(r, q.row, q.spawn, v, q.bound)
  BY DEF Entries, Placed
<1>4. \A v \in BOOLEAN :
        LET r == [q EXCEPT !.bound = v]
        IN  Placed(r, q.row, q.spawn, q.adopt, v)
  BY DEF Entries, Placed
<1> QED BY <1>1, <1>2, <1>3, <1>4

LEMMA HelpersTend ==
  ASSUME NEW s, s \in Entries
  PROVE  /\ Alike(s, Opened(s)) /\ Alike(s, Commanded(s)) /\ Alike(s, Killed(s))
         /\ Alike(s, Acknowledged(s)) /\ Alike(s, KilledHost(s))
         /\ Unbound(s) \in Entries /\ Unbound(s).row = s.row
         /\ Unbound(s).spawn = s.spawn /\ Unbound(s).adopt = s.adopt
<1>0. Alike(s, s)
  BY DEF Alike
<1>1. Alike(s, Opened(s)) /\ Alike(s, Commanded(s))
  BY <1>0, Leaving DEF Opened, Commanded
<1>2. Alike(s, Killed(s))
  <2>1. Alike(s, [s EXCEPT !.told = TRUE])
    BY <1>0, Leaving
  <2> QED BY <1>0, <2>1 DEF Killed
<1>3. Alike(s, Acknowledged(s))
  <2>1. Alike(s, [s EXCEPT !.sidecar = FALSE])
    BY <1>0, Leaving
  <2> QED BY <1>0, <2>1 DEF Acknowledged
<1>4. Alike(s, KilledHost(s))
  <2> PICK v \in Hosts : v = IF Wrote(s) THEN "Gone" ELSE "Lost"
    OBVIOUS
  <2> QED BY <1>0, Leaving DEF KilledHost
<1>5. /\ Unbound(s) \in Entries /\ Unbound(s).row = s.row
      /\ Unbound(s).spawn = s.spawn /\ Unbound(s).adopt = s.adopt
  <2>1. PICK q : q = Killed(s)
    OBVIOUS
  <2>2. Placed([q EXCEPT !.bound = FALSE], q.row, q.spawn, q.adopt, FALSE)
    BY <1>2, <2>1, Placing DEF Alike
  <2> QED BY <1>0, <1>2, <2>1, <2>2 DEF Unbound, Alike, Placed
<1> QED BY <1>1, <1>2, <1>3, <1>4, <1>5

LEMMA LatchedEnds ==
  ASSUME NEW s, s \in Entries, NEW outcome \in Outcomes
  PROVE  Ending(s, Latched(s, outcome))
<1> DEFINE p == [s EXCEPT !.row = "Exited"]
           q == [s EXCEPT !.row = "Exited", !.outcome = outcome]
<1>1. q \in Entries /\ q.row = "Exited" /\ q.spawn = s.spawn /\ q.adopt = s.adopt
  <2>1. p \in Entries /\ p.row = "Exited" /\ p.spawn = s.spawn /\ p.adopt = s.adopt
    <3>1. Placed(p, "Exited", s.spawn, s.adopt, s.bound)
      <4>1. "Exited" \in LiveRows \cup FinalRows
        BY DEF FinalRows
      <4>2. \A v \in LiveRows \cup FinalRows :
              Placed([s EXCEPT !.row = v], v, s.spawn, s.adopt, s.bound)
        BY Placing
      <4> QED BY <4>1, <4>2
    <3> HIDE DEF p
    <3> QED BY <3>1 DEF Placed
  <2>2. q = [p EXCEPT !.outcome = outcome]
    OBVIOUS
  <2> HIDE DEF p, q
  <2>3. q \in Entries
    BY <2>1, <2>2 DEF Entries
  <2>4. q.row = p.row /\ q.spawn = p.spawn /\ q.adopt = p.adopt
    BY <2>1, <2>2 DEF Entries
  <2> QED BY <2>1, <2>3, <2>4
<1>2. /\ Unbound(q) \in Entries /\ Unbound(q).row = "Exited"
      /\ Unbound(q).spawn = s.spawn /\ Unbound(q).adopt = s.adopt
  BY <1>1, HelpersTend
<1> HIDE DEF q
<1>3. CASE s.row \in FinalRows
  BY <1>3, HelpersTend DEF Latched, Ending
<1>4. CASE s.row \notin FinalRows
  <2>1. Latched(s, outcome) = Unbound(q)
    BY <1>4 DEF Latched, q
  <2> QED BY <1>2, <2>1 DEF Ending
<1> QED BY <1>3, <1>4

LEMMA MarkedEnds ==
  ASSUME NEW s, s \in Entries, NEW reason \in Reasons
  PROVE  LET r == Marked(s, reason)
         IN /\ r \in Entries /\ Final(r) /\ r.spawn = s.spawn
            /\ r.adopt \in {"stale", "ackMark"}
<1>1. PICK p : p = Latched(s, "exact")
  OBVIOUS
<1>2. PICK q : q = Latched(s, reason)
  OBVIOUS
<1>3. Ending(s, p) /\ Ending(s, q)
  BY <1>1, <1>2, LatchedEnds
<1> QED BY <1>1, <1>2, <1>3 DEF Marked, Ending, Entries

LEMMA AlikeTends ==
  ASSUME NEW s, Places(s), NEW r, Alike(s, r)
  PROVE  Tends(s, r)
BY DEF Tends, Places, Tended, Alike

(* A thread of a final row that goes on or ends.                           *)
LEMMA FinalTends ==
  ASSUME NEW s, Places(s), NEW r, r \in Entries, Final(r),
         \/ r.spawn = s.spawn /\ r.adopt = s.adopt
         \/ r.spawn = s.spawn /\ s.adopt # "idle" /\ r.adopt # "listed"
         \/ s.spawn # "idle" /\ r.adopt = s.adopt
  PROVE  Tends(s, r)
BY DEF Tends, Places, Tended, Early

(* One step of one terminal, other than its reservation.                   *)
TendsOne(t) ==
  /\ terminal' = [terminal EXCEPT ![t] = terminal'[t]]
  /\ Tends(terminal[t], terminal'[t])
  /\ daemon' = daemon

LEMMA PutTends ==
  ASSUME EntriesInv, NEW t \in Terminals, NEW r, Tends(terminal[t], r), Put(t, r)
  PROVE  TendsOne(t)
BY DEF TendsOne, Put, EntriesInv

LEMMA DoTends ==
  ASSUME EntriesInv, NEW t \in Terminals, NEW r, Tends(terminal[t], r), Do(t, r)
  PROVE  TendsOne(t)
BY PutTends DEF Do

LEMMA HostTends ==
  ASSUME EntriesInv, NEW t \in Terminals, Places(terminal[t]),
         HostStep(t) \/ ShellExits(t) \/ KillHost(t)
  PROVE  TendsOne(t)
<1> PICK s : s = terminal[t] OBVIOUS
<1>0. s \in Entries BY DEF EntriesInv
<1>1. \A v \in Hosts, w \in BOOLEAN :
        /\ Alike(s, [s EXCEPT !.host = v])
        /\ Alike(s, [s EXCEPT !.host = v, !.record = w])
        /\ Alike(s, [s EXCEPT !.host = v, !.sidecar = w])
  <2> SUFFICES ASSUME NEW v \in Hosts, NEW w \in BOOLEAN
               PROVE  /\ Alike(s, [s EXCEPT !.host = v])
                      /\ Alike(s, [s EXCEPT !.host = v, !.record = w])
                      /\ Alike(s, [s EXCEPT !.host = v, !.sidecar = w])
    OBVIOUS
  <2>1. PICK q : q = [s EXCEPT !.host = v]
    OBVIOUS
  <2>2. Alike(s, s)
    BY <1>0 DEF Alike
  <2>3. Alike(s, q)
    BY <2>1, <2>2, Leaving
  <2>4. Alike(s, [q EXCEPT !.record = w]) /\ Alike(s, [q EXCEPT !.sidecar = w])
    BY <2>3, Leaving
  <2> QED BY <2>1, <2>3, <2>4
<1>2. /\ PublishRecord(t) => Do(t, [s EXCEPT !.host = "Serving", !.record = TRUE])
      /\ PublishExit(t) => Do(t, [s EXCEPT !.host = "Published", !.sidecar = TRUE])
      /\ RemoveRecord(t) => Do(t, [s EXCEPT !.host = "Gone", !.record = FALSE])
      /\ ReleaseLease(t) => Do(t, [s EXCEPT !.host = "Released"])
      /\ ShellExits(t) => Do(t, [s EXCEPT !.host = "Drained"])
      /\ OwnerTimeout(t) => Do(t, Opened(s))
      /\ KillHost(t) => Put(t, KilledHost(s))
  BY DEF PublishRecord, PublishExit, RemoveRecord, ReleaseLease, ShellExits,
         OwnerTimeout, KillHost
<1>3. \A r : Alike(s, r) => Tends(s, r)
  BY AlikeTends
<1> QED BY <1>0, <1>1, <1>2, <1>3, HelpersTend, DoTends, PutTends DEF HostStep

LEMMA SpawnTends ==
  ASSUME EntriesInv, NEW t \in Terminals, Places(terminal[t]),
         SpawnStep(t) \/ RollBack(t) \/ AttachmentFails(t)
  PROVE  TendsOne(t)
<1> PICK s : s = terminal[t] OBVIOUS
<1>0. s \in Entries /\ Good(s) /\ Places(s) BY DEF EntriesInv, Good
<1>1. CASE LaunchHost(t)
  <2> DEFINE r == [s EXCEPT !.host = "Starting", !.spawn = "launching"]
  <2>1. s.spawn = "reserved" /\ Do(t, r)
    BY <1>1 DEF LaunchHost
  <2>2. r.spawn = "launching" /\ r.row = s.row /\ r.adopt = s.adopt
        /\ r.bound = s.bound
    BY <1>0 DEF Entries
  <2>3. Tends(s, r)
    BY <1>0, <2>1, <2>2 DEF Tends, Places, Tended, Early
  <2> QED BY <2>1, <2>3, DoTends
<1>2. CASE LaunchFails(t)
  <2>1. PICK q : q = Latched(s, "launch-failed")
    OBVIOUS
  <2>2. PICK r : r = [q EXCEPT !.spawn = "idle"]
    OBVIOUS
  <2>3. Ending(s, q)
    BY <1>0, <2>1, LatchedEnds
  <2>4. r \in Entries /\ Final(r) /\ r.adopt = s.adopt /\ r.spawn = "idle"
    BY <2>2, <2>3 DEF Ending, Entries
  <2>5. Alike(r, KilledHost(r))
    BY <2>4, HelpersTend
  <2>6. s.spawn # "idle" /\ (Put(t, r) \/ Put(t, KilledHost(r)))
    BY <1>2, <2>1, <2>2 DEF LaunchFails, Do
  <2>7. Tends(s, r) /\ Tends(s, KilledHost(r))
    BY <1>0, <2>4, <2>5, <2>6, FinalTends DEF Alike
  <2> QED BY <2>6, <2>7, PutTends
<1>3. CASE ConnectLaunched(t)
  <2>1. PICK q : q = Opened(s)
    OBVIOUS
  <2> DEFINE r == [q EXCEPT !.link = "connected", !.spawn = "connected"]
  <2>2. s.spawn = "launching" /\ Do(t, r) /\ Alike(s, q)
    BY <1>0, <1>3, <2>1, HelpersTend DEF ConnectLaunched
  <2>3. r.spawn = "connected" /\ r.row = s.row /\ r.adopt = s.adopt
        /\ r.bound = s.bound
    BY <2>2 DEF Alike, Entries
  <2>4. Tends(s, r)
    BY <1>0, <2>2, <2>3 DEF Tends, Places, Tended, Early
  <2> QED BY <2>2, <2>4, DoTends
<1>4. CASE RollBack(t)
  <2>1. PICK q : q = Killed(s)
    OBVIOUS
  <2> DEFINE r == [q EXCEPT !.link = "none", !.spawn = "rollback"]
  <2>2. s.spawn = "connected" /\ Put(t, r) /\ Alike(s, q)
    BY <1>0, <1>4, <2>1, HelpersTend DEF RollBack
  <2>3. r.spawn = "rollback" /\ r.row = s.row /\ r.adopt = s.adopt
        /\ r.bound = s.bound
    BY <2>2 DEF Alike, Entries
  <2>4. Tends(s, r)
    BY <1>0, <2>2, <2>3 DEF Tends, Places, Tended, Early
  <2> QED BY <2>2, <2>4, PutTends
<1>5. CASE RolledBack(t)
  <2> DEFINE r == [s EXCEPT !.sidecar = FALSE, !.host = "Lost",
                            !.spawn = "launching"]
  <2>1. s.spawn = "rollback" /\ Do(t, r)
    BY <1>5 DEF RolledBack
  <2>2. r.spawn = "launching" /\ r.row = s.row /\ r.adopt = s.adopt
        /\ r.bound = s.bound
    BY <1>0 DEF Entries
  <2>3. Tends(s, r)
    BY <1>0, <2>1, <2>2 DEF Tends, Places, Tended, Early
  <2> QED BY <2>1, <2>3, DoTends
<1>6. CASE CommitReady(t)
  <2>1. PICK q : q = Killed(s)
    OBVIOUS
  <2>2. Alike(s, q) /\ s.spawn = "connected"
    BY <1>0, <1>6, <2>1, HelpersTend DEF CommitReady
  <2>3. CASE s.row = "Launching"
    <3> DEFINE r == [s EXCEPT !.row = "Running", !.spawn = "ready"]
    <3>1. r.spawn = "ready" /\ r.adopt = s.adopt
      BY <1>0 DEF Entries
    <3>2. Tends(s, r)
      BY <1>0, <2>2, <3>1 DEF Tends, Places, Tended, Early
    <3> QED BY <1>6, <2>3, <3>2, DoTends DEF CommitReady
  <2>4. CASE s.row # "Launching"
    <3> DEFINE r == [q EXCEPT !.spawn = "idle"]
    <3>1. r \in Entries /\ r.spawn = "idle" /\ r.adopt = s.adopt /\ r.row = s.row
      BY <2>2 DEF Alike, Entries
    <3>2. Final(s)
      BY <1>0, <2>2, <2>4 DEF Places, Early
    <3>3. Tends(s, r)
      BY <1>0, <2>2, <3>1, <3>2, FinalTends
    <3> QED BY <1>6, <2>1, <2>4, <3>3, DoTends DEF CommitReady
  <2> QED BY <2>3, <2>4
<1>7. CASE InsertSurface(t)
  <2> DEFINE r == [s EXCEPT !.bound = TRUE, !.spawn = "inserted"]
  <2>1. s.spawn = "ready" /\ Do(t, r)
    BY <1>7 DEF InsertSurface
  <2>2. r.spawn = "inserted" /\ r.row = s.row /\ r.adopt = s.adopt /\ r.bound
    BY <1>0 DEF Entries
  <2>3. Tends(s, r)
    BY <1>0, <2>1, <2>2 DEF Tends, Places, Tended, Early
  <2> QED BY <2>1, <2>3, DoTends
<1>8. CASE AttachmentFails(t)
  <2>1. PICK q : q = Latched(s, "surface-attach-failed")
    OBVIOUS
  <2>2. PICK u : u = Unbound(q)
    OBVIOUS
  <2> DEFINE r == [u EXCEPT !.spawn = "idle"]
  <2>3. Ending(s, q)
    BY <1>0, <2>1, LatchedEnds
  <2>4. u \in Entries /\ u.row = q.row /\ u.adopt = s.adopt
    BY <2>2, <2>3, HelpersTend DEF Ending
  <2>5. r \in Entries /\ Final(r) /\ r.adopt = s.adopt
    BY <2>3, <2>4 DEF Ending, Entries
  <2>6. s.spawn # "idle" /\ Put(t, r)
    BY <1>8, <2>1, <2>2 DEF AttachmentFails
  <2> QED BY <1>0, <2>5, <2>6, FinalTends, PutTends
<1>9. CASE ReapSpawned(t)
  <2>1. PICK q : q = Reaped(s)
    OBVIOUS
  <2>2. PICK place \in {"ack", "idle"} : place = AfterReap(s)
    BY DEF AfterReap
  <2> DEFINE r == [q EXCEPT !.spawn = place]
  <2>3. s.spawn = "inserted" /\ Do(t, r)
    BY <1>9, <2>1, <2>2 DEF ReapSpawned
  <2>4. CASE Ended(s)
    <3>1. Ending(s, q)
      <4>1. s.seen \in Outcomes /\ q = Latched(s, s.seen)
        BY <1>0, <2>1, <2>4 DEF Reaped, Good, Consistent, Entries
      <4> QED BY <1>0, <4>1, LatchedEnds
    <3>2. r \in Entries /\ Final(r) /\ r.adopt = s.adopt
      BY <3>1 DEF Ending, Entries
    <3> QED BY <1>0, <2>3, <3>2, FinalTends, DoTends
  <2>5. CASE ~Ended(s)
    <3>1. q = s /\ place = "idle"
      BY <2>1, <2>2, <2>5 DEF Reaped, AfterReap
    <3>2. r.spawn = "idle" /\ r.row = s.row /\ r.adopt = s.adopt
          /\ r.bound = s.bound
      BY <1>0, <3>1 DEF Entries
    <3>3. Tends(s, r)
      BY <1>0, <2>3, <3>2 DEF Tends, Places, Tended, Early
    <3> QED BY <2>3, <3>3, DoTends
  <2> QED BY <2>4, <2>5
<1>10. CASE AckSpawned(t)
  <2>1. PICK q : q = Acknowledged(s)
    OBVIOUS
  <2> DEFINE r == [q EXCEPT !.spawn = "idle"]
  <2>2. s.spawn = "ack" /\ Do(t, r) /\ Final(s) /\ Alike(s, q)
    BY <1>0, <1>10, <2>1, HelpersTend DEF AckSpawned, Good, Consistent
  <2>3. r \in Entries /\ Final(r) /\ r.adopt = s.adopt
    BY <2>2 DEF Alike, Entries
  <2> QED BY <1>0, <2>2, <2>3, FinalTends, DoTends
<1> QED BY <1>1, <1>2, <1>3, <1>4, <1>5, <1>6, <1>7, <1>8, <1>9, <1>10
        DEF SpawnStep

LEMMA ReaderTends ==
  ASSUME EntriesInv, NEW t \in Terminals, Places(terminal[t]),
         ReaderStep(t) \/ GiveUp(t)
  PROVE  TendsOne(t)
<1> PICK s : s = terminal[t] OBVIOUS
<1>0. s \in Entries /\ Good(s) /\ Places(s) BY DEF EntriesInv, Good
<1>1. \A v \in Links, w \in {"none", "exact", "no-sidecar"} : \A q :
        Alike(s, q) =>
          /\ Alike(s, [q EXCEPT !.link = v])
          /\ Alike(s, [q EXCEPT !.link = v, !.seen = w])
  BY Leaving
<1>2. \A v \in Links, w \in {"Running", "Adopting"} : \A q :
        Alike(s, q) /\ Known(s) => Tends(s, [q EXCEPT !.row = w, !.link = v])
  <2> SUFFICES ASSUME NEW v \in Links, NEW w \in {"Running", "Adopting"}, NEW q,
                      Alike(s, q), Known(s)
               PROVE  Tends(s, [q EXCEPT !.row = w, !.link = v])
    OBVIOUS
  <2> DEFINE r == [q EXCEPT !.row = w, !.link = v]
  <2>1. r.row = w /\ r.spawn = s.spawn /\ r.adopt = s.adopt /\ r.bound = s.bound
    BY DEF Alike, Entries
  <2> QED BY <1>0, <2>1 DEF Known, Tends, Places, Tended, Early
<1>3. \A r : Alike(s, r) => Tends(s, r)
  BY <1>0, AlikeTends
<1>4. Alike(s, s)
  BY <1>0 DEF Alike
<1>5. CASE ReadExit(t)
  BY <1>1, <1>3, <1>4, <1>5, DoTends DEF ReadExit
<1>6. CASE LoseLink(t)
  BY <1>1, <1>2, <1>3, <1>4, <1>6, PutTends DEF LoseLink
<1>7. CASE ReadLoss(t)
  <2> PICK w \in {"exact", "no-sidecar"} :
           w = IF s.sidecar THEN "exact" ELSE "no-sidecar"
    OBVIOUS
  <2> QED BY <1>1, <1>3, <1>4, <1>7, DoTends DEF ReadLoss
<1>8. CASE Reconnect(t)
  <2>1. PICK q : q = Opened(s)
    OBVIOUS
  <2>2. Alike(s, q)
    BY <1>0, <2>1, HelpersTend
  <2> QED BY <1>1, <1>2, <1>3, <1>8, <2>1, <2>2, DoTends DEF Reconnect
<1>9. CASE GiveUp(t)
  BY <1>1, <1>3, <1>4, <1>9, PutTends DEF GiveUp
<1>10. CASE SurfaceExited(t)
  <2>1. PICK q : q = Latched(s, s.seen)
    OBVIOUS
  <2> DEFINE r == [q EXCEPT !.link = "ack"]
  <2>2. s.seen \in Outcomes /\ s.link = "exited"
    BY <1>0, <1>10 DEF SurfaceExited, Good, Consistent, Entries
  <2>3. Ending(s, q)
    BY <1>0, <2>1, <2>2, LatchedEnds
  <2>4. r \in Entries /\ Final(r) /\ r.spawn = s.spawn /\ r.adopt = s.adopt
    BY <2>3 DEF Ending, Entries
  <2>5. Tends(s, r)
    BY <1>0, <2>4, FinalTends
  <2> QED BY <1>1, <1>3, <1>4, <1>10, <2>1, <2>5, DoTends DEF SurfaceExited
<1>11. CASE AckRead(t)
  <2>1. PICK q : q = Acknowledged(s)
    OBVIOUS
  <2>2. Alike(s, q)
    BY <1>0, <2>1, HelpersTend
  <2> QED BY <1>1, <1>3, <1>11, <2>1, <2>2, DoTends DEF AckRead
<1> QED BY <1>5, <1>6, <1>7, <1>8, <1>9, <1>10, <1>11 DEF ReaderStep

LEMMA CloseTends ==
  ASSUME EntriesInv, NEW t \in Terminals, Places(terminal[t]),
         CloseStep(t) \/ CloseTerminal(t)
  PROVE  TendsOne(t)
<1> PICK s : s = terminal[t] OBVIOUS
<1>0. s \in Entries /\ Good(s) /\ Places(s) BY DEF EntriesInv, Good
<1>1. PICK k : k = Killed(s) OBVIOUS
<1>2. PICK c : c = Commanded(s) OBVIOUS
<1>3. PICK a : a = Acknowledged(s) OBVIOUS
<1>4. Alike(s, k) /\ Alike(s, c) /\ Alike(s, a) /\ Alike(s, s)
  BY <1>0, <1>1, <1>2, <1>3, HelpersTend DEF Alike
<1>5. \A v \in Closing : \A q :
        Alike(s, q) => /\ Alike(s, [q EXCEPT !.close = v])
                       /\ Alike(s, [q EXCEPT !.sidecar = FALSE, !.close = v])
  BY Leaving
<1>6. \A r : Alike(s, r) => Tends(s, r)
  BY <1>0, AlikeTends
<1>7. CASE CloseTerminal(t)
  <2>1. PICK q : q = [s EXCEPT !.row = "Tombstoned"]
    OBVIOUS
  <2>2. Placed(q, "Tombstoned", s.spawn, s.adopt, s.bound)
    BY <1>0, <2>1, Placing
  <2>3. Alike(q, [q EXCEPT !.close = "closing"])
    BY <2>2, Leaving DEF Alike, Placed
  <2>4. Do(t, [q EXCEPT !.close = "closing"])
    BY <1>7, <2>1 DEF CloseTerminal
  <2> QED BY <1>0, <2>2, <2>3, <2>4, FinalTends, DoTends DEF Alike, Placed
<1>8. CASE TakeRuntime(t)
  <2>1. Final(s)
    BY <1>0, <1>8 DEF TakeRuntime, Good, Consistent
  <2>2. \A v \in Closing : \A q :
          Alike(s, q) =>
            LET r == [[q EXCEPT !.bound = FALSE] EXCEPT !.close = v]
            IN  /\ r \in Entries /\ r.row = s.row /\ r.spawn = s.spawn
                /\ r.adopt = s.adopt
    <3> SUFFICES ASSUME NEW q, NEW v \in Closing, Alike(s, q)
                 PROVE  LET r == [[q EXCEPT !.bound = FALSE] EXCEPT !.close = v]
                        IN  /\ r \in Entries /\ r.row = s.row
                            /\ r.spawn = s.spawn /\ r.adopt = s.adopt
      OBVIOUS
    <3>1. PICK p : p = [q EXCEPT !.bound = FALSE]
      OBVIOUS
    <3>2. Placed(p, q.row, q.spawn, q.adopt, FALSE)
      BY <3>1, Placing DEF Alike
    <3>3. Alike(p, [p EXCEPT !.close = v])
      BY <3>2, Leaving DEF Alike, Placed
    <3> QED BY <3>1, <3>2, <3>3 DEF Alike, Placed
  <2>3. \A v \in Closing : \A q :
          Alike(s, q) =>
            Tends(s, [[q EXCEPT !.bound = FALSE] EXCEPT !.close = v])
    <3> SUFFICES ASSUME NEW v \in Closing, NEW q, Alike(s, q)
                 PROVE  Tends(s, [[q EXCEPT !.bound = FALSE] EXCEPT !.close = v])
      OBVIOUS
    <3>1. PICK r : r = [[q EXCEPT !.bound = FALSE] EXCEPT !.close = v]
      OBVIOUS
    <3>2. /\ r \in Entries /\ r.row = s.row /\ r.spawn = s.spawn
          /\ r.adopt = s.adopt
      BY <2>2, <3>1
    <3>3. Tends(s, r)
      BY <1>0, <2>1, <3>2, FinalTends
    <3> QED BY <3>1, <3>3
  <2>4. \/ Do(t, [[k EXCEPT !.bound = FALSE] EXCEPT !.close = "waiting"])
        \/ Do(t, [[s EXCEPT !.bound = FALSE] EXCEPT !.close = "discover"])
    BY <1>1, <1>8 DEF TakeRuntime
  <2> QED BY <1>4, <2>3, <2>4, DoTends
<1>9. CASE CloseObserved(t)
  BY <1>3, <1>4, <1>5, <1>6, <1>9, DoTends DEF CloseObserved
<1>10. CASE CloseTimesOut(t)
  BY <1>1, <1>4, <1>5, <1>6, <1>10, DoTends DEF CloseTimesOut
<1>11. CASE Discover(t)
  <2>1. Tends(s, [s EXCEPT !.sidecar = FALSE, !.close = "idle"])
    BY <1>4, <1>5, <1>6
  <2>2. Tends(s, [c EXCEPT !.close = "awaiting"])
    BY <1>4, <1>5, <1>6
  <2> QED BY <1>2, <1>11, <2>1, <2>2, DoTends, PutTends DEF Discover
<1>12. CASE Discovered(t)
  BY <1>4, <1>5, <1>6, <1>12, DoTends DEF Discovered
<1> QED BY <1>7, <1>8, <1>9, <1>10, <1>11, <1>12 DEF CloseStep

(* An adoption that goes on, and one of a row that is final.               *)
LEMMA AdoptingTends ==
  ASSUME NEW s, Places(s), s.adopt # "idle",
         NEW r, r.spawn = s.spawn,
         \/ r.adopt \notin {"idle", "listed", "reap", "stale"}
         \/ Final(r) /\ r.adopt # "listed"
         \/ r.bound /\ r.adopt \in {"idle", "reap"}
         \/ r.row \notin LiveRows /\ r.adopt = "idle"
  PROVE  Tends(s, r)
BY DEF Tends, Places, Tended, Early

LEMMA AdoptTends ==
  ASSUME EntriesInv, NEW t \in Terminals, Places(terminal[t]), AdoptStep(t)
  PROVE  TendsOne(t)
<1> PICK s : s = terminal[t] OBVIOUS
<1>0. s \in Entries /\ Good(s) /\ Consistent(s) /\ Places(s)
  BY DEF EntriesInv, Good
<1>1. s.adopt # "idle"
  BY DEF AdoptStep, ReconcileExit, AckReconciled, AdoptRecord, MissingRecord,
         BuryRecord, MarkBuried, AdoptHost, AdoptFails, InspectAdopted,
         FinishAdoption, ReapAdopted, AckAdopted, AckMarked, RemoveStale,
         Cleanup, EndingHost, RetryAdoption, MarkUnadopted
<1>2. s.adopt \in {"ackExit", "cleanup", "ending", "ack", "ackMark", "stale"} =>
        Final(s)
  BY <1>0 DEF Consistent, Places
<1>3. Alike(s, s)
  BY <1>0 DEF Alike
(* What follows a place when only the thread moves.                        *)
<1>4. \A place \in Adopting : \A q :
        /\ q \in Entries /\ q.spawn = s.spawn
        /\ \/ place \notin {"idle", "listed", "reap", "stale"}
           \/ Final(q) /\ place # "listed"
           \/ q.bound /\ place \in {"idle", "reap"}
           \/ q.row \notin LiveRows /\ place = "idle"
        => Tends(s, [q EXCEPT !.adopt = place])
  <2> SUFFICES ASSUME NEW place \in Adopting, NEW q,
                      q \in Entries, q.spawn = s.spawn,
                      \/ place \notin {"idle", "listed", "reap", "stale"}
                      \/ Final(q) /\ place # "listed"
                      \/ q.bound /\ place \in {"idle", "reap"}
                      \/ q.row \notin LiveRows /\ place = "idle"
               PROVE  Tends(s, [q EXCEPT !.adopt = place])
    OBVIOUS
  <2>1. PICK r : r = [q EXCEPT !.adopt = place]
    OBVIOUS
  <2>2. Placed(r, q.row, q.spawn, place, q.bound)
    BY <2>1, Placing
  <2> QED BY <1>0, <1>1, <2>1, <2>2, AdoptingTends DEF Placed
<1>5. \A reason \in Reasons :
        /\ Marked(s, reason) \in Entries
        /\ Tends(s, Marked(s, reason))
  <2> SUFFICES ASSUME NEW reason \in Reasons
               PROVE  /\ Marked(s, reason) \in Entries
                      /\ Tends(s, Marked(s, reason))
    OBVIOUS
  <2>1. PICK r : r = Marked(s, reason)
    OBVIOUS
  <2>2. r \in Entries /\ Final(r) /\ r.spawn = s.spawn
        /\ r.adopt \in {"stale", "ackMark"}
    BY <1>0, <2>1, MarkedEnds
  <2> QED BY <1>0, <1>1, <2>1, <2>2, AdoptingTends
<1>6. CASE ReconcileExit(t)
  <2>1. PICK q : q = Latched(s, "exact")
    OBVIOUS
  <2>2. Ending(s, q)
    BY <1>0, <2>1, LatchedEnds
  <2> QED BY <1>4, <1>6, <2>1, <2>2, DoTends DEF ReconcileExit, Ending
<1>7. CASE AckReconciled(t)
  <2>1. PICK q : q = [s EXCEPT !.sidecar = FALSE]
    OBVIOUS
  <2>2. Alike(s, q)
    BY <1>3, <2>1, Leaving
  <2>3. PICK place \in {"cleanup", "idle"} :
             place = IF s.sawRecord THEN "cleanup" ELSE "idle"
    OBVIOUS
  <2>4. Do(t, [q EXCEPT !.adopt = place]) /\ s.adopt = "ackExit"
    BY <1>7, <2>1, <2>3 DEF AckReconciled
  <2> QED BY <1>2, <1>4, <2>2, <2>4, DoTends DEF Alike
<1>8. CASE AdoptRecord(t)
  <2>1. PICK q : q = Unbound(s)
    OBVIOUS
  <2>2. q \in Entries /\ q.spawn = s.spawn
    BY <1>0, <2>1, HelpersTend
  <2>3. PICK p : p = [s EXCEPT !.row = "Adopting"]
    OBVIOUS
  <2>4. Placed(p, "Adopting", s.spawn, s.adopt, s.bound)
    BY <1>0, <2>3, Placing
  <2>5. Tends(s, [q EXCEPT !.adopt = "cleanup"])
        /\ Tends(s, [p EXCEPT !.adopt = "probing"])
    BY <1>4, <2>2, <2>4 DEF Placed
  <2>6. Do(t, [q EXCEPT !.adopt = "cleanup"])
        \/ Do(t, [p EXCEPT !.adopt = "probing"])
    BY <1>8, <2>1, <2>3 DEF AdoptRecord
  <2> QED BY <2>5, <2>6, DoTends
<1>9. CASE MissingRecord(t)
  <2>1. CASE s.row \in LiveRows
    BY <1>5, <1>9, <2>1, DoTends DEF MissingRecord
  <2>2. CASE s.row \notin LiveRows
    BY <1>0, <1>4, <1>9, <2>2, DoTends DEF MissingRecord
  <2> QED BY <2>1, <2>2
<1>10. CASE BuryRecord(t)
  <2>1. PICK q : q = [s EXCEPT !.record = FALSE]
    OBVIOUS
  <2>2. Alike(s, q)
    BY <1>3, <2>1, Leaving
  <2>3. Do(t, [q EXCEPT !.adopt = "buried"])
    BY <1>10, <2>1 DEF BuryRecord
  <2> QED BY <1>4, <2>2, <2>3, DoTends DEF Alike
<1>11. CASE MarkBuried(t)
  BY <1>5, <1>11, DoTends DEF MarkBuried
<1>12. CASE AdoptHost(t)
  <2>1. PICK q : q = [Opened(s) EXCEPT !.link = "connected", !.seen = "none"]
    OBVIOUS
  <2>2. Alike(s, q)
    BY <1>0, <2>1, HelpersTend, Leaving
  <2>3. Do(t, [q EXCEPT !.adopt = "held"])
    BY <1>12, <2>1 DEF AdoptHost
  <2> QED BY <1>4, <2>2, <2>3, DoTends DEF Alike
<1>13. CASE AdoptFails(t)
  BY <1>0, <1>4, <1>13, PutTends DEF AdoptFails
<1>14. CASE InspectAdopted(t)
  <2>1. CASE Ended(s)
    <3>1. PICK q : q = Latched(s, "host-exited-during-adoption")
      OBVIOUS
    <3>2. PICK m : m = Marked(q, "host-exited-during-adoption")
      OBVIOUS
    <3>3. PICK r : r = [m EXCEPT !.link = "none"]
      OBVIOUS
    <3>4. Ending(s, q)
      BY <1>0, <3>1, LatchedEnds
    <3>5. m \in Entries /\ Final(m) /\ m.spawn = s.spawn
          /\ m.adopt \in {"stale", "ackMark"}
      BY <3>2, <3>4, MarkedEnds DEF Ending
    <3>6. Alike(m, r)
      BY <3>3, <3>5, Leaving DEF Alike
    <3>7. Tends(s, r)
      BY <1>0, <1>1, <3>5, <3>6, AdoptingTends DEF Alike
    <3> QED BY <1>14, <2>1, <3>1, <3>2, <3>3, <3>7, DoTends DEF InspectAdopted
  <2>2. CASE ~Ended(s)
    BY <1>0, <1>4, <1>14, <2>2, DoTends DEF InspectAdopted
  <2> QED BY <2>1, <2>2
<1>15. CASE FinishAdoption(t)
  <2>1. CASE s.row = "Adopting"
    <3>1. PICK q : q = [s EXCEPT !.row = "Running"]
      OBVIOUS
    <3>2. PICK p : p = [q EXCEPT !.bound = TRUE]
      OBVIOUS
    <3>3. Placed(q, "Running", s.spawn, s.adopt, s.bound)
      BY <1>0, <3>1, Placing
    <3>4. Placed(p, q.row, q.spawn, q.adopt, TRUE)
      <4>1. q \in Entries
        BY <3>3 DEF Placed
      <4>2. \A v \in BOOLEAN :
              LET r == [q EXCEPT !.bound = v]
              IN  Placed(r, q.row, q.spawn, q.adopt, v)
        BY <4>1, Placing
      <4> QED BY <3>2, <4>2
    <3>5. Do(t, [p EXCEPT !.adopt = "reap"])
      BY <1>15, <2>1, <3>1, <3>2 DEF FinishAdoption
    <3> QED BY <1>4, <3>3, <3>4, <3>5, DoTends DEF Placed
  <2>2. CASE s.row # "Adopting" /\ (Ended(s) \/ Dead(s))
    <3>1. PICK m : m = Marked(s, "host-exited-during-adoption")
      OBVIOUS
    <3>2. PICK r : r = [m EXCEPT !.link = "none"]
      OBVIOUS
    <3>3. m \in Entries /\ Final(m) /\ m.spawn = s.spawn
          /\ m.adopt \in {"stale", "ackMark"}
      BY <1>0, <3>1, MarkedEnds
    <3>4. Alike(m, r)
      BY <3>2, <3>3, Leaving DEF Alike
    <3>5. Tends(s, r)
      BY <1>0, <1>1, <3>3, <3>4, AdoptingTends DEF Alike
    <3> QED BY <1>15, <2>2, <3>1, <3>2, <3>5, DoTends DEF FinishAdoption
  <2>3. CASE s.row # "Adopting" /\ ~(Ended(s) \/ Dead(s))
    <3>1. PICK q : q = [s EXCEPT !.link = "none"]
      OBVIOUS
    <3>2. Alike(s, q)
      BY <1>3, <3>1, Leaving
    <3>3. Do(t, [q EXCEPT !.adopt = "retry"])
      BY <1>15, <2>3, <3>1 DEF FinishAdoption
    <3> QED BY <1>4, <3>2, <3>3, DoTends DEF Alike
  <2> QED BY <2>1, <2>2, <2>3
<1>16. CASE ReapAdopted(t)
  <2>1. s.adopt = "reap"
    BY <1>16 DEF ReapAdopted
  <2>2. CASE Ended(s)
    <3>1. PICK q : q = Latched(s, s.seen)
      OBVIOUS
    <3>2. s.seen \in Outcomes
      BY <1>0, <2>2 DEF Consistent, Entries
    <3>3. Ending(s, q)
      BY <1>0, <3>1, <3>2, LatchedEnds
    <3>4. Do(t, [q EXCEPT !.adopt = "ack"])
      BY <1>16, <2>2, <3>1 DEF ReapAdopted, Reaped, AfterReap
    <3> QED BY <1>4, <3>3, <3>4, DoTends DEF Ending
  <2>3. CASE ~Ended(s)
    <3>1. Do(t, [s EXCEPT !.adopt = "idle"])
      BY <1>16, <2>3 DEF ReapAdopted, Reaped, AfterReap
    <3>2. s.bound \/ Final(s)
      BY <1>0, <2>1 DEF Places
    <3> QED BY <1>0, <1>4, <3>1, <3>2, DoTends
  <2> QED BY <2>2, <2>3
<1>17. CASE AckAdopted(t)
  <2>1. PICK q : q = Acknowledged(s)
    OBVIOUS
  <2>2. Alike(s, q)
    BY <1>0, <2>1, HelpersTend
  <2>3. Do(t, [q EXCEPT !.adopt = "idle"]) /\ s.adopt = "ack"
    BY <1>17, <2>1 DEF AckAdopted
  <2> QED BY <1>2, <1>4, <2>2, <2>3, DoTends DEF Alike
<1>18. CASE AckMarked(t)
  <2>1. PICK q : q = [s EXCEPT !.sidecar = FALSE]
    OBVIOUS
  <2>2. Alike(s, q)
    BY <1>3, <2>1, Leaving
  <2>3. Do(t, [q EXCEPT !.adopt = "stale"]) /\ s.adopt = "ackMark"
    BY <1>18, <2>1 DEF AckMarked
  <2> QED BY <1>2, <1>4, <2>2, <2>3, DoTends DEF Alike
<1>19. CASE RemoveStale(t)
  <2>1. PICK q : q = [s EXCEPT !.record = FALSE]
    OBVIOUS
  <2>2. Alike(s, q)
    BY <1>3, <2>1, Leaving
  <2>3. /\ s.adopt = "stale"
        /\ Do(t, [q EXCEPT !.adopt = "idle"]) \/ Do(t, [s EXCEPT !.adopt = "idle"])
    BY <1>19, <2>1 DEF RemoveStale
  <2> QED BY <1>0, <1>2, <1>4, <2>2, <2>3, DoTends DEF Alike
<1>20. CASE Cleanup(t)
  <2>1. PICK q : q = [s EXCEPT !.record = FALSE]
    OBVIOUS
  <2>2. PICK c : c = Commanded(s)
    OBVIOUS
  <2>3. Alike(s, q) /\ Alike(s, c)
    BY <1>0, <1>3, <2>1, <2>2, Leaving, HelpersTend
  <2>4. /\ s.adopt = "cleanup"
        /\ \/ Do(t, [q EXCEPT !.adopt = "idle"])
           \/ Do(t, [c EXCEPT !.adopt = "ending"])
           \/ Put(t, [s EXCEPT !.adopt = "retry"])
    BY <1>20, <2>1, <2>2 DEF Cleanup
  <2> QED BY <1>0, <1>2, <1>4, <2>3, <2>4, DoTends, PutTends DEF Alike
<1>21. CASE EndingHost(t)
  <2>1. PICK q : q = [s EXCEPT !.sidecar = FALSE]
    OBVIOUS
  <2>2. Alike(s, q)
    BY <1>3, <2>1, Leaving
  <2>3. /\ s.adopt = "ending"
        /\ Do(t, [q EXCEPT !.adopt = "idle"]) \/ Do(t, [s EXCEPT !.adopt = "retry"])
    BY <1>21, <2>1 DEF EndingHost
  <2> QED BY <1>0, <1>2, <1>4, <2>2, <2>3, DoTends DEF Alike
<1>22. CASE RetryAdoption(t)
  <2>1. CASE Final(s)
    <3>1. PICK q : q = Unbound(s)
      OBVIOUS
    <3>2. q \in Entries /\ q.spawn = s.spawn
      BY <1>0, <3>1, HelpersTend
    <3> QED BY <1>4, <1>22, <2>1, <3>1, <3>2, DoTends DEF RetryAdoption
  <2>2. CASE ~Final(s) /\ s.row = "Running" /\ s.bound
    BY <1>0, <1>4, <1>22, <2>2, DoTends DEF RetryAdoption
  <2>3. CASE ~Final(s) /\ ~(s.row = "Running" /\ s.bound)
    <3>1. PICK q : q = [s EXCEPT !.row = "Adopting"]
      OBVIOUS
    <3>2. Placed(q, "Adopting", s.spawn, s.adopt, s.bound)
      BY <1>0, <3>1, Placing
    <3>3. Do(t, [q EXCEPT !.adopt = "reprobing"])
      BY <1>22, <2>3, <3>1 DEF RetryAdoption
    <3> QED BY <1>4, <3>2, <3>3, DoTends DEF Placed
  <2> QED BY <2>1, <2>2, <2>3
<1>23. CASE MarkUnadopted(t)
  BY <1>5, <1>23, DoTends DEF MarkUnadopted
<1> QED BY <1>6, <1>7, <1>8, <1>9, <1>10, <1>11, <1>12, <1>13, <1>14, <1>15,
           <1>16, <1>17, <1>18, <1>19, <1>20, <1>21, <1>22, <1>23
        DEF AdoptStep

LEMMA OneTends ==
  ASSUME EntriesInv, TendedInv, NEW t \in Terminals, TendsOne(t)
  PROVE  TendedInv'
<1>1. \A u \in Terminals : u # t => terminal'[u] = terminal[u]
  BY DEF TendsOne, EntriesInv
<1>2. \A u \in Terminals : /\ Places(terminal'[u])
                           /\ Tended(terminal[u]) => Tended(terminal'[u])
                           /\ terminal'[u].adopt = "listed" =>
                                terminal[u].adopt = "listed"
                           /\ terminal'[u].spawn # "idle" =>
                                terminal[u].spawn # "idle"
  <2> SUFFICES ASSUME NEW u \in Terminals
               PROVE  /\ Places(terminal'[u])
                      /\ Tended(terminal[u]) => Tended(terminal'[u])
                      /\ terminal'[u].adopt = "listed" =>
                           terminal[u].adopt = "listed"
                      /\ terminal'[u].spawn # "idle" =>
                           terminal[u].spawn # "idle"
    OBVIOUS
  <2>1. CASE u = t
    BY <2>1 DEF TendsOne, Tends
  <2>2. CASE u # t
    BY <1>1, <2>2 DEF TendedInv
  <2> QED BY <2>1, <2>2
<1> QED BY <1>2 DEF TendedInv, TendsOne

(* A reservation finds no thread at the terminal: the listing is over.     *)
LEMMA ReserveTends ==
  ASSUME EntriesInv, TendedInv, NEW t \in Terminals, Reserve(t)
  PROVE  TendedInv'
<1> PICK s : s = terminal[t] OBVIOUS
<1>1. s \in Entries /\ Consistent(s) /\ s.row = "Absent"
  BY DEF EntriesInv, Reserve
<1>2. PICK q : q = [s EXCEPT !.row = "Launching"]
  OBVIOUS
<1>3. PICK r : r = [q EXCEPT !.spawn = "reserved"]
  OBVIOUS
<1>4. Placed(q, "Launching", s.spawn, s.adopt, s.bound)
  BY <1>1, <1>2, Placing
<1>5. Placed(r, q.row, "reserved", q.adopt, q.bound)
  <2>1. q \in Entries
    BY <1>4 DEF Placed
  <2> QED BY <1>3, <2>1, Placing
<1>6. daemon = "up" /\ daemon' = daemon /\ terminal' = [terminal EXCEPT ![t] = r]
  BY <1>2, <1>3 DEF Reserve, Do, Put
<1>7. r.adopt = "idle"
  BY <1>1, <1>4, <1>5, <1>6 DEF Placed, Consistent, TendedInv
<1>8. Places(r) /\ Tended(r)
  BY <1>4, <1>5, <1>7 DEF Placed, Places, Tended, Early
<1>9. \A u \in Terminals : terminal'[u] = IF u = t THEN r ELSE terminal[u]
  BY <1>6 DEF EntriesInv
<1>10. \A u \in Terminals : /\ terminal'[u].adopt # "listed"
                            /\ Places(terminal'[u]) /\ Tended(terminal'[u])
  BY <1>6, <1>7, <1>8, <1>9 DEF TendedInv
<1> QED BY <1>6, <1>10 DEF TendedInv

(* A crash forgets all threads, and the listing that follows gives every   *)
(* row one before the daemon is up.                                        *)
LEMMA DaemonTends ==
  ASSUME EntriesInv, TendedInv, RestartStep \/ Crash
  PROVE  TendedInv'
<1>0. \A t \in Terminals : terminal[t] \in Entries /\ Places(terminal[t])
  BY DEF EntriesInv, TendedInv
<1>1. CASE Crash
  <2>1. ASSUME NEW t \in Terminals
        PROVE  Places(terminal'[t]) /\ terminal'[t].spawn = "idle"
    <3> PICK s : s = terminal[t] OBVIOUS
    <3>1. PICK p : p = [s EXCEPT !.spawn = "idle"]
      OBVIOUS
    <3>2. PICK q : q = [p EXCEPT !.adopt = "idle"]
      OBVIOUS
    <3>3. PICK b : b = [[q EXCEPT !.close = "idle"] EXCEPT !.bound = FALSE]
      OBVIOUS
    <3>4. PICK c : c = [[[b EXCEPT !.link = "none"] EXCEPT !.seen = "none"]
                           EXCEPT !.sawExit = FALSE]
      OBVIOUS
    <3>5. terminal'[t] = [c EXCEPT !.sawRecord = FALSE]
      BY <1>1, <3>1, <3>2, <3>3, <3>4 DEF Crash, Forgotten
    <3>6. Placed(p, s.row, "idle", s.adopt, s.bound)
      BY <1>0, <3>1, Placing
    <3>7. p \in Entries
      BY <3>6 DEF Placed
    <3>8. Placed(q, p.row, p.spawn, "idle", p.bound)
      BY <3>2, <3>7, Placing
    <3>9. q \in Entries /\ q.spawn = "idle" /\ q.adopt = "idle"
      BY <3>6, <3>8 DEF Placed
    <3>10. terminal'[t].spawn = "idle" /\ terminal'[t].adopt = "idle"
      BY <3>3, <3>4, <3>5, <3>9 DEF Entries
    <3> QED BY <3>10 DEF Places, Early
  <2> QED BY <1>1, <2>1 DEF Crash, TendedInv
<1>2. CASE LoadExitRecords
  <2>1. ASSUME NEW t \in Terminals
        PROVE  Places(terminal'[t]) /\ terminal'[t].spawn = terminal[t].spawn
    <3> PICK s : s = terminal[t] OBVIOUS
    <3>1. PICK r : r = [s EXCEPT !.sawExit = s.sidecar]
      OBVIOUS
    <3>2. r.row = s.row /\ r.spawn = s.spawn /\ r.adopt = s.adopt
          /\ r.bound = s.bound
      BY <1>0, <3>1 DEF Entries
    <3>3. terminal'[t] = r
      BY <1>2, <3>1 DEF LoadExitRecords
    <3> QED BY <1>0, <3>2, <3>3 DEF Places
  <2> QED BY <1>2, <2>1 DEF LoadExitRecords, TendedInv
<1>3. CASE LoadHostRecords
  <2>1. ASSUME NEW t \in Terminals
        PROVE  /\ Places(terminal'[t]) /\ Tended(terminal'[t])
               /\ terminal'[t].spawn = "idle"
    <3> PICK s : s = terminal[t] OBVIOUS
    <3>1. PICK r : r = [s EXCEPT !.sawRecord = s.record, !.adopt = "listed"]
      OBVIOUS
    <3>2. r.spawn = s.spawn /\ r.adopt = "listed"
      BY <1>0, <3>1 DEF Entries
    <3>3. terminal'[t] = r /\ s.spawn = "idle"
      BY <1>3, <3>1 DEF LoadHostRecords, TendedInv
    <3> QED BY <3>2, <3>3 DEF Places, Tended, Early
  <2> QED BY <1>3, <2>1 DEF LoadHostRecords, TendedInv
<1>4. CASE StartupDone
  BY <1>4 DEF StartupDone, TendedInv
<1> QED BY <1>1, <1>2, <1>3, <1>4 DEF RestartStep

LEMMA NextTended ==
  ASSUME "pixels" \notin faults'.kinds, EntriesInv, TendedInv, [Next]_vars
  PROVE  TendedInv'
<1>1. ASSUME NEW t \in Terminals,
             \/ HostStep(t) \/ SpawnStep(t) \/ ReaderStep(t)
             \/ CloseStep(t) \/ AdoptStep(t) \/ FaultStep(t)
             \/ ShellExits(t) \/ CloseTerminal(t)
      PROVE  TendedInv'
  <2>1. Places(terminal[t])
    BY DEF TendedInv
  <2>2. ~CellPixelsFail(t)
    BY DEF CellPixelsFail, Fault, Tally, EntriesInv
  <2>3. TendsOne(t)
    BY <1>1, <2>1, <2>2, HostTends, SpawnTends, ReaderTends, CloseTends,
       AdoptTends DEF FaultStep
  <2> QED BY <2>3, OneTends
<1>2. CASE UNCHANGED vars
  BY <1>2 DEF vars, TendedInv
<1> QED BY <1>1, <1>2, ReserveTends, DaemonTends DEF Next

LEMMA InitTended == Init => TendedInv
BY DEF Init, Blank, TendedInv, Places, Tended, Early

(* Nothing live is forgotten: while the daemon is up, every Running or     *)
(* Adopting row has its runtime or a thread at work on it, across crashes  *)
(* and restarts, as long as the hosts have acknowledged their cell size.   *)
Unfailed == "pixels" \notin faults.kinds
THEOREM LiveRowsAreTended == Spec => []LiveRowIsTended
<1> DEFINE I == Unfailed => TendedInv
<1>1. EntriesInv /\ I /\ [Next]_vars => I'
  <2> SUFFICES ASSUME EntriesInv, I, [Next]_vars, Unfailed'
               PROVE  TendedInv'
    OBVIOUS
  <2>1. Unfailed
    BY NextFine DEF AllFine, Spending, Unfailed
  <2> QED BY <2>1, NextTended DEF Unfailed
<1>2. I => LiveRowIsTended
  BY DEF TendedInv, Tended, LiveRowIsTended, Unfailed
<1>3. Init => I
  BY InitTended
<1> HIDE DEF I
<1> QED BY <1>1, <1>2, <1>3, EntriesInvariant, PTL DEF Spec

=============================================================================
