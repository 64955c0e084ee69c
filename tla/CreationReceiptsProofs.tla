----------------------- MODULE CreationReceiptsProofs -----------------------
(***************************************************************************)
(* What holds of CreationReceipts for any number of creations, attempts,   *)
(* closes, failing writes, unreachable hosts and starts of the daemon: a   *)
(* command is run once, a living host has a tab or is one the last start   *)
(* has missed or not reached, and a creation that is reported as not       *)
(* applied has left nothing.                                               *)
(***************************************************************************)
EXTENDS CreationReceipts, TLAPS

(* The types of the variables.                                             *)
Receipts == [state : {"absent", "prepared", "executing", "created",
                      "not_applied", "indeterminate"},
             n : 0..MaxAttempts, gen : Nat]
Effects == {"absent", "pending", "executing", "success", "failure",
            "indeterminate"}
Rows == {"Absent"} \cup Living \cup Final
Places == [workspace : {"absent", "staged", "open", "closed", "stranded"},
           published : BOOLEAN]
Hosts == [process : {"none", "alive", "dead"}, record : BOOLEAN, runs : Nat,
          missed : BOOLEAN]
Lives == [runtime : BOOLEAN, tab : BOOLEAN, sought : BOOLEAN]
Daemons == [status : {"up", "down", "starting"}, gen : Nat]
Steps == {"prepared", "workspace", "reserve", "launch", "ready", "insert",
          "attach", "commit", "failed", "settle"}
Keys == [c : Creations, n : Attempts]
Verdicts == {"none", "ambiguous", "not_applied", "created", "pending",
             "ambiguous_live", "closed", "lost"}
Runs == [at : Steps, by : Keys, evidence : Verdicts]

ReceiptsTyped ==
  /\ receipt \in [Creations -> Receipts]
  /\ effect \in [Creations -> [Attempts -> Effects]]
  /\ \A c \in Creations :
       receipt[c].state # "absent" => receipt[c].n \in Attempts
RowsTyped == row \in [Creations -> Rows]
PlacesTyped == place \in [Creations -> Places]
HostsTyped == host \in [Creations -> Hosts]
LivesTyped == live \in [Creations -> Lives]
ExecTyped == exec = Idle \/ exec \in Runs
OthersTyped ==
  /\ daemon \in Daemons /\ closer \in Creations \cup {"none"}
SpentTyped == spent \in [closes : Nat, failures : Nat, left : SUBSET Creations]
Typed ==
  /\ ReceiptsTyped /\ RowsTyped /\ PlacesTyped /\ HostsTyped /\ LivesTyped
  /\ ExecTyped /\ OthersTyped /\ SpentTyped

-----------------------------------------------------------------------------
(* What the pieces of an action leave behind.                              *)
LEMMA TypedIsTypeOK == Typed => TypeOK
BY DEF Typed, TypeOK, ReceiptsTyped, RowsTyped, PlacesTyped, HostsTyped,
       LivesTyped, OthersTyped, Receipts, Effects, Rows, Places, Hosts, Lives,
       Daemons

LEMMA Runner ==
  ASSUME Typed, exec.at # "idle"
  PROVE  /\ exec \in Runs /\ exec.at \in Steps
         /\ exec.by.c \in Creations /\ exec.by.n \in Attempts
BY DEF Typed, ExecTyped, Idle, Runs, Keys

LEMMA StaysTyped ==
  ASSUME Typed
  PROVE  /\ UNCHANGED <<receipt, effect>> => ReceiptsTyped'
         /\ UNCHANGED row => RowsTyped'
         /\ UNCHANGED place => PlacesTyped'
         /\ UNCHANGED host => HostsTyped'
         /\ UNCHANGED live => LivesTyped'
         /\ UNCHANGED <<daemon, closer>> => OthersTyped'
         /\ UNCHANGED spent => SpentTyped'
         /\ UNCHANGED exec => ExecTyped'
         /\ exec' = Idle \/ exec' \in Runs => ExecTyped'
BY DEF Typed, ReceiptsTyped, RowsTyped, PlacesTyped, HostsTyped, LivesTyped,
       OthersTyped, SpentTyped, ExecTyped, Idle, Runs

LEMMA SettledKeeps ==
  ASSUME ReceiptsTyped, NEW c \in Creations, receipt[c].state # "absent",
         NEW state \in {"created", "not_applied", "indeterminate"},
         NEW outcome \in Effects,
         Settled(c, state, outcome)
  PROVE  /\ ReceiptsTyped' /\ receipt'[c].state = state
         /\ \A k \in Creations \ {c} : receipt'[k] = receipt[k]
<1>1. /\ receipt' = [receipt EXCEPT ![c].state = state, ![c].gen = 0]
      /\ effect' = [effect EXCEPT ![c][receipt[c].n] = outcome]
  BY DEF Settled
<1>2. /\ receipt \in [Creations -> Receipts] /\ receipt[c].n \in Attempts
      /\ effect \in [Creations -> [Attempts -> Effects]]
  BY DEF ReceiptsTyped
<1>3. effect' \in [Creations -> [Attempts -> Effects]]
  BY <1>1, <1>2
<1>4. /\ receipt'[c] = [receipt[c] EXCEPT !.state = state, !.gen = 0]
      /\ \A k \in Creations \ {c} : receipt'[k] = receipt[k]
      /\ DOMAIN receipt' = Creations
  BY <1>1, <1>2
<1>5. /\ receipt'[c] \in Receipts /\ receipt'[c].state = state
      /\ receipt'[c].n = receipt[c].n
  <2>1. receipt[c] \in Receipts /\ 0 \in Nat
    BY <1>2
  <2> QED
    BY <1>4, <2>1 DEF Receipts
<1>6. receipt' \in [Creations -> Receipts]
  BY <1>1, <1>2, <1>5
<1> QED
  BY <1>2, <1>3, <1>4, <1>5, <1>6 DEF ReceiptsTyped

LEMMA PreparedKeeps ==
  ASSUME Typed, NEW c \in Creations, NEW n \in Attempts, Prepared(c, n)
  PROVE  /\ ReceiptsTyped' /\ receipt'[c].state = "prepared"
         /\ \A k \in Creations \ {c} : receipt'[k] = receipt[k]
<1>1. /\ receipt \in [Creations -> Receipts]
      /\ effect \in [Creations -> [Attempts -> Effects]]
      /\ n \in 0..MaxAttempts
  BY CreationAssumption DEF Typed, ReceiptsTyped, Attempts
<1>2. /\ receipt' = [receipt EXCEPT ![c] = [state |-> "prepared", n |-> n, gen |-> 0]]
      /\ effect' = [effect EXCEPT ![c][n] = "pending"]
  BY DEF Prepared
<1>3. effect' \in [Creations -> [Attempts -> Effects]]
  BY <1>1, <1>2 DEF Effects
<1>4. [state |-> "prepared", n |-> n, gen |-> 0] \in Receipts
  BY <1>1 DEF Receipts
<1>5. /\ receipt'[c] = [state |-> "prepared", n |-> n, gen |-> 0]
      /\ \A k \in Creations \ {c} : receipt'[k] = receipt[k]
      /\ receipt' \in [Creations -> Receipts]
  BY <1>1, <1>2, <1>4
<1>6. \A k \in Creations :
        receipt'[k].state # "absent" => receipt'[k].n \in Attempts
  BY <1>5 DEF Typed, ReceiptsTyped
<1> QED
  BY <1>3, <1>5, <1>6 DEF ReceiptsTyped

LEMMA MarkedKeeps ==
  ASSUME Typed, NEW c \in Creations, NEW n \in Attempts,
         Executing(c, n), receipt[c].state # "absent"
  PROVE  /\ ReceiptsTyped' /\ receipt'[c].state = "executing"
         /\ \A k \in Creations \ {c} : receipt'[k] = receipt[k]
<1>1. /\ receipt \in [Creations -> Receipts]
      /\ effect \in [Creations -> [Attempts -> Effects]]
      /\ daemon.gen \in Nat /\ receipt[c].n \in Attempts
  BY DEF Typed, ReceiptsTyped, OthersTyped, Daemons
<1>2. /\ receipt' = [receipt EXCEPT ![c].state = "executing", ![c].gen = daemon.gen]
      /\ effect' = [effect EXCEPT ![c][n] = "executing"]
  BY DEF Executing
<1>3. effect' \in [Creations -> [Attempts -> Effects]]
  BY <1>1, <1>2 DEF Effects
<1>4. /\ receipt'[c] = [receipt[c] EXCEPT !.state = "executing", !.gen = daemon.gen]
      /\ \A k \in Creations \ {c} : receipt'[k] = receipt[k]
      /\ DOMAIN receipt' = Creations
  BY <1>1, <1>2
<1>5. /\ receipt'[c] \in Receipts /\ receipt'[c].state = "executing"
      /\ receipt'[c].n = receipt[c].n
  <2>1. receipt[c] \in Receipts
    BY <1>1
  <2> QED
    BY <1>1, <1>4, <2>1 DEF Receipts
<1>6. receipt' \in [Creations -> Receipts]
  BY <1>1, <1>2, <1>5
<1>7. \A k \in Creations :
        receipt'[k].state # "absent" => receipt'[k].n \in Attempts
  BY <1>1, <1>4, <1>5 DEF Typed, ReceiptsTyped
<1> QED
  BY <1>3, <1>4, <1>5, <1>6, <1>7 DEF ReceiptsTyped

LEMMA ExitKeeps ==
  ASSUME Typed, NEW c \in Creations, ExitPersisted(c)
  PROVE  /\ RowsTyped' /\ PlacesTyped'
         /\ row'[c] \in Final /\ place'[c].workspace = place[c].workspace
         /\ \A k \in Creations \ {c} : row'[k] = row[k] /\ place'[k] = place[k]
BY DEF Typed, RowsTyped, PlacesTyped, ExitPersisted, Rows, Places, Final

LEMMA DetachedKeeps ==
  ASSUME Typed, NEW c \in Creations, Detached(c)
  PROVE  /\ LivesTyped' /\ ~live'[c].runtime /\ live'[c].sought = live[c].sought
         /\ \A k \in Creations \ {c} : live'[k] = live[k]
BY DEF Typed, LivesTyped, Detached, Lives

LEMMA KilledKeeps ==
  ASSUME Typed, NEW c \in Creations, Killed(c)
  PROVE  /\ HostsTyped' /\ host'[c].process # "alive" /\ host'[c].runs = host[c].runs
         /\ host'[c].missed = host[c].missed
         /\ host[c].process = "none" => host'[c].process = "none"
         /\ \A k \in Creations \ {c} : host'[k] = host[k]
<1>1. host \in [Creations -> Hosts] /\ host[c] \in Hosts
  BY DEF Typed, HostsTyped
<1>2. host' = [host EXCEPT ![c] =
        [host[c] EXCEPT !.process = IF @ = "alive" THEN "dead" ELSE @]]
  BY DEF Killed
<1>3. [host[c] EXCEPT !.process = IF @ = "alive" THEN "dead" ELSE @] \in Hosts
  BY <1>1 DEF Hosts
<1> QED
  BY <1>1, <1>2, <1>3 DEF HostsTyped, Hosts

LEMMA PublishedKeeps ==
  ASSUME Typed, Published
  PROVE  /\ PlacesTyped'
         /\ \A k \in Creations :
              place'[k].workspace = "staged" => place[k].workspace = "staged"
BY DEF Typed, PlacesTyped, LivesTyped, Places, Lives, Published

LEMMA RolledBackKeeps ==
  ASSUME Typed, NEW c \in Creations, RolledBack(c)
  PROVE  /\ PlacesTyped' /\ place'[c].workspace # "staged"
         /\ \A k \in Creations \ {c} : place'[k] = place[k]
<1>1. place \in [Creations -> Places] /\ place[c] \in Places
  BY DEF Typed, PlacesTyped
<1>2. place' = [place EXCEPT ![c] =
        [place[c] EXCEPT !.workspace = IF @ = "staged" THEN "closed" ELSE @]]
  BY DEF RolledBack
<1>3. [place[c] EXCEPT !.workspace = IF @ = "staged" THEN "closed" ELSE @] \in Places
  BY <1>1 DEF Places
<1> QED
  BY <1>1, <1>2, <1>3 DEF PlacesTyped, Places

-----------------------------------------------------------------------------
(* The invariant.                                                          *)
Doing(c, steps) == exec.at \in steps /\ exec.by.c = c

(* The command of c ran only under a row that was there before.            *)
Ran(c) ==
  /\ host[c].runs \in {0, 1}
  /\ host[c].runs = 0 => host[c].process = "none"
  /\ row[c] = "Absent" =>
       host[c].runs = 0 /\ ~live[c].runtime /\ ~live[c].sought /\ ~host[c].missed
  /\ Doing(c, {"launch"}) => host[c].runs = 0
  /\ Doing(c, {"launch", "ready", "insert", "attach", "commit"}) =>
       row[c] # "Absent"

(* A host that lives is in the state, or somebody is about to put it there *)
(* or to kill it, or the last start has missed it.                         *)
Tended(c) ==
  /\ daemon.status # "down" /\ host[c].process = "alive" =>
       \/ live[c].runtime /\ live[c].tab
       \/ live[c].sought \/ host[c].missed
       \/ Doing(c, {"ready", "insert", "attach"})
  /\ Doing(c, {"attach"}) /\ host[c].process = "alive" => live[c].runtime
  /\ live[c].runtime => live[c].tab \/ Doing(c, {"attach"})

(* No start has found a host of a creation that is yet to execute, or that *)
(* has executed in this generation only.                                   *)
Early == {"absent", "prepared", "not_applied"}
Here(c) == Doing(c, Steps \ {"settle"}) \/ (Doing(c, {"settle"}) /\ ~Interrupted(c))

Fresh(c) ==
  /\ Doing(c, {"prepared"}) => receipt[c].state = "prepared"
  /\ Doing(c, Steps \ {"prepared"}) => receipt[c].state = "executing"
  /\ receipt[c].state \in Early => host[c].process # "alive"
  /\ Here(c) \/ receipt[c].state \in Early => ~live[c].sought /\ ~host[c].missed

(* What a settlement has seen is still so, and what it says stays so.      *)
Answered(c) ==
  /\ Doing(c, {"settle"}) /\ exec.evidence = "not_applied" => row[c] = "Absent"
  /\ Doing(c, {"settle"}) /\ exec.evidence = "closed" =>
       row[c] \in Final /\ ~live[c].runtime
  /\ receipt[c].state = "not_applied" =>
       /\ row[c] \in Final \cup {"Absent"} /\ ~live[c].runtime
       /\ place[c].workspace # "staged"

Safe(c) == Ran(c) /\ Tended(c) /\ Fresh(c) /\ Answered(c)

CreationInv ==
  /\ Typed
  /\ daemon.status = "down" => exec = Idle
  /\ \A c \in Creations : Safe(c)

(* A step that moves the creation c, and leaves the others alone.          *)
Same(k) ==
  /\ receipt'[k] = receipt[k] /\ row'[k] = row[k]
  /\ host'[k] = host[k] /\ live'[k] = live[k]
  /\ place'[k].workspace = "staged" => place[k].workspace = "staged"

LEMMA OneMoves ==
  ASSUME CreationInv, NEW c \in Creations, Typed', UNCHANGED daemon,
         \/ UNCHANGED exec
         \/ /\ daemon.status # "down"
            /\ exec = Idle \/ exec.by.c = c
            /\ exec' = Idle \/ exec'.by.c = c,
         \A k \in Creations \ {c} : Same(k),
         Safe(c)'
  PROVE  CreationInv'
<1>1. ASSUME NEW k \in Creations \ {c}
      PROVE  Safe(k)'
  <2>1. Safe(k) /\ Same(k)
    BY DEF CreationInv
  <2>2. CASE UNCHANGED exec
    BY <2>1, <2>2
    DEF Safe, Ran, Tended, Fresh, Here, Early, Interrupted, Answered, Doing, Same
  <2>3. CASE /\ exec = Idle \/ exec.by.c = c
             /\ exec' = Idle \/ exec'.by.c = c
    <3>1. ~Doing(k, Steps)'
      BY <2>3 DEF Doing, Idle, Steps
    <3>2. ~Doing(k, Steps)
      BY <2>3 DEF Doing, Idle, Steps
    <3> QED
      BY <2>1, <3>1, <3>2
      DEF Safe, Ran, Tended, Fresh, Here, Early, Interrupted, Answered, Doing,
          Same, Steps
  <2> QED
    BY <2>2, <2>3
<1>2. daemon'.status = "down" => exec' = Idle
  BY DEF CreationInv
<1> QED
  BY <1>1, <1>2 DEF CreationInv

-----------------------------------------------------------------------------
(* The steps of an execution.                                              *)
LEMMA MarkExecutingKeeps ==
  ASSUME CreationInv, MarkExecuting
  PROVE  CreationInv'
<1>1. PICK c \in Creations :
        /\ c = exec.by.c /\ Typed /\ exec \in Runs /\ Safe(c)
        /\ exec.at = "prepared" /\ daemon.status = "up"
  BY Runner DEF CreationInv, MarkExecuting, At
<1>2. UNCHANGED <<row, place, host, live, daemon, closer>>
  BY DEF MarkExecuting, SameReceipts
<1>3. SpentTyped'
  BY <1>1 DEF MarkExecuting, WriteFails, Typed, SpentTyped
<1>4. /\ ReceiptsTyped'
      /\ \/ exec' = Idle /\ receipt' = receipt
         \/ /\ exec' \in Runs /\ exec'.by = exec.by
            /\ exec'.at \in {"workspace", "reserve"}
            /\ receipt'[c].state = "executing"
      /\ \A k \in Creations \ {c} : receipt'[k] = receipt[k]
  <2>1. receipt[c].state = "prepared" /\ exec.by.n \in Attempts
    BY <1>1, Runner DEF Safe, Fresh, Doing
  <2>2. CASE Executing(c, exec.by.n) /\ Goes(IF c \in WithWorkspace
                                             THEN "workspace" ELSE "reserve")
    <3>1. /\ exec' \in Runs /\ exec'.by = exec.by
          /\ exec'.at \in {"workspace", "reserve"}
      BY <1>1, <2>2 DEF Goes, Runs, Steps
    <3> QED
      BY <1>1, <2>1, <2>2, <3>1, MarkedKeeps
  <2>3. CASE SameReceipts /\ exec' = Idle
    BY <1>1, <2>1, <2>3 DEF SameReceipts, Typed, ReceiptsTyped
  <2> QED
    BY <1>1, <2>2, <2>3 DEF MarkExecuting
<1>5. exec' = Idle \/ exec' \in Runs
  BY <1>4
<1>6. Typed'
  BY <1>1, <1>2, <1>3, <1>4, <1>5, StaysTyped DEF Typed
<1>7. Safe(c)'
  BY <1>1, <1>2, <1>3, <1>4, <1>5
  DEF Safe, Ran, Tended, Fresh, Here, Early, Interrupted, Answered, Doing,
      Steps, Idle, Final
<1>8. \A k \in Creations \ {c} : Same(k)
  BY <1>1, <1>2, <1>3, <1>4, <1>5 DEF Same
<1>9. exec' = Idle \/ exec'.by.c = c
  BY <1>1, <1>2, <1>3, <1>4, <1>5 DEF Idle
<1> QED
  BY <1>1, <1>2, <1>6, <1>7, <1>8, <1>9, OneMoves

LEMMA CreateWorkspaceKeeps ==
  ASSUME CreationInv, CreateWorkspace
  PROVE  CreationInv'
<1>1. PICK c \in Creations :
        /\ c = exec.by.c /\ Typed /\ exec \in Runs /\ Safe(c)
        /\ exec.at = "workspace" /\ daemon.status = "up"
  BY Runner DEF CreationInv, CreateWorkspace, At
<1>2. UNCHANGED <<receipt, effect, row, host, live, daemon, closer, spent>>
  BY DEF CreateWorkspace, SameReceipts
<1>3. /\ PlacesTyped' /\ \A k \in Creations \ {c} : place'[k] = place[k]
  BY <1>1 DEF CreateWorkspace, Typed, PlacesTyped, Places
<1>4. /\ exec' \in Runs /\ exec'.by = exec.by
      /\ exec'.at \in {"reserve", "failed"}
  BY <1>1 DEF CreateWorkspace, Goes, Runs, Steps
<1>5. Typed'
  BY <1>1, <1>2, <1>3, <1>4, StaysTyped DEF Typed
<1>6. Safe(c)'
  BY <1>1, <1>2, <1>3, <1>4
  DEF Safe, Ran, Tended, Fresh, Here, Early, Interrupted, Answered, Doing,
      Steps, Idle, Final
<1>7. \A k \in Creations \ {c} : Same(k)
  BY <1>1, <1>2, <1>3, <1>4 DEF Same
<1>8. exec' = Idle \/ exec'.by.c = c
  BY <1>1, <1>2, <1>3, <1>4 DEF Idle
<1> QED
  BY <1>1, <1>2, <1>5, <1>6, <1>7, <1>8, OneMoves

LEMMA ReserveKeeps ==
  ASSUME CreationInv, Reserve
  PROVE  CreationInv'
<1>1. PICK c \in Creations :
        /\ c = exec.by.c /\ Typed /\ exec \in Runs /\ Safe(c)
        /\ exec.at = "reserve" /\ daemon.status = "up"
  BY Runner DEF CreationInv, Reserve, At
<1>2. UNCHANGED <<receipt, effect, place, host, live, daemon, closer, spent>>
  BY DEF Reserve, SameReceipts
<1>3. /\ RowsTyped' /\ \A k \in Creations \ {c} : row'[k] = row[k]
      /\ row'[c] = IF row[c] = "Absent" THEN "Launching" ELSE row[c]
  BY <1>1 DEF Reserve, Typed, RowsTyped, Rows, Living
<1>4. /\ exec' \in Runs /\ exec'.by = exec.by
      /\ exec'.at = IF row[c] = "Absent" THEN "launch" ELSE "failed"
  BY <1>1 DEF Reserve, Goes, Runs, Steps
<1>5. Typed'
  BY <1>1, <1>2, <1>3, <1>4, StaysTyped DEF Typed
<1>6. Safe(c)'
  BY <1>1, <1>2, <1>3, <1>4
  DEF Safe, Ran, Tended, Fresh, Here, Early, Interrupted, Answered, Doing,
      Steps, Idle, Final
<1>7. \A k \in Creations \ {c} : Same(k)
  BY <1>1, <1>2, <1>3, <1>4 DEF Same
<1>8. exec' = Idle \/ exec'.by.c = c
  BY <1>1, <1>2, <1>3, <1>4 DEF Idle
<1> QED
  BY <1>1, <1>2, <1>5, <1>6, <1>7, <1>8, OneMoves

LEMMA ReserveFailsKeeps ==
  ASSUME CreationInv, ReserveFails
  PROVE  CreationInv'
<1>1. PICK c \in Creations :
        /\ c = exec.by.c /\ Typed /\ exec \in Runs /\ Safe(c)
        /\ exec.at = "reserve" /\ daemon.status = "up"
  BY Runner DEF CreationInv, ReserveFails, At
<1>2. UNCHANGED <<receipt, effect, row, place, host, live, daemon, closer>>
  BY DEF ReserveFails, SameReceipts
<1>3. SpentTyped'
  BY <1>1 DEF ReserveFails, WriteFails, Typed, SpentTyped
<1>4. /\ exec' \in Runs /\ exec'.by = exec.by
      /\ exec'.at = "failed"
  BY <1>1 DEF ReserveFails, Goes, Runs, Steps
<1>5. Typed'
  BY <1>1, <1>2, <1>3, <1>4, StaysTyped DEF Typed
<1>6. Safe(c)'
  BY <1>1, <1>2, <1>3, <1>4
  DEF Safe, Ran, Tended, Fresh, Here, Early, Interrupted, Answered, Doing,
      Steps, Idle, Final
<1>7. \A k \in Creations \ {c} : Same(k)
  BY <1>1, <1>2, <1>3, <1>4 DEF Same
<1>8. exec' = Idle \/ exec'.by.c = c
  BY <1>1, <1>2, <1>3, <1>4 DEF Idle
<1> QED
  BY <1>1, <1>2, <1>5, <1>6, <1>7, <1>8, OneMoves

LEMMA LaunchKeeps ==
  ASSUME CreationInv, Launch
  PROVE  CreationInv'
<1>1. PICK c \in Creations :
        /\ c = exec.by.c /\ Typed /\ exec \in Runs /\ Safe(c)
        /\ exec.at = "launch" /\ daemon.status = "up"
  BY Runner DEF CreationInv, Launch, At
<1>2. UNCHANGED <<receipt, effect, row, place, live, daemon, closer, spent>>
  BY DEF Launch, SameReceipts
<1>3. /\ HostsTyped' /\ \A k \in Creations \ {c} : host'[k] = host[k]
      /\ host'[c].process = "alive" /\ host'[c].runs = host[c].runs + 1
      /\ host'[c].missed = host[c].missed
  <2> DEFINE g == [host[c] EXCEPT !.process = "alive"]
  <2> DEFINE h == [g EXCEPT !.runs = g.runs + 1]
  <2>1. host \in [Creations -> Hosts] /\ host[c] \in Hosts
    BY <1>1 DEF Typed, HostsTyped
  <2>2. host' = [host EXCEPT ![c] = h]
    BY <1>1, <2>1 DEF Launch
  <2>3. /\ h \in Hosts /\ h.process = "alive" /\ h.runs = host[c].runs + 1
        /\ h.missed = host[c].missed
    <3>1. /\ g \in Hosts /\ g.process = "alive" /\ g.runs = host[c].runs
          /\ g.missed = host[c].missed
      BY <2>1 DEF Hosts
    <3> HIDE DEF g
    <3> QED
      BY <3>1 DEF Hosts
  <2> HIDE DEF g, h
  <2> QED
    BY <2>1, <2>2, <2>3 DEF HostsTyped
<1>4. /\ exec' \in Runs /\ exec'.by = exec.by
      /\ exec'.at = "ready"
  BY <1>1 DEF Launch, Goes, Runs, Steps
<1>5. Typed'
  BY <1>1, <1>2, <1>3, <1>4, StaysTyped DEF Typed
<1>6. Safe(c)'
  BY <1>1, <1>2, <1>3, <1>4
  DEF Safe, Ran, Tended, Fresh, Here, Early, Interrupted, Answered, Doing,
      Steps, Idle, Final
<1>7. \A k \in Creations \ {c} : Same(k)
  BY <1>1, <1>2, <1>3, <1>4 DEF Same
<1>8. exec' = Idle \/ exec'.by.c = c
  BY <1>1, <1>2, <1>3, <1>4 DEF Idle
<1> QED
  BY <1>1, <1>2, <1>5, <1>6, <1>7, <1>8, OneMoves

LEMMA LaunchFailsKeeps ==
  ASSUME CreationInv, LaunchFails
  PROVE  CreationInv'
<1>1. PICK c \in Creations :
        /\ c = exec.by.c /\ Typed /\ exec \in Runs /\ Safe(c)
        /\ exec.at \in {"launch", "ready"} /\ daemon.status = "up"
  BY Runner DEF CreationInv, LaunchFails, At
<1>2. UNCHANGED <<receipt, effect, live, daemon, closer, spent>>
  BY DEF LaunchFails, SameReceipts
<1>3. /\ RowsTyped' /\ PlacesTyped'
      /\ row'[c] \in Final /\ place'[c].workspace = place[c].workspace
      /\ \A k \in Creations \ {c} : row'[k] = row[k] /\ place'[k] = place[k]
  BY <1>1, ExitKeeps DEF LaunchFails
<1>4. /\ exec' \in Runs /\ exec'.by = exec.by
      /\ exec'.at = "failed"
  BY <1>1 DEF LaunchFails, Goes, Runs, Steps
<1>5. /\ HostsTyped' /\ host'[c].runs = host[c].runs
      /\ host'[c].missed = host[c].missed /\ host'[c].process # "alive"
      /\ host[c].process = "none" => host'[c].process = "none"
      /\ \A k \in Creations \ {c} : host'[k] = host[k]
  <2>1. CASE exec.at = "launch" /\ UNCHANGED host
    <3>1. host[c].process # "alive"
      BY <1>1, <2>1 DEF Safe, Ran, Doing
    <3> QED
      BY <1>1, <2>1, <3>1 DEF Typed, HostsTyped
  <2>2. CASE Killed(c)
    BY <1>1, <2>2, KilledKeeps
  <2> QED
    BY <1>1, <2>1, <2>2 DEF LaunchFails, At
<1>6. Typed'
  BY <1>1, <1>2, <1>3, <1>4, <1>5, StaysTyped DEF Typed
<1>7. Safe(c)'
  BY <1>1, <1>2, <1>3, <1>4, <1>5
  DEF Safe, Ran, Tended, Fresh, Here, Early, Interrupted, Answered, Doing,
      Steps, Idle, Final
<1>8. \A k \in Creations \ {c} : Same(k)
  BY <1>1, <1>2, <1>3, <1>4, <1>5 DEF Same
<1>9. exec' = Idle \/ exec'.by.c = c
  BY <1>1, <1>4 DEF Idle
<1> QED
  BY <1>1, <1>2, <1>6, <1>7, <1>8, <1>9, OneMoves

LEMMA ReadyKeeps ==
  ASSUME CreationInv, Ready
  PROVE  CreationInv'
<1>1. PICK c \in Creations :
        /\ c = exec.by.c /\ Typed /\ exec \in Runs /\ Safe(c)
        /\ exec.at = "ready" /\ daemon.status = "up"
  BY Runner DEF CreationInv, Ready, At
<1>2. UNCHANGED <<receipt, effect, place, live, daemon, closer, spent>>
  BY DEF Ready, SameReceipts
<1>3. /\ exec' \in Runs /\ exec'.by = exec.by
      /\ exec'.at = IF row[c] = "Launching" THEN "insert" ELSE "failed"
  BY <1>1 DEF Ready, Goes, Runs, Steps
<1>4. /\ RowsTyped' /\ \A k \in Creations \ {c} : row'[k] = row[k]
      /\ row'[c] = IF row[c] = "Launching" THEN "Running" ELSE row[c]
  BY <1>1 DEF Ready, Typed, RowsTyped, Rows, Living
<1>5. /\ HostsTyped' /\ \A k \in Creations \ {c} : host'[k] = host[k]
      /\ host'[c].runs = host[c].runs /\ host'[c].missed = host[c].missed
      /\ host[c].process = "none" => host'[c].process = "none"
      /\ row[c] = "Launching" => host' = host
      /\ row[c] # "Launching" => host'[c].process # "alive"
  <2>1. CASE row[c] = "Launching"
    BY <1>1, <2>1 DEF Ready, Typed, HostsTyped
  <2>2. CASE row[c] # "Launching"
    BY <1>1, <2>2, KilledKeeps DEF Ready
  <2> QED
    BY <2>1, <2>2
<1>6. Typed'
  BY <1>1, <1>2, <1>3, <1>4, <1>5, StaysTyped DEF Typed
<1>7. Safe(c)'
  BY <1>1, <1>2, <1>3, <1>4, <1>5
  DEF Safe, Ran, Tended, Fresh, Here, Early, Interrupted, Answered, Doing,
      Steps, Idle, Final
<1>8. \A k \in Creations \ {c} : Same(k)
  BY <1>2, <1>4, <1>5 DEF Same
<1> QED
  BY <1>1, <1>2, <1>3, <1>6, <1>7, <1>8, OneMoves

LEMMA InsertKeeps ==
  ASSUME CreationInv, Insert
  PROVE  CreationInv'
<1>1. PICK c \in Creations :
        /\ c = exec.by.c /\ Typed /\ exec \in Runs /\ Safe(c)
        /\ exec.at = "insert" /\ daemon.status = "up"
  BY Runner DEF CreationInv, Insert, At
<1>2. UNCHANGED <<receipt, effect, row, place, host, daemon, closer, spent>>
  BY DEF Insert, SameReceipts
<1>3. /\ LivesTyped' /\ \A k \in Creations \ {c} : live'[k] = live[k]
      /\ live'[c].runtime /\ live'[c].tab = live[c].tab
      /\ live'[c].sought = live[c].sought
  BY <1>1 DEF Insert, Typed, LivesTyped, Lives
<1>4. /\ exec' \in Runs /\ exec'.by = exec.by
      /\ exec'.at = "attach"
  BY <1>1 DEF Insert, Goes, Runs, Steps
<1>5. Typed'
  BY <1>1, <1>2, <1>3, <1>4, StaysTyped DEF Typed
<1>6. Safe(c)'
  BY <1>1, <1>2, <1>3, <1>4
  DEF Safe, Ran, Tended, Fresh, Here, Early, Interrupted, Answered, Doing,
      Steps, Idle, Final
<1>7. \A k \in Creations \ {c} : Same(k)
  BY <1>1, <1>2, <1>3, <1>4 DEF Same
<1>8. exec' = Idle \/ exec'.by.c = c
  BY <1>1, <1>2, <1>3, <1>4 DEF Idle
<1> QED
  BY <1>1, <1>2, <1>5, <1>6, <1>7, <1>8, OneMoves

LEMMA AttachTabKeeps ==
  ASSUME CreationInv, AttachTab
  PROVE  CreationInv'
<1>1. PICK c \in Creations :
        /\ c = exec.by.c /\ Typed /\ exec \in Runs /\ Safe(c)
        /\ exec.at = "attach" /\ daemon.status = "up"
  BY Runner DEF CreationInv, AttachTab, At
<1>2. UNCHANGED <<receipt, effect, row, place, host, daemon, closer, spent>>
  BY DEF AttachTab, SameReceipts
<1>3. /\ LivesTyped' /\ \A k \in Creations \ {c} : live'[k] = live[k]
      /\ live'[c].tab /\ live'[c].runtime = live[c].runtime
      /\ live'[c].sought = live[c].sought
  BY <1>1 DEF AttachTab, Typed, LivesTyped, Lives
<1>4. /\ exec' \in Runs /\ exec'.by = exec.by
      /\ exec'.at = IF live[c].runtime THEN "commit" ELSE "failed"
  BY <1>1 DEF AttachTab, Goes, Runs, Steps
<1>5. Typed'
  BY <1>1, <1>2, <1>3, <1>4, StaysTyped DEF Typed
<1>6. Safe(c)'
  BY <1>1, <1>2, <1>3, <1>4
  DEF Safe, Ran, Tended, Fresh, Here, Early, Interrupted, Answered, Doing,
      Steps, Idle, Final
<1>7. \A k \in Creations \ {c} : Same(k)
  BY <1>1, <1>2, <1>3, <1>4 DEF Same
<1>8. exec' = Idle \/ exec'.by.c = c
  BY <1>1, <1>2, <1>3, <1>4 DEF Idle
<1> QED
  BY <1>1, <1>2, <1>5, <1>6, <1>7, <1>8, OneMoves

LEMMA AttachToWorkspaceKeeps ==
  ASSUME CreationInv, AttachToWorkspace
  PROVE  CreationInv'
<1>1. PICK c \in Creations :
        /\ c = exec.by.c /\ Typed /\ exec \in Runs /\ Safe(c)
        /\ exec.at = "attach" /\ daemon.status = "up"
  BY Runner DEF CreationInv, AttachToWorkspace, At
<1>2. UNCHANGED <<receipt, effect, row, place, host, daemon, closer, spent>>
  BY DEF AttachToWorkspace, SameReceipts
<1>3. /\ LivesTyped' /\ \A k \in Creations \ {c} : live'[k] = live[k]
      /\ live'[c].tab /\ live'[c].runtime = live[c].runtime
      /\ live'[c].sought = live[c].sought
      /\ live[c].runtime
  BY <1>1 DEF AttachToWorkspace, MayBind, Typed, LivesTyped, Lives
<1>4. /\ exec' \in Runs /\ exec'.by = exec.by
      /\ exec'.at = "commit"
  BY <1>1 DEF AttachToWorkspace, Goes, Runs, Steps
<1>5. Typed'
  BY <1>1, <1>2, <1>3, <1>4, StaysTyped DEF Typed
<1>6. Safe(c)'
  BY <1>1, <1>2, <1>3, <1>4
  DEF Safe, Ran, Tended, Fresh, Here, Early, Interrupted, Answered, Doing,
      Steps, Idle, Final
<1>7. \A k \in Creations \ {c} : Same(k)
  BY <1>1, <1>2, <1>3, <1>4 DEF Same
<1>8. exec' = Idle \/ exec'.by.c = c
  BY <1>1, <1>2, <1>3, <1>4 DEF Idle
<1> QED
  BY <1>1, <1>2, <1>5, <1>6, <1>7, <1>8, OneMoves

LEMMA AttachFailsKeeps ==
  ASSUME CreationInv, AttachFails
  PROVE  CreationInv'
<1>1. PICK c \in Creations :
        /\ c = exec.by.c /\ Typed /\ exec \in Runs /\ Safe(c)
        /\ exec.at = "attach" /\ daemon.status = "up"
  BY Runner DEF CreationInv, AttachFails, At
<1>2. UNCHANGED <<receipt, effect, daemon, closer, spent>>
  BY DEF AttachFails, SameReceipts
<1>3. /\ RowsTyped' /\ PlacesTyped'
      /\ row'[c] \in Final /\ place'[c].workspace = place[c].workspace
      /\ \A k \in Creations \ {c} : row'[k] = row[k] /\ place'[k] = place[k]
  BY <1>1, ExitKeeps DEF AttachFails
<1>4. /\ LivesTyped' /\ ~live'[c].runtime /\ live'[c].sought = live[c].sought
      /\ \A k \in Creations \ {c} : live'[k] = live[k]
  BY <1>1, DetachedKeeps DEF AttachFails
<1>5. /\ HostsTyped' /\ host'[c].process # "alive" /\ host'[c].runs = host[c].runs
      /\ host'[c].missed = host[c].missed
      /\ host[c].process = "none" => host'[c].process = "none"
      /\ \A k \in Creations \ {c} : host'[k] = host[k]
  BY <1>1, KilledKeeps DEF AttachFails
<1>6. /\ exec' \in Runs /\ exec'.by = exec.by
      /\ exec'.at = "failed"
  BY <1>1 DEF AttachFails, Goes, Runs, Steps
<1>7. Typed'
  BY <1>1, <1>2, <1>3, <1>4, <1>5, <1>6, StaysTyped DEF Typed
<1>8. Safe(c)'
  BY <1>1, <1>2, <1>3, <1>4, <1>5, <1>6
  DEF Safe, Ran, Tended, Fresh, Here, Early, Interrupted, Answered, Doing,
      Steps, Idle, Final
<1>9. \A k \in Creations \ {c} : Same(k)
  BY <1>1, <1>2, <1>3, <1>4, <1>5, <1>6 DEF Same
<1>10. exec' = Idle \/ exec'.by.c = c
  BY <1>1, <1>2, <1>3, <1>4, <1>5, <1>6 DEF Idle
<1> QED
  BY <1>1, <1>2, <1>7, <1>8, <1>9, <1>10, OneMoves

LEMMA CommitKeeps ==
  ASSUME CreationInv, Commit
  PROVE  CreationInv'
<1>1. PICK c \in Creations :
        /\ c = exec.by.c /\ Typed /\ exec \in Runs /\ Safe(c)
        /\ exec.at = "commit" /\ daemon.status = "up"
  BY Runner DEF CreationInv, Commit, At
<1>2. UNCHANGED <<row, host, live, daemon, closer, spent>>
  BY DEF Commit, SameReceipts
<1>3. receipt[c].state # "absent"
  BY <1>1 DEF Safe, Fresh, Doing, Steps
<1>4. /\ ReceiptsTyped' /\ receipt'[c].state = "created"
      /\ \A k \in Creations \ {c} : receipt'[k] = receipt[k]
  BY <1>1, <1>3, SettledKeeps DEF Commit, Created, Typed, Effects
<1>5. /\ PlacesTyped'
      /\ \A k \in Creations :
           place'[k].workspace = "staged" => place[k].workspace = "staged"
  BY <1>1, PublishedKeeps DEF Commit
<1>6. exec' = Idle
  BY DEF Commit
<1>7. Typed'
  BY <1>1, <1>2, <1>3, <1>4, <1>5, <1>6, StaysTyped DEF Typed
<1>8. Safe(c)'
  BY <1>1, <1>2, <1>3, <1>4, <1>5, <1>6
  DEF Safe, Ran, Tended, Fresh, Here, Early, Interrupted, Answered, Doing,
      Steps, Idle, Final
<1>9. \A k \in Creations \ {c} : Same(k)
  BY <1>1, <1>2, <1>3, <1>4, <1>5, <1>6 DEF Same
<1>10. exec' = Idle \/ exec'.by.c = c
  BY <1>1, <1>2, <1>3, <1>4, <1>5, <1>6 DEF Idle
<1> QED
  BY <1>1, <1>2, <1>7, <1>8, <1>9, <1>10, OneMoves

LEMMA CommitFailsKeeps ==
  ASSUME CreationInv, CommitFails
  PROVE  CreationInv'
<1>1. PICK c \in Creations :
        /\ c = exec.by.c /\ Typed /\ exec \in Runs /\ Safe(c)
        /\ exec.at = "commit" /\ daemon.status = "up"
  BY Runner DEF CreationInv, CommitFails, At
<1>2. UNCHANGED <<receipt, effect, row, place, host, live, daemon, closer>>
  BY DEF CommitFails, SameReceipts
<1>3. SpentTyped'
  BY <1>1 DEF CommitFails, WriteFails, ProjectionFails, Typed, SpentTyped
<1>4. /\ exec' \in Runs /\ exec'.by = exec.by
      /\ exec'.at = "failed"
  BY <1>1 DEF CommitFails, Goes, Runs, Steps
<1>5. Typed'
  BY <1>1, <1>2, <1>3, <1>4, StaysTyped DEF Typed
<1>6. Safe(c)'
  BY <1>1, <1>2, <1>3, <1>4
  DEF Safe, Ran, Tended, Fresh, Here, Early, Interrupted, Answered, Doing,
      Steps, Idle, Final
<1>7. \A k \in Creations \ {c} : Same(k)
  BY <1>1, <1>2, <1>3, <1>4 DEF Same
<1>8. exec' = Idle \/ exec'.by.c = c
  BY <1>1, <1>2, <1>3, <1>4 DEF Idle
<1> QED
  BY <1>1, <1>2, <1>5, <1>6, <1>7, <1>8, OneMoves

(* What a settlement sees.                                                 *)
LEMMA EvidenceIsTrue ==
  ASSUME Typed, NEW c \in Creations
  PROVE  /\ Evidence(c) \in Verdicts
         /\ Evidence(c) = "not_applied" => row[c] = "Absent"
         /\ Evidence(c) = "closed" => row[c] \in Final /\ ~live[c].runtime
<1>1. row[c] \in Rows /\ live[c] \in Lives
  BY DEF Typed, RowsTyped, LivesTyped
<1>2. CASE row[c] = "Absent"
  BY <1>2 DEF Evidence, Verdicts
<1>3. CASE row[c] # "Absent" /\ live[c].runtime
  <2>1. Evidence(c) \in {"created", "pending", "ambiguous_live"}
    BY <1>1, <1>3 DEF Evidence, Lives
  <2> QED
    BY <1>3, <2>1 DEF Verdicts
<1>4. CASE row[c] \in Living /\ ~live[c].runtime
  <2>1. Evidence(c) \in {"pending", "ambiguous_live"}
    BY <1>4 DEF Evidence, Living, Final
  <2> QED
    BY <2>1 DEF Verdicts
<1>5. CASE row[c] \in Final /\ ~live[c].runtime
  <2>1. Evidence(c) = "closed"
    BY <1>5 DEF Evidence, Living, Final
  <2> QED
    BY <1>5, <2>1 DEF Verdicts
<1> QED
  BY <1>1, <1>2, <1>3, <1>4, <1>5 DEF Rows

LEMMA Gathered ==
  ASSUME Typed, NEW c \in Creations, receipt[c].state # "absent",
         GatherEvidence(c)
  PROVE  /\ exec' \in Runs /\ exec'.by.c = c /\ exec'.at = "settle"
         /\ exec'.evidence = "not_applied" => row[c] = "Absent"
         /\ exec'.evidence = "closed" => row[c] \in Final /\ ~live[c].runtime
<1>1. receipt[c].n \in Attempts
  BY DEF Typed, ReceiptsTyped
<1>2. Evidence(c) \in Verdicts
  BY EvidenceIsTrue
<1>3. exec' = [at |-> "settle", by |-> [c |-> c, n |-> receipt[c].n],
               evidence |-> Evidence(c)]
  BY DEF GatherEvidence
<1>4. exec' \in Runs
  BY <1>1, <1>2, <1>3 DEF Runs, Steps, Keys
<1> QED
  BY <1>3, <1>4, EvidenceIsTrue

LEMMA LooksAtFailureKeeps ==
  ASSUME CreationInv, LooksAtFailure
  PROVE  CreationInv'
<1>1. PICK c \in Creations :
        /\ c = exec.by.c /\ Typed /\ exec \in Runs /\ Safe(c)
        /\ exec.at = "failed" /\ daemon.status = "up"
  BY Runner DEF CreationInv, LooksAtFailure, At
<1>2. UNCHANGED <<receipt, effect, row, place, host, live, daemon, closer, spent>>
  BY DEF LooksAtFailure, SameReceipts
<1>3. receipt[c].state # "absent"
  BY <1>1 DEF Safe, Fresh, Doing, Steps
<1>4. /\ exec' \in Runs /\ exec'.by.c = c /\ exec'.at = "settle"
      /\ exec'.evidence = "not_applied" => row[c] = "Absent"
      /\ exec'.evidence = "closed" => row[c] \in Final /\ ~live[c].runtime
  BY <1>1, <1>3, Gathered DEF LooksAtFailure
<1>5. receipt[c].state = "executing"
  BY <1>1 DEF Safe, Fresh, Doing, Steps
<1>6. Typed'
  BY <1>1, <1>2, <1>3, <1>4, StaysTyped DEF Typed
<1>7. Safe(c)'
  BY <1>1, <1>2, <1>3, <1>4, <1>5
  DEF Safe, Ran, Tended, Fresh, Here, Early, Interrupted, Answered, Doing,
      Steps, Idle, Final
<1>8. \A k \in Creations \ {c} : Same(k)
  BY <1>1, <1>2, <1>3, <1>4, <1>5 DEF Same
<1>9. exec' = Idle \/ exec'.by.c = c
  BY <1>1, <1>2, <1>3, <1>4, <1>5 DEF Idle
<1> QED
  BY <1>1, <1>2, <1>6, <1>7, <1>8, <1>9, OneMoves

-----------------------------------------------------------------------------
(* The settlements.                                                        *)
LEMMA Settling ==
  ASSUME CreationInv, exec.at = "settle"
  PROVE  /\ Typed /\ daemon.status # "down" /\ exec \in Runs
         /\ exec.by.c \in Creations /\ Safe(exec.by.c)
         /\ receipt[exec.by.c].state # "absent"
<1>1. /\ Typed /\ exec.at # "idle" /\ daemon.status # "down"
  BY DEF CreationInv, Idle
<1>2. exec \in Runs /\ exec.by.c \in Creations
  BY <1>1, Runner
<1>3. Safe(exec.by.c)
  BY <1>2 DEF CreationInv
<1> QED
  BY <1>1, <1>2, <1>3 DEF Safe, Fresh, Doing, Steps

LEMMA SettleCreatedKeeps ==
  ASSUME CreationInv, SettleCreated
  PROVE  CreationInv'
<1>1. PICK c \in Creations :
        /\ c = exec.by.c /\ Typed /\ exec \in Runs /\ Safe(c)
        /\ exec.at = "settle" /\ daemon.status # "down"
        /\ receipt[c].state # "absent"
  BY Settling DEF SettleCreated
<1>2. UNCHANGED <<row, host, live, daemon, closer>>
  BY DEF SettleCreated
<1>3. CASE Created(c) /\ Published /\ exec' = Idle /\ UNCHANGED spent
  <2>1. /\ ReceiptsTyped' /\ receipt'[c].state = "created"
        /\ \A k \in Creations \ {c} : receipt'[k] = receipt[k]
    BY <1>1, <1>3, SettledKeeps DEF Created, Typed, Effects
  <2>2. /\ PlacesTyped'
        /\ \A k \in Creations :
             place'[k].workspace = "staged" => place[k].workspace = "staged"
    BY <1>1, <1>3, PublishedKeeps
  <2>3. Typed'
    BY <1>1, <1>2, <1>3, <2>1, <2>2, StaysTyped DEF Typed
  <2>4. Safe(c)'
    BY <1>1, <1>2, <1>3, <2>1, <2>2
    DEF Safe, Ran, Tended, Fresh, Here, Early, Interrupted, Answered, Doing,
      Steps, Idle, Final
  <2>5. \A k \in Creations \ {c} : Same(k)
    BY <1>2, <2>1, <2>2 DEF Same
  <2> QED
    BY <1>1, <1>2, <1>3, <2>3, <2>4, <2>5, OneMoves
<1>4. CASE /\ ProjectionFails /\ SameReceipts /\ UNCHANGED place
           /\ exec' = IF Interrupted(c) THEN Idle
                      ELSE [exec EXCEPT !.evidence = "lost"]
  <2>1. UNCHANGED <<receipt, effect, place>>
    BY <1>4 DEF SameReceipts
  <2>2. SpentTyped'
    BY <1>1, <1>4 DEF ProjectionFails, WriteFails, Typed, SpentTyped
  <2>3. \/ exec' = Idle
        \/ /\ exec' \in Runs /\ exec'.by = exec.by /\ exec'.at = "settle"
           /\ exec'.evidence = "lost"
    BY <1>1, <1>4 DEF Runs, Verdicts
  <2>4. Typed'
    BY <1>1, <1>2, <2>1, <2>2, <2>3, StaysTyped DEF Typed
  <2>5. Safe(c)'
    BY <1>1, <1>2, <2>1, <2>3
    DEF Safe, Ran, Tended, Fresh, Here, Early, Interrupted, Answered, Doing,
      Steps, Idle, Final
  <2>6. \A k \in Creations \ {c} : Same(k)
    BY <1>2, <2>1 DEF Same
  <2>7. exec' = Idle \/ exec'.by.c = c
    BY <1>1, <2>3
  <2> QED
    BY <1>1, <1>2, <2>4, <2>5, <2>6, <2>7, OneMoves
<1> QED
  BY <1>1, <1>3, <1>4 DEF SettleCreated

LEMMA WithdrawnKeeps ==
  ASSUME Typed, NEW c \in Creations, Withdrawn(c)
  PROVE  /\ PlacesTyped'
         /\ RollsBack => place'[c].workspace # "staged"
         /\ \A k \in Creations :
              place'[k].workspace = "staged" => place[k].workspace = "staged"
<1>1. CASE RollsBack
  BY <1>1, RolledBackKeeps DEF Withdrawn
<1>2. CASE ~RollsBack
  BY <1>2 DEF Withdrawn, Typed, PlacesTyped
<1> QED
  BY <1>1, <1>2

LEMMA SettleNotAppliedKeeps ==
  ASSUME CreationInv, SettleNotApplied
  PROVE  CreationInv'
<1>1. PICK c \in Creations :
        /\ c = exec.by.c /\ Typed /\ exec \in Runs /\ Safe(c)
        /\ exec.at = "settle" /\ daemon.status # "down"
        /\ receipt[c].state # "absent"
  BY Settling DEF SettleNotApplied
<1>2. UNCHANGED <<row, host, live, daemon, closer>>
  BY DEF SettleNotApplied
<1>3. /\ PlacesTyped' /\ place'[c].workspace # "staged"
      /\ \A k \in Creations :
           place'[k].workspace = "staged" => place[k].workspace = "staged"
  <2>1. RollsBack
    BY DEF SettleNotApplied, RollsBack
  <2> QED
    BY <1>1, <2>1, WithdrawnKeeps DEF SettleNotApplied
<1>4. /\ row[c] \in Final \cup {"Absent"} /\ ~live[c].runtime
      /\ host[c].process # "alive" /\ ~live[c].sought /\ ~host[c].missed
  <2>1. CASE exec.evidence = "not_applied"
    BY <1>1, <2>1 DEF Safe, Ran, Answered, Doing
  <2>2. CASE exec.evidence = "closed" /\ ~Interrupted(c)
    <3>1. Here(c) /\ row[c] \in Final /\ ~live[c].runtime
      BY <1>1, <2>2 DEF Safe, Answered, Here, Doing
    <3>2. ~live[c].sought /\ ~host[c].missed
      BY <1>1, <3>1 DEF Safe, Fresh
    <3> QED
      BY <1>1, <3>1, <3>2 DEF Safe, Tended, Doing
  <2> QED
    BY <1>1, <2>1, <2>2 DEF SettleNotApplied
<1>5. CASE NotApplied(c) /\ exec' = Idle /\ UNCHANGED spent
  <2>1. /\ ReceiptsTyped' /\ receipt'[c].state = "not_applied"
        /\ \A k \in Creations \ {c} : receipt'[k] = receipt[k]
    BY <1>1, <1>5, SettledKeeps DEF NotApplied, Typed, Effects
  <2>2. Typed'
    BY <1>1, <1>2, <1>3, <1>5, <2>1, StaysTyped DEF Typed
  <2>3. Safe(c)'
    BY <1>1, <1>2, <1>3, <1>4, <1>5, <2>1
    DEF Safe, Ran, Tended, Fresh, Here, Early, Interrupted, Answered, Doing,
        Steps, Idle, Final
  <2>4. \A k \in Creations \ {c} : Same(k)
    BY <1>2, <1>3, <2>1 DEF Same
  <2> QED
    BY <1>1, <1>2, <1>5, <2>2, <2>3, <2>4, OneMoves
<1>6. CASE /\ WriteFails /\ SameReceipts
           /\ exec' = [exec EXCEPT !.evidence = "lost"]
  <2>1. UNCHANGED <<receipt, effect>>
    BY <1>6 DEF SameReceipts
  <2>2. SpentTyped'
    BY <1>1, <1>6 DEF WriteFails, Typed, SpentTyped
  <2>3. /\ exec' \in Runs /\ exec'.by = exec.by /\ exec'.at = "settle"
        /\ exec'.evidence = "lost"
    BY <1>1, <1>6 DEF Runs, Verdicts
  <2>4. Typed'
    BY <1>1, <1>2, <1>3, <2>1, <2>2, <2>3, StaysTyped DEF Typed
  <2>5. Safe(c)'
    BY <1>1, <1>2, <1>3, <2>1, <2>3
    DEF Safe, Ran, Tended, Fresh, Here, Early, Interrupted, Answered, Doing,
        Steps, Idle, Final
  <2>6. \A k \in Creations \ {c} : Same(k)
    BY <1>2, <1>3, <2>1 DEF Same
  <2> QED
    BY <1>1, <1>2, <2>3, <2>4, <2>5, <2>6, OneMoves
<1> QED
  BY <1>1, <1>5, <1>6 DEF SettleNotApplied

LEMMA SettleIndeterminateKeeps ==
  ASSUME CreationInv, SettleIndeterminate
  PROVE  CreationInv'
<1>1. PICK c \in Creations :
        /\ c = exec.by.c /\ Typed /\ exec \in Runs /\ Safe(c)
        /\ exec.at = "settle" /\ daemon.status # "down"
        /\ receipt[c].state # "absent"
  BY Settling DEF SettleIndeterminate
<1>2. UNCHANGED <<row, host, live, daemon, closer, spent>> /\ exec' = Idle
  BY DEF SettleIndeterminate
<1>3. /\ PlacesTyped'
      /\ \A k \in Creations :
           place'[k].workspace = "staged" => place[k].workspace = "staged"
  BY <1>1, WithdrawnKeeps DEF SettleIndeterminate
<1>4. /\ ReceiptsTyped' /\ receipt'[c].state = "indeterminate"
      /\ \A k \in Creations \ {c} : receipt'[k] = receipt[k]
  BY <1>1, SettledKeeps DEF SettleIndeterminate, Indeterminate, Typed, Effects
<1>5. Typed'
  BY <1>1, <1>2, <1>3, <1>4, StaysTyped DEF Typed
<1>6. Safe(c)'
  BY <1>1, <1>2, <1>3, <1>4
  DEF Safe, Ran, Tended, Fresh, Here, Early, Interrupted, Answered, Doing,
      Steps, Idle, Final
<1>7. \A k \in Creations \ {c} : Same(k)
  BY <1>2, <1>3, <1>4 DEF Same
<1> QED
  BY <1>1, <1>2, <1>5, <1>6, <1>7, OneMoves

(* A daemon that stops leaves what is on the disk and the hosts.           *)
LEMMA StopsKeeps ==
  ASSUME CreationInv, Stops, Typed', UNCHANGED <<receipt, effect, row, host>>,
         \A k \in Creations :
           place'[k].workspace = "staged" => place[k].workspace = "staged"
  PROVE  CreationInv'
<1>1. /\ \A k \in Creations : Safe(k) /\ live'[k] = Nothing
      /\ daemon'.status = "down" /\ exec' = Idle
  BY DEF CreationInv, Stops, Typed, OthersTyped, Daemons
<1>2. ASSUME NEW k \in Creations
      PROVE  Safe(k)'
  <2>1. ~live'[k].runtime /\ ~live'[k].sought
    BY <1>1 DEF Nothing
  <2>2. Safe(k)
    BY <1>1
  <2> QED
    BY <1>1, <2>1, <2>2
    DEF Safe, Ran, Tended, Fresh, Here, Early, Answered, Doing, Steps, Idle
<1> QED
  BY <1>1, <1>2 DEF CreationInv

LEMMA StoppedIsTyped ==
  ASSUME Typed, Stops
  PROVE  /\ LivesTyped' /\ ExecTyped' /\ daemon' \in Daemons
BY DEF Typed, Stops, LivesTyped, Lives, Nothing, ExecTyped, OthersTyped, Daemons

LEMMA SettleFailsKeeps ==
  ASSUME CreationInv, SettleFails
  PROVE  CreationInv'
<1>1. PICK c \in Creations :
        /\ c = exec.by.c /\ Typed /\ exec \in Runs /\ Safe(c)
        /\ exec.at = "settle" /\ daemon.status # "down"
        /\ receipt[c].state # "absent"
  BY Settling DEF SettleFails
<1>2. UNCHANGED <<receipt, effect, row, host, closer>>
  BY DEF SettleFails, SameReceipts
<1>3. /\ PlacesTyped'
      /\ \A k \in Creations :
           place'[k].workspace = "staged" => place[k].workspace = "staged"
  <2>1. CASE UNCHANGED place
    BY <1>1, <2>1 DEF Typed, PlacesTyped
  <2>2. CASE Withdrawn(c)
    BY <1>1, <2>2, WithdrawnKeeps
  <2> QED
    BY <1>1, <2>1, <2>2 DEF SettleFails
<1>4. CASE Stops /\ spent' = [spent EXCEPT !.failures = @ + 1]
  <2>1. SpentTyped' /\ OthersTyped'
    BY <1>1, <1>2, <1>4, StoppedIsTyped DEF Typed, SpentTyped, OthersTyped
  <2>2. Typed'
    BY <1>1, <1>2, <1>3, <1>4, <2>1, StaysTyped, StoppedIsTyped DEF Typed
  <2> QED
    BY <1>2, <1>3, <1>4, <2>2, StopsKeeps
<1>5. CASE /\ exec' = Idle /\ UNCHANGED <<live, daemon>>
           /\ spent' = [spent EXCEPT !.failures = @ + 1, !.left = @ \cup {c}]
  <2>1. SpentTyped'
    <3>1. /\ spent \in [closes : Nat, failures : Nat, left : SUBSET Creations]
          /\ spent.left \cup {c} \in SUBSET Creations /\ spent.failures + 1 \in Nat
      BY <1>1 DEF Typed, SpentTyped
    <3> QED
      BY <1>5, <3>1 DEF SpentTyped
  <2>2. Typed'
    BY <1>1, <1>2, <1>3, <1>5, <2>1, StaysTyped DEF Typed
  <2>3. Safe(c)'
    BY <1>1, <1>2, <1>3, <1>5
    DEF Safe, Ran, Tended, Fresh, Here, Early, Interrupted, Answered, Doing,
        Steps, Idle, Final
  <2>4. \A k \in Creations \ {c} : Same(k)
    BY <1>2, <1>3, <1>5 DEF Same
  <2> QED
    BY <1>1, <1>2, <1>5, <2>2, <2>3, <2>4, OneMoves
<1> QED
  BY <1>1, <1>4, <1>5 DEF SettleFails

LEMMA LooksAtInterruptedKeeps ==
  ASSUME CreationInv, NEW c \in Creations, LooksAtInterrupted(c)
  PROVE  CreationInv'
<1>1. /\ Typed /\ Safe(c) /\ exec = Idle /\ daemon.status = "starting"
      /\ receipt[c].state = "executing" /\ receipt[c].gen # daemon.gen
      /\ GatherEvidence(c)
      /\ UNCHANGED <<receipt, effect, row, place, host, live, daemon, closer, spent>>
  BY DEF CreationInv, LooksAtInterrupted, Interrupted, SameReceipts
<1>2. /\ exec' \in Runs /\ exec'.by.c = c /\ exec'.at = "settle"
      /\ exec'.evidence = "not_applied" => row[c] = "Absent"
      /\ exec'.evidence = "closed" => row[c] \in Final /\ ~live[c].runtime
  BY <1>1, Gathered DEF Doing, Idle
<1>3. Typed'
  BY <1>1, <1>2, StaysTyped DEF Typed
<1>4. Safe(c)'
  BY <1>1, <1>2
  DEF Safe, Ran, Tended, Fresh, Here, Early, Interrupted, Answered, Doing,
      Steps, Idle, Final
<1>5. \A k \in Creations \ {c} : Same(k)
  BY <1>1 DEF Same
<1> QED
  BY <1>1, <1>2, <1>3, <1>4, <1>5, OneMoves

-----------------------------------------------------------------------------
(* What runs beside an execution.                                          *)
LEMMA RequestKeeps ==
  ASSUME CreationInv, NEW c \in Creations, NEW n \in Attempts, Request(c, n)
  PROVE  CreationInv'
<1>1. /\ Typed /\ Safe(c) /\ daemon.status = "up" /\ exec.at = "idle"
      /\ Prepared(c, n) /\ exec' = [at |-> "prepared", by |-> [c |-> c, n |-> n],
                                    evidence |-> "none"]
      /\ UNCHANGED <<row, place, host, live, daemon, closer, spent>>
  BY DEF CreationInv, Request, At
<1>2. exec = Idle
  BY <1>1 DEF Typed, ExecTyped, Runs, Steps
<1>3. /\ ReceiptsTyped' /\ receipt'[c].state = "prepared"
      /\ receipt[c].state \in Early
      /\ \A k \in Creations \ {c} : receipt'[k] = receipt[k]
  <2>1. Answer(c, n) = "execute"
    BY DEF Request
  <2>2. receipt[c].state \in Early
    BY <1>1, <2>1 DEF Answer, Early, Typed, ReceiptsTyped, Receipts
  <2> QED
    BY <1>1, <2>2, PreparedKeeps
<1>4. exec' \in Runs /\ exec'.by.c = c /\ exec'.at = "prepared"
  BY <1>1 DEF Runs, Keys, Steps, Verdicts
<1>5. Typed'
  BY <1>1, <1>3, <1>4, StaysTyped DEF Typed
<1>6. Safe(c)'
  BY <1>1, <1>2, <1>3, <1>4
  DEF Safe, Ran, Tended, Fresh, Here, Early, Interrupted, Answered, Doing,
      Steps, Idle, Final
<1>7. \A k \in Creations \ {c} : Same(k)
  BY <1>1, <1>3 DEF Same
<1> QED
  BY <1>1, <1>2, <1>4, <1>5, <1>6, <1>7, OneMoves

LEMMA CloseDurablyKeeps ==
  ASSUME CreationInv, NEW c \in Creations, CloseDurably(c)
  PROVE  CreationInv'
<1>1. /\ Typed /\ Safe(c) /\ row[c] # "Absent" /\ closer = "none" /\ closer' = c
      /\ row' = [row EXCEPT ![c] = "Tombstoned"]
      /\ place' = [place EXCEPT ![c].published = FALSE]
      /\ UNCHANGED <<receipt, effect, host, live, daemon, exec>>
  BY DEF CreationInv, CloseDurably, SameReceipts
<1>2. /\ RowsTyped' /\ row'[c] = "Tombstoned"
      /\ \A k \in Creations \ {c} : row'[k] = row[k]
  BY <1>1 DEF Typed, RowsTyped, Rows, Final
<1>3. /\ PlacesTyped' /\ place'[c].workspace = place[c].workspace
      /\ \A k \in Creations \ {c} : place'[k] = place[k]
  BY <1>1 DEF Typed, PlacesTyped, Places
<1>4. SpentTyped' /\ OthersTyped'
  BY <1>1 DEF CloseDurably, Typed, SpentTyped, OthersTyped
<1>5. Typed'
  BY <1>1, <1>2, <1>3, <1>4, StaysTyped DEF Typed
<1>6. Safe(c)'
  BY <1>1, <1>2, <1>3
  DEF Safe, Ran, Tended, Fresh, Here, Early, Interrupted, Answered, Doing,
      Steps, Idle, Final
<1>7. \A k \in Creations \ {c} : Same(k)
  BY <1>1, <1>2, <1>3, CreationAssumption DEF Same
<1> QED
  BY <1>1, <1>5, <1>6, <1>7, OneMoves

LEMMA CloseRemovesKeeps ==
  ASSUME CreationInv, CloseRemoves
  PROVE  CreationInv'
<1>1. PICK c \in Creations :
        /\ c = closer /\ Typed /\ Safe(c) /\ closer' = "none"
        /\ IF live[c].runtime \/ live[c].sought THEN Detached(c) ELSE UNCHANGED live
        /\ Killed(c) \/ (~live[c].runtime /\ UNCHANGED host)
        /\ UNCHANGED <<receipt, effect, row, place, daemon, exec, spent>>
  BY DEF CreationInv, CloseRemoves, Typed, OthersTyped, SameReceipts
<1>2. /\ HostsTyped' /\ host'[c].runs = host[c].runs
      /\ host'[c].process # "alive" \/ (~live[c].runtime /\ host' = host)
      /\ host'[c].missed = host[c].missed
      /\ host[c].process = "none" => host'[c].process = "none"
      /\ \A k \in Creations \ {c} : host'[k] = host[k]
  <2>1. CASE Killed(c)
    BY <1>1, <2>1, KilledKeeps
  <2>2. CASE ~live[c].runtime /\ UNCHANGED host
    BY <1>1, <2>2 DEF Typed, HostsTyped
  <2> QED
    BY <1>1, <2>1, <2>2
<1>3. /\ LivesTyped' /\ ~live'[c].runtime /\ live'[c].sought = live[c].sought
      /\ \A k \in Creations \ {c} : live'[k] = live[k]
  <2>1. CASE Detached(c)
    BY <1>1, <2>1, DetachedKeeps
  <2>2. CASE ~live[c].runtime /\ UNCHANGED live
    BY <1>1, <2>2 DEF Typed, LivesTyped
  <2> QED
    BY <1>1, <2>1, <2>2
<1>4. Typed'
  BY <1>1, <1>2, <1>3, StaysTyped DEF Typed, OthersTyped
<1>5. Safe(c)'
  BY <1>1, <1>2, <1>3
  DEF Safe, Ran, Tended, Fresh, Here, Early, Interrupted, Answered, Doing,
      Steps, Idle, Final
<1>6. \A k \in Creations \ {c} : Same(k)
  BY <1>1, <1>2, <1>3 DEF Same
<1> QED
  BY <1>1, <1>4, <1>5, <1>6, OneMoves

LEMMA PublishRecordKeeps ==
  ASSUME CreationInv, NEW c \in Creations, PublishRecord(c)
  PROVE  CreationInv'
<1>1. /\ Typed /\ Safe(c) /\ host' = [host EXCEPT ![c].record = TRUE]
      /\ UNCHANGED <<receipt, effect, row, place, live, daemon, exec, closer, spent>>
  BY DEF CreationInv, PublishRecord, SameReceipts
<1>2. /\ HostsTyped' /\ host'[c].process = host[c].process
      /\ host'[c].runs = host[c].runs /\ host'[c].missed = host[c].missed
      /\ \A k \in Creations \ {c} : host'[k] = host[k]
  <2>1. host \in [Creations -> Hosts] /\ host[c] \in Hosts
    BY <1>1 DEF Typed, HostsTyped
  <2>2. host' = [host EXCEPT ![c] = [host[c] EXCEPT !.record = TRUE]]
    BY <1>1, <2>1
  <2> QED
    BY <2>1, <2>2 DEF HostsTyped, Hosts
<1>3. Typed'
  BY <1>1, <1>2, StaysTyped DEF Typed
<1>4. Safe(c)'
  BY <1>1, <1>2
  DEF Safe, Ran, Tended, Fresh, Here, Early, Interrupted, Answered, Doing
<1>5. \A k \in Creations \ {c} : Same(k)
  BY <1>1, <1>2 DEF Same
<1> QED
  BY <1>1, <1>3, <1>4, <1>5, OneMoves

LEMMA AdoptionKeeps ==
  ASSUME CreationInv, NEW c \in Creations, Adoption(c)
  PROVE  CreationInv'
<1>1. /\ Typed /\ Safe(c) /\ live[c].sought /\ daemon.status # "down"
      /\ UNCHANGED <<receipt, effect, daemon, exec, closer, spent>>
  BY DEF CreationInv, Adoption, SameReceipts
<1>2. /\ row[c] # "Absent" /\ receipt[c].state \notin Early /\ ~Here(c)
  BY <1>1 DEF Safe, Ran, Fresh
<1>3. CASE /\ row[c] \in Living
           /\ row' = [row EXCEPT ![c] = "Running"]
           /\ live' = [live EXCEPT ![c] =
                [runtime |-> TRUE, tab |-> TRUE, sought |-> FALSE]]
           /\ UNCHANGED <<place, host>>
  <2>1. /\ RowsTyped' /\ row'[c] = "Running"
        /\ \A k \in Creations \ {c} : row'[k] = row[k]
    BY <1>1, <1>3 DEF Typed, RowsTyped, Rows, Living
  <2>2. /\ LivesTyped' /\ live'[c].runtime /\ live'[c].tab /\ ~live'[c].sought
        /\ \A k \in Creations \ {c} : live'[k] = live[k]
    BY <1>1, <1>3 DEF Typed, LivesTyped, Lives
  <2>3. Typed'
    BY <1>1, <1>3, <2>1, <2>2, StaysTyped DEF Typed
  <2>4. row[c] \notin Final
    BY <1>3 DEF Living, Final
  <2>5. Safe(c)'
    BY <1>1, <1>2, <1>3, <2>1, <2>2, <2>4
    DEF Safe, Ran, Tended, Fresh, Here, Early, Interrupted, Answered, Doing, Steps
  <2>6. \A k \in Creations \ {c} : Same(k)
    BY <1>1, <1>3, <2>1, <2>2 DEF Same
  <2> QED
    BY <1>1, <2>3, <2>5, <2>6, OneMoves
<1>4. CASE /\ row[c] \in Living /\ host[c].process = "dead"
           /\ ExitPersisted(c) /\ UNCHANGED host
           /\ live' = [live EXCEPT ![c] = Nothing]
  <2>1. /\ RowsTyped' /\ PlacesTyped'
        /\ row'[c] \in Final /\ place'[c].workspace = place[c].workspace
        /\ \A k \in Creations \ {c} : row'[k] = row[k] /\ place'[k] = place[k]
    BY <1>1, <1>4, ExitKeeps
  <2>2. /\ LivesTyped' /\ ~live'[c].runtime /\ ~live'[c].sought
        /\ \A k \in Creations \ {c} : live'[k] = live[k]
    BY <1>1, <1>4 DEF Typed, LivesTyped, Lives, Nothing
  <2>3. Typed'
    BY <1>1, <1>4, <2>1, <2>2, StaysTyped DEF Typed
  <2>4. Safe(c)'
    BY <1>1, <1>2, <1>4, <2>1, <2>2
    DEF Safe, Ran, Tended, Fresh, Here, Early, Interrupted, Answered, Doing,
        Steps, Final
  <2>5. \A k \in Creations \ {c} : Same(k)
    BY <1>1, <1>4, <2>1, <2>2 DEF Same
  <2> QED
    BY <1>1, <2>3, <2>4, <2>5, OneMoves
<1>5. CASE /\ row[c] \in Final /\ Killed(c) /\ UNCHANGED <<row, place>>
           /\ live' = [live EXCEPT ![c] = Nothing]
  <2>1. /\ HostsTyped' /\ host'[c].process # "alive" /\ host'[c].runs = host[c].runs
        /\ host'[c].missed = host[c].missed
        /\ host[c].process = "none" => host'[c].process = "none"
        /\ \A k \in Creations \ {c} : host'[k] = host[k]
    BY <1>1, <1>5, KilledKeeps
  <2>2. /\ LivesTyped' /\ ~live'[c].runtime /\ ~live'[c].sought
        /\ \A k \in Creations \ {c} : live'[k] = live[k]
    BY <1>1, <1>5 DEF Typed, LivesTyped, Lives, Nothing
  <2>3. Typed'
    BY <1>1, <1>5, <2>1, <2>2, StaysTyped DEF Typed
  <2>4. Safe(c)'
    BY <1>1, <1>2, <1>5, <2>1, <2>2
    DEF Safe, Ran, Tended, Fresh, Here, Early, Interrupted, Answered, Doing,
        Steps, Final
  <2>5. \A k \in Creations \ {c} : Same(k)
    BY <1>1, <1>5, <2>1, <2>2 DEF Same
  <2> QED
    BY <1>1, <2>3, <2>4, <2>5, OneMoves
<1> QED
  BY <1>3, <1>4, <1>5 DEF Adoption

LEMMA ShellExitsKeeps ==
  ASSUME CreationInv, NEW c \in Creations, ShellExits(c)
  PROVE  CreationInv'
<1>1. /\ Typed /\ Safe(c) /\ Killed(c)
      /\ UNCHANGED <<receipt, effect, row, place, live, daemon, exec, closer, spent>>
  BY DEF CreationInv, ShellExits, SameReceipts
<1>2. /\ HostsTyped' /\ host'[c].process # "alive" /\ host'[c].runs = host[c].runs
      /\ host'[c].missed = host[c].missed
      /\ host[c].process = "none" => host'[c].process = "none"
      /\ \A k \in Creations \ {c} : host'[k] = host[k]
  BY <1>1, KilledKeeps
<1>3. Typed'
  BY <1>1, <1>2, StaysTyped DEF Typed
<1>4. Safe(c)'
  BY <1>1, <1>2
  DEF Safe, Ran, Tended, Fresh, Here, Early, Interrupted, Answered, Doing,
      Steps, Idle, Final
<1>5. \A k \in Creations \ {c} : Same(k)
  BY <1>1, <1>2 DEF Same
<1> QED
  BY <1>1, <1>3, <1>4, <1>5, OneMoves

LEMMA SurfaceExitedKeeps ==
  ASSUME CreationInv, NEW c \in Creations, SurfaceExited(c)
  PROVE  CreationInv'
<1>1. /\ Typed /\ Safe(c) /\ exec.at = "idle" /\ host[c].process = "dead"
      /\ ExitPersisted(c) /\ Detached(c)
      /\ UNCHANGED <<receipt, effect, host, daemon, exec, closer, spent>>
  BY DEF CreationInv, SurfaceExited, At, SameReceipts
<1>2. /\ RowsTyped' /\ PlacesTyped'
      /\ row'[c] \in Final /\ place'[c].workspace = place[c].workspace
      /\ \A k \in Creations \ {c} : row'[k] = row[k] /\ place'[k] = place[k]
  BY <1>1, ExitKeeps
<1>3. /\ LivesTyped' /\ ~live'[c].runtime /\ live'[c].sought = live[c].sought
      /\ \A k \in Creations \ {c} : live'[k] = live[k]
  BY <1>1, DetachedKeeps
<1>4. Typed'
  BY <1>1, <1>2, <1>3, StaysTyped DEF Typed
<1>5. Safe(c)'
  BY <1>1, <1>2, <1>3
  DEF Safe, Ran, Tended, Fresh, Here, Early, Interrupted, Answered, Doing,
      Steps, Idle, Final
<1>6. \A k \in Creations \ {c} : Same(k)
  BY <1>1, <1>2, <1>3 DEF Same
<1> QED
  BY <1>1, <1>4, <1>5, <1>6, OneMoves

-----------------------------------------------------------------------------
(* The daemon.                                                             *)
LEMMA CrashKeeps ==
  ASSUME CreationInv, Crash
  PROVE  CreationInv'
<1>1. /\ Typed /\ Stops /\ closer' = "none"
      /\ UNCHANGED <<receipt, effect, row, place, host, spent>>
  BY DEF CreationInv, Crash, SameReceipts
<1>2. /\ LivesTyped' /\ ExecTyped' /\ OthersTyped'
  BY <1>1, StoppedIsTyped DEF OthersTyped
<1>3. /\ ReceiptsTyped' /\ RowsTyped' /\ PlacesTyped' /\ HostsTyped'
      /\ SpentTyped'
  BY <1>1, StaysTyped
<1>4. Typed'
  BY <1>2, <1>3 DEF Typed
<1> QED
  BY <1>1, <1>4, StopsKeeps

LEMMA StartKeeps ==
  ASSUME CreationInv, Start
  PROVE  CreationInv'
<1>1. /\ Typed /\ exec = Idle /\ \A c \in Creations : Safe(c)
      /\ daemon.status = "down"
      /\ UNCHANGED <<receipt, effect, exec, closer>>
  BY DEF CreationInv, Start, SameReceipts
<1>2. OthersTyped' /\ SpentTyped' /\ daemon'.status = "starting"
  <2>1. /\ daemon' = [status |-> "starting", gen |-> daemon.gen + 1]
        /\ closer' = closer /\ spent' = [spent EXCEPT !.left = {}]
    BY DEF Start
  <2>2. daemon' \in Daemons /\ closer' \in Creations \cup {"none"}
    BY <1>1, <2>1 DEF Typed, OthersTyped, Daemons
  <2>3. SpentTyped'
    BY <1>1, <2>1 DEF Typed, SpentTyped
  <2> QED
    BY <2>1, <2>2, <2>3 DEF OthersTyped
<1>3. PICK reached \in SUBSET {c \in Creations : Listed(c)} :
        /\ row' = [c \in Creations |-> Recovered(c, reached)]
        /\ live' = [c \in Creations |->
             [runtime |-> c \in reached /\ Adopted(c),
              tab |-> \/ c \in reached /\ Adopted(c)
                      \/ Listed(c) /\ row[c] \in Living /\ place[c].published,
              sought |-> /\ Listed(c)
                         /\ (c \in reached => row[c] \in Living /\ ~HasPlace(c))]]
        /\ host' = [c \in Creations |->
             [host[c] EXCEPT
               !.process = IF c \in reached /\ row[c] \in Final THEN "dead" ELSE @,
               !.missed = host[c].process = "alive" /\ ~host[c].record]]
  BY DEF Start
<1>4. /\ RowsTyped'
      /\ \A c \in Creations :
           /\ row[c] \notin Living => row'[c] = row[c]
           /\ row[c] \in Living => row'[c] \in {"Running", "Adopting", "Exited"}
           /\ row[c] \in Living /\ ~Listed(c) => row'[c] = "Exited"
  <2>1. ASSUME NEW c \in Creations
        PROVE  /\ row[c] \notin Living => Recovered(c, reached) = row[c]
               /\ row[c] \in Living =>
                    Recovered(c, reached) \in {"Running", "Adopting", "Exited"}
               /\ row[c] \in Living /\ ~Listed(c) => Recovered(c, reached) = "Exited"
    BY <1>3 DEF Recovered
  <2>2. ASSUME NEW c \in Creations
        PROVE  Recovered(c, reached) \in Rows
    BY <1>1, <2>1 DEF Typed, RowsTyped, Rows, Living, Final
  <2> QED
    BY <1>3, <2>1, <2>2 DEF RowsTyped
<1>5. /\ LivesTyped'
      /\ \A c \in Creations :
           /\ live'[c].runtime <=> c \in reached /\ Adopted(c)
           /\ live'[c].runtime => live'[c].tab
           /\ live'[c].sought <=>
                Listed(c) /\ (c \in reached => row[c] \in Living /\ ~HasPlace(c))
  <2>1. \A c \in Creations : place[c].published \in BOOLEAN
    BY <1>1 DEF Typed, PlacesTyped, Places
  <2> QED
    BY <1>3, <2>1 DEF LivesTyped, Lives
<1>6. /\ PlacesTyped'
      /\ \A c \in Creations :
           place'[c].workspace = "staged" => place[c].workspace = "staged"
  <2>1. \A c \in Creations : place[c] \in Places
    BY <1>1 DEF Typed, PlacesTyped
  <2>2. place' = [c \in Creations |->
          [published |-> place[c].published /\ row[c] \in Living /\ Listed(c),
           workspace |-> IF place[c].workspace = "staged" /\ ~HasPlace(c)
                         THEN "stranded" ELSE place[c].workspace]]
    BY DEF Start
  <2> QED
    BY <2>1, <2>2 DEF PlacesTyped, Places
<1>7. /\ HostsTyped'
      /\ \A c \in Creations :
           /\ host'[c].runs = host[c].runs
           /\ host[c].process = "none" => host'[c].process = "none"
           /\ host'[c].process = "alive" =>
                host[c].process = "alive" /\ ~(c \in reached /\ row[c] \in Final)
           /\ host'[c].missed <=> host[c].process = "alive" /\ ~host[c].record
  <2>1. \A c \in Creations : host[c] \in Hosts
    BY <1>1 DEF Typed, HostsTyped
  <2>2. ASSUME NEW c \in Creations, c \in reached /\ row[c] \in Final
        PROVE  host[c].process = "alive"
    BY <1>3, <2>2 DEF Listed
  <2> QED
    BY <1>3, <2>1, <2>2 DEF HostsTyped, Hosts
<1>8. Typed'
  BY <1>1, <1>2, <1>4, <1>5, <1>6, <1>7, StaysTyped DEF Typed
<1>9. ASSUME NEW c \in Creations
      PROVE  Safe(c)'
  <2>1. /\ row[c] \in Rows /\ exec' = Idle /\ Safe(c)
        /\ \A S \in SUBSET Steps : ~Doing(c, S)'
    BY <1>1 DEF Typed, RowsTyped, Doing, Idle, Steps
  <2>2. Listed(c) <=> host[c].process = "alive" /\ host[c].record
    BY DEF Listed
  <2>3. c \in reached => Listed(c)
    BY <1>3
  <2>4. row[c] = "Absent" => host[c].process = "none"
    BY <2>1 DEF Safe, Ran
  <2>5. Ran(c)'
    <3>1. row'[c] = "Absent" => row[c] = "Absent"
      BY <1>4, <2>1 DEF Rows, Living, Final
    <3>2. row[c] = "Absent" => /\ host[c].process = "none" /\ host[c].runs = 0
      BY <2>1, <2>4 DEF Safe, Ran
    <3>3. row[c] = "Absent" => ~live'[c].runtime /\ ~live'[c].sought /\ ~host'[c].missed
      BY <1>5, <1>7, <2>2, <2>3, <3>2
    <3>4. /\ host'[c].runs \in {0, 1}
          /\ host'[c].runs = 0 => host'[c].process = "none"
      BY <1>7, <2>1 DEF Safe, Ran
    <3>5. ~Doing(c, {"launch"})' /\ ~Doing(c, {"launch", "ready", "insert", "attach", "commit"})'
      BY <2>1 DEF Steps
    <3> QED
      BY <1>7, <3>1, <3>2, <3>3, <3>4, <3>5 DEF Ran
  <2>6. Tended(c)'
    <3>1. ASSUME host'[c].process = "alive"
          PROVE  \/ live'[c].runtime /\ live'[c].tab
                 \/ live'[c].sought \/ host'[c].missed
      <4>1. /\ host[c].process = "alive" /\ ~(c \in reached /\ row[c] \in Final)
            /\ row[c] # "Absent"
        BY <1>7, <2>4, <3>1
      <4>2. CASE ~host[c].record
        BY <1>7, <4>1, <4>2
      <4>3. CASE host[c].record /\ (c \notin reached \/ ~HasPlace(c))
        BY <1>5, <2>1, <2>2, <4>1, <4>3 DEF Rows
      <4>4. CASE c \in reached /\ HasPlace(c)
        BY <1>5, <2>1, <4>1, <4>4 DEF Adopted, Rows
      <4> QED
        BY <4>2, <4>3, <4>4
    <3>2. ~Doing(c, {"attach"})' /\ (live'[c].runtime => live'[c].tab)
      BY <1>5, <2>1 DEF Steps
    <3> QED
      BY <3>1, <3>2 DEF Tended
  <2>7. Fresh(c)'
    <3>1. receipt[c].state \in Early => host[c].process # "alive"
      BY <2>1 DEF Safe, Fresh
    <3>2. receipt[c].state \in Early =>
            host'[c].process # "alive" /\ ~live'[c].sought /\ ~host'[c].missed
      BY <1>5, <1>7, <2>2, <3>1
    <3>3. ~Here(c)' /\ ~Doing(c, {"prepared"})' /\ ~Doing(c, Steps \ {"prepared"})'
      BY <2>1 DEF Here, Steps
    <3> QED
      BY <1>1, <3>2, <3>3 DEF Fresh
  <2>8. Answered(c)'
    <3>1. ASSUME receipt[c].state = "not_applied"
          PROVE  /\ row'[c] \in Final \cup {"Absent"} /\ ~live'[c].runtime
                 /\ place'[c].workspace # "staged"
      <4>1. /\ host[c].process # "alive" /\ row[c] \in Final \cup {"Absent"}
            /\ place[c].workspace # "staged"
        BY <2>1, <3>1 DEF Safe, Fresh, Early, Answered
      <4>2. row'[c] = row[c]
        BY <1>4, <4>1 DEF Living, Final
      <4> QED
        BY <1>5, <1>6, <2>2, <2>3, <4>1, <4>2
    <3>2. ~Doing(c, {"settle"})'
      BY <2>1 DEF Steps
    <3> QED
      BY <1>1, <3>1, <3>2 DEF Answered
  <2> QED
    BY <2>5, <2>6, <2>7, <2>8 DEF Safe
<1> QED
  BY <1>1, <1>2, <1>8, <1>9 DEF CreationInv

LEMMA ServeKeeps ==
  ASSUME CreationInv, Serve
  PROVE  CreationInv'
<1>1. /\ Typed /\ exec = Idle /\ \A c \in Creations : Safe(c)
      /\ daemon.status = "starting" /\ daemon' = [daemon EXCEPT !.status = "up"]
      /\ UNCHANGED <<receipt, effect, row, place, host, live, exec, closer, spent>>
  BY DEF CreationInv, Serve, SameReceipts
<1>2. OthersTyped' /\ daemon'.status = "up"
  BY <1>1 DEF Typed, OthersTyped, Daemons
<1>3. Typed'
  BY <1>1, <1>2, StaysTyped DEF Typed
<1>4. \A c \in Creations : Safe(c)'
  BY <1>1, <1>2
  DEF Safe, Ran, Tended, Fresh, Here, Early, Interrupted, Answered, Doing,
      Steps, Idle, Final
<1> QED
  BY <1>1, <1>2, <1>3, <1>4 DEF CreationInv

-----------------------------------------------------------------------------
(* Every step keeps the invariant.                                         *)
LEMMA InitHolds == Init => CreationInv
<1> SUFFICES ASSUME Init PROVE CreationInv
  OBVIOUS
<1>1. /\ ReceiptsTyped /\ RowsTyped /\ PlacesTyped /\ HostsTyped /\ LivesTyped
  BY CreationAssumption
  DEF Init, ReceiptsTyped, RowsTyped, PlacesTyped, HostsTyped, LivesTyped,
      Receipts, Effects, Rows, Places, Hosts, Lives, Nothing
<1>2. ExecTyped /\ OthersTyped /\ SpentTyped
  BY CreationAssumption DEF Init, ExecTyped, OthersTyped, SpentTyped, Daemons
<1>3. \A c \in Creations : Safe(c)
  BY DEF Init, Safe, Ran, Tended, Fresh, Here, Early, Answered, Doing, Steps,
         Idle, Nothing
<1> QED
  BY <1>1, <1>2, <1>3 DEF CreationInv, Typed, Init

LEMMA StepKeeps ==
  ASSUME CreationInv, [Next]_vars
  PROVE  CreationInv'
<1>1. ASSUME Execute
      PROVE  CreationInv'
  BY <1>1, MarkExecutingKeeps, CreateWorkspaceKeeps, ReserveKeeps,
     ReserveFailsKeeps, LaunchKeeps, LaunchFailsKeeps, ReadyKeeps, InsertKeeps,
     AttachTabKeeps, AttachToWorkspaceKeeps, AttachFailsKeeps, CommitKeeps,
     CommitFailsKeeps
  DEF Execute
<1>2. ASSUME Settle
      PROVE  CreationInv'
  BY <1>2, LooksAtFailureKeeps, LooksAtInterruptedKeeps, SettleCreatedKeeps,
     SettleNotAppliedKeeps, SettleIndeterminateKeeps, SettleFailsKeeps
  DEF Settle
<1>3. ASSUME NEW c \in Creations, NEW n \in Attempts, Request(c, n)
      PROVE  CreationInv'
  BY <1>3, RequestKeeps
<1>4. ASSUME NEW c \in Creations,
             \/ CloseDurably(c) \/ ShellExits(c) \/ SurfaceExited(c)
             \/ PublishRecord(c) \/ Adoption(c)
      PROVE  CreationInv'
  BY <1>4, CloseDurablyKeeps, ShellExitsKeeps, SurfaceExitedKeeps,
     PublishRecordKeeps, AdoptionKeeps
<1>5. ASSUME Daemon \/ Crash \/ CloseRemoves
      PROVE  CreationInv'
  BY <1>5, StartKeeps, ServeKeeps, CrashKeeps, CloseRemovesKeeps DEF Daemon
<1>6. CASE UNCHANGED vars
  <2>1. UNCHANGED <<receipt, effect, row, place, host, live, daemon, exec,
                    closer, spent>>
    BY <1>6 DEF vars
  <2>2. Typed'
    BY <2>1, StaysTyped DEF CreationInv, Typed
  <2>3. \A c \in Creations : Safe(c)'
    BY <2>1
    DEF CreationInv, Safe, Ran, Tended, Fresh, Here, Early, Interrupted,
        Answered, Doing
  <2> QED
    BY <2>1, <2>2, <2>3 DEF CreationInv
<1> QED
  BY <1>1, <1>2, <1>3, <1>4, <1>5, <1>6 DEF Next

(* CreationInv is inductive, whatever crashes, closes or exits, whichever  *)
(* host a start does not know or does not reach, and whichever write of a  *)
(* receipt or of a settlement fails.                                       *)
THEOREM CreationsInvariant == Spec => []CreationInv
<1>1. Init => CreationInv
  BY InitHolds
<1>2. CreationInv /\ [Next]_vars => CreationInv'
  BY StepKeeps
<1> QED
  BY <1>1, <1>2, PTL DEF Spec

(* Type correctness.                                                       *)
THEOREM TypeCorrect == Spec => []TypeOK
<1>1. CreationInv => TypeOK
  BY TypedIsTypeOK DEF CreationInv
<1> QED
  BY <1>1, CreationsInvariant, PTL

(* A command is launched only for a terminal that was just reserved, and a *)
(* reservation is never made twice: however often a creation is retried or *)
(* interrupted, its command runs at most once.                             *)
THEOREM CommandsRunOnce == Spec => []RunsOnce
<1>1. CreationInv => RunsOnce
  BY DEF CreationInv, Safe, Ran, RunsOnce
<1> QED
  BY <1>1, CreationsInvariant, PTL

(* When nothing runs, a host that lives has a runtime and a tab, or a      *)
(* thread that is still to adopt or end it, unless it had not published    *)
(* its record when the daemon last started.                                *)
THEOREM HostsStayVisible == Spec => []LiveHostHasTab
<1>1. CreationInv => LiveHostHasTab
  <2> SUFFICES ASSUME CreationInv, Quiet, NEW c \in Creations,
                      host[c].process = "alive"
               PROVE  \/ live[c].runtime /\ live[c].tab
                      \/ live[c].sought \/ host[c].missed
    BY DEF LiveHostHasTab
  <2>1. Tended(c) /\ daemon.status # "down"
    BY DEF CreationInv, Safe, Quiet
  <2>2. ~Doing(c, {"ready", "insert", "attach"})
    BY DEF Quiet, Idle, Doing
  <2> QED
    BY <2>1, <2>2 DEF Tended
<1> QED
  BY <1>1, CreationsInvariant, PTL

(* What is reported as not applied has left no process, no runtime and no  *)
(* staged workspace.                                                       *)
THEOREM NotAppliedIsTrue == Spec => []NotAppliedLeavesNothing
<1>1. CreationInv => NotAppliedLeavesNothing
  <2> SUFFICES ASSUME CreationInv, Quiet, NEW c \in Creations,
                      receipt[c].state = "not_applied"
               PROVE  /\ host[c].process # "alive" /\ ~live[c].runtime
                      /\ place[c].workspace # "staged"
    BY DEF NotAppliedLeavesNothing
  <2> QED
    BY DEF CreationInv, Safe, Fresh, Early, Answered
<1> QED
  BY <1>1, CreationsInvariant, PTL
=============================================================================
