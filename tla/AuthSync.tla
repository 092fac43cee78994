------------------------------- MODULE AuthSync -------------------------------
(***************************************************************************)
(* How the change of a key reaches the authentication snapshots of all     *)
(* instances: the key handlers (internal/service/key.go), the snapshot     *)
(* with its generation counter (internal/proxy/auth.go), NOTIFY with its   *)
(* listener (internal/notify), the debouncer (internal/invalidate), the    *)
(* periodic reload and the dispatcher (cmd/server).                        *)
(*                                                                         *)
(* One key, of which the plaintext (raw), the status and the deletion      *)
(* matter.  A reload captures the generation, reads the database and swaps *)
(* the map, three steps with anything in between; up to three reloads run  *)
(* at once on an instance: the debouncer's, the ticker's and the           *)
(* listener's refresh.                                                     *)
(***************************************************************************)
EXTENDS Integers, FiniteSets

CONSTANTS
  Instances,
  Homes,      \* instances that serve the key handlers
  Handlers,   \* handler slots
  MaxOps,     \* bound: calls of the handlers
  MaxFaults   \* bound: failed statements, reloads and publications, lost connections

ASSUME SyncConstants ==
  /\ Homes \subseteq Instances
  /\ MaxOps \in Nat /\ MaxFaults \in Nat

Raws == 1 .. MaxOps
Reloaders == {"event", "tick", "refresh"}
Metas == {"none", "on", "off"}
Maps  == [Raws -> Metas]

VARIABLES
  row,      \* the key's row: [state, raw, meta]
  used,     \* number of plaintexts generated
  keys,     \* instance -> its map: plaintext -> "none" or the status
  gen,      \* instance -> keysGen
  job,      \* handler -> [pc, at, op, cur, new]
  rel,      \* instance -> reloader -> [pc, gen, map]
  conn,     \* instance -> the listener has a connection
  boot,     \* instance -> bootLoaded
  inbox,    \* instance -> notifications on its connection
  dirty,    \* instance -> the debouncer's state is set
  missed,   \* history: instance -> a notification did not reach it, or a reload
            \*   failed, since the listener last refreshed
  overlap,  \* history: instance -> two reloads ran at once
  revoked,  \* history: instance -> plaintexts Auth.Delete removed there
  ops, faults

bounds == <<ops, faults>>
link == <<conn, boot, inbox, dirty, missed>>
vars == <<row, used, keys, gen, job, rel, link, overlap, revoked, bounds>>

Rows == [state: {"absent", "live", "dead"}, raw: 0 .. MaxOps, meta: {"on", "off"}]
Jobs == [pc: {"idle", "write", "remove", "insert", "publish"}, at: Instances,
         op: {"create", "update", "rotate", "delete"}, cur: 0 .. MaxOps, new: Rows]
Reloads == [pc: {"idle", "read", "swap"}, gen: Nat, map: Maps]

NoRow    == [state |-> "absent", raw |-> 0, meta |-> "on"]
Empty    == [r \in Raws |-> "none"]
NoJob    == [pc |-> "idle", at |-> CHOOSE i \in Instances : TRUE, op |-> "create", cur |-> 0,
             new |-> NoRow]
NoReload == [pc |-> "idle", gen |-> 0, map |-> Empty]

TypeOK ==
  /\ row \in Rows /\ used \in 0 .. MaxOps
  /\ keys \in [Instances -> Maps]
  /\ gen \in [Instances -> Nat]
  /\ job \in [Handlers -> Jobs]
  /\ rel \in [Instances -> [Reloaders -> Reloads]]
  /\ conn \in [Instances -> BOOLEAN] /\ boot \in [Instances -> BOOLEAN]
  /\ inbox \in [Instances -> Nat] /\ dirty \in [Instances -> BOOLEAN]
  /\ missed \in [Instances -> BOOLEAN]
  /\ overlap \in [Instances -> BOOLEAN] /\ revoked \in [Instances -> SUBSET Raws]

\* LoadKeys: what a reload finds in the database.
Loaded == [r \in Raws |-> IF row.state = "live" /\ row.raw = r THEN row.meta ELSE "none"]

-----------------------------------------------------------------------------
(***************************************************************************)
(* The key handlers.                                                       *)
(***************************************************************************)

Step(h, pc) == job' = [job EXCEPT ![h].pc = pc]

\* CreateKey, or ownedKey finding the key alive.
Begin(h, i, op) ==
  /\ job[h].pc = "idle" /\ ops < MaxOps
  /\ row.state = (IF op = "create" THEN "absent" ELSE "live")
  /\ ops' = ops + 1
  /\ job' = [job EXCEPT ![h] = [pc |-> "write", at |-> i, op |-> op, cur |-> row.raw, new |-> row]]
  /\ UNCHANGED <<row, used, keys, gen, rel, link, overlap, revoked, faults>>

\* The row after the statement of the operation; the updates do not look at
\* deleted_at.
Written(op) ==
  CASE op = "create" -> [state |-> "live", raw |-> used + 1, meta |-> "on"]
    [] op = "update" -> [row EXCEPT !.meta = IF row.meta = "on" THEN "off" ELSE "on"]
    [] op = "rotate" -> [row EXCEPT !.raw = used + 1]
    [] op = "delete" -> [row EXCEPT !.state = "dead"]

Write(h) ==
  LET op == job[h].op IN
  /\ job[h].pc = "write"
  /\ op \in {"create", "rotate"} => used < MaxOps
  /\ row' = Written(op)
  /\ used' = IF op \in {"create", "rotate"} THEN used + 1 ELSE used
  /\ job' = [job EXCEPT ![h].new = Written(op),
                        ![h].pc = IF op \in {"rotate", "delete"} THEN "remove" ELSE "insert"]
  /\ UNCHANGED <<keys, gen, rel, link, overlap, revoked, bounds>>

\* The statement fails: nothing has happened.
WriteFails(h) ==
  /\ job[h].pc = "write" /\ faults < MaxFaults
  /\ faults' = faults + 1
  /\ job' = [job EXCEPT ![h] = NoJob]
  /\ UNCHANGED <<row, used, keys, gen, rel, link, overlap, revoked, ops>>

\* Auth.Delete of the plaintext read at the beginning.
Remove(h) ==
  LET i == job[h].at IN
  /\ job[h].pc = "remove"
  /\ keys' = [keys EXCEPT ![i][job[h].cur] = "none"]
  /\ gen' = [gen EXCEPT ![i] = @ + 1]
  /\ revoked' = [revoked EXCEPT ![i] = @ \cup {job[h].cur}]
  /\ Step(h, IF job[h].op = "rotate" THEN "insert" ELSE "publish")
  /\ UNCHANGED <<row, used, rel, link, overlap, bounds>>

\* Auth.Upsert of the row the statement returned.
Insert(h) ==
  LET i == job[h].at IN
  /\ job[h].pc = "insert"
  /\ keys' = [keys EXCEPT ![i][job[h].new.raw] = job[h].new.meta]
  /\ gen' = [gen EXCEPT ![i] = @ + 1]
  /\ Step(h, "publish")
  /\ UNCHANGED <<row, used, rel, link, overlap, revoked, bounds>>

\* NOTIFY reaches the instances that listen; the sender ignores its own.
Publish(h) ==
  LET others == Instances \ {job[h].at} IN
  /\ job[h].pc = "publish"
  /\ inbox' = [i \in Instances |-> IF i \in others /\ conn[i] THEN inbox[i] + 1 ELSE inbox[i]]
  /\ missed' = [i \in Instances |-> missed[i] \/ (i \in others /\ ~conn[i])]
  /\ job' = [job EXCEPT ![h] = NoJob]
  /\ UNCHANGED <<row, used, keys, gen, rel, conn, boot, dirty, overlap, revoked, bounds>>

\* The error is dropped: the change is made, nobody is told.
PublishFails(h) ==
  /\ job[h].pc = "publish" /\ faults < MaxFaults
  /\ faults' = faults + 1
  /\ missed' = [i \in Instances |-> missed[i] \/ i # job[h].at]
  /\ job' = [job EXCEPT ![h] = NoJob]
  /\ UNCHANGED <<row, used, keys, gen, rel, conn, boot, inbox, dirty, overlap, revoked, ops>>

-----------------------------------------------------------------------------
(***************************************************************************)
(* Auth.Reload.                                                            *)
(***************************************************************************)

\* A reload that has captured the generation of the moment.
Captured(i, p) ==
  /\ rel' = [rel EXCEPT ![i][p].pc = "read", ![i][p].gen = gen[i]]
  /\ overlap' = [overlap EXCEPT ![i] = @ \/ \E q \in Reloaders : rel[i][q].pc # "idle"]

\* Variant: the periodic reload only while the listener has no connection.
TickOffline(i) ==
  /\ ~conn[i] /\ rel[i]["tick"].pc = "idle"
  /\ Captured(i, "tick")
  /\ UNCHANGED <<row, used, keys, gen, job, link, revoked, bounds>>

Tick(i) ==
  /\ rel[i]["tick"].pc = "idle"
  /\ Captured(i, "tick")
  /\ UNCHANGED <<row, used, keys, gen, job, link, revoked, bounds>>

\* flush takes the debouncer's state and then reloads; what is marked from now
\* on is for the next flush.
Flush(i) ==
  /\ dirty[i] /\ rel[i]["event"].pc = "idle"
  /\ dirty' = [dirty EXCEPT ![i] = FALSE]
  /\ Captured(i, "event")
  /\ UNCHANGED <<row, used, keys, gen, job, conn, boot, inbox, missed, revoked, bounds>>

Read(i, p) ==
  /\ rel[i][p].pc = "read"
  /\ rel' = [rel EXCEPT ![i][p].pc = "swap", ![i][p].map = Loaded]
  /\ missed' = [missed EXCEPT ![i] = @ /\ p # "refresh"]
  /\ UNCHANGED <<row, used, keys, gen, job, conn, boot, inbox, dirty, overlap, revoked, bounds>>

Stop(i) ==
  /\ conn' = [conn EXCEPT ![i] = FALSE]
  /\ inbox' = [inbox EXCEPT ![i] = 0]

\* The old map stays; the listener gives up a connection it could not refresh on.
ReadFails(i, p) ==
  /\ rel[i][p].pc = "read" /\ faults < MaxFaults
  /\ faults' = faults + 1
  /\ rel' = [rel EXCEPT ![i][p] = NoReload]
  /\ missed' = [missed EXCEPT ![i] = TRUE]
  /\ IF p = "refresh" THEN Stop(i) ELSE UNCHANGED <<conn, inbox>>
  /\ UNCHANGED <<row, used, keys, gen, job, boot, dirty, overlap, revoked, ops>>


\* The map is swapped unless a local change came in between.
Swap(i, p) ==
  /\ rel[i][p].pc = "swap"
  /\ keys' = IF gen[i] = rel[i][p].gen THEN [keys EXCEPT ![i] = rel[i][p].map] ELSE keys
  /\ rel' = [rel EXCEPT ![i][p] = NoReload]
  /\ UNCHANGED <<row, used, gen, job, link, overlap, revoked, bounds>>

-----------------------------------------------------------------------------
(***************************************************************************)
(* The listener.                                                           *)
(***************************************************************************)

\* LISTEN, then FullRefresh, which skips the reload the first time after a
\* start that loaded everything.
Connect(i) ==
  /\ ~conn[i] /\ rel[i]["refresh"].pc = "idle"
  /\ conn' = [conn EXCEPT ![i] = TRUE]
  /\ boot' = [boot EXCEPT ![i] = FALSE]
  /\ IF boot[i] THEN UNCHANGED <<rel, overlap>> ELSE Captured(i, "refresh")
  /\ UNCHANGED <<row, used, keys, gen, job, inbox, dirty, missed, revoked, bounds>>


\* consume and Apply: the debouncer is marked.
Deliver(i) ==
  /\ inbox[i] > 0 /\ rel[i]["refresh"].pc = "idle"
  /\ inbox' = [inbox EXCEPT ![i] = @ - 1]
  /\ dirty' = [dirty EXCEPT ![i] = TRUE]
  /\ UNCHANGED <<row, used, keys, gen, job, rel, conn, boot, missed, overlap, revoked, bounds>>

\* The connection breaks while notifications are consumed.
Cut(i) ==
  /\ conn[i] /\ rel[i]["refresh"].pc = "idle" /\ faults < MaxFaults
  /\ faults' = faults + 1
  /\ Stop(i)
  /\ missed' = [missed EXCEPT ![i] = @ \/ inbox[i] > 0]
  /\ UNCHANGED <<row, used, keys, gen, job, rel, boot, dirty, overlap, revoked, ops>>

-----------------------------------------------------------------------------
\* All instances have loaded an empty table and do not listen yet.
Init ==
  /\ row = NoRow /\ used = 0
  /\ keys = [i \in Instances |-> Empty]
  /\ gen = [i \in Instances |-> 0]
  /\ job = [h \in Handlers |-> NoJob]
  /\ rel = [i \in Instances |-> [p \in Reloaders |-> NoReload]]
  /\ conn = [i \in Instances |-> FALSE] /\ boot = [i \in Instances |-> TRUE]
  /\ inbox = [i \in Instances |-> 0] /\ dirty = [i \in Instances |-> FALSE]
  /\ missed = [i \in Instances |-> FALSE]
  /\ overlap = [i \in Instances |-> FALSE] /\ revoked = [i \in Instances |-> {}]
  /\ ops = 0 /\ faults = 0

Handler(h) ==
  \/ \E i \in Homes, op \in {"create", "update", "rotate", "delete"} : Begin(h, i, op)
  \/ Write(h) \/ WriteFails(h) \/ Remove(h) \/ Insert(h) \/ Publish(h) \/ PublishFails(h)

Snapshot(i) ==
  \/ Tick(i) \/ Flush(i) \/ Connect(i) \/ Deliver(i) \/ Cut(i)
  \/ \E p \in Reloaders : Read(i, p) \/ ReadFails(i, p) \/ Swap(i, p)

Next == (\E h \in Handlers : Handler(h)) \/ (\E i \in Instances : Snapshot(i))

Spec == Init /\ [][Next]_vars

\* The ticker comes round, and a reload or handler that has begun goes on.
FairSpec ==
  /\ Spec
  /\ \A h \in Handlers : WF_vars(Remove(h)) /\ WF_vars(Insert(h)) /\ WF_vars(Publish(h))
  /\ \A i \in Instances :
       /\ WF_vars(Tick(i))
       /\ \A p \in Reloaders : WF_vars(Read(i, p)) /\ WF_vars(Swap(i, p))

-----------------------------------------------------------------------------
(***************************************************************************)
(* Properties.                                                             *)
(***************************************************************************)


\* Nothing is under way for instance i.
Quiet(i) ==
  /\ \A h \in Handlers : job[h].pc \in {"idle", "write"}
  /\ inbox[i] = 0 /\ ~dirty[i]
  /\ \A p \in Reloaders : rel[i][p].pc = "idle"


\* Whatever was lost, the periodic reload brings every instance in line with
\* the database in the end.
EventuallySynced == <>[](\A i \in Instances : keys[i] = Loaded)
=============================================================================
