------------------------------ MODULE QuotaGate ------------------------------
(***************************************************************************)
(* The key-quota half of the concurrency gate (internal/proxy/gate.go) of  *)
(* one instance, for one client key.                                       *)
(*                                                                         *)
(* The gate publishes immutable snapshots through one atomic pointer; a    *)
(* snapshot points to the key's keyQuota object, whose fields are atomics. *)
(* Requests check the quota, are served and then deduct their cost.  Two   *)
(* kinds of rebuilder replace the snapshot: "sync" (Auth.Reload ->         *)
(* gate.reload, which copies the object) and the key-management handlers   *)
(* Admins (gate.upsert and gate.delete, which share or drop it).  An       *)
(* action is one atomic access, or accesses to one object that no other    *)
(* goroutine can tell apart.                                               *)
(***************************************************************************)
EXTENDS Integers

CONSTANTS
  Requests,     \* request slots (goroutines)
  Admins,       \* goroutines changing the key
  Costs,        \* what a request may cost
  Quota,        \* the key's quota at the start
  NewQuotas,    \* quotas an update may set; 0 removes the quota
  N,            \* ClusterInstances
  MaxServed,    \* bound: requests
  MaxReloads,   \* bound: Auth.Reload runs
  MaxUpdates,   \* bound: key updates and deletions
  MaxOther,     \* bound: consumption flushed by other instances
  MaxErrors,    \* bound: failed reads of quota_used
  None          \* no object

ASSUME QuotaConstants ==
  /\ Costs \subseteq Nat \ {0}
  /\ Quota \in Nat \ {0}
  /\ NewQuotas \subseteq Nat
  /\ N \in Nat \ {0}
  /\ MaxServed \in Nat /\ MaxReloads \in Nat /\ MaxUpdates \in Nat
  /\ MaxOther \in Nat /\ MaxErrors \in Nat
  /\ None \notin Nat \cup Admins \cup {"sync"} /\ "sync" \notin Admins

Snaps == 0 .. MaxReloads + MaxUpdates   \* one snapshot, and at most one
Objs  == Snaps                          \* object, per rebuild
Rebuilders == Admins \cup {"sync"}

VARIABLES
  db,        \* the keys row: [alive, quota, used]
  pending,   \* quota deltas recorded and not flushed
  auth,      \* KeyMeta in Auth.keys: [alive, quota, used]
  dirty,     \* Auth.keys changed since sync's load began (keyGen)
  store,     \* current snapshot
  snap,      \* snapshot -> [quota: object or None, retiring]
  ops,       \* snapshot -> requests counted in quotaOps
  obj,       \* object -> the fields of keyQuota
  mutex,     \* holder of snapshotMu
  rb,        \* rebuilder -> [pc, meta, quota: the object to publish]
  pc,        \* request -> where it is
  req,       \* request -> its locals
  tally,     \* history: consumption the published object must show
  served, reloads, updates, other, errors

bounds == <<served, reloads, updates, other, errors>>
vars == <<db, pending, auth, dirty, store, snap, ops, obj, mutex, rb, pc, req, tally, bounds>>

Metas == [alive: BOOLEAN, quota: Nat, used: Nat]
Quotas == [consumed: Nat, budget: Nat, base: Nat, exhausted: BOOLEAN,
           busy: BOOLEAN, backoff: BOOLEAN]

Reqs == [meta: Metas, q: Objs \cup {None}, at: Snaps, seen: Nat, eff: Nat,
         cost: Nat, took: Nat]
NoKey == [alive |-> FALSE, quota |-> 0, used |-> 0]

\* A new keyQuota, and a request's locals at its start.
Fresh(used) == [consumed |-> used, budget |-> 0, base |-> 0, exhausted |-> FALSE,
                busy |-> FALSE, backoff |-> FALSE]
NewReq(m) == [meta |-> m, q |-> None, at |-> 0, seen |-> 0, eff |-> 0, cost |-> 0, took |-> 0]

TypeOK ==
  /\ db \in Metas /\ auth \in Metas
  /\ pending \in Nat
  /\ dirty \in BOOLEAN
  /\ store \in Snaps
  /\ snap \in [Snaps -> [quota: Objs \cup {None}, retiring: BOOLEAN]]
  /\ ops \in [Snaps -> SUBSET Requests]
  /\ obj \in [Objs -> Quotas]
  /\ mutex \in Rebuilders \cup {None}
  /\ rb \in [Rebuilders -> [pc: {"idle", "read", "applied", "wait", "built"},
                            meta: Metas, quota: Objs \cup {None}]]
  /\ pc \in [Requests -> {"idle", "check", "claim", "dbread", "eff", "grant", "store",
                          "patch", "serving", "load", "enter", "recheck", "add", "exit"}]
  /\ req \in [Requests -> Reqs]
  /\ tally \in Nat

HasQuota(m) == m.quota > 0

\* ceilDiv: rounded up, 0 for what is not positive.
CeilDiv(a, b) == IF a <= 0 THEN 0 ELSE (a + b - 1) \div b

\* What a positive rest grants on top of what was consumed.
Budget(consumed, rest) == consumed + CeilDiv(rest, N)

\* allocBudget: the budget a rebuild gives the object.
AllocBudget(o, m) ==
  IF m.quota - m.used <= 0
  THEN [o EXCEPT !.budget = o.consumed, !.exhausted = TRUE]
  ELSE [o EXCEPT !.base = m.used, !.budget = Budget(o.consumed, m.quota - m.used),
                 !.exhausted = FALSE]

\* The quota entry of the published snapshot.
Live == snap[store].quota

-----------------------------------------------------------------------------
(***************************************************************************)
(* Requests: quotaExhausted and reclaim.                                   *)
(***************************************************************************)

Goto(r, l) == pc' = [pc EXCEPT ![r] = l]
Admit(r)   == Goto(r, "serving")
Reject(r)  == Goto(r, "idle")
Verdict(r, ok) == IF ok THEN Admit(r) ELSE Reject(r)

\* sync holds Auth.mu from the swap of the map to the end of gate.reload.
AuthLocked == rb["sync"].pc \in {"applied", "wait", "built"}

Authenticate(r) ==
  /\ pc[r] = "idle" /\ served < MaxServed
  /\ auth.alive /\ ~AuthLocked
  /\ req' = [req EXCEPT ![r] = NewReq(auth)]
  /\ served' = served + 1
  /\ Goto(r, "check")
  /\ UNCHANGED <<db, pending, auth, dirty, store, snap, ops, obj, mutex, rb, tally,
                 reloads, updates, other, errors>>

Check(r) ==
  /\ pc[r] = "check"
  /\ LET m == req[r].meta
         q == Live
     IN  \/ /\ ~HasQuota(m)
            /\ Admit(r) /\ UNCHANGED req
         \/ /\ HasQuota(m) /\ q = None
            /\ Verdict(r, m.used < m.quota) /\ UNCHANGED req
         \/ /\ HasQuota(m) /\ q # None
            /\ \/ obj[q].exhausted /\ Reject(r) /\ UNCHANGED req
               \/ /\ ~obj[q].exhausted
                  /\ IF obj[q].consumed < obj[q].budget THEN Admit(r) ELSE Goto(r, "claim")
                  /\ req' = [req EXCEPT ![r].q = q, ![r].at = store]
  /\ UNCHANGED <<db, pending, auth, dirty, store, snap, ops, obj, mutex, rb, tally, bounds>>

SetObj(q, f) == obj' = [obj EXCEPT ![q] = f]

\* Variant: reclaiming is loaded, not compared and swapped.
ClaimUnguarded(r) ==
  /\ pc[r] = "claim"
  /\ IF obj[req[r].q].backoff THEN Reject(r) /\ UNCHANGED obj
     ELSE Goto(r, "dbread") /\ SetObj(req[r].q, [obj[req[r].q] EXCEPT !.busy = TRUE])
  /\ UNCHANGED <<db, pending, auth, dirty, store, snap, ops, mutex, rb, req, tally, bounds>>

\* The CAS on reclaiming: the loser judges by the old budget; within the
\* back-off after a failed read the winner rejects.
Claim(r) ==
  /\ pc[r] = "claim"
  /\ LET q == req[r].q
         o == obj[q]
     IN  \/ o.busy /\ Verdict(r, o.consumed < o.budget) /\ UNCHANGED obj
         \/ ~o.busy /\ o.backoff /\ Reject(r) /\ UNCHANGED obj
         \/ ~o.busy /\ ~o.backoff /\ Goto(r, "dbread") /\ SetObj(q, [o EXCEPT !.busy = TRUE])
  /\ UNCHANGED <<db, pending, auth, dirty, store, snap, ops, mutex, rb, req, tally, bounds>>

DBRead(r) ==
  /\ pc[r] = "dbread" /\ db.alive
  /\ LET q == req[r].q IN
     IF req[r].meta.quota - db.used > 0
     THEN /\ req' = [req EXCEPT ![r].seen = db.used]
          /\ Goto(r, "eff") /\ UNCHANGED obj
     ELSE /\ SetObj(q, [obj[q] EXCEPT !.exhausted = TRUE, !.busy = FALSE])
          /\ Reject(r) /\ UNCHANGED req
  /\ UNCHANGED <<db, pending, auth, dirty, store, snap, ops, mutex, rb, tally, bounds>>

\* The read fails, or the row is gone: back off, room for this one request.
DBError(r) ==
  /\ pc[r] = "dbread"
  /\ IF db.alive THEN errors < MaxErrors /\ errors' = errors + 1 ELSE UNCHANGED errors
  /\ LET q == req[r].q IN
       /\ SetObj(q, [obj[q] EXCEPT !.backoff = TRUE])
       /\ req' = [req EXCEPT ![r].eff = obj[q].consumed + 1]
  /\ Goto(r, "patch")
  /\ UNCHANGED <<db, pending, auth, dirty, store, snap, ops, mutex, rb, tally,
                 served, reloads, updates, other>>

\* Variant: what the database does not reflect yet is not subtracted.
RestReported(m, seen, o) == m.quota - seen

\* First load of consumed: what the database cannot know yet is subtracted.
Rest(m, seen, o) ==
  LET unreported == IF o.consumed > o.base THEN o.consumed - o.base ELSE 0
  IN  m.quota - seen - unreported

\* Variant: the rest is not compared with zero again after the subtraction.
EffectiveAny(r) ==
  /\ pc[r] = "eff"
  /\ req' = [req EXCEPT ![r].eff = Rest(req[r].meta, req[r].seen, obj[req[r].q])]
  /\ Goto(r, "grant")
  /\ UNCHANGED <<db, pending, auth, dirty, store, snap, ops, obj, mutex, rb, tally, bounds>>

Effective(r) ==
  /\ pc[r] = "eff"
  /\ LET q    == req[r].q
         rest == Rest(req[r].meta, req[r].seen, obj[q])
     IN  IF rest > 0
         THEN /\ req' = [req EXCEPT ![r].eff = rest]
              /\ Goto(r, "grant") /\ UNCHANGED obj
         ELSE /\ SetObj(q, [obj[q] EXCEPT !.exhausted = TRUE, !.busy = FALSE])
              /\ Reject(r) /\ UNCHANGED req
  /\ UNCHANGED <<db, pending, auth, dirty, store, snap, ops, mutex, rb, tally, bounds>>

\* The base moves; second load of consumed: the new budget is on top of it.
Grant(r) ==
  /\ pc[r] = "grant"
  /\ LET q == req[r].q IN
       /\ SetObj(q, [obj[q] EXCEPT !.base = req[r].seen])
       /\ req' = [req EXCEPT ![r].eff = Budget(obj[q].consumed, req[r].eff)]
  /\ Goto(r, "store")
  /\ UNCHANGED <<db, pending, auth, dirty, store, snap, ops, mutex, rb, tally, bounds>>

StoreBudget(r) ==
  /\ pc[r] \in {"store", "patch"}
  /\ LET q == req[r].q IN
     SetObj(q, [obj[q] EXCEPT !.budget = req[r].eff, !.busy = FALSE])
  /\ Admit(r)
  /\ UNCHANGED <<db, pending, auth, dirty, store, snap, ops, mutex, rb, req, tally, bounds>>

BackoffEnd(q) ==
  /\ obj[q].backoff
  /\ SetObj(q, [obj[q] EXCEPT !.backoff = FALSE])
  /\ UNCHANGED <<db, pending, auth, dirty, store, snap, ops, mutex, rb, pc, req, tally, bounds>>

-----------------------------------------------------------------------------
(***************************************************************************)
(* Requests: deductQuota.  quotaOps is the number of requests between its  *)
(* increment and its decrement; the model keeps the set of them.           *)
(***************************************************************************)

Finish(r, cost) ==
  /\ pc[r] = "serving"
  /\ req' = [req EXCEPT ![r].cost = cost, ![r].took = 0]
  /\ Goto(r, "load")
  /\ UNCHANGED <<db, pending, auth, dirty, store, snap, ops, obj, mutex, rb, tally, bounds>>

DeductLoad(r) ==
  /\ pc[r] = "load"
  /\ req' = [req EXCEPT ![r].at = store]
  /\ Goto(r, "enter")
  /\ UNCHANGED <<db, pending, auth, dirty, store, snap, ops, obj, mutex, rb, tally, bounds>>

DeductEnter(r) ==
  /\ pc[r] = "enter"
  /\ ops' = [ops EXCEPT ![req[r].at] = @ \cup {r}]
  /\ Goto(r, "recheck")
  /\ UNCHANGED <<db, pending, auth, dirty, store, snap, obj, mutex, rb, req, tally, bounds>>

\* Variants: no second look at the snapshot; quotaOps not given back.
RecheckSkipped(r) ==
  /\ pc[r] = "recheck"
  /\ Goto(r, "add")
  /\ UNCHANGED <<db, pending, auth, dirty, store, snap, ops, obj, mutex, rb, req, tally, bounds>>

RecheckLeaks(r) ==
  /\ pc[r] = "recheck"
  /\ Goto(r, IF snap[req[r].at].retiring \/ store # req[r].at THEN "load" ELSE "add")
  /\ UNCHANGED <<db, pending, auth, dirty, store, snap, ops, obj, mutex, rb, req, tally, bounds>>

DeductRecheck(r) ==
  /\ pc[r] = "recheck"
  /\ IF snap[req[r].at].retiring \/ store # req[r].at
     THEN Goto(r, "load") /\ ops' = [ops EXCEPT ![req[r].at] = @ \ {r}]
     ELSE Goto(r, "add") /\ UNCHANGED ops
  /\ UNCHANGED <<db, pending, auth, dirty, store, snap, obj, mutex, rb, req, tally, bounds>>

DeductAdd(r) ==
  /\ pc[r] = "add"
  /\ LET q == snap[req[r].at].quota IN
     IF q = None
     THEN UNCHANGED <<obj, req, tally>>
     ELSE /\ SetObj(q, [obj[q] EXCEPT !.consumed = @ + req[r].cost])
          /\ req' = [req EXCEPT ![r].took = req[r].cost]
          /\ tally' = tally + req[r].cost
  /\ Goto(r, "exit")
  /\ UNCHANGED <<db, pending, auth, dirty, store, snap, ops, mutex, rb, bounds>>

\* The caller hands what was deducted to the usage recorder (AddQuota).
DeductExit(r) ==
  /\ pc[r] = "exit"
  /\ ops' = [ops EXCEPT ![req[r].at] = @ \ {r}]
  /\ pending' = pending + req[r].took
  /\ req' = [req EXCEPT ![r] = NewReq(NoKey)]
  /\ Goto(r, "idle")
  /\ UNCHANGED <<db, auth, dirty, store, snap, obj, mutex, rb, tally, bounds>>

-----------------------------------------------------------------------------
(***************************************************************************)
(* The database side: quota flushes of this and of other instances.        *)
(***************************************************************************)

\* AddQuotaUsed has the guard quota > 0: without a quota the delta is dropped.
FlushQuota ==
  /\ pending > 0
  /\ db' = IF db.alive /\ HasQuota(db) THEN [db EXCEPT !.used = @ + pending] ELSE db
  /\ pending' = 0
  /\ UNCHANGED <<auth, dirty, store, snap, ops, obj, mutex, rb, pc, req, tally, bounds>>

OtherFlush ==
  /\ other < MaxOther /\ db.alive /\ HasQuota(db)
  /\ db' = [db EXCEPT !.used = @ + 1]
  /\ other' = other + 1
  /\ UNCHANGED <<pending, auth, dirty, store, snap, ops, obj, mutex, rb, pc, req, tally,
                 served, reloads, updates, errors>>

-----------------------------------------------------------------------------
(***************************************************************************)
(* Rebuilding the snapshot.                                                *)
(***************************************************************************)

\* Auth.Reload loads the keys without a lock, remembering keyGen ...
SyncRead ==
  /\ rb["sync"].pc = "idle" /\ reloads < MaxReloads
  /\ reloads' = reloads + 1
  /\ dirty' = FALSE
  /\ rb' = [rb EXCEPT !["sync"].pc = "read", !["sync"].meta = db]
  /\ UNCHANGED <<db, pending, auth, store, snap, ops, obj, mutex, pc, req, tally,
                 served, updates, other, errors>>

\* ... and swaps the map only if no local change came in between; the gate is
\* rebuilt from whatever the map then holds.
SyncApply ==
  /\ rb["sync"].pc = "read"
  /\ auth' = IF dirty THEN auth ELSE rb["sync"].meta
  /\ rb' = [rb EXCEPT !["sync"].pc = "applied", !["sync"].meta = auth']
  /\ UNCHANGED <<db, pending, dirty, store, snap, ops, obj, mutex, pc, req, tally, bounds>>

\* UpdateKey: a quota of 0 also clears quota_used; the row comes back.
AdminUpdate(a, quota) ==
  /\ rb[a].pc = "idle" /\ updates < MaxUpdates /\ db.alive
  /\ updates' = updates + 1
  /\ db' = [db EXCEPT !.quota = quota, !.used = IF quota = 0 THEN 0 ELSE @]
  /\ rb' = [rb EXCEPT ![a].pc = "read", ![a].meta = db']
  /\ UNCHANGED <<pending, auth, dirty, store, snap, ops, obj, mutex, pc, req, tally,
                 served, reloads, other, errors>>

AdminDelete(a) ==
  /\ rb[a].pc = "idle" /\ updates < MaxUpdates /\ db.alive
  /\ updates' = updates + 1
  /\ db' = NoKey
  /\ rb' = [rb EXCEPT ![a].pc = "read", ![a].meta = db']
  /\ UNCHANGED <<pending, auth, dirty, store, snap, ops, obj, mutex, pc, req, tally,
                 served, reloads, other, errors>>

\* Auth.Upsert or Auth.Delete, before the gate is touched; deleting a key the
\* map no longer holds leaves the gate alone.
AdminApply(a) ==
  /\ rb[a].pc = "read" /\ ~AuthLocked
  /\ auth' = rb[a].meta
  /\ dirty' = TRUE
  /\ rb' = [rb EXCEPT ![a].pc = IF rb[a].meta.alive \/ auth.alive THEN "applied" ELSE "idle"]
  /\ UNCHANGED <<db, pending, store, snap, ops, obj, mutex, pc, req, tally, bounds>>

\* retireSnapshot: no new deduction may start on the published snapshot ...
Retire(w) ==
  /\ rb[w].pc = "applied" /\ mutex = None
  /\ store + 1 \in Snaps          \* always: one snapshot per rebuild
  /\ mutex' = w
  /\ snap' = [snap EXCEPT ![store].retiring = TRUE]
  /\ rb' = [rb EXCEPT ![w].pc = "wait"]
  /\ UNCHANGED <<db, pending, auth, dirty, store, ops, obj, pc, req, tally, bounds>>

\* Variants: every rebuild goes on with the old object; a quota taken away
\* leaves its entry.
RebuiltShared(w, m) ==
  IF ~m.alive \/ ~HasQuota(m) THEN [q |-> None, o |-> Fresh(0)]
  ELSE IF Live = None
  THEN [q |-> store + 1, o |-> AllocBudget(Fresh(m.used), m)]
  ELSE [q |-> Live, o |-> AllocBudget(obj[Live], m)]


\* The object the new snapshot points to: reload copies the consumption into a
\* new object, upsert goes on with the old one; without one both start from
\* the meta's quota_used.
Rebuilt(w, m) ==
  IF ~m.alive \/ ~HasQuota(m) THEN [q |-> None, o |-> Fresh(0)]
  ELSE IF Live = None
  THEN [q |-> store + 1, o |-> AllocBudget(Fresh(m.used), m)]
  ELSE IF w = "sync"
  THEN [q |-> store + 1, o |-> AllocBudget(Fresh(obj[Live].consumed), m)]
  ELSE [q |-> Live, o |-> AllocBudget(obj[Live], m)]

\* ... and those already started are waited for.
Build(w) ==
  /\ rb[w].pc = "wait" /\ ops[store] = {}
  /\ LET new == Rebuilt(w, rb[w].meta) IN
       /\ rb' = [rb EXCEPT ![w].pc = "built", ![w].quota = new.q]
       /\ obj' = IF new.q = None THEN obj ELSE [obj EXCEPT ![new.q] = new.o]
  /\ UNCHANGED <<db, pending, auth, dirty, store, snap, ops, mutex, pc, req, tally, bounds>>

\* Variant: the retired snapshot is changed in place and goes on as the new one.
PublishRetired(w) ==
  /\ rb[w].pc = "built"
  /\ LET q == rb[w].quota IN
       /\ snap' = [snap EXCEPT ![store + 1] = [quota |-> q, retiring |-> TRUE]]
       /\ tally' = IF q = None THEN 0
                   ELSE IF Live = None THEN obj[q].consumed ELSE tally
  /\ store' = store + 1
  /\ mutex' = None
  /\ rb' = [rb EXCEPT ![w].pc = "idle"]
  /\ UNCHANGED <<db, pending, auth, dirty, ops, obj, pc, req, bounds>>

Publish(w) ==
  /\ rb[w].pc = "built"
  /\ LET q == rb[w].quota IN
       /\ snap' = [snap EXCEPT ![store + 1] = [quota |-> q, retiring |-> FALSE]]
       /\ tally' = IF q = None THEN 0
                   ELSE IF Live = None THEN obj[q].consumed ELSE tally
  /\ store' = store + 1
  /\ mutex' = None
  /\ rb' = [rb EXCEPT ![w].pc = "idle"]
  /\ UNCHANGED <<db, pending, auth, dirty, ops, obj, pc, req, bounds>>

-----------------------------------------------------------------------------
\* The instance has loaded the key: the gate holds its object.
Init ==
  /\ db = [alive |-> TRUE, quota |-> Quota, used |-> 0]
  /\ auth = db
  /\ pending = 0
  /\ dirty = FALSE
  /\ store = 0
  /\ snap = [s \in Snaps |-> [quota |-> IF s = 0 THEN 0 ELSE None, retiring |-> FALSE]]
  /\ ops = [s \in Snaps |-> {}]
  /\ obj = [q \in Objs |-> IF q = 0 THEN AllocBudget(Fresh(0), db) ELSE Fresh(0)]
  /\ mutex = None
  /\ rb = [w \in Rebuilders |-> [pc |-> "idle", meta |-> db, quota |-> None]]
  /\ pc = [r \in Requests |-> "idle"]
  /\ req = [r \in Requests |-> NewReq(NoKey)]
  /\ tally = 0
  /\ served = 0 /\ reloads = 0 /\ updates = 0 /\ other = 0 /\ errors = 0

QuotaCheck(r) ==
  Check(r) \/ Claim(r) \/ DBRead(r) \/ DBError(r) \/ Effective(r) \/ Grant(r)
  \/ StoreBudget(r)

Deduct(r) ==
  DeductLoad(r) \/ DeductEnter(r) \/ DeductRecheck(r) \/ DeductAdd(r) \/ DeductExit(r)

Admin(a) ==
  \/ \E quota \in NewQuotas : AdminUpdate(a, quota)
  \/ AdminDelete(a)
  \/ AdminApply(a)

Rebuild(w) == Retire(w) \/ Build(w) \/ Publish(w)

\* Nothing is in progress: the instance may stay idle.
Idle ==
  /\ \A r \in Requests : pc[r] = "idle"
  /\ \A w \in Rebuilders : rb[w].pc = "idle"
  /\ UNCHANGED vars

Next ==
  \/ \E r \in Requests : \/ Authenticate(r)
                         \/ QuotaCheck(r)
                         \/ \E cost \in Costs : Finish(r, cost)
                         \/ Deduct(r)
  \/ \E q \in Objs : BackoffEnd(q)
  \/ FlushQuota \/ OtherFlush
  \/ SyncRead \/ SyncApply
  \/ \E a \in Admins : Admin(a)
  \/ \E w \in Rebuilders : Rebuild(w)
  \/ Idle

Spec == Init /\ [][Next]_vars

\* Goroutines are scheduled, so an operation that began goes on to its end.
\* Locks are granted to whoever waits for them, and retireSnapshot, which polls
\* quotaOps, finds it zero if it is zero again and again: strong fairness.
FairSpec ==
  /\ Spec
  /\ \A r \in Requests : WF_vars(QuotaCheck(r)) /\ WF_vars(Deduct(r))
  /\ WF_vars(SyncApply)
  /\ \A a \in Admins : SF_vars(AdminApply(a))
  /\ \A w \in Rebuilders : SF_vars(Retire(w)) /\ SF_vars(Build(w)) /\ WF_vars(Publish(w))
-----------------------------------------------------------------------------
(***************************************************************************)
(* Properties.                                                             *)
(***************************************************************************)

\* Every deduction accepted on any snapshot shows in the published counter:
\* retireSnapshot together with deductQuota's second look loses none of them,
\* whatever rebuilds run meanwhile.
NoDeductionLost == Live # None => obj[Live].consumed = tally

InReclaim(r) == pc[r] \in {"dbread", "eff", "grant", "store", "patch"}

\* The reclaiming flag is a correct single flight: at most one request is in
\* the review of an object, and the flag is up exactly while there is one (a
\* flag left up would reject every later request of the key).
SingleFlight ==
  /\ \A r1, r2 \in Requests :
       InReclaim(r1) /\ InReclaim(r2) /\ req[r1].q = req[r2].q => r1 = r2
  /\ \A q \in Objs : obj[q].busy <=> \E r \in Requests : InReclaim(r) /\ req[r].q = q

\* The budget a review computes is within the key's quota when it is taken on
\* top of the consumption it was computed from (the convergence argument at
\* keyQuota and reclaim: what is consumed but not yet reported to the database
\* is subtracted), as long as no update took the quota away and back.  A
\* deduction that lands between reclaim's two loads of consumed still comes on
\* top of it.
GrantWithinQuota ==
  [][\A r \in Requests :
       updates = 0 /\ pc[r] = "eff" /\ pc'[r] = "grant"
         => Budget(obj[req[r].q].consumed, req'[r].eff) <= req[r].meta.quota]_vars


\* A review that began on a snapshot since replaced by a reload writes an
\* object that is no longer in use ("no pollution across snapshots" at
\* keyQuota); an update, which shares the object, is another matter.
StaleReviewHarmless ==
  [][\A r \in Requests :
       updates = 0 /\ InReclaim(r) /\ pc'[r] # pc[r] /\ req[r].at # store /\ Live # None
         => obj'[Live] = obj[Live]]_vars

\* Deductors that overlap forever would keep quotaOps above zero; the two
\* properties below are about schedules in which they do not.
Deducting(r) == pc[r] \in {"load", "enter", "recheck", "add", "exit"}
OneAtATime == <>[](\A r1, r2 \in Requests : Deducting(r1) /\ Deducting(r2) => r1 = r2)

\* A request that began to deduct finishes, though it starts over whenever a
\* rebuild gets in its way.
DeductionEnds == OneAtATime => \A r \in Requests : pc[r] = "load" ~> pc[r] = "idle"

\* A rebuild is published, though it waits for the deductions in progress.
RebuildEnds == OneAtATime => \A w \in Rebuilders : rb[w].pc = "read" ~> rb[w].pc = "idle"
=============================================================================
