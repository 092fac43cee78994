--------------------------- MODULE QuotaGateProofs ---------------------------
(***************************************************************************)
(* For every number of requests, rebuilds, updates and instances: the gate *)
(* loses no deduction.  The argument is the one retireSnapshot rests on: a *)
(* request that adds is counted in quotaOps of the published snapshot, and *)
(* a rebuilder that has seen the count at zero copies the consumption of a *)
(* snapshot on which no request can pass the second look any more.         *)
(***************************************************************************)
EXTENDS QuotaGate, TLAPS

\* A positive rest divided among N instances is a natural number, and no
\* instance gets more than the rest.
LEMMA CeilDivType ==
  ASSUME NEW a \in Int, NEW b \in Nat \ {0}
  PROVE  CeilDiv(a, b) \in Nat
<1>1. CASE a <= 0
  BY <1>1 DEF CeilDiv
<1>2. CASE ~(a <= 0)
  <2>1. a + b - 1 \in Nat
    BY <1>2
  <2>2. (a + b - 1) \div b \in Nat
    BY <2>1
  <2> QED BY <1>2, <2>2 DEF CeilDiv
<1> QED BY <1>1, <1>2

\* ceilDiv of a positive rest is at most the rest: a grant never exceeds what is left.
LEMMA CeilDivBound ==
  ASSUME NEW a \in Int, NEW b \in Nat \ {0}, a > 0
  PROVE  CeilDiv(a, b) <= a
<1> DEFINE q == (a + b - 1) \div b
<1>1. q \in Int /\ b * q <= a + b - 1
  OBVIOUS
<1> HIDE DEF q
<1>2. b * a >= a
  OBVIOUS
<1>3. q >= a + 1 => b * q >= b * (a + 1)
  BY <1>1
<1>4. b * (a + 1) = b * a + b
  OBVIOUS
<1>5. b * q \in Int /\ b * a \in Int /\ b * (a + 1) \in Int
  BY <1>1
<1>6. q <= a
  BY <1>1, <1>2, <1>3, <1>4, <1>5
<1> QED BY <1>6 DEF CeilDiv, q

\* allocBudget leaves the consumption alone.
LEMMA AllocConsumed ==
  ASSUME NEW o \in Quotas, NEW m \in Metas
  PROVE  AllocBudget(o, m) \in Quotas /\ AllocBudget(o, m).consumed = o.consumed
<1>1. N \in Nat \ {0}
  BY QuotaConstants
<1>2. /\ m.quota - m.used \in Int /\ m.used \in Nat
      /\ o.consumed \in Nat
  BY DEF Metas, Quotas
<1>3. CeilDiv(m.quota - m.used, N) \in Nat
  BY <1>1, <1>2, CeilDivType
<1>4. Budget(o.consumed, m.quota - m.used) \in Nat
  BY <1>2, <1>3 DEF Budget
<1> QED BY <1>2, <1>4 DEF AllocBudget, Quotas

\* A new quota object shows the consumption it was built with.
LEMMA FreshType == \A used \in Nat : Fresh(used) \in Quotas /\ Fresh(used).consumed = used
BY DEF Fresh, Quotas

\* A request starts with no object, no read and no charge.
LEMMA NewReqType == \A m \in Metas : NewReq(m) \in Reqs
BY QuotaConstants DEF NewReq, Reqs, Snaps, Objs

\* What is left of a quota may be negative, and is an integer.
LEMMA RestType ==
  ASSUME NEW m \in Metas, NEW seen \in Nat, NEW o \in Quotas
  PROVE  Rest(m, seen, o) \in Int
BY DEF Rest, Metas, Quotas

\* A stored budget is a natural number.
LEMMA BudgetType ==
  ASSUME NEW consumed \in Nat, NEW rest \in Int
  PROVE  Budget(consumed, rest) \in Nat
BY CeilDivType, QuotaConstants DEF Budget

\* The object a rebuild installs is one of the arena's, with a well-formed state.
LEMMA RebuiltType ==
  ASSUME TypeOK, NEW w, NEW m \in Metas, store + 1 \in Snaps
  PROVE  /\ Rebuilt(w, m).q \in Objs \cup {None}
         /\ Rebuilt(w, m).o \in Quotas
<1>1. Live \in Objs \cup {None}
  BY DEF TypeOK, Live
<1>2. m.used \in Nat
  BY DEF Metas
<1>3. Live # None => obj[Live] \in Quotas /\ obj[Live].consumed \in Nat
  BY <1>1 DEF TypeOK, Quotas
<1>4. store + 1 \in Objs
  BY DEF Objs
<1> QED BY <1>1, <1>2, <1>3, <1>4, FreshType, AllocConsumed DEF Rebuilt

\* Type correctness.
LEMMA InitType == Init => TypeOK
<1> SUFFICES ASSUME Init PROVE TypeOK
  OBVIOUS
<1>1. db \in Metas
  BY QuotaConstants DEF Init, Metas
<1>2. NoKey \in Metas
  BY DEF NoKey, Metas
<1>3. 0 \in Snaps
  BY QuotaConstants DEF Snaps
<1>4. AllocBudget(Fresh(0), db) \in Quotas /\ Fresh(0) \in Quotas
  BY <1>1, FreshType, AllocConsumed
<1> QED BY <1>1, <1>2, <1>3, <1>4, NewReqType DEF Init, TypeOK, Objs, Rebuilders

\* A request that reviews a quota has an object to review, and the rebuilder
\* that holds snapshotMu has room for its snapshot.
Reviewing(r) == pc[r] = "claim" \/ InReclaim(r)

Shape ==
  /\ TypeOK
  /\ \A r \in Requests : Reviewing(r) => req[r].q \in Objs
  /\ \A w \in Rebuilders : rb[w].pc \in {"wait", "built"} => store + 1 \in Snaps /\ mutex = w

\* Moving a request, and storing its locals.
LEMMA Move ==
  ASSUME TypeOK, NEW r \in Requests,
         NEW l \in {"idle", "check", "claim", "dbread", "eff", "grant", "store", "patch",
                    "serving", "load", "enter", "recheck", "add", "exit"},
         Goto(r, l)
  PROVE  pc' \in [Requests -> {"idle", "check", "claim", "dbread", "eff", "grant", "store",
                               "patch", "serving", "load", "enter", "recheck", "add", "exit"}]
BY DEF TypeOK, Goto

\* Writing one quota object keeps the arena well formed.
LEMMA Stored ==
  ASSUME TypeOK, NEW q \in Objs, NEW f \in Quotas, SetObj(q, f)
  PROVE  obj' \in [Objs -> Quotas]
BY DEF TypeOK, SetObj

\* The writes of a review, by field.
LEMMA ReviewWrites ==
  ASSUME NEW o \in Quotas, NEW n \in Nat
  PROVE  /\ [o EXCEPT !.busy = TRUE] \in Quotas
         /\ [o EXCEPT !.backoff = TRUE] \in Quotas
         /\ [o EXCEPT !.backoff = FALSE] \in Quotas
         /\ [o EXCEPT !.exhausted = TRUE, !.busy = FALSE] \in Quotas
         /\ [o EXCEPT !.base = n] \in Quotas
         /\ [o EXCEPT !.budget = n, !.busy = FALSE] \in Quotas
         /\ [o EXCEPT !.consumed = @ + n] \in Quotas
<1>1. [o EXCEPT !.busy = TRUE] \in Quotas
  BY DEF Quotas
<1>2. [o EXCEPT !.backoff = TRUE] \in Quotas
  BY DEF Quotas
<1>3. [o EXCEPT !.backoff = FALSE] \in Quotas
  BY DEF Quotas
<1>4. [o EXCEPT !.exhausted = TRUE, !.busy = FALSE] \in Quotas
  BY DEF Quotas
<1>5. [o EXCEPT !.base = n] \in Quotas
  BY DEF Quotas
<1>6. [o EXCEPT !.budget = n, !.busy = FALSE] \in Quotas
  BY DEF Quotas
<1>7. [o EXCEPT !.consumed = @ + n] \in Quotas
  BY DEF Quotas
<1> QED BY <1>1, <1>2, <1>3, <1>4, <1>5, <1>6, <1>7

\* Neither verdict of a review touches the object's consumed counter.
LEMMA ReviewKeeps ==
  ASSUME NEW o \in Quotas, NEW n
  PROVE  /\ [o EXCEPT !.exhausted = TRUE, !.busy = FALSE].consumed = o.consumed
         /\ [o EXCEPT !.budget = n, !.busy = FALSE].consumed = o.consumed
<1>1. [o EXCEPT !.exhausted = TRUE, !.busy = FALSE].consumed = o.consumed
  BY DEF Quotas
<1>2. [o EXCEPT !.budget = n, !.busy = FALSE].consumed = o.consumed
  BY DEF Quotas
<1> QED BY <1>1, <1>2

\* The writes of a request to its own locals keep their types.
LEMMA ReqWrites ==
  ASSUME TypeOK, NEW r \in Requests, NEW n \in Nat, NEW s \in Snaps, NEW q \in Objs
  PROVE  /\ [req EXCEPT ![r].q = q, ![r].at = s] \in [Requests -> Reqs]
         /\ [req EXCEPT ![r].seen = n] \in [Requests -> Reqs]
         /\ [req EXCEPT ![r].eff = n] \in [Requests -> Reqs]
         /\ [req EXCEPT ![r].took = n] \in [Requests -> Reqs]
         /\ [req EXCEPT ![r].cost = n, ![r].took = 0] \in [Requests -> Reqs]
         /\ [req EXCEPT ![r].at = s] \in [Requests -> Reqs]
<1>1. [req EXCEPT ![r].q = q, ![r].at = s] \in [Requests -> Reqs]
  BY DEF TypeOK, Reqs
<1>2. [req EXCEPT ![r].seen = n] \in [Requests -> Reqs]
  BY DEF TypeOK, Reqs
<1>3. [req EXCEPT ![r].eff = n] \in [Requests -> Reqs]
  BY DEF TypeOK, Reqs
<1>4. [req EXCEPT ![r].took = n] \in [Requests -> Reqs]
  BY DEF TypeOK, Reqs
<1>5. [req EXCEPT ![r].cost = n, ![r].took = 0] \in [Requests -> Reqs]
  BY ZenonT(40) DEF TypeOK, Reqs
<1>6. [req EXCEPT ![r].at = s] \in [Requests -> Reqs]
  BY DEF TypeOK, Reqs
<1> QED BY <1>1, <1>2, <1>3, <1>4, <1>5, <1>6

\* One lemma per group of actions: the steps of a review.
LEMMA ReviewShape ==
  ASSUME Shape, NEW r \in Requests,
         Check(r) \/ Claim(r) \/ DBRead(r) \/ DBError(r) \/ Effective(r) \/ Grant(r)
           \/ StoreBudget(r)
  PROVE  Shape'
<1> DEFINE o == obj[req[r].q]
<1>1. TypeOK /\ req[r] \in Reqs /\ store \in Snaps
  BY DEF Shape, TypeOK
<1>2. Reviewing(r) => req[r].q \in Objs /\ o \in Quotas /\ o.consumed \in Nat
  BY DEF Shape, TypeOK, Quotas
<1>3. /\ UNCHANGED <<db, pending, auth, dirty, store, snap, ops, mutex, rb, tally>>
      /\ \A p \in Requests \ {r} : pc'[p] = pc[p] /\ req'[p] = req[p]
  <2>1. UNCHANGED <<db, pending, auth, dirty, store, snap, ops, mutex, rb, tally>>
    BY DEF Check, Claim, DBRead, DBError, Effective, Grant, StoreBudget
  <2>2. \E l : Goto(r, l)
    BY DEF Check, Claim, DBRead, DBError, Effective, Grant, StoreBudget, Admit, Reject, Verdict
  <2>3. \A p \in Requests \ {r} : req'[p] = req[p]
    BY <1>1 DEF Check, Claim, DBRead, DBError, Effective, Grant, StoreBudget, TypeOK
  <2> QED BY <1>1, <2>1, <2>2, <2>3 DEF Goto, TypeOK
<1>4. SUFFICES /\ obj' \in [Objs -> Quotas]
               /\ req' \in [Requests -> Reqs]
               /\ \E l \in {"idle", "serving", "claim", "dbread", "eff", "grant", "store",
                            "patch"} : Goto(r, l)
               /\ Reviewing(r)' => req'[r].q \in Objs
  <2>1. TypeOK'
    BY <1>1, <1>3, <1>4, Move DEF TypeOK
  <2>2. \A p \in Requests : Reviewing(p)' => req'[p].q \in Objs
    BY <1>3, <1>4 DEF Shape, Reviewing, InReclaim
  <2> QED BY <1>3, <2>1, <2>2 DEF Shape
<1>5. CASE Check(r)
  <2>1. Live \in Objs \cup {None}
    BY DEF Shape, TypeOK, Live
  <2>2. Live # None => [req EXCEPT ![r].q = Live, ![r].at = store] \in [Requests -> Reqs]
    BY <1>1, <2>1, ReqWrites
  <2>3. /\ obj' = obj
        /\ \/ req' = req /\ (Goto(r, "idle") \/ Goto(r, "serving"))
           \/ /\ Live # None /\ req' = [req EXCEPT ![r].q = Live, ![r].at = store]
              /\ Goto(r, "serving") \/ Goto(r, "claim")
    BY <1>5 DEF Check, Admit, Reject, Verdict
  <2>4. CASE req' = req /\ (Goto(r, "idle") \/ Goto(r, "serving"))
    <3>1. ~Reviewing(r)'
      BY <1>1, <2>4 DEF Goto, TypeOK, Reviewing, InReclaim
    <3> QED BY <1>1, <2>3, <2>4, <3>1 DEF TypeOK
  <2>5. CASE /\ Live # None /\ req' = [req EXCEPT ![r].q = Live, ![r].at = store]
             /\ Goto(r, "serving") \/ Goto(r, "claim")
    <3>1. req'[r].q = Live
      BY <1>1, <2>5 DEF TypeOK, Reqs
    <3> QED BY <1>1, <2>1, <2>2, <2>3, <2>5, <3>1 DEF TypeOK
  <2> QED BY <2>3, <2>4, <2>5
<1>6. CASE Claim(r)
  <2>1. Reviewing(r)
    BY <1>6 DEF Claim, Reviewing
  <2> QED BY <1>1, <1>2, <1>6, <2>1, Stored, ReviewWrites
        DEF Claim, Admit, Reject, Verdict, Goto, TypeOK
<1>7. CASE DBRead(r)
  <2>1. Reviewing(r) /\ db.used \in Nat
    BY <1>1, <1>7 DEF DBRead, Reviewing, InReclaim, TypeOK, Metas
  <2>2. [req EXCEPT ![r].seen = db.used] \in [Requests -> Reqs]
    BY <1>1, <1>2, <2>1, ReqWrites
  <2> QED BY <1>1, <1>2, <1>7, <2>1, <2>2, Stored, ReviewWrites DEF DBRead, Reject, TypeOK, Reqs
<1>8. CASE DBError(r)
  <2>1. Reviewing(r)
    BY <1>8 DEF DBError, Reviewing, InReclaim
  <2>2. o.consumed + 1 \in Nat
    BY <1>2, <2>1
  <2>3. [req EXCEPT ![r].eff = o.consumed + 1] \in [Requests -> Reqs]
    BY <1>1, <1>2, <2>1, <2>2, ReqWrites
  <2> QED BY <1>1, <1>2, <1>8, <2>1, <2>3, Stored, ReviewWrites DEF DBError, TypeOK, Reqs
<1>9. CASE Effective(r)
  <2>1. Reviewing(r)
    BY <1>9 DEF Effective, Reviewing, InReclaim
  <2> DEFINE rest == Rest(req[r].meta, req[r].seen, o)
  <2>2. rest \in Int
    BY <1>1, <1>2, <2>1, RestType DEF Reqs
  <2>3. rest > 0 => [req EXCEPT ![r].eff = rest] \in [Requests -> Reqs]
    <3> HIDE DEF rest
    <3>1. rest > 0 => rest \in Nat
      BY <2>2
    <3> QED BY <1>1, <1>2, <2>1, <3>1, ReqWrites
  <2> QED
    BY <1>1, <1>2, <1>9, <2>1, <2>3, Stored, ReviewWrites, ZenonT(40)
    DEF Effective, Reject, TypeOK, Reqs
<1>10. CASE Grant(r)
  <2>1. Reviewing(r) /\ req[r].seen \in Nat /\ req[r].eff \in Int
    BY <1>1, <1>10 DEF Grant, Reviewing, InReclaim, Reqs
  <2>2. Budget(o.consumed, req[r].eff) \in Nat
    BY <1>2, <2>1, BudgetType
  <2>3. [req EXCEPT ![r].eff = Budget(o.consumed, req[r].eff)] \in [Requests -> Reqs]
    BY <1>1, <1>2, <2>1, <2>2, ReqWrites
  <2> QED BY <1>1, <1>2, <1>10, <2>1, <2>3, Stored, ReviewWrites DEF Grant, TypeOK, Reqs
<1>11. CASE StoreBudget(r)
  <2>1. Reviewing(r) /\ req[r].eff \in Nat
    BY <1>1, <1>11 DEF StoreBudget, Reviewing, InReclaim, Reqs
  <2> QED BY <1>1, <1>2, <1>11, <2>1, Stored, ReviewWrites DEF StoreBudget, Admit, TypeOK
<1> QED BY <1>5, <1>6, <1>7, <1>8, <1>9, <1>10, <1>11

-----------------------------------------------------------------------------
(***************************************************************************)
(* The inductive invariant.                                                *)
(***************************************************************************)

\* quotaOps counts a request exactly between its increment and its decrement.
Counted ==
  \A r \in Requests, s \in Snaps :
     r \in ops[s] <=> pc[r] \in {"recheck", "add", "exit"} /\ req[r].at = s

\* Whoever passed the second look adds to the published object.
AddLive == \A r \in Requests : pc[r] = "add" => req[r].at = store

\* A rebuild seals the published snapshot; once it has copied, no request adds
\* and the copy shows what the original shows.
Sealed ==
  \A w \in Rebuilders :
     /\ rb[w].pc \in {"wait", "built"} => snap[store].retiring
     /\ rb[w].pc = "built" =>
          /\ \A r \in Requests : pc[r] # "add"
          /\ rb[w].quota # None => rb[w].quota <= store + 1
          /\ rb[w].quota # None /\ Live # None => obj[rb[w].quota].consumed = obj[Live].consumed

\* An object is made with a snapshot and used by this and by later ones.
Older == \A s \in Snaps : snap[s].quota # None => snap[s].quota <= s

GateInv == Shape /\ Counted /\ AddLive /\ Sealed /\ Older /\ NoDeductionLost

\* A step that leaves the snapshots, the counts, the rebuilders and every
\* consumption alone, and moves no request into or out of deductQuota's
\* critical part, keeps the invariant.
LEMMA Harmless ==
  ASSUME GateInv, Shape',
         UNCHANGED <<store, snap, ops, tally>>,
         \A w \in Rebuilders : rb'[w].pc \in {"wait", "built"} => rb'[w] = rb[w],
         \A q \in Objs : obj'[q].consumed = obj[q].consumed,
         \A r \in Requests : \/ pc'[r] = pc[r] /\ req'[r].at = req[r].at
                             \/ /\ pc[r] \notin {"recheck", "add", "exit"}
                                /\ pc'[r] \notin {"recheck", "add", "exit"}
  PROVE  GateInv'
<1> USE DEF GateInv
<1>1. Live' = Live /\ Live \in Objs \cup {None}
  BY DEF Live, Shape, TypeOK
<1>2. Counted'
  BY DEF Counted
<1>3. AddLive'
  BY DEF AddLive
<1>4. Sealed'
  <2> SUFFICES ASSUME NEW w \in Rebuilders
               PROVE  /\ rb'[w].pc \in {"wait", "built"} => snap'[store'].retiring
                      /\ rb'[w].pc = "built" =>
                           /\ \A r \in Requests : pc'[r] # "add"
                           /\ rb'[w].quota # None => rb'[w].quota <= store' + 1
                           /\ rb'[w].quota # None /\ Live' # None
                                => obj'[rb'[w].quota].consumed = obj'[Live'].consumed
    BY DEF Sealed
  <2>1. rb[w].quota \in Objs \cup {None}
    BY DEF Shape, TypeOK
  <2> QED BY <1>1, <2>1 DEF Sealed
<1>5. Older'
  BY DEF Older
<1>6. NoDeductionLost'
  BY <1>1 DEF NoDeductionLost
<1> QED BY <1>2, <1>3, <1>4, <1>5, <1>6

\* Every step of a review (the CAS, the read of the database, the grant) preserves the invariant.
LEMMA ReviewInv ==
  ASSUME GateInv, NEW r \in Requests,
         Check(r) \/ Claim(r) \/ DBRead(r) \/ DBError(r) \/ Effective(r) \/ Grant(r)
           \/ StoreBudget(r)
  PROVE  GateInv'
<1>1. Shape'
  BY ReviewShape DEF GateInv
<1>2. TypeOK /\ (Reviewing(r) => req[r].q \in Objs /\ obj[req[r].q] \in Quotas)
  BY SMTT(30) DEF GateInv, Shape, TypeOK
<1>3. UNCHANGED <<store, snap, ops, tally, rb>>
  BY DEF Check, Claim, DBRead, DBError, Effective, Grant, StoreBudget
<1>4. \A p \in Requests : \/ pc'[p] = pc[p] /\ req'[p].at = req[p].at
                          \/ /\ pc[p] \notin {"recheck", "add", "exit"}
                             /\ pc'[p] \notin {"recheck", "add", "exit"}
  BY <1>2 DEF Check, Claim, DBRead, DBError, Effective, Grant, StoreBudget, Admit, Reject,
     Verdict, Goto, TypeOK
<1>5. \/ obj' = obj
      \/ Reviewing(r) /\ \E f : SetObj(req[r].q, f) /\ f.consumed = obj[req[r].q].consumed
  <2>1. CASE Check(r)
    BY <2>1 DEF Check
  <2>2. CASE Claim(r)
    BY <1>2, <2>2 DEF Claim, Reviewing, Quotas
  <2>3. CASE DBRead(r)
    BY <1>2, <2>3, ReviewKeeps DEF DBRead, Reviewing, InReclaim
  <2>4. CASE DBError(r)
    BY <1>2, <2>4 DEF DBError, Reviewing, InReclaim, Quotas
  <2>5. CASE Effective(r)
    BY <1>2, <2>5, ReviewKeeps DEF Effective, Reviewing, InReclaim
  <2>6. CASE Grant(r)
    BY <1>2, <2>6 DEF Grant, Reviewing, InReclaim, Quotas
  <2>7. CASE StoreBudget(r)
    BY <1>2, <2>7, ReviewKeeps DEF StoreBudget, Reviewing, InReclaim
  <2> QED BY <2>1, <2>2, <2>3, <2>4, <2>5, <2>6, <2>7
<1>6. \A q \in Objs : obj'[q].consumed = obj[q].consumed
  BY <1>2, <1>5 DEF SetObj, TypeOK
<1> QED BY <1>1, <1>3, <1>4, <1>6, Harmless

\* The steps of deductQuota.
LEMMA DeductInv ==
  ASSUME GateInv, NEW r \in Requests, Deduct(r)
  PROVE  GateInv'
<1> USE DEF GateInv
<1>1. TypeOK /\ req[r] \in Reqs /\ store \in Snaps /\ req[r].at \in Snaps /\ req[r].cost \in Nat
  BY DEF Shape, TypeOK, Reqs
<1>2. CASE DeductLoad(r)
  <2>1. req' \in [Requests -> Reqs]
    BY <1>1, <1>2 DEF DeductLoad, TypeOK, Reqs
  <2>2. TypeOK'
    BY <1>1, <1>2, <2>1, Move DEF DeductLoad, TypeOK
  <2>3. Shape'
    BY <1>1, <1>2, <2>2 DEF DeductLoad, Shape, Reviewing, InReclaim, Goto, TypeOK
  <2> QED BY <1>1, <1>2, <2>3, Harmless DEF DeductLoad, Goto, TypeOK
<1>3. CASE DeductEnter(r)
  <2>1. ops' \in [Snaps -> SUBSET Requests]
    BY <1>1, <1>3 DEF DeductEnter, TypeOK
  <2>2. TypeOK'
    BY <1>1, <1>3, <2>1, Move DEF DeductEnter, TypeOK
  <2>3. Shape'
    BY <1>1, <1>3, <2>2 DEF DeductEnter, Shape, Reviewing, InReclaim, Goto, TypeOK
  <2>4. Counted' /\ AddLive'
    BY <1>1, <1>3 DEF DeductEnter, Counted, AddLive, Goto, TypeOK
  <2>5. Sealed' /\ Older' /\ NoDeductionLost'
    BY <1>1, <1>3 DEF DeductEnter, Sealed, Older, NoDeductionLost, Live, Goto, TypeOK
  <2> QED BY <2>3, <2>4, <2>5
<1>4. CASE DeductRecheck(r)
  <2>1. ops' \in [Snaps -> SUBSET Requests]
    BY <1>1, <1>4 DEF DeductRecheck, TypeOK
  <2>2. TypeOK'
    BY <1>1, <1>4, <2>1, Move DEF DeductRecheck, TypeOK
  <2>3. Shape'
    BY <1>1, <1>4, <2>2 DEF DeductRecheck, Shape, Reviewing, InReclaim, Goto, TypeOK
  <2>4. Counted' /\ AddLive'
    BY <1>1, <1>4 DEF DeductRecheck, Counted, AddLive, Goto, TypeOK
  <2>5. Sealed' /\ Older' /\ NoDeductionLost'
    BY <1>1, <1>4 DEF DeductRecheck, Sealed, Older, NoDeductionLost, Live, Goto, TypeOK
  <2> QED BY <2>3, <2>4, <2>5
<1>5. CASE DeductAdd(r)
  <2>1. /\ req[r].at = store /\ snap[req[r].at].quota = Live /\ Live \in Objs \cup {None}
        /\ \A w \in Rebuilders : rb[w].pc # "built"
    BY <1>1, <1>5 DEF DeductAdd, AddLive, Sealed, Live, TypeOK
  <2>2. CASE Live = None
    <3>1. UNCHANGED <<obj, req, tally, store, snap, ops, rb, mutex, db, pending, auth, dirty>>
      BY <1>5, <2>1, <2>2 DEF DeductAdd
    <3>2. Goto(r, "exit") /\ pc[r] = "add"
      BY <1>5 DEF DeductAdd
    <3>3. TypeOK'
      BY <1>1, <3>1, <3>2, Move DEF TypeOK
    <3>4. Shape'
      BY <1>1, <3>1, <3>2, <3>3 DEF Shape, Reviewing, InReclaim, Goto, TypeOK
    <3>5. Counted' /\ AddLive'
      BY <1>1, <3>1, <3>2 DEF Counted, AddLive, Goto, TypeOK
    <3>6. Sealed' /\ Older' /\ NoDeductionLost'
      BY <1>1, <2>1, <3>1, <3>2 DEF Sealed, Older, NoDeductionLost, Live, Goto, TypeOK
    <3> QED BY <3>4, <3>5, <3>6
  <2>3. CASE Live # None
    <3>1. /\ obj[Live] \in Quotas /\ obj[Live].consumed \in Nat
          /\ SetObj(Live, [obj[Live] EXCEPT !.consumed = @ + req[r].cost])
      BY <1>1, <1>5, <2>1, <2>3 DEF DeductAdd, TypeOK, Quotas
    <3>2. /\ req' = [req EXCEPT ![r].took = req[r].cost]
          /\ tally' = tally + req[r].cost
          /\ UNCHANGED <<store, snap, ops, rb, mutex, db, pending, auth, dirty>>
          /\ Goto(r, "exit") /\ pc[r] = "add"
      BY <1>5, <2>1, <2>3 DEF DeductAdd
    <3>3. obj' \in [Objs -> Quotas] /\ obj'[Live].consumed = obj[Live].consumed + req[r].cost
      <4>1. [obj[Live] EXCEPT !.consumed = @ + req[r].cost] \in Quotas
        BY <1>1, <3>1, ReviewWrites
      <4>2. obj' \in [Objs -> Quotas]
        BY <1>1, <2>1, <2>3, <3>1, <4>1, Stored
      <4>3. obj'[Live] = [obj[Live] EXCEPT !.consumed = @ + req[r].cost]
        BY <1>1, <2>1, <2>3, <3>1 DEF SetObj, TypeOK
      <4> QED BY <3>1, <4>2, <4>3 DEF Quotas
    <3>4. req' \in [Requests -> Reqs] /\ \A p \in Requests : req'[p].at = req[p].at /\ req'[p].q = req[p].q
      BY <1>1, <3>2 DEF TypeOK, Reqs
    <3>5. TypeOK'
      BY <1>1, <3>2, <3>3, <3>4, Move DEF TypeOK
    <3>6. Shape'
      BY <1>1, <3>2, <3>4, <3>5 DEF Shape, Reviewing, InReclaim, Goto, TypeOK
    <3>7. Counted' /\ AddLive'
      BY <1>1, <3>2, <3>4 DEF Counted, AddLive, Goto, TypeOK
    <3>8. Sealed' /\ Older'
      BY <1>1, <2>1, <3>2 DEF Sealed, Older, Live
    <3>9. NoDeductionLost'
      BY <1>1, <2>1, <2>3, <3>2, <3>3 DEF NoDeductionLost, Live
    <3> QED BY <3>6, <3>7, <3>8, <3>9
  <2> QED BY <2>2, <2>3
<1>6. CASE DeductExit(r)
  <2>1. /\ ops' \in [Snaps -> SUBSET Requests] /\ pending' \in Nat
        /\ req' \in [Requests -> Reqs]
    <3>1. NewReq(NoKey) \in Reqs /\ req[r].took \in Nat
      BY <1>1, NewReqType DEF Reqs, NoKey, Metas
    <3> QED BY <1>1, <1>6, <3>1 DEF DeductExit, TypeOK
  <2>2. TypeOK'
    BY <1>1, <1>6, <2>1, Move DEF DeductExit, TypeOK
  <2>3. Shape'
    BY <1>1, <1>6, <2>2 DEF DeductExit, Shape, Reviewing, InReclaim, Goto, TypeOK
  <2>4. Counted' /\ AddLive'
    BY <1>1, <1>6 DEF DeductExit, Counted, AddLive, Goto, TypeOK
  <2>5. Sealed' /\ Older' /\ NoDeductionLost'
    BY <1>1, <1>6 DEF DeductExit, Sealed, Older, NoDeductionLost, Live, Goto, TypeOK
  <2> QED BY <2>3, <2>4, <2>5
<1> QED BY <1>2, <1>3, <1>4, <1>5, <1>6 DEF Deduct

\* Requests that start or end being served, time, and the database's side.
LEMMA OtherInv ==
  ASSUME GateInv,
         \/ \E r \in Requests : Authenticate(r) \/ \E cost \in Costs : Finish(r, cost)
         \/ \E q \in Objs : BackoffEnd(q)
         \/ FlushQuota \/ OtherFlush
  PROVE  GateInv'
<1> USE DEF GateInv
<1>1. TypeOK
  BY DEF Shape
<1>2. ASSUME NEW r \in Requests, Authenticate(r) PROVE GateInv'
  <2>1. req' \in [Requests -> Reqs]
    BY <1>1, <1>2, NewReqType DEF Authenticate, TypeOK
  <2>2. TypeOK'
    BY <1>1, <1>2, <2>1, Move DEF Authenticate, TypeOK
  <2>3. Shape'
    BY <1>1, <1>2, <2>2 DEF Authenticate, Shape, Reviewing, InReclaim, Goto, TypeOK
  <2> QED BY <1>1, <1>2, <2>3, Harmless DEF Authenticate, Goto, TypeOK
<1>3. ASSUME NEW r \in Requests, NEW cost \in Costs, Finish(r, cost) PROVE GateInv'
  <2>1. cost \in Nat /\ 0 \in Snaps /\ 0 \in Objs
    BY QuotaConstants DEF Snaps, Objs
  <2>2. req' \in [Requests -> Reqs]
    BY <1>1, <1>3, <2>1, ReqWrites DEF Finish
  <2>3. TypeOK'
    BY <1>1, <1>3, <2>2, Move DEF Finish, TypeOK
  <2>4. Shape'
    BY <1>1, <1>3, <2>3, SMTT(30) DEF Finish, Shape, Reviewing, InReclaim, Goto, TypeOK
  <2> QED BY <1>1, <1>3, <2>4, Harmless DEF Finish, Goto, TypeOK
<1>4. ASSUME NEW q \in Objs, BackoffEnd(q) PROVE GateInv'
  <2>1. obj[q] \in Quotas /\ [obj[q] EXCEPT !.backoff = FALSE] \in Quotas
    BY <1>1, ReviewWrites DEF TypeOK
  <2>2. obj' \in [Objs -> Quotas] /\ UNCHANGED <<store, snap, ops, tally, rb, pc, req, mutex>>
    BY <1>1, <1>4, <2>1, Stored DEF BackoffEnd
  <2>3. \A p \in Objs : obj'[p].consumed = obj[p].consumed
    BY <1>1, <1>4, <2>1 DEF BackoffEnd, SetObj, TypeOK, Quotas
  <2>4. Shape'
    BY <1>1, <1>4, <2>2 DEF BackoffEnd, Shape, TypeOK, Reviewing, InReclaim
  <2> QED BY <2>2, <2>3, <2>4, Harmless
<1>5. ASSUME FlushQuota \/ OtherFlush PROVE GateInv'
  <2>1. /\ db' \in Metas /\ pending' \in Nat
        /\ UNCHANGED <<auth, dirty, store, snap, ops, tally, rb, obj, pc, req, mutex>>
    BY <1>1, <1>5 DEF FlushQuota, OtherFlush, TypeOK, Metas
  <2>2. Shape'
    BY <1>1, <2>1 DEF Shape, TypeOK, Reviewing, InReclaim
  <2> QED BY <2>1, <2>2, Harmless
<1> QED BY <1>2, <1>3, <1>4, <1>5

\* The steps before a rebuild takes snapshotMu.
RbType == [Rebuilders -> [pc: {"idle", "read", "applied", "wait", "built"},
                          meta: Metas, quota: Objs \cup {None}]]

\* A step that touches the metadata alone, and no rebuilder at the mutex.
LEMMA PrepareStep ==
  ASSUME GateInv, db' \in Metas, auth' \in Metas, dirty' \in BOOLEAN, rb' \in RbType,
         UNCHANGED <<pending, store, snap, ops, obj, mutex, pc, req, tally>>,
         \A w \in Rebuilders : rb'[w].pc \in {"wait", "built"} => rb'[w] = rb[w]
  PROVE  GateInv'
<1>1. TypeOK'
  BY DEF GateInv, Shape, TypeOK, RbType
<1>2. Shape'
  BY <1>1 DEF GateInv, Shape, Reviewing, InReclaim
<1> QED BY <1>2, Harmless

\* A rebuilder that moves on without taking the mutex.
LEMMA RbMove ==
  ASSUME rb \in RbType, NEW w \in Rebuilders, NEW l \in {"idle", "read", "applied"},
         NEW m \in Metas, rb' = [rb EXCEPT ![w].pc = l, ![w].meta = m]
  PROVE  rb' \in RbType /\ \A v \in Rebuilders : rb'[v].pc \in {"wait", "built"} => rb'[v] = rb[v]
<1>1. rb' = [rb EXCEPT ![w] = [rb[w] EXCEPT !.pc = l, !.meta = m]]
  BY DEF RbType
<1>2. [rb[w] EXCEPT !.pc = l, !.meta = m]
        \in [pc: {"idle", "read", "applied", "wait", "built"}, meta: Metas, quota: Objs \cup {None}]
  BY DEF RbType
<1>3. rb' \in RbType
  BY <1>1, <1>2 DEF RbType
<1>4. rb'[w].pc = l /\ \A v \in Rebuilders \ {w} : rb'[v] = rb[v]
  BY <1>1 DEF RbType
<1> QED BY <1>3, <1>4

\* The reload's read and apply, and an administrator's update, delete and apply,
\* preserve the invariant.
LEMMA PrepareInv ==
  ASSUME GateInv, SyncRead \/ SyncApply \/ \E a \in Admins : Admin(a)
  PROVE  GateInv'
<1>1. TypeOK /\ rb \in RbType /\ "sync" \in Rebuilders
  BY DEF GateInv, Shape, TypeOK, RbType, Rebuilders
<1>2. NoKey \in Metas
  BY DEF NoKey, Metas
<1>3. CASE SyncRead
  <2>1. rb' \in RbType /\ \A w \in Rebuilders : rb'[w].pc \in {"wait", "built"} => rb'[w] = rb[w]
    <3>1. rb' = [rb EXCEPT !["sync"].pc = "read", !["sync"].meta = db] /\ db \in Metas
      BY <1>1, <1>3 DEF SyncRead, TypeOK
    <3> QED BY <1>1, <3>1, RbMove
  <2> QED BY <1>1, <1>3, <2>1, PrepareStep DEF SyncRead, TypeOK
<1>4. CASE SyncApply
  <2>1. auth' \in Metas
    BY <1>1, <1>4 DEF SyncApply, TypeOK
  <2>2. rb' \in RbType /\ \A w \in Rebuilders : rb'[w].pc \in {"wait", "built"} => rb'[w] = rb[w]
    <3>1. rb' = [rb EXCEPT !["sync"].pc = "applied", !["sync"].meta = auth']
      BY <1>4 DEF SyncApply
    <3> QED BY <1>1, <2>1, <3>1, RbMove
  <2> QED BY <1>1, <1>4, <2>1, <2>2, PrepareStep DEF SyncApply, TypeOK
<1>5. ASSUME NEW a \in Admins, NEW quota \in NewQuotas, AdminUpdate(a, quota) PROVE GateInv'
  <2>1. quota \in Nat /\ a \in Rebuilders
    BY QuotaConstants DEF Rebuilders
  <2>2. db' \in Metas
    BY <1>1, <1>5, <2>1 DEF AdminUpdate, TypeOK, Metas
  <2>3. rb' \in RbType /\ \A w \in Rebuilders : rb'[w].pc \in {"wait", "built"} => rb'[w] = rb[w]
    <3>1. rb' = [rb EXCEPT ![a].pc = "read", ![a].meta = db']
      BY <1>5 DEF AdminUpdate
    <3> QED BY <1>1, <2>1, <2>2, <3>1, RbMove
  <2> QED BY <1>1, <1>5, <2>2, <2>3, PrepareStep DEF AdminUpdate, TypeOK
<1>6. ASSUME NEW a \in Admins, AdminDelete(a) PROVE GateInv'
  <2>1. db' \in Metas /\ a \in Rebuilders
    BY <1>2, <1>6 DEF AdminDelete, Rebuilders
  <2>2. rb' \in RbType /\ \A w \in Rebuilders : rb'[w].pc \in {"wait", "built"} => rb'[w] = rb[w]
    <3>1. rb' = [rb EXCEPT ![a].pc = "read", ![a].meta = db']
      BY <1>6 DEF AdminDelete
    <3> QED BY <1>1, <2>1, <3>1, RbMove
  <2> QED BY <1>1, <1>6, <2>1, <2>2, PrepareStep DEF AdminDelete, TypeOK
<1>7. ASSUME NEW a \in Admins, AdminApply(a) PROVE GateInv'
  <2>1. a \in Rebuilders /\ auth' \in Metas
    BY <1>1, <1>7 DEF AdminApply, Rebuilders, TypeOK
  <2>2. rb' \in RbType /\ \A w \in Rebuilders : rb'[w].pc \in {"wait", "built"} => rb'[w] = rb[w]
    BY <1>1, <1>7, <2>1 DEF AdminApply, RbType
  <2> QED BY <1>1, <1>7, <2>1, <2>2, PrepareStep DEF AdminApply, TypeOK
<1> QED BY <1>3, <1>4, <1>5, <1>6, <1>7 DEF Admin

\* What a rebuild puts into the new snapshot shows the old consumption.
LEMMA RebuiltConsumed ==
  ASSUME GateInv, NEW w \in Rebuilders, store + 1 \in Snaps
  PROVE  LET new == Rebuilt(w, rb[w].meta) IN
         /\ new.q \in Objs \cup {None} /\ new.o \in Quotas
         /\ new.q # None => new.q = store + 1 \/ new.q = Live
         /\ new.q # None /\ Live # None => new.o.consumed = obj[Live].consumed
<1>1. TypeOK /\ rb[w].meta \in Metas
  BY DEF GateInv, Shape, TypeOK
<1>2. Live # None => obj[Live] \in Quotas /\ obj[Live].consumed \in Nat
  BY <1>1 DEF TypeOK, Live, Quotas
<1>3. Live # None => /\ Fresh(obj[Live].consumed) \in Quotas
                     /\ Fresh(obj[Live].consumed).consumed = obj[Live].consumed
  BY <1>2, FreshType
<1>4. Live # None =>
        /\ AllocBudget(obj[Live], rb[w].meta).consumed = obj[Live].consumed
        /\ AllocBudget(Fresh(obj[Live].consumed), rb[w].meta).consumed = obj[Live].consumed
  BY <1>1, <1>2, <1>3, AllocConsumed
<1>5. Rebuilt(w, rb[w].meta).q \in Objs \cup {None} /\ Rebuilt(w, rb[w].meta).o \in Quotas
  BY <1>1, RebuiltType
<1> QED BY <1>4, <1>5 DEF Rebuilt

\* Every step of a rebuild under snapshotMu preserves the invariant.
LEMMA RebuildInv ==
  ASSUME GateInv, NEW w \in Rebuilders, Rebuild(w)
  PROVE  GateInv'
<1> USE DEF GateInv
<1>1. TypeOK /\ rb \in RbType /\ store \in Snaps /\ store \in Nat
  BY QuotaConstants DEF Shape, TypeOK, RbType, Snaps
<1>2. CASE Retire(w)
  <2>1. rb' \in RbType /\ \A v \in Rebuilders \ {w} : rb'[v] = rb[v]
    BY <1>1, <1>2 DEF Retire, RbType
  <2>2. rb'[w].pc = "wait" /\ \A v \in Rebuilders : rb[v].pc \notin {"wait", "built"}
    BY <1>1, <1>2, QuotaConstants DEF Retire, Shape, RbType, Rebuilders
  <2>3. TypeOK'
    <3>1. snap' \in [Snaps -> [quota: Objs \cup {None}, retiring: BOOLEAN]]
      BY <1>1, <1>2 DEF Retire, TypeOK
    <3> QED BY <1>1, <1>2, <2>1, <3>1 DEF Retire, TypeOK, RbType
  <2>4. Shape'
    BY <1>1, <1>2, <2>1, <2>2, <2>3 DEF Retire, Shape, Reviewing, InReclaim
  <2>5. /\ snap'[store].retiring
        /\ \A s \in Snaps : snap'[s].quota = snap[s].quota
    BY <1>1, <1>2 DEF Retire, TypeOK
  <2>6. Counted' /\ AddLive' /\ Older' /\ NoDeductionLost'
    BY <1>1, <1>2, <2>5 DEF Retire, Counted, AddLive, Older, NoDeductionLost, Live
  <2>7. Sealed'
    BY <1>1, <1>2, <2>1, <2>2, <2>5 DEF Retire, Sealed
  <2> QED BY <2>4, <2>6, <2>7
<1>3. CASE Build(w)
  <2> DEFINE new == Rebuilt(w, rb[w].meta)
  <2>1. store + 1 \in Snaps /\ mutex = w
    BY <1>3 DEF Build, Shape
  <2>2. /\ new.q \in Objs \cup {None} /\ new.o \in Quotas
        /\ new.q # None => new.q = store + 1 \/ new.q = Live
        /\ new.q # None /\ Live # None => new.o.consumed = obj[Live].consumed
    BY <2>1, RebuiltConsumed
  <2>3. /\ rb' = [rb EXCEPT ![w].pc = "built", ![w].quota = new.q]
        /\ obj' = IF new.q = None THEN obj ELSE [obj EXCEPT ![new.q] = new.o]
        /\ rb[w].pc = "wait" /\ ops[store] = {}
        /\ UNCHANGED <<db, pending, auth, dirty, store, snap, ops, mutex, pc, req, tally>>
    BY <1>3 DEF Build
  <2> HIDE DEF new
  <2>4. Live \in Objs \cup {None} /\ Live' = Live /\ (Live # None => Live <= store)
    BY <1>1, <2>3 DEF Live, TypeOK, Older
  <2>5. obj' \in [Objs -> Quotas] /\ (Live # None => obj'[Live].consumed = obj[Live].consumed)
    BY <1>1, <2>2, <2>3, <2>4 DEF TypeOK
  <2>6. rb' \in RbType /\ rb'[w].pc = "built" /\ rb'[w].quota = new.q
          /\ \A v \in Rebuilders \ {w} : rb'[v] = rb[v]
    BY <1>1, <2>2, <2>3 DEF RbType
  <2>7. TypeOK'
    BY <1>1, <2>3, <2>5, <2>6 DEF TypeOK, RbType
  <2>8. Shape'
    BY <1>1, <2>1, <2>3, <2>6, <2>7 DEF Shape, Reviewing, InReclaim
  <2>9. Counted' /\ AddLive' /\ Older'
    BY <2>3 DEF Counted, AddLive, Older
  <2>10. NoDeductionLost'
    BY <2>3, <2>4, <2>5 DEF NoDeductionLost
  <2>11. \A r \in Requests : pc[r] # "add"
    BY <1>1, <2>3 DEF Counted, AddLive
  <2>12. \A v \in Rebuilders \ {w} : rb[v].pc \notin {"wait", "built"}
    BY <2>1 DEF Shape
  <2>13. new.q # None /\ Live # None => obj'[new.q].consumed = obj'[Live].consumed
    BY <1>1, <2>2, <2>3, <2>4, <2>5 DEF TypeOK
  <2>14. new.q # None => new.q <= store + 1
    <3>1. Live # None => Live \in Nat
      BY <2>4, QuotaConstants DEF Objs, Snaps
    <3> QED BY <1>1, <2>2, <2>4, <3>1
  <2>15. snap[store].retiring
    BY <2>3 DEF Sealed
  <2>16. Sealed'
    <3> SUFFICES ASSUME NEW v \in Rebuilders
                 PROVE  /\ rb'[v].pc \in {"wait", "built"} => snap'[store'].retiring
                        /\ rb'[v].pc = "built" =>
                             /\ \A r \in Requests : pc'[r] # "add"
                             /\ rb'[v].quota # None => rb'[v].quota <= store' + 1
                             /\ rb'[v].quota # None /\ Live' # None
                                  => obj'[rb'[v].quota].consumed = obj'[Live'].consumed
      BY DEF Sealed
    <3>1. CASE v = w
      BY <2>3, <2>4, <2>6, <2>11, <2>13, <2>14, <2>15, <3>1
    <3>2. CASE v # w
      BY <2>6, <2>12, <3>2
    <3> QED BY <3>1, <3>2
  <2> QED BY <2>8, <2>9, <2>10, <2>16
<1>4. CASE Publish(w)
  <2> DEFINE q == rb[w].quota
  <2>1. store + 1 \in Snaps /\ q \in Objs \cup {None} /\ rb[w].pc = "built"
    BY <1>1, <1>4 DEF Publish, Shape, RbType
  <2>2. /\ snap' = [snap EXCEPT ![store + 1] = [quota |-> q, retiring |-> FALSE]]
        /\ tally' = IF q = None THEN 0 ELSE IF Live = None THEN obj[q].consumed ELSE tally
        /\ store' = store + 1
        /\ mutex' = None
        /\ rb' = [rb EXCEPT ![w].pc = "idle"]
        /\ UNCHANGED <<db, pending, auth, dirty, ops, obj, pc, req>>
    BY <1>4 DEF Publish
  <2>3. /\ snap' \in [Snaps -> [quota: Objs \cup {None}, retiring: BOOLEAN]]
        /\ snap'[store + 1].quota = q
        /\ \A s \in Snaps \ {store + 1} : snap'[s] = snap[s]
    BY <1>1, <2>1, <2>2 DEF TypeOK
  <2>4. Live' = q
    BY <2>2, <2>3 DEF Live
  <2>5. rb' \in RbType /\ rb'[w].pc = "idle" /\ \A v \in Rebuilders \ {w} : rb'[v] = rb[v]
    BY <1>1, <2>2 DEF RbType
  <2>6. \A v \in Rebuilders \ {w} : rb[v].pc \notin {"wait", "built"}
    BY <2>1 DEF Shape
  <2>7. tally' \in Nat /\ NoDeductionLost'
    <3>1. q # None => obj[q].consumed \in Nat
      BY <1>1, <2>1 DEF TypeOK, Quotas
    <3>2. q # None /\ Live # None => obj[q].consumed = tally
      BY <2>1 DEF Sealed, NoDeductionLost
    <3> QED BY <1>1, <2>2, <2>4, <3>1, <3>2 DEF NoDeductionLost, TypeOK
  <2>8. TypeOK'
    BY <1>1, <2>1, <2>2, <2>3, <2>5, <2>7 DEF TypeOK, RbType
  <2>9. Shape'
    BY <1>1, <2>2, <2>5, <2>6, <2>8 DEF Shape, Reviewing, InReclaim
  <2>10. Counted' /\ AddLive'
    BY <2>1, <2>2 DEF Counted, AddLive, Sealed
  <2>11. Older'
    BY <1>1, <2>1, <2>2, <2>3 DEF Older, Sealed
  <2>12. Sealed'
    BY <2>5, <2>6 DEF Sealed
  <2> QED BY <2>7, <2>9, <2>10, <2>11, <2>12
<1> QED BY <1>2, <1>3, <1>4 DEF Rebuild

\* The gate starts in the invariant.
LEMMA InitInv == Init => GateInv
<1> SUFFICES ASSUME Init PROVE GateInv
  OBVIOUS
<1>1. TypeOK /\ 0 \in Snaps /\ 0 \in Objs
  BY InitType, QuotaConstants DEF Snaps, Objs
<1>2. Fresh(0) \in Quotas /\ Fresh(0).consumed = 0 /\ db \in Metas
  BY <1>1, FreshType DEF TypeOK
<1>3. obj[0].consumed = 0
  BY <1>1, <1>2, AllocConsumed DEF Init
<1>4. Shape
  BY <1>1 DEF Init, Shape, Reviewing, InReclaim
<1>5. Counted /\ AddLive /\ Sealed
  BY DEF Init, Counted, AddLive, Sealed
<1>6. Older /\ NoDeductionLost
  <2>1. \A s \in Snaps : snap[s].quota = IF s = 0 THEN 0 ELSE None
    BY DEF Init
  <2>2. Live = 0 /\ tally = 0
    BY <1>1, <2>1 DEF Init, Live
  <2> QED BY <1>3, <2>1, <2>2 DEF Older, NoDeductionLost
<1> QED BY <1>4, <1>5, <1>6 DEF GateInv

\* Every step of the gate preserves it.
LEMMA StepInv == GateInv /\ [Next]_vars => GateInv'
<1> SUFFICES ASSUME GateInv, [Next]_vars PROVE GateInv'
  BY Zenon
<1>1. CASE UNCHANGED vars
  <2>1. Shape'
    BY <1>1 DEF vars, GateInv, Shape, TypeOK, Reviewing, InReclaim
  <2> QED BY <1>1, <2>1, Harmless DEF vars
<1>2. CASE Idle
  BY <1>1, <1>2 DEF Idle
<1>3. ASSUME NEW r \in Requests, QuotaCheck(r) PROVE GateInv'
  BY <1>3, ReviewInv DEF QuotaCheck
<1>4. ASSUME NEW r \in Requests, Deduct(r) PROVE GateInv'
  BY <1>4, DeductInv
<1>5. ASSUME NEW w \in Rebuilders, Rebuild(w) PROVE GateInv'
  BY <1>5, RebuildInv
<1> QED BY <1>1, <1>2, <1>3, <1>4, <1>5, OtherInv, PrepareInv DEF Next

\* No deduction is lost: for every number of requests, rebuilders, reloads and
\* key changes, the published counter shows every accepted deduction.
THEOREM DeductionsKept == Spec => []NoDeductionLost
<1>1. GateInv => NoDeductionLost
  BY DEF GateInv
<1> QED BY <1>1, InitInv, StepInv, PTL DEF Spec

\* The variables keep their types; in particular no budget goes negative.
THEOREM GateTypes == Spec => []TypeOK
<1>1. GateInv => TypeOK
  BY DEF GateInv, Shape
<1> QED BY <1>1, InitInv, StepInv, PTL DEF Spec

\* The arithmetic of a review: with a database value that did not go back, the
\* new budget never exceeds the quota, whatever was consumed.
THEOREM GrantBound ==
  ASSUME NEW m \in Metas, NEW o \in Quotas, NEW seen \in Nat, o.base <= seen,
         Rest(m, seen, o) > 0
  PROVE  Budget(o.consumed, Rest(m, seen, o)) <= m.quota
<1> DEFINE rest == Rest(m, seen, o)
<1>1. /\ rest \in Int /\ N \in Nat \ {0} /\ m.quota \in Nat
      /\ o.consumed \in Nat /\ o.base \in Nat
  BY RestType, QuotaConstants DEF Metas, Quotas
<1>2. o.consumed + rest <= m.quota
  BY <1>1 DEF Rest
<1>3. CeilDiv(rest, N) <= rest
  BY <1>1, CeilDivBound
<1> QED BY <1>1, <1>2, <1>3, CeilDivType DEF Budget
=============================================================================
