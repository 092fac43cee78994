------------------------- MODULE BillingLedgerProofs --------------------------
(***************************************************************************)
(* ChargedOnce for every number of instances, users, rows and buckets, and *)
(* without any bound on failures.  The invariant is not inductive by       *)
(* itself: a settlement in flight carries a batch chosen on an old         *)
(* snapshot, and a sweep in flight a set of ids.  LedgerInv adds that such *)
(* a batch holds only rows with a cost and such a set only free rows.      *)
(***************************************************************************)
EXTENDS BillingLedger, TLAPS

PaidRows == {r \in Rows : Cost[r] > 0}

\* The shape of the two per-instance variables the argument reads, and what a
\* settlement or a sweep in flight may hold.
InFlight ==
  /\ DOMAIN task = Instances
  /\ \A i \in Instances :
       /\ DOMAIN task[i] = Buckets
       /\ \A b \in Buckets : task[i][b].batch \subseteq PaidRows
  /\ zero \in [Instances -> SUBSET (Rows \ PaidRows)]

LedgerInv ==
  /\ row \in [Rows -> {"absent", "unbilled", "billed"}]
  /\ InFlight
  /\ ChargedOnce

\* A step that touches neither the rows nor their charges keeps ChargedOnce.
LEMMA ChargedOnceUnchanged ==
  ASSUME ChargedOnce, UNCHANGED <<row, charges>>
  PROVE  ChargedOnce'
BY DEF ChargedOnce

\* Starting the goroutines of a lane gives every bucket an empty batch.
LEMMA LaneTasksEmpty ==
  ASSUME NEW lane, NEW f
  PROVE  /\ DOMAIN LaneTasks(lane, f) = Buckets
         /\ \A b \in Buckets : LaneTasks(lane, f)[b].batch = {}
BY DEF LaneTasks, NewTask

\* The batch of the settlement statements selects rows with a cost only.
LEMMA BatchPaid ==
  ASSUME NEW lane, NEW b
  PROVE  Batch(lane, b) \subseteq PaidRows
BY DEF Batch, FirstN, Unbilled, PaidRows

\* Replacing one instance's goroutines by goroutines without a batch, or with
\* a batch of rows with a cost, keeps InFlight.
LEMMA InFlightTask ==
  ASSUME InFlight, NEW i \in Instances, NEW b \in Buckets, NEW t,
         t.batch \subseteq PaidRows,
         task' = [task EXCEPT ![i][b] = t], UNCHANGED zero
  PROVE  InFlight'
<1>1. DOMAIN task' = Instances
  BY DEF InFlight
<1>2. ASSUME NEW j \in Instances
      PROVE  /\ DOMAIN task'[j] = Buckets
             /\ \A c \in Buckets : task'[j][c].batch \subseteq PaidRows
  BY DEF InFlight
<1>3. QED
  BY <1>1, <1>2 DEF InFlight, PaidRows

\* Tasks of an instance with no rows in their batches leave nothing in flight unaccounted.
LEMMA InFlightTasks ==
  ASSUME InFlight, NEW i \in Instances, NEW ts,
         DOMAIN ts = Buckets, \A b \in Buckets : ts[b].batch = {},
         task' = [task EXCEPT ![i] = ts], UNCHANGED zero
  PROVE  InFlight'
BY DEF InFlight, PaidRows

\* The transaction that marks a batch is the one that charges it: it commits
\* only when every row of the batch is still unbilled.
LEMMA SettleCharges ==
  ASSUME LedgerInv, NEW i \in Instances, NEW b \in Buckets, Settle(i, b)
  PROVE  /\ row' \in [Rows -> {"absent", "unbilled", "billed"}]
         /\ ChargedOnce'
<1> DEFINE t == task[i][b]
<1>1. /\ t.batch \subseteq Unbilled
      /\ row' = [r \in Rows |-> IF r \in t.batch THEN "billed" ELSE row[r]]
      /\ charges' = [r \in Rows |-> charges[r] + IF r \in t.batch THEN 1 ELSE 0]
  BY DEF Settle, ApplySettlement
<1>2. t.batch \subseteq PaidRows
  BY DEF LedgerInv, InFlight
<1>3. row' \in [Rows -> {"absent", "unbilled", "billed"}]
  BY <1>1 DEF LedgerInv
<1>4. ASSUME NEW r \in Rows
      PROVE  charges'[r] = IF row'[r] = "billed" /\ Cost[r] > 0 THEN 1 ELSE 0
  <2>1. CASE r \in t.batch
    <3>1. row[r] = "unbilled" /\ Cost[r] > 0 /\ row'[r] = "billed"
      BY <1>1, <1>2, <2>1 DEF Unbilled, PaidRows
    <3>2. charges[r] = 0
      BY <3>1 DEF LedgerInv, ChargedOnce
    <3>3. QED
      BY <1>1, <2>1, <3>1, <3>2
  <2>2. CASE r \notin t.batch
    BY <1>1, <2>2 DEF LedgerInv, ChargedOnce
  <2>3. QED
    BY <2>1, <2>2
<1>5. QED
  BY <1>3, <1>4 DEF ChargedOnce

\* Initially nothing is billed, charged or in flight.
LEMMA InitInv == Init => LedgerInv
BY ConstAssumption DEF Init, LedgerInv, InFlight, PaidRows, ChargedOnce, NoTask, NewTask

\* Every step preserves the invariant: only a settlement and the sweep touch
\* billed rows, only the start of a statement or of a sweep fills a batch.
LEMMA StepInv == LedgerInv /\ [Next]_vars => LedgerInv'
<1> SUFFICES ASSUME LedgerInv, [Next]_vars
             PROVE  LedgerInv'
  OBVIOUS
<1> USE DEF LedgerInv
<1>1. ASSUME NEW r \in Rows, Insert(r) PROVE LedgerInv'
  BY <1>1 DEF Insert, cycleVars, InFlight, PaidRows, ChargedOnce
<1>2. ASSUME NEW u \in Users, RedeemBalance(u) PROVE LedgerInv'
  BY <1>2, ChargedOnceUnchanged DEF RedeemBalance, cycleVars, InFlight, PaidRows
<1>3. ASSUME NEW c \in Chunks, RedeemTemp(c) \/ Expire(c) PROVE LedgerInv'
  BY <1>3, ChargedOnceUnchanged DEF RedeemTemp, Expire, cycleVars, InFlight, PaidRows
<1>4. ASSUME NEW i \in Instances, NEW b \in Buckets, BucketBegin(i, b)
      PROVE  LedgerInv'
  <2> DEFINE batch == Batch(stage[i], b)
             t == [st |-> "run", again |-> task[i][b].again, batch |-> batch,
                   take |-> IF stage[i] = "fefo" THEN Takes(batch) ELSE NoTake,
                   seen |-> [u \in Users |-> IF u \in {Owner[r] : r \in batch}
                                             THEN balance[u] ELSE 0]]
  <2>1. task' = [task EXCEPT ![i][b] = t] /\ UNCHANGED <<zero, row, charges>>
    BY <1>4 DEF BucketBegin, dbVars
  <2>2. t.batch \subseteq PaidRows
    BY BatchPaid
  <2>3. InFlight'
    <3> HIDE DEF t
    <3> QED BY <2>1, <2>2, InFlightTask
  <2>4. QED
    BY <2>1, <2>3, ChargedOnceUnchanged
<1>5. ASSUME NEW i \in Instances, NEW b \in Buckets,
             BucketCommit(i, b) \/ BucketCommitUnknown(i, b)
      PROVE  LedgerInv'
  <2>1. /\ Settle(i, b)
        /\ task' = [task EXCEPT ![i][b] = NoTask]
        /\ UNCHANGED zero
    BY <1>5 DEF BucketCommit, BucketCommitUnknown, Finish
  <2>2. InFlight'
    BY <2>1, InFlightTask, NoTask.batch = {} DEF NoTask, NewTask
  <2>3. QED
    BY <2>1, <2>2, SettleCharges
<1>6. ASSUME NEW i \in Instances, NEW b \in Buckets,
             BucketConflict(i, b) \/ BucketFail(i, b)
      PROVE  LedgerInv'
  <2>1. PICK t \in {NoTask, NewTask("todo", TRUE)} :
          task' = [task EXCEPT ![i][b] = t]
    BY <1>6 DEF BucketConflict, BucketFail, Finish
  <2>2. t.batch = {} /\ UNCHANGED <<zero, row, charges>>
    BY <1>6 DEF BucketConflict, BucketFail, NoTask, NewTask, dbVars
  <2>3. InFlight'
    BY <2>1, <2>2, InFlightTask
  <2>4. QED
    BY <2>2, <2>3, ChargedOnceUnchanged
<1>7. ASSUME NEW i \in Instances, CycleStart(i) \/ NextPass(i)
      PROVE  LedgerInv'
  <2>1. PICK f : task' = [task EXCEPT ![i] = LaneTasks("balance", f)]
    BY <1>7 DEF CycleStart, NextPass, StartPass
  <2>2. UNCHANGED <<zero, row, charges>>
    BY <1>7 DEF CycleStart, NextPass, dbVars
  <2>3. InFlight'
    BY <2>1, <2>2, LaneTasksEmpty, InFlightTasks
  <2>4. QED
    BY <2>2, <2>3, ChargedOnceUnchanged
<1>8. ASSUME NEW i \in Instances, LaneDone(i) PROVE LedgerInv'
  <2>1. UNCHANGED <<zero, row, charges>>
    BY <1>8 DEF LaneDone, dbVars
  <2>2. InFlight'
    <3>1. CASE task' = [task EXCEPT ![i] = LaneTasks("fefo", failed[i])]
      BY <2>1, <3>1, LaneTasksEmpty, InFlightTasks
    <3>2. CASE UNCHANGED task
      BY <2>1, <3>2 DEF InFlight, PaidRows
    <3>3. QED
      BY <1>8, <3>1, <3>2 DEF LaneDone
  <2>3. QED
    BY <2>1, <2>2, ChargedOnceUnchanged
<1>9. ASSUME NEW i \in Instances, SweepFetch(i) PROVE LedgerInv'
  <2>1. UNCHANGED <<task, row, charges>>
    BY <1>9 DEF SweepFetch, dbVars
  <2>2. {r \in FirstN(Unbilled, FetchLimit) : Cost[r] <= 0} \subseteq Rows \ PaidRows
    <3>1. FirstN(Unbilled, FetchLimit) \subseteq Rows
      BY DEF FirstN, Unbilled
    <3>2. \A r \in Rows : Cost[r] <= 0 => ~(Cost[r] > 0)
      BY ConstAssumption
    <3>3. QED
      BY <3>1, <3>2 DEF PaidRows
  <2>3. zero' \in [Instances -> SUBSET (Rows \ PaidRows)]
    BY <1>9, <2>2 DEF SweepFetch, InFlight
  <2>4. QED
    BY <2>1, <2>3, ChargedOnceUnchanged DEF InFlight, PaidRows
<1>10. ASSUME NEW i \in Instances, SweepMark(i) PROVE LedgerInv'
  <2>1. /\ row' = [r \in Rows |-> IF r \in zero[i] THEN "billed" ELSE row[r]]
        /\ zero' = [zero EXCEPT ![i] = {}]
        /\ UNCHANGED <<task, charges>>
    BY <1>10 DEF SweepMark
  <2>2. \A r \in zero[i] : ~(Cost[r] > 0)
    BY DEF InFlight, PaidRows
  <2>3. ChargedOnce'
    BY <2>1, <2>2 DEF ChargedOnce
  <2>4. QED
    BY <2>1, <2>3 DEF InFlight, PaidRows
<1>11. ASSUME NEW i \in Instances, SweepFail(i) PROVE LedgerInv'
  BY <1>11, ChargedOnceUnchanged DEF SweepFail, dbVars, InFlight, PaidRows
<1>12. ASSUME NEW i \in Instances, CycleEnd(i) PROVE LedgerInv'
  BY <1>12, ChargedOnceUnchanged DEF CycleEnd, dbVars, InFlight, PaidRows
<1>13. ASSUME NEW i \in Instances, Crash(i) \/ CloseTruncate(i) PROVE LedgerInv'
  <2>1. /\ task' = [task EXCEPT ![i] = [b \in Buckets |-> NoTask]]
        /\ zero' = [zero EXCEPT ![i] = {}]
        /\ UNCHANGED <<row, charges>>
    BY <1>13 DEF Crash, CloseTruncate, Abort, dbVars
  <2>2. InFlight'
    BY <2>1 DEF InFlight, PaidRows, NoTask, NewTask
  <2>3. QED
    BY <2>1, <2>2, ChargedOnceUnchanged
<1>14. ASSUME NEW i \in Instances,
              LockLost(i) \/ CloseBegin(i) \/ DrainSkip(i) \/ Restart(i)
       PROVE  LedgerInv'
  BY <1>14, ChargedOnceUnchanged
     DEF LockLost, CloseBegin, DrainSkip, Restart, dbVars, cycleVars, InFlight, PaidRows
<1>15. CASE UNCHANGED vars
  BY <1>15, ChargedOnceUnchanged DEF vars, dbVars, cycleVars, InFlight, PaidRows
<1>16. QED
  BY <1>1, <1>2, <1>3, <1>4, <1>5, <1>6, <1>7, <1>8, <1>9, <1>10, <1>11, <1>12,
     <1>13, <1>14, <1>15
     DEF Next, Environment, BucketStep, CycleStep, Failure, Shutdown

\* Exactly-once charging, for any number of instances and any failures.
THEOREM ExactlyOnce == Spec => []ChargedOnce
<1>1. LedgerInv => ChargedOnce
  BY DEF LedgerInv
<1>2. QED
  BY <1>1, InitInv, StepInv, PTL DEF Spec

=============================================================================
