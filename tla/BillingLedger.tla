---------------------------- MODULE BillingLedger ----------------------------
(***************************************************************************)
(* The billing consumer: internal/billing/{flusher,drain}.go over the      *)
(* settlement statements of internal/repository/billing_settle*.go.        *)
(*                                                                         *)
(* Usage rows (ids in Rows) are inserted unbilled.  Every instance runs a  *)
(* Flusher that takes a session-level advisory lock, then makes passes     *)
(* over three lanes: the balance lane, the FEFO lane (users with live      *)
(* temporary balance, consumed first-expired-first-out) and the zero-cost  *)
(* sweep.  In the first two lanes the buckets (user id modulo K) settle in *)
(* parallel, each with one transaction that picks a batch, debits and      *)
(* marks it.  A transaction is two steps here: the statement's snapshot    *)
(* (BucketBegin) and its row updates and commit (BucketCommit), so that    *)
(* everything other transactions commit in between is seen the way READ    *)
(* COMMITTED sees it: rows chosen on the snapshot, conditions of the       *)
(* updates re-evaluated on the current rows.                               *)
(***************************************************************************)
EXTENDS Integers, FiniteSets, FiniteSetsExt

CONSTANTS
  Instances,     \* gateway instances
  Users,         \* ids of rows of table users; 0 stands for user_id NULL
  Rows,          \* ids of usage_logs rows
  Owner,         \* row -> user id or 0
  Cost,          \* row -> cost
  Chunks,        \* ids of temp_balances rows, in expiry order
  ChunkOwner,    \* chunk -> user
  ChunkAmount,   \* chunk -> granted amount
  K,             \* settleParallelism
  Limit,         \* rows per settlement (batchController.limit)
  FetchLimit,    \* rows per FetchUnbilledBatch
  StartBalance,  \* user -> balance at the start
  TopUp,         \* amount of one redemption of balance
  MaxTopUps,     \* bound: redemptions of balance
  MaxFaults,     \* bound: failed statements, lost locks and crashes
  MaxStops,      \* bound: orderly shutdowns
  None           \* no lock holder

ASSUME ConstAssumption ==
  /\ None \notin Instances
  /\ Users \subseteq Nat \ {0}
  /\ Rows \subseteq Nat
  /\ Chunks \subseteq Nat
  /\ Owner \in [Rows -> Users \cup {0}]
  /\ Cost \in [Rows -> Nat]
  /\ ChunkOwner \in [Chunks -> Users]
  /\ ChunkAmount \in [Chunks -> Nat \ {0}]
  /\ StartBalance \in [Users -> Int]
  /\ K \in Nat \ {0}
  /\ Limit \in Nat \ {0}
  /\ FetchLimit \in Nat \ {0}
  /\ TopUp \in Nat \ {0}
  /\ MaxTopUps \in Nat
  /\ MaxFaults \in Nat
  /\ MaxStops \in Nat

VARIABLES
  row,        \* usage_logs: "absent", "unbilled" or "billed"
  overdraft,  \* rows with overdraft = TRUE
  balance,    \* users.balance
  temp,       \* temp_balances.amount
  chunk,      \* temp_balances row: "none" (not granted), "live" or "expired"
  lock,       \* holder of the billing advisory lock
  mode,       \* instance: "run", "closing" (Close waits for the cycle in
              \* flight), "draining" (Close runs cycles itself) or "closed"
  stage,      \* instance: where consumeCycle is
  task,       \* instance, bucket: the settlement goroutine
  failed,     \* instance: (lane, bucket) pairs failed in this cycle
  progress,   \* instance: this pass marked some row
  drained,    \* instance: this cycle marked some row
  zero,       \* instance: zero-cost ids fetched by the sweep
  funded,     \* history: money given to each user
  charges,    \* history: how often each row's cost was part of a debit
  topUps, faults, stops

dbVars    == <<row, overdraft, balance, temp, chunk, funded, charges, topUps>>
cycleVars == <<stage, task, failed, progress, drained, zero>>
vars == <<dbVars, cycleVars, lock, mode, faults, stops>>

Buckets == 0 .. K - 1
Lanes   == {"balance", "fefo"}

NoTake == [c \in Chunks |-> 0]
NewTask(st, again) ==
  [st |-> st, again |-> again, batch |-> {}, take |-> NoTake,
   seen |-> [u \in Users |-> 0]]
NoTask == NewTask("done", FALSE)
Tasks == [st: {"todo", "run", "done"}, again: BOOLEAN, batch: SUBSET Rows,
          take: [Chunks -> Nat], seen: [Users -> Int]]

TypeOK ==
  /\ row \in [Rows -> {"absent", "unbilled", "billed"}]
  /\ overdraft \subseteq Rows
  /\ balance \in [Users -> Int]
  /\ temp \in [Chunks -> Nat]
  /\ chunk \in [Chunks -> {"none", "live", "expired"}]
  /\ lock \in Instances \cup {None}
  /\ mode \in [Instances -> {"run", "closing", "draining", "closed"}]
  /\ stage \in [Instances -> {"idle", "balance", "fefo", "sweep", "mark", "end"}]
  /\ task \in [Instances -> [Buckets -> Tasks]]
  /\ failed \in [Instances -> SUBSET (Lanes \X Buckets)]
  /\ progress \in [Instances -> BOOLEAN]
  /\ drained \in [Instances -> BOOLEAN]
  /\ zero \in [Instances -> SUBSET Rows]
  /\ funded \in [Users -> Int]
  /\ charges \in [Rows -> Nat]
  /\ topUps \in 0 .. MaxTopUps
  /\ faults \in 0 .. MaxFaults
  /\ stops \in 0 .. MaxStops

-----------------------------------------------------------------------------
(***************************************************************************)
(* The settlement statements.                                              *)
(***************************************************************************)

Unbilled == {r \in Rows : row[r] = "unbilled"}

\* The n lowest ids: ORDER BY id LIMIT n.
FirstN(S, n) == {r \in S : Cardinality({s \in S : s < r}) < n}

\* amount > 0 AND (expires_at IS NULL OR expires_at > now())
Live == {c \in Chunks : chunk[c] = "live" /\ temp[c] > 0}

TempActive(u) == \E c \in Live : ChunkOwner[c] = u

\* Mutant: the bucket predicate without COALESCE never selects NULL owners.
BatchBareUserId(lane, b) ==
  FirstN({r \in Unbilled : /\ Cost[r] > 0
                           /\ Owner[r] # 0 /\ Owner[r] % K = b
                           /\ TempActive(Owner[r]) <=> lane = "fefo"}, Limit)

\* CTE batch of the two statements: the lanes differ in the temp-active test.
Batch(lane, b) ==
  FirstN({r \in Unbilled : /\ Cost[r] > 0
                           /\ Owner[r] % K = b
                           /\ TempActive(Owner[r]) <=> lane = "fefo"}, Limit)

\* CTE totals: what the batch costs user u.
Delta(batch, u) == SumFunctionOnSet(Cost, {r \in batch : Owner[r] = u})

\* Window function cum: the amounts of u's live chunks up to and including c.
Cum(c) ==
  SumFunctionOnSet(temp, {d \in Live : ChunkOwner[d] = ChunkOwner[c] /\ d <= c})

\* CTEs temp_pool and takes: what to draw from each chunk.
Takes(batch) ==
  [c \in Chunks |->
     LET delta == Delta(batch, ChunkOwner[c])
     IN  IF c \in Live /\ Cum(c) - temp[c] < delta
         THEN IF Cum(c) <= delta THEN temp[c] ELSE delta - (Cum(c) - temp[c])
         ELSE 0]

\* Mutant: the draw without its condition amount >= take.
DrawnUnconditional(t) == t.take

\* CTE temp_drawn: the draw is conditional on the amount still being there.
Drawn(t) == [c \in Chunks |-> IF temp[c] >= t.take[c] THEN t.take[c] ELSE 0]

\* Mutant: the spill computed from the planned draws, not from the actual ones.
SpillPlanned(t) ==
  [u \in Users |-> Delta(t.batch, u)
     - SumFunctionOnSet(t.take, {c \in Chunks : ChunkOwner[c] = u})]

\* What is left for the balance: delta in the balance lane, spill in FEFO.
Spill(t) ==
  [u \in Users |-> Delta(t.batch, u)
     - SumFunctionOnSet(Drawn(t), {c \in Chunks : ChunkOwner[c] = u})]

\* Mutant: the debit without its condition balance >= spill.
DebitedAlways(t) == {u \in Users : Spill(t)[u] > 0}

\* CTE debited: condition true of the snapshot and of the current row;
\* CTE forced takes every other user that owes.
Debited(t) ==
  {u \in Users : /\ Spill(t)[u] > 0
                 /\ t.seen[u] >= Spill(t)[u]
                 /\ balance[u] >= Spill(t)[u]}
Forced(t) == {u \in Users : Spill(t)[u] > 0} \ Debited(t)

\* Mutant: the temporary balance is not reduced by what was drawn.
ApplySettlementKeepTemp(t) ==
  /\ temp' = temp
  /\ balance' = [u \in Users |-> balance[u] - Spill(t)[u]]
  /\ row' = [r \in Rows |-> IF r \in t.batch THEN "billed" ELSE row[r]]
  /\ overdraft' = overdraft \cup {r \in t.batch : Owner[r] \in Forced(t)}
  /\ charges' = [r \in Rows |-> charges[r] + IF r \in t.batch THEN 1 ELSE 0]

\* The effect of the committed statement: draw, debit or force, mark.
ApplySettlement(t) ==
  /\ temp' = [c \in Chunks |-> temp[c] - Drawn(t)[c]]
  /\ balance' = [u \in Users |-> IF u \in Debited(t) \cup Forced(t)
                                 THEN balance[u] - Spill(t)[u] ELSE balance[u]]
  /\ row' = [r \in Rows |-> IF r \in t.batch THEN "billed" ELSE row[r]]
  /\ overdraft' = overdraft \cup {r \in t.batch : Owner[r] \in Forced(t)}
  /\ charges' = [r \in Rows |-> charges[r] + IF r \in t.batch THEN 1 ELSE 0]

-----------------------------------------------------------------------------
(***************************************************************************)
(* The environment: usage rows arrive, users redeem codes, chunks expire.  *)
(***************************************************************************)

Insert(r) ==
  /\ row[r] = "absent"
  /\ row' = [row EXCEPT ![r] = "unbilled"]
  /\ UNCHANGED <<overdraft, balance, temp, chunk, funded, charges, topUps,
                 cycleVars, lock, mode, faults, stops>>

RedeemBalance(u) ==
  /\ topUps < MaxTopUps
  /\ topUps' = topUps + 1
  /\ balance' = [balance EXCEPT ![u] = @ + TopUp]
  /\ funded' = [funded EXCEPT ![u] = @ + TopUp]
  /\ UNCHANGED <<row, overdraft, temp, chunk, charges, cycleVars, lock, mode, faults, stops>>

\* Expiry times order the chunks: what expires later is granted before it is
\* past, and expires after everything that expires earlier.
RedeemTemp(c) ==
  /\ chunk[c] = "none"
  /\ \A d \in Chunks : d > c => chunk[d] # "expired"
  /\ chunk' = [chunk EXCEPT ![c] = "live"]
  /\ temp' = [temp EXCEPT ![c] = ChunkAmount[c]]
  /\ funded' = [funded EXCEPT ![ChunkOwner[c]] = @ + ChunkAmount[c]]
  /\ UNCHANGED <<row, overdraft, balance, charges, topUps, cycleVars, lock, mode, faults, stops>>

Expire(c) ==
  /\ chunk[c] = "live"
  /\ \A d \in Chunks : d < c => chunk[d] # "live"
  /\ chunk' = [chunk EXCEPT ![c] = "expired"]
  /\ UNCHANGED <<row, overdraft, balance, temp, funded, charges, topUps,
                 cycleVars, lock, mode, faults, stops>>

-----------------------------------------------------------------------------
(***************************************************************************)
(* One consumption cycle: consumeCycle, drainLoop, settleLaneParallel.     *)
(***************************************************************************)

Fault == faults < MaxFaults /\ faults' = faults + 1

\* The goroutines a lane starts: one per bucket that has not failed.
LaneTasks(lane, f) ==
  [b \in Buckets |-> NewTask(IF <<lane, b>> \in f THEN "done" ELSE "todo", FALSE)]

StartPass(i, f) ==
  /\ stage' = [stage EXCEPT ![i] = "balance"]
  /\ task' = [task EXCEPT ![i] = LaneTasks("balance", f)]
  /\ progress' = [progress EXCEPT ![i] = FALSE]

\* Mutant: the cycle starts whether or not the lock was obtained.
CycleStartUnlocked(i) ==
  /\ mode[i] # "closed" /\ stage[i] = "idle"
  /\ lock' = i
  /\ StartPass(i, {})
  /\ failed' = [failed EXCEPT ![i] = {}]
  /\ drained' = [drained EXCEPT ![i] = FALSE]
  /\ UNCHANGED <<dbVars, zero, mode, faults, stops>>

\* pg_try_advisory_lock succeeds; a held lock skips the cycle.
CycleStart(i) ==
  /\ mode[i] # "closed" /\ stage[i] = "idle" /\ lock = None
  /\ lock' = i
  /\ StartPass(i, {})
  /\ failed' = [failed EXCEPT ![i] = {}]
  /\ drained' = [drained EXCEPT ![i] = FALSE]
  /\ UNCHANGED <<dbVars, zero, mode, faults, stops>>

\* The statement starts: its snapshot fixes the batch, the draws and the
\* balances the debit condition is first tried on.
BucketBegin(i, b) ==
  /\ stage[i] \in Lanes /\ task[i][b].st = "todo"
  /\ LET batch == Batch(stage[i], b)
         who   == {Owner[r] : r \in batch}
     IN  task' = [task EXCEPT ![i][b] =
                    [st |-> "run", again |-> @.again, batch |-> batch,
                     take |-> IF stage[i] = "fefo" THEN Takes(batch) ELSE NoTake,
                     seen |-> [u \in Users |-> IF u \in who THEN balance[u] ELSE 0]]]
  /\ UNCHANGED <<dbVars, stage, failed, progress, drained, zero, lock, mode, faults, stops>>

Finish(i, b) == task' = [task EXCEPT ![i][b] = NoTask]
MarkFailed(i, b) == failed' = [failed EXCEPT ![i] = @ \cup {<<stage[i], b>>}]

\* Mutant: no comparison of Marked with BatchRows.
SettleUnguarded(i, b) ==
  /\ task[i][b].st = "run"
  /\ ApplySettlement(task[i][b])
  /\ UNCHANGED <<chunk, funded, topUps>>

\* Every row of the batch is still unbilled (Marked = BatchRows): commit.
Settle(i, b) ==
  /\ task[i][b].st = "run"
  /\ task[i][b].batch \subseteq Unbilled
  /\ ApplySettlement(task[i][b])
  /\ UNCHANGED <<chunk, funded, topUps>>

BucketCommit(i, b) ==
  /\ Settle(i, b)
  /\ Finish(i, b)
  /\ progress' = [progress EXCEPT ![i] = @ \/ task[i][b].batch # {}]
  /\ UNCHANGED <<stage, failed, drained, zero, lock, mode, faults, stops>>

\* The commit happened but its acknowledgement was lost: an error to the code.
BucketCommitUnknown(i, b) ==
  /\ Fault
  /\ Settle(i, b)
  /\ Finish(i, b)
  /\ MarkFailed(i, b)
  /\ UNCHANGED <<stage, progress, drained, zero, lock, mode, stops>>

\* errConcurrentMark: rolled back, replayed once, then failed for this cycle.
BucketConflict(i, b) ==
  /\ task[i][b].st = "run"
  /\ ~(task[i][b].batch \subseteq Unbilled)
  /\ IF task[i][b].again
     THEN Finish(i, b) /\ MarkFailed(i, b)
     ELSE /\ task' = [task EXCEPT ![i][b] = NewTask("todo", TRUE)]
          /\ UNCHANGED failed
  /\ UNCHANGED <<dbVars, stage, progress, drained, zero, lock, mode, faults, stops>>

\* Any other error: rolled back and failed for this cycle.
BucketFail(i, b) ==
  /\ Fault
  /\ stage[i] \in Lanes /\ task[i][b].st # "done"
  /\ Finish(i, b)
  /\ MarkFailed(i, b)
  /\ UNCHANGED <<dbVars, stage, progress, drained, zero, lock, mode, stops>>

LaneDone(i) ==
  /\ stage[i] \in Lanes
  /\ \A b \in Buckets : task[i][b].st = "done"
  /\ IF stage[i] = "balance"
     THEN /\ stage' = [stage EXCEPT ![i] = "fefo"]
          /\ task' = [task EXCEPT ![i] = LaneTasks("fefo", failed[i])]
     ELSE /\ stage' = [stage EXCEPT ![i] = "sweep"]
          /\ UNCHANGED task
  /\ UNCHANGED <<dbVars, failed, progress, drained, zero, lock, mode, faults, stops>>

\* sweepZeroCost: fetch the head of the cursor, keep its free rows ...
SweepFetch(i) ==
  /\ stage[i] = "sweep"
  /\ zero' = [zero EXCEPT ![i] = {r \in FirstN(Unbilled, FetchLimit) : Cost[r] <= 0}]
  /\ stage' = [stage EXCEPT ![i] = IF zero'[i] = {} THEN "end" ELSE "mark"]
  /\ UNCHANGED <<dbVars, task, failed, progress, drained, lock, mode, faults, stops>>

\* ... and mark them; MarkBilledBulk skips rows marked meanwhile.
SweepMark(i) ==
  /\ stage[i] = "mark"
  /\ row' = [r \in Rows |-> IF r \in zero[i] THEN "billed" ELSE row[r]]
  /\ progress' = [progress EXCEPT ![i] = TRUE]
  /\ stage' = [stage EXCEPT ![i] = "end"]
  /\ zero' = [zero EXCEPT ![i] = {}]
  /\ UNCHANGED <<overdraft, balance, temp, chunk, funded, charges, topUps,
                 task, failed, drained, lock, mode, faults, stops>>

SweepFail(i) ==
  /\ Fault
  /\ stage[i] \in {"sweep", "mark"}
  /\ stage' = [stage EXCEPT ![i] = "end"]
  /\ zero' = [zero EXCEPT ![i] = {}]
  /\ UNCHANGED <<dbVars, task, failed, progress, drained, lock, mode, stops>>

\* Mutant: the failed buckets are forgotten between passes.
NextPassForgets(i) ==
  /\ stage[i] = "end" /\ progress[i]
  /\ StartPass(i, {})
  /\ drained' = [drained EXCEPT ![i] = TRUE]
  /\ UNCHANGED <<dbVars, failed, zero, lock, mode, faults, stops>>

\* Another pass after progress, unless the cycle's time budget is used up.
NextPass(i) ==
  /\ stage[i] = "end" /\ progress[i]
  /\ StartPass(i, failed[i])
  /\ drained' = [drained EXCEPT ![i] = TRUE]
  /\ UNCHANGED <<dbVars, failed, zero, lock, mode, faults, stops>>

\* A cycle of Close's drain that marked nothing ends Close.
CycleEnd(i) ==
  /\ stage[i] = "end"
  /\ stage' = [stage EXCEPT ![i] = "idle"]
  /\ lock' = IF lock = i THEN None ELSE lock
  /\ progress' = [progress EXCEPT ![i] = FALSE]
  /\ drained' = [drained EXCEPT ![i] = FALSE]
  /\ failed' = [failed EXCEPT ![i] = {}]
  /\ mode' = [mode EXCEPT ![i] =
                IF @ = "closing" THEN "draining"
                ELSE IF @ = "draining" /\ ~drained[i] /\ ~progress[i] THEN "closed"
                ELSE @]
  /\ UNCHANGED <<dbVars, task, zero, faults, stops>>

-----------------------------------------------------------------------------
(***************************************************************************)
(* Shutdown, crash, and loss of the lock's session.                        *)
(***************************************************************************)

CloseBegin(i) ==
  /\ mode[i] = "run" /\ stops < MaxStops
  /\ stops' = stops + 1
  /\ mode' = [mode EXCEPT ![i] = IF stage[i] = "idle" THEN "draining" ELSE "closing"]
  /\ UNCHANGED <<dbVars, cycleVars, lock, faults>>

\* Close's cycle finds the lock held elsewhere: no progress, Close returns.
DrainSkip(i) ==
  /\ mode[i] = "draining" /\ stage[i] = "idle" /\ lock \notin {None, i}
  /\ mode' = [mode EXCEPT ![i] = "closed"]
  /\ UNCHANGED <<dbVars, cycleVars, lock, faults, stops>>

\* Open transactions roll back and the lock's session ends with the process.
Abort(i) ==
  /\ mode' = [mode EXCEPT ![i] = "closed"]
  /\ stage' = [stage EXCEPT ![i] = "idle"]
  /\ task' = [task EXCEPT ![i] = [b \in Buckets |-> NoTask]]
  /\ failed' = [failed EXCEPT ![i] = {}]
  /\ progress' = [progress EXCEPT ![i] = FALSE]
  /\ drained' = [drained EXCEPT ![i] = FALSE]
  /\ zero' = [zero EXCEPT ![i] = {}]
  /\ lock' = IF lock = i THEN None ELSE lock

\* The shutdown budget is used up: baseCancel and a truncated exit.
CloseTruncate(i) ==
  /\ mode[i] \in {"closing", "draining"}
  /\ Abort(i)
  /\ UNCHANGED <<dbVars, faults, stops>>

Crash(i) ==
  /\ mode[i] # "closed"
  /\ Fault
  /\ Abort(i)
  /\ UNCHANGED <<dbVars, stops>>

Restart(i) ==
  /\ mode[i] = "closed"
  /\ mode' = [mode EXCEPT ![i] = "run"]
  /\ UNCHANGED <<dbVars, cycleVars, lock, faults, stops>>

\* The lock's connection dies while the instance keeps settling on others.
LockLost(i) ==
  /\ lock = i
  /\ Fault
  /\ lock' = None
  /\ UNCHANGED <<dbVars, cycleVars, mode, stops>>

-----------------------------------------------------------------------------
Init ==
  /\ row = [r \in Rows |-> "absent"]
  /\ overdraft = {}
  /\ balance = StartBalance
  /\ temp = NoTake
  /\ chunk = [c \in Chunks |-> "none"]
  /\ lock = None
  /\ mode = [i \in Instances |-> "run"]
  /\ stage = [i \in Instances |-> "idle"]
  /\ task = [i \in Instances |-> [b \in Buckets |-> NoTask]]
  /\ failed = [i \in Instances |-> {}]
  /\ progress = [i \in Instances |-> FALSE]
  /\ drained = [i \in Instances |-> FALSE]
  /\ zero = [i \in Instances |-> {}]
  /\ funded = StartBalance
  /\ charges = [r \in Rows |-> 0]
  /\ topUps = 0 /\ faults = 0 /\ stops = 0

Environment ==
  \/ \E r \in Rows : Insert(r)
  \/ \E u \in Users : RedeemBalance(u)
  \/ \E c \in Chunks : RedeemTemp(c) \/ Expire(c)

BucketStep(i, b) ==
  \/ BucketBegin(i, b)
  \/ BucketCommit(i, b)
  \/ BucketConflict(i, b)

CycleStep(i) ==
  \/ CycleStart(i)
  \/ LaneDone(i)
  \/ SweepFetch(i)
  \/ SweepMark(i)
  \/ NextPass(i)
  \/ CycleEnd(i)

Failure(i) ==
  \/ \E b \in Buckets : BucketCommitUnknown(i, b) \/ BucketFail(i, b)
  \/ SweepFail(i)
  \/ Crash(i)
  \/ LockLost(i)

Shutdown(i) ==
  \/ CloseBegin(i)
  \/ DrainSkip(i)
  \/ CloseTruncate(i)
  \/ Restart(i)

Next ==
  \/ Environment
  \/ \E i \in Instances : \/ \E b \in Buckets : BucketStep(i, b)
                          \/ CycleStep(i)
                          \/ Failure(i)
                          \/ Shutdown(i)

Spec == Init /\ [][Next]_vars

\* The ticker fires again and again, goroutines run on, a stopped instance is
\* started again.  Nothing obliges a user, a failure or a shutdown to happen.
FairSpec ==
  /\ Spec
  /\ \A i \in Instances : /\ WF_vars(CycleStep(i))
                          /\ WF_vars(Restart(i))
                          /\ \A b \in Buckets : WF_vars(BucketStep(i, b))

-----------------------------------------------------------------------------
(***************************************************************************)
(* Properties.                                                             *)
(***************************************************************************)

Spent(u) == SumFunctionOnSet(Cost, {r \in Rows : row[r] = "billed" /\ Owner[r] = u})
TempOf(u) == SumFunctionOnSet(temp, {c \in Chunks : ChunkOwner[c] = u})

\* Money is neither lost nor taken twice: what a user was given is what is left
\* plus the cost of exactly the rows marked billed.  It is what the guard
\* marked = batch protects when a second instance settles the same rows after
\* the advisory lock's connection died (errConcurrentMark).
Conservation == \A u \in Users : balance[u] + TempOf(u) + Spent(u) = funded[u]

\* A row's cost is debited exactly once, in the transaction that marks it, and
\* a free row never: no interleaving of instances, replays after a conflict and
\* lost acknowledgements charges a request twice or marks it without charging.
ChargedOnce ==
  \A r \in Rows : charges[r] = IF row[r] = "billed" /\ Cost[r] > 0 THEN 1 ELSE 0

\* A user is only ever in debt by rows that say so: the rows marked with
\* overdraft = TRUE cover whatever the balance is below its start.
DebtExplained ==
  \A u \in Users :
    balance[u] + SumFunctionOnSet(Cost, {r \in overdraft : Owner[r] = u})
      >= IF StartBalance[u] < 0 THEN StartBalance[u] ELSE 0

\* The session lock makes the consumer single: as long as no statement failed,
\* no lock was lost and no instance crashed, two cycles never overlap.
SingleConsumer ==
  faults = 0 => \A i, j \in Instances : stage[i] # "idle" /\ stage[j] # "idle" => i = j

\* Failure closes a bucket for the rest of the cycle (drainLoop's failed
\* arrays): its goroutine is not started again in a later pass.
FailedNotRetried ==
  \A i \in Instances, b \in Buckets :
    stage[i] \in Lanes /\ <<stage[i], b>> \in failed[i] => task[i][b].st = "done"

\* Billing implements the abstract ledger: every step is a recording, a grant,
\* the settlement of a set of rows at exactly their cost, or invisible.
AbstractLedger == INSTANCE Ledger WITH
  recorded <- {r \in Rows : row[r] # "absent"},
  billed   <- {r \in Rows : row[r] = "billed"},
  wealth   <- [u \in Users |-> balance[u] + TempOf(u)]
RefinesLedger == AbstractLedger!Spec

\* Every usage row is settled in the end, whatever fails in between (the row
\* stays unbilled and a later cycle replays it).
EventuallyBilled == \A r \in Rows : row[r] = "unbilled" ~> row[r] = "billed"
=============================================================================
