---------------------------- MODULE UsageRecorder ----------------------------
(***************************************************************************)
(* internal/usage/usage.go: requests append their rows to a list in memory *)
(* and their cost to a quota counter; a ticker takes the list, splits it   *)
(* by user into shards that insert it chunk by chunk, bisects a chunk that *)
(* fails to find a row that can never be inserted, and puts back what it   *)
(* could not insert; Close drains what is left within the shutdown budget. *)
(*                                                                         *)
(* Every InsertBatch and every quota write is a step with its own outcome. *)
(***************************************************************************)
EXTENDS Naturals, Sequences, FiniteSets, SequencesExt, FiniteSetsExt

CONSTANTS
  MaxRows,     \* bound: rows
  Shards,
  Setups,      \* the configurations the instance may have
  MaxQuota,    \* bound: quota added
  MaxFails     \* bound: transient failures of the database

Rows == 1 .. MaxRows

\* of: row -> shard (user id modulo workers); batch: BatchSize; poison: the rows
\* the database always rejects.
ASSUME RecorderConstants ==
  /\ Setups \subseteq [of: [Rows -> Shards], batch: Nat \ {0}, poison: SUBSET Rows]
  /\ MaxRows \in Nat /\ MaxQuota \in Nat /\ MaxFails \in Nat

VARIABLES
  setup,      \* the configuration, one of Setups
  pending,    \* sequence of rows
  shard,      \* shard -> [pc, chunk, rest]
  lock,       \* flushMu: "free" or who flushes
  db,         \* rows in usage_logs
  dropped,    \* rows given up as poison
  quota,      \* [mem, flight, db, cut]: quotaUsed, batch on its way, database, truncated
  loops,      \* the loops that have not returned
  stop,       \* SIGTERM: the loops' context is cancelled
  expired,    \* the shutdown budget is used up
  base,       \* baseCtx is cancelled
  close,      \* Close's place
  recorded, before,   \* history: rows recorded, ... before Close began
  added,              \* history: quota added
  fails

flush == <<pending, shard, db, dropped>>
ctl == <<setup, loops, stop, expired, base>>
vars == <<flush, lock, quota, ctl, close, recorded, before, added, fails>>

NoBatch == [pc |-> "idle", chunk |-> <<>>, rest |-> <<>>]

TypeOK ==
  /\ pending \in Seq(Rows)
  /\ shard \in [Shards -> [pc: {"idle", "chunk", "left", "right", "one"},
                           chunk: Seq(Rows), rest: Seq(Rows)]]
  /\ lock \in {"free", "log", "quota", "closelog", "closequota"}
  /\ db \subseteq Rows /\ dropped \subseteq Rows
  /\ quota \in [mem: Nat, flight: Nat, db: Nat, cut: Nat]
  /\ loops \subseteq {"log", "quota"}
  /\ stop \in BOOLEAN /\ expired \in BOOLEAN /\ base \in BOOLEAN
  /\ close \in {"no", "loops", "inflight", "grace", "drain", "quota", "done"}

-----------------------------------------------------------------------------
(***************************************************************************)
(* Requests.                                                               *)
(***************************************************************************)

\* Rows are numbered in the order in which they are recorded.
Record(r) ==
  /\ r = Cardinality(recorded) + 1
  /\ pending' = Append(pending, r)
  /\ recorded' = recorded \cup {r}
  /\ UNCHANGED <<shard, lock, db, dropped, quota, ctl, close, before, added, fails>>

AddQuota ==
  /\ added < MaxQuota
  /\ quota' = [quota EXCEPT !.mem = @ + 1] /\ added' = added + 1
  /\ UNCHANGED <<flush, lock, ctl, close, recorded, before, fails>>

-----------------------------------------------------------------------------
(***************************************************************************)
(* flushLogs.                                                              *)
(***************************************************************************)

\* The context of the flush that holds the lock.
CtxDone == IF lock \in {"closelog", "closequota"} THEN expired ELSE base

\* A shard with these rows to insert; without rows it has no goroutine.
Remaining(rows) ==
  IF rows = <<>> THEN NoBatch ELSE [pc |-> "chunk", chunk |-> <<>>, rest |-> rows]

\* The list is taken and dealt to the shards.
TakeLogs(who) ==
  /\ lock = "free" /\ pending # <<>>
  /\ lock' = who
  /\ pending' = <<>>
  /\ shard' = [s \in Shards |->
       Remaining(SelectSeq(pending, LAMBDA r : setup.of[r] = s))]

\* (The process ends after Close.)
LogTick ==
  /\ "log" \in loops /\ close # "done" /\ ~base
  /\ TakeLogs("log")
  /\ UNCHANGED <<db, dropped, quota, ctl, close, recorded, before, added, fails>>

LogDone ==
  /\ lock \in {"log", "closelog"} /\ \A s \in Shards : shard[s].pc = "idle"
  /\ lock' = "free"
  /\ UNCHANGED <<flush, quota, ctl, close, recorded, before, added, fails>>

\* How InsertBatch may end: inserted, rejected (for good, or for the moment, or
\* because the context is cancelled), no partition for the row, or inserted
\* with the answer lost.  Rows already there are skipped.
Outcomes(batch) ==
  IF CtxDone THEN {"fail"}
  ELSE IF ToSet(batch) \cap setup.poison # {} THEN {"fail"} \cup (IF fails < MaxFails THEN {"routing"} ELSE {})
  ELSE {"ok"} \cup (IF fails < MaxFails THEN {"fail", "routing", "lost"} ELSE {})

InsertBatch(batch, o) ==
  /\ o \in Outcomes(batch)
  /\ db' = IF o \in {"ok", "lost"} THEN db \cup ToSet(batch) ELSE db
  /\ fails' = IF o = "ok" \/ (o = "fail" /\ (CtxDone \/ ToSet(batch) \cap setup.poison # {}))
              THEN fails ELSE fails + 1

\* A shard gives up what it still has: refillLogs.
Refill(s, rows) ==
  /\ pending' = pending \o rows
  /\ shard' = [shard EXCEPT ![s] = NoBatch]

Rest(s) == shard[s].rest
ChunkLen(s) == Min({setup.batch, Len(Rest(s))})
Half(seq) == Len(seq) \div 2
Left(seq) == SubSeq(seq, 1, Half(seq))
Right(seq) == SubSeq(seq, Half(seq) + 1, Len(seq))

\* The context is cancelled.
ShardEnd(s) ==
  /\ shard[s].pc = "chunk" /\ CtxDone
  /\ Refill(s, Rest(s))
  /\ UNCHANGED <<lock, db, dropped, quota, ctl, close, recorded, before, added, fails>>

\* One chunk; when it fails and has more than one row it is bisected.
Chunk(s, o) ==
  LET batch == SubSeq(Rest(s), 1, ChunkLen(s))
      after == SubSeq(Rest(s), ChunkLen(s) + 1, Len(Rest(s)))
  IN
  /\ shard[s].pc = "chunk" /\ ~CtxDone
  /\ InsertBatch(batch, o)
  /\ \/ /\ o = "ok"
        /\ shard' = [shard EXCEPT ![s] = Remaining(after)]
        /\ UNCHANGED pending
     \/ /\ o \in {"fail", "lost"} /\ Len(batch) > 1
        /\ shard' = [shard EXCEPT ![s] = [pc |-> "left", chunk |-> batch, rest |-> after]]
        /\ UNCHANGED pending
     \/ /\ o = "routing" \/ (o # "ok" /\ Len(batch) = 1)
        /\ Refill(s, Rest(s))
  /\ UNCHANGED <<lock, dropped, quota, ctl, close, recorded, before, added>>

\* The half that did not go in is searched further.
Narrow(s, half) ==
  /\ shard' = [shard EXCEPT ![s].pc = IF Len(half) = 1 THEN "one" ELSE "left", ![s].chunk = half]
  /\ UNCHANGED pending

BisectLeft(s, o) ==
  LET chunk == shard[s].chunk IN
  /\ shard[s].pc = "left"
  /\ InsertBatch(Left(chunk), o)
  /\ IF o = "ok"
     THEN Narrow(s, Right(chunk))
     ELSE shard' = [shard EXCEPT ![s].pc = "right"] /\ UNCHANGED pending
  /\ UNCHANGED <<lock, dropped, quota, ctl, close, recorded, before, added>>

\* Variant: the chunk that failed on both sides is forgotten.
BisectRightForgets(s, o) ==
  LET chunk == shard[s].chunk IN
  /\ shard[s].pc = "right"
  /\ InsertBatch(Right(chunk), o)
  /\ IF o = "ok" THEN Narrow(s, Left(chunk)) ELSE Refill(s, Rest(s))
  /\ UNCHANGED <<lock, dropped, quota, ctl, close, recorded, before, added>>

\* Both sides fail: the database is at fault and everything is put back.
BisectRight(s, o) ==
  LET chunk == shard[s].chunk IN
  /\ shard[s].pc = "right"
  /\ InsertBatch(Right(chunk), o)
  /\ IF o = "ok" THEN Narrow(s, Left(chunk)) ELSE Refill(s, chunk \o Rest(s))
  /\ UNCHANGED <<lock, dropped, quota, ctl, close, recorded, before, added>>


\* The single row left is tried again; if it is rejected it is poison.
BisectOne(s, o) ==
  LET chunk == shard[s].chunk IN
  /\ shard[s].pc = "one"
  /\ InsertBatch(chunk, o)
  /\ dropped' = IF o \in {"fail", "lost"} THEN dropped \cup ToSet(chunk) ELSE dropped
  /\ Refill(s, IF o = "routing" THEN chunk \o Rest(s) ELSE Rest(s))
  /\ UNCHANGED <<lock, quota, ctl, close, recorded, before, added>>

-----------------------------------------------------------------------------
(***************************************************************************)
(* flushQuota.                                                             *)
(***************************************************************************)


TakeQuota(who) ==
  /\ lock = "free" /\ quota.mem > 0
  /\ lock' = who
  /\ quota' = [quota EXCEPT !.flight = quota.mem, !.mem = 0]

QuotaTick ==
  /\ "quota" \in loops /\ close # "done"
  /\ TakeQuota("quota")
  /\ UNCHANGED <<flush, ctl, close, recorded, before, added, fails>>

\* Where Close goes when its own quota write is over.
AfterQuota ==
  /\ close' = IF lock = "closequota" THEN "done" ELSE close
  /\ base' = (base \/ lock = "closequota")

QuotaWritten ==
  /\ lock \in {"quota", "closequota"} /\ ~CtxDone
  /\ quota' = [quota EXCEPT !.flight = 0, !.db = @ + quota.flight]
  /\ lock' = "free" /\ AfterQuota
  /\ UNCHANGED <<flush, setup, loops, stop, expired, recorded, before, added, fails>>

QuotaFails ==
  /\ lock \in {"quota", "closequota"} /\ ~CtxDone /\ fails < MaxFails
  /\ fails' = fails + 1
  /\ quota' = [quota EXCEPT !.flight = 0, !.mem = @ + quota.flight]
  /\ lock' = "free" /\ AfterQuota
  /\ UNCHANGED <<flush, setup, loops, stop, expired, recorded, before, added>>

\* The context is cancelled before the write (given up), or during it (put
\* back).
QuotaCut(back) ==
  /\ lock \in {"quota", "closequota"} /\ CtxDone
  /\ quota' = IF back THEN [quota EXCEPT !.flight = 0, !.mem = @ + quota.flight]
                      ELSE [quota EXCEPT !.flight = 0, !.cut = @ + quota.flight]
  /\ lock' = "free" /\ AfterQuota
  /\ UNCHANGED <<flush, setup, loops, stop, expired, recorded, before, added, fails>>

-----------------------------------------------------------------------------
(***************************************************************************)
(* Shutdown.                                                               *)
(***************************************************************************)

\* SIGTERM; a loop returns when it is not flushing.
Terminate ==
  /\ ~stop
  /\ stop' = TRUE
  /\ UNCHANGED <<flush, lock, quota, setup, loops, expired, base, close, recorded, before, added, fails>>

LoopExit(l) ==
  /\ stop /\ l \in loops /\ lock # l
  /\ loops' = loops \ {l}
  /\ UNCHANGED <<flush, lock, quota, setup, stop, expired, base, close, recorded, before, added, fails>>

Expire ==
  /\ close \notin {"no", "done"} /\ ~expired
  /\ expired' = TRUE
  /\ UNCHANGED <<flush, lock, quota, setup, loops, stop, base, close, recorded, before, added, fails>>

CloseBegin ==
  /\ stop /\ close = "no"
  /\ close' = "loops" /\ before' = recorded
  /\ UNCHANGED <<flush, lock, quota, ctl, recorded, added, fails>>

CloseLoops ==
  /\ close = "loops" /\ (loops = {} \/ expired)
  /\ close' = "inflight"
  /\ UNCHANGED <<flush, lock, quota, ctl, recorded, before, added, fails>>

\* The lock is taken and given back: no flush is on its way.
CloseAcquire ==
  /\ close \in {"inflight", "grace"} /\ lock = "free"
  /\ close' = "drain"
  /\ UNCHANGED <<flush, lock, quota, ctl, recorded, before, added, fails>>

CloseCancel ==
  /\ close = "inflight" /\ expired
  /\ close' = "grace" /\ base' = TRUE
  /\ UNCHANGED <<flush, lock, quota, setup, loops, stop, expired, recorded, before, added, fails>>

CloseAbandon ==
  /\ close = "grace" /\ lock # "free"
  /\ close' = "done"
  /\ UNCHANGED <<flush, lock, quota, ctl, recorded, before, added, fails>>

CloseDrain ==
  /\ close = "drain" /\ ~expired
  /\ TakeLogs("closelog")
  /\ UNCHANGED <<db, dropped, quota, ctl, close, recorded, before, added, fails>>

\* Variant: drains without regard to the budget.
CloseDrainedPatient ==
  /\ close = "drain" /\ lock # "closelog" /\ pending = <<>>
  /\ close' = "quota"
  /\ UNCHANGED <<flush, lock, quota, ctl, recorded, before, added, fails>>

\* Variant: goes on although rows are left.
CloseDrainedOnce ==
  /\ close = "drain" /\ lock # "closelog"
  /\ close' = "quota"
  /\ UNCHANGED <<flush, lock, quota, ctl, recorded, before, added, fails>>

CloseDrained ==
  /\ close = "drain" /\ lock # "closelog" /\ (pending = <<>> \/ expired)
  /\ close' = "quota"
  /\ UNCHANGED <<flush, lock, quota, ctl, recorded, before, added, fails>>

\* The rest of the quota; baseCtx is cancelled on return.
CloseQuota ==
  /\ close = "quota"
  /\ IF quota.mem > 0
     THEN TakeQuota("closequota") /\ UNCHANGED <<close, base>>
     ELSE lock = "free" /\ close' = "done" /\ base' = TRUE /\ UNCHANGED <<lock, quota>>
  /\ UNCHANGED <<flush, setup, loops, stop, expired, recorded, before, added, fails>>

-----------------------------------------------------------------------------
Init ==
  /\ setup \in Setups /\ pending = <<>> /\ shard = [s \in Shards |-> NoBatch] /\ lock = "free"
  /\ db = {} /\ dropped = {} /\ quota = [mem |-> 0, flight |-> 0, db |-> 0, cut |-> 0]
  /\ loops = {"log", "quota"} /\ stop = FALSE /\ expired = FALSE /\ base = FALSE
  /\ close = "no" /\ recorded = {} /\ before = {} /\ added = 0 /\ fails = 0

Results == {"ok", "fail", "routing", "lost"}

ShardStep(s) ==
  \/ ShardEnd(s)
  \/ \E o \in Results : Chunk(s, o) \/ BisectLeft(s, o) \/ BisectRight(s, o) \/ BisectOne(s, o)

QuotaStep == QuotaWritten \/ QuotaFails \/ \E back \in BOOLEAN : QuotaCut(back)

FlushStep == LogDone \/ QuotaStep \/ \E s \in Shards : ShardStep(s)

Shutdown ==
  \/ CloseLoops \/ CloseAcquire \/ CloseCancel \/ CloseAbandon
  \/ CloseDrain \/ CloseDrained \/ CloseQuota \/ \E l \in {"log", "quota"} : LoopExit(l)

Next ==
  \/ \E r \in Rows : Record(r)
  \/ AddQuota \/ LogTick \/ QuotaTick \/ FlushStep
  \/ Terminate \/ CloseBegin \/ Expire \/ Shutdown

Spec == Init /\ [][Next]_vars

\* The tickers fire, the database answers, the budget runs out, Close and the
\* loops go on (a goroutine that waits for a mutex gets it, a select with two
\* ready cases takes each of them in the end).
FairSpec ==
  Spec /\ WF_vars(LogTick) /\ WF_vars(FlushStep) /\ WF_vars(Expire) /\ SF_vars(Shutdown)

-----------------------------------------------------------------------------
(***************************************************************************)
(* Properties.                                                             *)
(***************************************************************************)

InMemory == pending \o FoldSet(LAMBDA s, acc : acc \o shard[s].chunk \o shard[s].rest, <<>>, Shards)

\* No row is lost or doubled on its way: each row recorded is in memory once,
\* or in the database, or given up as poison (Record, refillLogs: nothing is
\* lost).
Kept ==
  /\ \A r \in recorded \ (db \cup dropped) : r \in ToSet(InMemory)
  /\ IsInjective(InMemory)


\* And a flush that is cancelled when the budget is used up "fails fast and is
\* put back, nothing is lost" (Close).
CancelHarmless == dropped \subseteq setup.poison


\* A Close that had enough time leaves nothing behind of what was recorded
\* before it, also when a flush was on its way.
CloseComplete == close = "done" /\ ~expired => before \subseteq (db \cup dropped)

\* Every row that the database can take is in it in the end, unless the process
\* is shut down; a poison row in its chunk does not keep it out.
Stored == \A r \in Rows : (r \in recorded \ setup.poison) ~> (r \in db \/ stop)

\* Close comes to an end and does not hold up the shutdown ("truncates and
\* returns when the budget is used up"), also when rows keep failing.
CloseEnds == (close = "loops") ~> (close = "done")
=============================================================================
