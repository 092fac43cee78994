------------------------------- MODULE ConcGate -------------------------------
(***************************************************************************)
(* The in-flight half of the concurrency gate (internal/proxy/gate.go,     *)
(* concsync.go) of one instance, for one user with one key: acquire and    *)
(* release count a request in and out of the user's and the key's counter  *)
(* of the published snapshot, and the snapshot is rebuilt meanwhile.       *)
(* reload copies the counters' values into new counters; upsert shares     *)
(* the counters; delete drops the key's.                                   *)
(*                                                                         *)
(* What the other instances report (the cluster view) is an input: a       *)
(* number, or Stale when there is no fresh view.                           *)
(***************************************************************************)
EXTENDS Integers, FiniteSets

CONSTANTS
  Requests,     \* request slots (goroutines)
  UserMax,      \* meta.UserMaxConc, 0: unlimited
  KeyMax,       \* meta.KeyMaxConc, 0: unlimited
  N,            \* cluster instances
  Views,        \* what a view may say the others hold
  Stale,        \* no fresh view
  MaxReloads,   \* bound: reloads
  MaxUpserts,   \* bound: upserts of the key
  MaxRotates,   \* bound: key rotations
  None

ASSUME ConcConstants ==
  /\ IsFiniteSet(Requests)
  /\ UserMax \in Nat /\ KeyMax \in Nat /\ N \in Nat \ {0}
  /\ Views \subseteq Nat \cup {Stale} /\ Stale \notin Nat
  /\ MaxReloads \in Nat /\ MaxUpserts \in Nat /\ MaxRotates \in Nat
  /\ None \notin Nat

Snaps    == 0 .. MaxReloads + MaxUpserts + 2 * MaxRotates
Counters == 0 .. 2 * MaxReloads + MaxRotates + 1

VARIABLES
  store,   \* published snapshot
  snap,    \* snapshot -> [user, key]: its counters
  cnt,     \* counter -> value
  fresh,   \* next unused counter
  reb,     \* the holder of snapshotMu: [pc, user, key]
  pc,      \* request -> where it is
  at,      \* request -> the snapshot it loaded
  level,   \* request -> the layers it holds, as acquire returns them
  reloads, upserts, rotates

bounds == <<reloads, upserts, rotates>>
vars == <<store, snap, cnt, fresh, reb, pc, at, level, bounds>>

Layers == {"user", "key"}

TypeOK ==
  /\ store \in Snaps
  /\ snap \in [Snaps -> [user: Counters \cup {None}, key: Counters \cup {None}]]
  /\ cnt \in [Counters -> Int]
  /\ fresh \in Nat
  /\ reb \in [pc: {"idle", "user", "key", "publish", "rotated"},
              user: Counters \cup {None}, key: Counters \cup {None}]
  /\ pc \in [Requests -> {"idle", "user", "check", "ask", "key", "borrow", "cas", "undo",
                          "serving", "unuser", "unkey"}]
  /\ at \in [Requests -> Snaps]
  /\ level \in [Requests -> SUBSET Layers]
  /\ reloads \in Nat /\ upserts \in Nat /\ rotates \in Nat

-----------------------------------------------------------------------------
\* concShare: the part of a limit an instance may use without asking.
ConcShare(limit) == IF limit \div N > 0 THEN limit \div N ELSE 1

\* Variant: with a fresh view the others alone are compared with the limit.
ConcAllowsOthers(limit, now, view) == IF view = Stale THEN now <= limit ELSE view < limit

\* concAllows: beyond the share the view decides, without one the whole limit.
ConcAllows(limit, now, view) == IF view = Stale THEN now <= limit ELSE view + now < limit

Goto(r, l) == pc' = [pc EXCEPT ![r] = l]
Add(c, d)  == cnt' = [cnt EXCEPT ![c] = @ + d]
UserOf(r)  == snap[at[r]].user
KeyOf(r)   == snap[at[r]].key

AcquireLoad(r) ==
  /\ pc[r] = "idle"
  /\ at' = [at EXCEPT ![r] = store]
  /\ Goto(r, "user")
  /\ UNCHANGED <<store, snap, cnt, fresh, reb, level, bounds>>

\* The user is counted in any case, limited or not.
AcquireUser(r) ==
  /\ pc[r] = "user"
  /\ IF UserOf(r) = None
     THEN Goto(r, "key") /\ UNCHANGED <<cnt, level>>
     ELSE /\ Add(UserOf(r), 1)
          /\ level' = [level EXCEPT ![r] = {"user"}]
          /\ Goto(r, "check")
  /\ UNCHANGED <<store, snap, fresh, reb, at, bounds>>

AcquireCheck(r) ==
  /\ pc[r] = "check"
  /\ Goto(r, IF UserMax > 0 /\ cnt[UserOf(r)] > ConcShare(UserMax) THEN "ask" ELSE "key")
  /\ UNCHANGED <<store, snap, cnt, fresh, reb, at, level, bounds>>

\* The counter is loaded again for the view's verdict.
AcquireAsk(r, view) ==
  /\ pc[r] = "ask"
  /\ Goto(r, IF ConcAllows(UserMax, cnt[UserOf(r)], view) THEN "key" ELSE "undo")
  /\ UNCHANGED <<store, snap, cnt, fresh, reb, at, level, bounds>>

\* Variant: the counter is raised past the bound.
CasIncLate(r, limit, refused) ==
  IF cnt[KeyOf(r)] <= limit
  THEN /\ Add(KeyOf(r), 1)
       /\ level' = [level EXCEPT ![r] = @ \cup {"key"}]
       /\ Goto(r, "serving")
  ELSE Goto(r, refused) /\ UNCHANGED <<cnt, level>>

\* casInc: counted in below the bound, or refused.
CasInc(r, limit, refused) ==
  IF cnt[KeyOf(r)] < limit
  THEN /\ Add(KeyOf(r), 1)
       /\ level' = [level EXCEPT ![r] = @ \cup {"key"}]
       /\ Goto(r, "serving")
  ELSE Goto(r, refused) /\ UNCHANGED <<cnt, level>>

AcquireKey(r) ==
  /\ pc[r] = "key"
  /\ IF KeyMax = 0 \/ KeyOf(r) = None
     THEN Goto(r, "serving") /\ UNCHANGED <<cnt, level>>
     ELSE CasInc(r, ConcShare(KeyMax), "borrow")
  /\ UNCHANGED <<store, snap, fresh, reb, at, bounds>>

AcquireBorrow(r, view) ==
  /\ pc[r] = "borrow"
  /\ Goto(r, IF ConcAllows(KeyMax, cnt[KeyOf(r)] + 1, view) THEN "cas" ELSE "undo")
  /\ UNCHANGED <<store, snap, cnt, fresh, reb, at, level, bounds>>

AcquireCas(r) ==
  /\ pc[r] = "cas"
  /\ CasInc(r, KeyMax, "undo")
  /\ UNCHANGED <<store, snap, fresh, reb, at, bounds>>

\* Variant: the rejected request leaves the user's slot taken.
RollbackForgotten(r) ==
  /\ pc[r] = "undo"
  /\ level' = [level EXCEPT ![r] = {}]
  /\ Goto(r, "idle")
  /\ UNCHANGED <<store, snap, cnt, fresh, reb, at, bounds>>

\* The rejected request gives the user's slot back, on the snapshot it loaded.
Rollback(r) ==
  /\ pc[r] = "undo"
  /\ IF "user" \in level[r] THEN Add(UserOf(r), -1) ELSE UNCHANGED cnt
  /\ level' = [level EXCEPT ![r] = {}]
  /\ Goto(r, "idle")
  /\ UNCHANGED <<store, snap, fresh, reb, at, bounds>>

\* release loads the snapshot published now.
ReleaseLoad(r) ==
  /\ pc[r] = "serving"
  /\ at' = [at EXCEPT ![r] = store]
  /\ Goto(r, IF level[r] = {} THEN "idle" ELSE "unuser")
  /\ UNCHANGED <<store, snap, cnt, fresh, reb, level, bounds>>

ReleaseUser(r) ==
  /\ pc[r] = "unuser"
  /\ IF "user" \in level[r] /\ UserOf(r) # None THEN Add(UserOf(r), -1) ELSE UNCHANGED cnt
  /\ level' = [level EXCEPT ![r] = @ \ {"user"}]
  /\ Goto(r, "unkey")
  /\ UNCHANGED <<store, snap, fresh, reb, at, bounds>>

ReleaseKey(r) ==
  /\ pc[r] = "unkey"
  /\ IF "key" \in level[r] /\ KeyOf(r) # None THEN Add(KeyOf(r), -1) ELSE UNCHANGED cnt
  /\ level' = [level EXCEPT ![r] = {}]
  /\ Goto(r, "idle")
  /\ UNCHANGED <<store, snap, fresh, reb, at, bounds>>

-----------------------------------------------------------------------------
(***************************************************************************)
(* Rebuilding the snapshot, under snapshotMu.                              *)
(***************************************************************************)

Free == reb.pc = "idle"

\* Replaces the published snapshot by one with these counters.
Install(u, k) ==
  /\ store + 1 \in Snaps
  /\ snap' = [snap EXCEPT ![store + 1] = [user |-> u, key |-> k]]
  /\ store' = store + 1

\* reload copies one counter after the other, then publishes.
ReloadBegin ==
  /\ Free /\ reloads < MaxReloads
  /\ reloads' = reloads + 1
  /\ reb' = [reb EXCEPT !.pc = "user"]
  /\ UNCHANGED <<store, snap, cnt, fresh, pc, at, level, upserts, rotates>>

\* A new counter holding the value of c, or zero without one.
CopyOf(c) == cnt' = [cnt EXCEPT ![fresh] = IF c = None THEN 0 ELSE cnt[c]]

\* Variant: the new counter starts from zero.
ReloadUserZero ==
  /\ reb.pc = "user"
  /\ cnt' = [cnt EXCEPT ![fresh] = 0]
  /\ reb' = [reb EXCEPT !.pc = "key", !.user = fresh]
  /\ fresh' = fresh + 1
  /\ UNCHANGED <<store, snap, pc, at, level, bounds>>

ReloadUser ==
  /\ reb.pc = "user"
  /\ CopyOf(snap[store].user)
  /\ reb' = [reb EXCEPT !.pc = "key", !.user = fresh]
  /\ fresh' = fresh + 1
  /\ UNCHANGED <<store, snap, pc, at, level, bounds>>

ReloadKey ==
  /\ reb.pc = "key"
  /\ CopyOf(snap[store].key)
  /\ reb' = [reb EXCEPT !.pc = "publish", !.key = fresh]
  /\ fresh' = fresh + 1
  /\ UNCHANGED <<store, snap, pc, at, level, bounds>>

ReloadPublish ==
  /\ reb.pc = "publish"
  /\ Install(reb.user, reb.key)
  /\ reb' = [reb EXCEPT !.pc = "idle"]
  /\ UNCHANGED <<cnt, fresh, pc, at, level, bounds>>

\* upsert goes on with the counters there are (the user's always is).
Upsert ==
  /\ Free /\ upserts < MaxUpserts
  /\ upserts' = upserts + 1
  /\ Install(snap[store].user, snap[store].key)
  /\ UNCHANGED <<cnt, fresh, reb, pc, at, level, reloads, rotates>>

\* RotateKey: Auth.Delete of the old plaintext, then Auth.Upsert of the new one
\* with the same key id: the key's counter is dropped and a new one made (a
\* reload between the two is left out).
RotateDelete ==
  /\ Free /\ rotates < MaxRotates
  /\ rotates' = rotates + 1
  /\ Install(snap[store].user, None)
  /\ reb' = [reb EXCEPT !.pc = "rotated"]
  /\ UNCHANGED <<cnt, fresh, pc, at, level, reloads, upserts>>

RotateUpsert ==
  /\ reb.pc = "rotated"
  /\ Install(snap[store].user, fresh)
  /\ cnt' = [cnt EXCEPT ![fresh] = 0]
  /\ fresh' = fresh + 1
  /\ reb' = [reb EXCEPT !.pc = "idle"]
  /\ UNCHANGED <<pc, at, level, bounds>>

-----------------------------------------------------------------------------
Init ==
  /\ store = 0
  /\ snap = [s \in Snaps |-> IF s = 0 THEN [user |-> 0, key |-> 1]
                                      ELSE [user |-> None, key |-> None]]
  /\ cnt = [c \in Counters |-> 0]
  /\ fresh = 2
  /\ reb = [pc |-> "idle", user |-> None, key |-> None]
  /\ pc = [r \in Requests |-> "idle"]
  /\ at = [r \in Requests |-> 0]
  /\ level = [r \in Requests |-> {}]
  /\ reloads = 0 /\ upserts = 0 /\ rotates = 0

Acquire(r) ==
  \/ AcquireLoad(r) \/ AcquireUser(r) \/ AcquireCheck(r) \/ AcquireKey(r) \/ AcquireCas(r)
  \/ \E view \in Views : AcquireAsk(r, view) \/ AcquireBorrow(r, view)
  \/ Rollback(r)

Release(r) == ReleaseLoad(r) \/ ReleaseUser(r) \/ ReleaseKey(r)

Rebuild ==
  \/ ReloadBegin \/ ReloadUser \/ ReloadKey \/ ReloadPublish
  \/ Upsert \/ RotateDelete \/ RotateUpsert

Next ==
  \/ \E r \in Requests : Acquire(r) \/ Release(r)
  \/ Rebuild

Spec == Init /\ [][Next]_vars

-----------------------------------------------------------------------------
(***************************************************************************)
(* Properties.                                                             *)
(***************************************************************************)

Holders(layer) == {r \in Requests : layer \in level[r]}
UserCount == cnt[snap[store].user]
KeyCount  == cnt[snap[store].key]

\* Until the first reload or rotation all snapshots share their counters.
Shared == reloads = 0 /\ rotates = 0

\* Each -1 is paired with the +1 of the same goroutine: as long as upsert alone
\* replaced the snapshot, the published counters are exactly the number of
\* requests that hold a slot, so none is left over when everybody is done ("N
\* concurrent rollbacks net to 0" at acquire).
CountersExact ==
  Shared => /\ UserCount = Cardinality(Holders("user"))
            /\ KeyCount = Cardinality(Holders("key"))

\* The key's limit then holds on one instance, by the CAS, whatever the views say.
KeyCapped == Shared /\ KeyMax > 0 => Cardinality(Holders("key")) <= KeyMax

\* So does the user's, although it is only counted and then looked at: of the
\* requests that passed the look together, the last to be counted saw them all.
UserCapped ==
  Shared /\ UserMax > 0 =>
    Cardinality({r \in Holders("user") : pc[r] \in {"key", "borrow", "cas", "serving"}})
      <= UserMax

\* When no request is inside the gate the published counters are zero: values
\* carried over a reload are neither lost nor left behind (gateSnapshot).
IdleMeansZero ==
  (\A r \in Requests : pc[r] = "idle")
    => UserCount = 0 /\ (snap[store].key # None => KeyCount = 0)
=============================================================================
