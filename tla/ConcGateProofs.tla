---------------------------- MODULE ConcGateProofs ----------------------------
(***************************************************************************)
(* Until the first reload or rotation (Shared), for every number of        *)
(* requests, limits, instances and views: the counters are exact and the   *)
(* limits of the user and of the key hold.  The reason is that upsert      *)
(* shares the counters, so that every snapshot a request may have loaded   *)
(* leads to the same two counters.                                         *)
(***************************************************************************)
EXTENDS ConcGate, FiniteSetTheorems, TLAPS

\* The requests whose user slot was looked at and found within the limit.
Passed == {r \in Holders("user") : pc[r] \in {"key", "borrow", "cas", "serving"}}

\* All published snapshots have counters 0 and 1, and a request holds the
\* slots its place in acquire or release says it holds.
SameCounters ==
  /\ TypeOK
  /\ reb.pc = "idle"
  /\ \A s \in Snaps : s <= store => snap[s].user = 0 /\ snap[s].key = 1
  /\ \A r \in Requests :
       /\ at[r] <= store
       /\ pc[r] \in {"idle", "user"} => level[r] = {}
       /\ pc[r] \in {"check", "ask", "key", "borrow", "cas", "undo"} => level[r] = {"user"}
       /\ pc[r] = "serving" => "user" \in level[r]
       /\ pc[r] = "unkey" => "user" \notin level[r]

PassedCapped == UserMax > 0 => Cardinality(Passed) <= UserMax

\* Inductive while the counters are shared.
ConcInv ==
  /\ SameCounters
  /\ cnt[0] = Cardinality(Holders("user"))
  /\ cnt[1] = Cardinality(Holders("key"))
  /\ KeyMax > 0 => cnt[1] <= KeyMax
  /\ PassedCapped

\* A replica's share of a concurrency limit never exceeds the limit.
LEMMA ShareBound ==
  ASSUME NEW limit \in Nat, limit > 0
  PROVE  ConcShare(limit) \in Nat /\ ConcShare(limit) <= limit
<1> DEFINE q == limit \div N
<1>1. N \in Nat /\ N >= 1
  BY ConcConstants
<1>2. q \in Nat /\ N * q <= limit
  BY <1>1
<1>3. q <= N * q /\ N * q \in Nat
  <2> HIDE DEF q
  <2> QED BY <1>1, <1>2
<1>4. q <= limit
  <2> HIDE DEF q
  <2> QED BY <1>2, <1>3
<1> QED BY <1>2, <1>4 DEF ConcShare

\* A request more, or a request less, among the holders of a layer.
LEMMA HoldersFinite ==
  ASSUME NEW layer
  PROVE  IsFiniteSet(Holders(layer)) /\ Cardinality(Holders(layer)) \in Nat
<1>1. Holders(layer) \subseteq Requests
  BY DEF Holders
<1> QED BY <1>1, ConcConstants, FS_Subset, FS_CardinalityType

\* Taking a slot adds one holder to the counter's count ...
LEMMA HoldersMore ==
  ASSUME NEW S, NEW r, IsFiniteSet(S), r \notin S
  PROVE  Cardinality(S \cup {r}) = Cardinality(S) + 1
BY FS_AddElement

\* ... and giving it back takes one away.
LEMMA HoldersLess ==
  ASSUME NEW S, NEW r, IsFiniteSet(S), r \in S
  PROVE  Cardinality(S \ {r}) = Cardinality(S) - 1
BY FS_RemoveElement

\* The gate starts with every counter at its number of holders.
LEMMA InitInv == Init => ConcInv
<1> SUFFICES ASSUME Init PROVE ConcInv
  OBVIOUS
<1>1. 0 \in Snaps /\ 0 \in Counters /\ 1 \in Counters
  BY ConcConstants DEF Snaps, Counters
<1>2. TypeOK
  BY <1>1, ConcConstants DEF Init, TypeOK
<1>3. SameCounters
  BY <1>1, <1>2, ConcConstants DEF Init, SameCounters, Snaps
<1>4. Holders("user") = {} /\ Holders("key") = {}
  BY DEF Init, Holders
<1>5. cnt[0] = 0 /\ cnt[1] = 0
  BY <1>1 DEF Init
<1>6. {r \in Holders("user") : pc[r] \in {"key", "borrow", "cas", "serving"}} = {}
  BY <1>4
<1>7. PassedCapped
  BY <1>6, FS_EmptySet, ConcConstants DEF PassedCapped, Passed
<1> QED BY <1>3, <1>4, <1>5, <1>7, FS_EmptySet, ConcConstants DEF ConcInv

\* A request takes, keeps or gives back a layer, and the counter follows.
LEMMA CountFollows ==
  ASSUME ConcInv, NEW r \in Requests, NEW layer \in Layers, NEW c \in {0, 1},
         c = (IF layer = "user" THEN 0 ELSE 1),
         \A p \in Requests \ {r} : level'[p] = level[p],
         \/ /\ layer \notin level[r] /\ layer \in level'[r] /\ cnt'[c] = cnt[c] + 1
         \/ /\ layer \in level[r] /\ layer \notin level'[r] /\ cnt'[c] = cnt[c] - 1
         \/ (layer \in level[r] <=> layer \in level'[r]) /\ cnt'[c] = cnt[c]
  PROVE  cnt'[c] = Cardinality(Holders(layer)')
<1>1. cnt[c] = Cardinality(Holders(layer)) /\ IsFiniteSet(Holders(layer))
  BY HoldersFinite DEF ConcInv, Layers
<1>2. CASE layer \notin level[r] /\ layer \in level'[r] /\ cnt'[c] = cnt[c] + 1
  <2>1. Holders(layer)' = Holders(layer) \cup {r} /\ r \notin Holders(layer)
    BY <1>2 DEF Holders
  <2> QED BY <1>1, <1>2, <2>1, HoldersMore
<1>3. CASE layer \in level[r] /\ layer \notin level'[r] /\ cnt'[c] = cnt[c] - 1
  <2>1. Holders(layer)' = Holders(layer) \ {r} /\ r \in Holders(layer)
    BY <1>3 DEF Holders
  <2> QED BY <1>1, <1>3, <2>1, HoldersLess
<1>4. CASE (layer \in level[r] <=> layer \in level'[r]) /\ cnt'[c] = cnt[c]
  <2>1. Holders(layer)' = Holders(layer)
    BY <1>4 DEF Holders
  <2> QED BY <1>1, <1>4, <2>1
<1> QED BY <1>2, <1>3, <1>4

\* The user's limit survives a step in which only r may come to be past the
\* look, and then with the counter within the limit.
LEMMA CapKept ==
  ASSUME ConcInv, NEW r \in Requests,
         \A p \in Requests \ {r} : level'[p] = level[p] /\ pc'[p] = pc[p],
         r \in Passed' => r \in Passed \/ (UserMax > 0 => r \in Holders("user") /\ cnt[0] <= UserMax)
  PROVE  PassedCapped'
<1>1. IsFiniteSet(Holders("user")) /\ cnt[0] = Cardinality(Holders("user"))
  BY HoldersFinite DEF ConcInv
<1>2. IsFiniteSet(Passed) /\ (UserMax > 0 => Cardinality(Passed) <= UserMax)
        /\ Passed \subseteq Holders("user")
  <2>1. Passed \subseteq Holders("user")
    BY DEF Passed
  <2> QED BY <1>1, <2>1, FS_Subset DEF ConcInv, PassedCapped
<1>3. SUFFICES ASSUME UserMax > 0 PROVE Cardinality(Passed') <= UserMax
  BY DEF PassedCapped
<1>4. Passed' \subseteq Passed \cup {r}
  BY DEF Passed, Holders
<1>5. CASE Passed' \subseteq Passed
  <2>1. Cardinality(Passed') <= Cardinality(Passed) /\ Cardinality(Passed) \in Nat
          /\ Cardinality(Passed') \in Nat
    BY <1>2, <1>5, FS_Subset, FS_CardinalityType
  <2> QED BY <1>2, <1>3, <2>1, ConcConstants
<1>6. CASE ~(Passed' \subseteq Passed)
  <2>1. r \in Passed' /\ r \notin Passed
    BY <1>4, <1>6
  <2>2. Passed' \subseteq Holders("user")
    BY <1>2, <1>3, <1>4, <2>1
  <2>3. Cardinality(Passed') <= Cardinality(Holders("user"))
          /\ Cardinality(Passed') \in Nat /\ Cardinality(Holders("user")) \in Nat
    BY <1>1, <2>2, FS_Subset, FS_CardinalityType
  <2> QED BY <1>1, <1>3, <2>1, <2>3, ConcConstants
<1> QED BY <1>5, <1>6

\* The shape of every step of a request.
LEMMA RequestShape ==
  ASSUME ConcInv, NEW r \in Requests, Acquire(r) \/ Release(r)
  PROVE  /\ SameCounters'
         /\ \A p \in Requests \ {r} : level'[p] = level[p] /\ pc'[p] = pc[p]
         /\ UserOf(r) = 0 /\ KeyOf(r) = 1 /\ cnt[0] \in Int /\ cnt[1] \in Int
         /\ 0 \in Counters /\ 1 \in Counters /\ UserOf(r) # None /\ KeyOf(r) # None
<1>1. TypeOK /\ store \in Snaps /\ at[r] \in Snaps /\ 0 \in Counters /\ 1 \in Counters /\ store \in Nat
  <2>1. TypeOK
    BY DEF ConcInv, SameCounters
  <2>2. 0 \in Counters /\ 1 \in Counters
    BY ConcConstants DEF Counters
  <2>3. store \in Snaps /\ at[r] \in Snaps
    BY <2>1 DEF TypeOK
  <2>4. Snaps \subseteq Nat
    BY ConcConstants DEF Snaps
  <2> QED BY <2>1, <2>2, <2>3, <2>4
<1>2. UserOf(r) = 0 /\ KeyOf(r) = 1 /\ None \notin {0, 1} /\ cnt[0] \in Int /\ cnt[1] \in Int
  <2>1. at[r] <= store
    BY DEF ConcInv, SameCounters
  <2>2. snap[at[r]].user = 0 /\ snap[at[r]].key = 1
    BY <1>1, <2>1 DEF ConcInv, SameCounters
  <2>3. cnt[0] \in Int /\ cnt[1] \in Int
    BY <1>1 DEF TypeOK
  <2> QED BY <2>2, <2>3, ConcConstants DEF UserOf, KeyOf
<1>3. UNCHANGED <<store, snap, fresh, reb, reloads, upserts, rotates>>
  BY DEF Acquire, AcquireLoad, AcquireUser, AcquireCheck, AcquireAsk, AcquireKey, AcquireBorrow,
     AcquireCas, Rollback, Release, ReleaseLoad, ReleaseUser, ReleaseKey, bounds
<1>4. at' = at \/ at' = [at EXCEPT ![r] = store]
  BY DEF Acquire, AcquireLoad, AcquireUser, AcquireCheck, AcquireAsk, AcquireKey, AcquireBorrow,
     AcquireCas, Rollback, Release, ReleaseLoad, ReleaseUser, ReleaseKey
<1>5. cnt' \in [Counters -> Int]
  BY <1>1, <1>2 DEF Acquire, AcquireLoad, AcquireUser, AcquireCheck, AcquireAsk, AcquireKey,
     AcquireBorrow, AcquireCas, Rollback, Release, ReleaseLoad, ReleaseUser, ReleaseKey, CasInc, Add,
     TypeOK
<1>6. \E l \in {"idle", "user", "check", "ask", "key", "borrow", "cas", "undo", "serving", "unuser",
                "unkey"}, L \in SUBSET Layers :
        /\ Goto(r, l) /\ level' = [level EXCEPT ![r] = L]
        /\ l \in {"idle", "user"} => L = {}
        /\ l \in {"check", "ask", "key", "borrow", "cas", "undo"} => L = {"user"}
        /\ l = "serving" => "user" \in L
        /\ l = "unkey" => "user" \notin L
  <2> DEFINE Good(l, L) ==
        /\ Goto(r, l) /\ level' = [level EXCEPT ![r] = L]
        /\ l \in {"idle", "user"} => L = {}
        /\ l \in {"check", "ask", "key", "borrow", "cas", "undo"} => L = {"user"}
        /\ l = "serving" => "user" \in L
        /\ l = "unkey" => "user" \notin L
  <2>1. /\ level[r] \in SUBSET Layers /\ level = [level EXCEPT ![r] = level[r]]
        /\ pc[r] \in {"idle", "user"} => level[r] = {}
        /\ pc[r] \in {"check", "ask", "key", "borrow", "cas", "undo"} => level[r] = {"user"}
        /\ pc[r] = "serving" => "user" \in level[r]
        /\ pc[r] = "unkey" => "user" \notin level[r]
    BY <1>1 DEF ConcInv, SameCounters, TypeOK
  <2>2. CASE AcquireLoad(r)
    <3>1. Good("user", level[r])
      BY <2>1, <2>2 DEF AcquireLoad
    <3> QED BY <2>1, <3>1
  <2>3. CASE AcquireUser(r)
    <3>1. Good("check", {"user"})
      BY <1>2, <2>1, <2>3 DEF AcquireUser
    <3> QED BY <3>1 DEF Layers
  <2>4. CASE AcquireCheck(r)
    <3>1. Good("ask", level[r]) \/ Good("key", level[r])
      BY <2>1, <2>4 DEF AcquireCheck
    <3> QED BY <2>1, <3>1
  <2>5. ASSUME NEW view \in Views, AcquireAsk(r, view)
        PROVE  Good("key", level[r]) \/ Good("undo", level[r])
    BY <2>1, <2>5 DEF AcquireAsk
  <2>6. CASE AcquireKey(r) \/ AcquireCas(r)
    <3>1. Good("serving", level[r]) \/ Good("serving", level[r] \cup {"key"})
            \/ Good("borrow", level[r]) \/ Good("undo", level[r])
      BY <2>1, <2>6 DEF AcquireKey, AcquireCas, CasInc
    <3>2. level[r] \cup {"key"} \in SUBSET Layers
      BY <2>1 DEF Layers
    <3> QED BY <2>1, <3>1, <3>2
  <2>7. ASSUME NEW view \in Views, AcquireBorrow(r, view)
        PROVE  Good("cas", level[r]) \/ Good("undo", level[r])
    BY <2>1, <2>7 DEF AcquireBorrow
  <2>8. CASE Rollback(r)
    <3>1. Good("idle", {})
      BY <2>8 DEF Rollback
    <3> QED BY <3>1
  <2>9. CASE ReleaseLoad(r)
    <3>1. Good("unuser", level[r])
      BY <2>1, <2>9 DEF ReleaseLoad
    <3> QED BY <2>1, <3>1
  <2>10. CASE ReleaseUser(r)
    <3>1. Good("unkey", level[r] \ {"user"})
      BY <2>1, <2>10 DEF ReleaseUser
    <3> QED BY <2>1, <3>1
  <2>11. CASE ReleaseKey(r)
    <3>1. Good("idle", {})
      BY <2>11 DEF ReleaseKey
    <3> QED BY <3>1
  <2> QED BY <2>1, <2>2, <2>3, <2>4, <2>5, <2>6, <2>7, <2>8, <2>9, <2>10, <2>11 DEF Acquire, Release
<1>7. /\ pc' \in [Requests -> {"idle", "user", "check", "ask", "key", "borrow", "cas", "undo",
                               "serving", "unuser", "unkey"}]
      /\ level' \in [Requests -> SUBSET Layers]
      /\ at' \in [Requests -> Snaps] /\ \A p \in Requests : at'[p] <= store
      /\ \A p \in Requests \ {r} : level'[p] = level[p] /\ pc'[p] = pc[p]
  BY <1>1, <1>4, <1>6 DEF Goto, TypeOK, ConcInv, SameCounters
<1>8. TypeOK'
  BY <1>1, <1>3, <1>5, <1>7 DEF TypeOK
<1>9. SameCounters'
  BY <1>1, <1>3, <1>6, <1>7, <1>8 DEF SameCounters, ConcInv, Goto, TypeOK
<1> QED BY <1>1, <1>2, <1>7, <1>9

\* Every step of Acquire and Release keeps the counters equal to their holders.
LEMMA RequestInv ==
  ASSUME ConcInv, NEW r \in Requests, Acquire(r) \/ Release(r)
  PROVE  ConcInv'
<1> USE DEF Goto
<1>1. /\ SameCounters'
      /\ \A p \in Requests \ {r} : level'[p] = level[p] /\ pc'[p] = pc[p]
      /\ UserOf(r) = 0 /\ KeyOf(r) = 1 /\ cnt[0] \in Int /\ cnt[1] \in Int
      /\ 0 \in Counters /\ 1 \in Counters /\ UserOf(r) # None /\ KeyOf(r) # None
  BY RequestShape
<1>2. /\ TypeOK /\ UserMax \in Nat /\ KeyMax \in Nat
      /\ pc[r] \in {"idle", "user"} => level[r] = {}
      /\ pc[r] \in {"check", "ask", "key", "borrow", "cas", "undo"} => level[r] = {"user"}
      /\ pc[r] = "serving" => "user" \in level[r]
      /\ pc[r] = "unkey" => "user" \notin level[r]
      /\ KeyMax > 0 => cnt[1] <= KeyMax
  BY ConcConstants DEF ConcInv, SameCounters
\* What the counters and the layers do together, action by action.
<1> DEFINE Effect ==
      /\ \/ "user" \notin level[r] /\ "user" \in level'[r] /\ cnt'[0] = cnt[0] + 1
         \/ "user" \in level[r] /\ "user" \notin level'[r] /\ cnt'[0] = cnt[0] - 1
         \/ ("user" \in level[r] <=> "user" \in level'[r]) /\ cnt'[0] = cnt[0]
      /\ \/ "key" \notin level[r] /\ "key" \in level'[r] /\ cnt'[1] = cnt[1] + 1
         \/ "key" \in level[r] /\ "key" \notin level'[r] /\ cnt'[1] = cnt[1] - 1
         \/ ("key" \in level[r] <=> "key" \in level'[r]) /\ cnt'[1] = cnt[1]
      /\ KeyMax > 0 => cnt'[1] <= KeyMax
      /\ r \in Passed' => r \in Passed \/ (UserMax > 0 => r \in Holders("user") /\ cnt[0] <= UserMax)
<1>3. Effect
  <2>1. CASE AcquireLoad(r) \/ ReleaseLoad(r)
    BY <1>1, <1>2, <2>1 DEF AcquireLoad, ReleaseLoad, Passed, Holders, TypeOK
  <2>2. CASE AcquireUser(r)
    BY <1>1, <1>2, <2>2 DEF AcquireUser, Passed, Holders, TypeOK, Add
  <2>3. CASE AcquireCheck(r)
    <3>1. UserMax > 0 => ConcShare(UserMax) \in Nat /\ ConcShare(UserMax) <= UserMax
      BY <1>2, ShareBound
    <3>2. pc'[r] = "key" => (UserMax > 0 => cnt[0] <= UserMax)
      BY <1>1, <1>2, <2>3, <3>1 DEF AcquireCheck, TypeOK
    <3> QED BY <1>1, <1>2, <2>3, <3>2 DEF AcquireCheck, Passed, Holders, TypeOK
  <2>4. ASSUME NEW view \in Views, AcquireAsk(r, view) PROVE Effect
    <3>1. view = Stale \/ view \in Nat
      BY ConcConstants
    <3>2. pc'[r] = "key" => cnt[0] <= UserMax
      BY <1>1, <1>2, <2>4, <3>1 DEF AcquireAsk, ConcAllows, TypeOK
    <3> QED BY <1>1, <1>2, <2>4, <3>2 DEF AcquireAsk, Passed, Holders, TypeOK
  <2>5. CASE AcquireKey(r) \/ AcquireCas(r)
    <3>1. KeyMax > 0 => ConcShare(KeyMax) \in Nat /\ ConcShare(KeyMax) <= KeyMax
      BY <1>2, ShareBound
    <3>2. /\ level[r] = {"user"} /\ r \in Passed
      BY <1>2, <2>5 DEF AcquireKey, AcquireCas, Passed, Holders
    <3>3. \/ cnt' = cnt /\ level' = level
          \/ /\ Add(1, 1) /\ level' = [level EXCEPT ![r] = @ \cup {"key"}]
             /\ KeyMax > 0 => cnt[1] < KeyMax
      BY <1>1, <1>2, <2>5, <3>1 DEF AcquireKey, AcquireCas, CasInc
    <3> QED BY <1>1, <1>2, <3>2, <3>3 DEF Add, TypeOK
  <2>6. ASSUME NEW view \in Views, AcquireBorrow(r, view) PROVE Effect
    BY <1>1, <1>2, <2>6 DEF AcquireBorrow, Passed, Holders, TypeOK
  <2>7. CASE Rollback(r)
    BY <1>1, <1>2, <2>7 DEF Rollback, Passed, Holders, TypeOK, Add
  <2>8. CASE ReleaseUser(r)
    BY <1>1, <1>2, <2>8 DEF ReleaseUser, Passed, Holders, TypeOK, Add
  <2>9. CASE ReleaseKey(r)
    BY <1>1, <1>2, <2>9 DEF ReleaseKey, Passed, Holders, TypeOK, Add
  <2> QED BY <2>1, <2>2, <2>3, <2>4, <2>5, <2>6, <2>7, <2>8, <2>9 DEF Acquire, Release
<1>4. cnt'[0] = Cardinality(Holders("user")')
  BY <1>1, <1>3, CountFollows DEF Layers
<1>5. cnt'[1] = Cardinality(Holders("key")')
  BY <1>1, <1>3, CountFollows DEF Layers
<1>6. PassedCapped'
  BY <1>1, <1>3, CapKept
<1> QED BY <1>1, <1>3, <1>4, <1>5, <1>6 DEF ConcInv

\* Every step does, as long as the rebuild shares the counters.
LEMMA StepInv == Shared' /\ ConcInv /\ [Next]_vars => ConcInv'
<1> SUFFICES ASSUME Shared', ConcInv, [Next]_vars PROVE ConcInv'
  OBVIOUS
<1>1. CASE UNCHANGED vars
  BY <1>1 DEF vars, bounds, ConcInv, SameCounters, TypeOK, PassedCapped, Passed, Holders
<1>2. ASSUME NEW r \in Requests, Acquire(r) \/ Release(r) PROVE ConcInv'
  BY <1>2, RequestInv
<1>3. CASE Upsert
  <2>1. TypeOK /\ store \in Snaps /\ Snaps \subseteq Nat /\ store + 1 \in Snaps /\ store \in Nat
    BY <1>3, ConcConstants DEF ConcInv, SameCounters, TypeOK, Snaps, Upsert, Install
  <2>2. 0 \in Counters /\ 1 \in Counters
    BY ConcConstants DEF Counters
  <2>3. snap[store].user = 0 /\ snap[store].key = 1
    BY <2>1 DEF ConcInv, SameCounters
  <2>4. /\ snap' = [snap EXCEPT ![store + 1] = [user |-> 0, key |-> 1]]
        /\ store' = store + 1 /\ upserts' = upserts + 1
    BY <1>3, <2>3 DEF Upsert, Install
  <2>5. UNCHANGED <<cnt, fresh, reb, pc, at, level, reloads, rotates>>
    BY <1>3 DEF Upsert
  <2>6. snap' \in [Snaps -> [user: Counters \cup {None}, key: Counters \cup {None}]]
    BY <2>1, <2>2, <2>4 DEF TypeOK
  <2>7. TypeOK'
    BY <2>1, <2>4, <2>5, <2>6 DEF TypeOK
  <2>8. \A s \in Snaps : s <= store + 1 => snap'[s].user = 0 /\ snap'[s].key = 1
    <3> SUFFICES ASSUME NEW s \in Snaps, s <= store + 1
                 PROVE  snap'[s].user = 0 /\ snap'[s].key = 1
      OBVIOUS
    <3>1. CASE s = store + 1
      BY <2>1, <2>4, <3>1 DEF TypeOK
    <3>2. CASE s # store + 1
      <4>1. s <= store /\ snap'[s] = snap[s]
        BY <2>1, <2>4, <3>2 DEF TypeOK
      <4> QED BY <4>1 DEF ConcInv, SameCounters
    <3> QED BY <3>1, <3>2
  <2>9. \A r \in Requests : at[r] <= store + 1
    <3>1. \A r \in Requests : at[r] \in Nat /\ at[r] <= store
      BY <2>1 DEF ConcInv, SameCounters, TypeOK
    <3> QED BY <2>1, <3>1
  <2>10. SameCounters'
    BY <2>4, <2>5, <2>7, <2>8, <2>9 DEF ConcInv, SameCounters
  <2> QED BY <2>5, <2>10 DEF ConcInv, PassedCapped, Passed, Holders
<1>4. ~ReloadBegin /\ ~ReloadUser /\ ~ReloadKey /\ ~ReloadPublish /\ ~RotateDelete /\ ~RotateUpsert
  BY DEF Shared, ConcInv, SameCounters, TypeOK, ReloadBegin, ReloadUser, ReloadKey,
     ReloadPublish, RotateDelete, RotateUpsert
<1> QED BY <1>1, <1>2, <1>3, <1>4 DEF Next, Rebuild

\* The two bounds only grow, so what is shared now was shared before.
SharedInv ==
  /\ reloads \in Nat /\ rotates \in Nat
  /\ Shared => ConcInv

\* Every step keeps it: a step that leaves Shared true started with it true.
LEMMA SharedStep == SharedInv /\ [Next]_vars => SharedInv'
<1> SUFFICES ASSUME SharedInv, [Next]_vars PROVE SharedInv'
  OBVIOUS
<1>1. reloads' \in {reloads, reloads + 1} /\ rotates' \in {rotates, rotates + 1}
  BY DEF Next, Acquire, AcquireLoad, AcquireUser, AcquireCheck, AcquireAsk, AcquireKey,
     AcquireBorrow, AcquireCas, Rollback, Release, ReleaseLoad, ReleaseUser, ReleaseKey, Rebuild,
     ReloadBegin, ReloadUser, ReloadKey, ReloadPublish, Upsert, RotateDelete, RotateUpsert, vars,
     bounds
<1>2. Shared' => Shared
  BY <1>1 DEF SharedInv, Shared
<1>3. Shared' => ConcInv'
  BY <1>2, StepInv DEF SharedInv
<1> QED BY <1>1, <1>3 DEF SharedInv

\* So the invariant holds until the first reload or rotation replaces them.
LEMMA SharedInvHolds == Spec => []SharedInv
<1>1. Init => SharedInv
  BY InitInv DEF SharedInv, Init
<1> QED BY <1>1, SharedStep, PTL DEF Spec

\* As long as the snapshot was rebuilt by upsert alone, the published counters
\* are the numbers of the requests that hold a slot, at every instant of every
\* interleaving of acquire, its rollback, release and upsert.
THEOREM CountsExact == Spec => []CountersExact
<1>1. SharedInv => CountersExact
  <2> SUFFICES ASSUME SharedInv, Shared PROVE CountersExact
    BY DEF CountersExact
  <2>1. ConcInv
    BY DEF SharedInv
  <2>2. store \in Snaps /\ store <= store
    BY <2>1, ConcConstants DEF ConcInv, SameCounters, TypeOK, Snaps
  <2> QED BY <2>1, <2>2 DEF ConcInv, SameCounters, CountersExact, UserCount, KeyCount
<1> QED BY <1>1, SharedInvHolds, PTL

\* And the limits of the key (taken by compare-and-swap) and of the user
\* (counted first, looked at afterwards) hold on the instance.
THEOREM LimitsHold == Spec => [](KeyCapped /\ UserCapped)
<1>1. SharedInv => KeyCapped /\ UserCapped
  BY DEF SharedInv, ConcInv, KeyCapped, UserCapped, PassedCapped, Passed
<1> QED BY <1>1, SharedInvHolds, PTL
=============================================================================
