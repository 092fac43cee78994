------------------------------ MODULE ConcCluster ------------------------------
(***************************************************************************)
(* The concurrency limit of one key across the instances of the cluster    *)
(* (internal/proxy/concsync.go, internal/discovery).  Each instance admits *)
(* up to its share by itself and beyond it by its view of the others.      *)
(* Once per period it reports its in-flight count to a Redis hash and      *)
(* reads back what the others reported, and it counts the members of the   *)
(* cluster, which is the divisor of the share.  Redis may fail, instances  *)
(* crash, leave and come back.                                             *)
(*                                                                         *)
(* Acquiring is one step here: ConcGate has its interleavings.  Ages are   *)
(* in periods; a report or a view is dropped at the age from which on it   *)
(* is ignored, and a period ends when every instance has done its turn,    *)
(* successfully or not.                                                    *)
(***************************************************************************)
EXTENDS Integers, FiniteSets, FiniteSetsExt

CONSTANTS
  Instances,
  Limit,       \* KeyMaxConc
  FieldStale,  \* concFieldStale, concViewStale in periods
  MemberTTL,   \* memberTTL in periods
  MaxFails,    \* bound: failed pipelines
  MaxMoves,    \* bound: crashes and departures
  None

ASSUME ClusterConstants ==
  /\ IsFiniteSet(Instances) /\ Instances # {}
  /\ Limit \in Nat \ {0} /\ FieldStale \in Nat \ {0} /\ MemberTTL \in Nat \ {0}
  /\ MaxFails \in Nat /\ MaxMoves \in Nat
  /\ None \notin Nat

VARIABLES
  up,        \* the running instances
  inflight,  \* instance -> requests in flight (its gate's counter)
  due,       \* instance -> the turns it has not done in this period
  rep,       \* instance -> the count it collected and is about to report
  field,     \* the Redis hash: instance -> [val, age], or None
  view,      \* instance -> [others, age] of its cluster view, or None
  member,    \* the Redis set: instance -> age of its heartbeat, or None
  n,         \* instance -> its instance count
  loose,     \* history: some request was admitted beyond its share of the whole cluster
  fails, moves

bounds == <<fails, moves>>
vars == <<up, inflight, due, rep, field, view, member, n, loose, bounds>>

Turns == {"sync", "beat"}

TypeOK ==
  /\ up \subseteq Instances
  /\ inflight \in [Instances -> 0 .. Limit]
  /\ due \in [Instances -> SUBSET Turns]
  /\ rep \in [Instances -> 0 .. Limit \cup {None}]
  /\ field \in [Instances -> [val: 0 .. Limit, age: 0 .. FieldStale] \cup {None}]
  /\ view \in [Instances -> [others: Nat, age: 0 .. FieldStale] \cup {None}]
  /\ member \in [Instances -> 0 .. MemberTTL \cup {None}]
  /\ n \in [Instances -> 1 .. Cardinality(Instances)]
  /\ loose \in BOOLEAN

Sum(f, S) == MapThenSumSet(LAMBDA i : f[i], S)

-----------------------------------------------------------------------------
(***************************************************************************)
(* Admission.                                                              *)
(***************************************************************************)


\* concShare with the instance count of the moment.
Share(i) == IF Limit \div n[i] > 0 THEN Limit \div n[i] ELSE 1

\* concAllows: by a fresh view, else by the whole limit.
Allows(i) ==
  IF view[i] = None THEN inflight[i] + 1 <= Limit
                    ELSE view[i].others + inflight[i] + 1 < Limit

Count(i, d) == inflight' = [inflight EXCEPT ![i] = @ + d]

Admit(i) ==
  /\ i \in up /\ inflight[i] < Share(i)
  /\ Count(i, 1)
  /\ loose' = (loose \/ n[i] < Cardinality(Instances))
  /\ UNCHANGED <<up, due, rep, field, view, member, n, bounds>>

Borrow(i) ==
  /\ i \in up /\ inflight[i] >= Share(i)
  /\ Allows(i) /\ inflight[i] < Limit
  /\ Count(i, 1)
  /\ loose' = TRUE
  /\ UNCHANGED <<up, due, rep, field, view, member, n, bounds>>

Done(i) ==
  /\ inflight[i] > 0
  /\ Count(i, -1)
  /\ UNCHANGED <<up, due, rep, field, view, member, n, loose, bounds>>

-----------------------------------------------------------------------------
(***************************************************************************)
(* The turns of a period.                                                  *)
(***************************************************************************)

TurnOver(i, t) == due' = [due EXCEPT ![i] = @ \ {t}]

\* tick collects the count; without requests in flight there is no report.
Collect(i) ==
  /\ i \in up /\ "sync" \in due[i]
  /\ TurnOver(i, "sync")
  /\ rep' = [rep EXCEPT ![i] = IF inflight[i] > 0 THEN inflight[i] ELSE None]
  /\ UNCHANGED <<up, inflight, field, view, member, n, loose, bounds>>

\* What the others reported, as the pipeline reads it back.
Others(i) == Sum([j \in Instances |-> IF field[j] = None THEN 0 ELSE field[j].val], Instances \ {i})

\* The pipeline: the report replaces the last one, the reports of all are read
\* back and become the new view (total - selfLast leaves the others).
Exchange(i) ==
  /\ rep[i] # None
  /\ field' = [field EXCEPT ![i] = [val |-> rep[i], age |-> 0]]
  /\ view' = [view EXCEPT ![i] = [others |-> Others(i), age |-> 0]]
  /\ rep' = [rep EXCEPT ![i] = None]
  /\ UNCHANGED <<up, inflight, due, member, n, loose, bounds>>

\* onTickError: the view stays as it is.
ExchangeFails(i) ==
  /\ rep[i] # None /\ fails < MaxFails
  /\ fails' = fails + 1
  /\ rep' = [rep EXCEPT ![i] = None]
  /\ UNCHANGED <<up, inflight, due, field, view, member, n, loose, moves>>

Heartbeat(i, m) ==
  /\ member' = m
  /\ n' = [n EXCEPT ![i] = Cardinality({j \in Instances : m[j] # None})]

\* discovery's tick: the heartbeat, then the count of the members.
Beat(i) ==
  /\ i \in up /\ "beat" \in due[i]
  /\ TurnOver(i, "beat")
  /\ Heartbeat(i, [member EXCEPT ![i] = 0])
  /\ UNCHANGED <<up, inflight, rep, field, view, loose, bounds>>

\* Its onTickError: the count stays as it is.
BeatFails(i) ==
  /\ i \in up /\ "beat" \in due[i] /\ fails < MaxFails
  /\ fails' = fails + 1
  /\ TurnOver(i, "beat")
  /\ UNCHANGED <<up, inflight, rep, field, view, member, n, loose, moves>>

\* Variant: reports of any age are counted.
FreshAlways(r, last) == r

\* A report or view one period later; it is not counted beyond its last age.
Fresh(r, last) ==
  IF r = None \/ r.age >= last THEN None ELSE [r EXCEPT !.age = @ + 1]

\* Variant: silent members are not pruned.
PrunedNever(age) == age

\* A heartbeat one period later; it is pruned beyond memberTTL.
Pruned(age) == IF age = None \/ age >= MemberTTL THEN None ELSE age + 1

\* A field counts up to the age concFieldStale, a view below concViewStale.
Period ==
  /\ \A i \in up : due[i] = {} /\ rep[i] = None
  /\ due' = [i \in Instances |-> IF i \in up THEN Turns ELSE {}]
  /\ field' = [i \in Instances |-> Fresh(field[i], FieldStale)]
  /\ view' = [i \in Instances |-> Fresh(view[i], FieldStale - 1)]
  /\ member' = [i \in Instances |-> Pruned(member[i])]
  /\ UNCHANGED <<up, inflight, rep, n, loose, bounds>>

-----------------------------------------------------------------------------
(***************************************************************************)
(* Membership.                                                             *)
(***************************************************************************)

Down(i) ==
  /\ moves < MaxMoves
  /\ moves' = moves + 1
  /\ up' = up \ {i}
  /\ due' = [due EXCEPT ![i] = {}]
  /\ rep' = [rep EXCEPT ![i] = None]
  /\ view' = [view EXCEPT ![i] = None]

\* The requests of a crashed instance are gone, its report and heartbeat are not.
Crash(i) ==
  /\ i \in up
  /\ Down(i)
  /\ inflight' = [inflight EXCEPT ![i] = 0]
  /\ UNCHANGED <<field, member, n, loose, fails>>

\* Close after the requests have drained: the heartbeat is withdrawn.
Leave(i) ==
  /\ i \in up /\ inflight[i] = 0
  /\ Down(i)
  /\ member' = [member EXCEPT ![i] = None]
  /\ UNCHANGED <<inflight, field, n, loose, fails>>

\* Start does the first heartbeat itself, or counts one instance if that fails.
Join(i) ==
  /\ i \notin up
  /\ up' = up \cup {i}
  /\ \/ Heartbeat(i, [member EXCEPT ![i] = 0]) /\ UNCHANGED fails
     \/ /\ fails < MaxFails /\ fails' = fails + 1
        /\ n' = [n EXCEPT ![i] = 1]
        /\ UNCHANGED member
  /\ UNCHANGED <<inflight, due, rep, field, view, loose, moves>>

-----------------------------------------------------------------------------
\* All instances have been running for a while, without traffic.
Init ==
  /\ up = Instances
  /\ inflight = [i \in Instances |-> 0]
  /\ due = [i \in Instances |-> Turns]
  /\ rep = [i \in Instances |-> None]
  /\ field = [i \in Instances |-> None]
  /\ view = [i \in Instances |-> None]
  /\ member = [i \in Instances |-> 1]
  /\ n = [i \in Instances |-> Cardinality(Instances)]
  /\ loose = FALSE
  /\ fails = 0 /\ moves = 0

Next ==
  \/ \E i \in Instances :
       \/ Admit(i) \/ Borrow(i) \/ Done(i)
       \/ Collect(i) \/ Exchange(i) \/ ExchangeFails(i) \/ Beat(i) \/ BeatFails(i)
       \/ Crash(i) \/ Leave(i) \/ Join(i)
  \/ Period

Spec == Init /\ [][Next]_vars

\* The tickers run: every instance does its turns and time goes on.
FairSpec ==
  /\ Spec
  /\ WF_vars(Period)
  /\ \A i \in Instances : WF_vars(Collect(i)) /\ WF_vars(Exchange(i)) /\ WF_vars(Beat(i))

-----------------------------------------------------------------------------
(***************************************************************************)
(* Properties.                                                             *)
(***************************************************************************)

Total == Sum(inflight, Instances)


Exact ==
  \A i \in up : inflight[i] > 0 =>
    view[i] # None /\ view[i].others = Sum(inflight, Instances \ {i})

\* Reconciliation: when the traffic and the membership stop changing, every
\* instance with requests in flight ends up with a fresh view that is exact,
\* although reports were lost, and dead instances left theirs behind.
ViewsConverge == (<>[][inflight' = inflight /\ up' = up]_vars) => <>[]Exact

\* Discovery: when the membership stops changing, every instance counts the
\* running ones.
CountsConverge == (<>[][up' = up]_vars) => <>[](\A i \in up : n[i] = Cardinality(up))
=============================================================================
