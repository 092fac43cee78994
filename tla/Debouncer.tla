------------------------------ MODULE Debouncer ------------------------------
(***************************************************************************)
(* internal/invalidate: callers mark what has changed (a lock-free merge   *)
(* into one pointer and a non-blocking wake-up), one goroutine waits for a *)
(* window, takes the pointer and reloads what it names.                    *)
(*                                                                         *)
(* A mark is a set of bits: kinds (KindUsers ...) and group ids.  The      *)
(* pointer is a record with an identity, 0 for nil, because the merge      *)
(* compares pointers and not what they point to.                           *)
(***************************************************************************)
EXTENDS Naturals, Sequences

CONSTANTS
  Callers,   \* goroutines of handlers and of the dispatcher
  Groups,    \* account groups
  Api,       \* the methods called
  MaxCalls   \* bound: calls

Kinds == {"users", "templates", "clients", "multipliers", "keys", "rules", "settings", "mgmt"}
Bits == Kinds \cup Groups

ASSUME DebouncerConstants ==
  /\ Groups \cap Kinds = {} /\ MaxCalls \in Nat
  /\ Api \subseteq (Kinds \cup {"accounts"})

VARIABLES
  state,    \* atomic.Pointer[State]
  made,     \* number of State values allocated
  wake,     \* the channel, capacity 1
  timer,    \* the window is running
  pc,       \* loop: "select", "take", "reload"
  call,     \* caller -> [pc, todo, old]
  owed,     \* history: targets of marks that no flush has taken
  calls

vars == <<state, made, wake, timer, pc, call, owed, calls>>

Nil == [id |-> 0, bits |-> {}]
States == [id: Nat, bits: SUBSET Bits]
CallStates == [pc: {"idle", "load", "cas", "wake"}, todo: Seq(SUBSET Bits), old: States]

TypeOK ==
  /\ state \in States /\ made \in Nat /\ wake \in BOOLEAN /\ timer \in BOOLEAN
  /\ pc \in {"select", "take", "reload"}
  /\ call \in [Callers -> CallStates]
  /\ calls \in Nat

Has(bits, ks) == bits \cap ks # {}
When(cond, targets) == IF cond THEN targets ELSE {}

\* reloadAll: what one pass reloads; the full reload of the scheduler includes
\* every group.  (Balances and rules are wired in.)
Targets(bits) ==
  UNION {When(Has(bits, {"users", "keys", "settings", "mgmt"}), {"auth"}),
         When("users" \in bits, {"balances"}),
         When("templates" \in bits, {"sched"} \cup Groups),
         When("templates" \notin bits, bits \cap Groups),
         When(Has(bits, {"templates", "clients"}), {"clients"}),
         bits \cap {"multipliers", "rules"}}

\* The table at the head of the package: what a change of each kind must reload.
Needs(bit) ==
  CASE bit = "users" -> {"auth", "balances"}
    [] bit = "templates" -> {"sched", "clients"}
    [] bit \in {"keys", "settings", "mgmt"} -> {"auth"}
    [] OTHER -> {bit}

\* The marks of one call; Accounts makes one or two, or none.
Marks(m, gs, keyChanged) ==
  CASE m = "templates" -> <<{"templates", "clients"}>>
    [] m = "accounts" /\ keyChanged -> <<gs, {"clients"}>>
    [] m = "accounts" /\ ~keyChanged -> IF gs = {} THEN <<>> ELSE <<gs>>
    [] OTHER -> <<{m}>>

-----------------------------------------------------------------------------
(***************************************************************************)
(* mark.                                                                   *)
(***************************************************************************)

Begin(c, m, gs, keyChanged) ==
  /\ call[c].pc = "idle" /\ calls < MaxCalls
  /\ Marks(m, gs, keyChanged) # <<>>
  /\ call' = [call EXCEPT ![c].pc = "load", ![c].todo = Marks(m, gs, keyChanged)]
  /\ calls' = calls + 1
  /\ UNCHANGED <<state, made, wake, timer, pc, owed>>

Load(c) ==
  /\ call[c].pc = "load"
  /\ call' = [call EXCEPT ![c].pc = "cas", ![c].old = state]
  /\ UNCHANGED <<state, made, wake, timer, pc, owed, calls>>

\* What follows when a mark is made.
AfterMark(c) == IF Len(call[c].todo) > 1 THEN "load" ELSE "idle"
Advance(c, next) ==
  call' = [call EXCEPT ![c].pc = next,
                       ![c].todo = IF next = "wake" THEN @ ELSE Tail(@)]

Merged(c) == [id |-> made + 1, bits |-> call[c].old.bits \cup Head(call[c].todo)]
Owing(c) == UNION {Needs(b) : b \in Head(call[c].todo)}

\* Variant: the pointer is stored without a comparison.
CasStore(c) ==
  /\ call[c].pc = "cas"
  /\ state' = Merged(c) /\ made' = made + 1
  /\ owed' = owed \cup Owing(c)
  /\ Advance(c, IF call[c].old.id = 0 THEN "wake" ELSE AfterMark(c))
  /\ UNCHANGED <<wake, timer, pc, calls>>

\* Variant: only the first state ever wakes the loop.
CasFirst(c) ==
  /\ call[c].pc = "cas" /\ state.id = call[c].old.id
  /\ state' = Merged(c) /\ made' = made + 1
  /\ owed' = owed \cup Owing(c)
  /\ Advance(c, IF made = 0 THEN "wake" ELSE AfterMark(c))
  /\ UNCHANGED <<wake, timer, pc, calls>>

\* The compare-and-swap succeeds; the one that replaces nil wakes the loop.
Cas(c) ==
  /\ call[c].pc = "cas" /\ state.id = call[c].old.id
  /\ state' = Merged(c) /\ made' = made + 1
  /\ owed' = owed \cup Owing(c)
  /\ Advance(c, IF call[c].old.id = 0 THEN "wake" ELSE AfterMark(c))
  /\ UNCHANGED <<wake, timer, pc, calls>>

CasFails(c) ==
  /\ call[c].pc = "cas" /\ state.id # call[c].old.id
  /\ call' = [call EXCEPT ![c].pc = "load"]
  /\ UNCHANGED <<state, made, wake, timer, pc, owed, calls>>

\* A full channel already holds a wake-up.
Wake(c) ==
  /\ call[c].pc = "wake"
  /\ wake' = TRUE
  /\ Advance(c, AfterMark(c))
  /\ UNCHANGED <<state, made, timer, pc, owed, calls>>

-----------------------------------------------------------------------------
(***************************************************************************)
(* loop, flush and reloadAll.                                              *)
(***************************************************************************)

\* A wake-up for a state already taken is skipped; the window starts with the
\* first mark and is not extended.
Woken ==
  /\ pc = "select" /\ wake
  /\ wake' = FALSE
  /\ timer' = (timer \/ state.id # 0)
  /\ UNCHANGED <<state, made, pc, call, owed, calls>>

Window ==
  /\ pc = "select" /\ timer
  /\ timer' = FALSE
  /\ pc' = "take"
  /\ UNCHANGED <<state, made, wake, call, owed, calls>>

\* Swap(nil); a flush ends when there is nothing to take.
Take ==
  /\ pc = "take"
  /\ pc' = IF state.id = 0 THEN "select" ELSE "reload"
  /\ state' = Nil
  /\ owed' = owed \ Targets(state.bits)
  /\ UNCHANGED <<made, wake, timer, call, calls>>

\* reloadAll is done (an error is logged and the old snapshot stays); look again.
Reloaded ==
  /\ pc = "reload"
  /\ pc' = "take"
  /\ UNCHANGED <<state, made, wake, timer, call, owed, calls>>

-----------------------------------------------------------------------------
Init ==
  /\ state = Nil /\ made = 0 /\ wake = FALSE /\ timer = FALSE /\ pc = "select"
  /\ call = [c \in Callers |-> [pc |-> "idle", todo |-> <<>>, old |-> Nil]]
  /\ owed = {} /\ calls = 0

Caller(c) ==
  \/ \E m \in Api, gs \in SUBSET Groups, kc \in BOOLEAN : Begin(c, m, gs, kc)
  \/ Load(c) \/ Cas(c) \/ CasFails(c) \/ Wake(c)

Loop == Woken \/ Window \/ Take \/ Reloaded

Next == (\E c \in Callers : Caller(c)) \/ Loop

Spec == Init /\ [][Next]_vars

\* Callers that have begun go on, the loop and its timer run.
FairSpec ==
  /\ Spec /\ WF_vars(Loop)
  /\ \A c \in Callers : WF_vars(Load(c) \/ Cas(c) \/ CasFails(c) \/ Wake(c))

-----------------------------------------------------------------------------
(***************************************************************************)
(* Properties.                                                             *)
(***************************************************************************)

\* No mark is lost in the merge: what the marks made since the last flush ask
\* for, by the package's table, is what the next pass over the pointer
\* reloads.
Covered == owed \subseteq Targets(state.bits)

\* No wake-up is lost (mark: "a lost wake-up does no harm"): whenever
\* something is marked, a wake-up is in the channel or about to be sent, the
\* window is running, or the flush has yet to look at the pointer.
Awake ==
  state.id # 0 => wake \/ timer \/ pc # "select" \/ \E c \in Callers : call[c].pc = "wake"

\* Everything a mark asks for is reloaded after the mark.
Served == \A t \in Kinds \cup Groups \cup {"auth", "balances", "sched"} :
            (t \in owed) ~> (t \notin owed)
=============================================================================
