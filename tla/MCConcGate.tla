----------------------------- MODULE MCConcGate -----------------------------
(***************************************************************************)
(* Instances of ConcGate for TLC.  The history variable raced tells        *)
(* whether a request changed the user's counter in the window reload       *)
(* leaves open: after the value was copied and before the copy is          *)
(* published, or on a counter that has been replaced.                      *)
(***************************************************************************)
EXTENDS ConcGate, TLC

VARIABLE raced

Symmetric == Permutations(Requests)

\* Bound: two rebuilds; all requests compete while the counters are shared, two
\* of them once counters are copied.
Bounded ==
  /\ reloads + upserts + rotates <= 2
  /\ Shared \/ Cardinality({r \in Requests : pc[r] # "idle"}) <= 2

InWindow(r) ==
  /\ ("user" \in level[r]) # ("user" \in level'[r])
  /\ reb.pc \in {"key", "publish"} \/ UserOf(r) # snap[store].user

MCInit == Init /\ raced = FALSE
MCNext == Next /\ raced' = (raced \/ \E r \in Requests : InWindow(r))
MCSpec == MCInit /\ [][MCNext]_<<vars, raced>>

\* The window is the only place where a slot can be lost or left over: if no
\* request hit it, reload carried the user's count over exactly, and neither
\* upsert nor delete nor the rotation of the key touched it.
ExactOutsideWindow == ~raced => UserCount = Cardinality(Holders("user"))
=============================================================================
