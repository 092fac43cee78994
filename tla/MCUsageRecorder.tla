--------------------------- MODULE MCUsageRecorder ---------------------------
(***************************************************************************)
(* Instances of UsageRecorder for TLC: rows 1 .. n of one user, inserted   *)
(* at once or in two chunks, or the last one of another user that falls to *)
(* the second shard.  One of the rows is poison.                           *)
(***************************************************************************)
EXTENDS UsageRecorder

Same  == [r \in Rows |-> 1]
Apart == [Same EXCEPT ![Cardinality(Rows)] = 2]

Setup(of, batch, poison) == [of |-> of, batch |-> batch, poison |-> poison]

NoPoison == {Setup(Same, 2, {})}
OnePoison ==
  {Setup(Same, 2, {1}), Setup(Same, 2, {3}), Setup(Same, 3, {1}), Setup(Same, 3, {2}),
   Setup(Apart, 3, {1})}
=============================================================================
