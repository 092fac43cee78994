-------------------------- MODULE MCBillingLedger ---------------------------
(***************************************************************************)
(* Instances of BillingLedger for TLC.  "Two": two instances and one       *)
(* bucket, so that a lost lock lets both settle the same rows.  "Lanes":   *)
(* one instance, two buckets, an anonymous row, a free row and two chunks. *)
(***************************************************************************)
EXTENDS BillingLedger, TLC

Symmetric == Permutations(Instances)

TwoUsers   == {1}
TwoRows    == 1 .. 3
TwoOwner   == <<1, 1, 1>>
TwoCost    == <<2, 1, 0>>
TwoChunks  == {1}
TwoChunkOwner  == <<1>>
TwoChunkAmount == <<2>>
TwoBalance == <<1>>

LanesUsers  == {1}
LanesRows   == 1 .. 3
LanesOwner  == <<1, 0, 1>>
LanesCost   == <<3, 1, 2>>
LanesChunks == {1, 2}
LanesChunkOwner  == <<1, 1>>
LanesChunkAmount == <<1, 3>>
LanesBalance     == <<1>>

LiveUsers  == {1}
LiveRows   == 1 .. 3
LiveOwner  == <<1, 0, 1>>
LiveCost   == <<1, 1, 0>>
LiveChunks == {}
LiveChunkOwner  == <<>>
LiveChunkAmount == <<>>
LiveBalance     == <<0>>
=============================================================================
