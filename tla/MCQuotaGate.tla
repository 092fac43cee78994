---------------------------- MODULE MCQuotaGate -----------------------------
(***************************************************************************)
(* Instances of QuotaGate for TLC.                                         *)
(***************************************************************************)
EXTENDS QuotaGate, TLC

Symmetric == Permutations(Requests)
=============================================================================
