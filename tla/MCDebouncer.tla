----------------------------- MODULE MCDebouncer -----------------------------
(***************************************************************************)
(* Instances of Debouncer for TLC.                                         *)
(***************************************************************************)
EXTENDS Debouncer
=============================================================================
