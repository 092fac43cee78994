---------------------------- MODULE MCConcCluster ----------------------------
(***************************************************************************)
(* Instances of ConcCluster for TLC.                                       *)
(***************************************************************************)
EXTENDS ConcCluster
=============================================================================
