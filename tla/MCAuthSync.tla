------------------------------ MODULE MCAuthSync ------------------------------
(***************************************************************************)
(* Instances of AuthSync for TLC.                                          *)
(***************************************************************************)
EXTENDS AuthSync
=============================================================================
