---------------------------- MODULE MCVcdLimits -----------------------------
(***************************************************************************)
(* Model-checking instance of VcdLimits.                                   *)
(***************************************************************************)
EXTENDS VcdLimits
=============================================================================
