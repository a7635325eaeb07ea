---------------------------- MODULE MCVcdOneShot ----------------------------
(***************************************************************************)
(* Model-checking instance of VcdOneShot.                                  *)
(***************************************************************************)
EXTENDS VcdOneShot
=============================================================================
