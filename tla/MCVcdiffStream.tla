-------------------------- MODULE MCVcdiffStream ----------------------------
(***************************************************************************)
(* Model-checking instance of VcdiffStream.                                *)
(***************************************************************************)
EXTENDS VcdiffStream
=============================================================================
