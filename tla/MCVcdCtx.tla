------------------------------ MODULE MCVcdCtx ------------------------------
(***************************************************************************)
(* Model-checking instance of VcdCtx: its bounds are in the .cfg files.    *)
(***************************************************************************)
EXTENDS VcdCtx
=============================================================================
