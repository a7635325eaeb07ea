----------------------------- MODULE MCVcdWindow ----------------------------
(***************************************************************************)
(* Model-checking instance of VcdWindow, with a dictionary of one byte.    *)
(***************************************************************************)
EXTENDS VcdWindow

MCDictionary == <<1>>
=============================================================================
