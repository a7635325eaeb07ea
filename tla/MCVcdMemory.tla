----------------------------- MODULE MCVcdMemory ----------------------------
(***************************************************************************)
(* Model-checking instance of VcdMemory: engines are interchangeable, and  *)
(* so are Buffers and dictionaries.                                        *)
(***************************************************************************)
EXTENDS VcdMemory, TLC

Symmetry == Permutations(Buffers) \cup Permutations(Dictionaries)
              \cup Permutations(Engines)
=============================================================================
