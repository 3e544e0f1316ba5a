-------------------------- MODULE MCNativeSequence --------------------------
(***************************************************************************)
(* A small instance of NativeSequence for TLC.                             *)
(***************************************************************************)
EXTENDS NativeSequence, TLC

MCSymmetry == Permutations(Sessions) \cup Permutations(Keys)
============================================================================
