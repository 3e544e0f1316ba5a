-------------------------- MODULE MCEngineConsumer --------------------------
(***************************************************************************)
(* Small instances of EngineConsumer for TLC.                              *)
(***************************************************************************)
EXTENDS EngineConsumer, TLC

MCSymmetry == Permutations(Consumers)
============================================================================
