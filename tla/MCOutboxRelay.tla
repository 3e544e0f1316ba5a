--------------------------- MODULE MCOutboxRelay ---------------------------
(***************************************************************************)
(* Small instances of OutboxRelay for TLC.                                 *)
(***************************************************************************)
EXTENDS OutboxRelay, TLC

MCSymmetry == Permutations(Auctions) \cup Permutations(Relays)
============================================================================
