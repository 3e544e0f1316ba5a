-------------------------- MODULE MCLedgerConsumer --------------------------
(***************************************************************************)
(* Small instances of LedgerConsumer for TLC.                              *)
(***************************************************************************)
EXTENDS LedgerConsumer, TLC

MCBids == [key : Keys, at : Times, amount : Amounts, entry : 1..MaxEntries]

\* Nothing orders keys or consumers.
MCSymmetry == Permutations(Consumers) \cup Permutations(Keys)
============================================================================
