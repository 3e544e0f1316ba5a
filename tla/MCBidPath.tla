----------------------------- MODULE MCBidPath -----------------------------
(***************************************************************************)
(* Small instances of BidPath for TLC.                                     *)
(***************************************************************************)
EXTENDS BidPath

MCBids == [key : Keys, at : Times, amount : Amounts, entry : 1..MaxEntries]
============================================================================
