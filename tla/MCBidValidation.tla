-------------------------- MODULE MCBidValidation --------------------------
(***************************************************************************)
(* EvaluateBid in integers of three bits, -4..3: every price and increment *)
(* whose sum overflows, and every amount around the minimum.               *)
(***************************************************************************)
EXTENDS BidValidation

MCStates == {"OPEN", "CLOSED"}
MCTimes == {0, 1, 2}
============================================================================
