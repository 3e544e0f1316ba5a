------------------------ MODULE MCLedgerTransaction ------------------------
(***************************************************************************)
(* Small instances of LedgerTransaction for TLC.  The close is 4 and the   *)
(* window 2, so that the times 1, 2, 4 and 6 lie before the window, at its *)
(* start, on the close (late unless the auction was extended) and on the   *)
(* close after one extension.                                              *)
(***************************************************************************)
EXTENDS LedgerTransaction, TLC

MCTimes == {1, 2, 4, 6}

\* Keys and sessions are interchangeable in the safety runs: nothing orders
\* them, and CHOOSE picks from sequence numbers only.
MCSymmetry == Permutations(Keys) \cup Permutations(Sessions)
============================================================================
