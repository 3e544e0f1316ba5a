------------------------------ MODULE BidFeed ------------------------------
(***************************************************************************)
(* What BidLane promises to whoever follows one auction: every bid that is *)
(* recorded is heard of once, in the order of the ledger, and none is left *)
(* out.  No stream, group, outbox, relay or crash; BidPath implements this *)
(* specification with all of them.                                         *)
(***************************************************************************)
EXTENDS AuctionLedger

VARIABLE feed   \* the recorded bids a follower has heard of, in order

feedVars == <<ledgerVars, feed>>

FeedInit == LedgerInit /\ feed = <<>>

\* The next bid of the ledger is heard of.
Announce ==
  /\ Len(feed) < Len(ledger)
  /\ feed' = Append(feed, ledger[Len(feed) + 1].bid)
  /\ UNCHANGED ledgerVars

FeedNext == (LedgerNext /\ UNCHANGED feed) \/ Announce

\* Only recorded bids are heard of, each once and in order.
FeedSafety == FeedInit /\ [][FeedNext]_feedVars

\* Bids need not come; what is recorded is announced in the end.
FeedProgress == WF_feedVars(Announce)

FeedSpec == FeedSafety /\ FeedProgress
============================================================================
