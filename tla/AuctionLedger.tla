--------------------------- MODULE AuctionLedger ---------------------------
(***************************************************************************)
(* What the ledger of ONE auction promises, with no transaction, lock or   *)
(* retry in sight: bids are appended one at a time, each at most once,     *)
(* strictly before the close, and a bid close to the end moves the end.    *)
(* LedgerTransaction implements this specification with SQL statements on  *)
(* row locks; LedgerConsumer uses its Accept as one atomic step.           *)
(*                                                                         *)
(* Times are integers (the code compares TIMESTAMPTZ values only).         *)
(***************************************************************************)
EXTENDS Integers, Sequences

CONSTANTS
  Bids,               \* records with at least a key and an ingress time, at
  InitialClose,       \* effective_close_time of the auction when created
  ExtensionWindow,    \* extension_window of the auction
  ExtensionInterval,  \* extension_interval of the auction
  MaxExtensions       \* max_extensions of the auction

ASSUME InitialCloseAssumption == InitialClose \in Int

\* CHECK auctions_extension_window_positive, ..._interval_positive and
\* auctions_max_extensions_nonnegative (migration 5).
ASSUME ExtensionAssumption ==
  /\ ExtensionWindow \in Nat \ {0}
  /\ ExtensionInterval \in Nat \ {0}
  /\ MaxExtensions \in Nat

ASSUME BidsAssumption == \A b \in Bids : b.at \in Int

VARIABLES
  ledger,    \* the rows of bids in sequence_no order, with the close each left
  auction    \* effective_close_time and extension_count

ledgerVars == <<ledger, auction>>

Auctions == [close : Int, extensions : 0..MaxExtensions]
Rows == [bid : Bids, close : Int, extended : BOOLEAN]

LedgerTypeOK ==
  /\ ledger \in Seq(Rows)
  /\ auction \in Auctions

----------------------------------------------------------------------------
NewAuction == [close |-> InitialClose, extensions |-> 0]

\* Definitions named Fault... are defects an implementation could have; no run
\* uses them as they stand, they show what each property rules out.

\* The WHERE clause of the anti-snipe UPDATE.
FaultNoWindow(at, a) == at < a.close /\ a.extensions < MaxExtensions
FaultCapIncluded(at, a) ==
  /\ at < a.close
  /\ at >= a.close - ExtensionWindow
  /\ a.extensions =< MaxExtensions
Extends(at, a) ==
  /\ at < a.close
  /\ at >= a.close - ExtensionWindow
  /\ a.extensions < MaxExtensions

\* The row of auctions after a bid submitted at time at.
FaultCloseFromBid(at, a) ==
  IF Extends(at, a)
    THEN [close |-> at + ExtensionInterval, extensions |-> a.extensions + 1]
    ELSE a
AfterBid(at, a) ==
  IF Extends(at, a)
    THEN [close |-> a.close + ExtensionInterval, extensions |-> a.extensions + 1]
    ELSE a

KeyInLedger(key) == \E n \in DOMAIN ledger : ledger[n].bid.key = key

\* sequence_no of the row that holds the key.
SequenceOf(key) == CHOOSE n \in DOMAIN ledger : ledger[n].bid.key = key

\* ErrBidAtOrAfterClose is returned exactly when this is false.
FaultCloseIncluded(at, a) == at =< a.close
BeforeClose(at, a) == at < a.close

----------------------------------------------------------------------------
LedgerInit ==
  /\ ledger = <<>>
  /\ auction = NewAuction

Accept(b) ==
  /\ ~ KeyInLedger(b.key)
  /\ BeforeClose(b.at, auction)
  /\ LET after == AfterBid(b.at, auction)
     IN  /\ ledger' = Append(ledger, [bid      |-> b,
                                      close    |-> after.close,
                                      extended |-> Extends(b.at, auction)])
         /\ auction' = after

LedgerNext == \E b \in Bids : Accept(b)

LedgerSpec == LedgerInit /\ [][LedgerNext]_ledgerVars

----------------------------------------------------------------------------
\* The close in force when the n-th bid was accepted.
CloseBefore(n) == IF n = 1 THEN InitialClose ELSE ledger[n - 1].close

\* I3: every bid of the ledger was submitted strictly before the close that
\* its predecessors in the ledger had left (day12 recomputes this law from
\* the rows it reads back; anti_snipe.go:147-153 enforces it).
BidsBeforeClose ==
  \A n \in DOMAIN ledger : ledger[n].bid.at < CloseBefore(n)

\* I7: the close has moved by one interval for each extending bid of the
\* ledger and by nothing else, never more often than max_extensions, and each
\* extending bid lay in the window that ends at the close it found
\* (anti_snipe.go:315-373).
ExtensionLaw ==
  /\ auction.close = InitialClose + auction.extensions * ExtensionInterval
  /\ auction.close = CloseBefore(Len(ledger) + 1)
  /\ \A n \in DOMAIN ledger :
       /\ ledger[n].close = IF ledger[n].extended
                              THEN CloseBefore(n) + ExtensionInterval
                              ELSE CloseBefore(n)
       /\ ledger[n].extended => ledger[n].bid.at >= CloseBefore(n) - ExtensionWindow

\* A bid refused as late stays refused unless the auction was extended in
\* between: the close never moves back (anti_snipe.go:331-344).
CloseNeverMovesBack == [][auction.close =< auction'.close]_ledgerVars
============================================================================
