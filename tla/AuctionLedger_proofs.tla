----------------------- MODULE AuctionLedger_proofs -----------------------
(***************************************************************************)
(* The laws of the abstract ledger, for every set of bids and every close, *)
(* window, interval and number of extensions.  The invariant Laws is their *)
(* conjunction: that a bid extends the close by one interval keeps the     *)
(* close of the auction equal to the close the last row left, and that     *)
(* equality is what makes the check of the next bid a check against the    *)
(* close its predecessors left.                                            *)
(***************************************************************************)
EXTENDS AuctionLedger, TLAPS

Laws ==
  /\ LedgerTypeOK
  /\ BidsBeforeClose
  /\ ExtensionLaw

LEMMA BidTime == ASSUME NEW b \in Bids PROVE b.at \in Int
  BY BidsAssumption

\* AfterBid yields a row of auctions, moved by one interval or not at all.
LEMMA AfterBidFacts ==
  ASSUME LedgerTypeOK, NEW at \in Int
  PROVE  /\ AfterBid(at, auction) \in Auctions
         /\ Extends(at, auction) \in BOOLEAN
         /\ Extends(at, auction) =>
              /\ at >= auction.close - ExtensionWindow
              /\ AfterBid(at, auction).close = auction.close + ExtensionInterval
              /\ AfterBid(at, auction).extensions = auction.extensions + 1
         /\ ~ Extends(at, auction) => AfterBid(at, auction) = auction
  BY ExtensionAssumption DEF LedgerTypeOK, Auctions, AfterBid, Extends

LEMMA InitLaws == LedgerInit => Laws
  BY InitialCloseAssumption, ExtensionAssumption
     DEF LedgerInit, Laws, LedgerTypeOK, BidsBeforeClose, ExtensionLaw,
         NewAuction, Auctions, Rows, CloseBefore

\* What a step appends, and that the rows before it and their closes stay.
LEMMA AcceptAppends ==
  ASSUME LedgerTypeOK, NEW b \in Bids, Accept(b)
  PROVE  /\ auction' = AfterBid(b.at, auction)
         /\ ledger' \in Seq(Rows)
         /\ Len(ledger') = Len(ledger) + 1
         /\ DOMAIN ledger = 1..Len(ledger)
         /\ DOMAIN ledger' = 1..(Len(ledger) + 1)
         /\ \A n \in 1..Len(ledger) : ledger'[n] = ledger[n]
         /\ ledger'[Len(ledger) + 1].bid = b
         /\ ledger'[Len(ledger) + 1].close = auction'.close
         /\ ledger'[Len(ledger) + 1].extended = Extends(b.at, auction)
         /\ CloseBefore(Len(ledger) + 1)' = auction'.close
         /\ \A n \in 1..(Len(ledger) + 1) : CloseBefore(n)' = CloseBefore(n)
  <1> DEFINE row == [bid |-> b, close |-> auction'.close, extended |-> Extends(b.at, auction)]
  <1>1. auction' = AfterBid(b.at, auction) /\ ledger' = Append(ledger, row)
    BY DEF Accept
  <1>2. row \in Rows
    BY <1>1, BidTime, AfterBidFacts DEF Rows, Auctions
  <1>3. ledger \in Seq(Rows) /\ Len(ledger) \in Nat /\ DOMAIN ledger = 1..Len(ledger)
    BY DEF LedgerTypeOK
  <1> HIDE DEF row
  <1>4. /\ ledger' \in Seq(Rows)
        /\ Len(ledger') = Len(ledger) + 1
        /\ DOMAIN ledger' = 1..(Len(ledger) + 1)
        /\ \A n \in 1..Len(ledger) : ledger'[n] = ledger[n]
        /\ ledger'[Len(ledger) + 1] = row
    BY <1>1, <1>2, <1>3
  <1>5. \A n \in 1..(Len(ledger) + 1) : CloseBefore(n)' = CloseBefore(n)
    BY <1>3, <1>4 DEF CloseBefore
  <1>6. CloseBefore(Len(ledger) + 1)' = row.close
    BY <1>3, <1>4 DEF CloseBefore
  <1>7. /\ row.bid = b
        /\ row.close = auction'.close
        /\ row.extended = Extends(b.at, auction)
    BY DEF row
  <1> QED
    BY <1>1, <1>3, <1>4, <1>5, <1>6, <1>7

LEMMA AcceptLaws ==
  ASSUME Laws, NEW b \in Bids, Accept(b)
  PROVE  Laws'
  <1> DEFINE next == Len(ledger) + 1
  <1>1. LedgerTypeOK /\ BidsBeforeClose /\ ExtensionLaw
    BY DEF Laws
  <1>2. /\ auction \in Auctions
        /\ Len(ledger) \in Nat
        /\ ledger \in Seq(Rows)
        /\ b.at \in Int
    BY <1>1, BidTime DEF LedgerTypeOK
  <1>3. auction.close = CloseBefore(next)
    BY <1>1 DEF ExtensionLaw
  <1>4. b.at < auction.close
    BY DEF Accept, BeforeClose
  <1>5. /\ auction' = AfterBid(b.at, auction)
        /\ ledger' \in Seq(Rows)
        /\ Len(ledger') = next
        /\ DOMAIN ledger = 1..Len(ledger)
        /\ DOMAIN ledger' = 1..next
        /\ \A n \in 1..Len(ledger) : ledger'[n] = ledger[n]
        /\ ledger'[next].bid = b
        /\ ledger'[next].close = auction'.close
        /\ ledger'[next].extended = Extends(b.at, auction)
        /\ CloseBefore(Len(ledger) + 1)' = auction'.close
        /\ \A n \in 1..next : CloseBefore(n)' = CloseBefore(n)
    BY <1>1, <1>2, AcceptAppends
  <1>6. LedgerTypeOK'
    BY <1>1, <1>2, <1>5, AfterBidFacts DEF LedgerTypeOK
  <1>7. BidsBeforeClose'
    BY <1>1, <1>2, <1>3, <1>4, <1>5 DEF BidsBeforeClose
  <1>8. ExtensionLaw'
    <2>1. auction'.close = InitialClose + auction'.extensions * ExtensionInterval
      <3>1. auction.close = InitialClose + auction.extensions * ExtensionInterval
        BY <1>1 DEF ExtensionLaw
      <3>2. /\ auction.extensions \in Int /\ ExtensionInterval \in Int
            /\ InitialClose \in Int
        BY <1>2, ExtensionAssumption, InitialCloseAssumption DEF Auctions
      <3>3. CASE Extends(b.at, auction)
        <4>1. /\ auction'.close = auction.close + ExtensionInterval
              /\ auction'.extensions = auction.extensions + 1
          BY <1>1, <1>2, <3>3, <1>5, AfterBidFacts
        <4>2. (auction.extensions + 1) * ExtensionInterval
                = auction.extensions * ExtensionInterval + ExtensionInterval
          BY <3>2
        <4> QED
          BY <3>1, <3>2, <4>1, <4>2
      <3>4. CASE ~ Extends(b.at, auction)
        BY <1>1, <1>2, <3>1, <3>4, <1>5, AfterBidFacts
      <3> QED
        BY <3>3, <3>4
    <2>2. auction'.close = CloseBefore(Len(ledger) + 1)'
      BY <1>1, <1>2, <1>5
    <2>3. ASSUME NEW n \in DOMAIN ledger'
          PROVE  /\ ledger'[n].close = IF ledger'[n].extended
                                         THEN CloseBefore(n)' + ExtensionInterval
                                         ELSE CloseBefore(n)'
                 /\ ledger'[n].extended =>
                      ledger'[n].bid.at >= CloseBefore(n)' - ExtensionWindow
      <3>1. CASE n \in 1..Len(ledger)
        BY <1>1, <3>1, <1>5 DEF ExtensionLaw
      <3>2. CASE n = next
        BY <1>1, <1>2, <1>3, <3>2, <1>5, AfterBidFacts
      <3> QED
        BY <1>1, <1>2, <3>1, <3>2, <1>5
    <2> QED
      BY <2>1, <2>2, <2>3 DEF ExtensionLaw
  <1> QED
    BY <1>6, <1>7, <1>8 DEF Laws

LEMMA StutterLaws == Laws /\ UNCHANGED ledgerVars => Laws'
  BY DEF Laws, ledgerVars, LedgerTypeOK, BidsBeforeClose, ExtensionLaw,
         CloseBefore

LEMMA StepLaws == Laws /\ [LedgerNext]_ledgerVars => Laws'
  BY AcceptLaws, StutterLaws DEF LedgerNext

LEMMA LedgerLaws == LedgerSpec => []Laws
  BY InitLaws, StepLaws, PTL DEF LedgerSpec

\* I3 for every ledger that the specification allows: a row's bid lies before
\* the close its predecessors left (anti_snipe.go:147-153).
THEOREM NoLateBid == LedgerSpec => []BidsBeforeClose
  <1>1. Laws => BidsBeforeClose
    BY DEF Laws
  <1> QED
    BY <1>1, LedgerLaws, PTL

\* I7: the close has moved by one interval per extending bid, at most
\* MaxExtensions times (anti_snipe.go:315-373).
THEOREM CloseFollowsLedger == LedgerSpec => []ExtensionLaw
  <1>1. Laws => ExtensionLaw
    BY DEF Laws
  <1> QED
    BY <1>1, LedgerLaws, PTL

\* The close never moves back (anti_snipe.go:331-344).
THEOREM CloseMonotone == LedgerSpec => CloseNeverMovesBack
  <1>1. ASSUME Laws, [LedgerNext]_ledgerVars
        PROVE  [auction.close =< auction'.close]_ledgerVars
    <2>1. LedgerTypeOK /\ auction.close \in Int
      BY <1>1 DEF Laws, LedgerTypeOK, Auctions
    <2>2. ASSUME NEW b \in Bids, Accept(b)
          PROVE  auction.close =< auction'.close
      <3>1. auction' = AfterBid(b.at, auction) /\ b.at \in Int
        BY <2>1, <2>2, BidTime, AcceptAppends
      <3>2. \/ auction'.close = auction.close + ExtensionInterval
            \/ auction' = auction
        BY <2>1, <3>1, AfterBidFacts
      <3> QED
        BY <2>1, <3>2, ExtensionAssumption
    <2> QED
      BY <1>1, <2>2 DEF LedgerNext
  <1> QED
    BY <1>1, LedgerLaws, PTL DEF LedgerSpec, CloseNeverMovesBack
============================================================================
