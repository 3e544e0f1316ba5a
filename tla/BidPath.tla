------------------------------ MODULE BidPath ------------------------------
(***************************************************************************)
(* The whole path of a bid of one auction: the stream and its consumers    *)
(* (LedgerConsumer), the ledger, and the relay that announces what the     *)
(* ledger transactions wrote to the outbox (OutboxRelay).                  *)
(*                                                                         *)
(* The two components meet in PostgreSQL.  Every commit of a bid commits   *)
(* its one event (EventPerBid of LedgerTransaction), so that the outbox is *)
(* a function of the ledger.  Transactions of one auction are serialised   *)
(* by its row lock, so that created_at order is the order of the commits;  *)
(* rows that were rolled back are invisible to a relay and are left out.   *)
(***************************************************************************)
EXTENDS LedgerConsumer

CONSTANTS
  Relays, LingeringLocks, RestartAfterRelease,   \* see OutboxRelay
  MaxRelayFailures   \* bound on deaths and failed calls of relays

ASSUME RelayBoundAssumption == MaxRelayFailures \in Nat
ASSUME RelayDeploymentAssumption ==
  LingeringLocks \in BOOLEAN /\ RestartAfterRelease \in BOOLEAN

VARIABLES marked, channel, relayPc, holding, orphans, committing, relayFailures

relayVars == <<marked, channel, relayPc, holding, orphans, committing, relayFailures>>
pathVars == <<vars, relayVars>>

ThisAuction == "this auction"

\* The committed rows of the outbox.
Events ==
  [n \in DOMAIN ledger |-> [auction |-> ThisAuction, sequence |-> n, fate |-> "committed"]]

Relay == INSTANCE OutboxRelay
           WITH Auctions <- {ThisAuction}, MaxRows <- MaxEntries,
                MaxFailures <- MaxRelayFailures, outbox <- Events,
                pc <- relayPc, failures <- relayFailures

PathInit == Init /\ Relay!Init

\* A step of the consumers, the stream or PostgreSQL; if it commits a bid, the
\* relays see a new event.
ConsumerNext == Next /\ UNCHANGED relayVars

RelayRun(r) == UNCHANGED vars /\ Relay!Run(r)
RelayRestart(r) == UNCHANGED vars /\ Relay!Restart(r)
RelayFail(r) == UNCHANGED vars /\ Relay!Fail(r)
RelayVanish(r) == UNCHANGED vars /\ Relay!Vanish(r)
RelayEndOrphan(n) == UNCHANGED vars /\ Relay!EndOrphan(n)

PathNext ==
  \/ ConsumerNext
  \/ \E r \in Relays : RelayRun(r) \/ RelayRestart(r) \/ RelayFail(r) \/ RelayVanish(r)
  \/ \E n \in 1..MaxEntries : RelayEndOrphan(n)

\* What the parts assume: see LedgerConsumer and OutboxRelay.
PathFairness ==
  /\ WF_pathVars(Land /\ UNCHANGED relayVars)
  /\ \A i \in 1..MaxEntries : WF_pathVars(GoIdle(i) /\ UNCHANGED relayVars)
  /\ \A c \in Consumers : /\ WF_pathVars(Run(c) /\ UNCHANGED relayVars)
                          /\ WF_pathVars(Restart(c) /\ UNCHANGED relayVars)
  /\ \A r \in Relays : WF_pathVars(RelayRun(r)) /\ WF_pathVars(RelayRestart(r))
  /\ \A n \in 1..MaxEntries : WF_pathVars(RelayEndOrphan(n))

PathSpec == PathInit /\ [][PathNext]_pathVars /\ PathFairness

----------------------------------------------------------------------------
\* What a follower makes of the channel: it drops the events whose ID it has
\* seen (outbox_relay.go:28 requires it to), and keeps the bids of the rest.
Rank(n) == Cardinality({m \in Relay!Published : Relay!FirstAt(m) =< Relay!FirstAt(n)})
Heard ==
  [k \in 1..Cardinality(Relay!Published) |->
     ledger[CHOOSE n \in Relay!Published : Rank(n) = k].bid]

Feed == INSTANCE BidFeed WITH feed <- Heard

\* What the follower hears is the ledger, bid by bid: none is repeated, left out
\* or ahead of its place, through crashes between COMMIT, XACK, PUBLISH and
\* published_at (README.md:6-18, outbox.go:53-111, outbox_relay.go:28).  This is
\* so of one relay that is started again only when PostgreSQL has ended the
\* transaction of its predecessor: while that one still has its row locked,
\* SKIP LOCKED lets a new relay announce the next bid first.
ImplementsBidFeed == Feed!FeedSafety

\* The feed never stays behind the ledger (outbox.go:53, at-least-once).
FeedKeepsUp == Feed!FeedProgress

\* "Deterministic bid ordering" (README.md:6) as a follower sees it: what it has
\* heard is the beginning of a ledger that the stream alone determines.  This is
\* so of one consumer that is started again after RecoveryMinIdle, when no COMMIT
\* of its predecessor is on its way, and of one relay as for ImplementsBidFeed.
HeardIsReplay ==
  \E i \in 0..delivered :
    LET rows == ReplayOf(stream)[i].ledger
    IN  /\ Len(Heard) =< Len(rows)
        /\ \A k \in DOMAIN Heard : Heard[k] = rows[k].bid

\* From ingress to announcement: the bid of every entry of the stream is
\* recorded and announced in the end (README.md:6-18).
EveryBidAnnounced ==
  \A i \in 1..MaxEntries :
    i \in DOMAIN stream ~>
      /\ i \in DOMAIN stream
      /\ \E n \in DOMAIN ledger : ledger[n].bid.key = stream[i].key /\ n \in marked
============================================================================
