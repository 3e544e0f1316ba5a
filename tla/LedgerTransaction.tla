------------------------- MODULE LedgerTransaction -------------------------
(***************************************************************************)
(* The two ways the ledger store appends a bid to one auction, statement   *)
(* by statement: AppendBidIdempotentWithAntiSnipe (anti_snipe.go), which   *)
(* the engine uses, and AppendBidIdempotentRowLock (ledger.go), which the  *)
(* store still exports.  Each session is a PostgreSQL connection running   *)
(* one READ COMMITTED transaction at a time; each action is one statement. *)
(*                                                                         *)
(* A session's writes are staged in local and applied by Commit, since no  *)
(* other session sees them before.  Of PostgreSQL's locks the model has    *)
(* the row lock on the auctions row (FOR UPDATE, and the KEY SHARE that a  *)
(* foreign-key check takes) and the one on the auction_sequences row.      *)
(* A bid is its idempotency key and the time in its stream entry ID.       *)
(***************************************************************************)
EXTENDS Integers, Sequences, FiniteSets

CONSTANTS
  Sessions, Keys, Times,
  Paths,              \* the append functions in use: "antiSnipe", "rowLock"
  NoSession,          \* a lock nobody holds
  InitialClose, ExtensionWindow, ExtensionInterval, MaxExtensions

ASSUME SessionsAssumption == NoSession \notin Sessions
ASSUME TimesAssumption == Times \subseteq Int
ASSUME PathsAssumption == Paths \subseteq {"antiSnipe", "rowLock"}
ASSUME CloseAssumption ==
  /\ InitialClose \in Int
  /\ ExtensionWindow \in Nat \ {0}
  /\ ExtensionInterval \in Nat \ {0}
  /\ MaxExtensions \in Nat

VARIABLES
  auction,      \* committed effective_close_time and extension_count
  counter,      \* committed last_seq, NoRow before the first bid commits
  bids,         \* committed rows of bids: sequence_no -> bid
  outbox,       \* committed BidAccepted events, in commit order
  auctionLock,  \* the session that locked the auctions row FOR UPDATE
  keyShare,     \* the sessions whose foreign-key checks share that row
  counterLock,  \* the session that inserted or locked the counter row
  pc, call,     \* per session: next statement, arguments of the call
  local,        \* per session: what its transaction has read and staged
  reply         \* per session: what its last call returned

tables == <<auction, counter, bids, outbox>>
locks == <<auctionLock, keyShare, counterLock>>
vars == <<tables, locks, pc, call, local, reply>>

NoRow == -1

----------------------------------------------------------------------------
Bid == [key : Keys, at : Times]
Call == [path : Paths, key : Keys, at : Times]
Event == [sequence : Nat, bid : Bid, close : Int, extensions : Nat, extended : BOOLEAN]
Local == [close : Int, extensions : Nat, extended : BOOLEAN, sequence : Nat]
Reply == [outcome : {"none", "inserted", "duplicate", "error"}, sequence : Nat]

Statements ==
  {"idle", "lockAuction", "findBid", "insertCounter", "checkCounter", "lockCounter",
   "insertBid", "advance", "extend", "event", "commit", "commitDuplicate", "rollback"}

TypeOK ==
  /\ auction \in [close : Int, extensions : Nat]
  /\ counter \in Nat \cup {NoRow}
  /\ DOMAIN bids \in SUBSET (Nat \ {0})
  /\ bids \in [DOMAIN bids -> Bid]
  /\ outbox \in Seq(Event)
  /\ auctionLock \in Sessions \cup {NoSession}
  /\ keyShare \in SUBSET Sessions
  /\ counterLock \in Sessions \cup {NoSession}
  /\ pc \in [Sessions -> Statements]
  /\ call \in [Sessions -> Call]
  /\ local \in [Sessions -> Local]
  /\ reply \in [Sessions -> Reply]

NoReply == [outcome |-> "none", sequence |-> 0]
NewLocal == [close |-> InitialClose, extensions |-> 0, extended |-> FALSE, sequence |-> 0]

Init ==
  /\ auction = [close |-> InitialClose, extensions |-> 0]
  /\ counter = NoRow
  /\ bids = [n \in {} |-> 0]
  /\ outbox = <<>>
  /\ auctionLock = NoSession
  /\ keyShare = {}
  /\ counterLock = NoSession
  /\ pc = [s \in Sessions |-> "idle"]
  /\ call \in [Sessions -> Call]      \* no statement reads it before Begin sets it
  /\ local = [s \in Sessions |-> NewLocal]
  /\ reply = [s \in Sessions |-> NoReply]

----------------------------------------------------------------------------
\* Definitions named Fault... are defects this code could have had; no run of
\* the project uses them as they stand, they show what each property rules out.

FaultNoDefault == counter
LastSeq == IF counter = NoRow THEN 0 ELSE counter

FaultNoUniqueKey(key) == FALSE
Recorded(key) == \E n \in DOMAIN bids : bids[n].key = key

FaultNewestSequence(key) == LastSeq
SequenceOf(key) == CHOOSE n \in DOMAIN bids : bids[n].key = key

\* The WHERE clause of the anti-snipe UPDATE.
FaultOpenWindow(at) ==
  at < auction.close /\ at > auction.close - ExtensionWindow /\ auction.extensions < MaxExtensions
Extends(at) ==
  /\ at < auction.close
  /\ at >= auction.close - ExtensionWindow
  /\ auction.extensions < MaxExtensions

\* The row of bids and the event that s's transaction adds.
RowOf(s) == [key |-> call[s].key, at |-> call[s].at]

FaultEventBeforeAdvance(s) ==
  [sequence |-> LastSeq, bid |-> RowOf(s), close |-> local[s].close,
   extensions |-> local[s].extensions, extended |-> local[s].extended]
EventOf(s) ==
  [sequence |-> local[s].sequence, bid |-> RowOf(s), close |-> local[s].close,
   extensions |-> local[s].extensions, extended |-> local[s].extended]

Goto(s, statement) == pc' = [pc EXCEPT ![s] = statement]

\* The end of s's transaction: every lock it holds is gone.
Release(s) ==
  /\ auctionLock' = IF auctionLock = s THEN NoSession ELSE auctionLock
  /\ keyShare' = keyShare \ {s}
  /\ counterLock' = IF counterLock = s THEN NoSession ELSE counterLock

Return(s, outcome, sequence) ==
  reply' = [reply EXCEPT ![s] = [outcome |-> outcome, sequence |-> sequence]]

\* The session that keeps s from a lock, as a set; empty if nobody does.
HolderOtherThan(s, lock) == {lock} \ {s, NoSession}

\* Statements from the UPDATE of the counter to the end of the transaction.
CounterUpdated(t) == pc[t] \in {"extend", "event", "commit"}

\* INSERT ... ON CONFLICT DO NOTHING waits for a transaction that has
\* inserted or updated the row with the same key, not for one that merely
\* locked it.
CounterInserters(s) ==
  {t \in HolderOtherThan(s, counterLock) : counter = NoRow \/ CounterUpdated(t)}

\* The sessions that s's next statement has to wait for.
WaitsFor(s) ==
  CASE pc[s] = "lockAuction"   -> HolderOtherThan(s, auctionLock) \cup (keyShare \ {s})
    [] pc[s] = "insertCounter" -> CounterInserters(s)
    [] pc[s] = "checkCounter"  -> HolderOtherThan(s, auctionLock)
    [] pc[s] = "lockCounter"   -> HolderOtherThan(s, counterLock)
    [] pc[s] = "insertBid"     -> IF Recorded(call[s].key)
                                    THEN {} ELSE HolderOtherThan(s, auctionLock)
    [] pc[s] = "extend"        -> HolderOtherThan(s, auctionLock)
    [] OTHER                   -> {}

Ready(s, statement) == pc[s] = statement /\ WaitsFor(s) = {}
----------------------------------------------------------------------------
FirstStatement(path) == IF path = "antiSnipe" THEN "lockAuction" ELSE "insertCounter"

\* BeginTx, for a bid the caller chooses freely: concurrent deliveries,
\* retries of a call whose outcome is unknown, and a second stream entry
\* with the same key are all Begins.
Begin(s) ==
  /\ pc[s] = "idle"
  /\ \E path \in Paths, key \in Keys, at \in Times :
       /\ call' = [call EXCEPT ![s] = [path |-> path, key |-> key, at |-> at]]
       /\ Goto(s, FirstStatement(path))
  /\ local' = [local EXCEPT ![s] = NewLocal]
  /\ reply' = [reply EXCEPT ![s] = NoReply]
  /\ UNCHANGED <<tables, locks>>

\* The same SELECT as below without FOR UPDATE.
FaultReadAuction(s) ==
  /\ pc[s] = "lockAuction"
  /\ local' = [local EXCEPT ![s].close = auction.close,
                            ![s].extensions = auction.extensions]
  /\ Goto(s, "findBid")
  /\ UNCHANGED <<tables, locks, call, reply>>

\* FOR UPDATE for the bids that extend the auction only, a plain SELECT for
\* the others: these then lock the counter first.
FaultLockInWindow(s) ==
  /\ pc[s] = "lockAuction"
  /\ Extends(call[s].at) => WaitsFor(s) = {}
  /\ auctionLock' = IF Extends(call[s].at) THEN s ELSE auctionLock
  /\ local' = [local EXCEPT ![s].close = auction.close,
                            ![s].extensions = auction.extensions]
  /\ Goto(s, "findBid")
  /\ UNCHANGED <<tables, keyShare, counterLock, call, reply>>

\* SELECT effective_close_time, extension_count FROM auctions ... FOR UPDATE
LockAuction(s) ==
  /\ Ready(s, "lockAuction")
  /\ auctionLock' = s
  /\ local' = [local EXCEPT ![s].close = auction.close,
                            ![s].extensions = auction.extensions]
  /\ Goto(s, "findBid")
  /\ UNCHANGED <<tables, keyShare, counterLock, call, reply>>

\* SELECT sequence_no FROM bids WHERE idempotency_key = ...: a duplicate is
\* answered with the original sequence number, even after the close; only a
\* new bid is checked against the close (I3).
FindBid(s) ==
  /\ Ready(s, "findBid")
  /\ \/ /\ Recorded(call[s].key)
        /\ local' = [local EXCEPT ![s].sequence = SequenceOf(call[s].key)]
        /\ Goto(s, "commitDuplicate")
     \/ /\ ~ Recorded(call[s].key)
        /\ Goto(s, IF call[s].at < local[s].close THEN "insertCounter" ELSE "rollback")
        /\ UNCHANGED local
  /\ UNCHANGED <<tables, locks, call, reply>>

\* INSERT INTO auction_sequences ... ON CONFLICT DO NOTHING
InsertCounter(s) ==
  /\ Ready(s, "insertCounter")
  /\ \/ /\ counter = NoRow
        /\ counterLock' = s
        /\ Goto(s, "checkCounter")
     \/ /\ counter # NoRow
        /\ Goto(s, "lockCounter")
        /\ UNCHANGED counterLock
  /\ UNCHANGED <<tables, auctionLock, keyShare, call, local, reply>>

\* The foreign-key check of the inserted counter row shares the auctions row.
CheckCounter(s) ==
  /\ Ready(s, "checkCounter")
  /\ keyShare' = keyShare \cup {s}
  /\ Goto(s, "lockCounter")
  /\ UNCHANGED <<tables, auctionLock, counterLock, call, local, reply>>

\* The same SELECT without FOR UPDATE.
FaultReadCounter(s) ==
  /\ pc[s] = "lockCounter"
  /\ local' = [local EXCEPT ![s].sequence = LastSeq + 1]
  /\ Goto(s, "insertBid")
  /\ UNCHANGED <<tables, locks, call, reply>>

\* SELECT last_seq FROM auction_sequences ... FOR UPDATE
LockCounter(s) ==
  /\ Ready(s, "lockCounter")
  /\ counterLock' = s
  /\ local' = [local EXCEPT ![s].sequence = LastSeq + 1]
  /\ Goto(s, "insertBid")
  /\ UNCHANGED <<tables, auctionLock, keyShare, call, reply>>

\* INSERT INTO bids ... ON CONFLICT (auction_id, idempotency_key) DO NOTHING
\* with the foreign-key check of the new row; a sequence_no already taken
\* violates uq_bids_auction_sequence, which is not the arbiter: an error.
InsertBid(s) ==
  /\ Ready(s, "insertBid")
  /\ \/ /\ Recorded(call[s].key)
        /\ local' = [local EXCEPT ![s].sequence = SequenceOf(call[s].key)]
        /\ Goto(s, "commitDuplicate")
        /\ UNCHANGED keyShare
     \/ /\ ~ Recorded(call[s].key)
        /\ Goto(s, IF local[s].sequence \in DOMAIN bids THEN "rollback" ELSE "advance")
        /\ keyShare' = keyShare \cup {s}
        /\ UNCHANGED local
  /\ UNCHANGED <<tables, auctionLock, counterLock, call, reply>>

\* UPDATE auction_sequences SET last_seq = ... WHERE last_seq = <as read>
Advance(s) ==
  /\ Ready(s, "advance")
  /\ LET next == IF call[s].path = "antiSnipe" THEN "extend" ELSE "commit"
     IN  Goto(s, IF LastSeq = local[s].sequence - 1 THEN next ELSE "rollback")
  /\ UNCHANGED <<tables, locks, call, local, reply>>

\* UPDATE auctions SET effective_close_time = ... WHERE <in the window>
Extend(s) ==
  /\ Ready(s, "extend")
  /\ auctionLock' = s
  /\ local' = IF Extends(call[s].at)
                THEN [local EXCEPT ![s] = [close      |-> auction.close + ExtensionInterval,
                                           extensions |-> auction.extensions + 1,
                                           extended   |-> TRUE,
                                           sequence   |-> @.sequence]]
                ELSE local
  /\ Goto(s, "event")
  /\ UNCHANGED <<tables, keyShare, counterLock, call, reply>>

\* INSERT INTO outbox; uq_outbox_event allows one event per sequence number.
InsertEvent(s) ==
  /\ Ready(s, "event")
  /\ Goto(s, IF \E n \in DOMAIN outbox : outbox[n].sequence = local[s].sequence
               THEN "rollback" ELSE "commit")
  /\ UNCHANGED <<tables, locks, call, local, reply>>

\* COMMIT of a new bid.  The writes become visible together; the reply may
\* be lost with the connection, and the caller then sees an error.
Commit(s) ==
  /\ Ready(s, "commit")
  /\ bids' = [n \in DOMAIN bids \cup {local[s].sequence} |->
                IF n = local[s].sequence THEN RowOf(s) ELSE bids[n]]
  /\ counter' = local[s].sequence
  /\ IF call[s].path = "antiSnipe"
       THEN /\ auction' = [close |-> local[s].close, extensions |-> local[s].extensions]
            /\ outbox' = Append(outbox, EventOf(s))
       ELSE UNCHANGED <<auction, outbox>>
  /\ \/ Return(s, "inserted", local[s].sequence)
     \/ Return(s, "error", 0)
  /\ Goto(s, "idle")
  /\ Release(s)
  /\ UNCHANGED <<call, local>>

\* ON CONFLICT DO UPDATE in place of DO NOTHING.
FaultUpsert(s) ==
  /\ Ready(s, "commitDuplicate")
  /\ bids' = [bids EXCEPT ![local[s].sequence] = RowOf(s)]
  /\ Return(s, "duplicate", local[s].sequence)
  /\ Goto(s, "idle")
  /\ Release(s)
  /\ UNCHANGED <<auction, counter, outbox, call, local>>

\* COMMIT of a transaction that found the key already recorded.  It staged
\* nothing: where a key is recorded, the counter row exists already.
CommitDuplicate(s) ==
  /\ Ready(s, "commitDuplicate")
  /\ \/ Return(s, "duplicate", local[s].sequence)
     \/ Return(s, "error", 0)
  /\ Goto(s, "idle")
  /\ Release(s)
  /\ UNCHANGED <<tables, call, local>>

\* A number drawn from a sequence object is not given back.
FaultNumberKept(s) ==
  /\ pc[s] # "idle"
  /\ counter' = IF pc[s] \in {"insertBid", "advance"} THEN local[s].sequence ELSE counter
  /\ Return(s, "error", 0)
  /\ Goto(s, "idle")
  /\ Release(s)
  /\ UNCHANGED <<auction, bids, outbox, call, local>>

\* The function returns its error without the deferred Rollback: the
\* transaction stays open on a connection that nobody uses.
FaultNoRollback(s) ==
  /\ pc[s] # "idle"
  /\ Return(s, "error", 0)
  /\ Goto(s, "idle")
  /\ UNCHANGED <<tables, locks, call, local>>

\* ROLLBACK: after an error of the transaction itself (pc "rollback"), or
\* because the process, its connection or its context ended at any point, or
\* PostgreSQL chose this transaction to break a deadlock.
Rollback(s) ==
  /\ pc[s] # "idle"
  /\ Return(s, "error", 0)
  /\ Goto(s, "idle")
  /\ Release(s)
  /\ UNCHANGED <<tables, call, local>>

Statement(s) ==
  \/ LockAuction(s) \/ FindBid(s) \/ InsertCounter(s) \/ CheckCounter(s)
  \/ LockCounter(s) \/ InsertBid(s) \/ Advance(s) \/ Extend(s) \/ InsertEvent(s)
  \/ Commit(s) \/ CommitDuplicate(s)

Next == \E s \in Sessions : Begin(s) \/ Statement(s) \/ Rollback(s)

Spec == Init /\ [][Next]_vars

\* Every statement that can run does: a session is driven by one goroutine
\* that has nothing else to do, and PostgreSQL serves the waiters for a row in
\* order, so that a lock released again and again is granted in the end (SF).
\* A failed transaction is rolled back by the deferred Rollback.  Nothing
\* makes a call begin or fail.
Fairness ==
  \A s \in Sessions :
    /\ SF_vars(Statement(s))
    /\ WF_vars(pc[s] = "rollback" /\ Rollback(s))

FairSpec == Spec /\ Fairness

----------------------------------------------------------------------------
\* I1: the committed rows are numbered 1..N with no gap, N being the counter,
\* whatever the sessions interleave, abort or retry (README.md:18; the
\* counter row of migration 2 is there for this).
GapFree == DOMAIN bids = 1..LastSeq

\* A logical bid has one row even when two sessions append it at once, on
\* either path (anti_snipe.go:101-145, ledger.go:203-237).
OneRowPerKey == \A m, n \in DOMAIN bids : bids[m].key = bids[n].key => m = n

\* The outbox holds exactly one BidAccepted event for every committed bid,
\* in sequence order and about that very bid (anti_snipe.go:375-390).
EventPerBid ==
  /\ Len(outbox) = LastSeq
  /\ \A n \in DOMAIN outbox : outbox[n].sequence = n /\ outbox[n].bid = bids[n]

\* A sequence number that a caller was given is the number of a committed row
\* with the caller's key, and only one caller is told that it inserted that
\* row; this is what lets the engine XACK on any answer, and retry on none.
ReplyNamesItsBid ==
  \A s \in Sessions :
    reply[s].outcome \in {"inserted", "duplicate"} =>
      /\ reply[s].sequence \in DOMAIN bids
      /\ bids[reply[s].sequence].key = call[s].key
      /\ reply[s].outcome = "inserted" =>
           \A t \in Sessions \ {s} :
             reply[t].outcome = "inserted" => reply[t].sequence # reply[s].sequence

\* I1: a committed row is never changed or removed by any later step
\* (bids_immutable, migration 1, enforces what the statements respect).
LedgerImmutable ==
  [][\A n \in DOMAIN bids : n \in DOMAIN bids' /\ bids'[n] = bids[n]]_vars

\* The lock order of anti_snipe.go:178-180 excludes a set of sessions each of
\* which waits for another of the set.
NoWaitCycle ==
  \A S \in SUBSET Sessions :
    (\A s \in S : WaitsFor(s) \cap S # {}) => S = {}

\* Every transaction ends, however many others keep locking the same rows.
EveryCallReturns == \A s \in Sessions : pc[s] # "idle" ~> pc[s] = "idle"

----------------------------------------------------------------------------
\* Why the rows are numbered without gaps: from the moment it has read
\* last_seq to its end a session holds the counter row, so that the number it
\* carries stays the next one and the key it found missing stays missing.
Numbered(s) ==
  /\ pc[s] \in {"checkCounter", "insertBid", "advance", "extend", "event", "commit"} =>
       counterLock = s
  /\ pc[s] \in {"insertBid", "advance", "extend", "event", "commit"} =>
       local[s].sequence = LastSeq + 1
  /\ pc[s] \in {"advance", "extend", "event", "commit"} => ~ Recorded(call[s].key)
  /\ pc[s] = "commitDuplicate" =>
       /\ local[s].sequence \in DOMAIN bids
       /\ bids[local[s].sequence].key = call[s].key

\* The inductive invariant of LedgerTransaction_proofs, for either path
\* (ledger.go:106-123, anti_snipe.go:176-200).
CounterDiscipline ==
  /\ GapFree
  /\ OneRowPerKey
  /\ \A s \in Sessions : Numbered(s)

\* Why the anti-snipe path implements AuctionLedger: from its first statement to
\* its end a session holds the auctions row, so that the close it read stays the
\* committed one until it commits the close that its own bid leads to.
StagedClose(s) ==
  /\ local[s].extended = Extends(call[s].at)
  /\ local[s].close = IF Extends(call[s].at)
                        THEN auction.close + ExtensionInterval ELSE auction.close
  /\ local[s].extensions = IF Extends(call[s].at)
                             THEN auction.extensions + 1 ELSE auction.extensions

HoldsAuction(s) ==
  /\ pc[s] \notin {"idle", "lockAuction", "rollback"} => auctionLock = s
  /\ pc[s] \notin {"idle", "lockAuction", "rollback", "commitDuplicate", "event", "commit"} =>
       /\ local[s].close = auction.close
       /\ local[s].extensions = auction.extensions
  /\ pc[s] \notin {"idle", "rollback", "commitDuplicate", "event", "commit"} =>
       ~ local[s].extended
  /\ pc[s] \notin {"idle", "lockAuction", "rollback", "commitDuplicate", "findBid"} =>
       call[s].at < auction.close
  /\ pc[s] \in {"event", "commit"} => StagedClose(s)

\* The inductive invariant of LedgerTransaction_proofs, where only the anti-snipe
\* path is in use (anti_snipe.go:70-99, 147-153, 315-373).
AuctionDiscipline == \A s \in Sessions : HoldsAuction(s)

----------------------------------------------------------------------------
\* What one session commits is one Accept of the abstract ledger, and nothing
\* else changes it: read the close and the extension flag of each row from
\* the event committed with it.
CommittedLedger ==
  [n \in DOMAIN bids |->
     [bid |-> bids[n], close |-> outbox[n].close, extended |-> outbox[n].extended]]

Ledger == INSTANCE AuctionLedger WITH Bids <- Bid, ledger <- CommittedLedger

\* The anti-snipe path implements AuctionLedger (anti_snipe.go:39-411).
ImplementsAuctionLedger == Ledger!LedgerSpec
============================================================================
