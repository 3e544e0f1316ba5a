--------------------------- MODULE LedgerConsumer ---------------------------
(***************************************************************************)
(* Bids of one auction on their way from the Redis stream to the ledger:   *)
(* Service.ReserveBid (service.go) appends entries, the consumers of one   *)
(* group run LedgerConsumer.Run (ledger_consumer.go), and the ledger       *)
(* transaction is one Accept of AuctionLedger, which LedgerTransaction     *)
(* shows it implements.                                                    *)
(*                                                                         *)
(* An entry's stream ID is its position in the stream.  The pending list   *)
(* does not record which consumer owns an entry, because nothing depends   *)
(* on it: XACK and XAUTOCLAIM act on an entry whoever owns it.  A consumer *)
(* stops when Run returns an error, when its process dies (Fail), and may  *)
(* be started again.                                                       *)
(***************************************************************************)
EXTENDS AuctionLedger, FiniteSets

CONSTANTS
  Consumers, Keys, Times, Amounts,
  WellFormed,          \* may a reservation name a bidder that is (TRUE) or is not a UUID
  BatchSize, RecoveryBatchSize,
  ScanLimit,           \* pending entries one XAUTOCLAIM looks at, 10 * COUNT in Redis
  Patient,             \* the consumers whose BlockPeriod is zero
  Validating,          \* is the ValidateEntry hook set
  Increment,           \* the increment the hook's snapshot reports
  RestartAfterIdle,    \* does a stopped consumer stay down for RecoveryMinIdle
  MaxEntries,          \* bound on the length of the stream
  MaxFailures          \* bound on process deaths and failed calls

ASSUME BatchAssumption ==
  /\ BatchSize \in Nat \ {0}
  /\ RecoveryBatchSize \in Nat \ {0}
  /\ ScanLimit \in Nat \ {0}
ASSUME PatientAssumption == Patient \subseteq Consumers
ASSUME BoundsAssumption == MaxEntries \in Nat /\ MaxFailures \in Nat
ASSUME DataAssumption ==
  /\ Times \subseteq Nat
  /\ Amounts \subseteq Nat \ {0}
  /\ Increment \in Nat \ {0}
  /\ WellFormed \subseteq BOOLEAN
  /\ Validating \in BOOLEAN
  /\ RestartAfterIdle \in BOOLEAN

\* A bid of this ledger remembers the entry it came from (stream_entry_id).
ASSUME BidAssumption ==
  Bids = [key : Keys, at : Times, amount : Amounts, entry : 1..MaxEntries]

VARIABLES
  stream,      \* the entries, in ingress order
  group,       \* does the consumer group exist
  delivered,   \* last-delivered-id of the consumer group
  pending,     \* the group's pending entries list
  idle,        \* the pending entries nobody touched for RecoveryMinIdle
  inFlight,    \* an entry whose COMMIT a dead consumer has sent, 0 if none
  rejected,    \* entries a bid_rejected event was emitted for
  pc,          \* per consumer: where Run is
  batch,       \* per consumer: the entries it still has to process
  resume,      \* per consumer: what follows the batch
  failures     \* deaths and failed calls so far

redis == <<stream, group, delivered, pending, idle>>
postgres == <<ledger, auction, inFlight>>
vars == <<redis, postgres, rejected, pc, batch, resume, failures>>

Entry == [key : Keys, at : Times, amount : Amounts, wellFormed : BOOLEAN]

\* resume: claim on from this entry, or go on to read new entries.
NewEntries == -1

TypeOK ==
  /\ stream \in Seq(Entry)
  /\ group \in BOOLEAN
  /\ delivered \in Nat
  /\ pending \in SUBSET (1..delivered)
  /\ idle \in SUBSET pending
  /\ LedgerTypeOK
  /\ inFlight \in 0..delivered
  /\ rejected \in SUBSET (1..delivered)
  /\ pc \in [Consumers -> {"down", "claim", "read", "validate", "persist", "ack"}]
  /\ batch \in [Consumers -> Seq(1..delivered)]
  /\ resume \in [Consumers -> Nat \cup {NewEntries}]
  /\ failures \in Nat

Init ==
  /\ stream = <<>>
  /\ group = FALSE
  /\ delivered = 0
  /\ pending = {}
  /\ idle = {}
  /\ LedgerInit
  /\ inFlight = 0
  /\ rejected = {}
  /\ pc = [c \in Consumers |-> "down"]
  /\ batch = [c \in Consumers |-> <<>>]
  /\ resume = [c \in Consumers |-> 0]
  /\ failures = 0

----------------------------------------------------------------------------
\* Definitions named Fault... are defects this code could have had; no run of
\* the project uses them as they stand, they show what each property rules out.

\* The time in the entry's stream ID, which the client cannot choose.
SubmittedAt(i) == stream[i].at

\* The row that a ledger transaction for entry i would insert.
FaultAnonymousBid(i) == [key |-> stream[i].key, at |-> SubmittedAt(i), amount |-> stream[i].amount]
BidOf(i) == [key |-> stream[i].key, at |-> SubmittedAt(i), amount |-> stream[i].amount, entry |-> i]

\* What the hook's snapshot reports as the current price.
CurrentPrice == IF ledger = <<>> THEN 0 ELSE ledger[Len(ledger)].bid.amount

\* EvaluateBid on a snapshot of the committed ledger; its other rejections
\* concern an auction that is not open or a bidder not registered.
FaultNoIncrement(i) == SubmittedAt(i) < auction.close /\ stream[i].amount >= CurrentPrice
Acceptable(i) ==
  /\ SubmittedAt(i) < auction.close
  /\ stream[i].amount >= CurrentPrice + Increment

\* What is done with an entry first.
FaultAckFirst == "ack"
FirstStep == IF Validating THEN "validate" ELSE "persist"

\* What follows a batch: after a claim the next claim or, when the scan is
\* complete, fresh entries; after a read a new recovery pass.
FaultNoRecovery(next) == "read"
AfterBatch(next) == IF next = NewEntries THEN "read" ELSE "claim"

StartBatch(c, entries, next) ==
  /\ batch' = [batch EXCEPT ![c] = entries]
  /\ resume' = [resume EXCEPT ![c] = next]
  /\ pc' = [pc EXCEPT ![c] = IF entries # <<>> THEN FirstStep ELSE AfterBatch(next)]

Stop(c) ==
  /\ pc' = [pc EXCEPT ![c] = "down"]
  /\ batch' = [batch EXCEPT ![c] = <<>>]
  /\ resume' = [resume EXCEPT ![c] = 0]

\* What ReserveBid asks to append: a positive amount, a bidder that is merely
\* not empty, and a fresh key or, where a client retries, the key it used before.
Reservations == [key : Keys, at : Times, amount : Amounts, wellFormed : WellFormed]

\* XADD.  Redis assigns increasing IDs, so that the entries' times never
\* decrease.
Reserve ==
  /\ Len(stream) < MaxEntries
  /\ \E e \in Reservations :
       /\ stream # <<>> => stream[Len(stream)].at =< e.at
       /\ stream' = Append(stream, e)
  /\ UNCHANGED <<group, delivered, pending, idle, postgres, rejected, pc, batch, resume, failures>>

\* RecoveryMinIdle passes without a claim or a delivery of entry i.  Nothing
\* stops the time while the consumer that has it is alive but slow.
GoIdle(i) ==
  /\ i \in pending \ idle
  /\ idle' = idle \cup {i}
  /\ UNCHANGED <<stream, group, delivered, pending, postgres, rejected, pc, batch, resume, failures>>

----------------------------------------------------------------------------
\* The first n elements of a set of stream IDs, in ID order.
Before(S, i) == {j \in S : j < i}
Lowest(S, n) == {i \in S : Cardinality(Before(S, i)) < n}
FaultNewestFirst(S) ==
  [k \in 1..Cardinality(S) |-> CHOOSE i \in S : Cardinality(Before(S, i)) = Cardinality(S) - k]
InOrder(S) ==
  [k \in 1..Cardinality(S) |-> CHOOSE i \in S : Cardinality(Before(S, i)) = k - 1]

\* XAUTOCLAIM: looks at the pending entries from the cursor on, until it has
\* looked at ScanLimit of them or taken RecoveryBatchSize idle ones, which it
\* makes fresh again; the next cursor is the pending entry after the last one
\* it looked at, 0 when there is none.
Claim(c) ==
  /\ pc[c] = "claim"
  /\ LET ahead == {i \in pending : i >= resume[c]}
         scan == Lowest(ahead, ScanLimit)
         claimed == Lowest(scan \cap idle, RecoveryBatchSize)
         passed == IF Cardinality(claimed) < RecoveryBatchSize THEN scan ELSE claimed
         later == {i \in ahead : \A j \in passed : i > j}
         next == IF later = {} THEN NewEntries ELSE CHOOSE i \in later : \A j \in later : i =< j
     IN  /\ idle' = idle \ claimed
         /\ StartBatch(c, InOrder(claimed), next)
  /\ UNCHANGED <<stream, group, delivered, pending, postgres, rejected, failures>>

\* XREADGROUP: the next entries never delivered to the group; none when the
\* block period ends first, which it never does for a patient consumer.
ReadGroup(c) ==
  /\ pc[c] = "read"
  /\ c \in Patient => delivered < Len(stream)
  /\ LET last == IF Len(stream) < delivered + BatchSize THEN Len(stream) ELSE delivered + BatchSize
         fresh == (delivered + 1)..last
     IN  /\ delivered' = last
         /\ pending' = pending \cup fresh
         /\ StartBatch(c, InOrder(fresh), 0)
  /\ UNCHANGED <<stream, group, idle, postgres, rejected, failures>>

\* ValidateEntry, outside any transaction: emits the rejection and goes on to
\* acknowledge the entry, or goes on to persist it.
Validate(c) ==
  /\ pc[c] = "validate"
  /\ LET i == Head(batch[c])
     IN  IF Acceptable(i)
           THEN /\ pc' = [pc EXCEPT ![c] = "persist"]
                /\ UNCHANGED rejected
           ELSE /\ pc' = [pc EXCEPT ![c] = "ack"]
                /\ rejected' = rejected \cup {i}
  /\ UNCHANGED <<redis, postgres, batch, resume, failures>>

\* persistEntry.  A bidder that is no UUID and a late bid are errors, and so
\* Run returns with the entry and the rest of the batch pending.  The ledger
\* transaction waits for one that is still in flight: it needs its row lock.
Persist(c) ==
  /\ pc[c] = "persist"
  /\ LET i == Head(batch[c])
     IN  \/ /\ stream[i].wellFormed
            /\ inFlight = 0
            /\ \/ KeyInLedger(stream[i].key) /\ UNCHANGED <<ledger, auction>>
               \/ Accept(BidOf(i))
            /\ pc' = [pc EXCEPT ![c] = "ack"]
            /\ UNCHANGED <<batch, resume>>
         \/ /\ \/ ~ stream[i].wellFormed
               \/ /\ inFlight = 0
                  /\ ~ KeyInLedger(stream[i].key)
                  /\ ~ BeforeClose(SubmittedAt(i), auction)
            /\ Stop(c)
            /\ UNCHANGED <<ledger, auction>>
  /\ UNCHANGED <<redis, inFlight, rejected, failures>>

\* XACK, which succeeds also for an entry that is pending no more; the next
\* entry of the batch follows.
Ack(c) ==
  /\ pc[c] = "ack"
  /\ pending' = pending \ {Head(batch[c])}
  /\ idle' = idle \ {Head(batch[c])}
  /\ StartBatch(c, Tail(batch[c]), resume[c])
  /\ UNCHANGED <<stream, group, delivered, postgres, rejected, failures>>

\* The process dies, or the call it is making fails: before it took effect,
\* or, if this follows the call's own action, after it did.
Fail(c) ==
  /\ failures < MaxFailures
  /\ pc[c] # "down"
  /\ failures' = failures + 1
  /\ Stop(c)
  /\ UNCHANGED <<redis, postgres, rejected>>

\* The consumer dies with its COMMIT on the way: the transaction keeps its
\* locks until it commits or PostgreSQL notices and rolls it back.
FailInCommit(c) ==
  /\ failures < MaxFailures
  /\ pc[c] = "persist"
  /\ inFlight = 0
  /\ LET i == Head(batch[c])
     IN  /\ stream[i].wellFormed
         /\ ~ KeyInLedger(stream[i].key)
         /\ BeforeClose(SubmittedAt(i), auction)
         /\ inFlight' = i
  /\ failures' = failures + 1
  /\ Stop(c)
  /\ UNCHANGED <<redis, ledger, auction, rejected>>

Land ==
  /\ inFlight # 0
  /\ Accept(BidOf(inFlight)) \/ UNCHANGED <<ledger, auction>>
  /\ inFlight' = 0
  /\ UNCHANGED <<redis, rejected, pc, batch, resume, failures>>

\* XGROUP CREATE MKSTREAM: the ID after which the new group reads.
FaultFromNow == Len(stream)
GroupStart == 0

\* The process is started (again) under any consumer name: ensureGroup creates
\* the group or finds it there, and Run begins with a recovery pass.
Restart(c) ==
  /\ pc[c] = "down"
  /\ RestartAfterIdle => pending = idle /\ inFlight = 0
  /\ group' = TRUE
  /\ delivered' = IF group THEN delivered ELSE GroupStart
  /\ pc' = [pc EXCEPT ![c] = "claim"]
  /\ UNCHANGED <<stream, pending, idle, postgres, rejected, batch, resume, failures>>

Run(c) == Claim(c) \/ ReadGroup(c) \/ Validate(c) \/ Persist(c) \/ Ack(c)

Next ==
  \/ Reserve
  \/ Land
  \/ \E i \in 1..MaxEntries : GoIdle(i)
  \/ \E c \in Consumers : Run(c) \/ Fail(c) \/ FailInCommit(c) \/ Restart(c)

Spec == Init /\ [][Next]_vars

\* A running consumer goes on, a stopped one is started again, time passes
\* for an entry nobody touches, and an orphaned transaction ends.  Bids need
\* not come, and nothing needs to fail.
Fairness ==
  /\ WF_vars(Land)
  /\ \A i \in 1..MaxEntries : WF_vars(GoIdle(i))
  /\ \A c \in Consumers : WF_vars(Run(c)) /\ WF_vars(Restart(c))

FairSpec == Spec /\ Fairness

----------------------------------------------------------------------------
\* ADR 001, I8: an entry that has left the pending list, so that Redis will
\* never offer it again, is in the ledger or its rejection was emitted,
\* whatever crashed, was claimed by another consumer or was processed twice
\* (ledger_consumer.go:287-336).
AckedIsDurable ==
  \A i \in (1..delivered) \ pending : KeyInLedger(stream[i].key) \/ i \in rejected

\* What the i-th entry of a stream s adds to the ledger and the close that the
\* entries before it left.
ReplayEntry(s, i, before) ==
  LET rows == before.ledger
      bid == [key |-> s[i].key, at |-> s[i].at, amount |-> s[i].amount, entry |-> i]
      price == IF rows = <<>> THEN 0 ELSE rows[Len(rows)].bid.amount
      after == AfterBid(bid.at, before.auction)
  IN  IF \/ ~ s[i].wellFormed
         \/ \E n \in DOMAIN rows : rows[n].bid.key = bid.key
         \/ bid.at >= before.auction.close
         \/ Validating /\ bid.amount < price + Increment
        THEN before
        ELSE [ledger  |-> Append(rows, [bid      |-> bid,
                                        close    |-> after.close,
                                        extended |-> Extends(bid.at, before.auction)]),
              auction |-> after]

\* What the ledger would be if the first i entries were processed one after
\* the other in ingress order, each once.
ReplayOf(s) ==
  LET Replayed[i \in 0..MaxEntries] ==
        IF i = 0 THEN [ledger |-> <<>>, auction |-> NewAuction]
                 ELSE ReplayEntry(s, i, Replayed[i - 1])
  IN  Replayed

ReplayedTo(i) == [ledger |-> ledger, auction |-> auction] = ReplayOf(stream)[i]

\* "Deterministic bid ordering" (README.md:6) in full: at any time the ledger and
\* the close are what the stream alone determines for some number of entries,
\* and every acknowledged entry is one of them.
LedgerIsReplay ==
  \E i \in 0..delivered : ReplayedTo(i) /\ (1..delivered) \ pending \subseteq 1..i

\* I6: each accepted bid exceeds the one before it by the increment
\* (bid_validation.go:293-295).
PriceRises ==
  \A n \in DOMAIN ledger :
    ledger[n].bid.amount >= (IF n = 1 THEN 0 ELSE ledger[n - 1].bid.amount) + Increment

\* A bid that is in the ledger was not announced as rejected: the replay of an
\* entry is as safe as docs/decisions/001-commit-before-ack.md:13 says.
ReplayIsSafe == \A n \in DOMAIN ledger : ledger[n].bid.entry \notin rejected

Settled(i) == i =< delivered /\ i \notin pending /\ KeyInLedger(stream[i].key)

\* I8 as liveness: every bid that entered the stream is recorded in the end
\* and its entry acknowledged, through crashes, stolen entries, retries and
\* commits of unknown outcome.
EveryBidRecorded == \A i \in 1..MaxEntries : i =< Len(stream) ~> Settled(i)

\* "Run continuously consumes bids" (ledger_consumer.go:80): the same for the
\* bids that can be recorded, when others in the stream cannot.
GoodBidsRecorded ==
  \A i \in 1..MaxEntries : (i =< Len(stream) /\ stream[i].wellFormed) ~> Settled(i)
============================================================================
