# BidLane in TLA+

Specifications of BidLane's bid path: from the Redis stream a bid enters, through
the PostgreSQL transaction that gives it a sequence number, to the outbox relay
that announces it. TLC checks small instances; TLAPS proves the safety properties
for every number of sessions, consumers, relays, keys and times, and of the
composition from end to end. Every definition
is translated from the Go code and the migrations; `PROJECT.json` gives the lines.

## 1. The system

A client's bid is appended to the Redis stream of its auction. A consumer of the
stream's consumer group reads it, optionally validates it, appends it to the
ledger in one PostgreSQL transaction, and only then acknowledges the entry. The
transaction also writes an outbox row, which a relay publishes to Redis Pub/Sub.

| Component | State it keeps | Operations | Module |
|---|---|---|---|
| Ingress service (`engine/service.go`) | none; appends to the stream | `ReserveBid`, `ReserveBidWithIdempotencyKey` | LedgerConsumer (`Reserve`) |
| Stream store (`store/redis/streams.go`, `recovery.go`, `stream_time.go`) | Redis: entries, the consumer group, its last-delivered ID and pending entries list | `AppendBid`, `EnsureConsumerGroup`, `ReadGroup`, `Ack`, `AutoClaimPending` | LedgerConsumer, EngineConsumer |
| Ledger consumer (`engine/ledger_consumer.go`) | the batch it is processing, the recovery cursor | `Run`: recover, read, validate, persist, ack | LedgerConsumer |
| Bid validation (`engine/bid_validation.go`) | none | `EvaluateBid`, `Validate` | BidValidation, LedgerConsumer (`Validate`) |
| Ledger store (`store/postgres/anti_snipe.go`, `ledger.go`, `outbox_event.go`) | rows of `auctions`, `auction_sequences`, `bids`, `outbox` and their locks | `AppendBidIdempotentWithAntiSnipe`, `AppendBidIdempotentRowLock` | LedgerTransaction, AuctionLedger |
| Native-sequence path (`store/postgres/ledger.go`) | a PostgreSQL sequence per auction, rows of `bids` | `EnsurePostgresSequence`, `AppendBidPostgresSequence`, `DropPostgresSequence` | NativeSequence |
| Outbox and relay (`store/postgres/outbox.go`, `relay/outbox_relay.go`) | `published_at` per row, a row lock per relay | `PublishNext`, `Run` | OutboxRelay |
| Pub/Sub publisher (`store/redis/pubsub.go`) | none; Redis carries the channel | `Publish` | OutboxRelay (`Announced`), BidPath |
| Day-1 consumer (`engine/consumer.go`, `cmd/engine`) | the batch it is logging | `Consumer.Run` | EngineConsumer |
| Pool set-up, `main` functions, grants | | | not modelled, see 8 |

Interactions: consumers share the pending list (Redis) and the rows of one
auction (PostgreSQL); the ledger transaction and the relay share the outbox
table; nothing calls back. Redis and PostgreSQL fail independently of the
processes, and no transaction spans both.

What is hard, and what makes each part correct:

* **Ledger transaction.** Sessions interleave statement by statement, abort
  anywhere, and may lose the reply to a COMMIT that took effect. It is correct if
  numbers are 1..N without a gap, a key has one row, a reply names a committed
  row of the caller's key, each committed bid has exactly one event, and the
  close moves as the extension law says.
* **Ledger consumer.** A consumer may die between any two steps, or be slow while
  another one claims its entry; COMMIT and XACK are not atomic. It is correct if
  nothing leaves the pending list unrecorded, no bid is recorded twice, every bid
  is recorded in the end, and the ledger is what the stream determines.
* **Validation.** The order of fourteen refusals, equality at the close and at
  the minimum, `price + increment` beyond int64.
* **Outbox relay.** PUBLISH and the commit of `published_at` are not atomic; rows
  of two auctions become visible in another order than that of `created_at`; a
  dead relay's connection may keep its row lock for a while.
* **The whole path.** Four commits in two systems move a bid on, and a process may
  die between any two of them. It is correct if whoever follows the auction hears
  of every recorded bid once, in ledger order, and of every bid that entered.
* **Native-sequence path.** nextval is not undone by a rollback and knows nothing
  of auction_sequences. It is correct if each gap is the price of an aborted call
  and what callers were told stays true.

## 2. The modules

**AuctionLedger** is the abstract specification: the ledger of one auction with a
single action, `Accept(b)`: the key is new, the bid is before the close, the row
is appended and the close moves if the bid lies in the extension window. No
transaction, lock, counter or retry. `AuctionLedger_proofs` proves its laws: I3 (`BidsBeforeClose`),
I7 (`ExtensionLaw`), and that the close never moves back. That a key has one row is a guard of
`Accept`; what keeps it so in the code is the subject of LedgerTransaction (`OneRowPerKey`).

**LedgerTransaction** is the SQL. One action per statement:

| Action | Code |
|---|---|
| `Begin` | BeginTx, with any path, key and time |
| `LockAuction`, `FindBid` | `SELECT ... FOR UPDATE` on auctions, look-up of the key and check against the close (anti_snipe.go:79-153) |
| `InsertCounter`, `CheckCounter`, `LockCounter` | `INSERT ... ON CONFLICT DO NOTHING` into auction_sequences, its foreign-key check, `SELECT last_seq ... FOR UPDATE` (anti_snipe.go:155-200, ledger.go:86-125) |
| `InsertBid`, `Advance` | the INSERT into bids with its duplicate branch, the guarded UPDATE of the counter |
| `Extend`, `InsertEvent` | the UPDATE whose WHERE clause is the extension window, the INSERT into the outbox |
| `Commit`, `CommitDuplicate`, `Rollback` | COMMIT (with or without its reply), deferred Rollback, lost connection, deadlock victim |

A session's writes are staged in `local` and applied by `Commit`: at READ
COMMITTED nobody else sees them earlier. Sharing locks of foreign-key checks are
in `keyShare`; `WaitsFor` says who waits for whom. The row-lock path is the same
actions without `LockAuction`, `FindBid`, `Extend` and `InsertEvent`.

**LedgerConsumer** extends AuctionLedger: its `Persist` is an `Accept` (or finds
the key recorded, or is an error), which is what LedgerTransaction implements.
`Claim` is one XAUTOCLAIM of the recovery pass with its cursor, which looks at no more than
`ScanLimit` pending entries, idle or not, `ReadGroup` one
XREADGROUP, `Validate` the hook with the emitted rejection, `Ack` the XACK and
the step to the next entry. `GoIdle(i)` is the passing of `RecoveryMinIdle` for
entry i (Redis ages the entries of one delivery together; letting them age one by
one only adds behaviours). `FailInCommit` and `Land` are a consumer that dies
with its COMMIT on the way: the transaction ends later, either way. A stream ID
is a position; its time is `SubmittedAt`.

`Restart` is `ensureGroup`: the first consumer to start creates the group, which
begins at the start of the stream (`GroupStart`), and not before. `Patient` are the
consumers whose `BlockPeriod` is zero: their XREADGROUP waits until there is a new
entry, and they do not come to their next recovery pass before.

**BidFeed** is the abstract specification of the whole: AuctionLedger, and a `feed`
that follows it bid by bid. **BidPath** composes LedgerConsumer with OutboxRelay:
the outbox of the relay is a function of the ledger (`Events`), because every commit
of a bid commits its one event (`EventPerBid`) and transactions of one auction
are serialised by its row lock. `Heard` is what a follower makes of the channel when
it drops the event IDs it has seen, as outbox_relay.go:28 asks it to, and is mapped to
`feed`: `ImplementsBidFeed` is the safety part of BidFeed under this map (`FeedSafety`),
which is proved, `FeedKeepsUp` its liveness (`FeedProgress`), which is only checked. The relay is
that of OutboxRelay with all its failures: `RelayVanish` leaves a lock behind, `RelayEndOrphan` ends it.

**NativeSequence** is the benchmark's third way to number bids: `Create`, `Grant` and
`Drop` of the sequence, `NextVal`, `Insert`, `Commit` and `Rollback` of a call. A call
of the engine's own append functions is the one step `CounterAppend`, which
LedgerTransaction justifies; a recorded key is answered at once, a new row waits like
any other. An INSERT that meets another transaction's uncommitted
row waits (`MustWait`), one that meets a committed row fails (`Rollback`).

**BidValidation** is `EvaluateBid`: the conditions of its early returns in their
order (`Refused`), computed in integers that wrap around. `Evaluate` and
`NextSnapshot` alternate, so that the price of an auction has a history.

**OutboxRelay** is `PublishNext` in five steps (`Select` with SKIP LOCKED,
`Publish`, `Mark`, `Commit`, or `Poll` when nothing is unpublished) for any number
of relays, with the ledger transactions that write and commit rows (`WriteEvent`,
`EndWrite`). `Vanish` and `EndOrphan` are a relay whose connection outlives it
(`LingeringLocks`); `RestartAfterRelease` is a deployment that starts a relay again
only after that, and its absence one that does not wait.

**EngineConsumer** is the consumer that `cmd/engine` starts: read, log, ack.

Modules named `MC...` give TLC its small sets. Definitions named `Fault...` are
defects the code could have had (a dropped guard, an off-by-one, a missing lock).
No run uses them as they stand; substituting one for the definition beneath it
makes the property listed with it in `PROJECT.json` fail, which shows that the
property depends on that line of code.

## 3. The runs

| Run | Question | Bounds and why they are enough |
|---|---|---|
| LedgerTransaction_engine | Does each commit of the engine's transaction amount to one Accept with one event, do sessions never wait in a cycle, and does every call end? | 2 sessions, 2 keys; times before the window, at its start, on the close and on the extended close; one extension. Two sessions give every order of two transactions on the locks; two bids and their duplicates reach the extension and its cap. Also checks the invariant of the refinement proof. 69 000 states |
| LedgerTransaction_mixed | Do numbering, idempotency, truthful replies and immutability survive when both append functions run on one auction? | 3 sessions, 2 keys, both paths: one session in each path and a third in between. Also checks the invariant of the proofs. 650 000 states |
| LedgerTransaction_lockOrder | *violation*: is the lock order of anti_snipe.go:178-180 the only one? | 2 sessions, both paths |
| LedgerConsumer_crash | Is an acknowledged entry always recorded, and no bid recorded late? | 2 consumers, 3 entries of 2 keys, late and malformed ones, batches of 2, one entry scanned by each XAUTOCLAIM, one failure: an entry can be claimed from a live and from a dead consumer. 730 000 states |
| LedgerConsumer_replay | Is the ledger a function of the stream, with the hook set? | 1 consumer that is restarted after RecoveryMinIdle, 3 entries, 3 times, 2 amounts, 2 failures. 830 000 states |
| LedgerConsumer_revalidation | *violation*: is replay safe with the hook set? | 1 consumer, 1 failure |
| LedgerConsumer_poison | *violation*: does Run go on past an entry it cannot persist? | 1 consumer, no failure, fairness |
| BidValidation_int3 | Is a bid accepted exactly when it is valid in unbounded integers? | integers -4..3: all prices, increments and amounts, so all overflows; times 0 (zero value), 1, 2. 150 000 states |
| OutboxRelay_relays | Is nothing announced that did not commit, nothing marked unannounced, nothing repeated without a failure, no bid announced ahead of more bids than locks can hide, and everything announced? | 2 relays, 2 auctions, 3 rows, 1 failure, lingering locks, fairness. relays restarted beside lingering locks too. 66 000 states |
| BidPath_delivery | Does a follower hear of every recorded bid once and in order, and of every bid that entered the stream? | 2 consumers (one with and one without a block period), 1 relay, 2 entries of 2 keys, batches of 1, one failure on either side, lingering locks that a relay waits for (`RestartAfterRelease`), fairness: each of the four commits of a bid can be the last step of its process. 270 000 states |
| NativeSequence_mixed | Do gaps, replies and the engine's own numbers survive the native path? | 3 sessions, 3 keys, numbers to 4: two overlapping calls of the native path with a third, and a counter that catches up with their rows. 331 000 states |
| EngineConsumer_shipped | What does the shipped consumer guarantee? | 2 consumers, 4 entries, batches of 2, 2 failures. 5 600 states |

Bounds are constants: `MaxEntries`, `MaxRows` (length of the stream and the
outbox), `MaxNumber` (the last number of the native sequence and the counter),
`MaxFailures` and `MaxRelayFailures` (deaths and failed calls). LedgerTransaction needs none,
since each key commits once.

### What the properties say

*LedgerTransaction.* `GapFree`: committed rows are 1..last_seq. `OneRowPerKey`.
`EventPerBid`: row n and event n belong together. `ReplyNamesItsBid`: what a
caller was told is in the ledger, and only one caller was told that it inserted.
`LedgerImmutable`: no step changes a committed row. `ImplementsAuctionLedger`:
refinement of AuctionLedger under the map that reads each row's close from its
event; this is where the close, the window, duplicates after the close and
at-most-one extension per bid are checked. `NoWaitCycle`: no set of sessions each of
which waits for another of the set. `EveryCallReturns`.

*LedgerConsumer.* `AckedIsDurable` (ADR 001), `LedgerIsReplay` (ledger and close
equal those of processing some prefix of the stream once, in order, and every
acknowledged entry is in that prefix), `PriceRises`
(I6 over the ledger), and the laws of AuctionLedger.

*OutboxRelay.* `AnnouncedAndMarked`; `RepeatedOnlyByFailure`; `PassesOnlyLockedRows`:
SKIP LOCKED may announce a bid ahead of an earlier one of its auction, but of at
most as many as there are other relays and connections of dead ones;
`EveryEventAnnounced` (outbox.go:53, at-least-once). `FirstAnnouncedInSequence`, the
special case of one relay, is proved (6) and run through BidPath_delivery.

*BidPath.* `ImplementsBidFeed` (what a follower hears is the ledger, bid by bid),
`FeedKeepsUp`, `EveryBidRecorded`, `EveryBidAnnounced`. `HeardIsReplay`: what a follower
has heard is the beginning of the ledger that some prefix of the stream determines.
It joins `LedgerIsReplay` with `ImplementsBidFeed`, which have runs; it has none itself
and is proved (6).

*NativeSequence.* `GapsArePaid`: the numbers of the sequence that no row has are at
most as many as the calls that rolled back or are open. `RepliesAreTrue`.
`CounterBelowNative`: rows of the native path lie above last_seq, so that one of them
at last_seq + 1 ends the engine's path on that auction; this is why the two must
not be mixed.

### Disagreements between code and documents

* **Lock order.** anti_snipe.go:178-180 says the order is always auction row, then
  sequence row. `AppendBidIdempotentRowLock` inserts the counter row first and
  then shares the auctions row for the foreign-key check: a cycle of waits is
  possible on an auction without a counter row, or between its INSERT into bids and
  an anti-snipe session. PostgreSQL aborts one side, which `Rollback` covers, so
  that no safety property is affected. Where only one of the two functions is in use
  there is no cycle (`OnePathNoCycle`, 6).
* **Replay with the hook.** ADR 001 calls replay safe by the uniqueness of the key.
  `processEntries` calls the validation hook before it looks at the key: an entry
  whose bid is committed but not acknowledged is then evaluated against its own
  price and announced as rejected.
* **Poison entries.** `Run` promises to consume until its context ends. A bidder
  that is no UUID passes `reserveBid` and stops `Run` in `persistEntry`, and again
  after each restart; a late bid without the hook does the same.

Four more conditions show as assumptions of a passing run rather than as runs:

* `LedgerIsReplay`, and with it `HeardIsReplay`, needs `RestartAfterIdle = TRUE`. With FALSE TLC finds an old
  entry still pending, because its idle time is short, while a newer one is
  appended: sequence order is then not ingress order.
* `PriceRises` needs one consumer per auction. With two TLC finds both validating
  against the same price; the ledger transaction itself compares no amounts.
* `EveryBidRecorded` needs one consumer with a block period. If all wait without
  limit TLC finds a bid left pending by a dead consumer while everybody else
  sits in XREADGROUP, because no further bid comes.
* `ImplementsBidFeed`, and with it `HeardIsReplay`, needs one relay and, where locks linger,
  `RestartAfterRelease = TRUE`. With FALSE TLC finds a relay that dies with the first bid's row
  locked and a restarted one that passes over that row and announces the second bid
  first. How far the order can suffer is `PassesOnlyLockedRows`, which needs neither.

And one that needs no model checker: `cmd/engine`, which docker-compose starts,
runs the Day-1 consumer, which has no PostgreSQL connection, although streams.go:331
says that XACK must never occur before PostgreSQL commits. EngineConsumer states
what that consumer does guarantee, and that it never takes up stranded entries.

## 4. Fairness

* *LedgerTransaction:* strong fairness of each session's next statement: a goroutine
  that is in a transaction does nothing else, and PostgreSQL queues the waiters of
  a row, so that a lock which is released again and again is granted in the end.
  Weak fairness of the deferred Rollback after an error. Calls need not begin, and
  nothing need fail.
* *LedgerConsumer:* weak fairness of a running consumer's step, of `Restart`
  (`restart: unless-stopped`, as docker-compose sets it for the engine), of time passing (`GoIdle`) and of the
  end of an orphaned transaction. Bids need not arrive.
* *OutboxRelay:* the same for the relay's steps (the poll timer fires), `Restart` and
  `EndOrphan`. Writers may leave a transaction open for ever; a committed row is
  announced all the same.
* *BidPath:* the fairness of its two parts, `RelayEndOrphan` included. A patient consumer's `ReadGroup` is enabled
  only while there is a new entry, so that fairness does not make it return.
* *NativeSequence:* none; its properties are safety properties.

## 5. Assumptions

One auction per instance (rows, streams and locks of different auctions are
disjoint; OutboxRelay, where they meet, has several). PostgreSQL executes a
statement atomically under its row locks and keeps what it committed; Redis keeps
what it acknowledged (`appendfsync always` in docker-compose). Stream times do
not decrease. The consumer group is not deleted. A validation snapshot is read from the committed ledger at the
moment of the hook.

Two assumptions are about the deployment, and named where a run or a theorem makes them.
`RestartAfterIdle` (run LedgerConsumer_replay; with one consumer, `SerialConsumer` of the theorems): a
consumer is started again when everything pending is idle and no COMMIT of its
predecessor is on its way. `RestartAfterRelease` (run BidPath_delivery; with one relay, `SerialRelay`
of the theorems): a relay is started again when PostgreSQL has ended the transactions of dead ones.

## 6. Proofs

Each proof holds for all values of its module's constants, under the assumptions
that the module declares and those its statement names.

### The ledger transaction on either path

`LedgerTransaction_proofs`, for any choice of paths:

| Theorem | Statement |
|---|---|
| `Discipline`, `TransactionTypes` | `Spec => [](TypeOK /\ CounterDiscipline)`, `Spec => []TypeOK` |
| `NoGaps` | `Spec => []GapFree` |
| `Idempotent` | `Spec => []OneRowPerKey` |
| `Immutable` | `Spec => LedgerImmutable` |
| `RepliesAreTrue` | `Spec => []ReplyNamesItsBid` |

`GapFree` is not inductive: a commit adds the row `local[s].sequence`, and nothing
in `GapFree` says that this is the next number. `CounterDiscipline` adds, for each
session, that from the statement that read last_seq (or inserted the counter) to
its end it holds the counter row, that its number is still last_seq + 1, and that
once its INSERT into bids succeeded its key is still unrecorded. Hence at most one
session is past `LockCounter` (`OneCounterHolder`), a staging step of one session
cannot disturb another (`StagingStep`, `StatementStep`), and a commit moves the
counter by one while no other session depends on it (`CommitStep`). The other
theorems follow from this invariant; `RepliesAreTrue` needs in addition that rows
stay (`RowsStay`).

`OnePathNoCycle`: `Paths = {"antiSnipe"}` or `Paths = {"rowLock"}` implies `Spec => []NoWaitCycle`.
On the anti-snipe path whoever holds any lock holds the auctions row, and is past the only
statement that waits for it (`LocksTogether`, with `AuctionDiscipline` below); on the other
path nobody locks the auctions row (`AuctionUnlocked`). In both cases everybody who waits
waits for one session, which waits for nobody (`OneHolder`). Run LedgerTransaction_lockOrder
shows that the hypothesis is needed.

### The abstract ledger

`AuctionLedger_proofs` proves the laws of `AuctionLedger` for every behaviour of it:
`NoLateBid` (I3), `CloseFollowsLedger` (I7) and `CloseMonotone`. Their
inductive invariant `Laws` is the first two with the type invariant; each law
needs that an `Accept` leaves the rows before the new one, and hence `CloseBefore` of
their numbers, as they were.

### The engine's path implements the abstract ledger

`LedgerTransaction_proofs` in its second part, under the hypothesis `Paths = {"antiSnipe"}` (what the
engine uses; the row-lock path writes no event and does not look at the close):

| Theorem | Statement |
|---|---|
| `AuctionHeld` | `Spec => []AuctionDiscipline` |
| `OneEventPerBid` | `Spec => []EventPerBid` |
| `Refinement` | `Spec => ImplementsAuctionLedger` |
| `NoLateCommit` | `Spec => []Ledger!BidsBeforeClose` |
| `CloseOfCommits` | `Spec => []Ledger!ExtensionLaw` |
| `CloseAdvances` | `Spec => [][auction.close =< auction'.close]_auction` |

A commit writes a close that was computed some statements earlier, and `Accept`
computes it from the committed one. The two agree because of `AuctionDiscipline`:
from its first statement on a session holds the auctions row, so the close it read
is still the committed one, its bid is before it, and after `Extend` it has staged
what `AfterBid` yields (`HoldingStatement`, `HoldingCommit`). With `CounterDiscipline`
and `EventPerBid` this is inductive (`StepRefinement`). `CommitIsAccept` then shows
that a commit appends one row to the mapped ledger with that close, and the other
statements leave the tables alone (`TablesStay`). The last three theorems are the
laws of the abstract ledger read through the refinement map.

### The consumers

`LedgerConsumer_proofs`, for any number of consumers, any stream, batch sizes, failures
and patient consumers, with and without the hook:

| Theorem | Statement |
|---|---|
| `ConsumerTypes` | `Spec => []TypeOK` |
| `CommitBeforeAck` | `Spec => []AckedIsDurable` |
| `ConsumersImplementLedger` | `Spec => LedgerSpec` |
| `NoLateEntry`, `CloseFollowsEntries`, `ConsumersKeepClose` | the laws of the ledger |
| `PricesRise` | `OneValidatingConsumer` implies `Spec => []PriceRises` |
| `LedgerFollowsStream` | `SerialConsumer` implies `Spec => []LedgerIsReplay` |

`AckedIsDurable` is not inductive: XACK removes the head of a batch, and nothing says
that it is recorded. `AtWork` adds that wherever a consumer is about to acknowledge,
the head of its batch is recorded or rejected; since neither the ledger nor the
set of rejections ever loses anything (`DurableStays`), what other consumers do with
the same entry meanwhile cannot spoil it. `Delivery` adds that only entries of the
stream are delivered, and none before the group exists. `PricesRise` rests on `Priced`:
what the hook accepted, or a dead consumer's COMMIT carries, is still acceptable,
because with a single consumer that waits for `inFlight` to end nobody else appends.

`LedgerFollowsStream` is deterministic bid ordering. `SerialConsumer` says that there is one
consumer and that it is restarted after RecoveryMinIdle (docker-compose gives its group
one, `engine-1`; a restart that is quicker breaks the property, see 3). The hook may be set or not, batches
have any size, and failures any number. The replay of a stream is a recursive
function; that it satisfies its equation (`ReplayEquation`) is proved from the least
argument at which it could fail (`LeastElement`, by well-founded induction on the naturals),
and that appending to the stream leaves the replay of what was there alone
(`ReplayExtends`) in the same way. The invariant is `Serial`: for some p the pending entries are exactly those after
p, the ledger is the replay of p entries, or of p + 1 where the entry after p is recorded
but not acknowledged (`Frontier`), a COMMIT in flight is that of entry p + 1, and the consumer's batch
starts with p + 1, with everything behind the batch idle and ahead of the claim's cursor
(`OnCourse`). The last is what recovery after a crash needs: because everything pending was idle when
the consumer came back, XAUTOCLAIM meets the entries in order and passes none.

### The relays

`OutboxRelay_proofs`, for any relays, auctions, rows and failures:

| Theorem | Statement |
|---|---|
| `RelayTypes` | `Spec => []TypeOK` |
| `AnnouncedBeforeMarked` | `Spec => []AnnouncedAndMarked` |
| `RepetitionsArePaid` | `Spec => []RepeatedOnlyByFailure` |
| `OnlyLockedRowsPassed` | `IsFiniteSet(Relays)` implies `Spec => []PassesOnlyLockedRows` |
| `OneRelayInSequence` | `~ LingeringLocks` and `Relays = {r}` imply `Spec => []FirstAnnouncedInSequence` |

`Base` is the locking discipline: a row that a relay holds is committed, unmarked,
and held by nobody else, alive or dead (`Locking`), and a transaction of an auction
that is open is its last (`Closed`). Repetitions are counted by `Counted`: each row that
was announced and is neither marked nor in the hands of the relay that announced it
(`Loose`) has already cost a failure, and announcing it again uses that failure up.
`Skipped` bounds the unmarked rows that a relay passed over when it locked its own:
each of them is held by another relay or an orphan, and there are as many orphans
as failures at most. `Numbered` ties sequence numbers to the order of the rows.

### The whole path

`BidPath_proofs`, for any consumers, stream and failures on either side, lingering locks
among them:

| Theorem | Statement |
|---|---|
| `PathImplementsConsumers` | `PathSpec => Spec` (of LedgerConsumer) |
| `PathMarksAnnounced` | `PathSpec => []Relay!AnnouncedAndMarked` |
| `PathRepetitionsArePaid` | `PathSpec => []Relay!RepeatedOnlyByFailure` |
| `PathPassesOnlyLocked` | `IsFiniteSet(Relays)` implies `PathSpec => []Relay!PassesOnlyLockedRows` |
| `PathImplementsFeed` | `SerialRelay` implies `PathSpec => ImplementsBidFeed` |
| `FollowerHearsReplay` | `SerialConsumer` and `SerialRelay` imply `PathSpec => []HeardIsReplay` |

The first is immediate, since a relay touches nothing of the consumers, and carries every
theorem about them over. `Sound` is `Base` of OutboxRelay_proofs for an outbox that is a function
of the ledger. A step of a relay is one of OutboxRelay, so that its step
lemmas are used as they stand (`RelayFacts`, `RelayNext`); but a commit of a consumer is not a step
of OutboxRelay, which has a row open before it is committed, so that the invariants
are shown to survive it separately (`CountedConsumers`, `SkippedConsumers`).

`PathImplementsFeed` needs what a follower hears to be the beginning of the ledger
(`HeardPrefix`), although `Heard` is defined by the places of first announcements in a channel with
repetitions. `InTurn` says that the relay goes through the ledger row by row: the rows marked
are 1..k, the rows announced 1..k or 1..k + 1, a row in the relay's hands or locked by a dead
relay is k + 1, and no relay runs while such a lock is left;
`FirstInOrder` that first announcements are in ledger order. A PUBLISH is then an `Announce`
the first time and a stutter when it repeats a row, a COMMIT of a bid a step of the
ledger (`FeedStep`). `SerialRelay` is one process of cmd/outbox-relay that, if `LingeringLocks`, is restarted
as `RestartAfterRelease` says (5). With two relays, or one restarted beside a lingering lock, SKIP LOCKED
lets a later bid be heard first, and `PathPassesOnlyLocked` bounds by how many.

`FollowerHearsReplay` joins this with `LedgerFollowsStream`: from ingress to follower, one
consumer and one relay make a pure function of the stream, however often they die,
under `SerialConsumer` and `SerialRelay`.

### Validation

`BidValidation_proofs`, for every `MaxInt`: `ValidationTypes`, `AcceptsValidBids`,
`QuotesTrueMinimum` and `PriceClimbs`. The run covers three-bit integers; the code has
64 bits. `PriceCheck` shows that once price and increment passed their own checks
neither `MaxInt - increment` nor, after the overflow check, `price + increment` wraps;
`Evaluation` that the order of the fourteen checks never lets one that would wrap
decide.

### The shipped consumer

`EngineConsumer_proofs`, for any number of consumers, any stream and failures:
`EngineTypes`, `LogBeforeAck`, `NoSecondLog`, `NothingRecovers`. `LoggedOnce` needs that
no entry is in two places of the batches (`Apart`) and that of a batch exactly the
entry about to be acknowledged was logged (`Held`).

### The native sequence

`NativeSequence_proofs`: `NativeTypes`, `RepliesStayTrue`, `NativeAboveCounter` for any
sessions and keys, `EveryGapIsPaid` for any finite set of sessions. Their invariant
`Inv` extends the unique constraints to inserted but uncommitted rows (`Unique`) and
says that a drawn number is one of the present sequence (`Drawn`), which is why DROP
must wait for open transactions.

### Proved and not proved

Proved for every instance: the theorems above, which state every invariant, action
property and refinement that a passing run checks. Model-checked only: liveness
(`EveryCallReturns`, `EveryEventAnnounced`, `FeedKeepsUp`, `EveryBidRecorded`, `EveryBidAnnounced`),
since fairness and ENABLED are outside the prover's reach; and what the violation runs
refute.

## 7. Plan

In this order:

1. `ProcessExactly`: a consumer that never recovers and stops after a number of entries.
2. BidPath for two auctions, whose rows become visible out of created_at order.

## 8. Not modelled

* A crash of PostgreSQL, after which a sequence may skip up to 32 further numbers.
* `ProcessExactly`, `RecoverPending` (alone it is the recovery pass of `Run`), `Range`, `DeleteStream` and the hooks for
  crash injection: used by tests; a crash at the hooks' places is `Fail`.
* Argument checks that refuse a call without changing state, parsing beyond the
  bidder UUID, logging, JSON, configuration and the `main` functions.
* Pub/Sub delivery to subscribers: the repository has none. BidPath supposes one that
  was listening all along; what one that connects late has missed is lost.
* Roles, grants and the trigger that rejects UPDATE and DELETE on bids: no statement
  of the program attempts what they forbid.
* The backfill of migration 4 (close `infinity`): whether such a value can be read
  is decided in the driver.
