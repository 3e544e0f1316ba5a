---------------------------- MODULE OutboxRelay ----------------------------
(***************************************************************************)
(* The transactional outbox between the ledger transactions that write it  *)
(* and the relays that publish it to Redis: OutboxStore.PublishNext        *)
(* (outbox.go) driven by OutboxRelay.Run (outbox_relay.go).                *)
(*                                                                         *)
(* A row of the outbox is its position in created_at order.  created_at is *)
(* clock_timestamp() (migration 6), taken while the writer holds its       *)
(* auction's row lock and before it commits: transactions of different     *)
(* auctions may commit in another order than that of their rows.           *)
(***************************************************************************)
EXTENDS Integers, Sequences, FiniteSets

CONSTANTS
  Auctions, Relays,
  LingeringLocks,   \* may a dead relay's transaction keep its row lock for a while
  RestartAfterRelease,   \* is a relay started only when no such lock is left
  MaxRows,          \* bound on the outbox
  MaxFailures       \* bound on process deaths and failed calls

ASSUME BoundsAssumption == MaxRows \in Nat /\ MaxFailures \in Nat
ASSUME LingeringAssumption == LingeringLocks \in BOOLEAN /\ RestartAfterRelease \in BOOLEAN

VARIABLES
  outbox,      \* per row: its auction and sequence number, and its writer's fate
  marked,      \* rows whose published_at is committed
  channel,     \* the rows published to Redis so far, in order
  pc,          \* per relay: the next step of PublishNext
  holding,     \* per relay: the row its transaction has locked, 0 if none
  orphans,     \* rows locked by the transaction of a dead relay
  committing,  \* those of them whose COMMIT was sent
  failures

vars == <<outbox, marked, channel, pc, holding, orphans, committing, failures>>

Row == [auction : Auctions, sequence : Nat, fate : {"open", "committed", "aborted"}]

TypeOK ==
  /\ outbox \in Seq(Row)
  /\ marked \in SUBSET DOMAIN outbox
  /\ channel \in Seq(DOMAIN outbox)
  /\ pc \in [Relays -> {"down", "select", "publish", "mark", "commit"}]
  /\ holding \in [Relays -> {0} \cup DOMAIN outbox]
  /\ orphans \in SUBSET DOMAIN outbox
  /\ committing \in SUBSET orphans
  /\ failures \in Nat

Init ==
  /\ outbox = <<>>
  /\ marked = {}
  /\ channel = <<>>
  /\ pc = [r \in Relays |-> "down"]
  /\ holding = [r \in Relays |-> 0]
  /\ orphans = {}
  /\ committing = {}
  /\ failures = 0

----------------------------------------------------------------------------
\* Definitions named Fault... are defects this code could have had; no run of
\* the project uses them as they stand, they show what each property rules out.

RowsOf(a) == {n \in DOMAIN outbox : outbox[n].auction = a}

\* A ledger transaction inserts its event.  It holds the auction's row, so
\* that no other transaction of the auction is open.
WriteEvent(a) ==
  /\ Len(outbox) < MaxRows
  /\ \A n \in RowsOf(a) : outbox[n].fate # "open"
  /\ LET before == {n \in RowsOf(a) : outbox[n].fate = "committed"}
     IN  outbox' = Append(outbox, [auction  |-> a,
                                   sequence |-> Cardinality(before) + 1,
                                   fate     |-> "open"])
  /\ UNCHANGED <<marked, channel, pc, holding, orphans, committing, failures>>

EndWrite(n) ==
  /\ n \in DOMAIN outbox
  /\ outbox[n].fate = "open"
  /\ \E fate \in {"committed", "aborted"} : outbox' = [outbox EXCEPT ![n].fate = fate]
  /\ UNCHANGED <<marked, channel, pc, holding, orphans, committing, failures>>

----------------------------------------------------------------------------
FaultDirtyRead(n) == outbox[n].fate # "aborted"
Visible(n) == outbox[n].fate = "committed"

FaultNoLock(n) == FALSE
Locked(n) == n \in orphans \/ \E r \in Relays : holding[r] = n

\* The rows that SELECT ... FOR UPDATE SKIP LOCKED chooses from.
FaultPublishOnce ==
  {n \in DOMAIN outbox :
     Visible(n) /\ ~ Locked(n) /\ \A k \in DOMAIN channel : channel[k] # n}
Candidates == {n \in DOMAIN outbox : Visible(n) /\ n \notin marked /\ ~ Locked(n)}

\* ORDER BY created_at LIMIT 1.
FaultRowBefore(S) == (CHOOSE n \in S : \A m \in S : n =< m) - 1
FaultNewest(S) == CHOOSE n \in S : \A m \in S : m =< n
Oldest(S) == CHOOSE n \in S : \A m \in S : n =< m

Select(r) ==
  /\ pc[r] = "select"
  /\ Candidates # {}
  /\ holding' = [holding EXCEPT ![r] = Oldest(Candidates)]
  /\ pc' = [pc EXCEPT ![r] = "publish"]
  /\ UNCHANGED <<outbox, marked, channel, orphans, committing, failures>>

\* No row to publish: Run waits for its poll timer and selects again.
Poll(r) ==
  /\ pc[r] = "select"
  /\ Candidates = {}
  /\ UNCHANGED vars

\* What Redis Pub/Sub carries after a successful PUBLISH of row n.
FaultUnsent(n) == channel
Announced(n) == Append(channel, n)

\* Redis PUBLISH, with the row lock held.
Publish(r) ==
  /\ pc[r] = "publish"
  /\ channel' = Announced(holding[r])
  /\ pc' = [pc EXCEPT ![r] = "mark"]
  /\ UNCHANGED <<outbox, marked, holding, orphans, committing, failures>>

\* UPDATE outbox SET published_at ... WHERE published_at IS NULL; where it
\* updates no row PublishNext returns an error, and Run with it.
Mark(r) ==
  /\ pc[r] = "mark"
  /\ IF holding[r] \notin marked
       THEN /\ pc' = [pc EXCEPT ![r] = "commit"]
            /\ UNCHANGED holding
       ELSE /\ pc' = [pc EXCEPT ![r] = "down"]
            /\ holding' = [holding EXCEPT ![r] = 0]
  /\ UNCHANGED <<outbox, marked, channel, orphans, committing, failures>>

\* COMMIT; Run selects the next row at once.
Commit(r) ==
  /\ pc[r] = "commit"
  /\ marked' = marked \cup {holding[r]}
  /\ holding' = [holding EXCEPT ![r] = 0]
  /\ pc' = [pc EXCEPT ![r] = "select"]
  /\ UNCHANGED <<outbox, channel, orphans, committing, failures>>

Stop(r) ==
  /\ failures < MaxFailures
  /\ pc[r] # "down"
  /\ failures' = failures + 1
  /\ pc' = [pc EXCEPT ![r] = "down"]
  /\ holding' = [holding EXCEPT ![r] = 0]

\* A call fails, and the deferred Rollback releases the row, or PostgreSQL
\* notices at once that the relay's process is gone.
Fail(r) ==
  /\ Stop(r)
  /\ UNCHANGED <<outbox, marked, channel, orphans, committing>>

\* The relay dies and PostgreSQL does not notice yet: the row stays locked,
\* and if COMMIT was on its way it may still take effect.
Vanish(r) ==
  /\ LingeringLocks
  /\ holding[r] # 0
  /\ orphans' = orphans \cup {holding[r]}
  /\ \/ pc[r] = "commit" /\ committing' = committing \cup {holding[r]}
     \/ UNCHANGED committing
  /\ Stop(r)
  /\ UNCHANGED <<outbox, marked, channel>>

EndOrphan(n) ==
  /\ n \in orphans
  /\ orphans' = orphans \ {n}
  /\ committing' = committing \ {n}
  /\ marked' = IF n \in committing THEN marked \cup {n} ELSE marked
  /\ UNCHANGED <<outbox, channel, pc, holding, failures>>

Restart(r) ==
  /\ pc[r] = "down"
  /\ RestartAfterRelease => orphans = {}
  /\ pc' = [pc EXCEPT ![r] = "select"]
  /\ UNCHANGED <<outbox, marked, channel, holding, orphans, committing, failures>>

Run(r) == Select(r) \/ Poll(r) \/ Publish(r) \/ Mark(r) \/ Commit(r)

Next ==
  \/ \E a \in Auctions : WriteEvent(a)
  \/ \E n \in 1..MaxRows : EndWrite(n) \/ EndOrphan(n)
  \/ \E r \in Relays : Run(r) \/ Fail(r) \/ Vanish(r) \/ Restart(r)

Spec == Init /\ [][Next]_vars

\* A running relay goes on (its poll timer fires), a stopped one is started
\* again, and an orphaned transaction ends.
Fairness ==
  /\ \A r \in Relays : WF_vars(Run(r)) /\ WF_vars(Restart(r))
  /\ \A n \in 1..MaxRows : WF_vars(EndOrphan(n))

FairSpec == Spec /\ Fairness

----------------------------------------------------------------------------
Published == {channel[k] : k \in DOMAIN channel}

\* Only bids whose transaction committed are announced, and a row is marked
\* only if it was announced: a crash at any point repeats an announcement,
\* and never skips one (outbox.go:42-53).
AnnouncedAndMarked ==
  /\ \A n \in Published : outbox[n].fate = "committed"
  /\ marked \subseteq Published

\* A row is announced again only because a relay failed: each failure accounts
\* for at most one repetition, however many relays run (SKIP LOCKED,
\* outbox.go:94-111).
RepeatedOnlyByFailure ==
  Len(channel) - Cardinality(Published) =< failures

\* The place at which a row was first announced.
FirstAt(n) == CHOOSE k \in DOMAIN channel :
                channel[k] = n /\ \A j \in 1..(k - 1) : channel[j] # n

\* The earlier bids of n's auction that were not announced when n was.
Passed(n) ==
  {m \in RowsOf(outbox[n].auction) :
     /\ m < n
     /\ outbox[m].fate = "committed"
     /\ m \in Published => FirstAt(n) < FirstAt(m)}

\* SKIP LOCKED passes over a bid only while somebody else has its row locked:
\* a bid is announced ahead of at most as many bids of its auction as there are
\* other relays, and connections of dead ones (outbox.go:105-111).
PassesOnlyLockedRows ==
  \A n \in Published :
    Cardinality(Passed(n)) =<
      Cardinality(Relays) - 1 + (IF LingeringLocks THEN failures ELSE 0)

\* A single relay whose lost connections PostgreSQL notices announces the bids
\* of an auction in sequence order, although transactions of other auctions
\* commit in between in any order (outbox.go:106-108, migration 6:13-14).
FirstAnnouncedInSequence ==
  \A m, n \in Published :
    /\ outbox[m].auction = outbox[n].auction
    /\ outbox[m].sequence < outbox[n].sequence
    => FirstAt(m) < FirstAt(n)

\* Publication is at-least-once (outbox.go:53): every committed event is
\* announced and marked in the end, through crashes and lingering locks.
EveryEventAnnounced ==
  \A n \in 1..MaxRows :
    (n \in DOMAIN outbox /\ outbox[n].fate = "committed") ~> (n \in marked)
============================================================================
