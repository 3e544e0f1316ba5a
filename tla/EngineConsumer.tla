--------------------------- MODULE EngineConsumer ---------------------------
(***************************************************************************)
(* Consumer.Run (consumer.go), the consumer that cmd/engine starts: it     *)
(* reads new entries, logs each one and acknowledges it.  It has no ledger *)
(* store and never claims what a dead consumer left pending.  Entries are  *)
(* stream positions; nothing of their content matters here.                *)
(***************************************************************************)
EXTENDS Integers, Sequences

CONSTANTS
  Consumers, BatchSize,
  MaxEntries,    \* bound on the length of the stream
  MaxFailures    \* bound on process deaths and failed calls

ASSUME BatchAssumption == BatchSize \in Nat \ {0}
ASSUME BoundsAssumption == MaxEntries \in Nat /\ MaxFailures \in Nat

VARIABLES
  length,      \* entries in the stream
  delivered,   \* last-delivered-id of the consumer group
  pending,     \* the group's pending entries list
  logged,      \* the entries in the order of the log lines
  pc, batch,   \* per consumer: next step, entries left of the batch read
  failures

vars == <<length, delivered, pending, logged, pc, batch, failures>>

TypeOK ==
  /\ length \in 0..MaxEntries
  /\ delivered \in 0..length
  /\ pending \in SUBSET (1..delivered)
  /\ logged \in Seq(1..delivered)
  /\ pc \in [Consumers -> {"down", "read", "log", "ack"}]
  /\ batch \in [Consumers -> Seq(1..delivered)]
  /\ failures \in 0..MaxFailures

Init ==
  /\ length = 0
  /\ delivered = 0
  /\ pending = {}
  /\ logged = <<>>
  /\ pc = [c \in Consumers |-> "down"]
  /\ batch = [c \in Consumers |-> <<>>]
  /\ failures = 0

----------------------------------------------------------------------------
Reserve ==
  /\ length < MaxEntries
  /\ length' = length + 1
  /\ UNCHANGED <<delivered, pending, logged, pc, batch, failures>>

\* Definitions named Fault... are defects this code could have had; no run of
\* the project uses them as they stand, they show what each property rules out.

\* The entries that XREADGROUP with ">" returns, up to COUNT of them.
FaultOneMore(last) == [k \in 1..(last - delivered) |-> delivered + k + 1]
FaultReread(last) == [k \in 1..last |-> k]
Fresh(last) == [k \in 1..(last - delivered) |-> delivered + k]

ReadGroup(c) ==
  /\ pc[c] = "read"
  /\ LET last == IF length < delivered + BatchSize THEN length ELSE delivered + BatchSize
     IN  /\ delivered' = last
         /\ pending' = pending \cup (delivered + 1)..last
         /\ batch' = [batch EXCEPT ![c] = Fresh(last)]
         /\ pc' = [pc EXCEPT ![c] = IF Fresh(last) = <<>> THEN "read" ELSE "log"]
  /\ UNCHANGED <<length, logged, failures>>

Log(c) ==
  /\ pc[c] = "log"
  /\ logged' = Append(logged, Head(batch[c]))
  /\ pc' = [pc EXCEPT ![c] = "ack"]
  /\ UNCHANGED <<length, delivered, pending, batch, failures>>

\* The entries that one XACK names.
FaultAckUpTo(c) == 1..Head(batch[c])
Acked(c) == {Head(batch[c])}

Ack(c) ==
  /\ pc[c] = "ack"
  /\ pending' = pending \ Acked(c)
  /\ batch' = [batch EXCEPT ![c] = Tail(@)]
  /\ pc' = [pc EXCEPT ![c] = IF Tail(batch[c]) = <<>> THEN "read" ELSE "log"]
  /\ UNCHANGED <<length, delivered, logged, failures>>

\* The process dies, or a call fails and Run returns the error.
Fail(c) ==
  /\ failures < MaxFailures
  /\ pc[c] # "down"
  /\ failures' = failures + 1
  /\ pc' = [pc EXCEPT ![c] = "down"]
  /\ batch' = [batch EXCEPT ![c] = <<>>]
  /\ UNCHANGED <<length, delivered, pending, logged>>

Restart(c) ==
  /\ pc[c] = "down"
  /\ pc' = [pc EXCEPT ![c] = "read"]
  /\ UNCHANGED <<length, delivered, pending, logged, batch, failures>>

Next ==
  \/ Reserve
  \/ \E c \in Consumers : ReadGroup(c) \/ Log(c) \/ Ack(c) \/ Fail(c) \/ Restart(c)

Spec == Init /\ [][Next]_vars

----------------------------------------------------------------------------
\* An entry that left the pending list was logged, whoever crashed: the log is
\* all that this consumer leaves behind (consumer.go:73-93).
AckedWasLogged ==
  \A i \in (1..delivered) \ pending : \E k \in DOMAIN logged : logged[k] = i

\* No entry is logged twice, in any interleaving of consumers and crashes
\* (XREADGROUP with ">" and no recovery, consumer.go:56-63).
LoggedOnce == \A j, k \in DOMAIN logged : logged[j] = logged[k] => j = k

InSomeBatch(i) ==
  \E c \in Consumers : \E k \in DOMAIN batch[c] : batch[c][k] = i

\* An entry whose consumer died stays in the pending list for ever: no step of
\* this program takes it up again (there is no XAUTOCLAIM in consumer.go).
StrandedForever ==
  [][\A i \in pending : ~ InSomeBatch(i) => i \in pending' /\ ~ InSomeBatch(i)']_vars
============================================================================
