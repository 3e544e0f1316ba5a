--------------------------- MODULE NativeSequence ---------------------------
(***************************************************************************)
(* The benchmark's way to number the bids of one auction (ledger.go): a    *)
(* PostgreSQL sequence per auction.  nextval is not undone by a rollback,  *)
(* so that numbers are lost; and the sequence knows nothing of             *)
(* auction_sequences, the counter of the engine's own append functions.    *)
(*                                                                         *)
(* One call of an engine's append function is the single step              *)
(* CounterAppend here: LedgerTransaction shows what such a call amounts    *)
(* to.  Where it or insertBid meets an uncommitted row of another          *)
(* transaction with its number or its key, it waits; where it meets a      *)
(* committed one it fails.  PostgreSQL itself does not crash here (its     *)
(* recovery may skip up to 32 further numbers).                            *)
(***************************************************************************)
EXTENDS Integers, FiniteSets

CONSTANTS
  Sessions, Keys,
  MaxNumber        \* bound on the numbers the sequence and the counter reach

ASSUME MaxNumberAssumption == MaxNumber \in Nat

VARIABLES
  bids,        \* the committed rows, with the path that wrote each
  last_seq,    \* the counter in auction_sequences
  sequence,    \* the native sequence: does it exist, may the engine use it, last value
  ensuring,    \* is an EnsurePostgresSequence between its two statements
  call,        \* per session: its call of AppendBidPostgresSequence
  told,        \* what callers of either path were told: this key has this number
  lost         \* calls that had drawn from the present sequence and rolled back

vars == <<bids, last_seq, sequence, ensuring, call, told, lost>>

Rows == [number : Nat, key : Keys, path : {"counter", "native"}]
Replies == [number : Nat, key : Keys]

\* A call is at the statement that "next" names; it has a number from nextval on.
Idle == [next |-> "begin"]
Calls == [next : {"nextval", "insert", "commit"}, key : Keys, number : Nat]

TypeOK ==
  /\ bids \in SUBSET Rows
  /\ last_seq \in Nat
  /\ sequence \in [exists : BOOLEAN, granted : BOOLEAN, last : Nat]
  /\ ensuring \in BOOLEAN
  /\ call \in [Sessions -> Calls \cup {Idle}]
  /\ told \in SUBSET Replies
  /\ lost \in Nat

\* START WITH 1 (a fault of this code is named Fault..., see below).
FaultStartAtZero == [exists |-> FALSE, granted |-> FALSE, last |-> -1]
NoSequence == [exists |-> FALSE, granted |-> FALSE, last |-> 0]

Init ==
  /\ bids = {}
  /\ last_seq = 0
  /\ sequence = NoSequence
  /\ ensuring = FALSE
  /\ call = [s \in Sessions |-> Idle]
  /\ told = {}
  /\ lost = 0

----------------------------------------------------------------------------
\* Definitions named Fault... are defects this code could have had; no run of
\* the project uses them as they stand, they show what each property rules out.

\* The sessions whose transaction has called nextval, and those that have a row.
Drawing == {s \in Sessions : call[s].next \in {"insert", "commit"}}
Inserted == {s \in Sessions : call[s].next = "commit"}

\* What the unique constraints of bids set against a row of number n and key k.
FaultOnlyKeys(R, n, k) == {r \in R : r.key = k}
Conflicts(R, n, k) == {r \in R : r.number = n \/ r.key = k}

MustWait(n, k) == Conflicts({call[s] : s \in Inserted}, n, k) # {}

EndCall(s) == call' = [call EXCEPT ![s] = Idle]

----------------------------------------------------------------------------
\* EnsurePostgresSequence: CREATE SEQUENCE IF NOT EXISTS and GRANT commit one
\* by one, and the caller may fail in between.
Create ==
  /\ sequence' = IF sequence.exists THEN sequence ELSE [NoSequence EXCEPT !.exists = TRUE]
  /\ lost' = IF sequence.exists THEN lost ELSE 0
  /\ ensuring' = TRUE
  /\ UNCHANGED <<bids, last_seq, call, told>>

\* GRANT fails if somebody dropped the sequence meanwhile.
Grant ==
  /\ ensuring
  /\ sequence' = [sequence EXCEPT !.granted = sequence.exists]
  /\ ensuring' = FALSE
  /\ UNCHANGED <<bids, last_seq, call, told, lost>>

AbandonEnsure ==
  /\ ensuring
  /\ ensuring' = FALSE
  /\ UNCHANGED <<bids, last_seq, sequence, call, told, lost>>

\* DROP SEQUENCE IF EXISTS waits for the transactions that called nextval.
MayDrop == Drawing = {}

Drop ==
  /\ sequence.exists
  /\ MayDrop
  /\ sequence' = NoSequence
  /\ UNCHANGED <<bids, last_seq, ensuring, call, told, lost>>

----------------------------------------------------------------------------
\* AppendBidPostgresSequence.
Begin(s) ==
  /\ call[s] = Idle
  /\ \E k \in Keys : call' = [call EXCEPT ![s] = [next |-> "nextval", key |-> k, number |-> 0]]
  /\ UNCHANGED <<bids, last_seq, sequence, ensuring, told, lost>>

FaultCached == sequence.last + 2
NextValue == sequence.last + 1

NextVal(s) ==
  /\ call[s].next = "nextval"
  /\ sequence.exists
  /\ sequence.granted
  /\ NextValue =< MaxNumber
  /\ sequence' = [sequence EXCEPT !.last = NextValue]
  /\ call' = [call EXCEPT ![s].next = "insert", ![s].number = NextValue]
  /\ UNCHANGED <<bids, last_seq, ensuring, told, lost>>

\* insertBid succeeds.
Insert(s) ==
  /\ call[s].next = "insert"
  /\ ~ MustWait(call[s].number, call[s].key)
  /\ Conflicts(bids, call[s].number, call[s].key) = {}
  /\ call' = [call EXCEPT ![s].next = "commit"]
  /\ UNCHANGED <<bids, last_seq, sequence, ensuring, told, lost>>

\* The number that the caller is given.
FaultCurrentValue(s) == sequence.last
ReplyOf(s) == call[s].number

\* COMMIT takes effect, and its reply arrives or not.
Commit(s) ==
  /\ call[s].next = "commit"
  /\ bids' = bids \cup {[number |-> call[s].number, key |-> call[s].key, path |-> "native"]}
  /\ \/ told' = told \cup {[number |-> ReplyOf(s), key |-> call[s].key]}
     \/ UNCHANGED told
  /\ EndCall(s)
  /\ UNCHANGED <<last_seq, sequence, ensuring, lost>>

\* Any statement may fail: there is no sequence or no right to use it, the row
\* conflicts with a committed one, the connection is lost, COMMIT does not take
\* effect.  The rollback gives no number back.
LostWith(s) == IF s \in Drawing THEN lost + 1 ELSE lost

Rollback(s) ==
  /\ call[s] # Idle
  /\ lost' = LostWith(s)
  /\ EndCall(s)
  /\ UNCHANGED <<bids, last_seq, sequence, ensuring, told>>

----------------------------------------------------------------------------
\* A call of the engine's append functions: a key that has a row is a duplicate
\* and is told its number at once; otherwise the number after last_seq must be
\* free, once the transactions that have it or the key have ended.
CounterAppend(k) ==
  /\ \/ /\ last_seq < MaxNumber
        /\ ~ MustWait(last_seq + 1, k)
        /\ Conflicts(bids, last_seq + 1, k) = {}
        /\ bids' = bids \cup {[number |-> last_seq + 1, key |-> k, path |-> "counter"]}
        /\ last_seq' = last_seq + 1
        /\ told' = told \cup {[number |-> last_seq + 1, key |-> k]}
     \/ /\ \E r \in bids : r.key = k /\ told' = told \cup {[number |-> r.number, key |-> k]}
        /\ UNCHANGED <<bids, last_seq>>
  /\ UNCHANGED <<sequence, ensuring, call, lost>>

Next ==
  \/ Create \/ Grant \/ AbandonEnsure \/ Drop
  \/ \E s \in Sessions : Begin(s) \/ NextVal(s) \/ Insert(s) \/ Commit(s) \/ Rollback(s)
  \/ \E k \in Keys : CounterAppend(k)

Spec == Init /\ [][Next]_vars

----------------------------------------------------------------------------
\* Unlike the counter's numbers those of a sequence have gaps, but each gap is
\* the price of a call that rolled back, or of one that is still open: a
\* successful call loses no number, however the calls overlap, and dropping the
\* sequence and creating it anew does not lose the account (ledger.go:247-375).
GapsArePaid ==
  LET missing == {n \in 1..sequence.last : \A r \in bids : r.number # n}
  IN  Cardinality(missing) =< lost + Cardinality(Drawing)

\* What a caller of either path was told stays true: its bid is the one row of
\* that key and the one row of that number, although a lost reply makes callers
\* retry and a recreated sequence begins again at 1 (ledger.go:340-349).
RepliesAreTrue ==
  \A t \in told : \E r \in bids : r.key = t.key /\ Conflicts(bids, t.number, t.key) = {r}

\* Why the paths must not be mixed: the counter's rows are 1..last_seq, and a
\* row of the native path always lies above last_seq.  One native row at
\* last_seq + 1 therefore ends the counter's path on this auction for good
\* (ledger.go:128-222 against 298-350).
CounterBelowNative ==
  /\ {r.number : r \in {r \in bids : r.path = "counter"}} = 1..last_seq
  /\ \A r \in bids : r.path = "native" => r.number > last_seq
============================================================================
