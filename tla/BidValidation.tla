--------------------------- MODULE BidValidation ---------------------------
(***************************************************************************)
(* EvaluateBid (bid_validation.go): one bid against one snapshot of its    *)
(* auction, in machine integers, and the sequence of evaluations that an   *)
(* auction sees when each accepted bid sets the price of the next snapshot.*)
(*                                                                         *)
(* Identifiers are abstracted to which of them is empty, times to a value  *)
(* that is 0 when IsZero.  MaxInt is math.MaxInt64 in the code.            *)
(***************************************************************************)
EXTENDS Integers, Sequences

CONSTANTS MaxInt, Times, States

ASSUME MaxIntAssumption == MaxInt \in Nat \ {0}
ASSUME TimesAssumption == Times \subseteq Nat /\ 0 \in Times
ASSUME StatesAssumption == "OPEN" \in States

VARIABLES attempt, snapshot, result

vars == <<attempt, snapshot, result>>

Int64 == (-MaxInt - 1)..MaxInt

\* Addition and subtraction of int64 wrap around.
Wrap(n) == ((n + MaxInt + 1) % (2 * MaxInt + 2)) - MaxInt - 1

Attempt == [missing : {"nothing", "auction", "bidder", "key"}, amount : Int64, submittedAt : Times]
Snapshot == [exists : BOOLEAN, state : States, price : Int64, increment : Int64,
             registered : BOOLEAN, close : Times]

Reasons ==
  <<"auction_id_required", "bidder_id_required", "idempotency_key_required", "invalid_amount",
    "submitted_at_required", "auction_not_found", "effective_close_time_required",
    "auction_not_open", "bidder_not_registered", "bid_at_or_after_close",
    "invalid_current_price", "invalid_increment", "pricing_overflow", "bid_below_minimum">>

Accepted == "accepted"
Result == [reason : {Accepted, "none"} \cup {Reasons[k] : k \in DOMAIN Reasons},
           minimum : 0..MaxInt]

TypeOK ==
  /\ attempt \in Attempt
  /\ snapshot \in Snapshot
  /\ result \in Result

----------------------------------------------------------------------------
Minimum(s) == Wrap(s.price + s.increment)

\* Definitions named Fault... are defects this code could have had; no run of
\* the project uses them as they stand, they show what each property rules out.
FaultSumOverflow(s) == Minimum(s) > MaxInt
PriceOverflows(s) == s.price > Wrap(MaxInt - s.increment)

FaultLateAtClose(a, s) == a.submittedAt > s.close
Late(a, s) == a.submittedAt >= s.close

\* The conditions of the early returns, in their order.
Refused(a, s) ==
  <<a.missing = "auction", a.missing = "bidder", a.missing = "key", a.amount <= 0,
    a.submittedAt = 0, ~ s.exists, s.close = 0,
    s.state # "OPEN", ~ s.registered, Late(a, s),
    s.price < 0, s.increment <= 0, PriceOverflows(s), a.amount < Minimum(s)>>

EvaluateBid(a, s) ==
  LET refused == Refused(a, s)
  IN  IF \A k \in DOMAIN refused : ~ refused[k]
        THEN [reason |-> Accepted, minimum |-> Minimum(s)]
        ELSE LET first == CHOOSE k \in DOMAIN refused :
                            refused[k] /\ \A j \in 1..(k - 1) : ~ refused[j]
             IN  [reason  |-> Reasons[first],
                  minimum |-> IF Reasons[first] = "bid_below_minimum" THEN Minimum(s) ELSE 0]

NoAttempt == [missing |-> "nothing", amount |-> 0, submittedAt |-> 0]
NoResult == [reason |-> "none", minimum |-> 0]

Init ==
  /\ attempt = NoAttempt
  /\ snapshot \in [exists : {TRUE}, state : {"OPEN"}, price : Int64, increment : Int64,
                   registered : {TRUE}, close : {0}]
  /\ result = NoResult

\* A bid is evaluated against the snapshot its caller took.
Evaluate ==
  /\ result = NoResult
  /\ attempt' \in Attempt
  /\ \E exists, registered \in BOOLEAN, state \in States, close \in Times :
       snapshot' = [snapshot EXCEPT !.exists = exists, !.registered = registered,
                                    !.state = state, !.close = close]
  /\ result' = EvaluateBid(attempt', snapshot')

\* The price of the next snapshot is the amount of an accepted bid.
NextSnapshot ==
  /\ result # NoResult
  /\ snapshot' = [snapshot EXCEPT !.price =
                    IF result.reason = Accepted THEN attempt.amount ELSE snapshot.price]
  /\ attempt' = NoAttempt
  /\ result' = NoResult

Next == Evaluate \/ NextSnapshot

Spec == Init /\ [][Next]_vars

----------------------------------------------------------------------------
\* What a valid bid is, with integers that have no limit.
Valid(a, s) ==
  /\ a.missing = "nothing"
  /\ s.exists /\ s.state = "OPEN" /\ s.registered
  /\ a.submittedAt # 0 /\ a.submittedAt < s.close
  /\ s.price >= 0 /\ s.increment > 0
  /\ s.price + s.increment =< MaxInt
  /\ a.amount >= s.price + s.increment

\* A bid is accepted exactly when it is valid: no order of the checks, no
\* boundary and no overflow of price + increment lets an invalid bid through
\* or refuses a valid one (bid_validation.go:192-301).
AcceptedIffValid ==
  result.reason # "none" => (result.reason = Accepted <=> Valid(attempt, snapshot))

\* The minimum that a rejection quotes to the bidder is the true one.
MinimumIsTrue ==
  result.reason \in {Accepted, "bid_below_minimum"} =>
    result.minimum = snapshot.price + snapshot.increment

\* I6 over a whole auction: from one evaluation to the next the price stays or
\* rises by at least the increment, up to the largest integer.
PriceNeverFalls ==
  [][snapshot'.price # snapshot.price =>
       snapshot.increment > 0 /\ snapshot'.price >= snapshot.price + snapshot.increment]_vars
============================================================================
