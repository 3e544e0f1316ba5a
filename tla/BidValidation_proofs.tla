------------------------ MODULE BidValidation_proofs ------------------------
(***************************************************************************)
(* EvaluateBid decides as it would in unbounded integers, for every width  *)
(* of the machine's integers and any times and states.                     *)
(***************************************************************************)
EXTENDS BidValidation, WellFoundedInduction, TLAPS

LEMMA SmallRemainder ==
  ASSUME NEW m \in Nat \ {0}, NEW n \in 0..(m - 1)
  PROVE  n % m = n
<1>1. n = m * (n \div m) + (n % m) /\ n % m \in 0..(m - 1) /\ n \div m \in Int
  OBVIOUS
<1>2. QED
  BY <1>1

LEMMA WrapKeeps == ASSUME NEW n \in Int64 PROVE Wrap(n) = n
<1>1. MaxInt \in Nat \ {0}
  BY MaxIntAssumption
<1>2. n + MaxInt + 1 \in 0..((2 * MaxInt + 2) - 1)
  BY <1>1 DEF Int64
<1>3. (n + MaxInt + 1) % (2 * MaxInt + 2) = n + MaxInt + 1
  BY <1>1, <1>2, SmallRemainder
<1>4. QED
  BY <1>1, <1>3 DEF Wrap, Int64

\* The amounts of a snapshot that the evaluation gets as far as adding.
Sane(s) == s.price >= 0 /\ s.increment > 0

LEMMA PriceCheck ==
  ASSUME NEW s \in Snapshot, Sane(s)
  PROVE  /\ PriceOverflows(s) <=> s.price + s.increment > MaxInt
         /\ ~ PriceOverflows(s) => /\ Minimum(s) = s.price + s.increment
                                   /\ Minimum(s) \in 0..MaxInt
<1>1. MaxInt \in Nat \ {0} /\ s.price \in Int64 /\ s.increment \in Int64
  BY MaxIntAssumption DEF Snapshot
<1>2. s.price \in 0..MaxInt /\ s.increment \in 1..MaxInt
  BY <1>1 DEF Sane, Int64
<1>3. MaxInt - s.increment \in Int64
  BY <1>1, <1>2 DEF Int64
<1>4. Wrap(MaxInt - s.increment) = MaxInt - s.increment
  BY <1>3, WrapKeeps
<1>5. PriceOverflows(s) <=> s.price > MaxInt - s.increment
  BY <1>4 DEF PriceOverflows
<1>6. ASSUME s.price + s.increment =< MaxInt
      PROVE  Minimum(s) = s.price + s.increment /\ Minimum(s) \in 0..MaxInt
  <2>1. s.price + s.increment \in Int64
    BY <1>1, <1>2, <1>6 DEF Int64
  <2>2. QED
    BY <1>1, <1>2, <1>6, <2>1, WrapKeeps DEF Minimum
<1>7. QED
  BY <1>1, <1>2, <1>5, <1>6

\* A set of numbers that is not empty has a least element.
LEMMA LeastElement ==
  ASSUME NEW S, S \subseteq Nat, S # {}
  PROVE  \E i \in S : \A j \in S : i =< j
<1>1. PICK i \in S : \A j \in S : <<j, i>> \notin OpToRel(<, Nat)
  BY NatLessThanWellFounded, WFMin, Zenon
<1>2. ASSUME NEW j \in S PROVE i =< j
  <2>1. <<j, i>> \in Nat \X Nat
    OBVIOUS
  <2>2. ~ (<<j, i>>[1] < <<j, i>>[2])
    BY <1>1, <2>1 DEF OpToRel
  <2>3. QED
    BY <2>2
<1>3. QED
  BY <1>2

\* The first condition that refuses the bid is the one that is reported.
FirstRefused(r) == CHOOSE k \in DOMAIN r : r[k] /\ \A j \in 1..(k - 1) : ~ r[j]

LEMMA FirstExists ==
  ASSUME NEW r, DOMAIN r = 1..14, NEW i \in 1..14, r[i]
  PROVE  /\ FirstRefused(r) \in 1..14
         /\ r[FirstRefused(r)]
         /\ \A j \in 1..(FirstRefused(r) - 1) : ~ r[j]
<1> DEFINE S == {k \in 1..14 : r[k]}
<1>1. PICK k \in S : \A j \in S : k =< j
  <2>1. S \subseteq Nat /\ S # {}
    OBVIOUS
  <2> HIDE DEF S
  <2>2. QED
    BY <2>1, LeastElement
<1>2. k \in DOMAIN r /\ r[k] /\ \A j \in 1..(k - 1) : ~ r[j]
  <2>1. ASSUME NEW j \in 1..(k - 1) PROVE ~ r[j]
    <3>1. j \in 1..14 /\ j < k
      BY <1>1
    <3>2. QED
      BY <1>1, <3>1
  <2>2. QED
    BY <1>1, <2>1
<1>3. QED
  BY <1>2 DEF FirstRefused

LEMMA Order ==
  ASSUME NEW a, NEW s
  PROVE  /\ DOMAIN Refused(a, s) = 1..14 /\ DOMAIN Reasons = 1..14
         /\ (\A k \in 1..14 : ~ Refused(a, s)[k]) <=>
              /\ a.missing \notin {"auction", "bidder", "key"}
              /\ ~ (a.amount <= 0)
              /\ a.submittedAt # 0 /\ s.exists /\ s.close # 0
              /\ s.state = "OPEN" /\ s.registered /\ ~ Late(a, s)
              /\ ~ (s.price < 0) /\ ~ (s.increment <= 0)
              /\ ~ PriceOverflows(s) /\ ~ (a.amount < Minimum(s))
         /\ Refused(a, s)[11] <=> s.price < 0
         /\ Refused(a, s)[12] <=> s.increment <= 0
         /\ Refused(a, s)[13] <=> PriceOverflows(s)
         /\ \A k \in 1..14 : Reasons[k] # Accepted /\ Reasons[k] # "none"
         /\ \A k \in 1..14 : Reasons[k] = "bid_below_minimum" => k = 14
<1>0. \A k \in 1..14 : \/ k = 1 \/ k = 2 \/ k = 3 \/ k = 4 \/ k = 5 \/ k = 6 \/ k = 7
                        \/ k = 8 \/ k = 9 \/ k = 10 \/ k = 11 \/ k = 12 \/ k = 13 \/ k = 14
  OBVIOUS
<1>1. DOMAIN Refused(a, s) = 1..14 /\ DOMAIN Reasons = 1..14
  BY DEF Refused, Reasons
<1>2. /\ Refused(a, s)[11] <=> s.price < 0
      /\ Refused(a, s)[12] <=> s.increment <= 0
      /\ Refused(a, s)[13] <=> PriceOverflows(s)
  BY DEF Refused
<1>3. /\ \A k \in 1..14 : Reasons[k] # Accepted /\ Reasons[k] # "none"
      /\ \A k \in 1..14 : Reasons[k] = "bid_below_minimum" => k = 14
  <2>1. /\ Reasons[1] = "auction_id_required" /\ Reasons[2] = "bidder_id_required"
        /\ Reasons[3] = "idempotency_key_required" /\ Reasons[4] = "invalid_amount"
        /\ Reasons[5] = "submitted_at_required" /\ Reasons[6] = "auction_not_found"
        /\ Reasons[7] = "effective_close_time_required" /\ Reasons[8] = "auction_not_open"
        /\ Reasons[9] = "bidder_not_registered" /\ Reasons[10] = "bid_at_or_after_close"
        /\ Reasons[11] = "invalid_current_price" /\ Reasons[12] = "invalid_increment"
        /\ Reasons[13] = "pricing_overflow" /\ Reasons[14] = "bid_below_minimum"
    BY DEF Reasons
  <2>2. QED
    BY <1>0, <2>1 DEF Accepted
<1>4. ASSUME \A k \in 1..14 : ~ Refused(a, s)[k]
      PROVE  /\ a.missing \notin {"auction", "bidder", "key"}
             /\ ~ (a.amount <= 0)
             /\ a.submittedAt # 0 /\ s.exists /\ s.close # 0
             /\ s.state = "OPEN" /\ s.registered /\ ~ Late(a, s)
             /\ ~ (s.price < 0) /\ ~ (s.increment <= 0)
             /\ ~ PriceOverflows(s) /\ ~ (a.amount < Minimum(s))
  <2>1. /\ ~ Refused(a, s)[1] /\ ~ Refused(a, s)[2] /\ ~ Refused(a, s)[3]
        /\ ~ Refused(a, s)[4] /\ ~ Refused(a, s)[5] /\ ~ Refused(a, s)[6]
        /\ ~ Refused(a, s)[7] /\ ~ Refused(a, s)[8] /\ ~ Refused(a, s)[9]
        /\ ~ Refused(a, s)[10] /\ ~ Refused(a, s)[11] /\ ~ Refused(a, s)[12]
        /\ ~ Refused(a, s)[13] /\ ~ Refused(a, s)[14]
    BY <1>4
  <2>2. QED
    BY <2>1 DEF Refused
<1>5. ASSUME /\ a.missing \notin {"auction", "bidder", "key"}
             /\ ~ (a.amount <= 0)
             /\ a.submittedAt # 0 /\ s.exists /\ s.close # 0
             /\ s.state = "OPEN" /\ s.registered /\ ~ Late(a, s)
             /\ ~ (s.price < 0) /\ ~ (s.increment <= 0)
             /\ ~ PriceOverflows(s) /\ ~ (a.amount < Minimum(s))
      PROVE  \A k \in 1..14 : ~ Refused(a, s)[k]
  <2>1. /\ ~ Refused(a, s)[1] /\ ~ Refused(a, s)[2] /\ ~ Refused(a, s)[3]
        /\ ~ Refused(a, s)[4] /\ ~ Refused(a, s)[5] /\ ~ Refused(a, s)[6]
        /\ ~ Refused(a, s)[7] /\ ~ Refused(a, s)[8] /\ ~ Refused(a, s)[9]
        /\ ~ Refused(a, s)[10] /\ ~ Refused(a, s)[11] /\ ~ Refused(a, s)[12]
        /\ ~ Refused(a, s)[13] /\ ~ Refused(a, s)[14]
    BY <1>5 DEF Refused
  <2>2. QED
    BY <1>0, <2>1
<1>6. QED
  BY <1>1, <1>2, <1>3, <1>4, <1>5

\* What EvaluateBid returns, in unbounded integers.
LEMMA Evaluation ==
  ASSUME NEW a \in Attempt, NEW s \in Snapshot
  PROVE  /\ EvaluateBid(a, s) \in Result
         /\ EvaluateBid(a, s).reason # "none"
         /\ EvaluateBid(a, s).reason = Accepted <=> Valid(a, s)
         /\ EvaluateBid(a, s).reason \in {Accepted, "bid_below_minimum"} =>
              EvaluateBid(a, s).minimum = s.price + s.increment
<1> DEFINE r == Refused(a, s)
<1>1. /\ MaxInt \in Nat \ {0} /\ s.price \in Int /\ s.increment \in Int /\ a.amount \in Int
      /\ a.submittedAt \in Nat /\ s.close \in Nat
      /\ a.missing \in {"nothing", "auction", "bidder", "key"}
  <2>1. MaxInt \in Nat \ {0} /\ Int64 \subseteq Int /\ Times \subseteq Nat
    BY MaxIntAssumption, TimesAssumption DEF Int64
  <2>2. s.price \in Int64 /\ s.increment \in Int64 /\ s.close \in Times
    BY DEF Snapshot
  <2>3. /\ a.amount \in Int64 /\ a.submittedAt \in Times
        /\ a.missing \in {"nothing", "auction", "bidder", "key"}
    BY DEF Attempt
  <2>4. QED
    BY <2>1, <2>2, <2>3
<1>2. (\A k \in 1..14 : ~ r[k]) <=> Valid(a, s)
  BY <1>1, Order, PriceCheck DEF Sane, Valid, Late
<1>3. CASE \A k \in 1..14 : ~ r[k]
  <2>1. EvaluateBid(a, s) = [reason |-> Accepted, minimum |-> Minimum(s)]
    BY <1>3, Order DEF EvaluateBid
  <2>2. Sane(s) /\ ~ PriceOverflows(s)
    BY <1>1, <1>3, Order DEF Sane
  <2>3. Minimum(s) = s.price + s.increment /\ Minimum(s) \in 0..MaxInt
    BY <2>2, PriceCheck
  <2>4. QED
    BY <1>2, <1>3, <2>1, <2>3 DEF Result, Accepted
<1>4. CASE \E k \in 1..14 : r[k]
  <2>1. PICK k \in 1..14 : k = FirstRefused(r) /\ r[k] /\ \A j \in 1..(k - 1) : ~ r[j]
    BY <1>4, FirstExists, Order
  <2>2. EvaluateBid(a, s) =
          [reason  |-> Reasons[k],
           minimum |-> IF Reasons[k] = "bid_below_minimum" THEN Minimum(s) ELSE 0]
    BY <1>4, <2>1, Order DEF EvaluateBid, FirstRefused
  <2>3. ASSUME Reasons[k] = "bid_below_minimum"
        PROVE  Minimum(s) = s.price + s.increment /\ Minimum(s) \in 0..MaxInt
    <3>1. k = 14
      BY <2>3, Order
    <3>2. ~ r[11] /\ ~ r[12] /\ ~ r[13]
      BY <2>1, <3>1
    <3>3. Sane(s) /\ ~ PriceOverflows(s)
      BY <1>1, <3>2, Order DEF Sane
    <3>4. QED
      BY <3>3, PriceCheck
  <2>4. Reasons[k] # Accepted /\ Reasons[k] # "none" /\ k \in DOMAIN Reasons
    BY Order
  <2>5. ~ Valid(a, s)
    BY <1>2, <1>4
  <2>6. QED
    BY <1>1, <2>2, <2>3, <2>4, <2>5 DEF Result
<1>5. QED
  BY <1>3, <1>4

----------------------------------------------------------------------------
\* The result belongs to the attempt and the snapshot that are still there.
Evaluated ==
  /\ TypeOK
  /\ AcceptedIffValid
  /\ MinimumIsTrue
  /\ result.reason = "none" => result = NoResult

LEMMA EvaluatedInvariant == Spec => []Evaluated
<1>1. Init => Evaluated
  <2> SUFFICES ASSUME Init PROVE Evaluated
    OBVIOUS
  <2>1. MaxInt \in Nat \ {0} /\ 0 \in Int64 /\ 0 \in 0..MaxInt /\ 0 \in Times /\ "OPEN" \in States
    BY MaxIntAssumption, TimesAssumption, StatesAssumption DEF Int64
  <2>2. attempt \in Attempt
    BY <2>1 DEF Init, NoAttempt, Attempt
  <2>3. snapshot \in Snapshot
    BY <2>1 DEF Init, Snapshot
  <2>4. result \in Result /\ result = NoResult /\ result.reason = "none"
    BY <2>1 DEF Init, NoResult, Result
  <2>5. QED
    BY <2>2, <2>3, <2>4 DEF Evaluated, TypeOK, AcceptedIffValid, MinimumIsTrue, Accepted
<1>2. Evaluated /\ Evaluate => Evaluated'
  <2> SUFFICES ASSUME Evaluated, Evaluate PROVE Evaluated'
    OBVIOUS
  <2>1. attempt' \in Attempt /\ result' = EvaluateBid(attempt', snapshot')
    BY DEF Evaluate
  <2>2. snapshot' \in Snapshot
    BY DEF Evaluate, Evaluated, TypeOK, Snapshot
  <2>3. PICK a \in Attempt : a = attempt'
    BY <2>1
  <2>4. PICK s \in Snapshot : s = snapshot'
    BY <2>2
  <2>5. /\ result' \in Result
        /\ result'.reason # "none"
        /\ result'.reason = Accepted <=> Valid(a, s)
        /\ result'.reason \in {Accepted, "bid_below_minimum"} =>
             result'.minimum = s.price + s.increment
    BY <2>1, <2>3, <2>4, Evaluation
  <2>6. Valid(a, s) = Valid(attempt, snapshot)'
    BY <2>3, <2>4 DEF Valid
  <2>7. QED
    BY <2>1, <2>2, <2>3, <2>4, <2>5, <2>6 DEF Evaluated, TypeOK, AcceptedIffValid, MinimumIsTrue
<1>3. Evaluated /\ NextSnapshot => Evaluated'
  <2> SUFFICES ASSUME Evaluated, NextSnapshot PROVE Evaluated'
    OBVIOUS
  <2>1. MaxInt \in Nat \ {0} /\ 0 \in Int64 /\ 0 \in 0..MaxInt /\ 0 \in Times
    BY MaxIntAssumption, TimesAssumption DEF Int64
  <2>2. attempt' \in Attempt
    BY <2>1 DEF NextSnapshot, NoAttempt, Attempt
  <2>3. attempt.amount \in Int64 /\ snapshot.price \in Int64
    BY DEF Evaluated, TypeOK, Attempt, Snapshot
  <2>4. snapshot' \in Snapshot
    BY <2>3 DEF NextSnapshot, Evaluated, TypeOK, Snapshot
  <2>5. result' \in Result /\ result' = NoResult /\ result'.reason = "none"
    BY <2>1 DEF NextSnapshot, NoResult, Result
  <2>6. QED
    BY <2>2, <2>4, <2>5 DEF Evaluated, TypeOK, AcceptedIffValid, MinimumIsTrue, Accepted
<1>4. Evaluated /\ UNCHANGED vars => Evaluated'
  BY DEF Evaluated, TypeOK, AcceptedIffValid, MinimumIsTrue, Valid, vars
<1>5. QED
  BY <1>1, <1>2, <1>3, <1>4, PTL DEF Spec, Next

\* Whatever is evaluated, the attempt, the snapshot and the result have their
\* types; in particular a minimum is never a negative number (bid_validation.go:100-104).
THEOREM ValidationTypes == Spec => []TypeOK
  BY EvaluatedInvariant, PTL DEF Evaluated

\* A bid is accepted exactly when it is valid in unbounded integers, whatever
\* the width of the machine's (bid_validation.go:192-307).
THEOREM AcceptsValidBids == Spec => []AcceptedIffValid
  BY EvaluatedInvariant, PTL DEF Evaluated

\* The minimum a bidder is told is price + increment without wrap-around
\* (bid_validation.go:282-301).
THEOREM QuotesTrueMinimum == Spec => []MinimumIsTrue
  BY EvaluatedInvariant, PTL DEF Evaluated

\* Over a whole auction the price rises by at least the increment or stays: no
\* sequence of amounts makes it wrap around (I6, bid_validation.go:290-301).
THEOREM PriceClimbs == Spec => PriceNeverFalls
<1>1. Evaluated /\ [Next]_vars =>
        [snapshot'.price # snapshot.price =>
           snapshot.increment > 0 /\ snapshot'.price >= snapshot.price + snapshot.increment]_vars
  <2> SUFFICES ASSUME Evaluated, Next, snapshot'.price # snapshot.price
               PROVE  /\ snapshot.increment > 0
                      /\ snapshot'.price >= snapshot.price + snapshot.increment
    BY DEF vars
  <2>1. snapshot \in Snapshot
    BY DEF Evaluated, TypeOK
  <2>2. NextSnapshot
    BY <2>1 DEF Next, Evaluate, Snapshot
  <2>3. result.reason = Accepted /\ snapshot'.price = attempt.amount
    BY <2>1, <2>2 DEF NextSnapshot, Snapshot
  <2>4. Valid(attempt, snapshot)
    BY <2>3 DEF Evaluated, AcceptedIffValid, Accepted
  <2>5. QED
    BY <2>3, <2>4 DEF Valid
<1>2. QED
  BY <1>1, EvaluatedInvariant, PTL DEF Spec, PriceNeverFalls
=============================================================================
