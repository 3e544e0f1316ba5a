----------------------- MODULE LedgerConsumer_proofs -----------------------
(***************************************************************************)
(* What the consumers guarantee, for any number of them, any stream, any   *)
(* batch sizes and any failures.                                           *)
(*                                                                         *)
(* Every step that touches the ledger is one Accept, so that its laws hold *)
(* (AuctionLedger_proofs).  That an acknowledged entry is recorded needs   *)
(* one fact about the consumers: at the XACK the head of the batch is      *)
(* already recorded or rejected, whoever else took the entry meanwhile.    *)
(*                                                                         *)
(* That a single consumer makes the ledger the replay of its stream needs  *)
(* more (InSequence): the pending entries are those after some entry p,    *)
(* the batch starts with the entry after p, and the ledger is the replay   *)
(* of p entries, or of one more whose XACK is still to come.               *)
(***************************************************************************)
EXTENDS LedgerConsumer, AuctionLedger_proofs, FiniteSetTheorems, SequenceTheorems,
        WellFoundedInduction

Durable(i) == KeyInLedger(stream[i].key) \/ i \in rejected

\* The group reads what is in the stream, and nobody runs before it exists.
Delivery ==
  /\ Len(stream) =< MaxEntries
  /\ delivered =< Len(stream)
  /\ ~ group => delivered = 0 /\ \A c \in Consumers : pc[c] = "down"

\* Where a consumer is at work on an entry there is one, and it is durable when
\* XACK is next.
AtWork(c) ==
  /\ pc[c] \in {"validate", "persist", "ack"} => batch[c] # <<>>
  /\ pc[c] = "ack" => Durable(Head(batch[c]))

IInv ==
  /\ TypeOK
  /\ Laws
  /\ Delivery
  /\ \A c \in Consumers : AtWork(c)
  /\ AckedIsDurable

----------------------------------------------------------------------------
\* Finite sets of numbers: an element's rank is the number of elements below it.
Below(S, i) == {j \in S : j < i}

\* The rank of an element grows with the element.
LEMMA SmallerRank ==
  ASSUME NEW S, IsFiniteSet(S), S \subseteq Int, NEW i \in S, NEW j \in S, i < j
  PROVE  Cardinality(Below(S, i)) < Cardinality(Below(S, j))
<1>1. /\ Below(S, i) \cup {i} \in SUBSET Below(S, j)
      /\ i \notin Below(S, i)
      /\ Below(S, i) \in SUBSET S
      /\ Below(S, j) \in SUBSET S
  <2>1. i \in Int /\ j \in Int /\ \A k \in S : k \in Int
    OBVIOUS
  <2>2. \A k \in S : k < i => k < j
    BY <2>1
  <2>3. ~ (i < i)
    BY <2>1
  <2>4. QED
    BY <2>2, <2>3 DEF Below
<1>2. IsFiniteSet(Below(S, i)) /\ IsFiniteSet(Below(S, j))
  BY <1>1, FS_Subset
<1>3. Cardinality(Below(S, i) \cup {i}) = Cardinality(Below(S, i)) + 1
  BY <1>1, <1>2, FS_AddElement
<1>4. Cardinality(Below(S, i) \cup {i}) =< Cardinality(Below(S, j))
  BY <1>1, <1>2, FS_Subset
<1>5. Cardinality(Below(S, i)) \in Nat /\ Cardinality(Below(S, j)) \in Nat
  BY <1>2, FS_CardinalityType
<1>6. QED
  BY <1>3, <1>4, <1>5

LEMMA RankBound ==
  ASSUME NEW S, IsFiniteSet(S), S \subseteq Int, NEW i \in S
  PROVE  Cardinality(Below(S, i)) \in 0..(Cardinality(S) - 1)
<1>1. Below(S, i) \in SUBSET S /\ Below(S, i) # S
  BY DEF Below
<1>2. IsFiniteSet(Below(S, i)) /\ Cardinality(Below(S, i)) =< Cardinality(S)
  BY <1>1, FS_Subset
<1>3. Cardinality(Below(S, i)) # Cardinality(S)
  BY <1>1, FS_Subset
<1>4. Cardinality(Below(S, i)) \in Nat /\ Cardinality(S) \in Nat
  BY <1>2, FS_CardinalityType
<1>5. QED
  BY <1>2, <1>3, <1>4

LEMMA RankExists ==
  ASSUME NEW S, IsFiniteSet(S), S \subseteq Int, NEW k \in 1..Cardinality(S)
  PROVE  \E i \in S : Cardinality({j \in S : j < i}) = k - 1
<1> DEFINE ranks == 0..(Cardinality(S) - 1)
<1> DEFINE rank == [i \in S |-> Cardinality(Below(S, i))]
<1>1. Cardinality(S) \in Nat
  BY FS_CardinalityType
<1>2. IsFiniteSet(ranks) /\ Cardinality(ranks) = Cardinality(S)
  <2>1. 0 \in Int /\ Cardinality(S) - 1 \in Int
    BY <1>1
  <2>2. Cardinality(ranks) = IF 0 > Cardinality(S) - 1 THEN 0 ELSE Cardinality(S) - 1 - 0 + 1
    BY <2>1, FS_Interval
  <2>3. QED
    BY <1>1, <2>1, <2>2, FS_Interval
<1>3. rank \in [S -> ranks]
  BY RankBound
<1>4. ASSUME NEW i \in S, NEW j \in S, rank[i] = rank[j]
      PROVE  i = j
  <2>1. rank[i] = Cardinality(Below(S, i)) /\ rank[j] = Cardinality(Below(S, j))
    OBVIOUS
  <2>2. rank[i] \in Int /\ rank[j] \in Int
    BY <1>3, <1>1
  <2>8. /\ Cardinality(Below(S, i)) = Cardinality(Below(S, j))
        /\ Cardinality(Below(S, i)) \in Int
    BY <1>4, <2>1, <2>2
  <2>3. ~ (i < j)
    <3>1. i < j => Cardinality(Below(S, i)) < Cardinality(Below(S, j))
      BY SmallerRank
    <3>2. QED
      BY <2>8, <3>1
  <2>4. ~ (j < i)
    <3>1. j < i => Cardinality(Below(S, j)) < Cardinality(Below(S, i))
      BY SmallerRank
    <3>2. QED
      BY <2>8, <3>1
  <2>5. i \in Int /\ j \in Int
    OBVIOUS
  <2>6. QED
    BY <2>3, <2>4, <2>5
<1>5. rank \in Injection(S, ranks)
  BY <1>3, <1>4 DEF Injection, IsInjective
<1>6. rank \in Surjection(S, ranks)
  BY <1>2, <1>5, FS_Injection
<1>7. k - 1 \in ranks
  BY <1>1
<1>8. PICK i \in S : rank[i] = k - 1
  BY <1>6, <1>7 DEF Surjection
<1>9. QED
  BY <1>8 DEF Below

\* A set of numbers with bounds is finite.
LEMMA FiniteBelow ==
  ASSUME NEW S, NEW d \in Nat, S \subseteq 1..d
  PROVE  IsFiniteSet(S) /\ S \subseteq Int
<1>1. IsFiniteSet(1..d)
  BY FS_Interval
<1>2. IsFiniteSet(S)
  BY <1>1, FS_Subset
<1>3. QED
  BY <1>2

\* A set of numbers that is not empty has a least element.  Inductions below are
\* this fact about the set of the numbers for which a claim fails.
LEMMA LeastElement ==
  ASSUME NEW S, S \subseteq Nat, S # {}
  PROVE  \E i \in S : \A j \in S : i =< j
<1>1. PICK i \in S : \A j \in S : <<j, i>> \notin OpToRel(<, Nat)
  BY NatLessThanWellFounded, WFMin, Zenon
<1>2. ASSUME NEW j \in S PROVE i =< j
  <2>1. <<j, i>> \in Nat \X Nat
    OBVIOUS
  <2>2. ~ (<<j, i>>[1] < <<j, i>>[2])
    BY <1>1, <2>1 DEF OpToRel
  <2>3. QED
    BY <2>2
<1>3. QED
  BY <1>2

----------------------------------------------------------------------------
\* What a claim or a read hands to the consumer is a sequence of the entries.
LEMMA InOrderIsSequence ==
  ASSUME NEW S, NEW d \in Nat, S \subseteq 1..d
  PROVE  InOrder(S) \in Seq(S) /\ InOrder(S) \in Seq(1..d)
<1>1. IsFiniteSet(S) /\ S \subseteq Int
  BY FiniteBelow
<1>2. Cardinality(S) \in Nat
  BY <1>1, FS_CardinalityType
<1>3. ASSUME NEW k \in 1..Cardinality(S)
      PROVE  (CHOOSE i \in S : Cardinality(Before(S, i)) = k - 1) \in S
  BY <1>1, RankExists DEF Before
<1>4. InOrder(S) \in [1..Cardinality(S) -> S]
  BY <1>3 DEF InOrder
<1>5. InOrder(S) \in Seq(S)
  BY <1>2, <1>4, SeqDef
<1>6. InOrder(S) \in Seq(1..d)
  BY <1>5, SeqMonotonic
<1>7. QED
  BY <1>5, <1>6

----------------------------------------------------------------------------
\* The bid of an entry of the stream is one of this ledger's bids.
LEMMA BidOfEntry ==
  ASSUME TypeOK, Delivery, NEW i \in 1..delivered
  PROVE  /\ stream[i] \in Entry
         /\ i \in 1..Len(stream)
         /\ BidOf(i) \in Bids
         /\ BidOf(i).key = stream[i].key
<1>1. delivered \in Nat /\ Len(stream) \in Nat /\ MaxEntries \in Nat /\ stream \in Seq(Entry)
  BY BoundsAssumption DEF TypeOK
<1>2. i \in 1..Len(stream) /\ i \in 1..MaxEntries
  BY <1>1 DEF Delivery
<1>3. stream[i] \in Entry
  BY <1>1, <1>2, ElementOfSeq
<1>4. QED
  BY <1>2, <1>3, BidAssumption DEF BidOf, SubmittedAt, Entry

\* A key that is in the ledger stays there.
LEMMA KeysStay ==
  ASSUME LedgerTypeOK, [LedgerNext]_ledgerVars, NEW k, KeyInLedger(k)
  PROVE  KeyInLedger(k)'
<1>1. PICK n \in DOMAIN ledger : ledger[n].bid.key = k
  BY DEF KeyInLedger
<1>2. CASE UNCHANGED ledgerVars
  BY <1>2, <1>1 DEF ledgerVars, KeyInLedger
<1>3. ASSUME NEW b \in Bids, Accept(b) PROVE KeyInLedger(k)'
  <2>1. /\ DOMAIN ledger = 1..Len(ledger)
        /\ DOMAIN ledger' = 1..(Len(ledger) + 1)
        /\ \A m \in 1..Len(ledger) : ledger'[m] = ledger[m]
        /\ Len(ledger) \in Nat
    BY <1>3, AcceptAppends DEF LedgerTypeOK
  <2>2. n \in DOMAIN ledger' /\ ledger'[n].bid.key = k
    BY <1>1, <2>1
  <2>3. QED
    BY <2>2 DEF KeyInLedger
<1>4. QED
  BY <1>2, <1>3 DEF LedgerNext

\* Once accepted, a bid's key is in the ledger.
LEMMA AcceptedKey ==
  ASSUME LedgerTypeOK, NEW b \in Bids, Accept(b)
  PROVE  KeyInLedger(b.key)'
<1>1. /\ DOMAIN ledger' = 1..(Len(ledger) + 1)
      /\ ledger'[Len(ledger) + 1].bid = b
      /\ Len(ledger) \in Nat
  BY AcceptAppends DEF LedgerTypeOK
<1>2. QED
  BY <1>1 DEF KeyInLedger

\* An entry that is durable stays durable: the stream keeps it, the ledger its
\* key and the emitted rejections are not taken back.
LEMMA DurableStays ==
  ASSUME LedgerTypeOK, [LedgerNext]_ledgerVars, rejected \subseteq rejected',
         NEW i, stream'[i] = stream[i], Durable(i)
  PROVE  Durable(i)'
BY KeysStay DEF Durable

----------------------------------------------------------------------------
\* A step leaves the ledger alone or is one Accept of the bid of an entry.
LEMMA StepOnLedger ==
  ASSUME IInv, Next
  PROVE  [LedgerNext]_ledgerVars
<1>1. TypeOK /\ Delivery
  BY DEF IInv
<1>2. CASE Land
  <2>1. inFlight \in 1..delivered
    BY <1>1, <1>2 DEF Land, TypeOK
  <2>2. Accept(BidOf(inFlight)) \/ UNCHANGED ledgerVars
    BY <1>2 DEF Land, ledgerVars
  <2>3. QED
    BY <1>1, <2>1, <2>2, BidOfEntry DEF LedgerNext
<1>3. ASSUME NEW c \in Consumers, Persist(c) PROVE [LedgerNext]_ledgerVars
  <2>1. batch[c] \in Seq(1..delivered) /\ batch[c] # <<>>
    BY <1>1, <1>3 DEF TypeOK, IInv, AtWork, Persist
  <2>2. Head(batch[c]) \in 1..delivered
    BY <2>1, HeadTailProperties
  <2>3. Accept(BidOf(Head(batch[c]))) \/ UNCHANGED ledgerVars
    BY <1>3 DEF Persist, ledgerVars
  <2>4. QED
    BY <1>1, <2>2, <2>3, BidOfEntry DEF LedgerNext
<1>4. CASE UNCHANGED ledgerVars
  BY <1>4
<1>5. ASSUME NEW c \in Consumers, Run(c) \/ Fail(c) \/ FailInCommit(c) \/ Restart(c)
      PROVE  Persist(c) \/ UNCHANGED ledgerVars
  BY <1>5 DEF Run, Claim, ReadGroup, Validate, Ack, Fail, FailInCommit, Restart,
              postgres, ledgerVars
<1>6. ASSUME Reserve \/ \E i \in 1..MaxEntries : GoIdle(i)
      PROVE  UNCHANGED ledgerVars
  BY <1>6 DEF Reserve, GoIdle, postgres, ledgerVars
<1>7. QED
  BY <1>2, <1>3, <1>4, <1>5, <1>6 DEF Next

\* The stream keeps its entries, and what is durable stays so.
LEMMA EntriesStay ==
  ASSUME IInv, Next, NEW i \in 1..delivered
  PROVE  stream'[i] = stream[i] /\ (Durable(i) => Durable(i)')
<1>1. TypeOK /\ Delivery /\ LedgerTypeOK
  BY DEF IInv, TypeOK
<1>2. stream' = stream \/ \E e : stream' = Append(stream, e) /\ e \in Reservations
  BY DEF Next, Reserve, Land, GoIdle, Run, Claim, ReadGroup, Validate, Persist, Ack, Fail,
         FailInCommit, Restart, redis
<1>3. i \in 1..Len(stream) /\ stream \in Seq(Entry) /\ Reservations \subseteq Entry
  BY <1>1, BidOfEntry, DataAssumption DEF TypeOK, Reservations, Entry
<1>4. stream'[i] = stream[i]
  BY <1>2, <1>3, AppendProperties
<1>5. rejected \subseteq rejected'
  BY DEF Next, Reserve, Land, GoIdle, Run, Claim, ReadGroup, Validate, Persist, Ack, Fail,
         FailInCommit, Restart
<1>6. QED
  BY <1>1, <1>4, <1>5, StepOnLedger, DurableStays

\* A consumer that a step leaves where it is still has its durable head.
LEMMA OthersAtWork ==
  ASSUME IInv, Next, NEW d \in Consumers, pc'[d] = pc[d], batch'[d] = batch[d]
  PROVE  AtWork(d)'
<1>1. AtWork(d) /\ batch[d] \in Seq(1..delivered)
  BY DEF IInv, TypeOK
<1>2. batch[d] # <<>> => Head(batch[d]) \in 1..delivered
  BY <1>1, HeadTailProperties
<1>3. QED
  BY <1>1, <1>2, EntriesStay DEF AtWork

\* The batch that a consumer starts.
LEMMA BatchStarted ==
  ASSUME TypeOK, NEW c \in Consumers, NEW d \in Nat, NEW entries \in Seq(1..d), delivered =< d,
         NEW next \in Nat \cup {NewEntries}, StartBatch(c, entries, next)
  PROVE  /\ pc' \in [Consumers -> {"down", "claim", "read", "validate", "persist", "ack"}]
         /\ batch' \in [Consumers -> Seq(1..d)]
         /\ resume' \in [Consumers -> Nat \cup {NewEntries}]
         /\ pc'[c] # "ack" /\ pc'[c] # "down"
         /\ batch'[c] = entries
         /\ pc'[c] \in {"validate", "persist"} => entries # <<>>
         /\ \A e \in Consumers \ {c} : pc'[e] = pc[e] /\ batch'[e] = batch[e]
<1>1. /\ pc \in [Consumers -> {"down", "claim", "read", "validate", "persist", "ack"}]
      /\ batch \in [Consumers -> Seq(1..delivered)]
      /\ resume \in [Consumers -> Nat \cup {NewEntries}]
      /\ delivered \in Nat
  BY DEF TypeOK
<1>2. FirstStep \in {"validate", "persist"} /\ AfterBatch(next) \in {"read", "claim"}
  BY DEF FirstStep, AfterBatch
<1>3. \A e \in Consumers : batch[e] \in Seq(1..d)
  <2>1. 1..delivered \subseteq 1..d
    BY <1>1
  <2>2. QED
    BY <1>1, <2>1, SeqMonotonic
<1>4. batch' \in [Consumers -> Seq(1..d)]
  BY <1>1, <1>3 DEF StartBatch
<1>5. QED
  BY <1>1, <1>2, <1>4 DEF StartBatch

----------------------------------------------------------------------------
\* One lemma per action: it keeps the invariant.  The laws of the ledger are kept
\* by any step (StepOnLedger), so that the lemmas may assume them afterwards.
Kept == TypeOK' /\ Delivery' /\ (\A c \in Consumers : AtWork(c)') /\ AckedIsDurable'

\* What acknowledged entries need of a step that delivers nothing and takes at
\* most one durable entry from the pending list.
LEMMA AckedStay ==
  ASSUME IInv, Next, delivered' = delivered, NEW i,
         pending' = pending \/ (pending' = pending \ {i} /\ Durable(i))
  PROVE  AckedIsDurable'
<1>1. TypeOK /\ AckedIsDurable
  BY DEF IInv
<1>2. \A k \in (1..delivered) \ pending : Durable(k)
  BY <1>1 DEF AckedIsDurable, Durable
<1>3. \A k \in (1..delivered') \ pending' : k \in 1..delivered /\ Durable(k)
  BY <1>2
<1>4. \A k \in (1..delivered') \ pending' : Durable(k)'
  BY <1>3, EntriesStay
<1>5. QED
  BY <1>4 DEF AckedIsDurable, Durable

LEMMA KeptByReserve == ASSUME IInv, Next, LedgerTypeOK', Reserve PROVE Kept
<1>1. TypeOK /\ Delivery
  BY DEF IInv
<1> USE DEF redis, postgres
<1>2. PICK e \in Reservations : stream' = Append(stream, e)
  BY DEF Reserve
<1>3. e \in Entry
  BY DataAssumption DEF Reservations, Entry
<1>4. stream' \in Seq(Entry) /\ Len(stream') = Len(stream) + 1 /\ Len(stream) \in Nat
  BY <1>1, <1>2, <1>3, AppendProperties DEF TypeOK
<1>5. TypeOK'
  BY <1>1, <1>4 DEF Reserve, TypeOK
<1>6. Delivery'
  BY <1>1, <1>4, BoundsAssumption DEF Reserve, Delivery, TypeOK
<1>7. \A c \in Consumers : AtWork(c)'
  BY OthersAtWork DEF Reserve
<1>8. AckedIsDurable'
  BY AckedStay DEF Reserve
<1>9. QED
  BY <1>5, <1>6, <1>7, <1>8 DEF Kept

LEMMA KeptByGoIdle ==
  ASSUME IInv, Next, LedgerTypeOK', NEW i \in 1..MaxEntries, GoIdle(i) PROVE Kept
<1>1. TypeOK /\ Delivery
  BY DEF IInv
<1> USE DEF redis, postgres
<1>2. TypeOK' /\ Delivery'
  BY <1>1 DEF GoIdle, TypeOK, Delivery
<1>3. \A c \in Consumers : AtWork(c)'
  BY OthersAtWork DEF GoIdle
<1>4. AckedIsDurable'
  BY AckedStay DEF GoIdle
<1>5. QED
  BY <1>2, <1>3, <1>4 DEF Kept

LEMMA KeptByLand == ASSUME IInv, Next, LedgerTypeOK', Land PROVE Kept
<1>1. TypeOK /\ Delivery
  BY DEF IInv
<1> USE DEF redis
<1>2. TypeOK' /\ Delivery'
  BY <1>1 DEF Land, TypeOK, Delivery
<1>3. \A c \in Consumers : AtWork(c)'
  BY OthersAtWork DEF Land
<1>4. AckedIsDurable'
  BY AckedStay DEF Land
<1>5. QED
  BY <1>2, <1>3, <1>4 DEF Kept

LEMMA KeptByClaim ==
  ASSUME IInv, Next, LedgerTypeOK', NEW c \in Consumers, Claim(c) PROVE Kept
<1>1. TypeOK /\ Delivery
  BY DEF IInv
<1> DEFINE ahead == {i \in pending : i >= resume[c]}
           scan == Lowest(ahead, ScanLimit)
           claimed == Lowest(scan \cap idle, RecoveryBatchSize)
           passed == IF Cardinality(claimed) < RecoveryBatchSize THEN scan ELSE claimed
           later == {i \in ahead : \A j \in passed : i > j}
           next == IF later = {} THEN NewEntries ELSE CHOOSE i \in later : \A j \in later : i =< j
<1>2. idle' = idle \ claimed /\ StartBatch(c, InOrder(claimed), next)
  BY DEF Claim
<1>3. /\ claimed \subseteq 1..delivered
      /\ later \subseteq 1..delivered
      /\ delivered \in Nat
      /\ idle' \in SUBSET pending
  BY <1>1, <1>2 DEF TypeOK, Lowest
<1> HIDE DEF ahead, scan, claimed, passed
<1>4. InOrder(claimed) \in Seq(1..delivered)
  BY <1>3, InOrderIsSequence
<1>5. next \in Nat \cup {NewEntries}
  <2>1. CASE later = {}
    BY <2>1
  <2>2. CASE later # {}
    <3>1. later \subseteq Nat
      BY <1>3
    <3>2. (CHOOSE i \in later : \A j \in later : i =< j) \in later
      <4> HIDE DEF later
      <4>1. QED
        BY <2>2, <3>1, LeastElement
    <3>3. QED
      BY <3>1, <3>2
  <2>3. QED
    BY <2>1, <2>2
<1> HIDE DEF next, later
<1>6. /\ pc' \in [Consumers -> {"down", "claim", "read", "validate", "persist", "ack"}]
      /\ batch' \in [Consumers -> Seq(1..delivered)]
      /\ resume' \in [Consumers -> Nat \cup {NewEntries}]
      /\ pc'[c] # "ack" /\ pc'[c] # "down"
      /\ batch'[c] = InOrder(claimed)
      /\ pc'[c] \in {"validate", "persist"} => InOrder(claimed) # <<>>
      /\ \A e \in Consumers \ {c} : pc'[e] = pc[e] /\ batch'[e] = batch[e]
  BY <1>1, <1>2, <1>3, <1>4, <1>5, BatchStarted
<1>7. UNCHANGED <<stream, group, delivered, pending, ledger, auction, inFlight, rejected, failures>>
  BY DEF Claim, postgres
<1>8. TypeOK'
  BY <1>1, <1>3, <1>6, <1>7 DEF TypeOK
<1>9. Delivery'
  BY <1>1, <1>6, <1>7 DEF Delivery, Claim
<1>10. \A e \in Consumers : AtWork(e)'
  <2>1. AtWork(c)'
    BY <1>6 DEF AtWork
  <2>2. QED
    BY <1>6, <2>1, OthersAtWork
<1>11. AckedIsDurable'
  BY <1>7, AckedStay
<1>12. QED
  BY <1>8, <1>9, <1>10, <1>11 DEF Kept

LEMMA KeptByReadGroup ==
  ASSUME IInv, Next, LedgerTypeOK', NEW c \in Consumers, ReadGroup(c) PROVE Kept
<1>1. TypeOK /\ Delivery
  BY DEF IInv
<1> DEFINE last == IF Len(stream) < delivered + BatchSize THEN Len(stream) ELSE delivered + BatchSize
           fresh == (delivered + 1)..last
<1>2. delivered' = last /\ pending' = pending \cup fresh /\ StartBatch(c, InOrder(fresh), 0)
  BY DEF ReadGroup
<1>3. /\ last \in Nat /\ delivered \in Nat /\ Len(stream) \in Nat
      /\ delivered =< last /\ last =< Len(stream)
      /\ fresh \subseteq 1..last
      /\ pending \subseteq 1..delivered
  BY <1>1, BatchAssumption DEF TypeOK, Delivery
<1>4. pending' \subseteq 1..last /\ 1..delivered \subseteq 1..last
  <2>1. 1..delivered \subseteq 1..last
    BY <1>3
  <2> HIDE DEF last, fresh
  <2>2. QED
    BY <1>2, <1>3, <2>1
<1>5. (1..last) \ pending' = (1..delivered) \ pending
  BY <1>2, <1>3
<1> HIDE DEF last
<1>6. InOrder(fresh) \in Seq(1..last)
  <2> HIDE DEF fresh
  <2>1. QED
    BY <1>3, InOrderIsSequence
<1> HIDE DEF fresh
<1>7. /\ pc' \in [Consumers -> {"down", "claim", "read", "validate", "persist", "ack"}]
      /\ batch' \in [Consumers -> Seq(1..last)]
      /\ resume' \in [Consumers -> Nat \cup {NewEntries}]
      /\ pc'[c] # "ack" /\ pc'[c] # "down"
      /\ batch'[c] = InOrder(fresh)
      /\ pc'[c] \in {"validate", "persist"} => InOrder(fresh) # <<>>
      /\ \A e \in Consumers \ {c} : pc'[e] = pc[e] /\ batch'[e] = batch[e]
  BY <1>1, <1>2, <1>3, <1>6, BatchStarted
<1>8. UNCHANGED <<stream, group, idle, ledger, auction, inFlight, rejected, failures>>
  BY DEF ReadGroup, postgres
<1>9. TypeOK'
  <2>1. idle' \in SUBSET pending'
    BY <1>1, <1>2, <1>8 DEF TypeOK
  <2>2. inFlight' \in 0..last /\ rejected' \in SUBSET (1..last)
    BY <1>1, <1>3, <1>4, <1>8 DEF TypeOK
  <2>3. QED
    BY <1>1, <1>2, <1>3, <1>4, <1>7, <1>8, <2>1, <2>2 DEF TypeOK
<1>10. Delivery'
  BY <1>1, <1>2, <1>3, <1>7, <1>8 DEF Delivery, ReadGroup
<1>11. \A e \in Consumers : AtWork(e)'
  <2>1. AtWork(c)'
    BY <1>7 DEF AtWork
  <2>2. QED
    BY <1>7, <2>1, OthersAtWork
<1>12. AckedIsDurable'
  <2>1. \A k \in (1..delivered') \ pending' : k \in 1..delivered /\ Durable(k)
    BY <1>2, <1>5 DEF IInv, AckedIsDurable, Durable
  <2>2. \A k \in (1..delivered') \ pending' : Durable(k)'
    BY <2>1, EntriesStay
  <2>3. QED
    BY <2>2 DEF AckedIsDurable, Durable
<1>13. QED
  BY <1>9, <1>10, <1>11, <1>12 DEF Kept

LEMMA KeptByValidate ==
  ASSUME IInv, Next, LedgerTypeOK', NEW c \in Consumers, Validate(c) PROVE Kept
<1>1. TypeOK /\ Delivery /\ AtWork(c)
  BY DEF IInv
<1> DEFINE i == Head(batch[c])
<1>2. i \in 1..delivered /\ delivered \in Nat
  BY <1>1, HeadTailProperties DEF Validate, TypeOK, AtWork
<1>3. /\ UNCHANGED <<stream, group, delivered, pending, idle, ledger, auction, inFlight,
                     batch, resume, failures>>
      /\ \/ pc' = [pc EXCEPT ![c] = "persist"] /\ rejected' = rejected
         \/ pc' = [pc EXCEPT ![c] = "ack"] /\ rejected' = rejected \cup {i}
  BY DEF Validate, redis, postgres
<1>4. TypeOK'
  BY <1>1, <1>2, <1>3 DEF TypeOK
<1>5. Delivery'
  BY <1>1, <1>3 DEF Delivery, Validate, TypeOK
<1>6. \A e \in Consumers : AtWork(e)'
  <2>1. AtWork(c)'
    BY <1>1, <1>3 DEF AtWork, Durable, Validate, TypeOK
  <2>2. ASSUME NEW e \in Consumers \ {c} PROVE AtWork(e)'
    BY <1>1, <1>3, OthersAtWork DEF TypeOK
  <2>3. QED
    BY <2>1, <2>2
<1>7. AckedIsDurable'
  BY <1>3, AckedStay
<1>8. QED
  BY <1>4, <1>5, <1>6, <1>7 DEF Kept

\* A consumer that stops has nothing at work.
LEMMA Stopped ==
  ASSUME IInv, Next, NEW c \in Consumers, Stop(c)
  PROVE  /\ pc' \in [Consumers -> {"down", "claim", "read", "validate", "persist", "ack"}]
         /\ batch' \in [Consumers -> Seq(1..delivered)]
         /\ resume' \in [Consumers -> Nat \cup {NewEntries}]
         /\ pc'[c] = "down"
         /\ \A e \in Consumers \ {c} : pc'[e] = pc[e]
         /\ \A e \in Consumers : AtWork(e)'
<1>1. TypeOK
  BY DEF IInv
<1>2. /\ pc' \in [Consumers -> {"down", "claim", "read", "validate", "persist", "ack"}]
      /\ resume' \in [Consumers -> Nat \cup {NewEntries}]
      /\ pc'[c] = "down"
      /\ \A e \in Consumers \ {c} : pc'[e] = pc[e] /\ batch'[e] = batch[e]
  BY <1>1 DEF TypeOK, Stop
<1>3. batch' \in [Consumers -> Seq(1..delivered)]
  BY <1>1, EmptySeq DEF TypeOK, Stop
<1>4. AtWork(c)'
  BY <1>2 DEF AtWork
<1>5. QED
  BY <1>2, <1>3, <1>4, OthersAtWork

LEMMA KeptByPersist ==
  ASSUME IInv, Next, LedgerTypeOK', NEW c \in Consumers, Persist(c) PROVE Kept
<1>1. TypeOK /\ Delivery /\ AtWork(c) /\ LedgerTypeOK
  BY DEF IInv, TypeOK
<1> DEFINE i == Head(batch[c])
<1>2. i \in 1..delivered /\ delivered \in Nat /\ BidOf(i) \in Bids /\ BidOf(i).key = stream[i].key
  BY <1>1, HeadTailProperties, BidOfEntry DEF Persist, TypeOK, AtWork
<1>3. UNCHANGED <<stream, group, delivered, pending, idle, inFlight, rejected, failures>>
  BY DEF Persist, redis
<1>4. AckedIsDurable'
  BY <1>3, AckedStay
<1>5. CASE /\ KeyInLedger(stream[i].key) \/ Accept(BidOf(i))
           /\ pc' = [pc EXCEPT ![c] = "ack"]
           /\ UNCHANGED <<batch, resume>>
  <2>1. TypeOK'
    BY <1>1, <1>3, <1>5 DEF TypeOK
  <2>2. Delivery'
    BY <1>1, <1>3, <1>5 DEF Delivery, Persist, TypeOK
  <2>3. Durable(i)'
    <3>1. CASE KeyInLedger(stream[i].key)
      <4>1. Durable(i)
        BY <3>1 DEF Durable
      <4>2. \A j \in 1..delivered : Durable(j) => Durable(j)'
        BY EntriesStay
      <4>3. i' = i
        BY <1>5
      <4>4. PICK j \in 1..delivered : j = i
        BY <1>2
      <4>5. Durable(j)'
        BY <4>1, <4>2, <4>4
      <4>6. QED
        BY <4>3, <4>4, <4>5 DEF Durable
    <3>2. CASE Accept(BidOf(i))
      <4>1. KeyInLedger(BidOf(i).key)'
        <5> DEFINE b == BidOf(i)
        <5>1. PICK a \in Bids : a = b
          BY <1>2
        <5>2. KeyInLedger(a.key)'
          BY <1>1, <3>2, <5>1, AcceptedKey
        <5>3. BidOf(i).key = a.key /\ BidOf(i)' = BidOf(i)
          BY <1>3, <1>5, <5>1 DEF BidOf, SubmittedAt
        <5>4. QED
          BY <5>2, <5>3 DEF KeyInLedger
      <4>2. QED
        BY <1>2, <1>3, <1>5, <4>1 DEF Durable, KeyInLedger, BidOf
    <3>3. QED
      BY <1>5, <3>1, <3>2
  <2>4. AtWork(c)'
    BY <1>1, <1>5, <2>3 DEF AtWork, TypeOK, Persist
  <2>5. ASSUME NEW e \in Consumers \ {c} PROVE AtWork(e)'
    BY <1>1, <1>5, OthersAtWork DEF TypeOK
  <2>6. QED
    BY <1>4, <2>1, <2>2, <2>4, <2>5 DEF Kept
<1>6. CASE Stop(c) /\ UNCHANGED <<ledger, auction>>
  <2>1. TypeOK'
    BY <1>1, <1>3, <1>6, Stopped DEF TypeOK
  <2>2. Delivery'
    BY <1>1, <1>3, <1>6, Stopped DEF Delivery, Persist
  <2>3. QED
    BY <1>4, <1>6, <2>1, <2>2, Stopped DEF Kept
<1>7. QED
  BY <1>5, <1>6 DEF Persist

LEMMA KeptByAck ==
  ASSUME IInv, Next, LedgerTypeOK', NEW c \in Consumers, Ack(c) PROVE Kept
<1>1. TypeOK /\ Delivery /\ AtWork(c)
  BY DEF IInv
<1> DEFINE i == Head(batch[c])
<1>2. /\ Tail(batch[c]) \in Seq(1..delivered) /\ Durable(i)
      /\ delivered \in Nat /\ delivered =< delivered
  BY <1>1, HeadTailProperties DEF Ack, TypeOK, AtWork
<1>3. /\ UNCHANGED <<stream, group, delivered, ledger, auction, inFlight, rejected, failures>>
      /\ pending' = pending \ {i}
      /\ idle' = idle \ {i}
      /\ StartBatch(c, Tail(batch[c]), resume[c])
      /\ resume[c] \in Nat \cup {NewEntries}
  BY <1>1 DEF Ack, postgres, TypeOK
<1> HIDE DEF i
<1>4. /\ pc' \in [Consumers -> {"down", "claim", "read", "validate", "persist", "ack"}]
      /\ batch' \in [Consumers -> Seq(1..delivered)]
      /\ resume' \in [Consumers -> Nat \cup {NewEntries}]
      /\ pc'[c] # "ack" /\ pc'[c] # "down"
      /\ batch'[c] = Tail(batch[c])
      /\ pc'[c] \in {"validate", "persist"} => Tail(batch[c]) # <<>>
      /\ \A e \in Consumers \ {c} : pc'[e] = pc[e] /\ batch'[e] = batch[e]
  BY <1>1, <1>2, <1>3, BatchStarted
<1>5. TypeOK'
  BY <1>1, <1>3, <1>4 DEF TypeOK
<1>6. Delivery'
  BY <1>1, <1>3, <1>4 DEF Delivery, Ack
<1>7. \A e \in Consumers : AtWork(e)'
  <2>1. AtWork(c)'
    BY <1>4 DEF AtWork
  <2>2. QED
    BY <1>4, <2>1, OthersAtWork
<1>8. AckedIsDurable'
  BY <1>2, <1>3, AckedStay
<1>9. QED
  BY <1>5, <1>6, <1>7, <1>8 DEF Kept

LEMMA KeptByFailures ==
  ASSUME IInv, Next, LedgerTypeOK', NEW c \in Consumers, Fail(c) \/ FailInCommit(c) PROVE Kept
<1>1. TypeOK /\ Delivery /\ AtWork(c)
  BY DEF IInv
<1>2. /\ UNCHANGED <<stream, group, delivered, pending, idle, ledger, auction, rejected>>
      /\ failures' = failures + 1
      /\ Stop(c)
      /\ pc[c] # "down"
  BY DEF Fail, FailInCommit, redis, postgres
<1>3. inFlight' \in 0..delivered
  <2>1. CASE FailInCommit(c)
    BY <1>1, <2>1, HeadTailProperties DEF FailInCommit, TypeOK, AtWork
  <2>2. CASE Fail(c)
    BY <1>1, <2>2 DEF Fail, postgres, TypeOK
  <2>3. QED
    BY <2>1, <2>2
<1>4. TypeOK'
  BY <1>1, <1>2, <1>3, Stopped DEF TypeOK
<1>5. Delivery'
  BY <1>1, <1>2, Stopped DEF Delivery
<1>6. AckedIsDurable'
  BY <1>2, AckedStay
<1>7. QED
  BY <1>2, <1>4, <1>5, <1>6, Stopped DEF Kept

LEMMA KeptByRestart ==
  ASSUME IInv, Next, LedgerTypeOK', NEW c \in Consumers, Restart(c) PROVE Kept
<1>1. TypeOK /\ Delivery
  BY DEF IInv
<1>2. /\ UNCHANGED <<stream, pending, idle, ledger, auction, inFlight, rejected, batch, resume,
                     failures>>
      /\ group' = TRUE
      /\ pc' = [pc EXCEPT ![c] = "claim"]
      /\ delivered' = delivered
  BY <1>1 DEF Restart, postgres, GroupStart, Delivery
<1>3. TypeOK' /\ Delivery'
  BY <1>1, <1>2 DEF TypeOK, Delivery
<1>4. \A e \in Consumers : AtWork(e)'
  <2>1. AtWork(c)'
    BY <1>1, <1>2 DEF AtWork, TypeOK
  <2>2. ASSUME NEW e \in Consumers \ {c} PROVE AtWork(e)'
    BY <1>1, <1>2, OthersAtWork DEF TypeOK
  <2>3. QED
    BY <2>1, <2>2
<1>5. AckedIsDurable'
  BY <1>2, AckedStay
<1>6. QED
  BY <1>3, <1>4, <1>5 DEF Kept

LEMMA StepKept == ASSUME IInv, Next, LedgerTypeOK' PROVE Kept
<1>1. ASSUME NEW c \in Consumers, Run(c) PROVE Kept
  BY <1>1, KeptByClaim, KeptByReadGroup, KeptByValidate, KeptByPersist, KeptByAck DEF Run
<1>2. ASSUME NEW c \in Consumers, Fail(c) \/ FailInCommit(c) \/ Restart(c) PROVE Kept
  BY <1>2, KeptByFailures, KeptByRestart
<1>3. QED
  BY <1>1, <1>2, KeptByReserve, KeptByLand, KeptByGoIdle DEF Next

LEMMA InitInvariant == Init => IInv
<1> SUFFICES ASSUME Init PROVE IInv
  OBVIOUS
<1>1. LedgerTypeOK /\ Laws
  BY InitLaws DEF Init, Laws
<1>2. TypeOK
  <2>1. stream \in Seq(Entry) /\ batch \in [Consumers -> Seq(1..delivered)]
    BY EmptySeq DEF Init
  <2>2. pending \in SUBSET (1..delivered) /\ idle \in SUBSET pending
        /\ rejected \in SUBSET (1..delivered)
    BY DEF Init
  <2>3. group \in BOOLEAN
    BY DEF Init
  <2>4. /\ pc \in [Consumers -> {"down", "claim", "read", "validate", "persist", "ack"}]
        /\ resume \in [Consumers -> Nat \cup {NewEntries}]
    BY DEF Init
  <2>5. delivered \in Nat /\ failures \in Nat /\ inFlight \in 0..delivered
    <3>1. delivered = 0 /\ failures = 0 /\ inFlight = 0
      BY DEF Init
    <3>2. QED
      BY <3>1
  <2>6. QED
    BY <1>1, <2>1, <2>2, <2>3, <2>4, <2>5 DEF TypeOK
<1>3. Delivery
  BY EmptySeq, BoundsAssumption DEF Init, Delivery
<1>4. QED
  BY <1>1, <1>2, <1>3 DEF Init, IInv, AtWork, AckedIsDurable

LEMMA StepInvariant == IInv /\ [Next]_vars => IInv'
<1>1. ASSUME IInv, Next PROVE IInv'
  <2>1. Laws'
    BY <1>1, StepOnLedger, StepLaws DEF IInv
  <2>2. Kept
    BY <1>1, <2>1, StepKept DEF Laws
  <2>3. QED
    BY <2>1, <2>2 DEF IInv, Kept
<1>2. ASSUME IInv, UNCHANGED vars PROVE IInv'
  <2>1. Laws'
    BY <1>2, StutterLaws DEF IInv, vars, postgres, ledgerVars
  <2>2. TypeOK' /\ Delivery' /\ AckedIsDurable'
    BY <1>2 DEF IInv, TypeOK, LedgerTypeOK, Delivery, AckedIsDurable, KeyInLedger,
                vars, redis, postgres
  <2>3. \A c \in Consumers : AtWork(c)'
    BY <1>2 DEF IInv, AtWork, Durable, KeyInLedger, vars, redis, postgres
  <2>4. QED
    BY <2>1, <2>2, <2>3 DEF IInv
<1>3. QED
  BY <1>1, <1>2

LEMMA Invariant == Spec => []IInv
BY InitInvariant, StepInvariant, PTL DEF Spec

\* The variables keep their types, for any number of consumers.
THEOREM ConsumerTypes == Spec => []TypeOK
<1>1. IInv => TypeOK
  BY DEF IInv
<1>2. QED
  BY <1>1, Invariant, PTL

\* ADR 001, I8: what Redis will not offer again is recorded or was rejected, for
\* any number of consumers that crash, steal entries and repeat them
\* (ledger_consumer.go:287-336).
THEOREM CommitBeforeAck == Spec => []AckedIsDurable
<1>1. IInv => AckedIsDurable
  BY DEF IInv
<1>2. QED
  BY <1>1, Invariant, PTL

\* Whatever the consumers do, the ledger is one that AuctionLedger allows
\* (ledger_consumer.go:337-395).
THEOREM ConsumersImplementLedger == Spec => LedgerSpec
<1>1. Init => LedgerInit
  BY DEF Init
<1>2. IInv /\ [Next]_vars => [LedgerNext]_ledgerVars
  <2>1. UNCHANGED vars => UNCHANGED ledgerVars
    BY DEF vars, postgres, ledgerVars
  <2>2. QED
    BY <2>1, StepOnLedger
<1>3. QED
  BY <1>1, <1>2, Invariant, PTL DEF Spec, LedgerSpec

\* No consumer records a late bid, whatever it read or claimed, and when
\* (anti_snipe.go:147-153).
THEOREM NoLateEntry == Spec => []BidsBeforeClose
BY ConsumersImplementLedger, NoLateBid, PTL

\* The close follows from the ledger that the consumers write
\* (anti_snipe.go:315-373).
THEOREM CloseFollowsEntries == Spec => []ExtensionLaw
BY ConsumersImplementLedger, CloseFollowsLedger, PTL

\* Consumers never move the close back (anti_snipe.go:331-344).
THEOREM ConsumersKeepClose == Spec => CloseNeverMovesBack
BY ConsumersImplementLedger, CloseMonotone, PTL

----------------------------------------------------------------------------
\* Prices.  With one consumer that validates, and that stays down until its own
\* commits have ended, what the hook compared with is still the last price when
\* the bid is committed.  The ledger transaction itself compares no amounts.
Priced ==
  /\ \A c \in Consumers : pc[c] = "persist" => Acceptable(Head(batch[c])) /\ inFlight = 0
  /\ inFlight # 0 => Acceptable(inFlight) /\ \A c \in Consumers : pc[c] = "down"

OneValidatingConsumer ==
  /\ Validating
  /\ RestartAfterIdle
  /\ \A c, d \in Consumers : c = d

\* The bid that is accepted exceeds the price that the next step compares with.
LEMMA AcceptRaises ==
  ASSUME TypeOK, Delivery, PriceRises, NEW i \in 1..delivered, Acceptable(i), Accept(BidOf(i))
  PROVE  PriceRises'
<1> DEFINE next == Len(ledger) + 1
<1>1. BidOf(i) \in Bids /\ LedgerTypeOK /\ BidOf(i).amount = stream[i].amount
      /\ stream[i].amount \in Nat
  BY BidOfEntry, DataAssumption DEF TypeOK, BidOf, Entry
<1>2. PICK b \in Bids : b = BidOf(i)
  BY <1>1
<1>3. /\ DOMAIN ledger = 1..Len(ledger)
      /\ DOMAIN ledger' = 1..next
      /\ \A n \in 1..Len(ledger) : ledger'[n] = ledger[n]
      /\ ledger'[next].bid = b
      /\ Len(ledger) \in Nat
      /\ ledger \in Seq(Rows)
  BY <1>1, <1>2, AcceptAppends DEF LedgerTypeOK
<1>4. b.amount >= CurrentPrice + Increment
  BY <1>1, <1>2 DEF Acceptable
<1>5. CurrentPrice = IF next = 1 THEN 0 ELSE ledger[next - 1].bid.amount
  <2>1. ledger = <<>> <=> Len(ledger) = 0
    BY <1>3, EmptySeq
  <2>2. next - 1 = Len(ledger)
    BY <1>3
  <2>3. QED
    BY <1>3, <2>1, <2>2 DEF CurrentPrice
<1> HIDE DEF next
<1>6. ASSUME NEW n \in 1..next
      PROVE  ledger'[n].bid.amount >= (IF n = 1 THEN 0 ELSE ledger'[n - 1].bid.amount) + Increment
  <2>1. CASE n = next
    <3>1. n # 1 => ledger'[n - 1] = ledger[n - 1]
      BY <1>3, <2>1 DEF next
    <3>2. QED
      BY <1>3, <1>4, <1>5, <2>1, <3>1
  <2>2. CASE n # next
    <3>1. n \in 1..Len(ledger) /\ (n # 1 => n - 1 \in 1..Len(ledger))
      BY <1>3, <2>2 DEF next
    <3>2. QED
      BY <1>3, <3>1 DEF PriceRises
  <2>3. QED
    BY <2>1, <2>2
<1>7. QED
  BY <1>3, <1>6 DEF PriceRises

\* What is acceptable stays so while nothing is appended.
LEMMA AcceptableStays ==
  ASSUME UNCHANGED ledgerVars, NEW i, stream'[i] = stream[i], Acceptable(i)
  PROVE  Acceptable(i)'
BY DEF ledgerVars, Acceptable, SubmittedAt, CurrentPrice

\* Steps that leave the ledger, the consumers' places and the commits alone.
LEMMA PricedKept ==
  ASSUME IInv, Next, Priced, UNCHANGED <<ledgerVars, pc, batch, inFlight>>
  PROVE  Priced'
<1>1. TypeOK /\ \A c \in Consumers : AtWork(c)
  BY DEF IInv
<1>2. \A i \in 1..delivered : Acceptable(i) => Acceptable(i)'
  BY EntriesStay, AcceptableStays
<1>3. ASSUME NEW c \in Consumers, pc'[c] = "persist"
      PROVE  Acceptable(Head(batch[c]))' /\ inFlight' = 0
  <2>1. PICK i \in 1..delivered : i = Head(batch[c])
    BY <1>1, <1>3, HeadTailProperties DEF TypeOK, AtWork
  <2>2. Acceptable(i)'
    BY <1>2, <1>3, <2>1 DEF Priced
  <2>3. i = Head(batch'[c])
    BY <2>1
  <2>4. QED
    BY <1>3, <2>2, <2>3 DEF Priced, Acceptable, SubmittedAt
<1>4. inFlight # 0 => Acceptable(inFlight)' /\ \A c \in Consumers : pc'[c] = "down"
  <2>1. ASSUME inFlight # 0 PROVE Acceptable(inFlight)'
    <3>1. PICK i \in 1..delivered : i = inFlight
      BY <1>1, <2>1 DEF TypeOK
    <3>2. Acceptable(i)'
      BY <1>2, <2>1, <3>1 DEF Priced
    <3>3. i = inFlight'
      BY <3>1
    <3>4. QED
      BY <3>2, <3>3 DEF Acceptable, SubmittedAt
  <2>2. QED
    BY <2>1 DEF Priced
<1>5. QED
  BY <1>3, <1>4 DEF Priced

\* A consumer that is running keeps to the prices: nothing is in flight.
LEMMA PricedRun ==
  ASSUME OneValidatingConsumer, IInv, Next, Priced, NEW c \in Consumers, Run(c)
  PROVE  Priced'
<1>1. TypeOK /\ FirstStep = "validate" /\ pc[c] # "down" /\ inFlight = 0
  BY DEF IInv, OneValidatingConsumer, FirstStep, Priced, Run, Claim, ReadGroup, Validate,
         Persist, Ack
<1>2. inFlight' = 0
  BY <1>1 DEF Run, Claim, ReadGroup, Validate, Persist, Ack, postgres
<1>3. ASSUME pc'[c] = "persist" PROVE Acceptable(Head(batch[c]))'
  <2>1. ASSUME NEW entries, NEW next, StartBatch(c, entries, next) PROVE FALSE
    BY <1>1, <1>3, <2>1 DEF StartBatch, TypeOK, AfterBatch
  <2>2. Validate(c) /\ Acceptable(Head(batch[c]))
    BY <1>1, <1>3, <2>1 DEF Run, Claim, ReadGroup, Validate, Persist, Ack, Stop, TypeOK
  <2>3. UNCHANGED <<stream, ledger, auction, batch>>
    BY <2>2 DEF Validate, redis, postgres
  <2>4. QED
    BY <2>2, <2>3 DEF Acceptable, SubmittedAt, CurrentPrice
<1>4. \A d \in Consumers : d = c
  BY DEF OneValidatingConsumer
<1>5. ASSUME NEW d \in Consumers, pc'[d] = "persist" PROVE Acceptable(Head(batch[d]))'
  BY <1>3, <1>4, <1>5
<1>6. QED
  BY <1>2, <1>5 DEF Priced

LEMMA PricedFail ==
  ASSUME OneValidatingConsumer, IInv, Next, Priced, NEW c \in Consumers,
         Fail(c) \/ FailInCommit(c) \/ Restart(c)
  PROVE  Priced'
<1>1. TypeOK /\ AtWork(c)
  BY DEF IInv
<1>2. \A d \in Consumers : d = c
  BY DEF OneValidatingConsumer
<1>3. CASE Fail(c)
  BY <1>1, <1>2, <1>3 DEF Fail, Stop, Priced, postgres, TypeOK
<1>4. CASE Restart(c)
  BY <1>1, <1>2, <1>4 DEF Restart, Priced, postgres, TypeOK, OneValidatingConsumer
<1>5. CASE FailInCommit(c)
  <2>1. \A d \in Consumers : pc'[d] = "down"
    BY <1>1, <1>2, <1>5 DEF FailInCommit, Stop, TypeOK
  <2>2. Acceptable(Head(batch[c])) /\ inFlight' = Head(batch[c])
    BY <1>5 DEF FailInCommit, Priced
  <2>3. UNCHANGED <<stream, ledger, auction>>
    BY <1>5 DEF FailInCommit, redis
  <2>4. Acceptable(inFlight)'
    BY <2>2, <2>3 DEF Acceptable, SubmittedAt, CurrentPrice
  <2>5. QED
    BY <2>1, <2>4 DEF Priced
<1>6. QED
  BY <1>3, <1>4, <1>5

LEMMA PricedStep ==
  ASSUME OneValidatingConsumer, IInv, Next, Priced
  PROVE  Priced'
<1>1. CASE Land
  BY <1>1 DEF Land, Priced
<1>2. CASE Reserve \/ \E i \in 1..MaxEntries : GoIdle(i)
  BY <1>2, PricedKept DEF Reserve, GoIdle, postgres, ledgerVars
<1>3. QED
  BY <1>1, <1>2, PricedRun, PricedFail DEF Next

LEMMA PriceRisesStep ==
  ASSUME OneValidatingConsumer, IInv, Next, Priced, PriceRises
  PROVE  PriceRises'
<1>1. TypeOK /\ Delivery
  BY DEF IInv
<1>2. CASE UNCHANGED ledger
  BY <1>2 DEF PriceRises
<1>3. CASE Land
  <2>1. inFlight \in 1..delivered /\ Acceptable(inFlight)
    BY <1>1, <1>3 DEF Land, TypeOK, Priced
  <2>2. PICK i \in 1..delivered : i = inFlight
    BY <2>1
  <2>3. Acceptable(i) /\ (Accept(BidOf(i)) \/ UNCHANGED ledger)
    BY <1>3, <2>1, <2>2 DEF Land
  <2>4. QED
    BY <1>1, <1>2, <2>3, AcceptRaises
<1>4. ASSUME NEW c \in Consumers, Persist(c) PROVE PriceRises'
  <2>1. Head(batch[c]) \in 1..delivered /\ Acceptable(Head(batch[c]))
    BY <1>1, <1>4, HeadTailProperties DEF Persist, TypeOK, IInv, AtWork, Priced
  <2>2. PICK i \in 1..delivered : i = Head(batch[c])
    BY <2>1
  <2>3. Acceptable(i) /\ (Accept(BidOf(i)) \/ UNCHANGED ledger)
    BY <1>4, <2>1, <2>2 DEF Persist
  <2>4. QED
    BY <1>1, <1>2, <2>3, AcceptRaises
<1>5. ASSUME NEW c \in Consumers, Run(c) \/ Fail(c) \/ FailInCommit(c) \/ Restart(c)
      PROVE  Persist(c) \/ UNCHANGED ledger
  BY <1>5 DEF Run, Claim, ReadGroup, Validate, Ack, Fail, FailInCommit, Restart, postgres
<1>6. ASSUME Reserve \/ \E i \in 1..MaxEntries : GoIdle(i)
      PROVE  UNCHANGED ledger
  BY <1>6 DEF Reserve, GoIdle, postgres
<1>7. QED
  BY <1>2, <1>3, <1>4, <1>5, <1>6 DEF Next

\* I6 over the ledger: with one validating consumer that is restarted only when
\* its commits have ended, every recorded bid exceeds the one before it by the
\* increment, through crashes, retries and commits of unknown outcome
\* (bid_validation.go:293-295, ledger_consumer.go:287-336).
THEOREM PricesRise == ASSUME OneValidatingConsumer PROVE Spec => []PriceRises
<1>1. Init => Priced /\ PriceRises
  BY EmptySeq DEF Init, LedgerInit, Priced, PriceRises
<1>2. IInv /\ Priced /\ PriceRises /\ [Next]_vars => Priced' /\ PriceRises'
  <2>1. ASSUME Priced, PriceRises, UNCHANGED vars PROVE Priced' /\ PriceRises'
    BY <2>1 DEF Priced, PriceRises, Acceptable, SubmittedAt, CurrentPrice, vars, redis, postgres
  <2>2. QED
    BY <2>1, PricedStep, PriceRisesStep
<1>3. QED
  BY <1>1, <1>2, Invariant, PTL DEF Spec

----------------------------------------------------------------------------
\* The replay of a stream.
NothingReplayed == [ledger |-> <<>>, auction |-> NewAuction]

\* The recursion has a solution, so that the replay is what it says.
LEMMA ReplayEquation ==
  ASSUME NEW s
  PROVE  /\ ReplayOf(s)[0] = NothingReplayed
         /\ \A i \in 1..MaxEntries : ReplayOf(s)[i] = ReplayEntry(s, i, ReplayOf(s)[i - 1])
<1> DEFINE Solution(n, f) ==
             f = [i \in 0..n |-> IF i = 0 THEN NothingReplayed ELSE ReplayEntry(s, i, f[i - 1])]
           Unsolved == {n \in Nat : ~ \E f : Solution(n, f)}
<1>1. Unsolved = {}
  <2> SUFFICES ASSUME Unsolved # {} PROVE FALSE
    OBVIOUS
  <2>1. PICK n \in Unsolved : \A m \in Unsolved : n =< m
    <3>1. Unsolved \subseteq Nat
      OBVIOUS
    <3> HIDE DEF Unsolved
    <3>2. QED
      BY <3>1, LeastElement
  <2>2. CASE n = 0
    <3>1. Solution(0, [i \in 0..0 |-> NothingReplayed])
      OBVIOUS
    <3>2. QED
      BY <2>2, <3>1
  <2>3. CASE n # 0
    <3>1. n \in Nat /\ n - 1 \in Nat
      BY <2>3
    <3>2. n - 1 \notin Unsolved
      <4> HIDE DEF Unsolved
      <4>1. QED
        BY <2>1, <3>1
    <3>3. PICK f : Solution(n - 1, f)
      BY <3>1, <3>2
    <3> DEFINE g == [i \in 0..n |-> IF i = n THEN ReplayEntry(s, n, f[n - 1]) ELSE f[i]]
    <3>4. \A i \in 0..(n - 1) :
            f[i] = IF i = 0 THEN NothingReplayed ELSE ReplayEntry(s, i, f[i - 1])
      BY <3>3
    <3>5. \A i \in 1..n : g[i - 1] = f[i - 1]
      BY <3>1
    <3>6. \A i \in 0..n :
            g[i] = IF i = 0 THEN NothingReplayed ELSE ReplayEntry(s, i, g[i - 1])
      BY <2>3, <3>1, <3>4, <3>5
    <3>7. Solution(n, g)
      BY <3>6
    <3>8. QED
      BY <3>7
  <2>4. QED
    BY <2>2, <2>3
<1>2. \E f : Solution(MaxEntries, f)
  BY <1>1, BoundsAssumption
<1>3. Solution(MaxEntries, ReplayOf(s))
  BY <1>2 DEF ReplayOf, NothingReplayed
<1>4. \A i \in 0..MaxEntries :
        ReplayOf(s)[i] = IF i = 0 THEN NothingReplayed ELSE ReplayEntry(s, i, ReplayOf(s)[i - 1])
  <2> HIDE DEF NothingReplayed
  <2>1. QED
    BY <1>3
<1>5. QED
  BY <1>4, BoundsAssumption

\* Later entries do not change what the earlier ones left.
LEMMA ReplayExtends ==
  ASSUME NEW s, NEW t, NEW n \in 0..MaxEntries, \A i \in 1..n : t[i] = s[i]
  PROVE  \A i \in 0..n : ReplayOf(t)[i] = ReplayOf(s)[i]
<1> DEFINE Apart == {i \in 0..n : ReplayOf(t)[i] # ReplayOf(s)[i]}
<1>1. n \in Nat /\ MaxEntries \in Nat
  BY BoundsAssumption
<1> SUFFICES ASSUME Apart # {} PROVE FALSE
  OBVIOUS
<1>2. PICK i \in Apart : \A j \in Apart : i =< j
  <2>1. Apart \subseteq Nat
    BY <1>1
  <2> HIDE DEF Apart
  <2>2. QED
    BY <2>1, LeastElement
<1>3. CASE i = 0
  BY <1>2, <1>3, ReplayEquation
<1>4. CASE i # 0
  <2>1. i \in 1..n /\ i \in 1..MaxEntries /\ i - 1 \in 0..n
    BY <1>1, <1>2, <1>4
  <2>2. i - 1 \notin Apart
    <3> HIDE DEF Apart
    <3>1. QED
      BY <1>2, <2>1
  <2>3. ReplayOf(t)[i - 1] = ReplayOf(s)[i - 1]
    BY <2>1, <2>2
  <2>4. ReplayEntry(t, i, ReplayOf(t)[i - 1]) = ReplayEntry(s, i, ReplayOf(s)[i - 1])
    BY <2>1, <2>3 DEF ReplayEntry
  <2>5. QED
    BY <1>2, <2>1, <2>4, ReplayEquation
<1>5. QED
  BY <1>3, <1>4

LEMMA PriceIsNumber == ASSUME LedgerTypeOK PROVE CurrentPrice \in Nat /\ Increment \in Nat
<1>1. Increment \in Nat
  BY DataAssumption
<1>2. CASE ledger = <<>>
  BY <1>1, <1>2 DEF CurrentPrice
<1>3. CASE ledger # <<>>
  <2>1. ledger \in Seq(Rows) /\ Len(ledger) \in 1..Len(ledger)
    BY <1>3, EmptySeq DEF LedgerTypeOK
  <2>2. ledger[Len(ledger)].bid \in Bids
    <3>1. ledger[Len(ledger)] \in Rows
      BY <2>1, ElementOfSeq
    <3>2. QED
      BY <3>1 DEF Rows
  <2>3. \A b \in Bids : b.amount \in Nat
    BY BidAssumption, DataAssumption
  <2>4. QED
    BY <1>1, <1>3, <2>2, <2>3 DEF CurrentPrice
<1>4. QED
  BY <1>2, <1>3

\* An entry that adds nothing: what was replayed to the entry before it is
\* replayed to it.
LEMMA NothingAdded ==
  ASSUME TypeOK, Delivery, NEW i \in 1..delivered, ReplayedTo(i - 1),
         \/ KeyInLedger(stream[i].key)
         \/ Validating /\ ~ Acceptable(i)
  PROVE  ReplayedTo(i)
<1> DEFINE before == ReplayOf(stream)[i - 1]
<1>1. i \in 1..MaxEntries /\ stream[i] \in Entry
  BY BidOfEntry, BoundsAssumption DEF TypeOK, Delivery
<1>2. ReplayOf(stream)[i] = ReplayEntry(stream, i, before)
  BY <1>1, ReplayEquation
<1>3. before = [ledger |-> ledger, auction |-> auction]
  BY DEF ReplayedTo
<1>4. before.ledger = ledger /\ before.auction = auction
  BY <1>3
<1> HIDE DEF before
<1>5. CASE KeyInLedger(stream[i].key)
  <2>1. \E n \in DOMAIN before.ledger : before.ledger[n].bid.key = stream[i].key
    BY <1>4, <1>5 DEF KeyInLedger
  <2>2. ReplayEntry(stream, i, before) = before
    BY <2>1 DEF ReplayEntry
  <2>3. QED
    BY <1>2, <1>3, <2>2 DEF ReplayedTo
<1>6. CASE Validating /\ ~ Acceptable(i)
  <2>1. stream[i].amount \in Nat /\ stream[i].at \in Nat /\ auction.close \in Int
    BY <1>1, DataAssumption DEF Entry, TypeOK, LedgerTypeOK, Auctions
  <2>2. CurrentPrice \in Nat /\ Increment \in Nat
    BY PriceIsNumber DEF TypeOK
  <2>3. stream[i].at >= auction.close \/ stream[i].amount < CurrentPrice + Increment
    BY <1>6, <2>1, <2>2 DEF Acceptable, SubmittedAt
  <2>4. ReplayEntry(stream, i, before) = before
    BY <1>4, <1>6, <2>3 DEF ReplayEntry, CurrentPrice
  <2>5. QED
    BY <1>2, <1>3, <2>4 DEF ReplayedTo
<1>7. QED
  BY <1>5, <1>6

\* An entry that is accepted adds what the replay says.
LEMMA RowAdded ==
  ASSUME TypeOK, Delivery, NEW i \in 1..delivered, ReplayedTo(i - 1), stream[i].wellFormed,
         Validating => Acceptable(i), Accept(BidOf(i)), UNCHANGED stream
  PROVE  ReplayedTo(i)'
<1> DEFINE before == ReplayOf(stream)[i - 1]
<1>1. i \in 1..MaxEntries /\ stream[i] \in Entry
  BY BidOfEntry, BoundsAssumption DEF TypeOK, Delivery
<1>2. ReplayOf(stream)[i] = ReplayEntry(stream, i, before)
  BY <1>1, ReplayEquation
<1>3. before.ledger = ledger /\ before.auction = auction
  BY DEF ReplayedTo
<1> HIDE DEF before
<1>4. stream[i].amount \in Nat /\ stream[i].at \in Nat /\ auction.close \in Int
  BY <1>1, DataAssumption DEF Entry, TypeOK, LedgerTypeOK, Auctions
<1>5. CurrentPrice \in Nat /\ Increment \in Nat
  BY PriceIsNumber DEF TypeOK
<1>6. /\ ~ \E n \in DOMAIN ledger : ledger[n].bid.key = stream[i].key
      /\ ~ (stream[i].at >= auction.close)
  BY <1>4 DEF Accept, KeyInLedger, BeforeClose, BidOf, SubmittedAt
<1>7. Validating => ~ (stream[i].amount < CurrentPrice + Increment)
  BY <1>4, <1>5 DEF Acceptable
<1>8. ReplayEntry(stream, i, before) = [ledger |-> ledger', auction |-> auction']
  BY <1>3, <1>6, <1>7 DEF ReplayEntry, Accept, BidOf, SubmittedAt, CurrentPrice
<1>9. QED
  BY <1>2, <1>8 DEF ReplayedTo

----------------------------------------------------------------------------
\* A single consumer that stays down for RecoveryMinIdle, and until its commits
\* have ended, works through the stream in order: p entries are settled, the
\* pending ones follow them without a gap, and its batch starts with the next.
SerialConsumer ==
  /\ RestartAfterIdle
  /\ \A c, d \in Consumers : c = d

\* The ledger is the replay of p entries; or of one more, whose XACK is to come.
Frontier(p) ==
  \/ ReplayedTo(p)
  \/ p < delivered /\ ReplayedTo(p + 1) /\ KeyInLedger(stream[p + 1].key)

OnCourse(p, c) ==
  LET rest == p + Len(batch[c])
  IN  /\ batch[c] = [k \in 1..Len(batch[c]) |-> p + k]
      /\ rest =< delivered
      /\ pc[c] = "down" => resume[c] = 0
      /\ pc[c] # "down" =>
           /\ inFlight = 0
           /\ (rest + 1)..delivered \subseteq idle
           /\ IF resume[c] = NewEntries THEN rest = delivered ELSE resume[c] =< rest + 1
      /\ pc[c] \in {"down", "claim", "read"} => batch[c] = <<>>
      /\ pc[c] = "claim" => resume[c] # NewEntries
      /\ pc[c] = "read" => p = delivered
      /\ pc[c] = "validate" => Validating
      /\ pc[c] = "persist" /\ Validating => Acceptable(p + 1)
      /\ pc[c] = "ack" => ReplayedTo(p + 1)

InSequence(p) ==
  /\ pending = (p + 1)..delivered
  /\ Frontier(p)
  /\ inFlight # 0 => /\ inFlight = p + 1
                     /\ stream[inFlight].wellFormed
                     /\ Validating => Acceptable(inFlight)
  /\ \A c \in Consumers : OnCourse(p, c)

Serial == \E p \in 0..delivered : InSequence(p)

----------------------------------------------------------------------------
LEMMA InOrderOfInterval ==
  ASSUME NEW a \in Nat, NEW n \in Nat
  PROVE  /\ InOrder((a + 1)..(a + n)) = [k \in 1..n |-> a + k]
         /\ Cardinality((a + 1)..(a + n)) = n
<1> DEFINE S == (a + 1)..(a + n)
<1>1. Cardinality(S) = n
  <2>1. a + 1 \in Int /\ a + n \in Int
    OBVIOUS
  <2>2. Cardinality(S) = IF a + 1 > a + n THEN 0 ELSE a + n - (a + 1) + 1
    BY <2>1, FS_Interval
  <2>3. QED
    BY <2>2
<1>2. ASSUME NEW i \in S
      PROVE  Cardinality(Before(S, i)) = i - a - 1
  <2>1. Before(S, i) = (a + 1)..(i - 1)
    BY DEF Before
  <2>2. a + 1 \in Int /\ i - 1 \in Int
    OBVIOUS
  <2>3. Cardinality((a + 1)..(i - 1)) = IF a + 1 > i - 1 THEN 0 ELSE i - 1 - (a + 1) + 1
    BY <2>2, FS_Interval
  <2>4. QED
    BY <2>1, <2>3
<1>3. ASSUME NEW k \in 1..n
      PROVE  (CHOOSE i \in S : Cardinality(Before(S, i)) = k - 1) = a + k
  <2>1. a + k \in S /\ Cardinality(Before(S, a + k)) = k - 1
    BY <1>2
  <2>2. \A i \in S : Cardinality(Before(S, i)) = k - 1 => i = a + k
    BY <1>2
  <2> HIDE DEF S
  <2>3. QED
    BY <2>1, <2>2
<1>4. InOrder(S) = [k \in 1..n |-> a + k]
  <2> HIDE DEF S
  <2>1. QED
    BY <1>1, <1>3 DEF InOrder
<1>5. QED
  BY <1>1, <1>4

LEMMA LowestOfInterval ==
  ASSUME NEW a \in Nat, NEW b \in Nat, a =< b, NEW n \in Nat \ {0}
  PROVE  Lowest((a + 1)..b, n) = (a + 1)..(IF b < a + n THEN b ELSE a + n)
<1> DEFINE S == (a + 1)..b
<1>1. ASSUME NEW i \in S
      PROVE  Cardinality(Before(S, i)) = i - a - 1
  <2>1. Before(S, i) = (a + 1)..(i - 1)
    BY DEF Before
  <2>2. a + 1 \in Int /\ i - 1 \in Int
    OBVIOUS
  <2>3. Cardinality((a + 1)..(i - 1)) = IF a + 1 > i - 1 THEN 0 ELSE i - 1 - (a + 1) + 1
    BY <2>2, FS_Interval
  <2>4. QED
    BY <2>1, <2>3
<1>2. Lowest(S, n) = {i \in S : i - a - 1 < n}
  BY <1>1 DEF Lowest
<1>3. \A i \in Int : i - a - 1 < n <=> i =< a + n
  OBVIOUS
<1>4. {i \in S : i - a - 1 < n} = (a + 1)..(IF b < a + n THEN b ELSE a + n)
  BY <1>3
<1>5. QED
  BY <1>2, <1>4

\* The batch that a consumer which is on course starts keeps it so.
LEMMA CourseStarted ==
  ASSUME TypeOK, NEW c \in Consumers, NEW p \in Nat, NEW n \in Nat, NEW next,
         StartBatch(c, [k \in 1..n |-> p + k], next),
         delivered' \in Nat, p + n =< delivered', inFlight' = 0,
         ((p + n + 1)..delivered') \subseteq idle',
         IF next = NewEntries THEN p + n = delivered' ELSE next \in Nat /\ next =< p + n + 1
  PROVE  OnCourse(p, c)'
<1> DEFINE entries == [k \in 1..n |-> p + k]
<1>1. entries \in Seq(Nat) /\ Len(entries) = n
  OBVIOUS
<1>2. entries = <<>> <=> n = 0
  BY <1>1, EmptySeq
<1> HIDE DEF entries
<1>3. /\ batch'[c] = entries
      /\ resume'[c] = next
      /\ pc'[c] = IF entries # <<>> THEN FirstStep ELSE AfterBatch(next)
  BY DEF StartBatch, TypeOK, entries
<1>4. FirstStep = (IF Validating THEN "validate" ELSE "persist")
  BY DEF FirstStep
<1>5. AfterBatch(next) = IF next = NewEntries THEN "read" ELSE "claim"
  BY DEF AfterBatch
<1>6. batch'[c] = [k \in 1..Len(batch'[c]) |-> p + k]
  BY <1>1, <1>3 DEF entries
<1>7. Len(batch'[c]) = n
  BY <1>1, <1>3
<1>8. QED
  BY <1>2, <1>3, <1>4, <1>5, <1>6, <1>7 DEF OnCourse

\* Nothing that the settled entries left is disturbed by a step that leaves the
\* ledger alone.
LEMMA ReplayedStays ==
  ASSUME IInv, Next, UNCHANGED ledgerVars, NEW i \in 0..delivered, ReplayedTo(i)
  PROVE  ReplayedTo(i)'
<1>1. i \in 0..MaxEntries /\ delivered \in Nat
  BY BoundsAssumption DEF IInv, TypeOK, Delivery
<1>2. \A j \in 1..i : stream'[j] = stream[j]
  BY <1>1, EntriesStay
<1>3. ReplayOf(stream')[i] = ReplayOf(stream)[i]
  BY <1>1, <1>2, ReplayExtends
<1>4. QED
  BY <1>3 DEF ReplayedTo, ledgerVars

LEMMA FrontierStays ==
  ASSUME IInv, Next, UNCHANGED ledgerVars, delivered' \in Nat, delivered =< delivered',
         NEW p \in 0..delivered, Frontier(p)
  PROVE  Frontier(p)'
<1>1. delivered \in Nat /\ LedgerTypeOK
  BY DEF IInv, TypeOK
<1>2. CASE ReplayedTo(p)
  BY <1>2, ReplayedStays DEF Frontier
<1>3. CASE ~ ReplayedTo(p)
  <2>1. p + 1 \in 1..delivered /\ ReplayedTo(p + 1) /\ KeyInLedger(stream[p + 1].key)
    BY <1>1, <1>3 DEF Frontier
  <2>2. PICK i \in 1..delivered : i = p + 1
    BY <2>1
  <2>3. ReplayedTo(i)' /\ stream'[i] = stream[i]
    BY <1>1, <2>1, <2>2, ReplayedStays, EntriesStay
  <2>4. KeyInLedger(stream[i].key)'
    BY <2>1, <2>2, <2>3 DEF KeyInLedger, ledgerVars
  <2>5. QED
    BY <1>1, <2>2, <2>3, <2>4 DEF Frontier
<1>4. QED
  BY <1>2, <1>3

LEMMA AcceptableKept ==
  ASSUME IInv, Next, UNCHANGED ledgerVars, NEW i \in 1..delivered, Acceptable(i)
  PROVE  Acceptable(i)'
BY EntriesStay, AcceptableStays

\* What keeps a consumer on course that does not move.
LEMMA CourseStays ==
  ASSUME IInv, Next, NEW p \in 0..delivered, NEW c \in Consumers, OnCourse(p, c),
         UNCHANGED <<ledgerVars, delivered, inFlight>>, idle \subseteq idle',
         batch'[c] = batch[c], pc'[c] = pc[c], resume'[c] = resume[c]
  PROVE  OnCourse(p, c)'
<1>1. TypeOK /\ AtWork(c) /\ delivered \in Nat /\ p \in Nat
  BY DEF IInv, TypeOK
<1>2. Len(batch[c]) \in Nat /\ (batch[c] # <<>> => Len(batch[c]) > 0)
  BY <1>1, EmptySeq DEF TypeOK
<1>3. pc[c] \in {"persist", "ack"} => p + 1 \in 1..delivered
  BY <1>1, <1>2 DEF OnCourse, AtWork
<1>4. pc[c] = "persist" /\ Validating => Acceptable(p + 1)'
  <2>1. ASSUME pc[c] = "persist", Validating PROVE Acceptable(p + 1)'
    <3>1. Acceptable(p + 1)
      BY <2>1 DEF OnCourse
    <3>2. PICK i \in 1..delivered : i = p + 1
      BY <1>3, <2>1
    <3>3. Acceptable(i)'
      BY <3>1, <3>2, AcceptableKept
    <3>4. QED
      BY <3>2, <3>3
  <2>2. QED
    BY <2>1
<1>5. pc[c] = "ack" => ReplayedTo(p + 1)'
  <2>1. ASSUME pc[c] = "ack" PROVE ReplayedTo(p + 1)'
    <3>1. ReplayedTo(p + 1)
      BY <2>1 DEF OnCourse
    <3>2. PICK i \in 0..delivered : i = p + 1
      BY <1>1, <1>3, <2>1
    <3>3. ReplayedTo(i)'
      BY <3>1, <3>2, ReplayedStays
    <3>4. QED
      BY <3>2, <3>3
  <2>2. QED
    BY <2>1
<1>6. QED
  BY <1>4, <1>5 DEF OnCourse

----------------------------------------------------------------------------
\* Where a consumer has work to do, its head is the first entry that is not settled.
LEMMA HeadIsNext ==
  ASSUME IInv, NEW c \in Consumers, NEW p \in 0..delivered, OnCourse(p, c),
         pc[c] \in {"validate", "persist", "ack"}
  PROVE  /\ Head(batch[c]) = p + 1
         /\ p + 1 \in 1..delivered
         /\ Len(batch[c]) \in Nat \ {0}
<1>1. /\ batch[c] \in Seq(1..delivered) /\ batch[c] # <<>>
      /\ delivered \in Nat
  BY DEF IInv, TypeOK, AtWork
<1>2. Len(batch[c]) \in Nat \ {0} /\ Head(batch[c]) = batch[c][1]
  BY <1>1, EmptySeq, HeadTailProperties
<1>3. batch[c] = [k \in 1..Len(batch[c]) |-> p + k] /\ p + Len(batch[c]) =< delivered
  BY DEF OnCourse
<1>4. batch[c][1] = p + 1
  BY <1>2, <1>3
<1>5. QED
  BY <1>1, <1>2, <1>3, <1>4

\* Steps that leave the ledger, the pending list and the consumers' places alone.
LEMMA SequenceStays ==
  ASSUME IInv, Next, NEW p \in 0..delivered, InSequence(p),
         UNCHANGED <<ledgerVars, delivered, pending, inFlight, pc, batch, resume>>,
         idle \subseteq idle'
  PROVE  InSequence(p)'
<1>1. TypeOK /\ delivered \in Nat
  BY DEF IInv, TypeOK
<1>2. Frontier(p)'
  BY <1>1, FrontierStays DEF InSequence
<1>3. \A c \in Consumers : OnCourse(p, c)'
  BY CourseStays DEF InSequence
<1>4. ASSUME inFlight # 0
      PROVE  stream'[inFlight].wellFormed /\ (Validating => Acceptable(inFlight)')
  <2>1. PICK i \in 1..delivered : i = inFlight
    BY <1>1, <1>4 DEF TypeOK
  <2>2. stream'[i] = stream[i]
    BY EntriesStay
  <2>3. Validating => Acceptable(i)'
    BY <1>4, <2>1, AcceptableKept DEF InSequence
  <2>4. QED
    BY <1>4, <2>1, <2>2, <2>3 DEF InSequence
<1>5. inFlight' # 0 => /\ inFlight' = p + 1
                       /\ stream'[inFlight'].wellFormed
                       /\ Validating => Acceptable(inFlight)'
  BY <1>4 DEF InSequence
<1>6. QED
  BY <1>2, <1>3, <1>5 DEF InSequence

\* A commit that nobody waits for any more: it is the one of the next entry.
LEMMA SequenceLand ==
  ASSUME IInv, IInv', Next, NEW p \in 0..delivered, InSequence(p), Land
  PROVE  InSequence(p)'
<1>1. /\ TypeOK /\ Delivery /\ delivered \in Nat
      /\ inFlight \in 1..delivered /\ inFlight = p + 1
      /\ stream[inFlight].wellFormed
      /\ Validating => Acceptable(inFlight)
  BY DEF IInv, TypeOK, Land, InSequence
<1>2. UNCHANGED <<stream, delivered, pending, idle, pc, batch, resume>> /\ inFlight' = 0
  BY DEF Land, redis
<1>3. \A c \in Consumers : OnCourse(p, c)'
  BY <1>1, <1>2 DEF InSequence, OnCourse
<1>4. Frontier(p)'
  <2>1. CASE UNCHANGED <<ledger, auction>>
    BY <1>1, <1>2, <2>1, FrontierStays DEF InSequence, ledgerVars
  <2>2. CASE Accept(BidOf(inFlight))
    <3>1. PICK i \in 1..delivered : i = inFlight
      BY <1>1
    <3>2. BidOf(i) \in Bids /\ BidOf(i).key = stream[i].key /\ Accept(BidOf(i))
      BY <1>1, <2>2, <3>1, BidOfEntry
    <3>3. ~ KeyInLedger(stream[i].key)
      BY <3>2 DEF Accept
    <3>4. ReplayedTo(p)
      BY <1>1, <3>1, <3>3 DEF InSequence, Frontier
    <3>5. i - 1 = p /\ i = p + 1
      BY <1>1, <3>1
    <3>6. ReplayedTo(i)'
      BY <1>1, <1>2, <3>1, <3>2, <3>4, <3>5, RowAdded
    <3>7. KeyInLedger(stream[i].key)'
      <4>1. PICK b \in Bids : b = BidOf(i)
        BY <3>2
      <4>2. KeyInLedger(b.key)'
        BY <1>1, <3>2, <4>1, AcceptedKey DEF TypeOK
      <4>3. b.key = stream'[i].key
        BY <1>2, <3>2, <4>1
      <4>4. QED
        BY <4>2, <4>3 DEF KeyInLedger
    <3>8. p < delivered'
      BY <1>1, <1>2
    <3>9. QED
      BY <3>5, <3>6, <3>7, <3>8 DEF Frontier
  <2>3. QED
    BY <2>1, <2>2 DEF Land
<1>5. QED
  BY <1>2, <1>3, <1>4 DEF InSequence

\* XAUTOCLAIM takes the first entries that are not settled, up to the next cursor.
LEMMA SequenceClaim ==
  ASSUME IInv, IInv', Next, SerialConsumer, NEW p \in 0..delivered, InSequence(p),
         NEW c \in Consumers, Claim(c)
  PROVE  InSequence(p)'
<1>1. TypeOK /\ delivered \in Nat /\ p \in Nat /\ OnCourse(p, c) /\ pc[c] = "claim"
  BY DEF IInv, TypeOK, InSequence, Claim
<1>2. /\ batch[c] = <<>> /\ Len(batch[c]) = 0
      /\ inFlight = 0
      /\ resume[c] \in Nat /\ resume[c] =< p + 1
      /\ pending = (p + 1)..delivered /\ idle = pending
  <2>1. batch[c] = <<>> /\ Len(batch[c]) = 0
    BY <1>1, EmptySeq DEF OnCourse
  <2>2. resume[c] \in Nat /\ resume[c] =< p + 0 + 1 /\ inFlight = 0
        /\ (p + 0 + 1)..delivered \subseteq idle
    BY <1>1, <2>1 DEF OnCourse, TypeOK
  <2>3. pending = (p + 1)..delivered /\ idle \subseteq pending
    BY <1>1 DEF InSequence, TypeOK
  <2>4. (p + 1)..delivered \subseteq idle /\ resume[c] =< p + 1
    BY <1>1, <2>2
  <2>5. idle = pending
    BY <2>3, <2>4
  <2>6. QED
    BY <2>1, <2>2, <2>3, <2>4, <2>5
<1> DEFINE ahead == {i \in pending : i >= resume[c]}
           scan == Lowest(ahead, ScanLimit)
           claimed == Lowest(scan \cap idle, RecoveryBatchSize)
           passed == IF Cardinality(claimed) < RecoveryBatchSize THEN scan ELSE claimed
           later == {i \in ahead : \A j \in passed : i > j}
           next == IF later = {} THEN NewEntries ELSE CHOOSE i \in later : \A j \in later : i =< j
           last == IF delivered < p + ScanLimit THEN delivered ELSE p + ScanLimit
           n == IF last < p + RecoveryBatchSize THEN last - p ELSE RecoveryBatchSize
<1>3. /\ idle' = idle \ claimed /\ StartBatch(c, InOrder(claimed), next)
      /\ UNCHANGED <<stream, delivered, pending, ledger, auction, inFlight>>
  BY DEF Claim, postgres
<1>4. /\ RecoveryBatchSize \in Nat \ {0} /\ ScanLimit \in Nat \ {0}
      /\ last \in Nat /\ p =< last /\ last =< delivered
      /\ n \in Nat /\ p + n =< last /\ p + n =< delivered
      /\ n < RecoveryBatchSize => p + n = last
      /\ p < delivered => n # 0
  BY <1>1, BatchAssumption
<1>5. ahead = (p + 1)..delivered
  BY <1>1, <1>2
<1>6. scan = (p + 1)..last /\ scan \cap idle = scan
  <2>1. scan = (p + 1)..last
    <3> HIDE DEF ahead, n
    <3>1. Lowest((p + 1)..delivered, ScanLimit) = (p + 1)..last
      BY <1>1, <1>4, LowestOfInterval
    <3>2. QED
      BY <1>5, <3>1
  <2>2. scan \subseteq idle
    <3> HIDE DEF last, n, scan
    <3>1. QED
      BY <1>1, <1>2, <1>4, <2>1
  <2>3. QED
    BY <2>1, <2>2
<1> HIDE DEF ahead, scan
<1>7. claimed = (p + 1)..(p + n)
  <2>1. p + n = IF last < p + RecoveryBatchSize THEN last ELSE p + RecoveryBatchSize
    BY <1>1, <1>4
  <2> HIDE DEF n, last
  <2>2. Lowest((p + 1)..last, RecoveryBatchSize)
          = (p + 1)..(IF last < p + RecoveryBatchSize THEN last ELSE p + RecoveryBatchSize)
    BY <1>1, <1>4, LowestOfInterval
  <2>3. QED
    BY <1>6, <2>1, <2>2
<1> HIDE DEF claimed, n, last
<1>8. InOrder(claimed) = [k \in 1..n |-> p + k] /\ Cardinality(claimed) = n
  BY <1>1, <1>4, <1>7, InOrderOfInterval
<1>9. passed = (p + 1)..(p + n)
  BY <1>4, <1>6, <1>7, <1>8
<1>10. later = (p + n + 1)..delivered
  <2> HIDE DEF passed
  <2>1. CASE n = 0
    <3>1. p = delivered
      BY <1>1, <1>4, <2>1
    <3>2. ahead = {} /\ (p + n + 1)..delivered = {}
      BY <1>1, <1>5, <2>1, <3>1
    <3>3. QED
      BY <3>2
  <2>2. CASE n # 0
    <3>1. p + n \in passed /\ \A j \in passed : j =< p + n
      BY <1>1, <1>4, <1>9, <2>2
    <3>2. \A i \in ahead : (\A j \in passed : i > j) <=> i > p + n
      BY <1>1, <1>4, <1>5, <1>9, <3>1
    <3>3. later = {i \in ahead : i > p + n}
      BY <3>2
    <3> HIDE DEF later
    <3>4. \A i \in Int : i \in ahead /\ i > p + n <=> i \in (p + n + 1)..delivered
      BY <1>1, <1>4, <1>5
    <3>5. ahead \subseteq Int /\ (p + n + 1)..delivered \subseteq Int
      BY <1>5
    <3>6. QED
      BY <3>3, <3>4, <3>5
  <2>3. QED
    BY <2>1, <2>2
<1> HIDE DEF passed, later
<1>11. IF next = NewEntries THEN p + n = delivered ELSE next \in Nat /\ next =< p + n + 1
  <2>1. CASE later = {}
    <3>1. next = NewEntries
      BY <2>1
    <3>2. p + n = delivered
      BY <1>1, <1>4, <1>10, <2>1
    <3> HIDE DEF next
    <3>3. QED
      BY <3>1, <3>2
  <2>2. CASE later # {}
    <3>1. p + n + 1 \in later /\ \A j \in later : p + n + 1 =< j
      BY <1>1, <1>4, <1>10, <2>2
    <3>2. \A i \in later : (\A j \in later : i =< j) => i = p + n + 1
      BY <1>1, <1>4, <1>10, <3>1
    <3>3. next = p + n + 1
      BY <2>2, <3>1, <3>2
    <3> HIDE DEF next
    <3>4. p + n + 1 # NewEntries /\ p + n + 1 \in Nat
      BY <1>1, <1>4 DEF NewEntries
    <3>5. QED
      BY <3>3, <3>4
  <2>3. QED
    BY <2>1, <2>2
<1> HIDE DEF next
<1>12. (p + n + 1)..delivered \subseteq idle'
  BY <1>1, <1>2, <1>3, <1>4, <1>7
<1>13. OnCourse(p, c)'
  <2>1. StartBatch(c, [k \in 1..n |-> p + k], next)
    BY <1>3, <1>8
  <2>2. delivered' = delivered /\ inFlight' = 0
    BY <1>2, <1>3
  <2>3. IF next = NewEntries THEN p + n = delivered' ELSE next \in Nat /\ next =< p + n + 1
    BY <1>11, <2>2
  <2>4. QED
    BY <1>1, <1>4, <1>12, <2>1, <2>2, <2>3, CourseStarted
<1>14. Frontier(p)'
  BY <1>1, <1>3, FrontierStays DEF InSequence, ledgerVars
<1>15. QED
  BY <1>2, <1>3, <1>13, <1>14 DEF InSequence, SerialConsumer

\* XREADGROUP comes when everything is settled, and appends to the pending list.
LEMMA SequenceRead ==
  ASSUME IInv, IInv', Next, SerialConsumer, NEW p \in 0..delivered, InSequence(p),
         NEW c \in Consumers, ReadGroup(c)
  PROVE  InSequence(p)' /\ p \in 0..delivered'
<1>1. /\ TypeOK /\ Delivery /\ delivered \in Nat /\ p \in Nat /\ p = delivered /\ inFlight = 0
      /\ Len(stream) \in Nat /\ pending = (p + 1)..delivered
  BY DEF IInv, TypeOK, InSequence, OnCourse, ReadGroup
<1> DEFINE last == IF Len(stream) < delivered + BatchSize THEN Len(stream)
                                                           ELSE delivered + BatchSize
           fresh == (delivered + 1)..last
           n == last - p
<1>2. /\ delivered' = last /\ pending' = pending \cup fresh /\ StartBatch(c, InOrder(fresh), 0)
      /\ UNCHANGED <<stream, ledger, auction, inFlight>>
  BY DEF ReadGroup, postgres
<1>3. last \in Nat /\ delivered =< last /\ n \in Nat
  BY <1>1, BatchAssumption DEF Delivery
<1>4. fresh = (p + 1)..(p + n) /\ p + n = last
  BY <1>1, <1>3
<1> HIDE DEF last
<1>5. pending' = (p + 1)..delivered'
  BY <1>1, <1>2, <1>3, <1>4
<1>6. InOrder(fresh) = [k \in 1..n |-> p + k]
  <2> HIDE DEF n, fresh
  <2>1. QED
    BY <1>1, <1>3, <1>4, InOrderOfInterval
<1>7. OnCourse(p, c)'
  <2>1. 0 # NewEntries /\ 0 =< p + n + 1 /\ (p + n + 1)..delivered' \subseteq idle'
    BY <1>1, <1>2, <1>3, <1>4 DEF NewEntries
  <2>2. delivered' \in Nat /\ p + n =< delivered' /\ inFlight' = 0
    BY <1>1, <1>2, <1>3, <1>4
  <2>3. StartBatch(c, [k \in 1..n |-> p + k], 0)
    BY <1>2, <1>6
  <2> HIDE DEF n, fresh
  <2>4. QED
    BY <1>1, <1>3, <2>1, <2>2, <2>3, CourseStarted
<1>8. Frontier(p)'
  <2>1. delivered' \in Nat /\ delivered =< delivered' /\ UNCHANGED ledgerVars
    BY <1>2, <1>3 DEF ledgerVars
  <2>2. QED
    BY <2>1, FrontierStays DEF InSequence
<1>9. p \in 0..delivered'
  BY <1>1, <1>2, <1>3
<1>10. QED
  BY <1>1, <1>2, <1>5, <1>7, <1>8, <1>9 DEF InSequence, SerialConsumer

----------------------------------------------------------------------------
\* A consumer that has stopped is on course: it starts over with what is pending.
LEMMA CourseStopped ==
  ASSUME TypeOK, NEW c \in Consumers, NEW p \in 0..delivered, Stop(c), delivered' = delivered
  PROVE  OnCourse(p, c)'
<1>1. batch'[c] = <<>> /\ pc'[c] = "down" /\ resume'[c] = 0 /\ delivered \in Nat
  BY DEF TypeOK, Stop
<1>2. Len(batch'[c]) = 0
  BY <1>1, EmptySeq
<1>3. batch'[c] = [k \in 1..Len(batch'[c]) |-> p + k]
  BY <1>1, <1>2
<1>4. QED
  BY <1>1, <1>2, <1>3 DEF OnCourse

\* The entry after the settled ones is one that adds nothing.
LEMMA NextAddsNothing ==
  ASSUME IInv, Next, UNCHANGED ledgerVars, NEW p \in 0..delivered, Frontier(p),
         NEW i \in 1..delivered, i = p + 1,
         KeyInLedger(stream[i].key) \/ (Validating /\ ~ Acceptable(i))
  PROVE  ReplayedTo(p + 1)'
<1>1. TypeOK /\ Delivery /\ delivered \in Nat
  BY DEF IInv, TypeOK
<1>2. i - 1 = p /\ i \in 0..delivered
  BY <1>1
<1>3. ReplayedTo(i)
  BY <1>1, <1>2, NothingAdded DEF Frontier
<1>4. ReplayedTo(i)'
  BY <1>2, <1>3, ReplayedStays
<1>5. QED
  BY <1>4

\* The entry after the settled ones is one that is accepted.
LEMMA NextAddsRow ==
  ASSUME IInv, UNCHANGED <<stream, delivered>>, NEW p \in 0..delivered, Frontier(p),
         NEW i \in 1..delivered, i = p + 1,
         stream[i].wellFormed, Validating => Acceptable(i), Accept(BidOf(i))
  PROVE  Frontier(p)' /\ ReplayedTo(p + 1)'
<1>1. TypeOK /\ Delivery /\ delivered \in Nat
  BY DEF IInv, TypeOK
<1>2. BidOf(i) \in Bids /\ BidOf(i).key = stream[i].key
  BY <1>1, BidOfEntry
<1>3. ~ KeyInLedger(stream[i].key)
  BY <1>2 DEF Accept
<1>4. ReplayedTo(i - 1) /\ p < delivered
  BY <1>1, <1>3 DEF Frontier
<1>5. ReplayedTo(i)'
  BY <1>1, <1>4, RowAdded
<1>6. KeyInLedger(stream[i].key)'
  <2>1. PICK b \in Bids : b = BidOf(i)
    BY <1>2
  <2>2. KeyInLedger(b.key)'
    BY <1>1, <2>1, AcceptedKey DEF TypeOK
  <2>3. b.key = stream'[i].key
    BY <1>2, <2>1
  <2>4. QED
    BY <2>2, <2>3 DEF KeyInLedger
<1>7. QED
  BY <1>4, <1>5, <1>6 DEF Frontier

LEMMA SequenceValidate ==
  ASSUME IInv, Next, SerialConsumer, NEW p \in 0..delivered, InSequence(p),
         NEW c \in Consumers, Validate(c)
  PROVE  InSequence(p)'
<1>1. TypeOK /\ delivered \in Nat /\ OnCourse(p, c) /\ pc[c] = "validate"
  BY DEF IInv, TypeOK, InSequence, Validate
<1>2. Validating /\ inFlight = 0
  BY <1>1 DEF OnCourse
<1>3. UNCHANGED <<stream, delivered, pending, idle, ledger, auction, inFlight, batch, resume>>
  BY DEF Validate, redis, postgres
<1>4. PICK i \in 1..delivered : i = Head(batch[c]) /\ i = p + 1
  BY <1>1, HeadIsNext
<1>5. Frontier(p)'
  BY <1>1, <1>3, FrontierStays DEF InSequence, ledgerVars
<1>6. OnCourse(p, c)'
  <2>1. CASE Acceptable(i)
    <3>1. pc'[c] = "persist"
      BY <1>1, <1>4, <2>1 DEF Validate, TypeOK
    <3>2. Acceptable(i)'
      BY <1>3, <2>1 DEF Acceptable, SubmittedAt, CurrentPrice
    <3>3. Acceptable(p + 1)'
      BY <1>4, <3>2
    <3>4. QED
      BY <1>1, <1>3, <3>1, <3>3 DEF OnCourse
  <2>2. CASE ~ Acceptable(i)
    <3>1. pc'[c] = "ack"
      BY <1>1, <1>4, <2>2 DEF Validate, TypeOK
    <3>2. ReplayedTo(p + 1)'
      BY <1>2, <1>3, <1>4, <2>2, NextAddsNothing DEF InSequence, ledgerVars
    <3>3. QED
      BY <1>1, <1>3, <3>1, <3>2 DEF OnCourse
  <2>3. QED
    BY <2>1, <2>2
<1>7. QED
  BY <1>2, <1>3, <1>5, <1>6 DEF InSequence, SerialConsumer

LEMMA SequencePersist ==
  ASSUME IInv, Next, SerialConsumer, NEW p \in 0..delivered, InSequence(p),
         NEW c \in Consumers, Persist(c)
  PROVE  InSequence(p)'
<1>1. TypeOK /\ delivered \in Nat /\ OnCourse(p, c) /\ pc[c] = "persist"
  BY DEF IInv, TypeOK, InSequence, Persist
<1>2. inFlight = 0 /\ (Validating => Acceptable(p + 1))
  BY <1>1 DEF OnCourse
<1>3. UNCHANGED <<stream, delivered, pending, idle, inFlight>>
  BY DEF Persist, redis
<1>4. PICK i \in 1..delivered : i = Head(batch[c]) /\ i = p + 1
  BY <1>1, HeadIsNext
<1>5. Frontier(p)' /\ OnCourse(p, c)'
  <2>1. CASE UNCHANGED <<ledger, auction>> /\ Stop(c)
    BY <1>1, <1>3, <2>1, FrontierStays, CourseStopped DEF InSequence, ledgerVars
  <2>2. CASE ~ (UNCHANGED <<ledger, auction>> /\ Stop(c))
    <3>1. /\ stream[i].wellFormed
          /\ (KeyInLedger(stream[i].key) /\ UNCHANGED <<ledger, auction>>) \/ Accept(BidOf(i))
          /\ pc' = [pc EXCEPT ![c] = "ack"] /\ UNCHANGED <<batch, resume>>
      BY <1>4, <2>2 DEF Persist
    <3>2. Frontier(p)' /\ ReplayedTo(p + 1)'
      <4>1. CASE KeyInLedger(stream[i].key) /\ UNCHANGED <<ledger, auction>>
        BY <1>1, <1>3, <1>4, <4>1, FrontierStays, NextAddsNothing DEF InSequence, ledgerVars
      <4>2. CASE Accept(BidOf(i))
        BY <1>2, <1>3, <1>4, <3>1, <4>2, NextAddsRow DEF InSequence
      <4>3. QED
        BY <3>1, <4>1, <4>2
    <3>3. pc'[c] = "ack"
      BY <1>1, <3>1 DEF TypeOK
    <3>4. QED
      BY <1>1, <1>3, <3>1, <3>2, <3>3 DEF OnCourse
  <2>3. QED
    BY <2>1, <2>2
<1>6. QED
  BY <1>2, <1>3, <1>5 DEF InSequence, SerialConsumer

\* XACK settles one entry more.
LEMMA SequenceAck ==
  ASSUME IInv, Next, SerialConsumer, NEW p \in 0..delivered, InSequence(p),
         NEW c \in Consumers, Ack(c)
  PROVE  p + 1 \in 0..delivered' /\ InSequence(p + 1)'
<1>1. /\ TypeOK /\ delivered \in Nat /\ p \in Nat /\ OnCourse(p, c) /\ pc[c] = "ack"
      /\ pending = (p + 1)..delivered
  BY DEF IInv, TypeOK, InSequence, Ack
<1>2. Head(batch[c]) = p + 1 /\ p + 1 \in 1..delivered /\ Len(batch[c]) \in Nat \ {0}
  BY <1>1, HeadIsNext
<1>3. /\ pending' = pending \ {p + 1} /\ idle' = idle \ {p + 1}
      /\ StartBatch(c, Tail(batch[c]), resume[c])
      /\ UNCHANGED <<stream, delivered, ledger, auction, inFlight>>
  BY <1>2 DEF Ack, postgres
<1>4. PICK q \in 1..delivered : q = p + 1
  BY <1>2
<1> DEFINE n == Len(batch[c]) - 1
<1>5. n \in Nat /\ p + Len(batch[c]) = q + n /\ q \in Nat
  <2>1. q \in Nat /\ q = p + 1
    BY <1>4
  <2>2. Len(batch[c]) - 1 \in Nat
    BY <1>2
  <2>3. \A a, b \in Int : a + b = (a + 1) + (b - 1)
    OBVIOUS
  <2>4. p \in Int /\ Len(batch[c]) \in Int
    BY <1>1, <1>2
  <2>5. p + Len(batch[c]) = (p + 1) + (Len(batch[c]) - 1)
    BY <2>3, <2>4
  <2>6. QED
    BY <2>1, <2>2, <2>5
<1>6. Tail(batch[c]) = [k \in 1..n |-> q + k]
  <2>1. batch[c] = [k \in 1..Len(batch[c]) |-> p + k] /\ batch[c] \in Seq(1..delivered)
    BY <1>1 DEF OnCourse, TypeOK
  <2>2. Tail(batch[c]) = [k \in 1..n |-> batch[c][k + 1]]
    BY <1>2, <2>1, EmptySeq, HeadTailProperties
  <2>3. \A k \in 1..n : batch[c][k + 1] = q + k
    <3>1. \A k \in 1..n : k + 1 \in 1..Len(batch[c]) /\ p + (k + 1) = q + k
      BY <1>1, <1>2, <1>4
    <3>2. QED
      BY <2>1, <3>1
  <2>4. QED
    BY <2>2, <2>3
<1>7. /\ inFlight = 0
      /\ q + n =< delivered
      /\ (q + n + 1)..delivered \subseteq idle
      /\ IF resume[c] = NewEntries THEN q + n = delivered
                                   ELSE resume[c] \in Nat /\ resume[c] =< q + n + 1
  BY <1>1, <1>5 DEF OnCourse, TypeOK
<1>8. OnCourse(q, c)'
  <2>1. StartBatch(c, [k \in 1..n |-> q + k], resume[c])
    BY <1>3, <1>6
  <2> HIDE DEF n
  <2>2. q \notin (q + n + 1)..delivered
    BY <1>1, <1>5
  <2>3. delivered' \in Nat /\ q + n =< delivered' /\ inFlight' = 0
        /\ (q + n + 1)..delivered' \subseteq idle'
    BY <1>1, <1>3, <1>4, <1>7, <2>2
  <2>4. IF resume[c] = NewEntries THEN q + n = delivered'
                                  ELSE resume[c] \in Nat /\ resume[c] =< q + n + 1
    BY <1>3, <1>7
  <2>5. QED
    BY <1>1, <1>5, <2>1, <2>3, <2>4, CourseStarted
<1>9. Frontier(q)'
  <2>1. ReplayedTo(p + 1)
    BY <1>1 DEF OnCourse
  <2>2. ReplayedTo(q)'
    BY <1>3, <1>4, <2>1, ReplayedStays DEF ledgerVars
  <2>3. QED
    BY <2>2 DEF Frontier
<1>10. pending' = (q + 1)..delivered'
  BY <1>1, <1>3, <1>4
<1>11. InSequence(q)'
  BY <1>3, <1>7, <1>8, <1>9, <1>10 DEF InSequence, SerialConsumer
<1>12. QED
  BY <1>1, <1>2, <1>3, <1>4, <1>11

LEMMA SequenceFail ==
  ASSUME IInv, Next, SerialConsumer, NEW p \in 0..delivered, InSequence(p),
         NEW c \in Consumers, Fail(c) \/ FailInCommit(c)
  PROVE  InSequence(p)'
<1>1. TypeOK /\ delivered \in Nat /\ OnCourse(p, c) /\ pc[c] # "down"
  BY DEF IInv, TypeOK, InSequence, Fail, FailInCommit
<1>2. Stop(c) /\ UNCHANGED <<stream, delivered, pending, idle, ledger, auction>>
  BY DEF Fail, FailInCommit, redis, postgres
<1>3. Frontier(p)' /\ OnCourse(p, c)'
  BY <1>1, <1>2, FrontierStays, CourseStopped DEF InSequence, ledgerVars
<1>4. CASE Fail(c)
  <2>1. inFlight' = 0
    BY <1>1, <1>4 DEF Fail, OnCourse, postgres
  <2>2. QED
    BY <1>2, <1>3, <2>1 DEF InSequence, SerialConsumer
<1>5. CASE FailInCommit(c)
  <2>1. pc[c] = "persist"
    BY <1>5 DEF FailInCommit
  <2>2. PICK i \in 1..delivered : i = Head(batch[c]) /\ i = p + 1
    BY <1>1, <2>1, HeadIsNext
  <2>3. inFlight' = i /\ stream[i].wellFormed
    BY <1>5, <2>2 DEF FailInCommit
  <2>4. Validating => Acceptable(i)
    BY <1>1, <2>1, <2>2 DEF OnCourse
  <2>5. Validating => Acceptable(inFlight)'
    BY <1>2, <2>3, <2>4 DEF Acceptable, SubmittedAt, CurrentPrice
  <2>6. QED
    BY <1>2, <1>3, <2>2, <2>3, <2>5 DEF InSequence, SerialConsumer
<1>6. QED
  BY <1>4, <1>5

LEMMA SequenceRestart ==
  ASSUME IInv, Next, SerialConsumer, NEW p \in 0..delivered, InSequence(p),
         NEW c \in Consumers, Restart(c)
  PROVE  InSequence(p)' /\ delivered' = delivered
<1>1. TypeOK /\ Delivery /\ delivered \in Nat /\ p \in Nat /\ OnCourse(p, c) /\ pc[c] = "down"
  BY DEF IInv, TypeOK, InSequence, Restart
<1>2. /\ delivered' = delivered /\ pending = idle /\ inFlight = 0
      /\ UNCHANGED <<stream, pending, idle, ledger, auction, inFlight, batch, resume>>
      /\ pc' = [pc EXCEPT ![c] = "claim"]
  BY <1>1 DEF Restart, SerialConsumer, Delivery, GroupStart, postgres
<1>3. batch[c] = <<>> /\ resume[c] = 0 /\ Len(batch[c]) = 0 /\ pc'[c] = "claim"
  BY <1>1, <1>2, EmptySeq DEF OnCourse, TypeOK
<1>4. p + 0 =< delivered /\ (p + 0 + 1)..delivered = idle /\ 0 =< p + 0 + 1 /\ 0 # NewEntries
  BY <1>1, <1>2 DEF InSequence, NewEntries
<1>5. OnCourse(p, c)'
  BY <1>1, <1>2, <1>3, <1>4 DEF OnCourse
<1>6. Frontier(p)'
  BY <1>1, <1>2, FrontierStays DEF InSequence, ledgerVars
<1>7. QED
  BY <1>2, <1>5, <1>6 DEF InSequence, SerialConsumer

LEMMA SerialStep ==
  ASSUME IInv, IInv', Next, SerialConsumer, Serial
  PROVE  Serial'
<1>1. PICK p \in 0..delivered : InSequence(p)
  BY DEF Serial
<1>2. CASE Land
  <2>1. delivered' = delivered
    BY <1>2 DEF Land, redis
  <2>2. QED
    BY <1>1, <1>2, <2>1, SequenceLand DEF Serial
<1>3. CASE Reserve \/ \E i \in 1..MaxEntries : GoIdle(i)
  <2>1. /\ UNCHANGED <<ledgerVars, delivered, pending, inFlight, pc, batch, resume>>
        /\ idle \subseteq idle'
    BY <1>3 DEF Reserve, GoIdle, postgres, ledgerVars
  <2>2. QED
    BY <1>1, <2>1, SequenceStays DEF Serial
<1>4. ASSUME NEW c \in Consumers, Run(c) \/ Fail(c) \/ FailInCommit(c) \/ Restart(c)
      PROVE  Serial'
  <2>1. CASE Claim(c) \/ Validate(c) \/ Persist(c) \/ Fail(c) \/ FailInCommit(c)
    <3>1. delivered' = delivered
      BY <2>1 DEF Claim, Validate, Persist, Fail, FailInCommit, redis
    <3>2. InSequence(p)'
      BY <1>1, <2>1, SequenceClaim, SequenceValidate, SequencePersist, SequenceFail
    <3>3. QED
      BY <3>1, <3>2 DEF Serial
  <2>2. CASE ReadGroup(c)
    BY <1>1, <2>2, SequenceRead DEF Serial
  <2>3. CASE Ack(c)
    <3>1. PICK q : q = p + 1
      OBVIOUS
    <3>2. q \in 0..delivered' /\ InSequence(q)'
      BY <1>1, <2>3, <3>1, SequenceAck
    <3>3. QED
      BY <3>2 DEF Serial
  <2>4. CASE Restart(c)
    BY <1>1, <2>4, SequenceRestart DEF Serial
  <2>5. QED
    BY <1>4, <2>1, <2>2, <2>3, <2>4 DEF Run
<1>5. QED
  BY <1>2, <1>3, <1>4 DEF Next

\* At the start nothing is settled because nothing is there.
LEMMA SerialInit == Init => Serial
<1> SUFFICES ASSUME Init PROVE Serial
  OBVIOUS
<1>1. ReplayedTo(0)
  BY ReplayEquation DEF Init, LedgerInit, ReplayedTo, NothingReplayed
<1>2. \A c \in Consumers : OnCourse(0, c)
  <2>1. ASSUME NEW c \in Consumers PROVE OnCourse(0, c)
    <3>1. /\ batch[c] = <<>> /\ Len(batch[c]) = 0 /\ pc[c] = "down" /\ resume[c] = 0
          /\ delivered = 0
      BY EmptySeq DEF Init
    <3>2. batch[c] = [k \in 1..Len(batch[c]) |-> 0 + k]
      BY <3>1
    <3>3. QED
      BY <3>1, <3>2 DEF OnCourse
  <2>2. QED
    BY <2>1
<1>3. InSequence(0)
  BY <1>1, <1>2 DEF InSequence, Frontier, Init
<1>4. QED
  BY <1>3 DEF Serial, Init

\* "Deterministic bid ordering" (README.md:6): with a single consumer that is
\* restarted only when nothing of its predecessor is left, the ledger and the close
\* are at any time what the stream alone determines, for some number of entries
\* processed in ingress order that includes every acknowledged one, through crashes,
\* retries, and commits of unknown outcome (ledger_consumer.go:80-336).
THEOREM LedgerFollowsStream == ASSUME SerialConsumer PROVE Spec => []LedgerIsReplay
<1>1. IInv /\ IInv' /\ Serial /\ [Next]_vars => Serial'
  <2>1. ASSUME Serial, UNCHANGED vars PROVE Serial'
    <3>1. PICK p \in 0..delivered : InSequence(p)
      BY <2>1 DEF Serial
    <3>2. UNCHANGED <<stream, delivered, pending, idle, ledger, auction, inFlight, pc, batch, resume>>
      BY <2>1 DEF vars, redis, postgres
    <3>3. \A i : Acceptable(i) => Acceptable(i)'
      BY <3>2 DEF Acceptable, SubmittedAt, CurrentPrice
    <3>4. \A i : ReplayedTo(i) => ReplayedTo(i)'
      BY <3>2 DEF ReplayedTo
    <3>5. \A c \in Consumers : OnCourse(p, c)'
      BY <3>1, <3>2, <3>3, <3>4 DEF InSequence, OnCourse
    <3>6. Frontier(p)'
      BY <3>1, <3>2, <3>4 DEF InSequence, Frontier, KeyInLedger
    <3>7. inFlight' # 0 /\ Validating => Acceptable(inFlight)'
      BY <3>1, <3>2, <3>3 DEF InSequence, Acceptable, SubmittedAt
    <3>8. QED
      BY <3>1, <3>2, <3>5, <3>6, <3>7 DEF InSequence, Serial
  <2>2. QED
    BY <2>1, SerialStep
<1>2. IInv /\ Serial => LedgerIsReplay
  <2>1. ASSUME IInv, NEW p \in 0..delivered, InSequence(p) PROVE LedgerIsReplay
    <3>1. delivered \in Nat
      BY <2>1 DEF IInv, TypeOK
    <3>2. (1..delivered) \ pending \subseteq 1..p
      BY <2>1, <3>1 DEF InSequence
    <3>3. CASE ReplayedTo(p)
      BY <3>2, <3>3 DEF LedgerIsReplay
    <3>4. CASE p < delivered /\ ReplayedTo(p + 1)
      <4>1. PICK q : q = p + 1
        OBVIOUS
      <4>2. q \in 0..delivered /\ (1..delivered) \ pending \subseteq 1..q
        BY <3>1, <3>2, <3>4, <4>1
      <4>3. QED
        BY <3>4, <4>1, <4>2 DEF LedgerIsReplay
    <3>5. QED
      BY <2>1, <3>3, <3>4 DEF InSequence, Frontier
  <2>2. QED
    BY <2>1 DEF Serial
<1>3. QED
  BY SerialInit, Invariant, <1>1, <1>2, PTL DEF Spec

============================================================================
