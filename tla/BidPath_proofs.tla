--------------------------- MODULE BidPath_proofs ---------------------------
(***************************************************************************)
(* What the composition guarantees, for any number of consumers, any       *)
(* stream and any failures of the two components' models.                  *)
(*                                                                         *)
(* The relays leave the stream, the group and the ledger alone, so that    *)
(* everything proved of the consumers holds of the path.  Announcing is    *)
(* the relays' side for any number of them.  With one relay that does not  *)
(* start beside a lock its predecessor has left behind (SerialRelay) the   *)
(* events are announced and marked one by one in ledger order (InTurn),    *)
(* and what a follower hears is always the beginning of the ledger.  What  *)
(* OutboxRelay_proofs shows of a relay's step is used for several relays.  *)
(***************************************************************************)
EXTENDS BidPath, LedgerConsumer_proofs

Busy == {"publish", "mark", "commit"}

RelaysTypeOK ==
  /\ marked \in SUBSET DOMAIN ledger
  /\ channel \in Seq(DOMAIN ledger)
  /\ relayPc \in [Relays -> {"down", "select"} \cup Busy]
  /\ holding \in [Relays -> {0} \cup DOMAIN ledger]
  /\ orphans \in SUBSET DOMAIN ledger
  /\ committing \in SUBSET orphans
  /\ relayFailures \in Nat

\* A busy relay holds a row that is not marked, and that no other relay, alive or
\* dead, holds; the row is announced before it is marked.
Announcing ==
  /\ \A r \in Relays :
       /\ holding[r] # 0 <=> relayPc[r] \in Busy
       /\ holding[r] \notin marked \cup orphans
       /\ relayPc[r] \in {"mark", "commit"} => holding[r] \in Relay!Published
  /\ \A q, r \in Relays : q # r /\ holding[r] # 0 => holding[q] # holding[r]
  /\ orphans \cap marked = {}
  /\ committing \subseteq Relay!Published
  /\ marked \subseteq Relay!Published

----------------------------------------------------------------------------
\* The path is one of the consumers' specification: a relay leaves everything of
\* theirs alone, and what is proved of them holds of the path
\* (outbox_relay.go:96-185 touches only the outbox and Redis Pub/Sub).
THEOREM PathImplementsConsumers == PathSpec => Spec
<1>1. PathInit => Init
  BY DEF PathInit
<1>2. [PathNext]_pathVars => [Next]_vars
  BY DEF PathNext, ConsumerNext, RelayRun, RelayRestart, RelayFail, RelayVanish, RelayEndOrphan,
         pathVars
<1>3. QED
  BY <1>1, <1>2, PTL DEF PathSpec, Spec

LEMMA PathDomains ==
  ASSUME IInv, RelaysTypeOK
  PROVE  /\ Len(ledger) \in Nat /\ DOMAIN ledger = 1..Len(ledger)
         /\ Len(channel) \in Nat /\ DOMAIN channel = 1..Len(channel)
         /\ Relay!Published \in SUBSET DOMAIN ledger
         /\ \A k \in DOMAIN channel : channel[k] \in Relay!Published
         /\ LedgerTypeOK
<1>1. LedgerTypeOK
  BY DEF IInv, TypeOK
<1>2. /\ Len(ledger) \in Nat /\ DOMAIN ledger = 1..Len(ledger)
      /\ Len(channel) \in Nat /\ DOMAIN channel = 1..Len(channel)
  BY <1>1 DEF LedgerTypeOK, RelaysTypeOK
<1>3. \A k \in DOMAIN channel : channel[k] \in DOMAIN ledger
  BY <1>2, ElementOfSeq DEF RelaysTypeOK
<1>4. QED
  BY <1>1, <1>2, <1>3 DEF Relay!Published

\* The events of a ledger that grows: the rows that were there stay there.
LEMMA LedgerGrows ==
  ASSUME IInv, [Next]_vars
  PROVE  /\ DOMAIN ledger \subseteq DOMAIN ledger'
         /\ Len(ledger') \in Nat /\ Len(ledger) =< Len(ledger')
         /\ \A n \in DOMAIN ledger : ledger'[n] = ledger[n]
<1>1. LedgerTypeOK
  BY DEF IInv, TypeOK
<1>2. CASE UNCHANGED ledger
  BY <1>1, <1>2 DEF LedgerTypeOK
<1>3. ASSUME NEW b \in Bids, Accept(b)
      PROVE  /\ DOMAIN ledger \subseteq DOMAIN ledger'
             /\ Len(ledger') \in Nat /\ Len(ledger) =< Len(ledger')
             /\ \A n \in DOMAIN ledger : ledger'[n] = ledger[n]
  <2>1. /\ Len(ledger') = Len(ledger) + 1
        /\ DOMAIN ledger = 1..Len(ledger)
        /\ DOMAIN ledger' = 1..(Len(ledger) + 1)
        /\ \A n \in 1..Len(ledger) : ledger'[n] = ledger[n]
        /\ Len(ledger) \in Nat
    BY <1>1, <1>3, AcceptAppends DEF LedgerTypeOK
  <2>2. QED
    BY <2>1
<1>4. [LedgerNext]_ledgerVars
  BY StepOnLedger DEF vars, postgres, ledgerVars
<1>5. QED
  BY <1>2, <1>3, <1>4 DEF LedgerNext, ledgerVars

----------------------------------------------------------------------------
\* What each step of a relay does, with the outbox that the ledger is.
Free(n) == n \notin orphans /\ \A r \in Relays : holding[r] # n

LEMMA CandidateRows ==
  ASSUME RelaysTypeOK
  PROVE  Relay!Candidates = {n \in DOMAIN ledger : n \notin marked /\ Free(n)}
<1>1. DOMAIN Events = DOMAIN ledger /\ \A n \in DOMAIN ledger : Events[n].fate = "committed"
  BY DEF Events
<1>2. QED
  BY <1>1 DEF Relay!Candidates, Relay!Visible, Relay!Locked, Free

LEMMA RowChosen ==
  ASSUME IInv, RelaysTypeOK, NEW r \in Relays, Relay!Select(r)
  PROVE  /\ relayPc[r] = "select"
         /\ \E n \in DOMAIN ledger :
              /\ n \notin marked /\ Free(n)
              /\ \A m \in DOMAIN ledger : m \notin marked /\ Free(m) => n =< m
              /\ holding' = [holding EXCEPT ![r] = n]
         /\ relayPc' = [relayPc EXCEPT ![r] = "publish"]
         /\ UNCHANGED <<marked, channel, orphans, committing, relayFailures>>
<1>1. Relay!Candidates = {n \in DOMAIN ledger : n \notin marked /\ Free(n)}
  BY CandidateRows
<1>2. /\ relayPc[r] = "select"
      /\ Relay!Candidates # {}
      /\ holding' = [holding EXCEPT ![r] = Relay!Oldest(Relay!Candidates)]
      /\ relayPc' = [relayPc EXCEPT ![r] = "publish"]
      /\ UNCHANGED <<marked, channel, orphans, committing, relayFailures>>
  BY DEF Relay!Select
<1>3. Relay!Candidates \subseteq Nat
  BY <1>1, PathDomains
<1>4. \E n \in Relay!Candidates : \A m \in Relay!Candidates : n =< m
  BY <1>2, <1>3, LeastElement
<1>5. PICK n : n = Relay!Oldest(Relay!Candidates)
  OBVIOUS
<1>6. n \in Relay!Candidates /\ \A m \in Relay!Candidates : n =< m
  BY <1>4, <1>5 DEF Relay!Oldest
<1>7. QED
  BY <1>1, <1>2, <1>5, <1>6

LEMMA RowSent ==
  ASSUME IInv, RelaysTypeOK, Announcing, NEW r \in Relays, Relay!Publish(r)
  PROVE  /\ relayPc[r] = "publish"
         /\ holding[r] \in DOMAIN ledger
         /\ channel' = Append(channel, holding[r])
         /\ channel' \in Seq(DOMAIN ledger)
         /\ Relay!Published' = Relay!Published \cup {holding[r]}
         /\ relayPc' = [relayPc EXCEPT ![r] = "mark"]
         /\ UNCHANGED <<marked, holding, orphans, committing, relayFailures>>
<1>1. /\ relayPc[r] = "publish"
      /\ channel' = Append(channel, holding[r])
      /\ relayPc' = [relayPc EXCEPT ![r] = "mark"]
      /\ UNCHANGED <<marked, holding, orphans, committing, relayFailures>>
  BY DEF Relay!Publish, Relay!Announced
<1>2. holding[r] \in DOMAIN ledger
  BY <1>1 DEF Announcing, Busy, RelaysTypeOK
<1>3. /\ channel \in Seq(DOMAIN ledger) /\ Len(channel) \in Nat /\ DOMAIN channel = 1..Len(channel)
  BY PathDomains DEF RelaysTypeOK
<1>4. /\ channel' \in Seq(DOMAIN ledger)
      /\ Len(channel') = Len(channel) + 1
      /\ DOMAIN channel' = 1..(Len(channel) + 1)
      /\ \A k \in 1..Len(channel) : channel'[k] = channel[k]
      /\ channel'[Len(channel) + 1] = holding[r]
  BY <1>1, <1>2, <1>3, AppendProperties
<1>5. Relay!Published' = Relay!Published \cup {holding[r]}
  <2>1. 1..(Len(channel) + 1) = (1..Len(channel)) \cup {Len(channel) + 1}
    BY <1>3
  <2>2. QED
    BY <1>3, <1>4, <2>1 DEF Relay!Published
<1>6. QED
  BY <1>1, <1>2, <1>4, <1>5

\* The other steps of a running relay, and its restart, announce nothing and leave
\* the locks of dead relays alone.
Quiet(r) ==
  \/ UNCHANGED <<marked, holding, relayPc>>
  \/ /\ relayPc[r] = "mark"
     /\ relayPc' = [relayPc EXCEPT ![r] = "commit"]
     /\ UNCHANGED <<marked, holding>>
  \/ /\ relayPc[r] = "commit"
     /\ marked' = marked \cup {holding[r]}
     /\ holding' = [holding EXCEPT ![r] = 0]
     /\ relayPc' = [relayPc EXCEPT ![r] = "select"]
  \/ /\ relayPc' = [relayPc EXCEPT ![r] = "down"]
     /\ holding' = [holding EXCEPT ![r] = 0]
     /\ UNCHANGED marked
  \/ /\ relayPc[r] = "down"
     /\ RestartAfterRelease => orphans = {}
     /\ relayPc' = [relayPc EXCEPT ![r] = "select"]
     /\ UNCHANGED <<marked, holding>>

\* What the relays and the connections of dead ones do.
RelayMoves(r) == RelayRun(r) \/ RelayRestart(r) \/ RelayFail(r) \/ RelayVanish(r)

LEMMA RelayStep ==
  ASSUME Announcing, NEW r \in Relays, RelayMoves(r)
  PROVE  /\ UNCHANGED vars
         /\ \/ Relay!Select(r)
            \/ Relay!Publish(r)
            \/ Quiet(r) /\ UNCHANGED <<channel, orphans, committing>>
            \/ Relay!Vanish(r)
<1>1. /\ UNCHANGED vars
      /\ Relay!Run(r) \/ Relay!Restart(r) \/ Relay!Fail(r) \/ Relay!Vanish(r)
  BY DEF RelayMoves, RelayRun, RelayRestart, RelayFail, RelayVanish
<1>2. holding[r] \notin marked
  BY DEF Announcing
<1>3. CASE Relay!Poll(r)
  BY <1>1, <1>3 DEF Relay!Poll, Relay!vars, Quiet
<1>4. CASE Relay!Mark(r)
  BY <1>1, <1>2, <1>4 DEF Relay!Mark, Quiet
<1>5. CASE Relay!Commit(r)
  BY <1>1, <1>5 DEF Relay!Commit, Quiet
<1>6. CASE Relay!Restart(r)
  BY <1>1, <1>6 DEF Relay!Restart, Quiet
<1>7. CASE Relay!Fail(r)
  BY <1>1, <1>7 DEF Relay!Fail, Relay!Stop, Quiet
<1>8. QED
  BY <1>1, <1>3, <1>4, <1>5, <1>6, <1>7 DEF Relay!Run

----------------------------------------------------------------------------
(***************************************************************************)
(* A step of the relays is one of OutboxRelay's, and what                  *)
(* OutboxRelay_proofs shows of it holds here.  A commit of a consumer is   *)
(* not: its event appears committed in one step, where OutboxRelay has it  *)
(* open first.  But the new row is behind all others and nothing else      *)
(* changes for the relays.                                                 *)
(***************************************************************************)
RelayFacts == INSTANCE OutboxRelay_proofs
                WITH Auctions <- {ThisAuction}, MaxRows <- MaxEntries,
                     MaxFailures <- MaxRelayFailures, outbox <- Events,
                     pc <- relayPc, failures <- relayFailures

LEMMA RelayAssumptions == RelayFacts!BoundsAssumption /\ RelayFacts!LingeringAssumption
BY BoundsAssumption, RelayBoundAssumption, RelayDeploymentAssumption
   DEF RelayFacts!BoundsAssumption, RelayFacts!LingeringAssumption

LEMMA EventRows ==
  ASSUME IInv
  PROVE  /\ Events \in Seq(RelayFacts!Row)
         /\ Len(Events) = Len(ledger) /\ DOMAIN Events = DOMAIN ledger
         /\ \A n \in DOMAIN ledger : Events[n].fate = "committed"
<1>1. Len(ledger) \in Nat /\ DOMAIN ledger = 1..Len(ledger)
  BY DEF IInv, TypeOK, LedgerTypeOK
<1>2. Events \in [1..Len(ledger) -> RelayFacts!Row]
  BY <1>1 DEF Events, RelayFacts!Row
<1>3. QED
  BY <1>1, <1>2, SeqDef DEF Events

LEMMA RelayNext ==
  ASSUME NEW r \in Relays, RelayMoves(r)
  PROVE  RelayFacts!Next
<1>1. Relay!Run(r) \/ Relay!Restart(r) \/ Relay!Fail(r) \/ Relay!Vanish(r)
  BY DEF RelayMoves, RelayRun, RelayRestart, RelayFail, RelayVanish
<1>2. CASE Relay!Run(r)
  BY <1>2 DEF RelayFacts!Next, RelayFacts!Run, Relay!Run, Relay!Select, RelayFacts!Select,
    Relay!Poll, RelayFacts!Poll, Relay!Publish, RelayFacts!Publish, Relay!Announced,
    RelayFacts!Announced, Relay!Mark, RelayFacts!Mark, Relay!Commit, RelayFacts!Commit,
    Relay!Candidates, RelayFacts!Candidates, Relay!Oldest, RelayFacts!Oldest,
    Relay!Visible, RelayFacts!Visible, Relay!Locked, RelayFacts!Locked, Relay!vars, RelayFacts!vars
<1>3. CASE Relay!Restart(r)
  BY <1>3 DEF RelayFacts!Next, Relay!Restart, RelayFacts!Restart
<1>4. CASE Relay!Fail(r)
  BY <1>4 DEF RelayFacts!Next, Relay!Fail, RelayFacts!Fail, Relay!Stop, RelayFacts!Stop
<1>5. CASE Relay!Vanish(r)
  BY <1>5 DEF RelayFacts!Next, Relay!Vanish, RelayFacts!Vanish, Relay!Stop, RelayFacts!Stop
<1>6. QED
  BY <1>1, <1>2, <1>3, <1>4, <1>5

LEMMA OrphanNext ==
  ASSUME NEW n \in 1..MaxEntries, RelayEndOrphan(n)
  PROVE  RelayFacts!Next
BY DEF RelayEndOrphan, RelayFacts!Next, Relay!EndOrphan, RelayFacts!EndOrphan

----------------------------------------------------------------------------
\* The relays' side, for any number of relays: Base of OutboxRelay_proofs.
Sound == RelaysTypeOK /\ Announcing

LEMMA RelayBase == ASSUME IInv, Sound PROVE RelayFacts!Base
<1>1. /\ Events \in Seq(RelayFacts!Row) /\ DOMAIN Events = DOMAIN ledger
      /\ \A n \in DOMAIN ledger : Events[n].fate = "committed"
  BY EventRows
<1>2. RelayFacts!Published = Relay!Published
  BY DEF RelayFacts!Published, Relay!Published
<1>3. RelayFacts!TypeOK
  BY <1>1 DEF Sound, RelaysTypeOK, RelayFacts!TypeOK, Busy
<1>4. RelayFacts!Locking
  BY <1>1, <1>2 DEF Sound, RelaysTypeOK, Announcing, RelayFacts!Locking, Busy
<1>5. RelayFacts!AnnouncedAndMarked
  BY <1>1, <1>2, PathDomains DEF Sound, Announcing, RelayFacts!AnnouncedAndMarked
<1>6. RelayFacts!Closed
  BY <1>1 DEF RelayFacts!Closed
<1>7. QED
  BY <1>3, <1>4, <1>5, <1>6 DEF RelayFacts!Base

LEMMA BaseSound == ASSUME IInv, RelayFacts!Base PROVE Sound
<1>1. /\ RelayFacts!TypeOK /\ RelayFacts!Locking /\ RelayFacts!AnnouncedAndMarked
      /\ DOMAIN Events = DOMAIN ledger
  BY EventRows DEF RelayFacts!Base
<1>2. RelayFacts!Published = Relay!Published
  BY DEF RelayFacts!Published, Relay!Published
<1>3. RelaysTypeOK
  BY <1>1 DEF RelaysTypeOK, RelayFacts!TypeOK, Busy
<1>4. 0 \notin marked \cup orphans
  BY <1>3, PathDomains DEF RelaysTypeOK
<1>5. Announcing
  BY <1>1, <1>2, <1>3, <1>4
     DEF RelaysTypeOK, Announcing, RelayFacts!Locking, RelayFacts!AnnouncedAndMarked, Busy
<1>6. QED
  BY <1>3, <1>5 DEF Sound

LEMMA SoundConsumers ==
  ASSUME IInv, Sound, [Next]_vars, UNCHANGED relayVars
  PROVE  Sound'
<1>1. /\ UNCHANGED <<marked, channel, relayPc, holding, orphans, committing, relayFailures>>
      /\ DOMAIN ledger \subseteq DOMAIN ledger'
  BY LedgerGrows DEF relayVars
<1>2. channel \in Seq(DOMAIN ledger')
  BY <1>1, SeqMonotonic DEF Sound, RelaysTypeOK
<1>3. RelaysTypeOK'
  BY <1>1, <1>2 DEF Sound, RelaysTypeOK
<1>4. Announcing'
  BY <1>1 DEF Sound, Announcing, Relay!Published
<1>5. QED
  BY <1>3, <1>4 DEF Sound

LEMMA SoundRelays ==
  IInv /\ IInv' /\ Sound /\ RelayFacts!Next => Sound'
<1> SUFFICES ASSUME IInv, IInv', Sound, RelayFacts!Next PROVE Sound'
  OBVIOUS
<1>1. RelayFacts!Base
  BY RelayBase
<1>2. RelayFacts!Base'
  BY <1>1, RelayAssumptions, RelayFacts!StepBase
<1>3. QED
  BY <1>2, BaseSound, PTL

LEMMA SoundInit == PathInit => Sound
<1> SUFFICES ASSUME PathInit PROVE Sound
  OBVIOUS
<1>1. /\ marked = {} /\ channel = <<>> /\ orphans = {} /\ committing = {} /\ relayFailures = 0
      /\ relayPc = [r \in Relays |-> "down"] /\ holding = [r \in Relays |-> 0]
  BY DEF PathInit, Relay!Init
<1>2. RelaysTypeOK
  BY <1>1 DEF RelaysTypeOK, Busy
<1>3. Announcing
  BY <1>1 DEF Announcing, Busy
<1>4. QED
  BY <1>2, <1>3 DEF Sound

LEMMA SoundStep == IInv /\ IInv' /\ Sound /\ [PathNext]_pathVars => Sound'
<1> SUFFICES ASSUME IInv, IInv', Sound, [PathNext]_pathVars PROVE Sound'
  OBVIOUS
<1>1. CASE ConsumerNext \/ UNCHANGED pathVars
  BY <1>1, SoundConsumers DEF ConsumerNext, pathVars
<1>2. ASSUME NEW r \in Relays, RelayMoves(r) PROVE Sound'
  BY <1>2, RelayNext, SoundRelays
<1>3. ASSUME NEW n \in 1..MaxEntries, RelayEndOrphan(n) PROVE Sound'
  BY <1>3, OrphanNext, SoundRelays
<1>4. QED
  BY <1>1, <1>2, <1>3 DEF PathNext, RelayMoves

LEMMA PathInvariant == PathSpec => [](IInv /\ Sound)
<1>1. PathSpec => []IInv
  BY PathImplementsConsumers, Invariant, PTL
<1>2. QED
  BY <1>1, SoundStep, SoundInit, PTL DEF PathSpec

\* Any number of relays announce only what is in the ledger, and mark only what
\* they announced, whatever the consumers do meanwhile (outbox.go:42-53).
THEOREM PathMarksAnnounced == PathSpec => []Relay!AnnouncedAndMarked
<1>1. IInv /\ Sound => Relay!AnnouncedAndMarked
  <2> SUFFICES ASSUME IInv, Sound PROVE Relay!AnnouncedAndMarked
    OBVIOUS
  <2>1. \A n \in Relay!Published : Events[n].fate = "committed"
    BY PathDomains DEF Sound, Events
  <2>2. QED
    BY <2>1 DEF Sound, Announcing, Relay!AnnouncedAndMarked
<1>2. QED
  BY PathInvariant, <1>1, PTL

----------------------------------------------------------------------------
\* Where a row was first announced.
LEMMA FirstPlace ==
  ASSUME IInv, RelaysTypeOK, NEW n \in Relay!Published
  PROVE  /\ Relay!FirstAt(n) \in DOMAIN channel
         /\ channel[Relay!FirstAt(n)] = n
         /\ \A j \in 1..(Relay!FirstAt(n) - 1) : channel[j] # n
<1> DEFINE places == {k \in DOMAIN channel : channel[k] = n}
<1>1. DOMAIN channel = 1..Len(channel) /\ Len(channel) \in Nat
  BY PathDomains
<1>2. places \subseteq Nat /\ places # {}
  BY <1>1 DEF Relay!Published
<1>3. PICK k \in places : \A j \in places : k =< j
  <2> HIDE DEF places
  <2>1. QED
    BY <1>2, LeastElement
<1>4. \A j \in 1..(k - 1) : channel[j] # n
  BY <1>1, <1>3
<1>5. QED
  BY <1>3, <1>4 DEF Relay!FirstAt

LEMMA FirstPlaceUnique ==
  ASSUME NEW s, NEW l \in Nat, DOMAIN s = 1..l, NEW n,
         NEW i \in 1..l, s[i] = n, \A k \in 1..(i - 1) : s[k] # n,
         NEW j \in 1..l, s[j] = n, \A k \in 1..(j - 1) : s[k] # n
  PROVE  i = j
<1>1. ~ (i < j) /\ ~ (j < i)
  OBVIOUS
<1>2. QED
  BY <1>1

\* An announcement does not change the place of the rows announced before, and
\* comes behind them.
LEMMA FirstPlaces ==
  ASSUME IInv, RelaysTypeOK, NEW row \in DOMAIN ledger, channel' = Append(channel, row)
  PROVE  /\ \A n \in Relay!Published : Relay!FirstAt(n)' = Relay!FirstAt(n)
         /\ row \notin Relay!Published => Relay!FirstAt(row)' = Len(channel) + 1
<1> DEFINE l == Len(channel) + 1
<1>1. /\ channel \in Seq(DOMAIN ledger) /\ Len(channel) \in Nat
      /\ DOMAIN channel = 1..Len(channel) /\ l \in Nat /\ Len(channel) < l
      /\ \A k \in 1..l : k \in 1..Len(channel) \/ k = l
  BY PathDomains DEF RelaysTypeOK
<1>2. /\ DOMAIN channel' = 1..l
      /\ \A k \in 1..Len(channel) : channel'[k] = channel[k]
      /\ channel'[l] = row
  BY <1>1, AppendProperties
<1> HIDE DEF l
<1>3. ASSUME NEW n, NEW i \in 1..l, channel'[i] = n, \A k \in 1..(i - 1) : channel'[k] # n
      PROVE  Relay!FirstAt(n)' = i
  <2>1. \A j \in 1..l : channel'[j] = n /\ (\A k \in 1..(j - 1) : channel'[k] # n) => j = i
    BY <1>1, <1>3
  <2>2. QED
    BY <1>2, <1>3, <2>1 DEF Relay!FirstAt
<1>4. ASSUME NEW n \in Relay!Published PROVE Relay!FirstAt(n)' = Relay!FirstAt(n)
  <2>1. PICK i : i = Relay!FirstAt(n)
    OBVIOUS
  <2>2. i \in 1..Len(channel) /\ channel[i] = n /\ \A k \in 1..(i - 1) : channel[k] # n
    BY <1>1, <2>1, FirstPlace
  <2>3. i \in 1..l /\ \A k \in 1..(i - 1) : k \in 1..Len(channel)
    BY <1>1, <2>2
  <2>4. QED
    BY <1>2, <1>3, <2>1, <2>2, <2>3
<1>5. ASSUME row \notin Relay!Published PROVE Relay!FirstAt(row)' = l
  <2>1. \A k \in 1..(l - 1) : channel'[k] # row
    <3>1. \A k \in 1..(l - 1) : k \in 1..Len(channel)
      BY <1>1 DEF l
    <3>2. QED
      BY <1>1, <1>2, <1>5, <3>1 DEF Relay!Published
  <2>2. l \in 1..l
    BY <1>1
  <2>3. QED
    BY <1>2, <1>3, <2>1, <2>2
<1>6. QED
  BY <1>4, <1>5 DEF l

----------------------------------------------------------------------------
\* One relay, which where a lock can outlive its relay is restarted only when the
\* lock is gone.  It announces and marks the events in ledger order: k are marked, and
\* at most the next one is announced besides, while it is locked or after a failure.
SerialRelay ==
  /\ \A q, r \in Relays : q = r
  /\ LingeringLocks => RestartAfterRelease

InTurn ==
  /\ \E k \in 0..Len(ledger) :
       /\ marked = 1..k
       /\ Relay!Published = 1..k \/ Relay!Published = 1..(k + 1)
       /\ \A r \in Relays : relayPc[r] \in Busy => holding[r] = k + 1
       /\ orphans \subseteq {k + 1}
  /\ orphans # {} => LingeringLocks /\ \A r \in Relays : relayPc[r] = "down"

FirstInOrder ==
  \A m, n \in Relay!Published : m < n => Relay!FirstAt(m) < Relay!FirstAt(n)

LEMMA InTurnConsumers ==
  ASSUME IInv, Sound, InTurn, FirstInOrder, [Next]_vars, UNCHANGED relayVars
  PROVE  InTurn' /\ FirstInOrder'
<1>1. UNCHANGED <<marked, channel, relayPc, holding, orphans>>
  BY DEF relayVars
<1>2. Len(ledger) \in Nat /\ Len(ledger') \in Nat /\ Len(ledger) =< Len(ledger')
  BY LedgerGrows, PathDomains DEF Sound
<1>3. \A k \in 0..Len(ledger) : k \in 0..Len(ledger')
  BY <1>2
<1>4. QED
  BY <1>1, <1>3 DEF InTurn, FirstInOrder, Relay!Published, Relay!FirstAt

LEMMA InTurnSelect ==
  ASSUME SerialRelay, IInv, Sound, InTurn, FirstInOrder,
         NEW r \in Relays, Relay!Select(r), UNCHANGED ledger
  PROVE  InTurn' /\ FirstInOrder'
<1>1. PICK n \in DOMAIN ledger :
        /\ n \notin marked
        /\ \A m \in DOMAIN ledger : m \notin marked /\ Free(m) => n =< m
        /\ holding' = [holding EXCEPT ![r] = n]
  BY RowChosen DEF Sound
<1>2. UNCHANGED <<marked, channel, orphans>> /\ relayPc[r] = "select" /\ \A q \in Relays : q = r
  BY RowChosen DEF Sound, SerialRelay
<1>3. Len(ledger) \in Nat /\ DOMAIN ledger = 1..Len(ledger)
  BY PathDomains DEF Sound
<1>4. PICK k \in 0..Len(ledger) :
        /\ marked = 1..k
        /\ Relay!Published = 1..k \/ Relay!Published = 1..(k + 1)
  BY DEF InTurn
<1>5. holding[r] = 0 /\ orphans = {}
  BY <1>2 DEF Sound, Announcing, Busy, InTurn
<1>6. \A m \in DOMAIN ledger : Free(m)
  BY <1>2, <1>3, <1>5 DEF Free
<1>7. n = k + 1
  <2>1. n > k /\ k + 1 \in DOMAIN ledger /\ k + 1 \notin marked
    BY <1>1, <1>3, <1>4
  <2>2. n =< k + 1
    BY <1>1, <1>6, <2>1
  <2>3. QED
    BY <1>3, <2>1, <2>2
<1>8. \A q \in Relays : holding'[q] = k + 1
  BY <1>1, <1>2, <1>7 DEF Sound, RelaysTypeOK
<1>9. InTurn'
  BY <1>2, <1>4, <1>5, <1>8 DEF InTurn, Relay!Published
<1>10. FirstInOrder'
  BY <1>2 DEF FirstInOrder, Relay!Published, Relay!FirstAt
<1>11. QED
  BY <1>9, <1>10

\* What Publish announces is the next row, or the one it announced last.
LEMMA NextAnnounced ==
  ASSUME IInv, Sound, InTurn, NEW r \in Relays, Relay!Publish(r)
  PROVE  \E k \in 0..Len(ledger) :
           /\ marked = 1..k /\ holding[r] = k + 1
           /\ Relay!Published = 1..k \/ Relay!Published = 1..(k + 1)
           /\ Relay!Published' = 1..(k + 1)
<1>1. relayPc[r] \in Busy /\ Relay!Published' = Relay!Published \cup {holding[r]}
  BY RowSent DEF Sound, Busy
<1>2. PICK k \in 0..Len(ledger) :
        /\ marked = 1..k /\ holding[r] = k + 1
        /\ Relay!Published = 1..k \/ Relay!Published = 1..(k + 1)
  BY <1>1 DEF InTurn
<1>3. 1..(k + 1) = (1..k) \cup {k + 1} /\ k + 1 \in 1..(k + 1)
  BY PathDomains DEF Sound
<1>4. Relay!Published' = 1..(k + 1)
  BY <1>1, <1>2, <1>3
<1>5. QED
  BY <1>2, <1>4

LEMMA InTurnPublish ==
  ASSUME IInv, Sound, InTurn, FirstInOrder, NEW r \in Relays, Relay!Publish(r), UNCHANGED ledger
  PROVE  InTurn' /\ FirstInOrder'
<1>1. /\ relayPc[r] = "publish"
      /\ holding[r] \in DOMAIN ledger
      /\ channel' = Append(channel, holding[r])
      /\ relayPc' = [relayPc EXCEPT ![r] = "mark"]
      /\ UNCHANGED <<marked, holding, orphans>>
      /\ Relay!Published' = Relay!Published \cup {holding[r]}
  BY RowSent DEF Sound
<1>2. InTurn'
  <2>1. PICK k \in 0..Len(ledger) :
          /\ marked = 1..k
          /\ \A q \in Relays : relayPc[q] \in Busy => holding[q] = k + 1
          /\ Relay!Published = 1..k \/ Relay!Published = 1..(k + 1)
    BY DEF InTurn
  <2>2. holding[r] = k + 1
    BY <1>1, <2>1 DEF Busy
  <2>3. 1..(k + 1) = (1..k) \cup {k + 1} /\ k + 1 \in 1..(k + 1)
    BY PathDomains DEF Sound
  <2>4. Relay!Published' = 1..(k + 1)
    BY <1>1, <2>1, <2>2, <2>3
  <2>5. \A q \in Relays : relayPc'[q] \in Busy => holding'[q] = k + 1
    BY <1>1, <2>1 DEF Sound, RelaysTypeOK, Busy
  <2>6. orphans' = {}
    BY <1>1 DEF InTurn
  <2>7. QED
    BY <1>1, <2>1, <2>4, <2>5, <2>6 DEF InTurn
<1>3. PICK k \in 0..Len(ledger) :
        /\ holding[r] = k + 1
        /\ Relay!Published = 1..k \/ Relay!Published = 1..(k + 1)
        /\ Relay!Published' = 1..(k + 1)
  BY NextAnnounced
<1>4. /\ \A n \in Relay!Published : Relay!FirstAt(n)' = Relay!FirstAt(n)
      /\ k + 1 \notin Relay!Published => Relay!FirstAt(k + 1)' = Len(channel) + 1
  <2>1. /\ \A n \in Relay!Published : Relay!FirstAt(n)' = Relay!FirstAt(n)
        /\ holding[r] \notin Relay!Published => Relay!FirstAt(holding[r])' = Len(channel) + 1
    <3>1. PICK row \in DOMAIN ledger : row = holding[r]
      BY <1>1
    <3>2. /\ \A n \in Relay!Published : Relay!FirstAt(n)' = Relay!FirstAt(n)
          /\ row \notin Relay!Published => Relay!FirstAt(row)' = Len(channel) + 1
      BY <1>1, <3>1, FirstPlaces DEF Sound
    <3>3. QED
      BY <1>1, <3>1, <3>2
  <2>2. QED
    BY <1>1, <1>3, <2>1
<1>5. ASSUME NEW m \in Relay!Published', NEW n \in Relay!Published', m < n
      PROVE  Relay!FirstAt(m)' < Relay!FirstAt(n)'
  <2>1. m \in 1..(k + 1) /\ n \in 1..(k + 1) /\ k \in Nat
    BY <1>3, <1>5, PathDomains DEF Sound
  <2>2. m \in Relay!Published
    BY <1>3, <1>5, <2>1
  <2>3. CASE n \in Relay!Published
    BY <1>4, <1>5, <2>2, <2>3 DEF FirstInOrder
  <2>4. CASE n \notin Relay!Published
    <3>1. n = k + 1
      BY <1>3, <2>1, <2>4
    <3>2. Relay!FirstAt(m) \in 1..Len(channel) /\ Len(channel) \in Nat
      BY <2>2, FirstPlace, PathDomains DEF Sound
    <3>3. Relay!FirstAt(m)' = Relay!FirstAt(m) /\ Relay!FirstAt(n)' = Len(channel) + 1
      BY <1>4, <2>2, <2>4, <3>1
    <3>4. QED
      BY <3>2, <3>3
  <2>5. QED
    BY <2>3, <2>4
<1>6. FirstInOrder'
  BY <1>5 DEF FirstInOrder
<1>7. QED
  BY <1>2, <1>6

LEMMA InTurnQuiet ==
  ASSUME SerialRelay, IInv, Sound, InTurn, FirstInOrder,
         NEW r \in Relays, Quiet(r), UNCHANGED <<ledger, channel, orphans>>
  PROVE  InTurn' /\ FirstInOrder'
<1>1. Relay!Published' = Relay!Published /\ FirstInOrder'
  BY DEF FirstInOrder, Relay!Published, Relay!FirstAt
<1>2. PICK k \in 0..Len(ledger) :
        /\ marked = 1..k
        /\ Relay!Published = 1..k \/ Relay!Published = 1..(k + 1)
        /\ \A q \in Relays : relayPc[q] \in Busy => holding[q] = k + 1
        /\ orphans \subseteq {k + 1}
  BY DEF InTurn
<1>3. Len(ledger) \in Nat /\ k \in Nat /\ \A q \in Relays : q = r
  BY PathDomains DEF Sound, SerialRelay
<1>4. CASE relayPc[r] = "commit" /\ marked' = marked \cup {holding[r]}
           /\ relayPc' = [relayPc EXCEPT ![r] = "select"]
  <2>1. holding[r] = k + 1 /\ holding[r] \in Relay!Published /\ holding[r] \in DOMAIN ledger
    BY <1>2, <1>4, PathDomains DEF Busy, Sound, Announcing
  <2>2. PICK j \in 0..Len(ledger) : j = k + 1
    BY <1>3, <2>1, PathDomains DEF Sound
  <2>3. 1..j = (1..k) \cup {k + 1} /\ k + 1 \notin 1..k
    BY <1>3, <2>2
  <2>4. marked' = 1..j
    BY <1>2, <1>4, <2>1, <2>3
  <2>5. Relay!Published' = 1..j
    BY <1>1, <1>2, <2>1, <2>2, <2>3
  <2>6. \A q \in Relays : relayPc'[q] \notin Busy
    BY <1>3, <1>4 DEF Sound, RelaysTypeOK, Busy
  <2>7. orphans' = {}
    BY <1>4 DEF InTurn
  <2>8. InTurn'
    BY <2>4, <2>5, <2>6, <2>7 DEF InTurn
  <2>9. QED
    BY <1>1, <2>8
<1>5. CASE UNCHANGED marked
  <2>1. \A q \in Relays : relayPc'[q] \in Busy => relayPc[q] \in Busy /\ holding'[q] = holding[q]
    BY <1>3, <1>5 DEF Quiet, Sound, RelaysTypeOK, Announcing, Busy
  <2>2. ASSUME orphans # {}
        PROVE  LingeringLocks /\ \A q \in Relays : relayPc'[q] = "down"
    BY <1>3, <2>2 DEF InTurn, SerialRelay, Quiet, Sound, RelaysTypeOK
  <2>3. InTurn'
    BY <1>1, <1>2, <1>5, <2>1, <2>2 DEF InTurn
  <2>4. QED
    BY <1>1, <2>3
<1>6. QED
  BY <1>4, <1>5 DEF Quiet

\* A relay that vanishes leaves the lock of the next row behind; while it is there no
\* relay runs.
LEMMA InTurnVanish ==
  ASSUME SerialRelay, IInv, Sound, InTurn, FirstInOrder,
         NEW r \in Relays, Relay!Vanish(r), UNCHANGED ledger
  PROVE  InTurn' /\ FirstInOrder'
<1>1. /\ LingeringLocks /\ holding[r] # 0
      /\ orphans' = orphans \cup {holding[r]}
      /\ relayPc' = [relayPc EXCEPT ![r] = "down"]
      /\ holding' = [holding EXCEPT ![r] = 0]
      /\ UNCHANGED <<marked, channel>>
  BY DEF Relay!Vanish, Relay!Stop
<1>2. Relay!Published' = Relay!Published /\ FirstInOrder'
  BY <1>1 DEF FirstInOrder, Relay!Published, Relay!FirstAt
<1>3. relayPc[r] \in Busy
  BY <1>1 DEF Sound, Announcing
<1>4. PICK k \in 0..Len(ledger) :
        /\ marked = 1..k
        /\ Relay!Published = 1..k \/ Relay!Published = 1..(k + 1)
        /\ holding[r] = k + 1
        /\ orphans \subseteq {k + 1}
  BY <1>3 DEF InTurn
<1>5. \A q \in Relays : relayPc'[q] = "down"
  BY <1>1 DEF SerialRelay, Sound, RelaysTypeOK
<1>6. orphans' \subseteq {k + 1}
  BY <1>1, <1>4
<1>7. InTurn'
  BY <1>1, <1>2, <1>4, <1>5, <1>6 DEF InTurn, Busy
<1>8. QED
  BY <1>2, <1>7

\* The lock ends: its row, the next one, is marked now if the COMMIT got through.
LEMMA InTurnEndOrphan ==
  ASSUME IInv, Sound, InTurn, FirstInOrder, NEW n, Relay!EndOrphan(n), UNCHANGED ledger
  PROVE  InTurn' /\ FirstInOrder'
<1>1. /\ n \in orphans
      /\ orphans' = orphans \ {n}
      /\ marked' = IF n \in committing THEN marked \cup {n} ELSE marked
      /\ UNCHANGED <<channel, relayPc, holding>>
  BY DEF Relay!EndOrphan
<1>2. Relay!Published' = Relay!Published /\ FirstInOrder'
  BY <1>1 DEF FirstInOrder, Relay!Published, Relay!FirstAt
<1>3. PICK k \in 0..Len(ledger) :
        /\ marked = 1..k
        /\ Relay!Published = 1..k \/ Relay!Published = 1..(k + 1)
        /\ orphans \subseteq {k + 1}
  BY DEF InTurn
<1>4. n = k + 1 /\ orphans' = {} /\ \A r \in Relays : relayPc'[r] \notin Busy
  BY <1>1, <1>3 DEF InTurn, Busy
<1>5. CASE n \in committing
  <2>1. n \in Relay!Published /\ n \in DOMAIN ledger
    BY <1>1, <1>5 DEF Sound, Announcing, RelaysTypeOK
  <2>2. Len(ledger) \in Nat /\ k \in Nat /\ DOMAIN ledger = 1..Len(ledger)
    BY PathDomains DEF Sound
  <2>3. PICK j \in 0..Len(ledger) : j = k + 1
    BY <1>4, <2>1, <2>2
  <2>4. 1..j = (1..k) \cup {k + 1} /\ k + 1 \notin 1..k
    BY <2>2, <2>3
  <2>5. marked' = 1..j /\ Relay!Published' = 1..j
    BY <1>1, <1>2, <1>3, <1>4, <1>5, <2>1, <2>3, <2>4
  <2>6. InTurn'
    BY <1>4, <2>5 DEF InTurn
  <2>7. QED
    BY <1>2, <2>6
<1>6. CASE n \notin committing
  <2>1. marked' = marked
    BY <1>1, <1>6
  <2>2. InTurn'
    BY <1>2, <1>3, <1>4, <2>1 DEF InTurn
  <2>3. QED
    BY <1>2, <2>2
<1>7. QED
  BY <1>5, <1>6

LEMMA InTurnInit == PathInit => InTurn /\ FirstInOrder
<1> SUFFICES ASSUME PathInit PROVE InTurn /\ FirstInOrder
  OBVIOUS
<1>1. /\ marked = {} /\ channel = <<>> /\ ledger = <<>> /\ orphans = {}
      /\ relayPc = [r \in Relays |-> "down"]
  BY DEF PathInit, Relay!Init, Init, LedgerInit
<1>2. Relay!Published = {} /\ 1..0 = {} /\ 0 \in 0..Len(ledger)
  BY <1>1 DEF Relay!Published
<1>3. QED
  BY <1>1, <1>2 DEF InTurn, FirstInOrder, Busy

LEMMA InTurnStep ==
  ASSUME SerialRelay, IInv, Sound, InTurn, FirstInOrder, [PathNext]_pathVars
  PROVE  InTurn' /\ FirstInOrder'
<1>1. CASE ConsumerNext \/ UNCHANGED pathVars
  BY <1>1, InTurnConsumers DEF ConsumerNext, pathVars
<1>2. ASSUME NEW r \in Relays, RelayMoves(r)
      PROVE  InTurn' /\ FirstInOrder'
  <2>1. /\ UNCHANGED ledger
        /\ \/ Relay!Select(r)
           \/ Relay!Publish(r)
           \/ Quiet(r) /\ UNCHANGED <<channel, orphans>>
           \/ Relay!Vanish(r)
    BY <1>2, RelayStep DEF Sound, vars, postgres
  <2>2. QED
    BY <2>1, InTurnSelect, InTurnPublish, InTurnQuiet, InTurnVanish
<1>3. ASSUME NEW n \in 1..MaxEntries, RelayEndOrphan(n)
      PROVE  InTurn' /\ FirstInOrder'
  <2>1. Relay!EndOrphan(n) /\ UNCHANGED ledger
    BY <1>3 DEF RelayEndOrphan, vars, postgres
  <2>2. QED
    BY <2>1, InTurnEndOrphan
<1>4. QED
  BY <1>1, <1>2, <1>3 DEF PathNext, RelayMoves

----------------------------------------------------------------------------
\* What a follower makes of the channel: the bids of the rows that were announced, and
\* they are the first ones of the ledger.
HeardPrefix ==
  \E m \in Nat :
    /\ Relay!Published = 1..m
    /\ Heard = [k \in 1..m |-> ledger[k].bid]

LEMMA HeardInOrder ==
  ASSUME IInv, Sound, InTurn, FirstInOrder
  PROVE  HeardPrefix
<1>1. PICK m \in Nat : Relay!Published = 1..m
  <2>1. \A k \in 0..Len(ledger) : k \in Nat /\ k + 1 \in Nat
    BY PathDomains DEF Sound
  <2>2. QED
    BY <2>1 DEF InTurn
<1>2. Cardinality(Relay!Published) = m
  BY <1>1, FS_Interval
<1>3. ASSUME NEW n \in 1..m PROVE Rank(n) = n
  <2>1. \A j \in 1..m : Relay!FirstAt(j) \in Int
    BY <1>1, FirstPlace, PathDomains DEF Sound
  <2>2. \A j \in 1..m : Relay!FirstAt(j) =< Relay!FirstAt(n) <=> j =< n
    <3>1. ASSUME NEW j \in 1..m
          PROVE  Relay!FirstAt(j) =< Relay!FirstAt(n) <=> j =< n
      <4>1. j < n => Relay!FirstAt(j) < Relay!FirstAt(n)
        BY <1>1 DEF FirstInOrder
      <4>2. n < j => Relay!FirstAt(n) < Relay!FirstAt(j)
        BY <1>1 DEF FirstInOrder
      <4>3. j = n => Relay!FirstAt(j) = Relay!FirstAt(n)
        OBVIOUS
      <4>4. Relay!FirstAt(j) \in Int /\ Relay!FirstAt(n) \in Int
        BY <2>1
      <4>5. QED
        BY <4>1, <4>2, <4>3, <4>4
    <3>2. QED
      BY <3>1
  <2>3. {j \in Relay!Published : Relay!FirstAt(j) =< Relay!FirstAt(n)} = 1..n
    <3>1. {j \in 1..m : Relay!FirstAt(j) =< Relay!FirstAt(n)} = {j \in 1..m : j =< n}
      BY <2>2
    <3>2. {j \in 1..m : j =< n} = 1..n
      OBVIOUS
    <3>3. QED
      BY <1>1, <3>1, <3>2
  <2>4. Cardinality(1..n) = n
    BY FS_Interval
  <2>5. QED
    BY <2>3, <2>4 DEF Rank
<1>4. ASSUME NEW k \in 1..m PROVE (CHOOSE n \in Relay!Published : Rank(n) = k) = k
  BY <1>1, <1>3
<1>5. Heard = [k \in 1..m |-> ledger[k].bid]
  <2> DEFINE place(k) == CHOOSE n \in Relay!Published : Rank(n) = k
  <2>1. Heard = [k \in 1..m |-> ledger[place(k)].bid]
    BY <1>2 DEF Heard
  <2>2. \A k \in 1..m : place(k) = k
    BY <1>4
  <2> HIDE DEF place
  <2>3. QED
    BY <2>1, <2>2
<1>6. QED
  BY <1>1, <1>5 DEF HeardPrefix

\* The ledger's own steps are those of the feed.
LEMMA FeedLedger ==
  /\ Feed!LedgerInit <=> LedgerInit
  /\ Feed!LedgerNext <=> LedgerNext
BY DEF Feed!LedgerInit, Feed!NewAuction, LedgerInit, NewAuction,
       Feed!LedgerNext, Feed!Accept, Feed!KeyInLedger, Feed!BeforeClose, Feed!AfterBid,
       Feed!Extends, LedgerNext, Accept, KeyInLedger, BeforeClose, AfterBid, Extends

\* A commit of a bid is not heard of yet.
LEMMA FeedConsumers ==
  ASSUME IInv, Sound, HeardPrefix, HeardPrefix', [Next]_vars, UNCHANGED relayVars
  PROVE  [Feed!FeedNext]_(Feed!feedVars)
<1>1. Relay!Published' = Relay!Published
  BY DEF relayVars, Relay!Published
<1>2. Len(ledger) \in Nat /\ DOMAIN ledger = 1..Len(ledger)
      /\ Relay!Published \in SUBSET DOMAIN ledger
      /\ \A n \in DOMAIN ledger : ledger'[n] = ledger[n]
  BY PathDomains, LedgerGrows DEF Sound
<1>3. PICK m \in Nat : /\ Relay!Published = 1..m
                       /\ Heard = [k \in 1..m |-> ledger[k].bid]
  BY DEF HeardPrefix
<1>4. PICK n \in Nat : /\ Relay!Published' = 1..n
                       /\ Heard' = [k \in 1..n |-> ledger'[k].bid]
  BY DEF HeardPrefix
<1>5. m = n
  <2>1. Cardinality(1..m) = m /\ Cardinality(1..n) = n
    BY FS_Interval
  <2>2. QED
    BY <1>1, <1>3, <1>4, <2>1
<1>6. UNCHANGED Heard
  BY <1>2, <1>3, <1>4, <1>5
<1>7. [LedgerNext]_ledgerVars
  BY StepOnLedger DEF vars, postgres, ledgerVars
<1>8. QED
  BY <1>6, <1>7, FeedLedger DEF Feed!FeedNext, Feed!feedVars, Feed!ledgerVars, ledgerVars

\* PUBLISH of the next row announces it; a repetition is not heard.
LEMMA FeedPublish ==
  ASSUME IInv, Sound, InTurn, HeardPrefix, HeardPrefix',
         NEW r \in Relays, Relay!Publish(r), UNCHANGED <<ledger, auction>>
  PROVE  [Feed!FeedNext]_(Feed!feedVars)
<1>1. PICK k \in 0..Len(ledger) :
        /\ holding[r] = k + 1
        /\ Relay!Published = 1..k \/ Relay!Published = 1..(k + 1)
        /\ Relay!Published' = 1..(k + 1)
  BY NextAnnounced
<1>2. Len(ledger) \in Nat /\ k \in Nat /\ k + 1 =< Len(ledger)
  BY <1>1, RowSent, PathDomains DEF Sound
<1>3. \A i \in Nat : Cardinality(1..i) = i
  BY FS_Interval
<1>4. Heard' = [j \in 1..(k + 1) |-> ledger[j].bid]
  <2>1. PICK n \in Nat : /\ Relay!Published' = 1..n
                         /\ Heard' = [j \in 1..n |-> ledger'[j].bid]
    BY DEF HeardPrefix
  <2>2. n = k + 1
    BY <1>1, <1>2, <1>3, <2>1
  <2>3. QED
    BY <2>1, <2>2
<1>5. PICK m \in Nat : /\ Relay!Published = 1..m
                       /\ Heard = [j \in 1..m |-> ledger[j].bid]
  BY DEF HeardPrefix
<1>6. m = k \/ m = k + 1
  BY <1>1, <1>2, <1>3, <1>5
<1>7. CASE m = k + 1
  BY <1>4, <1>5, <1>7 DEF Feed!feedVars, Feed!ledgerVars
<1>8. CASE m = k
  <2>1. Len(Heard) = k /\ DOMAIN Heard = 1..k
    BY <1>2, <1>5, <1>8
  <2>2. Append(Heard, ledger[k + 1].bid) = [j \in 1..(k + 1) |-> ledger[j].bid]
    BY <1>2, <1>5, <1>8
  <2>3. Feed!Announce
    BY <1>2, <1>4, <2>1, <2>2 DEF Feed!Announce, Feed!ledgerVars
  <2>4. QED
    BY <2>3 DEF Feed!FeedNext
<1>9. QED
  BY <1>6, <1>7, <1>8

LEMMA FeedQuiet ==
  ASSUME UNCHANGED <<ledger, auction, channel>>
  PROVE  UNCHANGED Feed!feedVars
BY DEF Heard, Rank, Relay!Published, Relay!FirstAt, Feed!feedVars, Feed!ledgerVars

LEMMA FeedStep ==
  ASSUME IInv, Sound, InTurn, HeardPrefix, HeardPrefix', [PathNext]_pathVars
  PROVE  [Feed!FeedNext]_(Feed!feedVars)
<1>1. CASE ConsumerNext \/ UNCHANGED pathVars
  BY <1>1, FeedConsumers DEF ConsumerNext, pathVars
<1>2. ASSUME NEW r \in Relays, RelayMoves(r)
      PROVE  [Feed!FeedNext]_(Feed!feedVars)
  <2>1. /\ UNCHANGED <<ledger, auction>>
        /\ \/ Relay!Select(r)
           \/ Relay!Publish(r)
           \/ UNCHANGED channel
           \/ Relay!Vanish(r)
    BY <1>2, RelayStep DEF Sound, vars, postgres
  <2>2. CASE UNCHANGED channel
    BY <2>1, <2>2, FeedQuiet
  <2>3. CASE Relay!Publish(r)
    BY <2>1, <2>3, FeedPublish
  <2>4. Relay!Select(r) => UNCHANGED channel
    BY RowChosen DEF Sound
  <2>5. Relay!Vanish(r) => UNCHANGED channel
    BY DEF Relay!Vanish
  <2>6. QED
    BY <2>1, <2>2, <2>3, <2>4, <2>5
<1>3. ASSUME NEW n \in 1..MaxEntries, RelayEndOrphan(n)
      PROVE  [Feed!FeedNext]_(Feed!feedVars)
  <2>1. UNCHANGED <<ledger, auction, channel>>
    BY <1>3 DEF RelayEndOrphan, Relay!EndOrphan, vars, postgres
  <2>2. QED
    BY <2>1, FeedQuiet
<1>4. QED
  BY <1>1, <1>2, <1>3 DEF PathNext, RelayMoves

LEMMA FeedStart == ASSUME PathInit, HeardPrefix PROVE Feed!FeedInit
<1>1. channel = <<>> /\ LedgerInit
  BY DEF PathInit, Relay!Init, Init
<1>2. Relay!Published = {}
  BY <1>1 DEF Relay!Published
<1>3. PICK m \in Nat : /\ Relay!Published = 1..m
                       /\ Heard = [k \in 1..m |-> ledger[k].bid]
  BY DEF HeardPrefix
<1>4. m = 0
  BY <1>2, <1>3
<1>5. Heard = <<>>
  BY <1>3, <1>4
<1>6. QED
  BY <1>1, <1>5, FeedLedger DEF Feed!FeedInit

LEMMA FeedInvariant ==
  ASSUME SerialRelay PROVE PathSpec => [](IInv /\ Sound /\ InTurn /\ FirstInOrder)
<1>1. PathInit => InTurn /\ FirstInOrder
  BY InTurnInit
<1>2. IInv /\ Sound /\ InTurn /\ FirstInOrder /\ [PathNext]_pathVars => InTurn' /\ FirstInOrder'
  BY InTurnStep
<1>3. QED
  BY PathInvariant, <1>1, <1>2, PTL DEF PathSpec

\* With one process of cmd/outbox-relay, started again only when no transaction of
\* its predecessor still locks a row, and any number of consumers, what a follower
\* hears is the ledger bid by bid: none is repeated, left out or ahead of its place,
\* through any number of deaths of consumers and of the relay, its connection
\* outliving it or not (README.md:6-18, outbox.go:42-111, outbox_relay.go:28).
THEOREM PathImplementsFeed == ASSUME SerialRelay PROVE PathSpec => ImplementsBidFeed
<1> DEFINE PathInv == IInv /\ Sound /\ InTurn /\ FirstInOrder
<1>1. PathInv => HeardPrefix
  BY HeardInOrder
<1>2. PathInit /\ HeardPrefix => Feed!FeedInit
  BY FeedStart
<1>3. PathInv /\ HeardPrefix /\ HeardPrefix' /\ [PathNext]_pathVars
        => [Feed!FeedNext]_(Feed!feedVars)
  BY FeedStep
<1>4. QED
  BY FeedInvariant, <1>1, <1>2, <1>3, PTL DEF PathSpec, ImplementsBidFeed, Feed!FeedSafety

\* "Deterministic bid ordering" (README.md:6) from end to end: where the consumer is
\* single and restarted after RecoveryMinIdle and the last COMMIT of its predecessor,
\* and the relay single and restarted after its predecessor's locks are released, what a follower has heard is the
\* beginning of what the stream alone determines, however often either of them dies
\* between two steps (ledger_consumer.go:80-336, outbox_relay.go:96-185).
THEOREM FollowerHearsReplay ==
  ASSUME SerialConsumer, SerialRelay PROVE PathSpec => []HeardIsReplay
<1>1. IInv /\ Sound /\ LedgerIsReplay /\ HeardPrefix => HeardIsReplay
  <2> SUFFICES ASSUME IInv, Sound, LedgerIsReplay, HeardPrefix PROVE HeardIsReplay
    OBVIOUS
  <2>1. PICK i \in 0..delivered : [ledger |-> ledger, auction |-> auction] = ReplayOf(stream)[i]
    BY DEF LedgerIsReplay, ReplayedTo
  <2>2. ledger = ReplayOf(stream)[i].ledger
    <3>1. ledger = [ledger |-> ledger, auction |-> auction].ledger
      OBVIOUS
    <3>2. QED
      BY <2>1, <3>1
  <2>3. PICK m \in Nat : /\ Relay!Published = 1..m
                         /\ Heard = [k \in 1..m |-> ledger[k].bid]
    BY DEF HeardPrefix
  <2>4. m =< Len(ledger)
    <3>1. 1..m \subseteq 1..Len(ledger) /\ Len(ledger) \in Nat
      BY <2>3, PathDomains DEF Sound
    <3>2. m = 0 \/ m \in 1..m
      OBVIOUS
    <3>3. QED
      BY <3>1, <3>2
  <2>5. Len(Heard) = m /\ DOMAIN Heard = 1..m /\ \A k \in 1..m : Heard[k] = ledger[k].bid
    BY <2>3
  <2>6. QED
    BY <2>2, <2>4, <2>5 DEF HeardIsReplay
<1>2. IInv /\ Sound /\ InTurn /\ FirstInOrder => HeardPrefix
  BY HeardInOrder
<1>3. QED
  BY PathImplementsConsumers, LedgerFollowsStream, FeedInvariant, <1>1, <1>2, PTL

----------------------------------------------------------------------------
LEMMA SameSets ==
  /\ RelayFacts!Published = Relay!Published
  /\ \A S : RelayFacts!Cardinality(S) = Relay!Cardinality(S)
BY DEF RelayFacts!Published, Relay!Published, RelayFacts!Cardinality, Relay!Cardinality

LEMMA RelayInit == PathInit => RelayFacts!Init
BY DEF PathInit, Relay!Init, RelayFacts!Init

\* The consumers neither announce nor lose a row.
LEMMA CountedConsumers ==
  ASSUME RelayFacts!Counted, UNCHANGED relayVars
  PROVE  RelayFacts!Counted'
BY DEF RelayFacts!Counted, RelayFacts!Loose, RelayFacts!InHand, RelayFacts!Published, relayVars

LEMMA CountedPath ==
  IInv /\ Sound /\ IInv' /\ Sound' /\ RelayFacts!Counted /\ [PathNext]_pathVars
    => RelayFacts!Counted'
<1> SUFFICES ASSUME IInv, Sound, IInv', Sound', RelayFacts!Counted, [PathNext]_pathVars
             PROVE  RelayFacts!Counted'
  OBVIOUS
<1>1. RelayFacts!Base /\ RelayFacts!Base'
  BY RelayBase, PTL
<1>2. CASE UNCHANGED relayVars
  BY <1>2, CountedConsumers
<1>3. CASE RelayFacts!Next
  BY <1>1, <1>3, RelayAssumptions, RelayFacts!CountedStep
<1>4. QED
  BY <1>2, <1>3, RelayNext, OrphanNext DEF PathNext, ConsumerNext, pathVars, RelayMoves

\* Any number of relays: each repetition is paid for by a failure of a relay,
\* whatever the consumers and their failures do (outbox.go:94-111).
THEOREM PathRepetitionsArePaid == PathSpec => []Relay!RepeatedOnlyByFailure
<1>1. PathInit => RelayFacts!Counted
  BY RelayInit, RelayAssumptions, RelayFacts!CountedInit
<1>2. IInv /\ Sound /\ RelayFacts!Counted => Relay!RepeatedOnlyByFailure
  <2> SUFFICES ASSUME IInv, Sound, RelayFacts!Counted PROVE Relay!RepeatedOnlyByFailure
    OBVIOUS
  <2>1. RelayFacts!TypeOK
    BY RelayBase DEF RelayFacts!Base
  <2>2. RelayFacts!RepeatedOnlyByFailure
    BY <2>1, RelayAssumptions, RelayFacts!Sizes DEF RelayFacts!Counted, RelayFacts!RepeatedOnlyByFailure
  <2>3. QED
    BY <2>2, SameSets DEF RelayFacts!RepeatedOnlyByFailure, Relay!RepeatedOnlyByFailure
<1>3. QED
  BY PathInvariant, <1>1, <1>2, CountedPath, PTL DEF PathSpec

\* The bids before a row are there when the row is: what a relay may have passed,
\* and what it may yet pass, stays as it is when a consumer commits another bid.
LEMMA SkippedConsumers ==
  ASSUME IInv, Sound, [Next]_vars, UNCHANGED relayVars, RelayFacts!Skipped
  PROVE  RelayFacts!Skipped'
<1>1. /\ UNCHANGED <<marked, channel, relayPc, holding, orphans, committing, relayFailures>>
      /\ DOMAIN ledger \subseteq DOMAIN ledger'
      /\ Len(ledger) \in Nat /\ DOMAIN ledger = 1..Len(ledger)
      /\ Len(ledger') \in Nat /\ DOMAIN ledger' = 1..Len(ledger')
  BY LedgerGrows, PathDomains DEF relayVars, Sound
<1>2. \A n \in DOMAIN ledger : RelayFacts!Unmarked(n)' = RelayFacts!Unmarked(n)
  BY <1>1 DEF RelayFacts!Unmarked, RelayFacts!RowsOf, Events
<1>3. RelayFacts!Published' = RelayFacts!Published /\ RelayFacts!Published \subseteq DOMAIN ledger
  BY <1>1, PathDomains, SameSets DEF RelayFacts!Published, Sound
<1>4. \A n : RelayFacts!FirstAt(n)' = RelayFacts!FirstAt(n)
  BY <1>1 DEF RelayFacts!FirstAt
<1>5. \A n \in DOMAIN ledger : RelayFacts!Passed(n)' = RelayFacts!Passed(n)
  BY <1>1, <1>3, <1>4 DEF RelayFacts!Passed, RelayFacts!RowsOf, Events
<1>6. RelayFacts!PassesOnlyLockedRows'
  BY <1>1, <1>3, <1>5 DEF RelayFacts!Skipped, RelayFacts!PassesOnlyLockedRows
<1>7. \A r \in Relays : holding[r] # 0 => holding[r] \in DOMAIN ledger
  BY DEF Sound, RelaysTypeOK
<1>8. QED
  BY <1>1, <1>2, <1>6, <1>7 DEF RelayFacts!Skipped, RelayFacts!Lingering, RelayFacts!Slack

LEMMA SkippedPath ==
  ASSUME IsFiniteSet(Relays), IInv, Sound, IInv', Sound', RelayFacts!Skipped,
         [PathNext]_pathVars
  PROVE  RelayFacts!Skipped'
<1>1. RelayFacts!Base /\ RelayFacts!Base'
  BY RelayBase, PTL
<1>2. CASE [Next]_vars /\ UNCHANGED relayVars
  BY <1>2, SkippedConsumers
<1>3. CASE RelayFacts!Next
  <2>1. RelayFacts!IsFiniteSet(Relays)
    BY DEF IsFiniteSet, RelayFacts!IsFiniteSet
  <2>2. QED
    BY <1>1, <1>3, <2>1, RelayAssumptions, RelayFacts!SkippedStep
<1>4. QED
  BY <1>2, <1>3, RelayNext, OrphanNext DEF PathNext, ConsumerNext, pathVars, RelayMoves

\* Any number of relays, restarted beside lingering locks or not: a bid is announced
\* ahead of at most as many bids as there are other relays and, where locks linger,
\* failures that may have left one, while the ledger grows (outbox.go:105-111).
THEOREM PathPassesOnlyLocked ==
  ASSUME IsFiniteSet(Relays) PROVE PathSpec => []Relay!PassesOnlyLockedRows
<1>1. PathInit => RelayFacts!Skipped
  BY RelayInit, RelayAssumptions, RelayFacts!SkippedInit
<1>2. RelayFacts!Skipped => Relay!PassesOnlyLockedRows
  BY SameSets DEF RelayFacts!Skipped, RelayFacts!PassesOnlyLockedRows, Relay!PassesOnlyLockedRows,
    RelayFacts!Passed, Relay!Passed, RelayFacts!RowsOf, Relay!RowsOf,
    RelayFacts!FirstAt, Relay!FirstAt
<1>3. QED
  BY PathInvariant, <1>1, <1>2, SkippedPath, PTL DEF PathSpec
=============================================================================
