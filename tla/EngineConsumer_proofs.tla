------------------------ MODULE EngineConsumer_proofs -----------------------
(***************************************************************************)
(* What the consumer in cmd/engine guarantees, for any number of consumers *)
(* of the group, any batch size, stream and failures.                      *)
(*                                                                         *)
(* No entry is in two places of two batches (Apart), and of the entries of *)
(* a batch exactly the one that is about to be acknowledged was logged     *)
(* (Held).                                                                 *)
(***************************************************************************)
EXTENDS EngineConsumer, SequenceTheorems, TLAPS

Logged == {logged[k] : k \in DOMAIN logged}

Held(c) ==
  /\ pc[c] \in {"down", "read"} => batch[c] = <<>>
  /\ pc[c] \in {"log", "ack"} => batch[c] # <<>>
  /\ \A k \in DOMAIN batch[c] : batch[c][k] \in Logged <=> pc[c] = "ack" /\ k = 1

Apart ==
  \A c, d \in Consumers : \A j \in DOMAIN batch[c], k \in DOMAIN batch[d] :
    batch[c][j] = batch[d][k] => c = d /\ j = k

Inv ==
  /\ TypeOK
  /\ AckedWasLogged
  /\ LoggedOnce
  /\ \A c \in Consumers : Held(c)
  /\ Apart

LEMMA InvInit == Init => Inv
<1> SUFFICES ASSUME Init PROVE Inv
  OBVIOUS
<1>1. TypeOK
  BY BoundsAssumption DEF Init, TypeOK
<1>2. QED
  BY <1>1 DEF Init, Inv, AckedWasLogged, LoggedOnce, Held, Apart, Logged

\* The batch of a consumer that is at work: its first entry and the rest.
LEMMA BatchParts ==
  ASSUME TypeOK, NEW c \in Consumers, batch[c] # <<>>
  PROVE  /\ 1 \in DOMAIN batch[c] /\ Head(batch[c]) = batch[c][1]
         /\ Head(batch[c]) \in 1..delivered
         /\ Tail(batch[c]) \in Seq(1..delivered)
         /\ \A k \in DOMAIN Tail(batch[c]) :
              /\ k \in Nat \ {0} /\ k + 1 \in DOMAIN batch[c]
              /\ Tail(batch[c])[k] = batch[c][k + 1]
<1>1. batch[c] \in Seq(1..delivered)
  BY DEF TypeOK
<1>2. /\ Head(batch[c]) \in 1..delivered /\ Tail(batch[c]) \in Seq(1..delivered)
      /\ Len(Tail(batch[c])) = Len(batch[c]) - 1
      /\ \A k \in 1..Len(Tail(batch[c])) : Tail(batch[c])[k] = batch[c][k + 1]
  BY <1>1, HeadTailProperties
<1>3. Len(batch[c]) \in Nat \ {0} /\ DOMAIN batch[c] = 1..Len(batch[c])
  BY <1>1, EmptySeq
<1>4. DOMAIN Tail(batch[c]) = 1..(Len(batch[c]) - 1)
  BY <1>2
<1>5. Head(batch[c]) = batch[c][1]
  BY <1>1, <1>3
<1>6. QED
  BY <1>2, <1>3, <1>4, <1>5

LEMMA ReserveStep == ASSUME Inv, Reserve PROVE Inv'
<1>1. TypeOK'
  BY BoundsAssumption DEF Inv, TypeOK, Reserve
<1>2. /\ delivered' = delivered /\ pending' = pending /\ logged' = logged
      /\ pc' = pc /\ batch' = batch
  BY DEF Reserve
<1>3. QED
  BY <1>1, <1>2 DEF Inv, AckedWasLogged, LoggedOnce, Held, Apart, Logged

LEMMA ReadStep == ASSUME Inv, NEW c \in Consumers, ReadGroup(c) PROVE Inv'
<1> DEFINE last == IF length < delivered + BatchSize THEN length ELSE delivered + BatchSize
<1>1. /\ TypeOK /\ delivered \in Nat /\ length \in Nat /\ delivered =< length
      /\ BatchSize \in Nat \ {0} /\ MaxEntries \in Nat
  BY BatchAssumption, BoundsAssumption DEF Inv, TypeOK
<1>2. last \in delivered..length
  BY <1>1
<1>3. /\ delivered' = last /\ pending' = pending \cup (delivered + 1)..last
      /\ batch' = [batch EXCEPT ![c] = Fresh(last)]
      /\ pc' = [pc EXCEPT ![c] = IF Fresh(last) = <<>> THEN "read" ELSE "log"]
      /\ length' = length /\ logged' = logged /\ failures' = failures /\ pc[c] = "read"
  BY DEF ReadGroup
<1> HIDE DEF last
<1>4. /\ DOMAIN Fresh(last) = 1..(last - delivered)
      /\ \A k \in DOMAIN Fresh(last) : Fresh(last)[k] = delivered + k
      /\ Fresh(last) \in Seq(1..last)
  <2>1. Fresh(last) \in [1..(last - delivered) -> 1..last] /\ last - delivered \in Nat
    BY <1>1, <1>2 DEF Fresh
  <2>2. QED
    BY <1>1, <1>2, <2>1, SeqDef DEF Fresh
<1>5. 1..delivered \subseteq 1..last
  BY <1>1, <1>2
<1>6. Logged' = Logged /\ Logged \subseteq 1..delivered
  <2>1. \A k \in DOMAIN logged : logged[k] \in 1..delivered
    BY <1>1, ElementOfSeq DEF TypeOK
  <2>2. QED
    BY <1>3, <2>1 DEF Logged
<1>7. TypeOK'
  <2>1. logged' \in Seq(1..last) /\ \A d \in Consumers : batch[d] \in Seq(1..last)
    BY <1>1, <1>3, <1>5, SeqMonotonic DEF TypeOK
  <2>2. batch' \in [Consumers -> Seq(1..last)]
    BY <1>1, <1>3, <1>4, <2>1 DEF TypeOK
  <2>3. pc' \in [Consumers -> {"down", "read", "log", "ack"}]
    BY <1>1, <1>3 DEF TypeOK
  <2>4. pending' \in SUBSET (1..last) /\ last \in 0..length
    BY <1>1, <1>2, <1>3 DEF TypeOK
  <2>5. QED
    BY <1>1, <1>3, <2>1, <2>2, <2>3, <2>4 DEF TypeOK
<1>8. AckedWasLogged'
  <2>1. ASSUME NEW i \in (1..last) \ pending' PROVE \E k \in DOMAIN logged : logged[k] = i
    <3>1. i \in (1..delivered) \ pending
      BY <1>1, <1>2, <1>3, <2>1
    <3>2. QED
      BY <3>1 DEF Inv, AckedWasLogged
  <2>2. QED
    BY <1>3, <2>1 DEF AckedWasLogged
<1>9. LoggedOnce'
  BY <1>3 DEF Inv, LoggedOnce
<1>10. /\ batch'[c] = Fresh(last)
       /\ pc'[c] = IF Fresh(last) = <<>> THEN "read" ELSE "log"
       /\ \A d \in Consumers \ {c} : batch'[d] = batch[d] /\ pc'[d] = pc[d]
  BY <1>1, <1>3 DEF TypeOK
<1>11. \A k \in DOMAIN Fresh(last) : k \in Nat \ {0} /\ Fresh(last)[k] \notin 1..delivered
  BY <1>1, <1>2, <1>4
<1>12. \A d \in Consumers : Held(d)'
  <2>1. Held(c)'
    BY <1>6, <1>10, <1>11 DEF Held
  <2>2. \A d \in Consumers \ {c} : Held(d)'
    BY <1>6, <1>10 DEF Inv, Held
  <2>3. QED
    BY <2>1, <2>2
<1>13. Apart'
  <2>1. \A d \in Consumers : \A k \in DOMAIN batch[d] : batch[d][k] \in 1..delivered
    BY <1>1, ElementOfSeq DEF TypeOK
  <2>2. \A j, k \in DOMAIN Fresh(last) : Fresh(last)[j] = Fresh(last)[k] => j = k
    BY <1>1, <1>4, <1>11
  <2>3. ASSUME NEW d \in Consumers, NEW e \in Consumers,
               NEW j \in DOMAIN batch'[d], NEW k \in DOMAIN batch'[e], batch'[d][j] = batch'[e][k]
        PROVE  d = e /\ j = k
    <3>1. CASE d = c /\ e = c
      BY <1>10, <2>2, <2>3, <3>1
    <3>2. CASE d # c /\ e # c
      BY <1>10, <2>3, <3>2 DEF Inv, Apart
    <3>3. CASE d = c /\ e # c
      BY <1>10, <1>11, <2>1, <2>3, <3>3
    <3>4. CASE d # c /\ e = c
      BY <1>10, <1>11, <2>1, <2>3, <3>4
    <3>5. QED
      BY <3>1, <3>2, <3>3, <3>4
  <2>4. QED
    BY <2>3 DEF Apart
<1>14. QED
  BY <1>7, <1>8, <1>9, <1>12, <1>13 DEF Inv

LEMMA LogStep == ASSUME Inv, NEW c \in Consumers, Log(c) PROVE Inv'
<1> DEFINE first == Head(batch[c])
<1>1. TypeOK /\ batch[c] # <<>> /\ pc[c] = "log"
  BY DEF Inv, Held, Log
<1>2. first \in 1..delivered /\ first = batch[c][1] /\ 1 \in DOMAIN batch[c]
  BY <1>1, BatchParts
<1>3. /\ logged' = Append(logged, first) /\ logged \in Seq(1..delivered)
      /\ pc' = [pc EXCEPT ![c] = "ack"]
      /\ length' = length /\ delivered' = delivered /\ pending' = pending
      /\ batch' = batch /\ failures' = failures
  BY <1>1 DEF Log, TypeOK
<1>4. first \notin Logged
  BY <1>1, <1>2 DEF Inv, Held
<1> HIDE DEF first
<1>5. /\ logged' \in Seq(1..delivered) /\ Len(logged) \in Nat
      /\ DOMAIN logged = 1..Len(logged) /\ DOMAIN logged' = 1..(Len(logged) + 1)
      /\ logged'[Len(logged) + 1] = first
      /\ \A k \in 1..Len(logged) : logged'[k] = logged[k]
  BY <1>2, <1>3, AppendProperties
<1>6. Logged' = Logged \cup {first}
  BY <1>5 DEF Logged
<1>7. TypeOK'
  BY <1>1, <1>3, <1>5 DEF TypeOK
<1>8. AckedWasLogged'
  BY <1>3, <1>5 DEF Inv, AckedWasLogged
<1>9. LoggedOnce'
  <2>1. \A j \in DOMAIN logged : logged[j] # first
    BY <1>4 DEF Logged
  <2>2. QED
    BY <1>5, <2>1 DEF Inv, LoggedOnce
<1>10. pc'[c] = "ack" /\ \A d \in Consumers \ {c} : pc'[d] = pc[d]
  BY <1>1, <1>3 DEF TypeOK
<1>11. Held(c)'
  <2>1. \A k \in DOMAIN batch[c] : batch[c][k] \in Logged' <=> k = 1
    BY <1>1, <1>2, <1>6 DEF Inv, Held, Apart
  <2>2. QED
    BY <1>1, <1>3, <1>10, <2>1 DEF Held
<1>12. ASSUME NEW d \in Consumers \ {c} PROVE Held(d)'
  <2>1. \A k \in DOMAIN batch[d] : batch[d][k] # first
    BY <1>2 DEF Inv, Apart
  <2>2. QED
    BY <1>3, <1>6, <1>10, <2>1 DEF Inv, Held
<1>13. Apart'
  BY <1>3 DEF Inv, Apart
<1>14. QED
  BY <1>7, <1>8, <1>9, <1>11, <1>12, <1>13 DEF Inv

LEMMA AckStep == ASSUME Inv, NEW c \in Consumers, Ack(c) PROVE Inv'
<1> DEFINE first == Head(batch[c])
           rest == Tail(batch[c])
<1>1. TypeOK /\ batch[c] # <<>> /\ pc[c] = "ack"
  BY DEF Inv, Held, Ack
<1>2. /\ first \in 1..delivered /\ first = batch[c][1] /\ 1 \in DOMAIN batch[c]
      /\ rest \in Seq(1..delivered)
      /\ \A k \in DOMAIN rest :
           k \in Nat \ {0} /\ k + 1 \in DOMAIN batch[c] /\ rest[k] = batch[c][k + 1]
  BY <1>1, BatchParts
<1>3. /\ pending' = pending \ {first}
      /\ batch' = [batch EXCEPT ![c] = rest]
      /\ pc' = [pc EXCEPT ![c] = IF rest = <<>> THEN "read" ELSE "log"]
      /\ length' = length /\ delivered' = delivered /\ logged' = logged /\ failures' = failures
  BY DEF Ack, Acked
<1>4. first \in Logged
  BY <1>1, <1>2 DEF Inv, Held
<1> HIDE DEF first, rest
<1>5. TypeOK'
  BY <1>1, <1>2, <1>3 DEF TypeOK
<1>6. /\ batch'[c] = rest /\ pc'[c] = (IF rest = <<>> THEN "read" ELSE "log")
      /\ \A d \in Consumers \ {c} : batch'[d] = batch[d] /\ pc'[d] = pc[d]
  BY <1>1, <1>3 DEF TypeOK
<1>7. AckedWasLogged'
  BY <1>3, <1>4 DEF Inv, AckedWasLogged, Logged
<1>8. LoggedOnce' /\ Logged' = Logged
  BY <1>3 DEF Inv, LoggedOnce, Logged
<1>9. Held(c)'
  <2>1. \A k \in DOMAIN rest : rest[k] \notin Logged
    <3>1. \A k \in DOMAIN batch[c] : batch[c][k] \in Logged => k = 1
      BY <1>1 DEF Inv, Held
    <3>2. QED
      BY <1>2, <3>1
  <2>2. QED
    BY <1>6, <1>8, <2>1 DEF Held
<1>10. \A d \in Consumers \ {c} : Held(d)'
  BY <1>6, <1>8 DEF Inv, Held
<1>11. Apart'
  <2>1. ASSUME NEW d \in Consumers, NEW e \in Consumers,
               NEW j \in DOMAIN batch'[d], NEW k \in DOMAIN batch'[e], batch'[d][j] = batch'[e][k]
        PROVE  d = e /\ j = k
    <3>1. CASE d = c /\ e = c
      <4>1. j + 1 = k + 1
        BY <1>2, <1>6, <2>1, <3>1 DEF Inv, Apart
      <4>2. QED
        BY <1>2, <1>6, <2>1, <3>1, <4>1
    <3>2. CASE d # c /\ e # c
      BY <1>6, <2>1, <3>2 DEF Inv, Apart
    <3>3. CASE d = c /\ e # c
      BY <1>2, <1>6, <2>1, <3>3 DEF Inv, Apart
    <3>4. CASE d # c /\ e = c
      BY <1>2, <1>6, <2>1, <3>4 DEF Inv, Apart
    <3>5. QED
      BY <3>1, <3>2, <3>3, <3>4
  <2>2. QED
    BY <2>1 DEF Apart
<1>12. QED
  BY <1>5, <1>7, <1>8, <1>9, <1>10, <1>11 DEF Inv

LEMMA StopStep == ASSUME Inv, NEW c \in Consumers, Fail(c) \/ Restart(c) PROVE Inv'
<1>1. TypeOK
  BY DEF Inv
<1>2. /\ batch'[c] = <<>> /\ pc'[c] \in {"down", "read"}
      /\ \A d \in Consumers \ {c} : batch'[d] = batch[d] /\ pc'[d] = pc[d]
      /\ length' = length /\ delivered' = delivered /\ pending' = pending /\ logged' = logged
  BY <1>1 DEF Fail, Restart, TypeOK, Inv, Held
<1>3. TypeOK'
  <2>1. failures' \in 0..MaxFailures
    BY <1>1, BoundsAssumption DEF Fail, Restart, TypeOK
  <2>2. pc' \in [Consumers -> {"down", "read", "log", "ack"}]
    BY <1>1 DEF Fail, Restart, TypeOK
  <2>3. batch' \in [Consumers -> Seq(1..delivered)]
    <3>1. <<>> \in Seq(1..delivered)
      OBVIOUS
    <3>2. QED
      BY <1>1, <3>1 DEF Fail, Restart, TypeOK
  <2>4. QED
    BY <1>1, <1>2, <2>1, <2>2, <2>3 DEF TypeOK
<1>4. AckedWasLogged' /\ LoggedOnce' /\ Logged' = Logged
  BY <1>2 DEF Inv, AckedWasLogged, LoggedOnce, Logged
<1>5. \A d \in Consumers : Held(d)'
  BY <1>2, <1>4 DEF Inv, Held
<1>6. Apart'
  BY <1>2 DEF Inv, Apart
<1>7. QED
  BY <1>3, <1>4, <1>5, <1>6 DEF Inv

LEMMA InvInvariant == Spec => []Inv
<1>1. Inv /\ Next => Inv'
  BY ReserveStep, ReadStep, LogStep, AckStep, StopStep DEF Next
<1>2. Inv /\ UNCHANGED vars => Inv'
  BY DEF Inv, TypeOK, AckedWasLogged, LoggedOnce, Held, Apart, Logged, vars
<1>3. QED
  BY <1>1, <1>2, InvInit, PTL DEF Spec

----------------------------------------------------------------------------
\* Every reachable state has its type; a batch names delivered entries only
\* (consumer.go:56-71).
THEOREM EngineTypes == Spec => []TypeOK
  BY InvInvariant, PTL DEF Inv

\* What has left the pending list was logged, whoever crashed (consumer.go:73-93).
THEOREM LogBeforeAck == Spec => []AckedWasLogged
  BY InvInvariant, PTL DEF Inv

\* No entry is logged twice, in any interleaving of any number of consumers
\* (consumer.go:56-63).
THEOREM NoSecondLog == Spec => []LoggedOnce
  BY InvInvariant, PTL DEF Inv

\* An entry that a dead consumer left pending stays pending for ever: there is
\* no step that takes it up (consumer.go:35-96).
THEOREM NothingRecovers == Spec => StrandedForever
<1> DEFINE Stranded == \A i \in pending : ~ InSomeBatch(i) => i \in pending' /\ ~ InSomeBatch(i)'
<1>1. Inv /\ [Next]_vars => [Stranded]_vars
  <2> SUFFICES ASSUME Inv, Next, NEW i \in pending, ~ InSomeBatch(i)
               PROVE  i \in pending' /\ ~ InSomeBatch(i)'
    OBVIOUS
  <2>1. TypeOK /\ i \in 1..delivered /\ delivered \in Nat
    BY DEF Inv, TypeOK
  <2>2. CASE Reserve
    BY <2>2 DEF Reserve, InSomeBatch
  <2>3. ASSUME NEW c \in Consumers, ReadGroup(c) PROVE i \in pending' /\ ~ InSomeBatch(i)'
    <3>1. PICK last \in Int : batch' = [batch EXCEPT ![c] = Fresh(last)] /\ pending \subseteq pending'
      <4> DEFINE last == IF length < delivered + BatchSize THEN length ELSE delivered + BatchSize
      <4>1. last \in Int
        BY <2>1, BatchAssumption DEF TypeOK
      <4>2. batch' = [batch EXCEPT ![c] = Fresh(last)] /\ pending \subseteq pending'
        BY <2>3 DEF ReadGroup
      <4>3. QED
        BY <4>1, <4>2
    <3>2. batch'[c] = Fresh(last) /\ \A d \in Consumers \ {c} : batch'[d] = batch[d]
      BY <2>1, <3>1 DEF TypeOK
    <3>3. \A k \in DOMAIN Fresh(last) : Fresh(last)[k] # i
      BY <2>1, <3>1 DEF Fresh
    <3>4. QED
      BY <3>1, <3>2, <3>3 DEF InSomeBatch
  <2>4. ASSUME NEW c \in Consumers, Log(c) PROVE i \in pending' /\ ~ InSomeBatch(i)'
    BY <2>4 DEF Log, InSomeBatch
  <2>5. ASSUME NEW c \in Consumers, Ack(c) PROVE i \in pending' /\ ~ InSomeBatch(i)'
    <3>1. batch[c] # <<>>
      BY <2>5 DEF Inv, Held, Ack
    <3>2. /\ 1 \in DOMAIN batch[c] /\ Head(batch[c]) = batch[c][1]
          /\ \A k \in DOMAIN Tail(batch[c]) :
               k + 1 \in DOMAIN batch[c] /\ Tail(batch[c])[k] = batch[c][k + 1]
      BY <2>1, <3>1, BatchParts
    <3>3. Head(batch[c]) # i /\ \A k \in DOMAIN Tail(batch[c]) : Tail(batch[c])[k] # i
      BY <3>2 DEF InSomeBatch
    <3>4. /\ batch'[c] = Tail(batch[c]) /\ \A d \in Consumers \ {c} : batch'[d] = batch[d]
          /\ pending' = pending \ {Head(batch[c])}
      BY <2>1, <2>5 DEF Ack, Acked, TypeOK
    <3>5. QED
      BY <3>3, <3>4 DEF InSomeBatch
  <2>6. ASSUME NEW c \in Consumers, Fail(c) \/ Restart(c)
        PROVE  i \in pending' /\ ~ InSomeBatch(i)'
    <3>1. /\ batch'[c] \in {<<>>, batch[c]} /\ pending' = pending
          /\ \A d \in Consumers \ {c} : batch'[d] = batch[d]
      BY <2>1, <2>6 DEF Fail, Restart, TypeOK
    <3>2. QED
      BY <3>1 DEF InSomeBatch
  <2>7. QED
    BY <2>2, <2>3, <2>4, <2>5, <2>6 DEF Next
<1>2. QED
  BY <1>1, InvInvariant, PTL DEF Spec, StrandedForever
=============================================================================
