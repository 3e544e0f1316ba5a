----------------------- MODULE NativeSequence_proofs ------------------------
(***************************************************************************)
(* The account of the native sequence's gaps, the truth of what callers    *)
(* are told, and the boundary between the two ways to number bids, for any *)
(* number of sessions and keys.                                            *)
(***************************************************************************)
EXTENDS NativeSequence, FiniteSetTheorems, TLAPS

\* An uncommitted row agrees with the unique constraints: they hold among the
\* rows that are committed or inserted.
Unique ==
  /\ \A q, r \in bids : q.number = r.number \/ q.key = r.key => q = r
  /\ \A s \in Inserted : Conflicts(bids, call[s].number, call[s].key) = {}
  /\ \A s, t \in Inserted : call[s].number = call[t].number \/ call[s].key = call[t].key => s = t

\* A number that a session has drawn is one of the present sequence.
Drawn ==
  /\ \A s \in Drawing : call[s].number \in 1..sequence.last
  /\ Drawing # {} => sequence.exists

ToldRows == \A t \in told : \E r \in bids : r.number = t.number /\ r.key = t.key

Inv == TypeOK /\ Unique /\ Drawn /\ ToldRows /\ CounterBelowNative

LEMMA CallTypes ==
  ASSUME TypeOK, NEW s \in Sessions
  PROVE  /\ call[s] \in Calls \cup {Idle}
         /\ s \in Drawing => call[s] \in Calls
         /\ s \in Inserted => s \in Drawing
         /\ call[s] # Idle => call[s] \in Calls
         /\ Drawing \subseteq Sessions /\ Inserted \subseteq Sessions
BY DEF TypeOK, Calls, Idle, Drawing, Inserted

\* A step of one session leaves the other sessions' calls alone.
LEMMA OthersStay ==
  ASSUME TypeOK, NEW s \in Sessions, NEW d, call' = [call EXCEPT ![s] = d]
  PROVE  /\ call'[s] = d
         /\ \A t \in Sessions \ {s} : call'[t] = call[t]
         /\ Drawing' = IF d.next \in {"insert", "commit"} THEN Drawing \cup {s} ELSE Drawing \ {s}
         /\ Inserted' = IF d.next = "commit" THEN Inserted \cup {s} ELSE Inserted \ {s}
<1>1. call'[s] = d /\ \A t \in Sessions \ {s} : call'[t] = call[t]
  BY DEF TypeOK
<1>2. QED
  BY <1>1 DEF Drawing, Inserted

LEMMA InvInit == Init => Inv
<1> SUFFICES ASSUME Init PROVE Inv
  OBVIOUS
<1>1. Drawing = {} /\ Inserted = {}
  BY DEF Init, Drawing, Inserted, Idle
<1>2. TypeOK
  BY DEF Init, TypeOK, NoSequence
<1>3. CounterBelowNative
  BY DEF Init, CounterBelowNative
<1>4. QED
  BY <1>1, <1>2, <1>3 DEF Inv, Unique, Drawn, ToldRows, Init

----------------------------------------------------------------------------
LEMMA SequenceStep ==
  ASSUME Inv, Create \/ Grant \/ AbandonEnsure \/ Drop
  PROVE  Inv'
<1>1. bids' = bids /\ last_seq' = last_seq /\ call' = call /\ told' = told
  BY DEF Create, Grant, AbandonEnsure, Drop
<1>2. Drawing' = Drawing /\ Inserted' = Inserted
  BY <1>1 DEF Drawing, Inserted
<1>3. TypeOK'
  <2>1. sequence' \in [exists : BOOLEAN, granted : BOOLEAN, last : Nat]
    <3>1. sequence \in [exists : BOOLEAN, granted : BOOLEAN, last : Nat]
      BY DEF Inv, TypeOK
    <3>2. CASE Create
      BY <3>1, <3>2 DEF Create, NoSequence
    <3>3. CASE Grant
      BY <3>1, <3>3 DEF Grant
    <3>4. CASE AbandonEnsure
      BY <3>1, <3>4 DEF AbandonEnsure
    <3>5. CASE Drop
      BY <3>5 DEF Drop, NoSequence
    <3>6. QED
      BY <3>2, <3>3, <3>4, <3>5
  <2>2. ensuring' \in BOOLEAN
    <3>1. ensuring' = TRUE \/ ensuring' = FALSE \/ ensuring' = ensuring
      BY DEF Create, Grant, AbandonEnsure, Drop
    <3>2. QED
      BY <3>1 DEF Inv, TypeOK
  <2>3. lost' \in Nat
    <3>1. lost' = 0 \/ lost' = lost
      BY DEF Create, Grant, AbandonEnsure, Drop
    <3>2. QED
      BY <3>1 DEF Inv, TypeOK
  <2>4. QED
    BY <1>1, <2>1, <2>2, <2>3 DEF Inv, TypeOK
<1>4. Unique' /\ ToldRows' /\ CounterBelowNative'
  BY <1>1, <1>2 DEF Inv, Unique, ToldRows, CounterBelowNative, Conflicts
<1>5. Drawn'
  <2>1. CASE Drawing = {}
    BY <1>2, <2>1 DEF Drawn
  <2>2. CASE Drawing # {}
    <3>1. sequence.exists /\ ~ Drop
      BY <2>2 DEF Inv, Drawn, Drop, MayDrop
    <3>2. sequence'.last = sequence.last /\ sequence'.exists
      BY <3>1 DEF Create, Grant, AbandonEnsure, Inv, TypeOK
    <3>3. QED
      BY <1>1, <1>2, <3>2 DEF Inv, Drawn
  <2>3. QED
    BY <2>1, <2>2
<1>6. QED
  BY <1>3, <1>4, <1>5 DEF Inv

LEMMA BeginStep == ASSUME Inv, NEW s \in Sessions, Begin(s) PROVE Inv'
<1>1. PICK k \in Keys : call' = [call EXCEPT ![s] = [next |-> "nextval", key |-> k, number |-> 0]]
  BY DEF Begin
<1>2. TypeOK
  BY DEF Inv
<1>3. /\ Drawing' = Drawing \ {s} /\ Inserted' = Inserted \ {s}
      /\ \A t \in Sessions \ {s} : call'[t] = call[t]
  BY <1>1, <1>2, OthersStay
<1>4. bids' = bids /\ last_seq' = last_seq /\ told' = told /\ sequence' = sequence
  BY DEF Begin
<1>5. TypeOK'
  BY <1>1, <1>2 DEF Begin, TypeOK, Calls
<1>6. \A t \in Drawing' : t \in Drawing /\ call'[t] = call[t]
  BY <1>2, <1>3, CallTypes
<1>7. \A t \in Inserted' : t \in Inserted /\ call'[t] = call[t]
  BY <1>2, <1>3, CallTypes
<1>8. QED
  BY <1>4, <1>5, <1>6, <1>7 DEF Inv, Unique, Drawn, ToldRows, CounterBelowNative, Conflicts

LEMMA NextValStep == ASSUME Inv, NEW s \in Sessions, NextVal(s) PROVE Inv'
<1> DEFINE e == [call[s] EXCEPT !.next = "insert"]
           d == [e EXCEPT !.number = NextValue]
<1>1. TypeOK /\ call[s].next = "nextval" /\ sequence.exists
  BY DEF Inv, NextVal
<1>2. call[s] \in Calls /\ sequence.last \in Nat /\ NextValue = sequence.last + 1
  BY <1>1, CallTypes DEF TypeOK, Idle, NextValue
<1>3. /\ d \in Calls /\ d.next = "insert" /\ d.number = NextValue
      /\ call' = [call EXCEPT ![s] = d]
  <2>1. d \in Calls /\ d.next = "insert" /\ d.number = NextValue
    <3>1. call[s].key \in Keys /\ NextValue \in Nat
      BY <1>2 DEF Calls
    <3>2. e \in Calls /\ e.next = "insert"
      BY <1>2 DEF Calls
    <3> HIDE DEF e
    <3>3. QED
      BY <3>1, <3>2 DEF Calls
  <2>2. call' = [call EXCEPT ![s].next = "insert", ![s].number = NextValue]
    BY DEF NextVal
  <2>3. call'[s] = d
    BY <1>1, <2>2 DEF TypeOK
  <2>4. QED
    BY <1>1, <2>1, <2>2, <2>3 DEF TypeOK
<1>4. /\ sequence' \in [exists : BOOLEAN, granted : BOOLEAN, last : Nat]
      /\ sequence'.last = sequence.last + 1 /\ sequence'.exists
  BY <1>1, <1>2 DEF NextVal, TypeOK
<1> HIDE DEF d
<1>5. /\ Drawing' = Drawing \cup {s} /\ Inserted' = Inserted \ {s}
      /\ call'[s] = d /\ \A t \in Sessions \ {s} : call'[t] = call[t]
  BY <1>1, <1>3, OthersStay
<1>6. bids' = bids /\ last_seq' = last_seq /\ told' = told
  BY DEF NextVal
<1>7. TypeOK'
  BY <1>1, <1>3, <1>4 DEF NextVal, TypeOK
<1>8. \A t \in Inserted' : t \in Inserted /\ call'[t] = call[t]
  BY <1>1, <1>5, CallTypes
<1>9. Unique' /\ ToldRows' /\ CounterBelowNative'
  BY <1>6, <1>8 DEF Inv, Unique, ToldRows, CounterBelowNative, Conflicts
<1>10. Drawn'
  <2>1. ASSUME NEW t \in Drawing' PROVE call'[t].number \in 1..sequence'.last
    <3>1. CASE t = s
      BY <1>2, <1>3, <1>4, <1>5, <3>1
    <3>2. CASE t # s
      <4>1. t \in Drawing /\ call'[t] = call[t]
        BY <1>1, <1>5, <2>1, <3>2, CallTypes
      <4>2. call[t].number \in 1..sequence.last
        BY <4>1 DEF Inv, Drawn
      <4>3. QED
        BY <1>2, <1>4, <4>1, <4>2
    <3>3. QED
      BY <3>1, <3>2
  <2>2. QED
    BY <1>4, <2>1 DEF Drawn
<1>11. QED
  BY <1>7, <1>9, <1>10 DEF Inv

LEMMA InsertStep == ASSUME Inv, NEW s \in Sessions, Insert(s) PROVE Inv'
<1> DEFINE d == [call[s] EXCEPT !.next = "commit"]
<1>1. TypeOK /\ call[s].next = "insert" /\ s \in Drawing
  BY DEF Inv, Insert, Drawing
<1>2. call[s] \in Calls
  BY <1>1, CallTypes
<1>3. /\ d \in Calls /\ d.next = "commit" /\ d.number = call[s].number /\ d.key = call[s].key
      /\ call' = [call EXCEPT ![s] = d]
  BY <1>1, <1>2 DEF Insert, TypeOK, Calls
<1> HIDE DEF d
<1>4. /\ Drawing' = Drawing \cup {s} /\ Inserted' = Inserted \cup {s}
      /\ call'[s] = d /\ \A t \in Sessions \ {s} : call'[t] = call[t]
  BY <1>1, <1>3, OthersStay
<1>5. Drawing' = Drawing
  BY <1>1, <1>4
<1>6. bids' = bids /\ last_seq' = last_seq /\ told' = told /\ sequence' = sequence
  BY DEF Insert
<1>7. TypeOK'
  BY <1>1, <1>3 DEF Insert, TypeOK
<1>8. \A t \in Sessions : call'[t].number = call[t].number /\ call'[t].key = call[t].key
  BY <1>3, <1>4
<1>9. Drawn'
  BY <1>1, <1>5, <1>6, <1>8, CallTypes DEF Inv, Drawn
<1>10. ToldRows' /\ CounterBelowNative'
  BY <1>6 DEF Inv, ToldRows, CounterBelowNative
<1>11. Conflicts(bids, call[s].number, call[s].key) = {}
  BY DEF Insert
<1>12. \A t \in Inserted : call[t].number # call[s].number /\ call[t].key # call[s].key
  BY DEF Insert, MustWait, Conflicts
<1>13. Inserted' \subseteq Sessions /\ Inserted \subseteq Sessions
  BY <1>1, <1>4, CallTypes
<1>14. Unique'
  <2>1. \A t \in Inserted' : t \in Inserted \/ t = s
    BY <1>4
  <2>2. \A q, r \in bids : q.number = r.number \/ q.key = r.key => q = r
    BY DEF Inv, Unique
  <2>3. \A t \in Inserted' : Conflicts(bids, call[t].number, call[t].key) = {}
    BY <1>11, <2>1 DEF Inv, Unique
  <2>4. \A t, u \in Inserted' :
          call[t].number = call[u].number \/ call[t].key = call[u].key => t = u
    BY <1>12, <2>1 DEF Inv, Unique
  <2>5. QED
    BY <1>6, <1>8, <1>13, <2>2, <2>3, <2>4 DEF Unique, Conflicts
<1>15. QED
  BY <1>7, <1>9, <1>10, <1>14 DEF Inv

\* A session's call ends: it gives up whatever it had.
LEMMA CallEnds ==
  ASSUME TypeOK, NEW s \in Sessions, EndCall(s)
  PROVE  /\ Drawing' = Drawing \ {s} /\ Inserted' = Inserted \ {s}
         /\ \A t \in Sessions \ {s} : call'[t] = call[t]
         /\ call' \in [Sessions -> Calls \cup {Idle}]
<1>1. call' = [call EXCEPT ![s] = Idle]
  BY DEF EndCall
<1>2. Idle.next = "begin"
  BY DEF Idle
<1>3. QED
  BY <1>1, <1>2, OthersStay DEF TypeOK

LEMMA CommitStep == ASSUME Inv, NEW s \in Sessions, Commit(s) PROVE Inv'
<1> DEFINE row == [number |-> call[s].number, key |-> call[s].key, path |-> "native"]
           reply == [number |-> call[s].number, key |-> call[s].key]
<1>1. TypeOK /\ call[s].next = "commit" /\ s \in Inserted /\ s \in Drawing
  BY DEF Inv, Commit, Drawing, Inserted
<1>2. call[s] \in Calls
  BY <1>1, CallTypes
<1>3. /\ row \in Rows /\ reply \in Replies
      /\ row.number = call[s].number /\ row.key = call[s].key /\ row.path = "native"
      /\ reply.number = call[s].number /\ reply.key = call[s].key
  BY <1>2 DEF Calls, Rows, Replies
<1>4. bids' = bids \cup {row} /\ (told' = told \cup {reply} \/ told' = told)
  BY DEF Commit, ReplyOf
<1> HIDE DEF row, reply
<1>5. last_seq' = last_seq /\ sequence' = sequence /\ ensuring' = ensuring /\ lost' = lost
  BY DEF Commit
<1>6. /\ Drawing' = Drawing \ {s} /\ Inserted' = Inserted \ {s}
      /\ \A t \in Sessions \ {s} : call'[t] = call[t]
      /\ call' \in [Sessions -> Calls \cup {Idle}]
  BY <1>1, CallEnds DEF Commit
<1>7. TypeOK'
  BY <1>1, <1>3, <1>4, <1>5, <1>6 DEF TypeOK
<1>8. \A t \in Drawing' : t \in Drawing /\ call'[t] = call[t]
  BY <1>1, <1>6, CallTypes
<1>9. \A t \in Inserted' : t \in Inserted /\ t # s /\ call'[t] = call[t]
  BY <1>1, <1>6, CallTypes
<1>10. Drawn'
  BY <1>5, <1>8 DEF Inv, Drawn
<1>11. \A r \in bids : r.number # row.number /\ r.key # row.key
  BY <1>1, <1>3 DEF Inv, Unique, Conflicts
<1>12. Unique'
  <2>1. \A q, r \in bids' : q.number = r.number \/ q.key = r.key => q = r
    BY <1>4, <1>11 DEF Inv, Unique
  <2>2. \A t \in Inserted' : call[t].number # row.number /\ call[t].key # row.key
    BY <1>1, <1>3, <1>9 DEF Inv, Unique
  <2>3. \A t \in Inserted' : Conflicts(bids', call[t].number, call[t].key) = {}
    BY <1>4, <1>9, <2>2 DEF Inv, Unique, Conflicts
  <2>4. \A t, u \in Inserted' :
          call[t].number = call[u].number \/ call[t].key = call[u].key => t = u
    BY <1>9 DEF Inv, Unique
  <2>5. QED
    BY <1>9, <2>1, <2>3, <2>4 DEF Unique, Conflicts
<1>13. ToldRows'
  BY <1>3, <1>4 DEF Inv, ToldRows
<1>14. CounterBelowNative'
  <2>1. row.number \in Nat \ {0} /\ last_seq \in Nat /\ sequence.last \in Nat
    <3>1. call[s].number \in 1..sequence.last /\ sequence.last \in Nat /\ last_seq \in Nat
      BY <1>1 DEF Inv, Drawn, TypeOK
    <3>2. QED
      BY <1>3, <3>1
  <2>2. row.number \notin 1..last_seq
    BY <1>11 DEF Inv, CounterBelowNative
  <2>3. row.number > last_seq
    BY <2>1, <2>2
  <2>4. {r \in bids' : r.path = "counter"} = {r \in bids : r.path = "counter"}
    BY <1>3, <1>4
  <2>5. QED
    BY <1>3, <1>4, <1>5, <2>3, <2>4 DEF Inv, CounterBelowNative
<1>15. QED
  BY <1>7, <1>10, <1>12, <1>13, <1>14 DEF Inv

LEMMA RollbackStep == ASSUME Inv, NEW s \in Sessions, Rollback(s) PROVE Inv'
<1>1. TypeOK
  BY DEF Inv
<1>2. /\ Drawing' = Drawing \ {s} /\ Inserted' = Inserted \ {s}
      /\ \A t \in Sessions \ {s} : call'[t] = call[t]
      /\ call' \in [Sessions -> Calls \cup {Idle}]
  BY <1>1, CallEnds DEF Rollback
<1>3. bids' = bids /\ last_seq' = last_seq /\ told' = told /\ sequence' = sequence
  BY DEF Rollback
<1>4. TypeOK'
  BY <1>1, <1>2 DEF Rollback, LostWith, TypeOK
<1>5. \A t \in Drawing' : t \in Drawing /\ call'[t] = call[t]
  BY <1>1, <1>2, CallTypes
<1>6. \A t \in Inserted' : t \in Inserted /\ call'[t] = call[t]
  BY <1>1, <1>2, CallTypes
<1>7. QED
  BY <1>3, <1>4, <1>5, <1>6 DEF Inv, Unique, Drawn, ToldRows, CounterBelowNative, Conflicts

LEMMA CounterStep == ASSUME Inv, NEW k \in Keys, CounterAppend(k) PROVE Inv'
<1>1. sequence' = sequence /\ ensuring' = ensuring /\ call' = call /\ lost' = lost
  BY DEF CounterAppend
<1>2. Drawing' = Drawing /\ Inserted' = Inserted
  BY <1>1 DEF Drawing, Inserted
<1>3. Drawn'
  BY <1>1, <1>2 DEF Inv, Drawn
<1>4. last_seq \in Nat /\ \A r \in bids : r \in Rows /\ r.number \in Nat
  BY DEF Inv, TypeOK, Rows
<1>5. CASE bids' = bids /\ last_seq' = last_seq
  <2>1. PICK r \in bids : r.key = k /\ told' = told \cup {[number |-> r.number, key |-> k]}
    BY <1>4, <1>5 DEF CounterAppend
  <2>2. TypeOK'
    BY <1>1, <1>4, <1>5, <2>1 DEF Inv, TypeOK, Replies
  <2>3. ToldRows'
    BY <1>5, <2>1 DEF Inv, ToldRows
  <2>4. QED
    BY <1>1, <1>2, <1>3, <1>5, <2>2, <2>3 DEF Inv, Unique, CounterBelowNative, Conflicts
<1>6. CASE ~ (bids' = bids /\ last_seq' = last_seq)
  <2> DEFINE row == [number |-> last_seq + 1, key |-> k, path |-> "counter"]
  <2>1. /\ row \in Rows /\ [number |-> last_seq + 1, key |-> k] \in Replies
        /\ row.number = last_seq + 1 /\ row.key = k /\ row.path = "counter"
    BY <1>4 DEF Rows, Replies
  <2>2. /\ bids' = bids \cup {row} /\ last_seq' = last_seq + 1
        /\ told' = told \cup {[number |-> last_seq + 1, key |-> k]}
        /\ Conflicts(bids, last_seq + 1, k) = {} /\ ~ MustWait(last_seq + 1, k)
    BY <1>6 DEF CounterAppend
  <2> HIDE DEF row
  <2>3. \A r \in bids : r.number # row.number /\ r.key # row.key
    BY <2>1, <2>2 DEF Conflicts
  <2>4. \A t \in Inserted : call[t].number # row.number /\ call[t].key # row.key
    BY <2>1, <2>2 DEF MustWait, Conflicts
  <2>5. TypeOK'
    BY <1>1, <1>4, <2>1, <2>2 DEF Inv, TypeOK
  <2>6. Unique'
    <3>1. \A q, r \in bids' : q.number = r.number \/ q.key = r.key => q = r
      BY <2>2, <2>3 DEF Inv, Unique
    <3>2. \A t \in Inserted : Conflicts(bids', call[t].number, call[t].key) = {}
      BY <2>2, <2>4 DEF Inv, Unique, Conflicts
    <3>3. QED
      BY <1>1, <1>2, <3>1, <3>2 DEF Inv, Unique, Conflicts
  <2>7. ToldRows'
    BY <2>1, <2>2 DEF Inv, ToldRows
  <2>8. CounterBelowNative'
    <3>1. {r \in bids' : r.path = "counter"} = {r \in bids : r.path = "counter"} \cup {row}
      BY <2>1, <2>2
    <3>2. {r.number : r \in {r \in bids' : r.path = "counter"}} = 1..last_seq \cup {last_seq + 1}
      BY <2>1, <3>1 DEF Inv, CounterBelowNative
    <3>3. 1..last_seq \cup {last_seq + 1} = 1..(last_seq + 1)
      BY <1>4
    <3>4. ASSUME NEW r \in bids', r.path = "native" PROVE r.number > last_seq + 1
      <4>1. r \in bids
        BY <2>1, <2>2, <3>4
      <4>2. r.number > last_seq /\ r.number # last_seq + 1
        BY <2>1, <2>3, <3>4, <4>1 DEF Inv, CounterBelowNative
      <4>3. QED
        BY <1>4, <4>1, <4>2
    <3>5. QED
      BY <2>2, <3>2, <3>3, <3>4 DEF CounterBelowNative
  <2>9. QED
    BY <1>3, <2>5, <2>6, <2>7, <2>8 DEF Inv
<1>7. QED
  BY <1>5, <1>6

LEMMA InvInvariant == Spec => []Inv
<1>1. Inv /\ Next => Inv'
  BY SequenceStep, BeginStep, NextValStep, InsertStep, CommitStep, RollbackStep, CounterStep
  DEF Next
<1>2. Inv /\ UNCHANGED vars => Inv'
  BY DEF Inv, TypeOK, Unique, Drawn, ToldRows, CounterBelowNative, Conflicts, Drawing, Inserted, vars
<1>3. QED
  BY <1>1, <1>2, InvInit, PTL DEF Spec

----------------------------------------------------------------------------
\* Every reachable state has its type.
THEOREM NativeTypes == Spec => []TypeOK
  BY InvInvariant, PTL DEF Inv

\* A caller of either path was told the truth, for ever: its row is the only one
\* with its key and the only one with its number (ledger.go:340-349).
THEOREM RepliesStayTrue == Spec => []RepliesAreTrue
<1>1. Inv => RepliesAreTrue
  <2> SUFFICES ASSUME Inv, NEW t \in told
               PROVE  \E r \in bids : r.key = t.key /\ Conflicts(bids, t.number, t.key) = {r}
    BY DEF RepliesAreTrue
  <2>1. PICK r \in bids : r.number = t.number /\ r.key = t.key
    BY DEF Inv, ToldRows
  <2>2. \A q \in bids : q.number = t.number \/ q.key = t.key => q = r
    BY <2>1 DEF Inv, Unique
  <2>3. Conflicts(bids, t.number, t.key) = {r}
    BY <2>1, <2>2 DEF Conflicts
  <2>4. QED
    BY <2>1, <2>3
<1>2. QED
  BY <1>1, InvInvariant, PTL

\* Wherever the two paths meet on one auction, the counter's rows stay 1..last_seq
\* and the native ones above them (ledger.go:128-222 against 298-350).
THEOREM NativeAboveCounter == Spec => []CounterBelowNative
  BY InvInvariant, PTL DEF Inv

----------------------------------------------------------------------------
\* The numbers of the present sequence that no row has.
Missing == {n \in 1..sequence.last : \A r \in bids : r.number # n}

LEMMA FiniteAccount ==
  ASSUME TypeOK, IsFiniteSet(Sessions)
  PROVE  /\ IsFiniteSet(Missing) /\ Cardinality(Missing) \in Nat
         /\ IsFiniteSet(Drawing) /\ Cardinality(Drawing) \in Nat
         /\ lost \in Nat /\ sequence.last \in Nat
<1>1. sequence.last \in Nat /\ lost \in Nat
  BY DEF TypeOK
<1>2. IsFiniteSet(1..sequence.last)
  BY <1>1, FS_Interval
<1>3. IsFiniteSet(Missing) /\ IsFiniteSet(Drawing)
  BY <1>2, FS_Subset DEF Missing, Drawing
<1>4. QED
  BY <1>1, <1>3, FS_CardinalityType

Paid == Cardinality(Missing) =< lost + Cardinality(Drawing)

\* One session begins or ends to draw.
LEMMA DrawingCount ==
  ASSUME TypeOK, IsFiniteSet(Sessions), NEW s \in Sessions
  PROVE  /\ s \notin Drawing => Cardinality(Drawing \cup {s}) = Cardinality(Drawing) + 1
         /\ s \in Drawing => Cardinality(Drawing \ {s}) = Cardinality(Drawing) - 1
BY FiniteAccount, FS_AddElement, FS_RemoveElement

LEMMA PaidSequence ==
  ASSUME Inv, Inv', IsFiniteSet(Sessions), Paid, Create \/ Grant \/ AbandonEnsure \/ Drop
  PROVE  Paid'
<1>1. bids' = bids /\ call' = call
  BY DEF Create, Grant, AbandonEnsure, Drop
<1>2. Drawing' = Drawing
  BY <1>1 DEF Drawing
<1>3. TypeOK /\ TypeOK'
  BY DEF Inv
<1>4. /\ Cardinality(Drawing) \in Nat /\ lost' \in Nat
  BY <1>3, FiniteAccount DEF TypeOK
<1>5. CASE sequence'.last = 0
  <2>1. Missing' = {}
    BY <1>5 DEF Missing
  <2>2. QED
    BY <1>2, <1>4, <2>1, FS_EmptySet DEF Paid
<1>6. CASE sequence'.last # 0
  <2>1. sequence'.last = sequence.last /\ lost' = lost
    <3>1. ~ Drop
      BY <1>6 DEF Drop, NoSequence
    <3>2. CASE Create
      <4>1. sequence.exists
        BY <1>6, <3>2 DEF Create, NoSequence
      <4>2. QED
        BY <3>2, <4>1 DEF Create
    <3>3. CASE Grant
      BY <1>3, <3>3 DEF Grant, TypeOK
    <3>4. QED
      BY <3>1, <3>2, <3>3 DEF AbandonEnsure
  <2>2. Missing' = Missing
    BY <1>1, <2>1 DEF Missing
  <2>3. QED
    BY <1>2, <2>1, <2>2 DEF Paid
<1>7. QED
  BY <1>5, <1>6

LEMMA PaidNextVal ==
  ASSUME Inv, IsFiniteSet(Sessions), Paid, NEW s \in Sessions, NextVal(s)
  PROVE  Paid'
<1>1. TypeOK
  BY DEF Inv
<1>2. /\ bids' = bids /\ lost' = lost /\ sequence.last \in Nat
      /\ sequence'.last = sequence.last + 1
  BY <1>1 DEF NextVal, NextValue, TypeOK
<1>3. s \notin Drawing /\ Drawing' = Drawing \cup {s}
  <2>1. s \notin Drawing
    BY DEF NextVal, Drawing
  <2>2. call' = [call EXCEPT ![s].next = "insert", ![s].number = NextValue]
    BY DEF NextVal
  <2>3. call'[s].next = "insert" /\ \A t \in Sessions \ {s} : call'[t] = call[t]
    <3>1. call[s].next = "nextval"
      BY DEF NextVal
    <3>2. call[s] \in Calls
      BY <1>1, <3>1, CallTypes DEF Idle
    <3>3. QED
      BY <1>1, <2>2, <3>2 DEF TypeOK, Calls
  <2>4. QED
    BY <2>1, <2>3 DEF Drawing
<1>4. Missing' \subseteq Missing \cup {sequence.last + 1}
  BY <1>2 DEF Missing
<1>5. IsFiniteSet(Missing \cup {sequence.last + 1})
  BY <1>1, FiniteAccount, FS_AddElement
<1>6. Cardinality(Missing') =< Cardinality(Missing \cup {sequence.last + 1})
      /\ Cardinality(Missing') \in Nat
  BY <1>4, <1>5, FS_Subset, FS_CardinalityType
<1>7. Cardinality(Missing \cup {sequence.last + 1}) =< Cardinality(Missing) + 1
      /\ Cardinality(Missing \cup {sequence.last + 1}) \in Nat
  <2>1. IsFiniteSet(Missing) /\ Cardinality(Missing) \in Nat
    BY <1>1, FiniteAccount
  <2>2. Cardinality(Missing \cup {sequence.last + 1}) =
          IF sequence.last + 1 \in Missing THEN Cardinality(Missing) ELSE Cardinality(Missing) + 1
    BY <2>1, FS_AddElement
  <2>3. QED
    BY <2>1, <2>2
<1>8. Cardinality(Drawing') = Cardinality(Drawing) + 1
  BY <1>1, <1>3, DrawingCount
<1>9. QED
  BY <1>1, <1>2, <1>6, <1>7, <1>8, FiniteAccount DEF Paid

LEMMA PaidCommit ==
  ASSUME Inv, IsFiniteSet(Sessions), Paid, NEW s \in Sessions, Commit(s)
  PROVE  Paid'
<1>1. TypeOK /\ s \in Inserted /\ s \in Drawing
  BY DEF Inv, Commit, Drawing, Inserted
<1>2. Drawing' = Drawing \ {s}
  BY <1>1, CallEnds DEF Commit
<1>3. lost' = lost /\ sequence' = sequence
  BY DEF Commit
<1>4. call[s].number \in Missing
  BY <1>1 DEF Inv, Drawn, Unique, Conflicts, Missing
<1>5. Missing' \subseteq Missing \ {call[s].number}
  <2> DEFINE row == [number |-> call[s].number, key |-> call[s].key, path |-> "native"]
  <2>1. bids' = bids \cup {row} /\ row.number = call[s].number
    BY DEF Commit
  <2> HIDE DEF row
  <2>2. QED
    BY <1>3, <2>1 DEF Missing
<1>6. /\ Cardinality(Missing \ {call[s].number}) = Cardinality(Missing) - 1
      /\ IsFiniteSet(Missing \ {call[s].number})
  BY <1>1, <1>4, FiniteAccount, FS_RemoveElement
<1>7. Cardinality(Missing') =< Cardinality(Missing \ {call[s].number})
      /\ Cardinality(Missing') \in Nat
  BY <1>5, <1>6, FS_Subset, FS_CardinalityType
<1>8. Cardinality(Drawing') = Cardinality(Drawing) - 1
  BY <1>1, <1>2, DrawingCount
<1>9. QED
  BY <1>1, <1>3, <1>6, <1>7, <1>8, FiniteAccount DEF Paid

LEMMA PaidRollback ==
  ASSUME Inv, IsFiniteSet(Sessions), Paid, NEW s \in Sessions, Rollback(s)
  PROVE  Paid'
<1>1. TypeOK
  BY DEF Inv
<1>2. Drawing' = Drawing \ {s} /\ Missing' = Missing
  BY <1>1, CallEnds DEF Rollback, Missing
<1>3. CASE s \in Drawing
  <2>1. lost' = lost + 1 /\ Cardinality(Drawing') = Cardinality(Drawing) - 1
    BY <1>1, <1>2, <1>3, DrawingCount DEF Rollback, LostWith
  <2>2. QED
    BY <1>1, <1>2, <2>1, FiniteAccount DEF Paid
<1>4. CASE s \notin Drawing
  <2>1. lost' = lost /\ Drawing' = Drawing
    BY <1>2, <1>4 DEF Rollback, LostWith
  <2>2. QED
    BY <1>2, <2>1 DEF Paid
<1>5. QED
  BY <1>3, <1>4

LEMMA PaidOther ==
  ASSUME Inv, IsFiniteSet(Sessions), Paid,
         (\E s \in Sessions : Begin(s) \/ Insert(s)) \/ (\E k \in Keys : CounterAppend(k))
  PROVE  Paid'
<1>1. TypeOK
  BY DEF Inv
<1>2. sequence' = sequence /\ lost' = lost /\ bids \subseteq bids'
  BY DEF Begin, Insert, CounterAppend
<1>3. Drawing' = Drawing
  <2>1. CASE \E k \in Keys : CounterAppend(k)
    BY <2>1 DEF CounterAppend, Drawing
  <2>2. ASSUME NEW s \in Sessions, Begin(s) PROVE Drawing' = Drawing
    <3>1. s \notin Drawing
      BY <2>2 DEF Begin, Drawing, Idle
    <3>2. PICK k \in Keys :
            call' = [call EXCEPT ![s] = [next |-> "nextval", key |-> k, number |-> 0]]
      BY <2>2 DEF Begin
    <3>3. Drawing' = Drawing \ {s}
      BY <1>1, <3>2, OthersStay
    <3>4. QED
      BY <3>1, <3>3
  <2>3. ASSUME NEW s \in Sessions, Insert(s) PROVE Drawing' = Drawing
    <3>1. s \in Drawing /\ call[s].next = "insert" /\ call[s] \in Calls
      BY <1>1, <2>3, CallTypes DEF Insert, Drawing
    <3>2. call'[s].next = "commit" /\ \A t \in Sessions \ {s} : call'[t] = call[t]
      BY <1>1, <2>3, <3>1 DEF Insert, TypeOK, Calls
    <3>3. QED
      BY <3>1, <3>2 DEF Drawing
  <2>4. QED
    BY <2>1, <2>2, <2>3
<1>4. Missing' \subseteq Missing
  BY <1>2 DEF Missing
<1>5. Cardinality(Missing') =< Cardinality(Missing) /\ Cardinality(Missing') \in Nat
  BY <1>1, <1>4, FiniteAccount, FS_Subset, FS_CardinalityType
<1>6. QED
  BY <1>1, <1>2, <1>3, <1>5, FiniteAccount DEF Paid

\* However many calls overlap, fail or lose their reply, and however often the
\* sequence is dropped and created anew, a number is missing only for a call
\* that rolled back or is still open (ledger.go:296-350).
THEOREM EveryGapIsPaid == ASSUME IsFiniteSet(Sessions) PROVE Spec => []GapsArePaid
<1>1. Init => Paid
  <2> SUFFICES ASSUME Init PROVE Paid
    OBVIOUS
  <2>1. Missing = {} /\ Drawing = {} /\ lost = 0
    BY DEF Init, Missing, Drawing, NoSequence, Idle
  <2>2. QED
    BY <2>1, FS_EmptySet DEF Paid
<1>2. Inv /\ Inv' /\ Paid /\ Next => Paid'
  BY PaidSequence, PaidNextVal, PaidCommit, PaidRollback, PaidOther DEF Next
<1>3. Paid /\ UNCHANGED vars => Paid'
  <2> SUFFICES ASSUME Paid, UNCHANGED vars PROVE Paid'
    OBVIOUS
  <2>1. Missing' = Missing /\ Drawing' = Drawing /\ lost' = lost
    BY DEF Missing, Drawing, vars
  <2>2. QED
    BY <2>1 DEF Paid
<1>4. Paid => GapsArePaid
  BY DEF Paid, Missing, GapsArePaid
<1>5. QED
  BY <1>1, <1>2, <1>3, <1>4, InvInvariant, PTL DEF Spec
=============================================================================
