------------------------ MODULE OutboxRelay_proofs ------------------------
(***************************************************************************)
(* What the relays guarantee, for any number of relays, auctions, rows and *)
(* failures.                                                               *)
(*                                                                         *)
(* The row lock carries everything: a row that a relay holds is committed, *)
(* not marked and held by nobody else (Locking).  Repetitions are counted  *)
(* against failures by the rows that were announced and whose relay has    *)
(* lost them (Loose); and a relay passes over a row of the same auction    *)
(* only while somebody has it locked (Skipped).                            *)
(***************************************************************************)
EXTENDS OutboxRelay, FiniteSetTheorems, SequenceTheorems, WellFoundedInduction, TLAPS

Locking ==
  /\ \A r \in Relays :
       /\ holding[r] # 0 <=> pc[r] \in {"publish", "mark", "commit"}
       /\ holding[r] # 0 => /\ outbox[holding[r]].fate = "committed"
                            /\ holding[r] \notin marked
                            /\ holding[r] \notin orphans
       /\ pc[r] \in {"mark", "commit"} => holding[r] \in Published
  /\ \A q, r \in Relays : q # r /\ holding[r] # 0 => holding[q] # holding[r]
  /\ \A n \in orphans : outbox[n].fate = "committed" /\ n \notin marked
  /\ committing \subseteq Published

\* While a transaction of an auction is open there is no later row of it.
Closed ==
  \A m, n \in DOMAIN outbox :
    m < n /\ outbox[m].auction = outbox[n].auction => outbox[m].fate # "open"

Base == TypeOK /\ Locking /\ AnnouncedAndMarked /\ Closed

----------------------------------------------------------------------------
LEMMA Domains ==
  ASSUME TypeOK
  PROVE  /\ Len(outbox) \in Nat /\ DOMAIN outbox = 1..Len(outbox)
         /\ Len(channel) \in Nat /\ DOMAIN channel = 1..Len(channel)
         /\ IsFiniteSet(DOMAIN outbox)
         /\ Published \in SUBSET DOMAIN outbox
         /\ \A n \in DOMAIN outbox : outbox[n] \in Row
<1>1. /\ Len(outbox) \in Nat /\ DOMAIN outbox = 1..Len(outbox)
      /\ Len(channel) \in Nat /\ DOMAIN channel = 1..Len(channel)
  BY DEF TypeOK
<1>2. \A n \in DOMAIN outbox : outbox[n] \in Row
  BY <1>1, ElementOfSeq DEF TypeOK
<1>3. \A k \in DOMAIN channel : channel[k] \in DOMAIN outbox
  BY <1>1, ElementOfSeq DEF TypeOK
<1>4. IsFiniteSet(1..Len(outbox))
  BY <1>1, FS_Interval
<1>5. QED
  BY <1>1, <1>2, <1>3, <1>4 DEF Published

\* A new row comes behind the others and is open.
LEMMA RowWritten ==
  ASSUME TypeOK, NEW a \in Auctions, WriteEvent(a)
  PROVE  /\ outbox' \in Seq(Row)
         /\ Len(outbox') = Len(outbox) + 1
         /\ DOMAIN outbox' = 1..(Len(outbox) + 1)
         /\ \A n \in DOMAIN outbox : outbox'[n] = outbox[n]
         /\ outbox'[Len(outbox) + 1].fate = "open"
         /\ outbox'[Len(outbox) + 1].auction = a
<1> DEFINE before == {n \in RowsOf(a) : outbox[n].fate = "committed"}
           row == [auction |-> a, sequence |-> Cardinality(before) + 1, fate |-> "open"]
<1>1. outbox' = Append(outbox, row)
  BY DEF WriteEvent
<1>2. before \in SUBSET DOMAIN outbox
  BY DEF RowsOf
<1>3. Cardinality(before) \in Nat
  BY <1>2, Domains, FS_Subset, FS_CardinalityType
<1>4. row \in Row
  BY <1>3 DEF Row
<1>5. row.fate = "open" /\ row.auction = a
  OBVIOUS
<1> HIDE DEF row
<1>6. outbox \in Seq(Row) /\ Len(outbox) \in Nat /\ DOMAIN outbox = 1..Len(outbox)
  BY Domains DEF TypeOK
<1>7. QED
  BY <1>1, <1>4, <1>5, <1>6, AppendProperties

\* The end of a transaction changes the fate of its row from open.
LEMMA WriteEnded ==
  ASSUME TypeOK, NEW n, EndWrite(n)
  PROVE  /\ n \in DOMAIN outbox
         /\ outbox' \in Seq(Row)
         /\ Len(outbox') = Len(outbox)
         /\ DOMAIN outbox' = DOMAIN outbox
         /\ \A m \in DOMAIN outbox :
              /\ outbox'[m].auction = outbox[m].auction
              /\ outbox'[m].sequence = outbox[m].sequence
              /\ m # n => outbox'[m] = outbox[m]
         /\ outbox[n].fate = "open" /\ outbox'[n].fate # "open"
<1>1. PICK fate \in {"committed", "aborted"} : outbox' = [outbox EXCEPT ![n].fate = fate]
  BY DEF EndWrite
<1>2. n \in DOMAIN outbox /\ outbox[n].fate = "open"
  BY DEF EndWrite
<1>3. /\ outbox \in Seq(Row) /\ DOMAIN outbox = 1..Len(outbox) /\ Len(outbox) \in Nat
      /\ \A m \in DOMAIN outbox : outbox[m] \in Row
  BY Domains DEF TypeOK
<1>4. /\ DOMAIN outbox' = DOMAIN outbox
      /\ \A m \in DOMAIN outbox : m # n => outbox'[m] = outbox[m]
      /\ outbox'[n] = [outbox[n] EXCEPT !.fate = fate]
  BY <1>1, <1>2, <1>3
<1>5. /\ outbox'[n] \in Row
      /\ outbox'[n].fate = fate
      /\ outbox'[n].auction = outbox[n].auction
      /\ outbox'[n].sequence = outbox[n].sequence
  BY <1>2, <1>3, <1>4 DEF Row
<1>6. outbox' \in [1..Len(outbox) -> Row]
  <2>1. \A m \in 1..Len(outbox) : outbox'[m] \in Row
    BY <1>3, <1>4, <1>5
  <2>2. outbox' = [m \in DOMAIN outbox |-> outbox'[m]]
    BY <1>1
  <2>3. QED
    BY <1>3, <2>1, <2>2
<1>7. outbox' \in Seq(Row) /\ Len(outbox') = Len(outbox)
  BY <1>3, <1>6, SeqDef, <1>4
<1>8. QED
  BY <1>1, <1>2, <1>4, <1>5, <1>7

\* Redis carries the published rows and the new one.
LEMMA RowPublished ==
  ASSUME TypeOK, NEW r \in Relays, Publish(r), holding[r] \in DOMAIN outbox
  PROVE  /\ channel' \in Seq(DOMAIN outbox)
         /\ Len(channel') = Len(channel) + 1
         /\ DOMAIN channel' = 1..(Len(channel) + 1)
         /\ \A k \in DOMAIN channel : channel'[k] = channel[k]
         /\ channel'[Len(channel) + 1] = holding[r]
         /\ Published' = Published \cup {holding[r]}
<1>1. channel' = Append(channel, holding[r])
  BY DEF Publish, Announced
<1>2. channel \in Seq(DOMAIN outbox) /\ Len(channel) \in Nat /\ DOMAIN channel = 1..Len(channel)
  BY Domains DEF TypeOK
<1>3. /\ channel' \in Seq(DOMAIN outbox)
      /\ Len(channel') = Len(channel) + 1
      /\ DOMAIN channel' = 1..(Len(channel) + 1)
      /\ \A k \in DOMAIN channel : channel'[k] = channel[k]
      /\ channel'[Len(channel) + 1] = holding[r]
  BY <1>1, <1>2, AppendProperties
<1>4. \A n : n \in Published' <=> n \in Published \/ n = holding[r]
  <2>1. ASSUME NEW n, n \in Published' PROVE n \in Published \/ n = holding[r]
    <3>1. PICK k \in DOMAIN channel' : n = channel'[k]
      BY <2>1 DEF Published
    <3>2. k \in DOMAIN channel \/ k = Len(channel) + 1
      BY <1>2, <1>3
    <3>3. QED
      BY <1>3, <3>1, <3>2 DEF Published
  <2>2. Len(channel) + 1 \in DOMAIN channel' /\ DOMAIN channel \subseteq DOMAIN channel'
    BY <1>2, <1>3
  <2>3. QED
    BY <1>3, <2>1, <2>2 DEF Published
<1>5. QED
  BY <1>3, <1>4

----------------------------------------------------------------------------
\* One lemma per action: it keeps Base.
LEMMA BaseWrite == ASSUME Base, NEW a \in Auctions, WriteEvent(a) PROVE Base'
<1>1. TypeOK /\ Locking /\ AnnouncedAndMarked /\ Closed
  BY DEF Base
<1>2. /\ outbox' \in Seq(Row)
      /\ DOMAIN outbox' = 1..(Len(outbox) + 1)
      /\ DOMAIN outbox = 1..Len(outbox) /\ Len(outbox) \in Nat
      /\ \A n \in DOMAIN outbox : outbox'[n] = outbox[n]
      /\ outbox'[Len(outbox) + 1].auction = a
  BY <1>1, RowWritten, Domains
<1>3. DOMAIN outbox \subseteq DOMAIN outbox'
  BY <1>2
<1>4. UNCHANGED <<marked, channel, pc, holding, orphans, committing, failures>>
  BY DEF WriteEvent
<1>5. TypeOK'
  <2>1. channel' \in Seq(DOMAIN outbox')
    BY <1>1, <1>3, <1>4, SeqMonotonic DEF TypeOK
  <2>2. QED
    BY <1>1, <1>2, <1>3, <1>4, <2>1 DEF TypeOK
<1>6. Published' = Published /\ Published \in SUBSET DOMAIN outbox
  BY <1>1, <1>4, Domains DEF Published
<1>7. Locking'
  <2>1. \A r \in Relays : holding[r] # 0 => outbox'[holding[r]] = outbox[holding[r]]
    BY <1>1, <1>2 DEF TypeOK
  <2>2. \A n \in orphans : outbox'[n] = outbox[n]
    BY <1>1, <1>2 DEF TypeOK
  <2>3. QED
    BY <1>1, <1>4, <1>6, <2>1, <2>2 DEF Locking
<1>8. AnnouncedAndMarked'
  BY <1>1, <1>2, <1>4, <1>6 DEF AnnouncedAndMarked
<1>9. Closed'
  <2>1. ASSUME NEW m \in DOMAIN outbox', NEW n \in DOMAIN outbox', m < n,
               outbox'[m].auction = outbox'[n].auction
        PROVE  outbox'[m].fate # "open"
    <3>1. m \in DOMAIN outbox /\ outbox'[m] = outbox[m]
      BY <1>2, <2>1
    <3>2. CASE n \in DOMAIN outbox
      BY <1>1, <1>2, <2>1, <3>1, <3>2 DEF Closed
    <3>3. CASE n \notin DOMAIN outbox
      <4>1. n = Len(outbox) + 1
        BY <1>2, <3>3
      <4>2. m \in RowsOf(a)
        BY <1>2, <2>1, <3>1, <4>1 DEF RowsOf
      <4>3. QED
        BY <3>1, <4>2 DEF WriteEvent
    <3>4. QED
      BY <3>2, <3>3
  <2>2. QED
    BY <2>1 DEF Closed
<1>10. QED
  BY <1>5, <1>7, <1>8, <1>9 DEF Base

LEMMA BaseEndWrite == ASSUME Base, NEW n, EndWrite(n) PROVE Base'
<1>1. TypeOK /\ Locking /\ AnnouncedAndMarked /\ Closed
  BY DEF Base
<1>2. /\ outbox' \in Seq(Row)
      /\ DOMAIN outbox' = DOMAIN outbox
      /\ \A m \in DOMAIN outbox :
           /\ outbox'[m].auction = outbox[m].auction
           /\ m # n => outbox'[m] = outbox[m]
      /\ outbox[n].fate = "open" /\ outbox'[n].fate # "open"
  BY <1>1, WriteEnded
<1>3. UNCHANGED <<marked, channel, pc, holding, orphans, committing, failures>>
  BY DEF EndWrite
<1>4. TypeOK'
  BY <1>1, <1>2, <1>3 DEF TypeOK
<1>5. Published' = Published /\ Published \in SUBSET DOMAIN outbox
  BY <1>1, <1>3, Domains DEF Published
<1>6. Locking'
  <2>1. \A r \in Relays : holding[r] # 0 => outbox'[holding[r]] = outbox[holding[r]]
    BY <1>1, <1>2 DEF TypeOK, Locking
  <2>2. \A m \in orphans : outbox'[m] = outbox[m]
    BY <1>1, <1>2 DEF TypeOK, Locking
  <2>3. QED
    BY <1>1, <1>3, <1>5, <2>1, <2>2 DEF Locking
<1>7. AnnouncedAndMarked'
  <2>1. \A m \in Published : outbox'[m] = outbox[m]
    BY <1>1, <1>2, <1>5 DEF AnnouncedAndMarked
  <2>2. QED
    BY <1>1, <1>3, <1>5, <2>1 DEF AnnouncedAndMarked
<1>8. Closed'
  BY <1>1, <1>2 DEF Closed
<1>9. QED
  BY <1>4, <1>6, <1>7, <1>8 DEF Base

\* A set of numbers that is not empty has a least element.
LEMMA LeastElement ==
  ASSUME NEW S, S \subseteq Nat, S # {}
  PROVE  \E i \in S : \A j \in S : i =< j
<1>1. PICK i \in S : \A j \in S : <<j, i>> \notin OpToRel(<, Nat)
  BY NatLessThanWellFounded, WFMin, Zenon
<1>2. ASSUME NEW j \in S PROVE i =< j
  <2>1. <<j, i>> \in Nat \X Nat
    OBVIOUS
  <2>2. ~ (<<j, i>>[1] < <<j, i>>[2])
    BY <1>1, <2>1 DEF OpToRel
  <2>3. QED
    BY <2>2
<1>3. QED
  BY <1>2

\* A row that SKIP LOCKED finds.
LEMMA RowSelected ==
  ASSUME TypeOK, Candidates # {}
  PROVE  /\ Oldest(Candidates) \in Candidates
         /\ \A m \in Candidates : Oldest(Candidates) =< m
         /\ Candidates \in SUBSET DOMAIN outbox
<1>1. Candidates \in SUBSET DOMAIN outbox /\ Len(outbox) \in Nat /\ DOMAIN outbox = 1..Len(outbox)
  BY Domains DEF Candidates
<1>2. \E n \in Candidates : \A m \in Candidates : n =< m
  <2>1. Candidates \subseteq Nat
    BY <1>1
  <2>2. QED
    BY <2>1, LeastElement
<1>3. QED
  BY <1>1, <1>2 DEF Oldest

LEMMA BaseSelect == ASSUME Base, NEW r \in Relays, Select(r) PROVE Base'
<1>1. TypeOK /\ Locking /\ AnnouncedAndMarked /\ Closed
  BY DEF Base
<1> DEFINE n == Oldest(Candidates)
<1>2. /\ n \in DOMAIN outbox /\ outbox[n].fate = "committed" /\ n \notin marked
      /\ n \notin orphans /\ \A q \in Relays : holding[q] # n
  BY <1>1, RowSelected DEF Select, Candidates, Visible, Locked
<1>3. /\ holding' = [holding EXCEPT ![r] = n]
      /\ pc' = [pc EXCEPT ![r] = "publish"]
      /\ UNCHANGED <<outbox, marked, channel, orphans, committing, failures>>
  BY DEF Select
<1> HIDE DEF n
<1>4. n # 0
  BY <1>1, <1>2, Domains
<1>5. TypeOK' /\ Closed'
  BY <1>1, <1>2, <1>3 DEF TypeOK, Closed
<1>6. Published' = Published
  BY <1>3 DEF Published
<1>7. Locking' /\ AnnouncedAndMarked'
  BY <1>1, <1>2, <1>3, <1>4, <1>6 DEF TypeOK, Locking, AnnouncedAndMarked
<1>8. QED
  BY <1>5, <1>7 DEF Base

LEMMA BasePublish == ASSUME Base, NEW r \in Relays, Publish(r) PROVE Base'
<1>1. TypeOK /\ Locking /\ AnnouncedAndMarked /\ Closed
  BY DEF Base
<1>2. /\ holding[r] # 0 /\ outbox[holding[r]].fate = "committed" /\ holding[r] \in DOMAIN outbox
  BY <1>1 DEF Publish, Locking, TypeOK
<1>3. channel' \in Seq(DOMAIN outbox) /\ Published' = Published \cup {holding[r]}
  BY <1>1, <1>2, RowPublished
<1>4. /\ pc' = [pc EXCEPT ![r] = "mark"]
      /\ UNCHANGED <<outbox, marked, holding, orphans, committing, failures>>
  BY DEF Publish
<1>5. TypeOK' /\ Closed'
  BY <1>1, <1>3, <1>4 DEF TypeOK, Closed
<1>6. Locking' /\ AnnouncedAndMarked'
  BY <1>1, <1>2, <1>3, <1>4 DEF TypeOK, Locking, AnnouncedAndMarked, Publish
<1>7. QED
  BY <1>5, <1>6 DEF Base

LEMMA BaseMark == ASSUME Base, NEW r \in Relays, Mark(r) PROVE Base'
<1>1. TypeOK /\ Locking /\ AnnouncedAndMarked /\ Closed
  BY DEF Base
<1>2. holding[r] # 0 /\ holding[r] \notin marked
  BY <1>1 DEF Mark, Locking
<1>3. /\ pc' = [pc EXCEPT ![r] = "commit"]
      /\ UNCHANGED <<outbox, marked, channel, holding, orphans, committing, failures>>
  BY <1>2 DEF Mark
<1>4. TypeOK' /\ Closed' /\ Published' = Published
  BY <1>1, <1>3 DEF TypeOK, Closed, Published
<1>5. Locking' /\ AnnouncedAndMarked'
  BY <1>1, <1>2, <1>3, <1>4 DEF TypeOK, Locking, AnnouncedAndMarked, Mark
<1>6. QED
  BY <1>4, <1>5 DEF Base

LEMMA BaseCommit == ASSUME Base, NEW r \in Relays, Commit(r) PROVE Base'
<1>1. TypeOK /\ Locking /\ AnnouncedAndMarked /\ Closed
  BY DEF Base
<1>2. holding[r] # 0 /\ holding[r] \in Published /\ holding[r] \in DOMAIN outbox
      /\ holding[r] \notin orphans
  BY <1>1 DEF Commit, Locking, TypeOK
<1>3. /\ pc' = [pc EXCEPT ![r] = "select"]
      /\ holding' = [holding EXCEPT ![r] = 0]
      /\ marked' = marked \cup {holding[r]}
      /\ UNCHANGED <<outbox, channel, orphans, committing, failures>>
  BY DEF Commit
<1>4. TypeOK' /\ Closed' /\ Published' = Published
  BY <1>1, <1>2, <1>3 DEF TypeOK, Closed, Published
<1>5. Locking'
  <2>1. \A q \in Relays : q # r => holding[q] # holding[r]
    BY <1>1, <1>2 DEF Locking
  <2>2. QED
    BY <1>1, <1>2, <1>3, <1>4, <2>1 DEF TypeOK, Locking
<1>6. AnnouncedAndMarked'
  BY <1>1, <1>2, <1>3, <1>4 DEF AnnouncedAndMarked
<1>7. QED
  BY <1>4, <1>5, <1>6 DEF Base

LEMMA BaseFail == ASSUME Base, NEW r \in Relays, Fail(r) PROVE Base'
<1>1. TypeOK /\ Locking /\ AnnouncedAndMarked /\ Closed
  BY DEF Base
<1>2. /\ pc' = [pc EXCEPT ![r] = "down"]
      /\ holding' = [holding EXCEPT ![r] = 0]
      /\ failures' = failures + 1
      /\ UNCHANGED <<outbox, marked, channel, orphans, committing>>
  BY DEF Fail, Stop
<1>3. TypeOK' /\ Closed' /\ Published' = Published
  BY <1>1, <1>2 DEF TypeOK, Closed, Published
<1>4. Locking' /\ AnnouncedAndMarked'
  BY <1>1, <1>2, <1>3 DEF TypeOK, Locking, AnnouncedAndMarked
<1>5. QED
  BY <1>3, <1>4 DEF Base

LEMMA BaseVanish == ASSUME Base, NEW r \in Relays, Vanish(r) PROVE Base'
<1>1. TypeOK /\ Locking /\ AnnouncedAndMarked /\ Closed
  BY DEF Base
<1>2. /\ pc' = [pc EXCEPT ![r] = "down"]
      /\ holding' = [holding EXCEPT ![r] = 0]
      /\ orphans' = orphans \cup {holding[r]}
      /\ failures' = failures + 1
      /\ UNCHANGED <<outbox, marked, channel>>
      /\ \/ pc[r] = "commit" /\ committing' = committing \cup {holding[r]}
         \/ UNCHANGED committing
      /\ holding[r] # 0
  BY DEF Vanish, Stop
<1>3. holding[r] \in DOMAIN outbox
  BY <1>1, <1>2 DEF TypeOK
<1>4. TypeOK' /\ Closed' /\ Published' = Published
  BY <1>1, <1>2, <1>3 DEF TypeOK, Closed, Published
<1>5. Locking'
  <2>1. \A q \in Relays : q # r => holding[q] # holding[r]
    BY <1>1, <1>2 DEF Locking
  <2>2. \A q \in Relays : q # r => holding'[q] = holding[q] /\ pc'[q] = pc[q]
    BY <1>1, <1>2 DEF TypeOK
  <2>3. committing' \subseteq Published
    BY <1>1, <1>2 DEF Locking
  <2>4. holding'[r] = 0 /\ pc'[r] = "down"
    BY <1>1, <1>2 DEF TypeOK
  <2>5. \A n \in orphans' : outbox[n].fate = "committed" /\ n \notin marked
    BY <1>1, <1>2 DEF Locking
  <2>6. \A q \in Relays :
          /\ holding'[q] # 0 <=> pc'[q] \in {"publish", "mark", "commit"}
          /\ holding'[q] # 0 => /\ outbox[holding'[q]].fate = "committed"
                                /\ holding'[q] \notin marked
                                /\ holding'[q] \notin orphans'
          /\ pc'[q] \in {"mark", "commit"} => holding'[q] \in Published
    BY <1>1, <1>2, <2>1, <2>2, <2>4 DEF Locking
  <2>7. \A p, q \in Relays : p # q /\ holding'[q] # 0 => holding'[p] # holding'[q]
    BY <1>1, <2>2, <2>4 DEF Locking
  <2>8. QED
    BY <1>2, <1>4, <2>3, <2>5, <2>6, <2>7 DEF Locking
<1>6. AnnouncedAndMarked'
  BY <1>1, <1>2, <1>4 DEF AnnouncedAndMarked
<1>7. QED
  BY <1>4, <1>5, <1>6 DEF Base

LEMMA BaseEndOrphan == ASSUME Base, NEW n, EndOrphan(n) PROVE Base'
<1>1. TypeOK /\ Locking /\ AnnouncedAndMarked /\ Closed
  BY DEF Base
<1>2. /\ n \in orphans
      /\ orphans' = orphans \ {n}
      /\ committing' = committing \ {n}
      /\ marked' = IF n \in committing THEN marked \cup {n} ELSE marked
      /\ UNCHANGED <<outbox, channel, pc, holding, failures>>
  BY DEF EndOrphan
<1>3. TypeOK' /\ Closed' /\ Published' = Published
  BY <1>1, <1>2 DEF TypeOK, Closed, Published
<1>4. Locking' /\ AnnouncedAndMarked'
  BY <1>1, <1>2, <1>3 DEF Locking, AnnouncedAndMarked
<1>5. QED
  BY <1>3, <1>4 DEF Base

LEMMA BaseRestart == ASSUME Base, NEW r \in Relays, Restart(r) PROVE Base'
<1>1. TypeOK /\ Locking /\ AnnouncedAndMarked /\ Closed
  BY DEF Base
<1>2. /\ pc[r] = "down" /\ pc' = [pc EXCEPT ![r] = "select"]
      /\ UNCHANGED <<outbox, marked, channel, holding, orphans, committing, failures>>
  BY DEF Restart
<1>3. TypeOK' /\ Closed' /\ Published' = Published
  BY <1>1, <1>2 DEF TypeOK, Closed, Published
<1>4. Locking' /\ AnnouncedAndMarked'
  BY <1>1, <1>2, <1>3 DEF TypeOK, Locking, AnnouncedAndMarked
<1>5. QED
  BY <1>3, <1>4 DEF Base

LEMMA BaseStutter == Base /\ UNCHANGED vars => Base'
BY DEF Base, TypeOK, Locking, AnnouncedAndMarked, Closed, Published, vars

LEMMA InitBase == Init => Base
<1> SUFFICES ASSUME Init PROVE Base
  OBVIOUS
<1>1. DOMAIN outbox = {} /\ Published = {}
  BY DEF Init, Published
<1>2. outbox \in Seq(Row) /\ channel \in Seq(DOMAIN outbox)
  BY EmptySeq DEF Init
<1>3. QED
  BY <1>1, <1>2 DEF Init, Base, TypeOK, Locking, AnnouncedAndMarked, Closed

LEMMA StepBase == Base /\ [Next]_vars => Base'
<1>1. ASSUME Base, NEW r \in Relays, Run(r) PROVE Base'
  BY <1>1, BaseSelect, BasePublish, BaseMark, BaseCommit, BaseStutter DEF Run, Poll
<1>2. ASSUME Base, NEW r \in Relays, Fail(r) \/ Vanish(r) \/ Restart(r) PROVE Base'
  BY <1>2, BaseFail, BaseVanish, BaseRestart
<1>3. QED
  BY <1>1, <1>2, BaseWrite, BaseEndWrite, BaseEndOrphan, BaseStutter DEF Next

LEMMA BaseInvariant == Spec => []Base
BY InitBase, StepBase, PTL DEF Spec

\* The variables keep their types, for any number of relays.
THEOREM RelayTypes == Spec => []TypeOK
<1>1. Base => TypeOK
  BY DEF Base
<1>2. QED
  BY <1>1, BaseInvariant, PTL

\* Only what was committed is announced, and only what was announced is marked,
\* for any number of relays, crashes and lingering locks (outbox.go:42-53).
THEOREM AnnouncedBeforeMarked == Spec => []AnnouncedAndMarked
<1>1. Base => AnnouncedAndMarked
  BY DEF Base
<1>2. QED
  BY <1>1, BaseInvariant, PTL

----------------------------------------------------------------------------
\* Repetitions.  A row announced again was Loose: announced, not marked, and in
\* the hands of no relay that is about to mark it; and only a failure makes a
\* row Loose.
InHand == {holding[r] : r \in {q \in Relays : pc[q] \in {"mark", "commit"}}}
Loose == Published \ (marked \cup InHand)

Counted == Len(channel) + Cardinality(Loose) =< Cardinality(Published) + failures

LEMMA Sizes ==
  ASSUME TypeOK
  PROVE  /\ IsFiniteSet(Loose) /\ Cardinality(Loose) \in Nat
         /\ IsFiniteSet(Published) /\ Cardinality(Published) \in Nat
         /\ failures \in Nat /\ Len(channel) \in Nat
<1>1. IsFiniteSet(Published) /\ Len(channel) \in Nat
  BY Domains, FS_Subset
<1>2. IsFiniteSet(Loose)
  BY <1>1, FS_Subset DEF Loose
<1>3. QED
  BY <1>1, <1>2, FS_CardinalityType DEF TypeOK

\* Steps that publish nothing and lose no row.
LEMMA CountedKept ==
  ASSUME TypeOK, TypeOK', Counted, UNCHANGED <<channel, failures>>, Loose' \subseteq Loose
  PROVE  Counted'
<1>1. Cardinality(Loose') =< Cardinality(Loose)
  BY Sizes, FS_Subset
<1>2. Published' = Published
  BY DEF Published
<1>3. IsFiniteSet(Loose') /\ Cardinality(Loose') \in Nat
  BY Sizes, FS_Subset, FS_CardinalityType
<1>4. QED
  BY <1>1, <1>2, <1>3, Sizes DEF Counted

\* A failure loses at most one row.
LEMMA CountedFailure ==
  ASSUME TypeOK, Counted, UNCHANGED channel, failures' = failures + 1, NEW n,
         Loose' \subseteq Loose \cup {n}
  PROVE  Counted'
<1>1. /\ IsFiniteSet(Loose \cup {n})
      /\ Cardinality(Loose \cup {n}) =< Cardinality(Loose) + 1
      /\ Cardinality(Loose \cup {n}) \in Nat
  <2>1. /\ IsFiniteSet(Loose \cup {n})
        /\ Cardinality(Loose \cup {n}) = IF n \in Loose THEN Cardinality(Loose)
                                                       ELSE Cardinality(Loose) + 1
    BY Sizes, FS_AddElement
  <2>2. QED
    BY <2>1, Sizes
<1>2. /\ Cardinality(Loose') =< Cardinality(Loose \cup {n})
      /\ Cardinality(Loose') \in Nat
  BY <1>1, FS_Subset, FS_CardinalityType
<1>3. Published' = Published
  BY DEF Published
<1>4. QED
  BY <1>1, <1>2, <1>3, Sizes DEF Counted

LEMMA CountedPublish ==
  ASSUME Base, Counted, NEW r \in Relays, Publish(r)
  PROVE  Counted'
<1>1. TypeOK /\ Locking
  BY DEF Base
<1> DEFINE n == holding[r]
<1>2. /\ n # 0 /\ n \in DOMAIN outbox /\ n \notin marked
      /\ \A q \in Relays : q # r => holding[q] # n
  BY <1>1 DEF Publish, Locking, TypeOK
<1>3. Len(channel') = Len(channel) + 1 /\ Published' = Published \cup {n}
  BY <1>1, <1>2, RowPublished
<1>4. pc' = [pc EXCEPT ![r] = "mark"] /\ UNCHANGED <<marked, holding, failures>>
  BY DEF Publish
<1>5. InHand' = InHand \cup {n} /\ n \notin InHand
  BY <1>1, <1>2, <1>4 DEF InHand, TypeOK, Publish
<1>6. Loose' = Loose \ {n}
  BY <1>3, <1>4, <1>5 DEF Loose
<1>7. CASE n \in Published
  <2>1. n \in Loose
    BY <1>2, <1>5, <1>7 DEF Loose
  <2>2. Cardinality(Loose') = Cardinality(Loose) - 1
    BY <1>1, <1>6, <2>1, Sizes, FS_RemoveElement
  <2>3. Cardinality(Published') = Cardinality(Published)
    BY <1>3, <1>7
  <2>4. Len(channel') = Len(channel) + 1 /\ failures' = failures
    BY <1>3, <1>4
  <2>5. QED
    BY <1>1, <2>2, <2>3, <2>4, Sizes DEF Counted
<1>8. CASE n \notin Published
  <2>1. Loose' = Loose
    BY <1>6, <1>8 DEF Loose
  <2>2. Cardinality(Published') = Cardinality(Published) + 1
    BY <1>1, <1>3, <1>8, Sizes, FS_AddElement
  <2> HIDE DEF n
  <2>3. QED
    BY <1>1, <1>3, <1>4, <2>1, <2>2, Sizes DEF Counted
<1>9. QED
  BY <1>7, <1>8

LEMMA CountedStep == ASSUME Base, Base', Counted, Next PROVE Counted'
<1>1. TypeOK /\ TypeOK' /\ Locking
  BY DEF Base
<1>2. ASSUME NEW a \in Auctions, WriteEvent(a) PROVE Counted'
  BY <1>1, <1>2, CountedKept DEF WriteEvent, Loose, InHand, Published
<1>3. ASSUME NEW n, EndWrite(n) PROVE Counted'
  BY <1>1, <1>3, CountedKept DEF EndWrite, Loose, InHand, Published
<1>4. ASSUME NEW n, EndOrphan(n) PROVE Counted'
  <2>1. Loose' \subseteq Loose
    BY <1>4 DEF EndOrphan, Loose, InHand, Published
  <2>2. QED
    BY <1>1, <1>4, <2>1, CountedKept DEF EndOrphan
<1>5. ASSUME NEW r \in Relays, Select(r) \/ Restart(r) \/ Poll(r) PROVE Counted'
  <2>1. UNCHANGED <<channel, marked, failures>>
    BY <1>5 DEF Select, Restart, Poll, vars
  <2>2. \A q \in Relays : pc[q] \in {"mark", "commit"} => pc'[q] = pc[q] /\ holding'[q] = holding[q]
    BY <1>1, <1>5 DEF Select, Restart, Poll, TypeOK, vars
  <2>3. InHand \subseteq InHand'
    BY <2>2 DEF InHand
  <2>4. Loose' \subseteq Loose
    BY <2>1, <2>3 DEF Loose, Published
  <2>5. QED
    BY <1>1, <2>1, <2>4, CountedKept
<1>6. ASSUME NEW r \in Relays, Mark(r) \/ Commit(r) PROVE Counted'
  <2>1. UNCHANGED <<channel, failures>>
    BY <1>6 DEF Mark, Commit
  <2>2. Loose' \subseteq Loose
    <3>1. \A q \in Relays : q # r => pc'[q] = pc[q] /\ holding'[q] = holding[q]
      BY <1>1, <1>6 DEF Mark, Commit, TypeOK
    <3>2. holding[r] \in marked' \/ (holding'[r] = holding[r] /\ pc'[r] = "commit")
      BY <1>1, <1>6 DEF Mark, Commit, TypeOK
    <3>3. InHand \subseteq InHand' \cup marked'
      BY <3>1, <3>2 DEF InHand
    <3>4. marked \subseteq marked'
      BY <1>6 DEF Mark, Commit
    <3>5. QED
      BY <2>1, <3>3, <3>4 DEF Loose, Published
  <2>3. QED
    BY <1>1, <2>1, <2>2, CountedKept
<1>7. ASSUME NEW r \in Relays, Fail(r) \/ Vanish(r) PROVE Counted'
  <2>1. UNCHANGED <<channel, marked>> /\ failures' = failures + 1
    BY <1>7 DEF Fail, Vanish, Stop
  <2>2. \A q \in Relays : q # r => pc'[q] = pc[q] /\ holding'[q] = holding[q]
    BY <1>1, <1>7 DEF Fail, Vanish, Stop, TypeOK
  <2>3. InHand \subseteq InHand' \cup {holding[r]}
    BY <2>2 DEF InHand
  <2>4. Loose' \subseteq Loose \cup {holding[r]}
    BY <2>1, <2>3 DEF Loose, Published
  <2>5. QED
    BY <1>1, <2>1, <2>4, CountedFailure
<1>8. QED
  BY <1>2, <1>3, <1>4, <1>5, <1>6, <1>7, CountedPublish DEF Next, Run

LEMMA CountedInit == Init => Counted
<1> SUFFICES ASSUME Init PROVE Counted
  OBVIOUS
<1>1. Published = {} /\ Loose = {} /\ Len(channel) = 0 /\ failures = 0
  BY EmptySeq DEF Init, Published, Loose
<1>2. QED
  BY <1>1, FS_EmptySet DEF Counted

\* Each repetition is paid for by a failure, for any number of relays
\* (SKIP LOCKED, outbox.go:94-111).
THEOREM RepetitionsArePaid == Spec => []RepeatedOnlyByFailure
<1>1. Base /\ Base' /\ Counted /\ [Next]_vars => Counted'
  BY CountedStep DEF vars, Counted, Loose, InHand, Published
<1>2. Base /\ Counted => RepeatedOnlyByFailure
  BY Sizes DEF Base, Counted, RepeatedOnlyByFailure
<1>3. QED
  BY CountedInit, <1>1, <1>2, BaseInvariant, PTL DEF Spec

----------------------------------------------------------------------------
\* Order.  Where a row was first announced.
LEMMA FirstPlace ==
  ASSUME TypeOK, NEW n \in Published
  PROVE  /\ FirstAt(n) \in DOMAIN channel
         /\ channel[FirstAt(n)] = n
         /\ \A j \in 1..(FirstAt(n) - 1) : channel[j] # n
<1> DEFINE places == {k \in DOMAIN channel : channel[k] = n}
<1>1. places \subseteq 1..Len(channel) /\ Len(channel) \in Nat /\ places # {}
      /\ DOMAIN channel = 1..Len(channel)
  BY Domains DEF Published
<1>2. PICK k \in places : \A j \in places : k =< j
  <2>1. places \subseteq Nat
    BY <1>1
  <2> HIDE DEF places
  <2>2. QED
    BY <1>1, <2>1, LeastElement
<1>3. \A j \in 1..(k - 1) : channel[j] # n
  BY <1>1, <1>2
<1>4. QED
  BY <1>2, <1>3 DEF FirstAt

\* There is only one such place in a sequence.
LEMMA FirstPlaceUnique ==
  ASSUME NEW c, NEW l \in Nat, DOMAIN c = 1..l, NEW n, NEW k \in 1..l, c[k] = n,
         \A j \in 1..(k - 1) : c[j] # n
  PROVE  (CHOOSE i \in DOMAIN c : c[i] = n /\ \A j \in 1..(i - 1) : c[j] # n) = k
<1>1. ASSUME NEW i \in 1..l, c[i] = n, \A j \in 1..(i - 1) : c[j] # n
      PROVE  i = k
  <2>1. ~ (i < k) /\ ~ (k < i)
    BY <1>1
  <2>2. QED
    BY <2>1
<1>2. QED
  BY <1>1

\* A further PUBLISH does not change it, and puts a new row behind all others.
LEMMA FirstPlaceStays ==
  ASSUME Base, Base', Next
  PROVE  /\ \A n \in Published : n \in Published' /\ FirstAt(n)' = FirstAt(n)
         /\ \A n \in Published' \ Published :
              /\ FirstAt(n)' = Len(channel) + 1
              /\ \E r \in Relays : n = holding[r] /\ holding[r] # 0
<1>1. TypeOK /\ TypeOK' /\ Locking
  BY DEF Base
<1>2. CASE UNCHANGED channel
  BY <1>2 DEF Published, FirstAt
<1>3. ASSUME NEW r \in Relays, Publish(r)
      PROVE  /\ \A n \in Published : n \in Published' /\ FirstAt(n)' = FirstAt(n)
             /\ \A n \in Published' \ Published :
                  FirstAt(n)' = Len(channel) + 1 /\ n = holding[r] /\ holding[r] # 0
  <2>1. holding[r] # 0 /\ holding[r] \in DOMAIN outbox
    BY <1>1, <1>3 DEF Publish, Locking, TypeOK
  <2>2. /\ DOMAIN channel' = 1..(Len(channel) + 1)
        /\ \A k \in DOMAIN channel : channel'[k] = channel[k]
        /\ channel'[Len(channel) + 1] = holding[r]
        /\ Published' = Published \cup {holding[r]}
        /\ DOMAIN channel = 1..Len(channel) /\ Len(channel) \in Nat
    BY <1>1, <1>3, <2>1, RowPublished, Domains
  <2>3. ASSUME NEW n \in Published PROVE n \in Published' /\ FirstAt(n)' = FirstAt(n)
    <3>1. /\ FirstAt(n) \in DOMAIN channel /\ channel[FirstAt(n)] = n
          /\ \A j \in 1..(FirstAt(n) - 1) : channel[j] # n
      BY <1>1, FirstPlace
    <3>2. PICK k \in DOMAIN channel : k = FirstAt(n)
      BY <3>1
    <3>3. /\ k \in DOMAIN channel' /\ channel'[k] = n
          /\ \A j \in 1..(k - 1) : channel'[j] # n
      BY <2>2, <3>1, <3>2
    <3>4. n \in Published'
      BY <2>2
    <3>5. FirstAt(n)' = k
      BY <2>2, <3>3, FirstPlaceUnique DEF FirstAt
    <3>6. QED
      BY <3>2, <3>4, <3>5
  <2>4. ASSUME NEW n \in Published' \ Published
        PROVE  FirstAt(n)' = Len(channel) + 1 /\ n = holding[r]
    <3>1. n = holding[r] /\ Len(channel) + 1 \in DOMAIN channel'
      BY <2>2
    <3>2. \A j \in 1..Len(channel) : channel'[j] # n
      BY <2>2 DEF Published
    <3>3. \A j \in 1..((Len(channel) + 1) - 1) : channel'[j] # n
      BY <2>2, <3>2
    <3>4. channel'[Len(channel) + 1] = n /\ n \in Published'
      BY <2>2, <3>1
    <3>5. PICK k \in DOMAIN channel' : k = Len(channel) + 1
      BY <3>1
    <3>6. FirstAt(n)' = k
      BY <2>2, <3>3, <3>4, <3>5, FirstPlaceUnique DEF FirstAt
    <3>7. QED
      BY <3>1, <3>5, <3>6
  <2>5. QED
    BY <2>1, <2>3, <2>4
<1>4. UNCHANGED channel \/ \E r \in Relays : Publish(r)
  BY DEF Next, WriteEvent, EndWrite, EndOrphan, Run, Select, Poll, Mark, Commit, Fail, Vanish,
         Restart, vars
<1>5. QED
  BY <1>2, <1>3, <1>4

\* The earlier rows of a row's auction have ended and stay as they are.
LEMMA EarlierRowsStay ==
  ASSUME Base, Next, NEW n \in DOMAIN outbox
  PROVE  /\ n \in DOMAIN outbox'
         /\ outbox'[n].auction = outbox[n].auction
         /\ outbox'[n].sequence = outbox[n].sequence
         /\ \A m \in DOMAIN outbox' :
              m < n /\ outbox'[m].auction = outbox[n].auction
                => m \in DOMAIN outbox /\ outbox'[m] = outbox[m]
<1>1. TypeOK /\ Closed
  BY DEF Base
<1>2. Len(outbox) \in Nat /\ DOMAIN outbox = 1..Len(outbox)
  BY <1>1, Domains
<1>3. CASE UNCHANGED outbox
  BY <1>3
<1>4. ASSUME NEW a \in Auctions, WriteEvent(a)
      PROVE  /\ DOMAIN outbox' = 1..(Len(outbox) + 1)
             /\ \A m \in DOMAIN outbox : outbox'[m] = outbox[m]
  BY <1>1, <1>4, RowWritten
<1>5. CASE \E a \in Auctions : WriteEvent(a)
  BY <1>2, <1>4, <1>5
<1>6. ASSUME NEW k, EndWrite(k)
      PROVE  /\ n \in DOMAIN outbox'
             /\ outbox'[n].auction = outbox[n].auction
             /\ outbox'[n].sequence = outbox[n].sequence
             /\ \A m \in DOMAIN outbox' :
                  m < n /\ outbox'[m].auction = outbox[n].auction
                    => m \in DOMAIN outbox /\ outbox'[m] = outbox[m]
  BY <1>1, <1>6, WriteEnded DEF Closed
<1>7. QED
  BY <1>3, <1>5, <1>6 DEF Next, EndOrphan, Run, Select, Poll, Publish, Mark, Commit, Fail,
     Vanish, Stop, Restart, vars

----------------------------------------------------------------------------
\* What may be passed over.  The earlier bids of n's auction that are not marked.
Unmarked(n) ==
  {m \in RowsOf(outbox[n].auction) : m < n /\ outbox[m].fate = "committed" /\ m \notin marked}

Lingering == IF LingeringLocks THEN failures ELSE 0
Slack == Cardinality(Relays) - 1 + Lingering

Skipped ==
  /\ Cardinality(orphans) =< Lingering
  /\ \A r \in Relays : holding[r] # 0 => Cardinality(Unmarked(holding[r])) =< Slack
  /\ PassesOnlyLockedRows

LEMMA SkippedSets ==
  ASSUME TypeOK, IsFiniteSet(Relays)
  PROVE  /\ \A n : IsFiniteSet(Unmarked(n)) /\ Cardinality(Unmarked(n)) \in Nat
         /\ \A n : IsFiniteSet(Passed(n)) /\ Cardinality(Passed(n)) \in Nat
         /\ IsFiniteSet(orphans) /\ Cardinality(orphans) \in Nat
         /\ Lingering \in Nat /\ Slack \in Int
         /\ Cardinality(Relays) \in Nat
<1>1. /\ \A n : Unmarked(n) \in SUBSET DOMAIN outbox
      /\ \A n : Passed(n) \in SUBSET DOMAIN outbox
      /\ orphans \in SUBSET DOMAIN outbox
  BY DEF TypeOK, Unmarked, Passed, RowsOf
<1>2. /\ \A n : IsFiniteSet(Unmarked(n))
      /\ \A n : IsFiniteSet(Passed(n))
      /\ IsFiniteSet(orphans)
  BY <1>1, Domains, FS_Subset
<1>3. /\ \A n : Cardinality(Unmarked(n)) \in Nat
      /\ \A n : Cardinality(Passed(n)) \in Nat
      /\ Cardinality(orphans) \in Nat
      /\ Cardinality(Relays) \in Nat
  BY <1>2, FS_CardinalityType
<1>4. Lingering \in Nat /\ Slack \in Int
  BY <1>3 DEF Lingering, Slack, TypeOK
<1>5. QED
  BY <1>2, <1>3, <1>4

\* At the SELECT, each unmarked row before the oldest candidate is locked: by
\* another relay, or by the connection of a dead one.
LEMMA SkippedAtSelect ==
  ASSUME Base, IsFiniteSet(Relays), NEW r \in Relays, Select(r),
         Cardinality(orphans) =< Lingering
  PROVE  Cardinality(Unmarked(Oldest(Candidates))) =< Slack
<1>1. TypeOK /\ Locking
  BY DEF Base
<1> DEFINE others == Relays \ {r}
           held == {holding[q] : q \in others}
           n == Oldest(Candidates)
           hold == [q \in others |-> holding[q]]
<1>2. /\ n \in DOMAIN outbox
      /\ \A m \in Candidates : n =< m
      /\ DOMAIN outbox = 1..Len(outbox) /\ Len(outbox) \in Nat
  BY <1>1, RowSelected, Domains DEF Select
<1>3. IsFiniteSet(others) /\ Cardinality(others) = Cardinality(Relays) - 1
  BY FS_RemoveElement
<1>4. hold \in Surjection(others, held)
  BY DEF Surjection
<1>5. /\ IsFiniteSet(held)
      /\ Cardinality(held) =< Cardinality(others)
  BY <1>3, <1>4, FS_Surjection
<1>6. Unmarked(n) \subseteq held \cup orphans
  <2>1. ASSUME NEW m \in Unmarked(n) PROVE m \in held \cup orphans
    <3>1. m \in DOMAIN outbox /\ m < n /\ Visible(m) /\ m \notin marked
      BY <2>1 DEF Unmarked, RowsOf, Visible
    <3>2. m \notin Candidates
      BY <1>2, <3>1
    <3>3. Locked(m)
      BY <3>1, <3>2 DEF Candidates
    <3>4. holding[r] = 0 /\ m # 0
      BY <1>1, <1>2, <3>1 DEF Select, Locking
    <3>5. QED
      BY <3>3, <3>4 DEF Locked
  <2>2. QED
    BY <2>1
<1>7. IsFiniteSet(orphans) /\ Cardinality(orphans) \in Nat
  BY <1>1, SkippedSets
<1>8. /\ IsFiniteSet(held \cup orphans)
      /\ Cardinality(held \cup orphans)
           = Cardinality(held) + Cardinality(orphans) - Cardinality(held \cap orphans)
      /\ IsFiniteSet(held \cap orphans)
  BY <1>5, <1>7, FS_Union, FS_Intersection
<1>9. Cardinality(Unmarked(n)) =< Cardinality(held \cup orphans)
  BY <1>6, <1>8, FS_Subset
<1> HIDE DEF others, held, n, hold
<1>10. /\ Cardinality(held) \in Nat /\ Cardinality(held \cap orphans) \in Nat
       /\ Cardinality(others) \in Nat /\ Cardinality(held \cup orphans) \in Nat
       /\ Cardinality(Unmarked(n)) \in Nat /\ Lingering \in Nat /\ Cardinality(Relays) \in Nat
  BY <1>1, <1>3, <1>5, <1>8, FS_CardinalityType, SkippedSets
<1>11. Cardinality(Unmarked(n)) =< Slack
  BY <1>3, <1>5, <1>7, <1>8, <1>9, <1>10 DEF Slack
<1>12. QED
  BY <1>11 DEF n

\* Failures only add to the slack, and a row's unmarked predecessors only vanish.
LEMMA UnmarkedShrinks ==
  ASSUME Base, Base', Next, IsFiniteSet(Relays), NEW n \in DOMAIN outbox
  PROVE  /\ Cardinality(Unmarked(n)') =< Cardinality(Unmarked(n))
         /\ Cardinality(Unmarked(n)') \in Nat /\ Cardinality(Unmarked(n)) \in Nat
<1>1. TypeOK
  BY DEF Base
<1>2. marked \subseteq marked'
  BY DEF Next, WriteEvent, EndWrite, EndOrphan, Run, Select, Poll, Publish, Mark, Commit, Fail,
         Vanish, Stop, Restart, vars
<1>3. Unmarked(n)' \subseteq Unmarked(n)
  BY <1>2, EarlierRowsStay DEF Unmarked, RowsOf
<1>4. QED
  BY <1>1, <1>3, SkippedSets, FS_Subset, FS_CardinalityType

LEMMA SlackGrows ==
  ASSUME Base, Next, IsFiniteSet(Relays)
  PROVE  /\ Lingering =< Lingering' /\ Slack =< Slack'
         /\ Lingering' \in Nat /\ Slack' \in Int
<1>1. TypeOK /\ failures \in Nat
  BY DEF Base, TypeOK
<1>2. failures' = failures \/ failures' = failures + 1
  BY DEF Next, WriteEvent, EndWrite, EndOrphan, Run, Select, Poll, Publish, Mark, Commit, Fail,
         Vanish, Stop, Restart, vars
<1>3. QED
  BY <1>1, <1>2, SkippedSets DEF Lingering, Slack

LEMMA OrphansCounted ==
  ASSUME Base, Next, IsFiniteSet(Relays), Cardinality(orphans) =< Lingering
  PROVE  Cardinality(orphans') =< Lingering'
<1>1. TypeOK
  BY DEF Base
<1>2. /\ IsFiniteSet(orphans) /\ Cardinality(orphans) \in Nat
      /\ Lingering \in Nat /\ Lingering' \in Nat /\ Lingering =< Lingering'
  BY <1>1, SkippedSets, SlackGrows
<1>3. CASE orphans' \subseteq orphans
  <2>1. Cardinality(orphans') =< Cardinality(orphans) /\ Cardinality(orphans') \in Nat
    BY <1>2, <1>3, FS_Subset, FS_CardinalityType
  <2>2. QED
    BY <1>2, <2>1
<1>4. ASSUME NEW r \in Relays, Vanish(r)
      PROVE  Cardinality(orphans') =< Lingering'
  <2>1. orphans' = orphans \cup {holding[r]} /\ failures' = failures + 1 /\ LingeringLocks
    BY <1>4 DEF Vanish, Stop
  <2>2. Cardinality(orphans') = IF holding[r] \in orphans THEN Cardinality(orphans)
                                                          ELSE Cardinality(orphans) + 1
    BY <1>2, <2>1, FS_AddElement
  <2>3. Lingering' = Lingering + 1
    BY <2>1 DEF Lingering
  <2>4. QED
    BY <1>2, <2>2, <2>3
<1>5. orphans' \subseteq orphans \/ \E r \in Relays : Vanish(r)
  BY DEF Next, WriteEvent, EndWrite, EndOrphan, Run, Select, Poll, Publish, Mark, Commit, Fail,
         Restart, vars
<1>6. QED
  BY <1>3, <1>4, <1>5

LEMMA HoldersSkipLocked ==
  ASSUME Base, Base', Next, IsFiniteSet(Relays), Skipped, NEW r \in Relays, holding'[r] # 0
  PROVE  Cardinality(Unmarked(holding[r])') =< Slack'
<1>1. TypeOK /\ Locking
  BY DEF Base
<1>2. Slack \in Int /\ Slack' \in Int /\ Slack =< Slack'
  BY <1>1, SkippedSets, SlackGrows
<1>3. \A n \in DOMAIN outbox : Cardinality(Unmarked(n)) =< Slack
                                 => Cardinality(Unmarked(n)') =< Slack'
  BY <1>2, UnmarkedShrinks
<1>4. CASE holding'[r] = holding[r]
  <2>1. PICK n \in DOMAIN outbox : n = holding[r]
    BY <1>1, <1>4 DEF TypeOK
  <2>2. Cardinality(Unmarked(n)) =< Slack
    BY <1>4, <2>1 DEF Skipped
  <2>3. Cardinality(Unmarked(n)') =< Slack'
    BY <1>3, <2>2
  <2>4. n = holding'[r]
    BY <1>4, <2>1
  <2>5. QED
    BY <2>3, <2>4 DEF Unmarked, RowsOf
<1>5. CASE Select(r)
  <2>1. PICK n \in DOMAIN outbox : n = Oldest(Candidates)
    BY <1>1, <1>5, RowSelected DEF Select
  <2>2. Cardinality(Unmarked(n)) =< Slack
    BY <1>5, <2>1, SkippedAtSelect DEF Skipped
  <2>3. Cardinality(Unmarked(n)') =< Slack'
    BY <1>3, <2>2
  <2>4. n = holding'[r]
    BY <1>1, <1>5, <2>1 DEF Select, TypeOK
  <2>5. QED
    BY <2>3, <2>4 DEF Unmarked, RowsOf
<1>6. holding'[r] = holding[r] \/ Select(r)
  BY <1>1 DEF Next, WriteEvent, EndWrite, EndOrphan, Run, Select, Poll, Publish, Mark, Commit,
         Fail, Vanish, Stop, Restart, vars, TypeOK
<1>7. QED
  BY <1>4, <1>5, <1>6

\* Once a row is announced, nothing more can be announced ahead of it; and when it
\* is announced, what it passes is unmarked.
LEMMA PassedShrinks ==
  ASSUME Base, Base', Next, NEW n \in Published'
  PROVE  /\ n \in Published => Passed(n)' \subseteq Passed(n)
         /\ n \notin Published => Passed(n)' \subseteq Unmarked(n)
<1>1. TypeOK /\ AnnouncedAndMarked /\ TypeOK'
  BY DEF Base
<1>2. /\ \A m \in Published : m \in Published' /\ FirstAt(m)' = FirstAt(m)
      /\ \A m \in Published' \ Published : FirstAt(m)' = Len(channel) + 1
      /\ \A m \in Published : FirstAt(m) \in 1..Len(channel)
      /\ Len(channel) \in Nat
  BY <1>1, FirstPlaceStays, FirstPlace, Domains
<1>3. n \in DOMAIN outbox
  <2>1. n \in Published \/ \E r \in Relays : n = holding[r] /\ holding[r] # 0
    BY FirstPlaceStays
  <2>2. QED
    BY <1>1, <2>1, Domains DEF TypeOK
<1>4. ASSUME NEW m \in Passed(n)'
      PROVE  /\ m \in RowsOf(outbox[n].auction) /\ m < n /\ outbox[m].fate = "committed"
             /\ m \in Published' => FirstAt(n)' < FirstAt(m)'
  BY <1>3, EarlierRowsStay DEF Passed, RowsOf
<1>5. CASE n \in Published
  BY <1>2, <1>4, <1>5 DEF Passed
<1>6. CASE n \notin Published
  <2>1. ASSUME NEW m \in Passed(n)' PROVE m \notin marked
    <3>1. ASSUME m \in marked PROVE FALSE
      <4>1. m \in Published
        BY <1>1, <3>1 DEF AnnouncedAndMarked
      <4>2. FirstAt(n)' < FirstAt(m)' /\ FirstAt(m)' = FirstAt(m)
        BY <1>2, <1>4, <4>1
      <4>3. QED
        BY <1>2, <1>6, <4>1, <4>2
    <3>2. QED
      BY <3>1
  <2>2. QED
    BY <1>4, <1>6, <2>1 DEF Unmarked
<1>7. QED
  BY <1>5, <1>6

LEMMA PassedStep ==
  ASSUME Base, Base', Next, IsFiniteSet(Relays), Skipped, NEW n \in Published'
  PROVE  Cardinality(Passed(n)') =< Slack'
<1>1. TypeOK /\ TypeOK'
  BY DEF Base
<1>2. Slack \in Int /\ Slack' \in Int /\ Slack =< Slack'
  BY <1>1, SkippedSets, SlackGrows
<1>3. /\ IsFiniteSet(Passed(n)) /\ Cardinality(Passed(n)) \in Nat
      /\ IsFiniteSet(Unmarked(n)) /\ Cardinality(Unmarked(n)) \in Nat
  BY <1>1, SkippedSets
<1>4. CASE n \in Published
  <2>1. Cardinality(Passed(n)') =< Cardinality(Passed(n)) /\ Cardinality(Passed(n)') \in Nat
    BY <1>3, <1>4, PassedShrinks, FS_Subset, FS_CardinalityType
  <2>2. Cardinality(Passed(n)) =< Slack
    BY <1>4 DEF Skipped, PassesOnlyLockedRows, Slack, Lingering
  <2>3. QED
    BY <1>2, <1>3, <2>1, <2>2
<1>5. CASE n \notin Published
  <2>1. Cardinality(Passed(n)') =< Cardinality(Unmarked(n)) /\ Cardinality(Passed(n)') \in Nat
    BY <1>3, <1>5, PassedShrinks, FS_Subset, FS_CardinalityType
  <2>2. PICK r \in Relays : n = holding[r] /\ holding[r] # 0
    BY <1>5, FirstPlaceStays
  <2>3. Cardinality(Unmarked(n)) =< Slack
    BY <2>2 DEF Skipped
  <2>4. QED
    BY <1>2, <1>3, <2>1, <2>3
<1>6. QED
  BY <1>4, <1>5

LEMMA SkippedInit == Init => Skipped
<1> SUFFICES ASSUME Init PROVE Skipped
  OBVIOUS
<1>1. Cardinality(orphans) = 0 /\ failures = 0 /\ Published = {}
  BY FS_EmptySet DEF Init, Published
<1>2. QED
  BY <1>1 DEF Init, Skipped, PassesOnlyLockedRows, Lingering

LEMMA SkippedStep ==
  ASSUME Base, Base', Next, IsFiniteSet(Relays), Skipped
  PROVE  Skipped'
<1>1. Cardinality(orphans') =< Lingering'
  BY OrphansCounted DEF Skipped
<1>2. \A r \in Relays : holding'[r] # 0 => Cardinality(Unmarked(holding[r])') =< Slack'
  BY HoldersSkipLocked
<1>3. \A n \in Published' : Cardinality(Passed(n)') =< Slack'
  BY PassedStep
<1>4. PassesOnlyLockedRows'
  BY <1>3 DEF PassesOnlyLockedRows, Slack, Lingering
<1>5. QED
  BY <1>1, <1>2, <1>4 DEF Skipped

LEMMA SkippedInvariant == ASSUME IsFiniteSet(Relays) PROVE Spec => []Skipped
<1>1. Skipped /\ UNCHANGED vars => Skipped'
  <2> SUFFICES ASSUME Skipped, UNCHANGED vars PROVE Skipped'
    OBVIOUS
  <2>1. /\ outbox' = outbox /\ marked' = marked /\ channel' = channel
        /\ holding' = holding /\ orphans' = orphans /\ failures' = failures
    BY DEF vars
  <2>2. Published' = Published /\ Lingering' = Lingering /\ Slack' = Slack
    BY <2>1 DEF Published, Lingering, Slack
  <2>3. \A n : FirstAt(n)' = FirstAt(n)
    BY <2>1 DEF FirstAt
  <2>4. \A n : RowsOf(outbox[n].auction)' = RowsOf(outbox[n].auction)
    BY <2>1 DEF RowsOf
  <2>5. \A n : Passed(n)' = Passed(n)
    BY <2>1, <2>2, <2>3, <2>4 DEF Passed
  <2>6. \A n : Unmarked(n)' = Unmarked(n)
    BY <2>1, <2>4 DEF Unmarked
  <2>7. \A r \in Relays : holding'[r] # 0 => Cardinality(Unmarked(holding[r])') =< Slack'
    BY <2>1, <2>2, <2>6 DEF Skipped
  <2>8. PassesOnlyLockedRows'
    BY <2>1, <2>2, <2>5 DEF Skipped, PassesOnlyLockedRows
  <2>9. QED
    BY <2>1, <2>2, <2>7, <2>8 DEF Skipped
<1>2. QED
  BY SkippedInit, SkippedStep, <1>1, BaseInvariant, PTL DEF Spec

\* However many relays run, a bid is announced ahead of at most as many bids of
\* its auction as there are other relays and failures that left a lock behind
\* (SKIP LOCKED, outbox.go:105-111).
THEOREM OnlyLockedRowsPassed ==
  ASSUME IsFiniteSet(Relays) PROVE Spec => []PassesOnlyLockedRows
<1>1. Skipped => PassesOnlyLockedRows
  BY DEF Skipped
<1>2. QED
  BY <1>1, SkippedInvariant, PTL

----------------------------------------------------------------------------
\* Sequence numbers follow the order of the rows: a row's number counts the
\* committed rows of its auction before it.
CommittedBefore(n) ==
  {m \in RowsOf(outbox[n].auction) : m < n /\ outbox[m].fate = "committed"}

Numbered == \A n \in DOMAIN outbox : outbox[n].sequence = Cardinality(CommittedBefore(n)) + 1

LEMMA NumberedWrite ==
  ASSUME Base, NEW a \in Auctions, WriteEvent(a), NEW n, n = Len(outbox) + 1
  PROVE  outbox'[n].sequence = Cardinality(CommittedBefore(n)') + 1
<1> DEFINE before == {m \in RowsOf(a) : outbox[m].fate = "committed"}
           row == [auction |-> a, sequence |-> Cardinality(before) + 1, fate |-> "open"]
<1>1. TypeOK
  BY DEF Base
<1>2. /\ outbox' = Append(outbox, row)
      /\ outbox \in Seq(Row) /\ Len(outbox) \in Nat /\ DOMAIN outbox = 1..Len(outbox)
  BY <1>1, Domains DEF WriteEvent, TypeOK
<1>3. /\ DOMAIN outbox' = 1..(Len(outbox) + 1)
      /\ \A m \in DOMAIN outbox : outbox'[m] = outbox[m]
      /\ outbox'[n].auction = a
  BY <1>1, RowWritten
<1>4. outbox'[n] = row
  <2> HIDE DEF row
  <2>1. QED
    BY <1>2
<1>5. \A m : m \in DOMAIN outbox' /\ m < n <=> m \in DOMAIN outbox
  BY <1>2, <1>3
<1>6. CommittedBefore(n)' \subseteq before
  BY <1>3, <1>5 DEF CommittedBefore, RowsOf
<1>7. before \subseteq CommittedBefore(n)'
  BY <1>3, <1>5 DEF CommittedBefore, RowsOf
<1>8. CommittedBefore(n)' = before
  BY <1>6, <1>7
<1>9. QED
  BY <1>4, <1>8

LEMMA NumberedInvariant == Spec => []Numbered
<1>1. Init => Numbered
  BY DEF Init, Numbered
<1>2. ASSUME Base, Numbered, Next PROVE Numbered'
  <2>1. ASSUME NEW n \in DOMAIN outbox
        PROVE  outbox'[n].sequence = Cardinality(CommittedBefore(n)') + 1
    <3>1. CommittedBefore(n)' \subseteq CommittedBefore(n)
      BY <1>2, EarlierRowsStay DEF CommittedBefore, RowsOf
    <3>2. ASSUME NEW m \in CommittedBefore(n) PROVE m \in CommittedBefore(n)'
      <4>1. TypeOK /\ m \in DOMAIN outbox /\ outbox[m].fate = "committed"
        BY <1>2, <3>2 DEF Base, CommittedBefore, RowsOf
      <4>2. /\ m \in DOMAIN outbox' /\ outbox'[m].auction = outbox[m].auction
            /\ outbox'[n].auction = outbox[n].auction
        BY <1>2, <4>1, EarlierRowsStay
      <4>3. outbox'[m] = outbox[m]
        BY <1>2, <3>2, <4>2, EarlierRowsStay DEF CommittedBefore, RowsOf
      <4>4. QED
        BY <3>2, <4>1, <4>2, <4>3 DEF CommittedBefore, RowsOf
    <3>3. CommittedBefore(n)' = CommittedBefore(n)
      BY <3>1, <3>2
    <3>4. outbox'[n].sequence = outbox[n].sequence
      BY <1>2, EarlierRowsStay
    <3>5. QED
      BY <1>2, <3>3, <3>4 DEF Numbered
  <2>2. CASE \E a \in Auctions : WriteEvent(a)
    <3>1. PICK a \in Auctions : WriteEvent(a)
      BY <2>2
    <3>2. /\ DOMAIN outbox' = 1..(Len(outbox) + 1) /\ DOMAIN outbox = 1..Len(outbox)
          /\ Len(outbox) \in Nat
      BY <1>2, <3>1, RowWritten, Domains DEF Base
    <3>3. PICK k \in Nat : k = Len(outbox) + 1
      BY <3>2
    <3>4. outbox'[k].sequence = Cardinality(CommittedBefore(k)') + 1
      BY <1>2, <3>1, <3>3, NumberedWrite
    <3>5. \A n \in DOMAIN outbox' : n \in DOMAIN outbox \/ n = k
      BY <3>2, <3>3
    <3>6. QED
      BY <2>1, <3>4, <3>5 DEF Numbered
  <2>3. CASE ~ \E a \in Auctions : WriteEvent(a)
    <3>1. DOMAIN outbox' = DOMAIN outbox
      BY <1>2, <2>3, WriteEnded DEF Base, Next, EndOrphan, Run, Select, Poll, Publish, Mark,
         Commit, Fail, Vanish, Stop, Restart, vars
    <3>2. QED
      BY <2>1, <3>1 DEF Numbered
  <2>4. QED
    BY <2>2, <2>3
<1>3. Numbered /\ UNCHANGED vars => Numbered'
  BY DEF Numbered, CommittedBefore, RowsOf, vars
<1>4. QED
  BY <1>1, <1>2, <1>3, BaseInvariant, PTL DEF Spec

\* A committed row has a smaller number than every later row of its auction.
LEMMA NumbersRise ==
  ASSUME TypeOK, Numbered, NEW m \in DOMAIN outbox, NEW n \in DOMAIN outbox, m < n,
         outbox[m].auction = outbox[n].auction, outbox[m].fate = "committed"
  PROVE  outbox[m].sequence < outbox[n].sequence
<1>1. /\ CommittedBefore(m) \cup {m} \in SUBSET CommittedBefore(n)
      /\ m \notin CommittedBefore(m)
      /\ CommittedBefore(m) \in SUBSET DOMAIN outbox
      /\ CommittedBefore(n) \in SUBSET DOMAIN outbox
  <2>1. DOMAIN outbox \subseteq Nat
    BY Domains
  <2>2. m \in Nat /\ n \in Nat /\ \A k \in DOMAIN outbox : k < m => k < n
    BY <2>1
  <2>3. QED
    BY <2>2 DEF CommittedBefore, RowsOf
<1>2. IsFiniteSet(CommittedBefore(m)) /\ IsFiniteSet(CommittedBefore(n))
  BY <1>1, Domains, FS_Subset
<1>3. Cardinality(CommittedBefore(m) \cup {m}) = Cardinality(CommittedBefore(m)) + 1
  BY <1>1, <1>2, FS_AddElement
<1>4. Cardinality(CommittedBefore(m) \cup {m}) =< Cardinality(CommittedBefore(n))
  BY <1>1, <1>2, FS_Subset
<1>5. Cardinality(CommittedBefore(m)) \in Nat /\ Cardinality(CommittedBefore(n)) \in Nat
  BY <1>2, FS_CardinalityType
<1>6. QED
  BY <1>3, <1>4, <1>5 DEF Numbered

\* One relay, whose lost connections PostgreSQL notices, announces the bids of an
\* auction in sequence order: it can pass over nothing (outbox.go:106-108).
THEOREM OneRelayInSequence ==
  ASSUME ~ LingeringLocks, NEW r, Relays = {r}
  PROVE  Spec => []FirstAnnouncedInSequence
<1>1. IsFiniteSet(Relays) /\ Cardinality(Relays) = 1
  BY FS_Singleton
<1>2. ASSUME Base, Numbered, PassesOnlyLockedRows PROVE FirstAnnouncedInSequence
  <2>1. ASSUME NEW m \in Published, NEW n \in Published,
               outbox[m].auction = outbox[n].auction,
               outbox[m].sequence < outbox[n].sequence
        PROVE  FirstAt(m) < FirstAt(n)
    <3>1. /\ TypeOK /\ AnnouncedAndMarked
          /\ m \in DOMAIN outbox /\ n \in DOMAIN outbox
          /\ DOMAIN outbox = 1..Len(outbox) /\ Len(outbox) \in Nat
          /\ outbox[m].sequence \in Nat /\ outbox[n].sequence \in Nat
          /\ outbox[m].fate = "committed" /\ outbox[n].fate = "committed"
      BY <1>2, <2>1, Domains DEF Base, AnnouncedAndMarked, Row
    <3>2. ~ (n < m)
      <4>1. n < m => outbox[n].sequence < outbox[m].sequence
        BY <1>2, <2>1, <3>1, NumbersRise
      <4>2. QED
        BY <2>1, <3>1, <4>1
    <3>3. m < n
      BY <2>1, <3>1, <3>2
    <3>4. IsFiniteSet(Passed(n)) /\ Cardinality(Passed(n)) \in Nat
      BY <1>1, <3>1, SkippedSets
    <3>5. Cardinality(Passed(n)) =< 0
      BY <1>1, <1>2, <2>1 DEF PassesOnlyLockedRows
    <3>6. Passed(n) = {}
      BY <3>4, <3>5, FS_EmptySet
    <3>7. ~ (FirstAt(n) < FirstAt(m))
      BY <2>1, <3>1, <3>3, <3>6 DEF Passed, RowsOf
    <3>8. /\ FirstAt(m) \in DOMAIN channel /\ channel[FirstAt(m)] = m
          /\ FirstAt(n) \in DOMAIN channel /\ channel[FirstAt(n)] = n
          /\ DOMAIN channel = 1..Len(channel) /\ Len(channel) \in Nat
      BY <2>1, <3>1, FirstPlace, Domains
    <3>9. FirstAt(m) # FirstAt(n)
      BY <3>1, <3>3, <3>8
    <3>10. QED
      BY <3>7, <3>8, <3>9
  <2>2. QED
    BY <2>1 DEF FirstAnnouncedInSequence
<1>3. QED
  BY <1>1, <1>2, BaseInvariant, NumberedInvariant, OnlyLockedRowsPassed, PTL
============================================================================
