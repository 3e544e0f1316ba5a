---------------------- MODULE LedgerTransaction_proofs ----------------------
(***************************************************************************)
(* Theorems about LedgerTransaction for every set of sessions, keys and    *)
(* times, every close and every mixture of the two append paths.           *)
(*                                                                         *)
(* The invariant is CounterDiscipline.  GapFree alone is not inductive: a  *)
(* commit appends the row numbered local[s].sequence, and only holding the *)
(* counter row since last_seq was read makes that number the next one.     *)
(***************************************************************************)
EXTENDS LedgerTransaction, SequenceTheorems, TLAPS

IInv == TypeOK /\ CounterDiscipline

\* A step of session s that commits nothing preserves the discipline if the
\* other sessions stay where they are and keep the counter row they hold, and
\* s itself arrives at a statement it may be at.
LEMMA StagingStep ==
  ASSUME IInv, NEW s \in Sessions,
         UNCHANGED <<counter, bids>>,
         \A t \in Sessions \ {s} : /\ pc'[t] = pc[t]
                                   /\ call'[t] = call[t]
                                   /\ local'[t] = local[t]
                                   /\ counterLock = t => counterLock' = t,
         Numbered(s)'
  PROVE  CounterDiscipline'
<1>1. GapFree'
  BY DEF IInv, CounterDiscipline, GapFree, LastSeq
<1>2. OneRowPerKey'
  BY DEF IInv, CounterDiscipline, OneRowPerKey
<1>3. ASSUME NEW t \in Sessions PROVE Numbered(t)'
  <2>1. CASE t = s
    BY <2>1
  <2>2. CASE t # s
    <3>1. Numbered(t)
      BY DEF IInv, CounterDiscipline
    <3>2. QED
      BY <2>2, <3>1 DEF Numbered, LastSeq, Recorded
  <2>3. QED
    BY <2>1, <2>2
<1>4. QED
  BY <1>1, <1>2, <1>3 DEF CounterDiscipline

\* What a read by key returns is a row with that key.
LEMMA ReadByKey ==
  ASSUME NEW key, Recorded(key)
  PROVE  SequenceOf(key) \in DOMAIN bids /\ bids[SequenceOf(key)].key = key
BY DEF Recorded, SequenceOf

\* Assignments to a session's local state and reply keep their types.
LEMMA LocalTyped ==
  ASSUME TypeOK, NEW s \in Sessions, NEW n \in Nat
  PROVE  [local EXCEPT ![s].sequence = n] \in [Sessions -> Local]
BY DEF TypeOK, Local

LEMMA ReplyTyped ==
  ASSUME TypeOK, NEW s \in Sessions, NEW n \in Nat,
         NEW outcome \in {"none", "inserted", "duplicate", "error"}
  PROVE  [reply EXCEPT ![s] = [outcome |-> outcome, sequence |-> n]] \in [Sessions -> Reply]
BY DEF TypeOK, Reply

\* Two sessions cannot both hold the counter row.
LEMMA OneCounterHolder ==
  ASSUME IInv, NEW s \in Sessions, NEW t \in Sessions, t # s,
         pc[s] \in {"checkCounter", "insertBid", "advance", "extend", "event", "commit"}
  PROVE  pc[t] \notin {"checkCounter", "insertBid", "advance", "extend", "event", "commit"}
BY DEF IInv, CounterDiscipline, Numbered

\* The statements that take the counter row find it free.
LEMMA CounterFree ==
  ASSUME NEW s \in Sessions,
         Ready(s, "lockCounter") \/ (Ready(s, "insertCounter") /\ counter = NoRow)
  PROVE  counterLock \in {s, NoSession}
BY DEF Ready, WaitsFor, CounterInserters, HolderOtherThan

LEMMA InitDiscipline == Init => IInv
<1> SUFFICES ASSUME Init PROVE IInv
  OBVIOUS
<1>1. TypeOK
  BY CloseAssumption DEF Init, TypeOK, NewLocal, NoReply, Local, Reply, Statements, NoRow
<1>2. CounterDiscipline
  BY DEF Init, CounterDiscipline, GapFree, OneRowPerKey, Numbered, LastSeq, NoRow
<1>3. QED
  BY <1>1, <1>2 DEF IInv

\* Every statement but a commit of a new bid only moves one session.
LEMMA StatementStep ==
  ASSUME IInv, NEW s \in Sessions,
         Begin(s) \/ Rollback(s) \/ (Statement(s) /\ ~ Commit(s))
  PROVE  IInv'
<1> USE DEF Goto, Ready, Return, Release, tables, locks
<1>1. CASE Begin(s)
  <2>1. TypeOK'
    <3>1. call' \in [Sessions -> Call]
      BY <1>1 DEF IInv, TypeOK, Begin, Call
    <3>2. NewLocal \in Local /\ NoReply \in Reply
      BY CloseAssumption DEF NewLocal, Local, NoReply, Reply
    <3>3. \A path : FirstStatement(path) \in Statements
      BY DEF FirstStatement, Statements
    <3>4. QED
      BY <1>1, <3>1, <3>2, <3>3 DEF IInv, TypeOK, Begin
  <2>2. Numbered(s)'
    BY <1>1, CloseAssumption, PathsAssumption DEF IInv, CounterDiscipline, TypeOK, Numbered, Begin, FirstStatement
  <2>3. QED
    BY <1>1, <2>1, <2>2, StagingStep DEF IInv, TypeOK, Begin
<1>2. CASE LockAuction(s)
  <2>1. TypeOK'
    BY <1>2 DEF IInv, TypeOK, Statements, LockAuction, Local
  <2>2. Numbered(s)'
    BY <1>2 DEF IInv, CounterDiscipline, TypeOK, Numbered, LockAuction
  <2>3. QED
    BY <1>2, <2>1, <2>2, StagingStep DEF IInv, TypeOK, LockAuction
<1>3. CASE FindBid(s)
  <2>0. Recorded(call[s].key) =>
          /\ SequenceOf(call[s].key) \in DOMAIN bids
          /\ SequenceOf(call[s].key) \in Nat
          /\ bids[SequenceOf(call[s].key)].key = call[s].key
    BY ReadByKey DEF IInv, TypeOK
  <2>1. TypeOK'
    <3>1. local' \in [Sessions -> Local]
      <4>1. CASE Recorded(call[s].key)
        <5>1. local' = [local EXCEPT ![s].sequence = SequenceOf(call[s].key)]
          BY <1>3, <4>1 DEF FindBid
        <5>2. QED
          BY <2>0, <4>1, <5>1, LocalTyped DEF IInv
      <4>2. CASE ~ Recorded(call[s].key)
        BY <1>3, <4>2 DEF IInv, TypeOK, FindBid
      <4>3. QED
        BY <4>1, <4>2
    <3>2. pc' \in [Sessions -> Statements]
      BY <1>3 DEF IInv, TypeOK, Statements, FindBid
    <3>3. QED
      BY <1>3, <3>1, <3>2 DEF IInv, TypeOK, FindBid
  <2>2. Numbered(s)'
    BY <1>3, <2>0 DEF IInv, CounterDiscipline, TypeOK, Numbered, FindBid, Local
  <2>3. QED
    BY <1>3, <2>1, <2>2, StagingStep DEF IInv, TypeOK, FindBid
<1>4. CASE InsertCounter(s)
  <2>1. TypeOK'
    BY <1>4 DEF IInv, TypeOK, Statements, InsertCounter
  <2>2. Numbered(s)'
    BY <1>4 DEF IInv, CounterDiscipline, TypeOK, Numbered, InsertCounter
  <2>3. QED
    BY <1>4, <2>1, <2>2, StagingStep, CounterFree, SessionsAssumption DEF IInv, TypeOK, InsertCounter
<1>5. CASE CheckCounter(s)
  <2>1. TypeOK'
    BY <1>5 DEF IInv, TypeOK, Statements, CheckCounter
  <2>2. Numbered(s)'
    BY <1>5 DEF IInv, CounterDiscipline, TypeOK, Numbered, CheckCounter
  <2>3. QED
    BY <1>5, <2>1, <2>2, StagingStep DEF IInv, TypeOK, CheckCounter
<1>6. CASE LockCounter(s)
  <2>1. TypeOK'
    <3>1. LastSeq + 1 \in Nat
      BY DEF IInv, TypeOK, LastSeq, NoRow
    <3>2. QED
      BY <1>6, <3>1 DEF IInv, TypeOK, Statements, LockCounter, Local
  <2>2. Numbered(s)'
    BY <1>6 DEF IInv, CounterDiscipline, TypeOK, Numbered, LockCounter, LastSeq
  <2>3. QED
    BY <1>6, <2>1, <2>2, StagingStep, CounterFree, SessionsAssumption DEF IInv, TypeOK, LockCounter
<1>7. CASE InsertBid(s)
  <2>0. Recorded(call[s].key) =>
          /\ SequenceOf(call[s].key) \in DOMAIN bids
          /\ SequenceOf(call[s].key) \in Nat
          /\ bids[SequenceOf(call[s].key)].key = call[s].key
    BY ReadByKey DEF IInv, TypeOK
  <2>1. TypeOK'
    <3>1. local' \in [Sessions -> Local]
      BY <1>7, <2>0, LocalTyped DEF IInv, TypeOK, InsertBid
    <3>2. pc' \in [Sessions -> Statements]
      BY <1>7 DEF IInv, TypeOK, Statements, InsertBid
    <3>3. QED
      BY <1>7, <3>1, <3>2 DEF IInv, TypeOK, InsertBid
  <2>2. Numbered(s)'
    BY <1>7, <2>0 DEF IInv, CounterDiscipline, TypeOK, Numbered, InsertBid, Local, Recorded, LastSeq
  <2>3. QED
    BY <1>7, <2>1, <2>2, StagingStep DEF IInv, TypeOK, InsertBid
<1>8. CASE Advance(s)
  <2>1. TypeOK'
    BY <1>8 DEF IInv, TypeOK, Statements, Advance
  <2>2. Numbered(s)'
    BY <1>8 DEF IInv, CounterDiscipline, TypeOK, Numbered, Advance, LastSeq, Recorded
  <2>3. QED
    BY <1>8, <2>1, <2>2, StagingStep DEF IInv, TypeOK, Advance
<1>9. CASE Extend(s)
  <2>1. TypeOK'
    <3>1. local'[s] \in Local
      BY <1>9, CloseAssumption DEF IInv, TypeOK, Extend, Local
    <3>2. local' \in [Sessions -> Local]
      BY <1>9, <3>1 DEF IInv, TypeOK, Extend
    <3>3. QED
      BY <1>9, <3>2 DEF IInv, TypeOK, Statements, Extend
  <2>2. Numbered(s)'
    BY <1>9, CloseAssumption DEF IInv, CounterDiscipline, TypeOK, Numbered, Extend, LastSeq, Recorded
  <2>3. QED
    BY <1>9, <2>1, <2>2, StagingStep DEF IInv, TypeOK, Extend
<1>10. CASE InsertEvent(s)
  <2>1. TypeOK'
    BY <1>10 DEF IInv, TypeOK, Statements, InsertEvent
  <2>2. Numbered(s)'
    BY <1>10 DEF IInv, CounterDiscipline, TypeOK, Numbered, InsertEvent, LastSeq, Recorded
  <2>3. QED
    BY <1>10, <2>1, <2>2, StagingStep DEF IInv, TypeOK, InsertEvent
<1>11. CASE CommitDuplicate(s)
  <2>1. TypeOK'
    BY <1>11 DEF IInv, TypeOK, Statements, CommitDuplicate, Reply, Local
  <2>2. Numbered(s)'
    BY <1>11 DEF IInv, CounterDiscipline, TypeOK, Numbered, CommitDuplicate
  <2>3. QED
    BY <1>11, <2>1, <2>2, StagingStep DEF IInv, TypeOK, CommitDuplicate
<1>12. CASE Rollback(s)
  <2>1. TypeOK'
    BY <1>12 DEF IInv, TypeOK, Statements, Rollback, Reply
  <2>2. Numbered(s)'
    BY <1>12 DEF IInv, CounterDiscipline, TypeOK, Numbered, Rollback
  <2>3. QED
    BY <1>12, <2>1, <2>2, StagingStep DEF IInv, TypeOK, Rollback
<1>13. QED
  BY <1>1, <1>2, <1>3, <1>4, <1>5, <1>6, <1>7, <1>8, <1>9, <1>10, <1>11, <1>12 DEF Statement

\* The commit of a new bid appends the row with the next number.
LEMMA CommitStep ==
  ASSUME IInv, NEW s \in Sessions, Commit(s)
  PROVE  IInv'
<1> USE DEF Goto, Ready, Return, Release
<1>1. /\ counterLock = s
      /\ local[s].sequence = LastSeq + 1
      /\ LastSeq \in Nat
      /\ ~ Recorded(call[s].key)
      /\ DOMAIN bids = 1..LastSeq
  BY DEF IInv, TypeOK, CounterDiscipline, Numbered, GapFree, Commit, LastSeq, NoRow
<1>2. RowOf(s) \in Bid
  BY DEF IInv, TypeOK, RowOf, Call, Bid
<1>3. /\ DOMAIN bids' = 1..(LastSeq + 1)
      /\ bids'[LastSeq + 1] = RowOf(s)
      /\ \A n \in 1..LastSeq : bids'[n] = bids[n]
      /\ LastSeq' = LastSeq + 1
  BY <1>1 DEF Commit, LastSeq, NoRow
<1>4. TypeOK'
  <2>1. EventOf(s) \in Event
    BY <1>2, CloseAssumption DEF IInv, TypeOK, EventOf, Event, Local
  <2>2. auction' \in [close : Int, extensions : Nat] /\ outbox' \in Seq(Event)
    <3>1. [close |-> local[s].close, extensions |-> local[s].extensions]
             \in [close : Int, extensions : Nat]
      BY DEF IInv, TypeOK, Local
    <3>2. CASE call[s].path = "antiSnipe"
      <4>1. Append(outbox, EventOf(s)) \in Seq(Event)
        BY <2>1 DEF IInv, TypeOK
      <4>2. QED
        BY <3>1, <3>2, <4>1 DEF Commit
    <3>3. CASE call[s].path # "antiSnipe"
      BY <3>3 DEF IInv, TypeOK, Commit, tables
    <3>4. QED
      BY <3>2, <3>3
  <2>3. counter' \in Nat /\ DOMAIN bids' \in SUBSET (Nat \ {0})
    BY <1>1, <1>3 DEF Commit
  <2>4. bids' \in [DOMAIN bids' -> Bid]
    BY <1>1, <1>2 DEF IInv, TypeOK, Commit
  <2>5. QED
    <3>1. reply' \in [Sessions -> Reply]
      <4>1. local[s].sequence \in Nat
        BY DEF IInv, TypeOK, Local
      <4>2. QED
        <5>1. CASE Return(s, "inserted", local[s].sequence)
          BY <4>1, <5>1, ReplyTyped DEF IInv
        <5>2. CASE Return(s, "error", 0)
          BY <5>2, ReplyTyped DEF IInv
        <5>3. QED
          BY <5>1, <5>2 DEF Commit
    <3>2. pc' \in [Sessions -> Statements]
      BY DEF IInv, TypeOK, Commit, Statements
    <3>3. QED
      BY <2>2, <2>3, <2>4, <3>1, <3>2 DEF IInv, TypeOK, Commit
<1>5. GapFree'
  BY <1>3 DEF GapFree
<1>6. OneRowPerKey'
  BY <1>1, <1>3 DEF IInv, CounterDiscipline, OneRowPerKey, Recorded, RowOf
<1>7. ASSUME NEW t \in Sessions PROVE Numbered(t)'
  <2>1. CASE t = s
    BY <2>1 DEF IInv, TypeOK, Commit, Numbered
  <2>2. CASE t # s
    <3>1. pc'[t] = pc[t] /\ local'[t] = local[t] /\ call'[t] = call[t]
      BY <2>2 DEF IInv, TypeOK, Commit
    <3>2. pc[t] \notin {"checkCounter", "insertBid", "advance", "extend", "event", "commit"}
      BY <2>2, OneCounterHolder DEF Commit
    <3>3. Numbered(t)
      BY DEF IInv, CounterDiscipline
    <3>4. QED
      BY <1>1, <1>3, <3>1, <3>2, <3>3 DEF Numbered
  <2>3. QED
    BY <2>1, <2>2
<1>8. QED
  BY <1>4, <1>5, <1>6, <1>7 DEF IInv, CounterDiscipline

LEMMA StepDiscipline == IInv /\ [Next]_vars => IInv'
<1> SUFFICES ASSUME IInv, [Next]_vars PROVE IInv'
  OBVIOUS
<1>1. CASE UNCHANGED vars
  BY <1>1 DEF IInv, TypeOK, CounterDiscipline, GapFree, OneRowPerKey, Numbered,
              LastSeq, Recorded, vars, tables, locks
<1>2. ASSUME NEW s \in Sessions, Begin(s) \/ Statement(s) \/ Rollback(s) PROVE IInv'
  BY <1>2, StatementStep, CommitStep
<1>3. QED
  BY <1>1, <1>2 DEF Next

\* Type correctness (the column types and CHECKs of migrations 1, 2 and 5) and
\* the numbering discipline of both append functions.
THEOREM Discipline == Spec => [](TypeOK /\ CounterDiscipline)
<1>1. Spec => []IInv
  BY InitDiscipline, StepDiscipline, PTL DEF Spec
<1>2. QED
  BY <1>1, PTL DEF IInv

\* Every reachable state of the transactions has its type (migrations 1, 2 and 5).
THEOREM TransactionTypes == Spec => []TypeOK
  BY Discipline, PTL

\* I1: the committed rows are always numbered 1..N without a gap.
THEOREM NoGaps == Spec => []GapFree
<1>1. CounterDiscipline => GapFree
  BY DEF CounterDiscipline
<1>2. QED
  BY <1>1, Discipline, PTL

\* A logical bid never has two rows, on either path and under any interleaving.
THEOREM Idempotent == Spec => []OneRowPerKey
<1>1. CounterDiscipline => OneRowPerKey
  BY DEF CounterDiscipline
<1>2. QED
  BY <1>1, Discipline, PTL

\* A commit adds the row after the last one, any other step no row at all.
LEMMA RowsStay ==
  ASSUME IInv, [Next]_vars
  PROVE  \A n \in DOMAIN bids : n \in DOMAIN bids' /\ bids'[n] = bids[n]
<1>1. CASE UNCHANGED vars
  BY <1>1 DEF vars, tables
<1>2. ASSUME NEW s \in Sessions, Begin(s) \/ Statement(s) \/ Rollback(s)
      PROVE  \A n \in DOMAIN bids : n \in DOMAIN bids' /\ bids'[n] = bids[n]
  <2>1. CASE Commit(s)
    <3>1. local[s].sequence \notin DOMAIN bids
      BY <2>1 DEF IInv, TypeOK, CounterDiscipline, Numbered, GapFree, Commit, Ready,
                  LastSeq, NoRow
    <3>2. QED
      BY <2>1, <3>1 DEF Commit
  <2>2. CASE ~ Commit(s)
    BY <1>2, <2>2 DEF Statement, Begin, LockAuction, FindBid, InsertCounter, CheckCounter,
                      LockCounter, InsertBid, Advance, Extend, InsertEvent,
                      CommitDuplicate, Rollback, tables
  <2>3. QED
    BY <2>1, <2>2
<1>3. QED
  BY <1>1, <1>2 DEF Next

\* I1: a committed row never changes and never disappears.
THEOREM Immutable == Spec => LedgerImmutable
<1>1. IInv /\ [Next]_vars =>
        [\A n \in DOMAIN bids : n \in DOMAIN bids' /\ bids'[n] = bids[n]]_vars
  BY RowsStay
<1>2. Spec => []IInv
  BY InitDiscipline, StepDiscipline, PTL DEF Spec
<1>3. QED
  BY <1>1, <1>2, PTL DEF Spec, LedgerImmutable

----------------------------------------------------------------------------
\* What each session's last reply says is true of the rows.
ReplyTrue(s) ==
  reply[s].outcome \in {"inserted", "duplicate"} =>
    /\ reply[s].sequence \in DOMAIN bids
    /\ bids[reply[s].sequence].key = call[s].key

SoleInserter(s, t) ==
  reply[s].outcome = "inserted" /\ reply[t].outcome = "inserted" =>
    reply[t].sequence # reply[s].sequence

LEMMA ReplyParts ==
  ReplyNamesItsBid <=>
    /\ \A s \in Sessions : ReplyTrue(s)
    /\ \A s, t \in Sessions : t # s => SoleInserter(s, t)
BY DEF ReplyNamesItsBid, ReplyTrue, SoleInserter

LEMMA ReplyStep ==
  ASSUME IInv, ReplyNamesItsBid, [Next]_vars
  PROVE  ReplyNamesItsBid'
<1>0. \A n \in DOMAIN bids : n \in DOMAIN bids' /\ bids'[n] = bids[n]
  BY RowsStay
<1>1. CASE UNCHANGED vars
  BY <1>1 DEF ReplyNamesItsBid, vars, tables
<1>2. ASSUME NEW s \in Sessions, Begin(s) \/ Statement(s) \/ Rollback(s)
      PROVE  ReplyNamesItsBid'
  <2>1. \A t \in Sessions \ {s} : reply'[t] = reply[t] /\ call'[t] = call[t]
    BY <1>2 DEF IInv, TypeOK, Statement, Begin, LockAuction, FindBid, InsertCounter,
                CheckCounter, LockCounter, InsertBid, Advance, Extend, InsertEvent,
                Commit, CommitDuplicate, Rollback, Return
  <2>2. ReplyTrue(s)' /\ (reply'[s].outcome = "inserted" =>
                            \/ reply'[s] = reply[s]
                            \/ reply'[s].sequence \notin DOMAIN bids)
    <3>1. CASE UNCHANGED <<reply, call>>
      BY <3>1, <1>0 DEF ReplyNamesItsBid, ReplyTrue
    <3>2. CASE Begin(s) \/ Rollback(s)
      BY <3>2 DEF IInv, TypeOK, Begin, Rollback, Return, NoReply, ReplyTrue
    <3>3. CASE Commit(s)
      <4>1. /\ local[s].sequence \notin DOMAIN bids
            /\ local[s].sequence \in DOMAIN bids'
            /\ bids'[local[s].sequence].key = call[s].key
            /\ call'[s] = call[s]
        BY <3>3 DEF IInv, TypeOK, CounterDiscipline, Numbered, GapFree, Commit, Ready,
                    LastSeq, NoRow, RowOf
      <4>2. \/ reply'[s] = [outcome |-> "inserted", sequence |-> local[s].sequence]
            \/ reply'[s] = [outcome |-> "error", sequence |-> 0]
        BY <3>3 DEF IInv, TypeOK, Commit, Return
      <4>3. QED
        BY <4>1, <4>2 DEF ReplyTrue
    <3>4. CASE CommitDuplicate(s)
      <4>1. /\ local[s].sequence \in DOMAIN bids
            /\ bids[local[s].sequence].key = call[s].key
            /\ UNCHANGED <<bids, call>>
        BY <3>4 DEF IInv, CounterDiscipline, Numbered, CommitDuplicate, Ready, tables
      <4>2. \/ reply'[s] = [outcome |-> "duplicate", sequence |-> local[s].sequence]
            \/ reply'[s] = [outcome |-> "error", sequence |-> 0]
        BY <3>4 DEF IInv, TypeOK, CommitDuplicate, Return
      <4>3. QED
        BY <4>1, <4>2 DEF ReplyTrue
    <3>5. QED
      BY <1>2, <3>1, <3>2, <3>3, <3>4 DEF Statement, LockAuction, FindBid, InsertCounter,
           CheckCounter, LockCounter, InsertBid, Advance, Extend, InsertEvent
  <2>3. ASSUME NEW t \in Sessions, t # s PROVE ReplyTrue(t)' /\ ReplyTrue(t)
    BY <1>0, <2>1, <2>3 DEF ReplyNamesItsBid, ReplyTrue
  <2>4. ASSUME NEW t \in Sessions, NEW u \in Sessions, u # t PROVE SoleInserter(t, u)'
    <3>1. SoleInserter(t, u)
      BY <2>4, ReplyParts
    <3>2. CASE t # s /\ u # s
      BY <2>1, <3>1, <3>2 DEF SoleInserter
    <3>3. CASE t = s
      BY <2>1, <2>2, <2>3, <2>4, <3>1, <3>3 DEF SoleInserter, ReplyTrue
    <3>4. CASE u = s
      BY <2>1, <2>2, <2>3, <2>4, <3>1, <3>4 DEF SoleInserter, ReplyTrue
    <3>5. QED
      BY <3>2, <3>3, <3>4
  <2>5. QED
    BY <2>2, <2>3, <2>4 DEF ReplyNamesItsBid, ReplyTrue, SoleInserter
<1>3. QED
  BY <1>1, <1>2 DEF Next

\* A caller that was given a sequence number can rely on it: the row is there,
\* it is its own, and no one else was told to have inserted it.
THEOREM RepliesAreTrue == Spec => []ReplyNamesItsBid
<1>1. Init => ReplyNamesItsBid
  BY DEF Init, ReplyNamesItsBid, NoReply
<1>2. IInv /\ ReplyNamesItsBid /\ [Next]_vars => ReplyNamesItsBid'
  BY ReplyStep
<1>3. Spec => []IInv
  BY InitDiscipline, StepDiscipline, PTL DEF Spec
<1>4. QED
  BY <1>1, <1>2, <1>3, PTL DEF Spec

----------------------------------------------------------------------------
(***************************************************************************)
(* Where only the anti-snipe path is in use, every committed bid has its   *)
(* outbox event, and LedgerTransaction implements AuctionLedger; what      *)
(* AuctionLedger promises therefore holds of the committed rows.           *)
(*                                                                         *)
(* A commit writes the close that its session computed some statements     *)
(* ago.  It is an Accept, which computes the close from the committed one, *)
(* only because AuctionDiscipline keeps the two equal; and the committed   *)
(* ledger grows by one row at its end because of CounterDiscipline.        *)
(***************************************************************************)
OnlyAntiSnipe == Paths = {"antiSnipe"}

RInv == IInv /\ AuctionDiscipline /\ EventPerBid

\* With one path, every call in progress took it.
LEMMA PathOf ==
  ASSUME OnlyAntiSnipe, TypeOK, NEW s \in Sessions
  PROVE  call[s].path = "antiSnipe"
BY DEF OnlyAntiSnipe, TypeOK, Call

\* A step of session s that commits nothing keeps the discipline if the other
\* sessions stay where they are and keep the auctions row they hold, and s
\* itself arrives at a statement it may be at.
LEMMA HoldingStep ==
  ASSUME AuctionDiscipline, NEW s \in Sessions,
         UNCHANGED auction,
         \A t \in Sessions \ {s} : /\ pc'[t] = pc[t]
                                   /\ call'[t] = call[t]
                                   /\ local'[t] = local[t]
                                   /\ auctionLock = t => auctionLock' = t,
         HoldsAuction(s)'
  PROVE  AuctionDiscipline'
<1>1. ASSUME NEW t \in Sessions, t # s PROVE HoldsAuction(t)'
  <2>1. HoldsAuction(t)
    BY DEF AuctionDiscipline
  <2>2. QED
    BY <1>1, <2>1 DEF HoldsAuction, StagedClose, Extends
<1>2. QED
  BY <1>1 DEF AuctionDiscipline

\* The statements that take the auctions row find it free.
LEMMA AuctionFree ==
  ASSUME NEW s \in Sessions, Ready(s, "lockAuction") \/ Ready(s, "extend")
  PROVE  auctionLock \in {s, NoSession}
BY DEF Ready, WaitsFor, HolderOtherThan

LEMMA InitRefinement == Init => AuctionDiscipline /\ EventPerBid
BY DEF Init, AuctionDiscipline, HoldsAuction, EventPerBid, LastSeq, NoRow

LEMMA HoldingStatement ==
  ASSUME OnlyAntiSnipe, IInv, AuctionDiscipline, NEW s \in Sessions,
         Begin(s) \/ Rollback(s) \/ (Statement(s) /\ ~ Commit(s))
  PROVE  AuctionDiscipline'
<1> USE DEF Goto, Return, Release, tables, locks
<1>0. TypeOK /\ HoldsAuction(s)
  BY DEF IInv, AuctionDiscipline
<1>1. CASE Begin(s)
  <2>1. pc'[s] = "lockAuction"
    BY <1>0, <1>1 DEF Begin, FirstStatement, OnlyAntiSnipe, TypeOK
  <2>2. ~ local'[s].extended
    BY <1>0, <1>1 DEF Begin, NewLocal, TypeOK
  <2>3. HoldsAuction(s)'
    BY <2>1, <2>2 DEF HoldsAuction
  <2>4. QED
    BY <1>0, <1>1, <2>3, HoldingStep DEF TypeOK, Begin
<1>2. CASE LockAuction(s)
  <2>1. HoldsAuction(s)'
    BY <1>0, <1>2 DEF HoldsAuction, TypeOK, LockAuction, Ready, Local
  <2>2. QED
    BY <1>0, <1>2, <2>1, HoldingStep, AuctionFree, SessionsAssumption DEF TypeOK, LockAuction
<1>3. CASE FindBid(s)
  <2>1. HoldsAuction(s)'
    BY <1>0, <1>3 DEF HoldsAuction, TypeOK, FindBid, Ready, Local
  <2>2. QED
    BY <1>0, <1>3, <2>1, HoldingStep DEF TypeOK, FindBid
<1>4. CASE InsertCounter(s)
  <2>1. HoldsAuction(s)'
    BY <1>0, <1>4 DEF HoldsAuction, TypeOK, InsertCounter, Ready
  <2>2. QED
    BY <1>0, <1>4, <2>1, HoldingStep DEF TypeOK, InsertCounter
<1>5. CASE CheckCounter(s)
  <2>1. HoldsAuction(s)'
    BY <1>0, <1>5 DEF HoldsAuction, TypeOK, CheckCounter, Ready
  <2>2. QED
    BY <1>0, <1>5, <2>1, HoldingStep DEF TypeOK, CheckCounter
<1>6. CASE LockCounter(s)
  <2>1. HoldsAuction(s)'
    BY <1>0, <1>6 DEF HoldsAuction, TypeOK, LockCounter, Ready, Local
  <2>2. QED
    BY <1>0, <1>6, <2>1, HoldingStep DEF TypeOK, LockCounter
<1>7. CASE InsertBid(s)
  <2>1. HoldsAuction(s)'
    BY <1>0, <1>7 DEF HoldsAuction, TypeOK, InsertBid, Ready, Local
  <2>2. QED
    BY <1>0, <1>7, <2>1, HoldingStep DEF TypeOK, InsertBid
<1>8. CASE Advance(s)
  <2>1. HoldsAuction(s)'
    BY <1>0, <1>8, PathOf DEF HoldsAuction, TypeOK, Advance, Ready
  <2>2. QED
    BY <1>0, <1>8, <2>1, HoldingStep DEF TypeOK, Advance
<1>9. CASE Extend(s)
  <2>1. HoldsAuction(s)'
    BY <1>0, <1>9, CloseAssumption DEF HoldsAuction, StagedClose, TypeOK, Extend, Extends, Ready, Local
  <2>2. QED
    BY <1>0, <1>9, <2>1, HoldingStep, AuctionFree, SessionsAssumption DEF TypeOK, Extend
<1>10. CASE InsertEvent(s)
  <2>1. HoldsAuction(s)'
    BY <1>0, <1>10 DEF HoldsAuction, StagedClose, Extends, TypeOK, InsertEvent, Ready
  <2>2. QED
    BY <1>0, <1>10, <2>1, HoldingStep DEF TypeOK, InsertEvent
<1>11. CASE CommitDuplicate(s)
  <2>1. HoldsAuction(s)'
    BY <1>0, <1>11 DEF HoldsAuction, TypeOK, CommitDuplicate
  <2>2. QED
    BY <1>0, <1>11, <2>1, HoldingStep DEF TypeOK, CommitDuplicate
<1>12. CASE Rollback(s)
  <2>1. HoldsAuction(s)'
    BY <1>0, <1>12 DEF HoldsAuction, TypeOK, Rollback
  <2>2. QED
    BY <1>0, <1>12, <2>1, HoldingStep DEF TypeOK, Rollback
<1>13. QED
  BY <1>1, <1>2, <1>3, <1>4, <1>5, <1>6, <1>7, <1>8, <1>9, <1>10, <1>11, <1>12 DEF Statement

\* A commit gives the auctions row up with the close its session staged; no
\* other session holds that row, so that none has read the old close.
LEMMA HoldingCommit ==
  ASSUME IInv, AuctionDiscipline, NEW s \in Sessions, Commit(s)
  PROVE  AuctionDiscipline'
<1>1. TypeOK /\ HoldsAuction(s)
  BY DEF IInv, AuctionDiscipline
<1>2. auctionLock = s /\ pc'[s] = "idle"
  BY <1>1 DEF HoldsAuction, Commit, Ready, Goto, TypeOK
<1>3. ASSUME NEW t \in Sessions PROVE HoldsAuction(t)'
  <2>1. CASE t = s
    BY <1>2, <2>1 DEF HoldsAuction
  <2>2. CASE t # s
    <3>1. /\ pc[t] \in {"idle", "lockAuction", "rollback"}
          /\ pc[t] = "lockAuction" => ~ local[t].extended
      BY <1>2, <2>2 DEF AuctionDiscipline, HoldsAuction
    <3>2. pc'[t] = pc[t] /\ local'[t] = local[t]
      BY <1>1, <2>2 DEF Commit, Goto, TypeOK
    <3>3. QED
      BY <3>1, <3>2 DEF HoldsAuction
  <2>3. QED
    BY <2>1, <2>2
<1>4. QED
  BY <1>3 DEF AuctionDiscipline

\* The facts about a commit that both the outbox and the refinement need.
LEMMA CommitFacts ==
  ASSUME OnlyAntiSnipe, RInv, NEW s \in Sessions, Commit(s)
  PROVE  /\ LastSeq \in Nat
         /\ local[s].sequence = LastSeq + 1
         /\ ~ Recorded(call[s].key)
         /\ call[s].at < auction.close
         /\ StagedClose(s)
         /\ DOMAIN bids = 1..LastSeq
         /\ DOMAIN bids' = 1..(LastSeq + 1)
         /\ bids'[LastSeq + 1] = RowOf(s)
         /\ \A n \in 1..LastSeq : bids'[n] = bids[n]
         /\ LastSeq' = LastSeq + 1
         /\ outbox' = Append(outbox, EventOf(s))
         /\ auction' = [close |-> local[s].close, extensions |-> local[s].extensions]
         /\ outbox \in Seq(Event)
         /\ EventOf(s) \in Event
         /\ RowOf(s) \in Bid
<1>1. TypeOK /\ Numbered(s) /\ HoldsAuction(s) /\ GapFree /\ pc[s] = "commit"
  BY DEF RInv, IInv, CounterDiscipline, AuctionDiscipline, Commit, Ready
<1>2. /\ LastSeq \in Nat
      /\ local[s].sequence = LastSeq + 1
      /\ ~ Recorded(call[s].key)
      /\ DOMAIN bids = 1..LastSeq
  BY <1>1 DEF TypeOK, Numbered, GapFree, LastSeq, NoRow
<1>3. call[s].at < auction.close /\ StagedClose(s)
  BY <1>1 DEF HoldsAuction
<1>4. /\ DOMAIN bids' = 1..(LastSeq + 1)
      /\ bids'[LastSeq + 1] = RowOf(s)
      /\ \A n \in 1..LastSeq : bids'[n] = bids[n]
      /\ LastSeq' = LastSeq + 1
  BY <1>2 DEF Commit, LastSeq, NoRow
<1>5. /\ outbox' = Append(outbox, EventOf(s))
      /\ auction' = [close |-> local[s].close, extensions |-> local[s].extensions]
  BY <1>1, PathOf DEF Commit
<1>6. RowOf(s) \in Bid
  BY <1>1 DEF TypeOK, RowOf, Call, Bid
<1>7. EventOf(s) \in Event
  BY <1>1, <1>6 DEF TypeOK, EventOf, Event, Local
<1>8. QED
  BY <1>1, <1>2, <1>3, <1>4, <1>5, <1>6, <1>7 DEF TypeOK

LEMMA EventCommit ==
  ASSUME OnlyAntiSnipe, RInv, NEW s \in Sessions, Commit(s)
  PROVE  EventPerBid'
<1>1. /\ Len(outbox) = LastSeq
      /\ DOMAIN outbox = 1..LastSeq
      /\ \A n \in 1..LastSeq : outbox[n].sequence = n /\ outbox[n].bid = bids[n]
  BY CommitFacts DEF RInv, EventPerBid
<1>2. /\ Len(outbox') = LastSeq + 1
      /\ DOMAIN outbox' = 1..(LastSeq + 1)
      /\ \A n \in 1..LastSeq : outbox'[n] = outbox[n]
      /\ outbox'[LastSeq + 1] = EventOf(s)
  BY <1>1, CommitFacts
<1>3. EventOf(s).sequence = LastSeq + 1 /\ EventOf(s).bid = RowOf(s)
  BY CommitFacts DEF EventOf
<1>4. ASSUME NEW n \in 1..(LastSeq + 1)
      PROVE  outbox'[n].sequence = n /\ outbox'[n].bid = bids'[n]
  <2>1. CASE n \in 1..LastSeq
    BY <1>1, <1>2, <2>1, CommitFacts
  <2>2. CASE n = LastSeq + 1
    BY <1>2, <1>3, <2>2, CommitFacts
  <2>3. QED
    BY <2>1, <2>2, CommitFacts
<1>5. QED
  BY <1>2, <1>4, CommitFacts DEF EventPerBid

\* The statements before the commit leave the tables alone.
LEMMA TablesStay ==
  ASSUME NEW s \in Sessions, Begin(s) \/ Rollback(s) \/ (Statement(s) /\ ~ Commit(s))
  PROVE  UNCHANGED tables
BY DEF Begin, Rollback, Statement, LockAuction, FindBid, InsertCounter, CheckCounter,
       LockCounter, InsertBid, Advance, Extend, InsertEvent, CommitDuplicate

LEMMA StepRefinement ==
  ASSUME OnlyAntiSnipe, RInv, [Next]_vars
  PROVE  RInv'
<1>1. IInv'
  BY StepDiscipline DEF RInv
<1>2. CASE UNCHANGED vars
  BY <1>1, <1>2 DEF RInv, AuctionDiscipline, HoldsAuction, StagedClose, Extends, EventPerBid,
                    LastSeq, vars, tables, locks
<1>3. ASSUME NEW s \in Sessions, Commit(s) PROVE RInv'
  BY <1>1, <1>3, HoldingCommit, EventCommit DEF RInv
<1>4. ASSUME NEW s \in Sessions, Begin(s) \/ Rollback(s) \/ (Statement(s) /\ ~ Commit(s))
      PROVE  RInv'
  <2>1. UNCHANGED tables
    BY <1>4, TablesStay
  <2>2. EventPerBid'
    BY <2>1 DEF RInv, EventPerBid, LastSeq, tables
  <2>3. QED
    BY <1>1, <1>4, <2>2, HoldingStatement DEF RInv
<1>5. QED
  BY <1>2, <1>3, <1>4 DEF Next

\* The invariant of the refinement.
LEMMA RefinementInvariant == ASSUME OnlyAntiSnipe PROVE Spec => []RInv
<1>1. Init => RInv
  BY InitDiscipline, InitRefinement DEF RInv
<1>2. RInv /\ [Next]_vars => RInv'
  BY StepRefinement
<1>3. QED
  BY <1>1, <1>2, PTL DEF Spec

\* Who is past its first statement holds the auctions row, and has staged what
\* its bid makes of the committed close (anti_snipe.go:70-99, 315-373).
THEOREM AuctionHeld == ASSUME OnlyAntiSnipe PROVE Spec => []AuctionDiscipline
<1>1. RInv => AuctionDiscipline
  BY DEF RInv
<1>2. QED
  BY <1>1, RefinementInvariant, PTL

\* The outbox holds exactly one event per committed bid, in sequence order and
\* about that bid (anti_snipe.go:375-390).
THEOREM OneEventPerBid == ASSUME OnlyAntiSnipe PROVE Spec => []EventPerBid
<1>1. RInv => EventPerBid
  BY DEF RInv
<1>2. QED
  BY <1>1, RefinementInvariant, PTL

----------------------------------------------------------------------------
\* Who waits for whom.  On the anti-snipe path whoever has anything locked has the
\* auctions row, and is past the only statement that waits for it.
LocksTogether ==
  /\ \A s \in Sessions : auctionLock = s => pc[s] \notin {"idle", "lockAuction"}
  /\ keyShare \subseteq {auctionLock}
  /\ counterLock \in {auctionLock, NoSession}

\* On the row-lock path nobody locks the auctions row.
AuctionUnlocked ==
  /\ auctionLock = NoSession
  /\ \A s \in Sessions : pc[s] \notin {"lockAuction", "extend"}

OnlyRowLock == Paths = {"rowLock"}

\* A statement between the first and the last takes locks only for a session
\* that has the auctions row.
LEMMA LocksTogetherStep ==
  ASSUME TypeOK, AuctionDiscipline, LocksTogether, NEW s \in Sessions,
         Begin(s) \/ Statement(s) \/ Rollback(s),
         OnlyAntiSnipe
  PROVE  LocksTogether'
<1>1. HoldsAuction(s) /\ auctionLock \in Sessions \cup {NoSession} /\ keyShare \subseteq Sessions
  BY DEF AuctionDiscipline, TypeOK
<1>2. CASE Begin(s)
  <2>1. pc[s] = "idle" /\ UNCHANGED locks /\ \A t \in Sessions \ {s} : pc'[t] = pc[t]
    BY <1>2 DEF Begin, Goto, TypeOK
  <2>2. auctionLock # s
    BY <2>1 DEF LocksTogether
  <2>3. QED
    BY <2>1, <2>2 DEF LocksTogether, locks
<1>3. CASE LockAuction(s)
  <2>1. pc[s] = "lockAuction" /\ auctionLock \in {s, NoSession}
    BY <1>3, AuctionFree DEF LockAuction, Ready
  <2>2. auctionLock = NoSession
    BY <2>1 DEF LocksTogether
  <2>3. keyShare = {} /\ counterLock = NoSession
    BY <1>1, <2>2, SessionsAssumption DEF LocksTogether
  <2>4. pc' = [pc EXCEPT ![s] = "findBid"] /\ auctionLock' = s /\ UNCHANGED <<keyShare, counterLock>>
    BY <1>3 DEF LockAuction, Goto
  <2>5. QED
    BY <2>3, <2>4, SessionsAssumption DEF LocksTogether, TypeOK
<1>4. CASE \/ FindBid(s) \/ InsertCounter(s) \/ CheckCounter(s) \/ LockCounter(s)
           \/ InsertBid(s) \/ Advance(s) \/ Extend(s) \/ InsertEvent(s)
  <2>1. auctionLock = s /\ auctionLock' = s
    BY <1>1, <1>4 DEF HoldsAuction, FindBid, InsertCounter, CheckCounter, LockCounter, InsertBid,
       Advance, Extend, InsertEvent, Ready, locks
  <2>2. keyShare' \subseteq keyShare \cup {s} /\ counterLock' \in {counterLock, s}
    BY <1>4 DEF FindBid, InsertCounter, CheckCounter, LockCounter, InsertBid,
       Advance, Extend, InsertEvent, locks
  <2>3. pc'[s] \notin {"idle", "lockAuction"}
    BY <1>4 DEF FindBid, InsertCounter, CheckCounter, LockCounter, InsertBid,
       Advance, Extend, InsertEvent, Goto, TypeOK
  <2>4. QED
    BY <2>1, <2>2, <2>3 DEF LocksTogether
<1>5. CASE Commit(s) \/ CommitDuplicate(s) \/ Rollback(s)
  <2>1. Release(s) /\ pc' = [pc EXCEPT ![s] = "idle"]
    BY <1>5 DEF Commit, CommitDuplicate, Rollback, Goto
  <2>2. CASE auctionLock = s
    BY <1>1, <2>1, <2>2, SessionsAssumption DEF LocksTogether, Release
  <2>3. CASE auctionLock # s
    BY <1>1, <2>1, <2>3, SessionsAssumption DEF LocksTogether, Release, TypeOK
  <2>4. QED
    BY <2>2, <2>3
<1>6. QED
  BY <1>2, <1>3, <1>4, <1>5 DEF Statement

LEMMA AuctionUnlockedStep ==
  ASSUME TypeOK, AuctionUnlocked, NEW s \in Sessions,
         Begin(s) \/ Statement(s) \/ Rollback(s),
         OnlyRowLock
  PROVE  AuctionUnlocked'
<1>1. call[s].path = "rowLock"
  BY DEF OnlyRowLock, TypeOK, Call
<1>2. pc[s] \notin {"lockAuction", "extend"}
  BY DEF AuctionUnlocked
<1>3. auctionLock' = NoSession
  BY <1>2 DEF AuctionUnlocked, Begin, Statement, LockAuction, FindBid, InsertCounter, CheckCounter,
     LockCounter, InsertBid, Advance, Extend, InsertEvent, Commit, CommitDuplicate, Rollback,
     Ready, Release, locks
<1>4. pc'[s] \notin {"lockAuction", "extend"}
  BY <1>1, <1>2 DEF Begin, Statement, LockAuction, FindBid, InsertCounter, CheckCounter,
     LockCounter, InsertBid, Advance, Extend, InsertEvent, Commit, CommitDuplicate, Rollback,
     Ready, Goto, FirstStatement, OnlyRowLock, TypeOK
<1>5. \A t \in Sessions \ {s} : pc'[t] = pc[t]
  BY DEF Begin, Statement, LockAuction, FindBid, InsertCounter, CheckCounter,
     LockCounter, InsertBid, Advance, Extend, InsertEvent, Commit, CommitDuplicate, Rollback,
     Goto, TypeOK
<1>6. QED
  BY <1>3, <1>4, <1>5 DEF AuctionUnlocked

\* The sessions of a cycle would all wait for one that waits for nobody.
LEMMA OneHolder ==
  ASSUME TypeOK, LocksTogether \/ AuctionUnlocked
  PROVE  NoWaitCycle
<1>1. CASE LocksTogether
  <2>1. ASSUME NEW s \in Sessions PROVE WaitsFor(s) \subseteq {auctionLock} \ {s, NoSession}
    <3>1. /\ HolderOtherThan(s, auctionLock) \subseteq {auctionLock} \ {s, NoSession}
          /\ HolderOtherThan(s, counterLock) \subseteq {auctionLock} \ {s, NoSession}
      BY <1>1 DEF LocksTogether, HolderOtherThan
    <3>2. keyShare \ {s} \subseteq {auctionLock} \ {s, NoSession}
      BY <1>1, SessionsAssumption DEF LocksTogether, TypeOK
    <3>3. CounterInserters(s) \subseteq HolderOtherThan(s, counterLock)
      BY DEF CounterInserters
    <3>4. QED
      BY <3>1, <3>2, <3>3 DEF WaitsFor
  <2>2. QED
    BY <2>1 DEF NoWaitCycle
<1>2. CASE AuctionUnlocked
  <2>1. \A s \in Sessions : WaitsFor(s) \subseteq {counterLock} \ {s, NoSession}
    BY <1>2 DEF AuctionUnlocked, WaitsFor, HolderOtherThan, CounterInserters
  <2>2. QED
    BY <2>1 DEF NoWaitCycle
<1>3. QED
  BY <1>1, <1>2

\* The lock order of anti_snipe.go:178-180 excludes cycles as long as only one of
\* the two append functions is in use, for any number of sessions: the
\* counterpart of what run LedgerTransaction_lockOrder finds when both are.
THEOREM OnePathNoCycle == ASSUME OnlyAntiSnipe \/ OnlyRowLock PROVE Spec => []NoWaitCycle
<1>1. CASE OnlyAntiSnipe
  <2>1. Init => LocksTogether
    BY SessionsAssumption DEF Init, LocksTogether
  <2>2. RInv /\ LocksTogether /\ [Next]_vars => LocksTogether'
    <3>1. ASSUME LocksTogether, UNCHANGED vars PROVE LocksTogether'
      BY <3>1 DEF LocksTogether, vars, locks
    <3>2. QED
      BY <1>1, <3>1, LocksTogetherStep DEF Next, RInv, IInv
  <2>3. RInv /\ LocksTogether => NoWaitCycle
    BY OneHolder DEF RInv, IInv
  <2>4. Spec => []RInv
    BY <1>1, RefinementInvariant
  <2>5. QED
    BY <2>1, <2>2, <2>3, <2>4, PTL DEF Spec
<1>2. CASE OnlyRowLock
  <2>1. Init => AuctionUnlocked
    BY DEF Init, AuctionUnlocked
  <2>2. TypeOK /\ AuctionUnlocked /\ [Next]_vars => AuctionUnlocked'
    <3>1. ASSUME AuctionUnlocked, UNCHANGED vars PROVE AuctionUnlocked'
      BY <3>1 DEF AuctionUnlocked, vars, locks
    <3>2. QED
      BY <1>2, <3>1, AuctionUnlockedStep DEF Next
  <2>3. TypeOK /\ AuctionUnlocked => NoWaitCycle
    BY OneHolder
  <2>4. QED
    BY <2>1, <2>2, <2>3, TransactionTypes, PTL DEF Spec
<1>3. QED
  BY <1>1, <1>2

----------------------------------------------------------------------------
AbstractRow == [bid : Bid, close : Int, extended : BOOLEAN]

Paired(rows, events) ==
  [n \in DOMAIN rows |->
     [bid |-> rows[n], close |-> events[n].close, extended |-> events[n].extended]]

\* Rows and events numbered alike pair up to a sequence of abstract rows.
LEMMA PairedRows ==
  ASSUME NEW k \in Nat, NEW rows, NEW events,
         DOMAIN rows = 1..k, \A n \in 1..k : rows[n] \in Bid,
         events \in Seq(Event), Len(events) = k
  PROVE  Paired(rows, events) \in Seq(AbstractRow) /\ Len(Paired(rows, events)) = k
<1>1. ASSUME NEW n \in 1..k PROVE Paired(rows, events)[n] \in AbstractRow
  <2>1. events[n] \in Event
    BY <1>1, ElementOfSeq
  <2>2. events[n].close \in Int /\ events[n].extended \in BOOLEAN
    BY <2>1 DEF Event
  <2>3. QED
    BY <1>1, <2>2 DEF AbstractRow, Paired
<1>2. Paired(rows, events) \in [1..k -> AbstractRow]
  BY <1>1 DEF Paired
<1>3. QED
  BY <1>2

\* The committed ledger is a sequence with one row per row of bids.
LEMMA CommittedRows ==
  ASSUME RInv
  PROVE  /\ CommittedLedger \in Seq(AbstractRow)
         /\ Len(CommittedLedger) = LastSeq
         /\ LastSeq \in Nat
<1>1. /\ LastSeq \in Nat
      /\ DOMAIN bids = 1..LastSeq
      /\ \A n \in 1..LastSeq : bids[n] \in Bid
      /\ outbox \in Seq(Event)
      /\ Len(outbox) = LastSeq
  BY DEF RInv, IInv, TypeOK, CounterDiscipline, GapFree, EventPerBid, LastSeq, NoRow
<1>2. CommittedLedger = Paired(bids, outbox)
  BY DEF CommittedLedger, Paired
<1>3. QED
  BY <1>1, <1>2, PairedRows

\* So it is after a commit, with one row more.
LEMMA CommittedRowsAfter ==
  ASSUME OnlyAntiSnipe, RInv, NEW s \in Sessions, Commit(s)
  PROVE  /\ CommittedLedger' \in Seq(AbstractRow)
         /\ Len(CommittedLedger') = LastSeq + 1
<1>1. LastSeq + 1 \in Nat /\ DOMAIN bids' = 1..(LastSeq + 1)
  BY CommitFacts
<1>2. \A n \in 1..LastSeq : bids[n] \in Bid
  BY CommitFacts DEF RInv, IInv, TypeOK
<1>3. \A n \in 1..(LastSeq + 1) : bids'[n] \in Bid
  <2>1. /\ LastSeq \in Nat
        /\ bids'[LastSeq + 1] \in Bid
        /\ \A n \in 1..LastSeq : bids'[n] = bids[n]
    BY CommitFacts
  <2>2. \A n \in 1..LastSeq : bids'[n] \in Bid
    BY <1>2, <2>1
  <2>3. \A n \in 1..(LastSeq + 1) : n \in 1..LastSeq \/ n = LastSeq + 1
    BY <2>1
  <2>4. QED
    BY <2>1, <2>2, <2>3, Zenon
<1>4. Len(outbox) = LastSeq
  BY DEF RInv, EventPerBid
<1>5. outbox' \in Seq(Event) /\ Len(outbox') = LastSeq + 1
  <2>1. outbox \in Seq(Event) /\ EventOf(s) \in Event /\ outbox' = Append(outbox, EventOf(s))
    BY CommitFacts
  <2>2. /\ Append(outbox, EventOf(s)) \in Seq(Event)
        /\ Len(Append(outbox, EventOf(s))) = Len(outbox) + 1
    BY <2>1, AppendProperties
  <2>3. QED
    BY <1>4, <2>1, <2>2
<1>6. CommittedLedger' = Paired(bids', outbox')
  BY DEF CommittedLedger, Paired
<1>7. QED
  BY <1>1, <1>3, <1>5, <1>6, PairedRows

LEMMA InitIsLedgerInit == Init => Ledger!LedgerInit
<1>1. Init => CommittedLedger = <<>>
  BY DEF Init, CommittedLedger
<1>2. QED
  BY <1>1 DEF Init, Ledger!LedgerInit, Ledger!NewAuction

LEMMA CommitIsAccept ==
  ASSUME OnlyAntiSnipe, RInv, NEW s \in Sessions, Commit(s)
  PROVE  Ledger!LedgerNext
<1> DEFINE b == RowOf(s)
           row == [bid |-> b, close |-> auction'.close, extended |-> Extends(b.at)]
<1>1. RInv'
  BY StepRefinement DEF Next, Statement
<1>2. b.at = call[s].at /\ b.key = call[s].key /\ b \in Bid
  BY CommitFacts DEF RowOf
<1>3. Ledger!Extends(b.at, auction) = Extends(b.at)
  BY DEF Ledger!Extends, Extends
<1>4. Ledger!BeforeClose(b.at, auction)
  BY <1>2, CommitFacts DEF Ledger!BeforeClose
<1>5. ~ Ledger!KeyInLedger(b.key)
  BY <1>2, CommitFacts DEF Ledger!KeyInLedger, CommittedLedger, Recorded
<1>6. auction' = Ledger!AfterBid(b.at, auction)
  <2>1. auction \in [close : Int, extensions : Nat]
    BY DEF RInv, IInv, TypeOK
  <2>2. QED
    BY <1>2, <1>3, <2>1, CommitFacts DEF Ledger!AfterBid, StagedClose
<1>7. CommittedLedger' = Append(CommittedLedger, row)
  <2>1. /\ CommittedLedger \in Seq(AbstractRow)
        /\ Len(CommittedLedger) = LastSeq
        /\ LastSeq \in Nat
    BY CommittedRows
  <2>2. /\ CommittedLedger' \in Seq(AbstractRow)
        /\ Len(CommittedLedger') = LastSeq + 1
    BY CommittedRowsAfter
  <2>3. row \in AbstractRow
    <3>1. auction'.close \in Int
      BY <1>1 DEF RInv, IInv, TypeOK
    <3>2. QED
      BY <1>2, <3>1 DEF AbstractRow, Extends
  <2>4. /\ Append(CommittedLedger, row) \in Seq(AbstractRow)
        /\ Len(Append(CommittedLedger, row)) = LastSeq + 1
        /\ Append(CommittedLedger, row)[LastSeq + 1] = row
        /\ \A n \in 1..LastSeq : Append(CommittedLedger, row)[n] = CommittedLedger[n]
    BY <2>1, <2>3
  <2>5. /\ Len(outbox) = LastSeq
        /\ \A n \in 1..LastSeq : outbox'[n] = outbox[n]
        /\ outbox'[LastSeq + 1] = EventOf(s)
    <3>1. Len(outbox) = LastSeq
      BY DEF RInv, EventPerBid
    <3>2. outbox \in Seq(Event) /\ EventOf(s) \in Event /\ outbox' = Append(outbox, EventOf(s))
      BY CommitFacts
    <3>3. QED
      BY <3>1, <3>2, AppendProperties
  <2>6. ASSUME NEW n \in 1..(LastSeq + 1)
        PROVE  CommittedLedger'[n] = Append(CommittedLedger, row)[n]
    <3>1. CommittedLedger'[n] =
            [bid |-> bids'[n], close |-> outbox'[n].close, extended |-> outbox'[n].extended]
      BY <2>6, CommitFacts DEF CommittedLedger
    <3>2. CASE n \in 1..LastSeq
      <4>1. CommittedLedger[n] =
              [bid |-> bids[n], close |-> outbox[n].close, extended |-> outbox[n].extended]
        BY <3>2, CommitFacts DEF CommittedLedger
      <4>2. QED
        BY <2>4, <2>5, <3>1, <3>2, <4>1, CommitFacts
    <3>3. CASE n = LastSeq + 1
      <4>1. /\ EventOf(s).close = auction'.close
            /\ EventOf(s).extended = Extends(b.at)
        <5>1. EventOf(s).close = local[s].close /\ EventOf(s).extended = local[s].extended
          BY DEF EventOf
        <5>2. auction'.close = local[s].close
          BY CommitFacts
        <5>3. local[s].extended = Extends(call[s].at)
          BY CommitFacts DEF StagedClose
        <5>4. QED
          BY <1>2, <5>1, <5>2, <5>3
      <4>2. QED
        BY <2>4, <2>5, <3>1, <3>3, <4>1, CommitFacts
    <3>4. QED
      BY <2>1, <3>2, <3>3
  <2> HIDE DEF row
  <2>7. QED
    BY <2>2, <2>4, <2>6, SeqEqual
<1>8. Ledger!Accept(b)
  BY <1>3, <1>4, <1>5, <1>6, <1>7 DEF Ledger!Accept
<1>9. QED
  BY <1>2, <1>8 DEF Ledger!LedgerNext

LEMMA StepIsLedgerStep ==
  ASSUME OnlyAntiSnipe, RInv, [Next]_vars
  PROVE  [Ledger!LedgerNext]_(Ledger!ledgerVars)
<1>1. UNCHANGED tables => UNCHANGED Ledger!ledgerVars
  BY DEF tables, Ledger!ledgerVars, CommittedLedger
<1>2. CASE UNCHANGED vars
  BY <1>1, <1>2 DEF vars
<1>3. ASSUME NEW s \in Sessions, Commit(s) PROVE Ledger!LedgerNext
  BY <1>3, CommitIsAccept
<1>4. ASSUME NEW s \in Sessions, Begin(s) \/ Rollback(s) \/ (Statement(s) /\ ~ Commit(s))
      PROVE  UNCHANGED Ledger!ledgerVars
  BY <1>1, <1>4, TablesStay
<1>5. QED
  BY <1>2, <1>3, <1>4 DEF Next

\* The anti-snipe path implements AuctionLedger: every commit of a new bid is
\* one Accept, with the close and the extension the abstract ledger prescribes,
\* and no other statement, retry or abort changes it (anti_snipe.go:39-411).
THEOREM Refinement == ASSUME OnlyAntiSnipe PROVE Spec => ImplementsAuctionLedger
<1>1. Init => Ledger!LedgerInit
  BY InitIsLedgerInit
<1>2. RInv /\ [Next]_vars => [Ledger!LedgerNext]_(Ledger!ledgerVars)
  BY StepIsLedgerStep
<1>3. QED
  BY <1>1, <1>2, RefinementInvariant, PTL DEF Spec, ImplementsAuctionLedger, Ledger!LedgerSpec

----------------------------------------------------------------------------
\* What is proved of every behaviour of AuctionLedger holds of the code, read
\* through the same map.
Proved == INSTANCE AuctionLedger_proofs WITH Bids <- Bid, ledger <- CommittedLedger

LEMMA AbstractAssumptions ==
  Proved!InitialCloseAssumption /\ Proved!ExtensionAssumption /\ Proved!BidsAssumption
<1>1. Proved!InitialCloseAssumption /\ Proved!ExtensionAssumption
  BY CloseAssumption DEF Proved!InitialCloseAssumption, Proved!ExtensionAssumption
<1>2. Proved!BidsAssumption
  BY TimesAssumption DEF Proved!BidsAssumption, Bid
<1>3. QED
  BY <1>1, <1>2

LEMMA ImplementsProved == ASSUME OnlyAntiSnipe PROVE Spec => Proved!LedgerSpec
<1>1. Ledger!LedgerInit => Proved!LedgerInit
  BY DEF Ledger!LedgerInit, Proved!LedgerInit, Ledger!NewAuction, Proved!NewAuction
<1>2. [Ledger!LedgerNext]_(Ledger!ledgerVars) => [Proved!LedgerNext]_(Proved!ledgerVars)
  BY DEF Ledger!LedgerNext, Proved!LedgerNext, Ledger!ledgerVars, Proved!ledgerVars,
         Ledger!Accept, Proved!Accept, Ledger!KeyInLedger, Proved!KeyInLedger,
         Ledger!BeforeClose, Proved!BeforeClose, Ledger!AfterBid, Proved!AfterBid,
         Ledger!Extends, Proved!Extends
<1>3. QED
  BY <1>1, <1>2, Refinement, PTL
     DEF ImplementsAuctionLedger, Ledger!LedgerSpec, Proved!LedgerSpec

\* I3 for the code: every committed bid was submitted strictly before the close
\* that the bids numbered before it had left (anti_snipe.go:147-153).
THEOREM NoLateCommit == ASSUME OnlyAntiSnipe PROVE Spec => []Ledger!BidsBeforeClose
<1>1. Proved!BidsBeforeClose => Ledger!BidsBeforeClose
  BY DEF Proved!BidsBeforeClose, Ledger!BidsBeforeClose,
         Proved!CloseBefore, Ledger!CloseBefore
<1>2. QED
  BY <1>1, AbstractAssumptions, ImplementsProved, Proved!NoLateBid, PTL

\* I7 for the code: the committed close is the initial one moved by one interval
\* for each committed bid that its event reports as extending, and each of those
\* lay in the window it found (anti_snipe.go:315-373).
THEOREM CloseOfCommits == ASSUME OnlyAntiSnipe PROVE Spec => []Ledger!ExtensionLaw
<1>1. Proved!ExtensionLaw => Ledger!ExtensionLaw
  BY DEF Proved!ExtensionLaw, Ledger!ExtensionLaw,
         Proved!CloseBefore, Ledger!CloseBefore
<1>2. QED
  BY <1>1, AbstractAssumptions, ImplementsProved, Proved!CloseFollowsLedger, PTL

\* The committed close never moves back, so that a late bid stays late unless
\* an extension was committed in between (anti_snipe.go:331-344).
THEOREM CloseAdvances ==
  ASSUME OnlyAntiSnipe PROVE Spec => [][auction.close =< auction'.close]_auction
<1>1. [auction.close =< auction'.close]_(Proved!ledgerVars)
        => [auction.close =< auction'.close]_auction
  BY DEF Proved!ledgerVars
<1>2. QED
  BY <1>1, AbstractAssumptions, ImplementsProved, Proved!CloseMonotone, PTL
     DEF Proved!CloseNeverMovesBack
============================================================================
