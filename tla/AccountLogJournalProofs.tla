----------------------- MODULE AccountLogJournalProofs -----------------------
(***************************************************************************)
(* AccountLog implements AccountJournal, for every set of devices,         *)
(* positions and bodies.  The invariant the mapping rests on is that seqs  *)
(* leave no gap: Rank numbers a batch from 1 to its size, every number     *)
(* once.  Then the k-th record of the journal is the row with seq k, a     *)
(* push that stores something writes records, and every other step but the *)
(* first Purge leaves the journal alone.                                   *)
(***************************************************************************)
EXTENDS AccountLogJournal, AccountLogProofs, Sequences

\* Every seq up to the counter has its row.
NoGaps == \A k \in 1 .. lastSeq : \E r \in rows : r.seq = k

\* The ranks of a batch are all the numbers up to its size: they are as many, and distinct.
LEMMA RankHitsAll ==
  ASSUME NEW B \in SUBSET Entry, IsFiniteSet(B), ~Disordered(B),
         NEW k \in 1 .. Cardinality(B)
  PROVE  \E e \in B : Rank(e, B) = k
<1> DEFINE rank == [e \in B |-> Rank(e, B)]
           n == Cardinality(B)
<1>1. n \in Nat
  BY FS_CardinalityType
<1>2. \A e \in B : Rank(e, B) \in 1 .. n
  BY <1>1, RankType
<1>3. ASSUME NEW e \in B, NEW f \in B, Rank(e, B) = Rank(f, B)
      PROVE  e = f
  <2>1. e.pos \in Nat /\ f.pos \in Nat
    BY PositionsAssumption DEF Entry
  <2>2. Rank(e, B) \in Nat /\ Rank(f, B) \in Nat
    BY RankType
  <2>3. ~(e.pos < f.pos) /\ ~(f.pos < e.pos)
    BY <1>3, <2>2, RankIncreases
  <2> QED BY <2>1, <2>3 DEF Disordered
<1>4. rank \in Injection(B, 1 .. n)
  BY <1>2, <1>3 DEF Injection, IsInjective
<1>5. IsFiniteSet(1 .. n) /\ Cardinality(1 .. n) = n
  BY <1>1, FS_Interval
<1>6. rank \in Surjection(B, 1 .. n)
  BY <1>4, <1>5, FS_Injection
<1> QED BY <1>6 DEF Surjection

\* The log has no gaps.
LEMMA Gapless == Spec => []NoGaps
<1>1. Init => NoGaps
  BY DEF Init, NoGaps
<1>2. TypeOK /\ NoGaps /\ [Next]_cloudVars => NoGaps'
  <2> SUFFICES ASSUME TypeOK, NoGaps, [Next]_cloudVars
               PROVE  NoGaps'
    OBVIOUS
  <2>1. ASSUME NEW m \in verified, Push(m), NEW k \in 1 .. lastSeq'
        PROVE  \E r \in rows' : r.seq = k
    <3> DEFINE B == Stored(m)
    <3>1. rows' = rows \union Landed(m.device, B) /\ lastSeq' = lastSeq + Cardinality(B)
      BY <2>1, PushFacts
    <3>2. /\ B \in SUBSET Entry /\ IsFiniteSet(B) /\ ~Disordered(B)
          /\ Cardinality(B) \in Nat /\ lastSeq \in Nat
      BY StoredFacts DEF TypeOK
    <3> HIDE DEF B
    <3>3. CASE k <= lastSeq
      BY <3>1, <3>2, <3>3 DEF NoGaps
    <3>4. CASE k > lastSeq
      <4>1. k - lastSeq \in 1 .. Cardinality(B)
        BY <3>1, <3>2, <3>4
      <4>2. PICK e \in B : Rank(e, B) = k - lastSeq
        BY <3>2, <4>1, RankHitsAll
      <4>3. lastSeq + Rank(e, B) = k
        BY <3>2, <4>2
      <4> DEFINE row == [seq |-> lastSeq + Rank(e, B), device |-> m.device, pos |-> e.pos,
                         event |-> e.event]
      <4>4. row \in Landed(m.device, B)
        BY DEF Landed
      <4>5. row \in rows' /\ row.seq = k
        BY <3>1, <4>3, <4>4
      <4> QED BY <4>5
    <3> QED BY <3>2, <3>3, <3>4
  <2>2. CASE UNCHANGED <<rows, lastSeq, purged>>
    BY <2>2 DEF NoGaps
  <2>3. CASE lastSeq' = 0
    BY <2>3 DEF NoGaps
  <2> QED BY <2>1, <2>2, <2>3, OnlyPushAddsRows DEF NoGaps
<1> QED BY <1>1, <1>2, TypeCorrect, PTL DEF Spec

\* The row at a seq is the one row with that seq.
LEMMA RowAtFacts ==
  ASSUME TypeOK, SeqsAreDistinct, NoGaps, NEW k \in 1 .. lastSeq
  PROVE  /\ RowAt(k) \in rows
         /\ RowAt(k).seq = k
         /\ \A r \in rows : r.seq = k => r = RowAt(k)
<1>1. PICK r \in rows : r.seq = k
  BY DEF NoGaps
<1>2. RowAt(k) \in rows /\ RowAt(k).seq = k
  BY <1>1 DEF RowAt
<1> QED BY <1>2 DEF SeqsAreDistinct

\* The log is a journal that each device writes in its own order and that is closed once, empty.
THEOREM LogImplementsJournal == Spec => ImplementsJournal
<1> DEFINE IInv == TypeOK /\ SeqsAreDistinct /\ DeviceOrder /\ PurgedStaysEmpty /\ NoGaps
<1>1. Init => Journal!Init
  <2> SUFFICES ASSUME Init
               PROVE  Log = << >> /\ purged = FALSE
    BY DEF Journal!Init
  <2>1. lastSeq = 0 /\ purged = FALSE
    BY DEF Init
  <2>2. 1 .. lastSeq = {}
    BY <2>1
  <2> QED BY <2>1, <2>2 DEF Log
<1>2. IInv /\ IInv' /\ [Next]_cloudVars => [Journal!Next]_<<Log, purged>>
  <2> SUFFICES ASSUME IInv, IInv', [Next]_cloudVars
               PROVE  [Journal!Next]_<<Log, purged>>
    OBVIOUS
  <2>1. ASSUME NEW m \in verified, Push(m), Stored(m) # {}
        PROVE  Journal!Next
    <3> DEFINE d == m.device
               new == Landed(d, Stored(m))
    <3>1. /\ rows' = rows \union new
          /\ lastSeq' = lastSeq + Cardinality(Stored(m))
          /\ purged' = purged
      BY <2>1, PushFacts
    <3>2. /\ d \in Devices
          /\ IsFiniteSet(Stored(m)) /\ Cardinality(Stored(m)) \in Nat /\ lastSeq \in Nat
          /\ \A r \in new : r.device = d
      BY StoredFacts, LandedFacts DEF TypeOK
    <3>3. ~purged
      BY <2>1 DEF Stored
    <3>4. lastSeq' > lastSeq /\ lastSeq' \in Nat
      <4>1. Cardinality(Stored(m)) # 0
        BY <2>1, <3>2, FS_EmptySet
      <4> QED BY <3>1, <3>2, <4>1
    <3> HIDE DEF new
    <3>5. Len(Log) = lastSeq /\ Len(Log') = lastSeq'
      BY <3>2, <3>4 DEF Log
    <3>6. ASSUME NEW k \in 1 .. lastSeq'
          PROVE  /\ RowAt(k)' \in rows' /\ RowAt(k)'.seq = k
                 /\ \A r \in rows' : r.seq = k => r = RowAt(k)'
      <4>1. PICK r \in rows' : r.seq = k
        BY <3>6 DEF NoGaps
      <4>2. RowAt(k)' \in rows' /\ RowAt(k)'.seq = k
        BY <4>1 DEF RowAt
      <4> QED BY <4>2 DEF SeqsAreDistinct
    <3>7. ASSUME NEW k \in 1 .. lastSeq
          PROVE  Log'[k] = Log[k]
      <4>1. k \in 1 .. lastSeq'
        BY <3>2, <3>4
      <4>2. RowAt(k) \in rows' /\ RowAt(k).seq = k
        BY <3>1, RowAtFacts
      <4>3. RowAt(k)' = RowAt(k)
        BY <3>6, <4>1, <4>2
      <4> QED BY <4>1, <4>3 DEF Log
    <3>8. ASSUME NEW k \in lastSeq + 1 .. lastSeq'
          PROVE  /\ Log'[k] \in Journal!Record
                 /\ Log'[k].device = d
                 /\ \A j \in 1 .. k - 1 : Log'[j].device = d => Log'[j].pos < Log'[k].pos
      <4>1. k \in 1 .. lastSeq' /\ k > lastSeq
        BY <3>2, <3>4
      <4>2. RowAt(k)' \in rows' /\ RowAt(k)'.seq = k
        BY <3>6, <4>1
      <4>3. RowAt(k)' \in new
        BY <3>1, <3>2, <4>1, <4>2 DEF SeqsAreDistinct
      <4>4. RowAt(k)'.device = d
        BY <3>2, <4>3
      <4>5. Log'[k] = [device |-> RowAt(k)'.device, pos |-> RowAt(k)'.pos,
                       event |-> RowAt(k)'.event]
        BY <4>1 DEF Log
      <4>6. Log'[k] \in Journal!Record
        BY <4>2, <4>5 DEF TypeOK, Row, Journal!Record
      <4>7. ASSUME NEW j \in 1 .. k - 1, Log'[j].device = d
            PROVE  Log'[j].pos < Log'[k].pos
        <5>1. j \in 1 .. lastSeq' /\ j < k
          BY <3>4, <4>1
        <5>2. RowAt(j)' \in rows' /\ RowAt(j)'.seq = j
          BY <3>6, <5>1
        <5>3. Log'[j].device = RowAt(j)'.device /\ Log'[j].pos = RowAt(j)'.pos
          BY <5>1 DEF Log
        <5> QED BY <4>2, <4>4, <4>5, <4>7, <5>1, <5>2, <5>3 DEF DeviceOrder
      <4> QED BY <4>4, <4>5, <4>6, <4>7
    <3>9. Journal!Write(d)
      BY <3>1, <3>3, <3>4, <3>5, <3>7, <3>8 DEF Journal!Write
    <3> QED BY <3>2, <3>9 DEF Journal!Next
  <2>2. CASE UNCHANGED <<rows, lastSeq, purged>>
    BY <2>2 DEF Log, RowAt
  <2>3. ASSUME NEW m \in verified, Push(m), Stored(m) = {}
        PROVE  UNCHANGED <<rows, lastSeq, purged>>
    <3>1. Cardinality(Stored(m)) = 0
      BY <2>3, FS_EmptySet
    <3>2. Landed(m.device, Stored(m)) = {}
      BY <2>3 DEF Landed
    <3>3. /\ rows' = rows \union Landed(m.device, Stored(m))
          /\ lastSeq' = lastSeq + Cardinality(Stored(m))
          /\ purged' = purged
      BY <2>3, PushFacts
    <3>4. rows' = rows
      BY <3>2, <3>3
    <3>5. lastSeq' = lastSeq
      BY <3>1, <3>3 DEF TypeOK
    <3> QED BY <3>3, <3>4, <3>5
  <2>4. CASE rows' = {} /\ lastSeq' = 0 /\ purged'
    <3>1. Log' = << >>
      <4>1. 1 .. lastSeq' = {}
        BY <2>4
      <4> QED BY <4>1 DEF Log
    <3>2. CASE ~purged
      BY <2>4, <3>1, <3>2 DEF Journal!Next, Journal!Close, TypeOK
    <3>3. CASE purged
      <4>1. rows = {}
        BY <3>3 DEF PurgedStaysEmpty
      <4>2. 1 .. lastSeq = {}
        BY <4>1 DEF NoGaps
      <4>3. Log = << >>
        BY <4>2 DEF Log
      <4> QED BY <2>4, <3>1, <3>3, <4>3 DEF TypeOK
    <3> QED BY <3>2, <3>3
  <2> QED BY <2>1, <2>2, <2>3, <2>4, OnlyPushAddsRows
<1>3. Spec => []IInv
  BY TypeCorrect, SeqsDistinct, DevicesInOrder, TombstoneHolds, Gapless, PTL
<1> QED BY <1>1, <1>2, <1>3, PTL DEF Spec, ImplementsJournal, Journal!Spec
=============================================================================
