--------------------------- MODULE AccountLogProofs ---------------------------
(***************************************************************************)
(* What AccountLog's runs show on a small instance, proved for every set   *)
(* of devices, positions and bodies.  The argument has three parts: how    *)
(* Rank numbers a finite batch, what a push may still store (Fresh), and   *)
(* what it stores (Landed).  Every action but Push leaves the rows alone   *)
(* or empties them.                                                        *)
(***************************************************************************)
EXTENDS AccountLog, FiniteSetTheorems, TLAPS

\* What a push stores, whoever it is from.
Stored(m) == IF purged \/ Disordered(m.batch) THEN {} ELSE Fresh(m.device, m.batch)

-----------------------------------------------------------------------------
(* Ranks. *)

\* Rank numbers the entries of a finite batch from 1 up, by their positions.
LEMMA RankType ==
  ASSUME NEW B \in SUBSET Entry, IsFiniteSet(B), NEW e \in B
  PROVE  /\ Cardinality(B) \in Nat
         /\ Rank(e, B) \in Nat
         /\ 1 <= Rank(e, B)
         /\ Rank(e, B) <= Cardinality(B)
<1> DEFINE upTo == {f \in B : f.pos <= e.pos}
<1>1. upTo \in SUBSET B
  OBVIOUS
<1>2. IsFiniteSet(upTo) /\ Cardinality(upTo) <= Cardinality(B)
  BY <1>1, FS_Subset
<1>3. Cardinality(upTo) \in Nat /\ Cardinality(B) \in Nat
  BY <1>2, FS_CardinalityType
<1>4. e.pos \in Nat
  BY PositionsAssumption DEF Entry
<1>5. e \in upTo
  BY <1>4
<1>6. Cardinality(upTo) # 0
  BY <1>2, <1>5, FS_EmptySet
<1>7. Rank(e, B) = Cardinality(upTo)
  BY DEF Rank
<1> QED BY <1>2, <1>3, <1>6, <1>7

\* An entry at a greater position has a greater rank: the seqs of a batch are in its order.
LEMMA RankIncreases ==
  ASSUME NEW B \in SUBSET Entry, IsFiniteSet(B), NEW e \in B, NEW f \in B, e.pos < f.pos
  PROVE  Rank(e, B) < Rank(f, B)
<1> DEFINE upToE == {g \in B : g.pos <= e.pos}
           upToF == {g \in B : g.pos <= f.pos}
<1>1. \A g \in B : g.pos \in Nat
  BY PositionsAssumption DEF Entry
<1>2. upToE \in SUBSET upToF
  BY <1>1
<1>3. f \in upToF /\ f \notin upToE
  BY <1>1
<1>4. IsFiniteSet(upToF)
  BY FS_Subset, upToF \in SUBSET B
<1>5. /\ IsFiniteSet(upToE)
      /\ Cardinality(upToE) <= Cardinality(upToF)
      /\ Cardinality(upToE) # Cardinality(upToF)
  BY <1>2, <1>3, <1>4, FS_Subset
<1>6. Cardinality(upToE) \in Nat /\ Cardinality(upToF) \in Nat
  BY <1>4, <1>5, FS_CardinalityType
<1>7. Rank(e, B) = Cardinality(upToE) /\ Rank(f, B) = Cardinality(upToF)
  BY DEF Rank
<1> QED BY <1>5, <1>6, <1>7

-----------------------------------------------------------------------------
(* What a push stores. *)

\* The entries of a push that are not stored yet are past every row of its device.
LEMMA FreshIsPast ==
  ASSUME TypeOK, NEW m \in verified, NEW e \in Fresh(m.device, m.batch)
  PROVE  \A r \in rows : r.device = m.device => r.pos < e.pos
<1>1. e \in m.batch /\ m.batch \subseteq Entry
  BY DEF Fresh, Accepted, TypeOK, Request
<1>2. e.pos \in Nat /\ \A r \in rows : r.pos \in Nat
  BY <1>1, PositionsAssumption DEF TypeOK, Entry, Row
<1>3. ~Refused(m.device, e)
  BY <1>1, <1>2 DEF Fresh, Accepted
<1>4. At(m.device, e.pos) = {}
  BY DEF Fresh
<1> QED BY <1>2, <1>3, <1>4 DEF Refused, OutOfOrder

\* What a push stores is a finite part of its batch, one entry per position.
LEMMA StoredFacts ==
  ASSUME TypeOK, NEW m \in verified
  PROVE  /\ m.device \in Devices
         /\ Stored(m) \in SUBSET Entry
         /\ IsFiniteSet(Stored(m))
         /\ ~Disordered(Stored(m))
         /\ Cardinality(Stored(m)) \in Nat
         /\ \A e \in Stored(m) : \A r \in rows : r.device = m.device => r.pos < e.pos
<1>1. m.device \in Devices /\ m.batch \in SUBSET Entry /\ IsFiniteSet(m.batch)
  BY DEF TypeOK, Request
<1>2. Stored(m) \in SUBSET m.batch
  BY DEF Stored, Fresh, Accepted
<1>3. IsFiniteSet(Stored(m)) /\ Cardinality(Stored(m)) \in Nat
  BY <1>1, <1>2, FS_Subset, FS_CardinalityType
<1>4. ~Disordered(Stored(m))
  BY <1>2 DEF Stored, Disordered
<1>5. \A e \in Stored(m) : \A r \in rows : r.device = m.device => r.pos < e.pos
  BY FreshIsPast DEF Stored
<1> QED BY <1>1, <1>2, <1>3, <1>4, <1>5

\* It lands past the counter, each entry at a seq of its own, in the order of its positions.
LEMMA LandedFacts ==
  ASSUME lastSeq \in Nat, NEW d \in Devices, NEW B \in SUBSET Entry,
         IsFiniteSet(B), ~Disordered(B)
  PROVE  /\ Landed(d, B) \in SUBSET Row
         /\ IsFiniteSet(Landed(d, B))
         /\ \A r \in Landed(d, B) : /\ r.device = d
                                    /\ r.seq > lastSeq
                                    /\ r.seq <= lastSeq + Cardinality(B)
                                    /\ \E e \in B : r.pos = e.pos
         /\ \A r, s \in Landed(d, B) : r.seq = s.seq => r = s
         /\ \A r, s \in Landed(d, B) : r.seq < s.seq <=> r.pos < s.pos
<1> DEFINE row(e) == [seq |-> lastSeq + Rank(e, B), device |-> d, pos |-> e.pos,
                      event |-> e.event]
           land == [e \in B |-> row(e)]
<1>1. Landed(d, B) = {row(e) : e \in B}
  BY DEF Landed
<1>2. \A e \in B : /\ Rank(e, B) \in Nat /\ 1 <= Rank(e, B)
                   /\ Rank(e, B) <= Cardinality(B) /\ Cardinality(B) \in Nat
  BY RankType
<1>3. \A e \in B : e.pos \in Positions /\ e.pos \in Nat /\ e.event \in Bodies
  BY PositionsAssumption DEF Entry
<1>4. Landed(d, B) \in SUBSET Row
  BY <1>1, <1>2, <1>3 DEF Row
<1>5. IsFiniteSet(Landed(d, B))
  <2>1. land \in Surjection(B, Landed(d, B))
    BY <1>1 DEF Surjection
  <2> QED BY <2>1, FS_Surjection
<1>6. \A r \in Landed(d, B) : /\ r.device = d
                              /\ r.seq > lastSeq
                              /\ r.seq <= lastSeq + Cardinality(B)
                              /\ \E e \in B : r.pos = e.pos
  BY <1>1, <1>2
<1>7. \A e, f \in B : /\ e.pos < f.pos => Rank(e, B) < Rank(f, B)
                      /\ e.pos = f.pos => e = f
  BY RankIncreases DEF Disordered
<1>8. \A r, s \in Landed(d, B) : /\ r.seq = s.seq => r = s
                                 /\ r.seq < s.seq <=> r.pos < s.pos
  <2> SUFFICES ASSUME NEW e \in B, NEW f \in B
               PROVE  /\ Rank(e, B) = Rank(f, B) => e = f
                      /\ Rank(e, B) < Rank(f, B) <=> e.pos < f.pos
    BY <1>1, <1>2
  <2>1. e.pos < f.pos \/ e.pos = f.pos \/ f.pos < e.pos
    BY <1>3
  <2> QED BY <2>1, <1>2, <1>3, <1>7
<1> QED BY <1>4, <1>5, <1>6, <1>8

\* What one push does to the log, in terms of what it stores.
LEMMA PushFacts ==
  ASSUME TypeOK, NEW m \in verified, Push(m)
  PROVE  /\ rows' = rows \union Landed(m.device, Stored(m))
         /\ lastSeq' = lastSeq + Cardinality(Stored(m))
         /\ verified' \subseteq verified
         /\ UNCHANGED <<deleting, purged, minted, valid>>
BY DEF Push, Stored

-----------------------------------------------------------------------------
(* The invariants.  TypeOK and PurgedStaysEmpty are inductive alone; DeviceOrder needs both that  *)
(* seqs are distinct and what FreshIsPast says of the positions a push may still store.           *)

LEMMA InitTypes ==
  ASSUME Init
  PROVE  TypeOK
<1>1. IsFiniteSet(rows)
  BY FS_EmptySet DEF Init
<1>2. lastSeq \in Nat
  BY DEF Init
<1>3. deleting \in BOOLEAN /\ purged \in BOOLEAN
  BY Zenon DEF Init
<1> QED BY <1>1, <1>2, <1>3 DEF Init, TypeOK

\* A step keeps the types: what a push stores are rows, finitely many.
LEMMA StepTypes ==
  ASSUME TypeOK, [Next]_cloudVars
  PROVE  TypeOK'
<1>1. ASSUME NEW d \in Devices, NEW batch \in SUBSET Entry, IsFiniteSet(batch),
             Verify([device |-> d, batch |-> batch])
      PROVE  TypeOK'
  <2> DEFINE m == [device |-> d, batch |-> batch]
  <2>1. m \in Request /\ IsFiniteSet(m.batch)
    BY <1>1 DEF Request
  <2>2. verified' = verified \union {m}
    BY <1>1 DEF Verify
  <2>3. verified' \subseteq Request /\ \A q \in verified' : IsFiniteSet(q.batch)
    BY <2>1, <2>2 DEF TypeOK
  <2> QED BY <1>1, <2>3 DEF TypeOK, Verify
<1>2. ASSUME NEW m \in verified, Push(m)
      PROVE  TypeOK'
  <2>1. /\ rows' = rows \union Landed(m.device, Stored(m))
        /\ lastSeq' = lastSeq + Cardinality(Stored(m))
        /\ verified' \subseteq verified
        /\ UNCHANGED <<deleting, purged, minted, valid>>
    BY <1>2, PushFacts
  <2>2. /\ Landed(m.device, Stored(m)) \in SUBSET Row
        /\ IsFiniteSet(Landed(m.device, Stored(m)))
        /\ Cardinality(Stored(m)) \in Nat
    BY StoredFacts, LandedFacts DEF TypeOK
  <2>3. IsFiniteSet(rows')
    BY <2>1, <2>2, FS_Union DEF TypeOK
  <2> QED BY <2>1, <2>2, <2>3 DEF TypeOK
<1>3. ASSUME NEW d \in Devices, SignIn(d) \/ Revoke(d)
      PROVE  TypeOK'
  BY <1>3 DEF SignIn, Revoke, TypeOK
<1>4. CASE DeleteDevices
  BY <1>4 DEF DeleteDevices, TypeOK
<1>5. CASE Purge
  BY <1>5, FS_EmptySet DEF Purge, TypeOK
<1>6. CASE UNCHANGED cloudVars
  BY <1>6 DEF cloudVars, TypeOK
<1> QED BY <1>1, <1>2, <1>3, <1>4, <1>5, <1>6 DEF Next

\* Every reachable state is of the types declared.
THEOREM TypeCorrect == Spec => []TypeOK
<1>1. Init => TypeOK
  BY InitTypes
<1>2. TypeOK /\ [Next]_cloudVars => TypeOK'
  BY StepTypes
<1> QED BY <1>1, <1>2, PTL DEF Spec

\* A step that is no push leaves the rows alone or empties the table.
LEMMA OnlyPushAddsRows ==
  ASSUME [Next]_cloudVars
  PROVE  \/ \E m \in verified : Push(m)
         \/ UNCHANGED <<rows, lastSeq, purged>>
         \/ rows' = {} /\ lastSeq' = 0 /\ purged'
BY DEF Next, Verify, SignIn, Revoke, DeleteDevices, Purge, cloudVars

\* No two rows share a seq, and none is past the counter.
THEOREM SeqsDistinct == Spec => []SeqsAreDistinct
<1>1. Init => SeqsAreDistinct
  BY DEF Init, SeqsAreDistinct
<1>2. TypeOK /\ SeqsAreDistinct /\ [Next]_cloudVars => SeqsAreDistinct'
  <2> SUFFICES ASSUME TypeOK, SeqsAreDistinct, [Next]_cloudVars
               PROVE  SeqsAreDistinct'
    OBVIOUS
  <2>1. ASSUME NEW m \in verified, Push(m)
        PROVE  SeqsAreDistinct'
    <3> DEFINE B == Stored(m)
               new == Landed(m.device, B)
    <3>1. rows' = rows \union new /\ lastSeq' = lastSeq + Cardinality(B)
      BY <2>1, PushFacts
    <3>2. /\ new \in SUBSET Row
          /\ \A r \in new : r.seq > lastSeq /\ r.seq <= lastSeq + Cardinality(B)
          /\ \A r, s \in new : r.seq = s.seq => r = s
          /\ Cardinality(B) \in Nat
      BY StoredFacts, LandedFacts DEF TypeOK
    <3>3. \A r \in rows : r.seq \in Nat /\ r.seq <= lastSeq
      BY DEF TypeOK, Row, SeqsAreDistinct
    <3>4. \A r \in new : r.seq \in Nat
      BY <3>2 DEF Row
    <3>5. lastSeq \in Nat
      BY DEF TypeOK
    <3> HIDE DEF B, new
    <3>6. \A r \in rows' : r.seq <= lastSeq'
      BY <3>1, <3>2, <3>3, <3>4, <3>5
    <3>7. ASSUME NEW r \in rows', NEW s \in rows', r.seq = s.seq
          PROVE  r = s
      <4>1. CASE r \in rows /\ s \in rows
        BY <3>7, <4>1 DEF SeqsAreDistinct
      <4>2. CASE r \in new /\ s \in new
        BY <3>2, <3>7, <4>2
      <4>3. CASE r \in new /\ s \in rows
        BY <3>2, <3>3, <3>4, <3>5, <3>7, <4>3
      <4>4. CASE r \in rows /\ s \in new
        BY <3>2, <3>3, <3>4, <3>5, <3>7, <4>4
      <4> QED BY <3>1, <4>1, <4>2, <4>3, <4>4
    <3> QED BY <3>6, <3>7 DEF SeqsAreDistinct
  <2>2. CASE UNCHANGED <<rows, lastSeq, purged>>
    BY <2>2 DEF SeqsAreDistinct
  <2>3. CASE rows' = {}
    BY <2>3 DEF SeqsAreDistinct
  <2> QED BY <2>1, <2>2, <2>3, OnlyPushAddsRows
<1> QED BY <1>1, <1>2, TypeCorrect, PTL DEF Spec

\* Each device's rows stand in the order of its positions, one per position.
THEOREM DevicesInOrder == Spec => []DeviceOrder
<1>1. Init => DeviceOrder
  BY DEF Init, DeviceOrder
<1>2. TypeOK /\ SeqsAreDistinct /\ DeviceOrder /\ [Next]_cloudVars => DeviceOrder'
  <2> SUFFICES ASSUME TypeOK, SeqsAreDistinct, DeviceOrder, [Next]_cloudVars
               PROVE  DeviceOrder'
    OBVIOUS
  <2>1. ASSUME NEW m \in verified, Push(m)
        PROVE  DeviceOrder'
    <3> DEFINE new == Landed(m.device, Stored(m))
    <3>1. rows' = rows \union new
      BY <2>1, PushFacts
    <3>2. /\ new \in SUBSET Row
          /\ \A r \in new : /\ r.device = m.device
                             /\ r.seq > lastSeq
                             /\ \E e \in Stored(m) : r.pos = e.pos
          /\ \A r, s \in new : r.seq < s.seq <=> r.pos < s.pos
      BY StoredFacts, LandedFacts DEF TypeOK
    <3>3. \A r \in rows \union new : r.seq \in Nat /\ r.pos \in Nat
      BY <3>2, PositionsAssumption DEF TypeOK, Row
    <3>4. ASSUME NEW r \in rows, NEW s \in new, r.device = s.device
          PROVE  r.seq < s.seq /\ r.pos < s.pos
      <4>1. r.seq <= lastSeq /\ lastSeq \in Nat
        BY DEF SeqsAreDistinct, TypeOK
      <4>2. PICK e \in Stored(m) : s.pos = e.pos
        BY <3>2
      <4>3. r.pos < e.pos
        BY <3>2, <3>4, StoredFacts
      <4> QED BY <3>2, <3>3, <4>1, <4>2, <4>3
    <3> HIDE DEF new
    <3>5. ASSUME NEW r \in rows', NEW s \in rows', r.device = s.device
          PROVE  r.seq < s.seq <=> r.pos < s.pos
      <4>1. CASE r \in rows /\ s \in rows
        BY <3>5, <4>1 DEF DeviceOrder
      <4>2. CASE r \in new /\ s \in new
        BY <3>2, <4>2
      <4>3. CASE r \in rows /\ s \in new
        BY <3>4, <3>5, <4>3
      <4>4. CASE r \in new /\ s \in rows
        BY <3>3, <3>4, <3>5, <4>4
      <4> QED BY <3>1, <4>1, <4>2, <4>3, <4>4
    <3> QED BY <3>5 DEF DeviceOrder
  <2>2. CASE UNCHANGED <<rows, lastSeq, purged>>
    BY <2>2 DEF DeviceOrder
  <2>3. CASE rows' = {}
    BY <2>3 DEF DeviceOrder
  <2> QED BY <2>1, <2>2, <2>3, OnlyPushAddsRows
<1> QED BY <1>1, <1>2, TypeCorrect, SeqsDistinct, PTL DEF Spec

\* Past the tombstone there are no rows, though a push verified before it may still run.
THEOREM TombstoneHolds == Spec => []PurgedStaysEmpty
<1>1. Init => PurgedStaysEmpty
  BY DEF Init, PurgedStaysEmpty
<1>2. PurgedStaysEmpty /\ [Next]_cloudVars => PurgedStaysEmpty'
  <2> SUFFICES ASSUME PurgedStaysEmpty, [Next]_cloudVars
               PROVE  PurgedStaysEmpty'
    OBVIOUS
  <2>1. ASSUME NEW m \in verified, Push(m)
        PROVE  PurgedStaysEmpty'
    BY <2>1 DEF Push, Landed, PurgedStaysEmpty
  <2>2. CASE UNCHANGED <<rows, lastSeq, purged>>
    BY <2>2 DEF PurgedStaysEmpty
  <2>3. CASE rows' = {}
    BY <2>3 DEF PurgedStaysEmpty
  <2> QED BY <2>1, <2>2, <2>3, OnlyPushAddsRows
<1> QED BY <1>1, <1>2, PTL DEF Spec

\* Nothing stored is rewritten, and nothing lands behind a cursor that has seen the log's end:
\* until the account is deleted a step only adds rows, each past every row before it.
OnlyAppended ==
  [][~purged' => /\ rows \subseteq rows'
                 /\ \A r \in rows' \ rows : r.seq > lastSeq]_cloudVars

\* Until the account is deleted, a step only adds rows, each past the counter (thread-sync-do.ts,
\* push).  With that the journal is appended to and never rewritten: see AccountLogJournalProofs.
THEOREM LogOnlyGrows == Spec => OnlyAppended
<1> DEFINE Grows == ~purged' => /\ rows \subseteq rows'
                                /\ \A r \in rows' \ rows : r.seq > lastSeq
<1>1. TypeOK /\ [Next]_cloudVars => [Grows]_cloudVars
  <2> SUFFICES ASSUME TypeOK, [Next]_cloudVars
               PROVE  Grows
    OBVIOUS
  <2>1. ASSUME NEW m \in verified, Push(m)
        PROVE  Grows
    <3>1. rows' = rows \union Landed(m.device, Stored(m))
      BY <2>1, PushFacts
    <3>2. \A r \in Landed(m.device, Stored(m)) : r.seq > lastSeq
      BY StoredFacts, LandedFacts DEF TypeOK
    <3> QED BY <3>1, <3>2
  <2>2. CASE UNCHANGED <<rows, lastSeq, purged>>
    BY <2>2
  <2>3. CASE purged'
    BY <2>3
  <2> QED BY <2>1, <2>2, <2>3, OnlyPushAddsRows
<1> QED BY <1>1, TypeCorrect, PTL DEF Spec, OnlyAppended

\* When an entry of a push is refused, the push had nothing to store: its fresh entries are past
\* every row of the device, and the entry that refuses is at a row's position or behind one.
THEOREM RefusalIsWhole == Spec => []RefusedPushStoresNothing
<1>1. TypeOK => RefusedPushStoresNothing
  <2> SUFFICES ASSUME TypeOK, NEW m \in verified,
                      NEW e \in m.batch, Refused(m.device, e),
                      NEW f \in Fresh(m.device, m.batch)
               PROVE  FALSE
    BY DEF RefusedPushStoresNothing
  <2>1. f \in m.batch /\ f.pos < e.pos
    BY DEF Fresh, Accepted
  <2>2. f.pos \in Nat /\ e.pos \in Nat /\ \A r \in rows : r.pos \in Nat
    BY <2>1, PositionsAssumption DEF TypeOK, Request, Entry, Row
  <2>3. PICK r \in rows : r.device = m.device /\ e.pos <= r.pos
    BY <2>2 DEF Refused, Conflicts, OutOfOrder, At
  <2>4. r.pos < f.pos
    BY <2>3, FreshIsPast
  <2> QED BY <2>1, <2>2, <2>3, <2>4
<1> QED BY <1>1, TypeCorrect, PTL
=============================================================================
