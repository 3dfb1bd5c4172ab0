-------------------------- MODULE ThreadSyncProofs --------------------------
(***************************************************************************)
(* What the run of ThreadSync shows for two installs and two events,       *)
(* proved for any number of installs, builds, devices and events and any   *)
(* bounds of a window and a page: that the installs use the account's log  *)
(* as AccountLog lets a client use it, that no table holds an event twice, *)
(* that the log holds only what was queued, and, where every credential is *)
(* kept, that a position is issued once, that the log never refuses what   *)
(* an install pushes, that a status counts what of its events is lost,     *)
(* that a cursor passes no row an install still wants, and that what       *)
(* another device wrote lands in the order it wrote it.                    *)
(***************************************************************************)
EXTENDS ThreadSync, FiniteSetTheorems, TLAPS

Log == INSTANCE AccountLogProofs
         WITH Devices <- DeviceIds, Positions <- 1 .. MaxEvents, Bodies <- Event

\* The two instances of the log's module say the same of finite sets,
LEMMA SameSets ==
  /\ \A S : Cloud!IsFiniteSet(S) <=> IsFiniteSet(S)
  /\ \A S : Cloud!Cardinality(S) = Cardinality(S)
  /\ \A S : Log!IsFiniteSet(S) <=> IsFiniteSet(S)
  /\ \A S : Log!Cardinality(S) = Cardinality(S)
<1>1. ASSUME NEW S
      PROVE  Cloud!IsFiniteSet(S) <=> IsFiniteSet(S)
  BY DEF Cloud!IsFiniteSet, IsFiniteSet
<1>2. ASSUME NEW S
      PROVE  Log!IsFiniteSet(S) <=> IsFiniteSet(S)
  BY DEF Log!IsFiniteSet, IsFiniteSet
<1>3. ASSUME NEW S
      PROVE  Cloud!Cardinality(S) = Cardinality(S)
  BY DEF Cloud!Cardinality, Cardinality
<1>4. ASSUME NEW S
      PROVE  Log!Cardinality(S) = Cardinality(S)
  BY DEF Log!Cardinality, Cardinality
<1>. QED BY <1>1, <1>2, <1>3, <1>4

\* of types,
LEMMA SameTypes ==
  /\ Log!TypeOK <=> Cloud!TypeOK
  /\ Log!TypeOK' <=> Cloud!TypeOK'
<1>1. Log!TypeOK <=> Cloud!TypeOK
  BY SameSets DEF Log!TypeOK, Cloud!TypeOK, Log!Row, Cloud!Row, Log!Request, Cloud!Request, Log!Entry, Cloud!Entry
<1>2. (Log!TypeOK <=> Cloud!TypeOK)'
  BY SameSets DEF Log!TypeOK, Cloud!TypeOK, Log!Row, Cloud!Row, Log!Request, Cloud!Request, Log!Entry, Cloud!Entry
<1>. QED BY <1>1, <1>2

\* of a push,
LEMMA SamePush ==
  ASSUME NEW m
  PROVE Log!Push(m) <=> Cloud!Push(m)
<1>1. \A d, p : Log!At(d, p) = Cloud!At(d, p)
  BY DEF Log!At, Cloud!At
<1>2. \A d, e : Log!Refused(d, e) <=> Cloud!Refused(d, e)
  BY <1>1 DEF Log!Refused, Cloud!Refused, Log!Conflicts, Cloud!Conflicts, Log!OutOfOrder, Cloud!OutOfOrder
<1>3. \A d, b : Log!Fresh(d, b) = Cloud!Fresh(d, b)
  BY <1>1, <1>2 DEF Log!Fresh, Cloud!Fresh, Log!Accepted, Cloud!Accepted
<1>4. \A b : Log!Disordered(b) <=> Cloud!Disordered(b)
  BY DEF Log!Disordered, Cloud!Disordered
<1>5. \A d, b : Log!Landed(d, b) = Cloud!Landed(d, b)
  BY SameSets DEF Log!Landed, Cloud!Landed, Log!Rank, Cloud!Rank
<1>. QED BY <1>3, <1>4, <1>5, SameSets DEF Log!Push, Cloud!Push

\* and of a step,
LEMMA SameStep ==
  ASSUME [Cloud!Next]_cloudVars
  PROVE  [Log!Next]_(Log!cloudVars)
<1>1. \A d : (Log!SignIn(d) <=> Cloud!SignIn(d)) /\ (Log!Revoke(d) <=> Cloud!Revoke(d))
  BY DEF Log!SignIn, Cloud!SignIn, Log!Revoke, Cloud!Revoke
<1>2. \A m : Log!Verify(m) <=> Cloud!Verify(m)
  BY SameSets DEF Log!Verify, Cloud!Verify
<1>3. (Log!DeleteDevices <=> Cloud!DeleteDevices) /\ (Log!Purge <=> Cloud!Purge)
  BY DEF Log!DeleteDevices, Cloud!DeleteDevices, Log!Purge, Cloud!Purge
<1>. QED BY <1>1, <1>2, <1>3, SamePush, SameSets
     DEF Log!Next, Cloud!Next, Log!cloudVars, cloudVars, Log!Entry, Cloud!Entry

\* so that what is proved of any log holds of this one.
LEMMA CloudStepTypes ==
  ASSUME Cloud!TypeOK, [Cloud!Next]_cloudVars
  PROVE  Cloud!TypeOK'
<1>1. Log!TypeOK
  BY SameTypes
<1>2. [Log!Next]_(Log!cloudVars)
  BY SameStep
<1>3. Log!PositionsAssumption /\ Log!LimitsAssumption
  BY ThreadSyncAssumption DEF Log!PositionsAssumption, Log!LimitsAssumption
<1>4. Log!TypeOK'
  BY <1>1, <1>2, <1>3, Log!StepTypes
<1>. QED BY <1>4, SameTypes

-----------------------------------------------------------------------------
(* The fields of a pass. *)

PassOf(pc, of, device, own, round, batch, through, rejected, answer, page, more) ==
  [pc |-> pc, session |-> of, device |-> device, own |-> own, round |-> round,
   batch |-> batch, through |-> through, rejected |-> rejected, answer |-> answer,
   page |-> page, more |-> more]

\* No pass, field by field.
LEMMA NoPassIs == NoPass = PassOf("idle", 0, 0, {}, 0, {}, 0, 0, NoAnswer, {}, FALSE)
BY DEF NoPass, PassOf

\* A pass of typed fields is typed.
LEMMA PassOfType ==
  ASSUME NEW pc \in {"idle", "push", "pushing", "pull", "applying"}, NEW of \in 0 .. 2,
         NEW device \in DeviceIds \union {0}, NEW own \in SUBSET DeviceIds,
         NEW round \in 0 .. MaxRounds, NEW batch \in SUBSET Cloud!Entry,
         NEW through \in 0 .. MaxEvents, NEW rejected \in Nat, NEW answer \in Answer,
         NEW page \in SUBSET Cloud!Row, NEW more \in BOOLEAN
  PROVE  PassOf(pc, of, device, own, round, batch, through, rejected, answer, page, more) \in Pass
BY DEF PassOf, Pass

LEMMA NoAnswerType == NoAnswer \in Answer
BY ThreadSyncAssumption DEF NoAnswer, Answer

LEMMA NoPassType == NoPass \in Pass
BY NoAnswerType, ThreadSyncAssumption DEF NoPass, Pass

\* A pass is its fields.
LEMMA PassFields ==
  ASSUME NEW i \in Installs, pass[i] \in Pass
  PROVE  /\ pass[i].pc \in {"idle", "push", "pushing", "pull", "applying"}
         /\ pass[i].session \in 0 .. 2 /\ pass[i].device \in DeviceIds \union {0}
         /\ pass[i].own \in SUBSET DeviceIds /\ pass[i].round \in 0 .. MaxRounds
         /\ pass[i].batch \in SUBSET Cloud!Entry /\ pass[i].through \in 0 .. MaxEvents
         /\ pass[i].rejected \in Nat /\ pass[i].answer \in Answer
         /\ pass[i].page \in SUBSET Cloud!Row /\ pass[i].more \in BOOLEAN
         /\ pass[i] = PassOf(pass[i].pc, pass[i].session, pass[i].device, pass[i].own, pass[i].round, pass[i].batch, pass[i].through,
                            pass[i].rejected, pass[i].answer, pass[i].page, pass[i].more)
BY DEF Pass, PassOf

\* Going on after a step, field by field.
LEMMA CarryOnIs ==
  ASSUME NEW i, NEW pc, NEW round
  PROVE  CarryOn(i, pc, round) =
           PassOf(pc, pass[i].session, pass[i].device, pass[i].own, round, {}, 0, 0, NoAnswer, {}, FALSE)
<1>1. ASSUME NEW p, p = CarryOn(i, pc, round)
      PROVE  p = PassOf(pc, pass[i].session, pass[i].device, pass[i].own, round,
                        {}, 0, 0, NoAnswer, {}, FALSE)
  BY <1>1 DEF CarryOn, NoPass, PassOf
<1>. QED BY <1>1

LEMMA CarryOnType ==
  ASSUME NEW i \in Installs, pass[i] \in Pass,
         NEW pc \in {"push", "pull"}, NEW round \in 0 .. MaxRounds
  PROVE  CarryOn(i, pc, round) \in Pass
<1>1. pass[i].session \in 0 .. 2 /\ pass[i].device \in DeviceIds \union {0} /\ pass[i].own \in SUBSET DeviceIds
  BY DEF Pass
<1>2. PassOf(pc, pass[i].session, pass[i].device, pass[i].own, round, {}, 0, 0, NoAnswer, {}, FALSE)
        \in Pass
  BY <1>1, NoAnswerType, ThreadSyncAssumption DEF PassOf, Pass
<1>. QED BY <1>2, CarryOnIs

\* The pass a step begins, sends or fills.
LEMMA BegunIs ==
  ASSUME NEW of, NEW device, NEW own, NEW p,
         p = [NoPass EXCEPT !.pc = "push", !.session = of, !.device = device, !.own = own]
  PROVE  p = PassOf("push", of, device, own, 0, {}, 0, 0, NoAnswer, {}, FALSE)
BY DEF NoPass, PassOf

\* What a push, a page and an answer write into a pass.
LEMMA SentIs ==
  ASSUME NEW q \in Pass, NEW batch, NEW through, NEW rejected, NEW p,
         p = [q EXCEPT !.pc = "pushing", !.batch = batch, !.through = through, !.rejected = rejected]
  PROVE  p = PassOf("pushing", q.session, q.device, q.own, q.round, batch, through, rejected,
                    q.answer, q.page, q.more)
BY DEF Pass, PassOf

LEMMA PulledIs ==
  ASSUME NEW q \in Pass, NEW page, NEW more, NEW p,
         p = [q EXCEPT !.pc = "applying", !.page = page, !.more = more]
  PROVE  p = PassOf("applying", q.session, q.device, q.own, q.round, q.batch, q.through, q.rejected,
                    q.answer, page, more)
BY DEF Pass, PassOf

LEMMA AnsweredIs ==
  ASSUME NEW q \in Pass, NEW answer, NEW p, p = [q EXCEPT !.answer = answer]
  PROVE  p = PassOf(q.pc, q.session, q.device, q.own, q.round, q.batch, q.through, q.rejected,
                    answer, q.page, q.more)
BY DEF Pass, PassOf

-----------------------------------------------------------------------------
(* Types.  The bounds of TypeOK rest on counts: an install numbers its events by the rows of its  *)
(* table that are its own, and its queue never runs ahead of them.                                *)

OwnRows(i) == {r \in events[i] : r.device = 0}

QueueTyped ==
  /\ outbox \in [Installs -> SUBSET Cloud!Entry]
  /\ lastDeviceSeq \in [Installs -> 0 .. MaxEvents]
  /\ dropped \in [Installs -> Nat]
  /\ issued \subseteq [device : DeviceIds, pos : 1 .. MaxEvents, event : Event]
  /\ \A i \in Installs : IsFiniteSet(outbox[i])

TableTyped ==
  /\ events \in [Installs -> SUBSET LocalRow]
  /\ \A i \in Installs : IsFiniteSet(events[i])

CursorTyped ==
  /\ cursor \in [Installs -> Nat]
  /\ skipped \in [Installs -> [seq : Nat, build : Builds \union {0}]]

SignTyped ==
  /\ ownDevices \in [Installs -> SUBSET DeviceIds]
  /\ credential \in [Installs -> DeviceIds \union {0}]
  /\ build \in [Installs -> Builds]
  /\ session \in [Installs -> Session]
  /\ \A i \in Installs : Live(i) => session[i].device \in DeviceIds

PassTyped ==
  /\ pass \in [Installs -> Pass]
  /\ \A i \in Installs : IsFiniteSet(pass[i].page)
  /\ \A i \in Installs : pass[i].pc = "pushing" => pass[i].round < MaxRounds

Counted ==
  \A i \in Installs : /\ lastDeviceSeq[i] <= Cardinality(OwnRows(i))
                      /\ \A r \in OwnRows(i) : r.event.n <= Cardinality(OwnRows(i))

TInv ==
  /\ Cloud!TypeOK /\ QueueTyped /\ TableTyped /\ CursorTyped /\ SignTyped /\ PassTyped
  /\ accidents \in 0 .. MaxAccidents
  /\ Counted

CadenceTyped == cadence \in [Installs -> {"poll", "drain", "none"}]

LEMMA TInvTypes == TInv /\ CadenceTyped => TypeOK
BY DEF TInv, CadenceTyped, QueueTyped, TableTyped, CursorTyped, SignTyped, PassTyped, TypeOK

\* The types hold at first.
LEMMA TInvInit ==
  ASSUME Init
  PROVE  TInv
<1>1. Cloud!TypeOK
  <2>1. Log!Init
    BY DEF Init, Cloud!Init, Log!Init
  <2>2. Log!PositionsAssumption /\ Log!LimitsAssumption
    BY ThreadSyncAssumption DEF Log!PositionsAssumption, Log!LimitsAssumption
  <2>. QED BY <2>1, <2>2, Log!InitTypes, SameTypes
<1>2. QueueTyped
  BY ThreadSyncAssumption, FS_EmptySet DEF Init, QueueTyped
<1>3. TableTyped
  BY FS_EmptySet DEF Init, TableTyped
<1>4. CursorTyped
  BY DEF Init, CursorTyped, NothingSkipped
<1>5. SignTyped
  BY DEF Init, SignTyped, Session, Live
<1>6. PassTyped
  <2>1. NoPass.page = {} /\ NoPass.pc = "idle"
    BY DEF NoPass
  <2>. QED BY <2>1, NoPassType, FS_EmptySet DEF Init, PassTyped
<1>7. Counted
  <2>. SUFFICES ASSUME NEW i \in Installs
                PROVE  /\ lastDeviceSeq[i] <= Cardinality(OwnRows(i))
                       /\ \A r \in OwnRows(i) : r.event.n <= Cardinality(OwnRows(i))
    BY DEF Counted
  <2>1. OwnRows(i) = {} /\ lastDeviceSeq[i] = 0
    BY DEF Init, OwnRows
  <2>. QED BY <2>1, FS_EmptySet
<1>. QED BY <1>1, <1>2, <1>3, <1>4, <1>5, <1>6, <1>7, ThreadSyncAssumption DEF TInv, Init

\* A step keeps what it leaves alone.
LEMMA Kept ==
  ASSUME TInv
  PROVE  /\ UNCHANGED cloudVars => Cloud!TypeOK'
         /\ UNCHANGED queueVars => QueueTyped'
         /\ UNCHANGED events => TableTyped'
         /\ UNCHANGED <<cursor, skipped>> => CursorTyped'
         /\ UNCHANGED signVars => SignTyped'
         /\ UNCHANGED pass => PassTyped'
         /\ UNCHANGED <<events, lastDeviceSeq>> => Counted'
<1>1. UNCHANGED cloudVars => Cloud!TypeOK'
  BY CloudStepTypes DEF TInv
<1>2. UNCHANGED queueVars => QueueTyped'
  BY DEF TInv, queueVars, QueueTyped
<1>3. UNCHANGED events => TableTyped'
  BY DEF TInv, TableTyped
<1>4. UNCHANGED <<cursor, skipped>> => CursorTyped'
  BY DEF TInv, CursorTyped
<1>5. UNCHANGED signVars => SignTyped'
  BY DEF TInv, signVars, SignTyped, Live
<1>6. UNCHANGED pass => PassTyped'
  BY DEF TInv, PassTyped
<1>7. UNCHANGED <<events, lastDeviceSeq>> => Counted'
  BY DEF TInv, Counted, OwnRows
<1>. QED BY <1>1, <1>2, <1>3, <1>4, <1>5, <1>6, <1>7

\* Where a step writes the pass of one install.
LEMMA PassTo ==
  ASSUME TInv, NEW i \in Installs, NEW p \in Pass, IsFiniteSet(p.page),
         p.pc = "pushing" => p.round < MaxRounds,
         pass' = [pass EXCEPT ![i] = p]
  PROVE  PassTyped'
BY DEF TInv, PassTyped

LEMMA ToNoPass ==
  ASSUME TInv, NEW i \in Installs, pass' = [pass EXCEPT ![i] = NoPass]
  PROVE  PassTyped'
<1>1. IsFiniteSet(NoPass.page) /\ NoPass.pc = "idle"
  BY FS_EmptySet DEF NoPass
<1>. QED BY <1>1, NoPassType, PassTo

LEMMA ToCarryOn ==
  ASSUME TInv, NEW i \in Installs, NEW pc \in {"push", "pull"}, NEW round \in 0 .. MaxRounds,
         pass' = [pass EXCEPT ![i] = CarryOn(i, pc, round)]
  PROVE  PassTyped'
<1>1. CarryOn(i, pc, round) \in Pass
  BY CarryOnType DEF TInv, PassTyped
<1>2. IsFiniteSet(CarryOn(i, pc, round).page) /\ CarryOn(i, pc, round).pc = pc
  BY CarryOnIs, FS_EmptySet DEF PassOf
<1>. QED BY <1>1, <1>2, PassTo

\* A reset of the queue, a session opened and a window deleted keep the types of the queue.
LEMMA ResetTypes ==
  ASSUME TInv, NEW i \in Installs, Reset(i)
  PROVE  QueueTyped' /\ TableTyped' /\ CursorTyped' /\ Counted'
<1>1. QueueTyped'
  BY ThreadSyncAssumption, FS_EmptySet DEF Reset, TInv, QueueTyped
<1>2. TableTyped'
  BY DEF Reset, TInv, TableTyped
<1>3. CursorTyped'
  BY DEF Reset, TInv, CursorTyped, NothingSkipped
<1>4. Counted'
  <2>1. \A j \in Installs : OwnRows(j)' = OwnRows(j)
    BY DEF Reset, OwnRows
  <2>2. \A j \in Installs : Cardinality(OwnRows(j)) \in Nat
    <3>. SUFFICES ASSUME NEW j \in Installs
                  PROVE  Cardinality(OwnRows(j)) \in Nat
      OBVIOUS
    <3>. QED BY FS_Subset, FS_CardinalityType, OwnRows(j) \in SUBSET events[j] DEF TInv, TableTyped, OwnRows
  <2>. QED BY <2>1, <2>2 DEF Reset, TInv, Counted, QueueTyped
<1>. QED BY <1>1, <1>2, <1>3, <1>4

LEMMA OpenSessionTypes ==
  ASSUME TInv, NEW i \in Installs, NEW d \in DeviceIds, OpenSession(i, d),
         build' \in [Installs -> Builds], credential' \in [Installs -> DeviceIds \union {0}]
  PROVE  SignTyped'
<1>1. [kind |-> "live", id |-> NewId(i), device |-> d] \in Session
  BY DEF NewId, Session
<1>2. session' \in [Installs -> Session]
  BY <1>1 DEF OpenSession, TInv, SignTyped
<1>3. ownDevices' \in [Installs -> SUBSET DeviceIds]
  BY DEF OpenSession, TInv, SignTyped
<1>4. \A j \in Installs : session'[j] = IF j = i THEN [kind |-> "live", id |-> NewId(i), device |-> d]
                                                 ELSE session[j]
  BY DEF OpenSession, TInv, SignTyped
<1>. QED BY <1>2, <1>3, <1>4 DEF SignTyped, TInv, Live

LEMMA DeleteThroughTypes ==
  ASSUME TInv, NEW i \in Installs, NEW through, NEW lost \in Nat, DeleteThrough(i, through, lost)
  PROVE  QueueTyped'
<1>1. \A j \in Installs : outbox'[j] \in SUBSET outbox[j]
  BY DEF DeleteThrough, TInv, QueueTyped
<1>2. \A j \in Installs : IsFiniteSet(outbox'[j])
  BY <1>1, FS_Subset DEF TInv, QueueTyped
<1>3. outbox' \in [Installs -> SUBSET Cloud!Entry] /\ dropped' \in [Installs -> Nat]
  BY DEF DeleteThrough, TInv, QueueTyped
<1>. QED BY <1>2, <1>3 DEF DeleteThrough, TInv, QueueTyped

\* The own rows of a table can be counted, and the next one has a number.
LEMMA OwnRowsFinite ==
  ASSUME TInv, NEW i \in Installs
  PROVE  /\ IsFiniteSet(OwnRows(i)) /\ Cardinality(OwnRows(i)) \in Nat
         /\ Cardinality(events[i]) \in Nat
BY FS_Subset, FS_CardinalityType, OwnRows(i) \in SUBSET events[i] DEF TInv, TableTyped, OwnRows

LEMMA NextNumber ==
  ASSUME TInv, NEW i \in Installs, Written < MaxEvents
  PROVE  Cardinality(OwnRows(i)) + 1 \in 1 .. MaxEvents
<1> DEFINE Tables == {OwnRows(j) : j \in Installs}
<1>1. IsFiniteSet(Tables)
  <2> DEFINE table == [j \in Installs |-> OwnRows(j)]
  <2>1. table \in Surjection(Installs, Tables)
    BY DEF Surjection
  <2>. QED BY <2>1, FS_Surjection, ThreadSyncAssumption
<1>2. \A T \in Tables : IsFiniteSet(T)
  BY OwnRowsFinite
<1>3. IsFiniteSet(UNION Tables)
  BY <1>1, <1>2, FS_UNION
<1>4. OwnRows(i) \in SUBSET UNION Tables
  OBVIOUS
<1>5. Cardinality(OwnRows(i)) <= Cardinality(UNION Tables) /\ Cardinality(UNION Tables) \in Nat
  BY <1>3, <1>4, FS_Subset, FS_CardinalityType
<1>6. Written = Cardinality(UNION Tables)
  BY DEF Written, OwnRows
<1>. QED BY <1>5, <1>6, OwnRowsFinite, ThreadSyncAssumption

\* What one append adds.
Appended(i, e) ==
  events' = [events EXCEPT ![i] = @ \union
              {[seq |-> Cardinality(@) + 1, device |-> 0, pos |-> 0, event |-> e]}]

\* An append either queues its event too or, for an install not signed in, does not.
LEMMA AppendIs ==
  ASSUME NEW i \in Installs, Append(i)
  PROVE  \E e : /\ \E kind \in Kinds, needs \in {0} \union {f.n : f \in Held(i)} :
                       e = [by |-> i, n |-> Cardinality(OwnRows(i)) + 1, kind |-> kind, needs |-> needs]
               /\ Written < MaxEvents
               /\ Appended(i, e)
               /\ \/ /\ Live(i)
                     /\ outbox' = [outbox EXCEPT ![i] =
                                    @ \union {[pos |-> lastDeviceSeq[i] + 1, event |-> e]}]
                     /\ lastDeviceSeq' = [lastDeviceSeq EXCEPT ![i] = lastDeviceSeq[i] + 1]
                     /\ issued' = issued \union
                          {[device |-> session[i].device, pos |-> lastDeviceSeq[i] + 1, event |-> e]}
                  \/ ~Live(i) /\ UNCHANGED <<outbox, lastDeviceSeq, issued>>
               /\ UNCHANGED <<cloudVars, dropped, cursor, skipped, signVars, pass, accidents>>
<1>1. PICK kind \in Kinds, needs \in {0} \union {f.n : f \in Held(i)} :
        LET n == Cardinality(OwnRows(i)) + 1
            e == [by |-> i, n |-> n, kind |-> kind, needs |-> needs]
            q == [pos |-> NextPosition(i), event |-> e]
        IN  /\ Written < MaxEvents
            /\ events' = [events EXCEPT ![i] = @ \union
                 {[seq |-> Cardinality(@) + 1, device |-> 0, pos |-> 0, event |-> e]}]
            /\ \/ /\ Live(i)
                  /\ outbox' = [outbox EXCEPT ![i] = @ \union {q}]
                  /\ lastDeviceSeq' = [lastDeviceSeq EXCEPT ![i] = q.pos]
                  /\ issued' = issued \union
                       {[device |-> session[i].device, pos |-> q.pos, event |-> e]}
               \/ /\ ~Live(i)
                  /\ UNCHANGED <<outbox, lastDeviceSeq, issued>>
            /\ UNCHANGED <<cloudVars, dropped, cursor, skipped, signVars, pass, accidents>>
  BY Zenon DEF Append, OwnRows
<1> DEFINE e == [by |-> i, n |-> Cardinality(OwnRows(i)) + 1, kind |-> kind, needs |-> needs]
<1>2. \E k \in Kinds, m \in {0} \union {f.n : f \in Held(i)} :
        e = [by |-> i, n |-> Cardinality(OwnRows(i)) + 1, kind |-> k, needs |-> m]
  OBVIOUS
<1>3. Appended(i, e)
  BY <1>1 DEF Appended
<1>. WITNESS e
<1>. QED BY <1>1, <1>2, <1>3 DEF NextPosition

\* An append makes one event, numbered past the install's own rows, and one own row of it.
Appends(i, e, row) ==
  /\ e.by = i /\ e.n = Cardinality(OwnRows(i)) + 1
  /\ row.device = 0 /\ row.event = e /\ row \notin OwnRows(i)
  /\ events' = [events EXCEPT ![i] = events[i] \union {row}]
  /\ \A j \in Installs : OwnRows(j)' = IF j = i THEN OwnRows(i) \union {row} ELSE OwnRows(j)
  /\ Cardinality(OwnRows(i)') = Cardinality(OwnRows(i)) + 1
  /\ lastDeviceSeq[i] + 1 \in 1 .. MaxEvents /\ lastDeviceSeq[i] + 1 <= e.n
  /\ \/ /\ Live(i)
        /\ outbox' = [outbox EXCEPT ![i] =
                       @ \union {[pos |-> lastDeviceSeq[i] + 1, event |-> e]}]
        /\ lastDeviceSeq' = [lastDeviceSeq EXCEPT ![i] = lastDeviceSeq[i] + 1]
        /\ issued' = issued \union
             {[device |-> session[i].device, pos |-> lastDeviceSeq[i] + 1, event |-> e]}
     \/ ~Live(i) /\ UNCHANGED <<outbox, lastDeviceSeq, issued>>
  /\ UNCHANGED <<cloudVars, dropped, cursor, skipped, signVars, pass, accidents>>

LEMMA AppendFacts ==
  ASSUME TInv, NEW i \in Installs, Append(i)
  PROVE  \E e \in Event, row \in LocalRow : Appends(i, e, row)
<1> DEFINE n == Cardinality(OwnRows(i)) + 1
<1>1. PICK e : /\ \E kind \in Kinds, needs \in {0} \union {f.n : f \in Held(i)} :
                     e = [by |-> i, n |-> n, kind |-> kind, needs |-> needs]
               /\ Written < MaxEvents
               /\ Appended(i, e)
               /\ \/ /\ Live(i)
                     /\ outbox' = [outbox EXCEPT ![i] =
                                    @ \union {[pos |-> lastDeviceSeq[i] + 1, event |-> e]}]
                     /\ lastDeviceSeq' = [lastDeviceSeq EXCEPT ![i] = lastDeviceSeq[i] + 1]
                     /\ issued' = issued \union
                          {[device |-> session[i].device, pos |-> lastDeviceSeq[i] + 1, event |-> e]}
                  \/ ~Live(i) /\ UNCHANGED <<outbox, lastDeviceSeq, issued>>
               /\ UNCHANGED <<cloudVars, dropped, cursor, skipped, signVars, pass, accidents>>
  BY AppendIs
<1>2. n \in 1 .. MaxEvents
  BY <1>1, NextNumber
<1>3. e \in Event /\ e.by = i /\ e.n = n
  <2>1. \A f \in Held(i) : f.n \in 1 .. MaxEvents
    BY DEF Held, TInv, TableTyped, LocalRow, Event
  <2>2. PICK kind \in Kinds, needs \in {0} \union {f.n : f \in Held(i)} :
          e = [by |-> i, n |-> n, kind |-> kind, needs |-> needs]
    BY <1>1
  <2>3. needs \in 0 .. MaxEvents
    BY <2>1, ThreadSyncAssumption
  <2>. QED BY <1>2, <2>2, <2>3 DEF Event
<1>4. lastDeviceSeq[i] + 1 \in 1 .. MaxEvents /\ lastDeviceSeq[i] + 1 <= n
  <2>1. lastDeviceSeq[i] \in Nat /\ lastDeviceSeq[i] <= Cardinality(OwnRows(i))
    BY ThreadSyncAssumption DEF TInv, Counted, QueueTyped
  <2>. QED BY <1>2, <2>1, OwnRowsFinite, ThreadSyncAssumption
<1> DEFINE row == [seq |-> Cardinality(events[i]) + 1, device |-> 0, pos |-> 0, event |-> e]
<1>. HIDE DEF n
<1>5. /\ events' = [events EXCEPT ![i] = events[i] \union {row}]
      /\ row \in LocalRow
  BY <1>1, <1>3, OwnRowsFinite, ThreadSyncAssumption DEF Appended, LocalRow
<1>6. \A j \in Installs : OwnRows(j)' = IF j = i THEN OwnRows(i) \union {row} ELSE OwnRows(j)
  BY <1>5 DEF TInv, TableTyped, OwnRows
<1>7. row \notin OwnRows(i)
  BY <1>3, OwnRowsFinite DEF TInv, Counted, n
<1>8. Cardinality(OwnRows(i)') = n
  BY <1>6, <1>7, OwnRowsFinite, FS_AddElement DEF n
<1>9. row.device = 0 /\ row.event = e
  OBVIOUS
<1>. HIDE DEF row
<1>10. Appends(i, e, row)
  BY <1>1, <1>3, <1>4, <1>5, <1>6, <1>7, <1>8, <1>9 DEF n, Appends
<1>. QED BY <1>3, <1>5, <1>10

\* Each step keeps the types: an append,
LEMMA AppendTypes ==
  ASSUME TInv, NEW i \in Installs, Append(i)
  PROVE  TInv'
<1>1. PICK e \in Event, row \in LocalRow : Appends(i, e, row)
  BY AppendFacts
<1> DEFINE n == Cardinality(OwnRows(i)) + 1
           q == [pos |-> lastDeviceSeq[i] + 1, event |-> e]
<1>2. n \in Nat /\ Cardinality(OwnRows(i)) \in Nat /\ Cardinality(OwnRows(i)) <= n
  BY OwnRowsFinite
<1>. HIDE DEF n
<1>3. TableTyped'
  <2>1. events' \in [Installs -> SUBSET LocalRow]
    BY <1>1 DEF Appends, TInv, TableTyped
  <2>2. \A j \in Installs : IsFiniteSet(events'[j])
    BY <1>1, FS_AddElement DEF Appends, TInv, TableTyped
  <2>. QED BY <2>1, <2>2 DEF TableTyped
<1>4. Counted'
  <2>. SUFFICES ASSUME NEW j \in Installs
                PROVE  /\ lastDeviceSeq'[j] <= Cardinality(OwnRows(j)')
                       /\ \A r \in OwnRows(j)' : r.event.n <= Cardinality(OwnRows(j)')
    BY DEF Counted
  <2>1. CASE j = i
    <3>1. lastDeviceSeq'[i] <= n
      <4>1. lastDeviceSeq'[i] \in {lastDeviceSeq[i], lastDeviceSeq[i] + 1}
        BY <1>1 DEF Appends, TInv, QueueTyped
      <4>2. lastDeviceSeq[i] \in Nat
        BY ThreadSyncAssumption DEF TInv, QueueTyped
      <4>. QED BY <4>1, <4>2, <1>1, <1>2 DEF Appends, n
    <3>2. ASSUME NEW r \in OwnRows(i)
          PROVE  r.event.n \in Nat /\ r.event.n <= Cardinality(OwnRows(i))
      <4>1. r \in LocalRow
        BY DEF TInv, OwnRows, TableTyped
      <4>2. r.event.n \in Nat
        BY <4>1, ThreadSyncAssumption DEF LocalRow, Event
      <4>. QED BY <4>2 DEF TInv, Counted
    <3>3. ASSUME NEW r \in OwnRows(i)'
          PROVE  r.event.n <= n
      BY <1>1, <1>2, <3>2 DEF Appends, n
    <3>. QED BY <2>1, <3>1, <3>3, <1>1 DEF Appends, n
  <2>2. CASE j # i
    <3>1. OwnRows(j)' = OwnRows(j)
      BY <2>2, <1>1 DEF Appends, Appends
    <3>2. lastDeviceSeq'[j] = lastDeviceSeq[j]
      BY <2>2, <1>1 DEF Appends, TInv, QueueTyped
    <3>. QED BY <3>1, <3>2 DEF TInv, Counted
  <2>. QED BY <2>1, <2>2
<1>5. QueueTyped'
  <2>1. CASE Live(i)
    <3>1. session[i].device \in DeviceIds
      BY <2>1 DEF TInv, SignTyped
    <3>2. q \in Cloud!Entry
      BY <1>1 DEF Appends, Cloud!Entry
    <3>3. /\ outbox' = [outbox EXCEPT ![i] = @ \union {q}]
          /\ lastDeviceSeq' = [lastDeviceSeq EXCEPT ![i] = lastDeviceSeq[i] + 1]
          /\ issued' = issued \union
               {[device |-> session[i].device, pos |-> lastDeviceSeq[i] + 1, event |-> e]}
          /\ dropped' = dropped
      BY <2>1, <1>1 DEF Appends
    <3>4. \A j \in Installs : IsFiniteSet(outbox'[j])
      BY <3>3, FS_AddElement DEF TInv, QueueTyped
    <3>5. outbox' \in [Installs -> SUBSET Cloud!Entry]
      BY <3>2, <3>3 DEF TInv, QueueTyped
    <3>6. lastDeviceSeq' \in [Installs -> 0 .. MaxEvents]
      BY <3>3, <1>1, ThreadSyncAssumption DEF Appends, TInv, QueueTyped
    <3>7. issued' \subseteq [device : DeviceIds, pos : 1 .. MaxEvents, event : Event]
      BY <3>1, <3>3, <1>1 DEF Appends, TInv, QueueTyped
    <3>. QED BY <3>3, <3>4, <3>5, <3>6, <3>7 DEF TInv, QueueTyped
  <2>2. CASE ~Live(i)
    BY <2>2, <1>1 DEF Appends, TInv, QueueTyped
  <2>. QED BY <2>1, <2>2
<1>6. UNCHANGED <<cloudVars, cursor, skipped, signVars, pass, accidents>>
  BY <1>1 DEF Appends
<1>. QED BY <1>3, <1>4, <1>5, <1>6, Kept DEF TInv

\* what signs in or out or restarts,
LEMMA SignOffTypes ==
  ASSUME TInv, NEW i \in Installs, NEW s \in Session, s.kind # "live",
         session' = [session EXCEPT ![i] = s],
         credential' \in [Installs -> DeviceIds \union {0}],
         UNCHANGED <<ownDevices, build>>
  PROVE  SignTyped'
<1>1. \A j \in Installs : session'[j] = IF j = i THEN s ELSE session[j]
  BY DEF TInv, SignTyped
<1>2. session' \in [Installs -> Session]
  BY DEF TInv, SignTyped
<1>. QED BY <1>1, <1>2 DEF TInv, SignTyped, Live

\* The actions of a sign-in, a sign-out and a restart, and a revocation.
LEMMA SignTypes ==
  ASSUME TInv, NEW i \in Installs,
         SignIn(i) \/ SignInFails(i) \/ SignOut(i) \/ SignOutCutOff(i) \/ Restart(i)
  PROVE  TInv'
<1>1. ASSUME NEW d \in DeviceIds, Cloud!SignIn(d)
      PROVE  Cloud!TypeOK'
  BY <1>1, CloudStepTypes DEF Cloud!Next, TInv
<1> DEFINE off == [kind |-> "off", id |-> 0, device |-> 0]
<1>2. off \in Session /\ off.kind # "live"
  BY DEF Session
<1>3. Accident => accidents' \in 0 .. MaxAccidents
  BY ThreadSyncAssumption DEF Accident, TInv
<1>4. CASE SignIn(i)
  <2>1. PICK d \in DeviceIds :
          /\ Cloud!SignIn(d) /\ Reset(i)
          /\ credential' = [credential EXCEPT ![i] = d]
          /\ OpenSession(i, d)
          /\ UNCHANGED <<build, accidents, pass>>
    BY <1>4 DEF SignIn
  <2>2. /\ credential' \in [Installs -> DeviceIds \union {0}]
        /\ build' \in [Installs -> Builds]
    BY <2>1 DEF TInv, SignTyped
  <2>3. SignTyped'
    BY <2>1, <2>2, OpenSessionTypes
  <2>. QED BY <2>1, <2>3, <1>1, ResetTypes, Kept DEF TInv
<1>5. CASE SignInFails(i)
  <2>1. /\ Accident /\ \E d \in DeviceIds : Cloud!SignIn(d)
        /\ Reset(i) /\ UNCHANGED signVars /\ UNCHANGED pass
    BY <1>5 DEF SignInFails
  <2>. QED BY <2>1, <1>1, <1>3, ResetTypes, Kept DEF TInv
<1>6. CASE SignOut(i)
  <2>1. /\ session' = [session EXCEPT ![i] = off]
        /\ credential' = [credential EXCEPT ![i] = 0]
        /\ Reset(i) /\ UNCHANGED cloudVars /\ UNCHANGED pass
        /\ UNCHANGED <<ownDevices, build, accidents>>
    BY <1>6 DEF SignOut
  <2>2. credential' \in [Installs -> DeviceIds \union {0}]
    BY <2>1 DEF TInv, SignTyped
  <2>. HIDE DEF off
  <2>3. SignTyped'
    BY <2>1, <2>2, <1>2, SignOffTypes
  <2>. QED BY <2>1, <2>3, ResetTypes, Kept DEF TInv
<1>7. CASE SignOutCutOff(i)
  <2>1. /\ Accident
        /\ session' = [session EXCEPT ![i] = off]
        /\ credential' = [credential EXCEPT ![i] = 0]
        /\ pass' = [pass EXCEPT ![i] = NoPass]
        /\ UNCHANGED cloudVars /\ UNCHANGED queueVars
        /\ UNCHANGED <<events, cursor, skipped, ownDevices, build>>
    BY <1>7 DEF SignOutCutOff, pullVars
  <2>2. credential' \in [Installs -> DeviceIds \union {0}]
    BY <2>1 DEF TInv, SignTyped
  <2>. HIDE DEF off
  <2>3. SignTyped'
    BY <2>1, <2>2, <1>2, SignOffTypes
  <2>4. UNCHANGED lastDeviceSeq
    BY <2>1 DEF queueVars
  <2>. QED BY <2>1, <2>3, <2>4, <1>3, ToNoPass, Kept DEF TInv
<1>8. CASE Restart(i)
  <2>1. PICK b \in Builds :
          LET rewinds == credential[i] # 0 /\ skipped[i].seq # 0 /\ skipped[i].build # b
          IN  /\ build' = [build EXCEPT ![i] = b]
              /\ cursor' = [cursor EXCEPT ![i] =
                   IF rewinds /\ skipped[i].seq - 1 < @ THEN skipped[i].seq - 1 ELSE @]
              /\ skipped' = [skipped EXCEPT ![i] = IF rewinds THEN NothingSkipped ELSE @]
    BY <1>8 DEF Restart
  <2>2. /\ Accident /\ pass' = [pass EXCEPT ![i] = NoPass]
        /\ UNCHANGED cloudVars /\ UNCHANGED queueVars /\ UNCHANGED <<events, credential>>
        /\ \/ credential[i] # 0 /\ OpenSession(i, credential[i])
           \/ session' = [session EXCEPT ![i] = off] /\ UNCHANGED ownDevices
    BY <1>8 DEF Restart
  <2>3. CursorTyped'
    <3>1. skipped[i].seq \in Nat /\ cursor[i] \in Nat
      BY DEF TInv, CursorTyped
    <3>2. NothingSkipped \in [seq : Nat, build : Builds \union {0}]
      BY DEF NothingSkipped
    <3>3. skipped' \in [Installs -> [seq : Nat, build : Builds \union {0}]]
      BY <2>1, <3>2 DEF TInv, CursorTyped
    <3> DEFINE back == credential[i] # 0 /\ skipped[i].seq # 0 /\ skipped[i].build # b
               c == IF back /\ skipped[i].seq - 1 < cursor[i] THEN skipped[i].seq - 1 ELSE cursor[i]
    <3>4. cursor' = [cursor EXCEPT ![i] = c] /\ c \in Nat
      <4>1. cursor' = [cursor EXCEPT ![i] = c]
        BY <2>1
      <4>2. back => skipped[i].seq - 1 \in Nat
        BY <3>1
      <4>. QED BY <4>1, <4>2, <3>1
    <3>. HIDE DEF c
    <3>5. cursor' \in [Installs -> Nat]
      BY <3>4 DEF TInv, CursorTyped
    <3>. QED BY <3>3, <3>5 DEF CursorTyped
  <2>4. /\ credential' \in [Installs -> DeviceIds \union {0}]
        /\ build' \in [Installs -> Builds]
    BY <2>1, <2>2 DEF TInv, SignTyped
  <2>5. SignTyped'
    <3>1. CASE credential[i] # 0 /\ OpenSession(i, credential[i])
      <4>1. credential[i] \in DeviceIds
        BY <3>1 DEF TInv, SignTyped
      <4>. QED BY <3>1, <4>1, <2>4, OpenSessionTypes
    <3>2. CASE session' = [session EXCEPT ![i] = off] /\ UNCHANGED ownDevices
      <4>. HIDE DEF off
      <4>1. session' \in [Installs -> Session]
        BY <3>2, <1>2 DEF TInv, SignTyped
      <4>2. \A j \in Installs : session'[j] = IF j = i THEN off ELSE session[j]
        BY <3>2 DEF TInv, SignTyped
      <4>. QED BY <3>2, <4>1, <4>2, <2>4, <1>2 DEF TInv, SignTyped, Live
    <3>. QED BY <3>1, <3>2, <2>2
  <2>6. UNCHANGED lastDeviceSeq
    BY <2>2 DEF queueVars
  <2>. QED BY <2>2, <2>3, <2>5, <2>6, <1>3, ToNoPass, Kept DEF TInv
<1>. QED BY <1>4, <1>5, <1>6, <1>7, <1>8

\* a revocation,
LEMMA RevokeTypes ==
  ASSUME TInv, NEW d \in DeviceIds, Revoke(d)
  PROVE  TInv'
<1>1. /\ Accident /\ Cloud!Revoke(d)
      /\ UNCHANGED queueVars /\ UNCHANGED <<events, cursor, skipped>> /\ UNCHANGED signVars
      /\ UNCHANGED pass
  BY DEF Revoke, pullVars, signVars
<1>2. Cloud!TypeOK'
  BY <1>1, CloudStepTypes DEF Cloud!Next, TInv
<1>3. accidents' \in 0 .. MaxAccidents
  BY <1>1, ThreadSyncAssumption DEF Accident, TInv
<1>4. UNCHANGED lastDeviceSeq
  BY <1>1 DEF queueVars
<1>. QED BY <1>1, <1>2, <1>3, <1>4, Kept DEF TInv

\* what a window sends is typed,
LEMMA WindowFacts ==
  ASSUME TInv, NEW i \in Installs
  PROVE  /\ Window(i) \in SUBSET outbox[i] /\ Sendable(i) \in SUBSET Window(i)
         /\ IsFiniteSet(Window(i)) /\ IsFiniteSet(Sendable(i)) /\ Rejects(i) \in Nat
         /\ outbox[i] \in SUBSET Cloud!Entry /\ IsFiniteSet(outbox[i])
<1>1. outbox[i] \in SUBSET Cloud!Entry /\ IsFiniteSet(outbox[i])
  BY DEF TInv, QueueTyped
<1>2. Window(i) \in SUBSET outbox[i] /\ Sendable(i) \in SUBSET Window(i)
  BY DEF Window, Sendable
<1>3. IsFiniteSet(Window(i)) /\ IsFiniteSet(Sendable(i))
  BY <1>1, <1>2, FS_Subset
<1>4. Rejects(i) \in Nat
  BY <1>3, FS_Subset, FS_CardinalityType, Window(i) \ Sendable(i) \in SUBSET Window(i) DEF Rejects
<1>. QED BY <1>1, <1>2, <1>3, <1>4

LEMMA EndedIs ==
  ASSUME NEW q \in Session, NEW s, s = [q EXCEPT !.kind = "ended", !.id = 0]
  PROVE  s = [kind |-> "ended", id |-> 0, device |-> q.device]
BY DEF Session

\* the end of a session,
LEMMA EndSessionTypes ==
  ASSUME TInv, NEW i \in Installs, EndSession(i)
  PROVE  TInv'
<1> DEFINE s == [session[i] EXCEPT !.kind = "ended", !.id = 0]
<1>1. s \in Session /\ s.kind # "live"
  <2>1. session[i] \in Session
    BY DEF TInv, SignTyped
  <2>2. s = [kind |-> "ended", id |-> 0, device |-> session[i].device]
    BY <2>1, EndedIs
  <2>. HIDE DEF s
  <2>. QED BY <2>1, <2>2 DEF Session
<1>2. session' = [session EXCEPT ![i] = s]
  BY DEF EndSession
<1>3. /\ pass' = [pass EXCEPT ![i] = NoPass]
      /\ UNCHANGED cloudVars /\ UNCHANGED queueVars /\ UNCHANGED <<events, cursor, skipped>>
      /\ UNCHANGED lastDeviceSeq /\ UNCHANGED <<ownDevices, credential, build, accidents>>
  BY DEF EndSession, pullVars, queueVars
<1>. HIDE DEF s
<1>4. SignTyped'
  BY <1>1, <1>2, <1>3, SignOffTypes DEF TInv, SignTyped
<1>. QED BY <1>3, <1>4, ToNoPass, Kept DEF TInv

\* The steps of a pass that leave the log and the table alone.
LEMMA DrainTypes ==
  ASSUME TInv, NEW i \in Installs,
         \/ StartPass(i) \/ PassFenced(i) \/ PushAcked(i) \/ PushRefused(i) \/ PushUnauthorized(i)
         \/ DropWindow(i) \/ DrainEnds(i) \/ PullUnauthorized(i) \/ PullCaughtUp(i)
         \/ PushUnreachable(i) \/ PullUnreachable(i)
  PROVE  TInv'
<1>1. pass[i] \in Pass /\ pass[i].round \in 0 .. MaxRounds /\ 0 \in 0 .. MaxRounds
  BY ThreadSyncAssumption DEF TInv, PassTyped, Pass
<1>2. Accident => accidents' \in 0 .. MaxAccidents
  BY ThreadSyncAssumption DEF Accident, TInv
<1>3. UNCHANGED queueVars => QueueTyped' /\ UNCHANGED lastDeviceSeq
  BY Kept DEF queueVars
<1>4. UNCHANGED pullVars => UNCHANGED <<events, cursor, skipped>>
  BY DEF pullVars
<1>5. pass[i].round < MaxRounds => pass[i].round + 1 \in 0 .. MaxRounds
  BY <1>1, ThreadSyncAssumption
<1>6. ASSUME pass[i].round < MaxRounds, NextRound(i),
             NEW through, NEW lost \in Nat, DeleteThrough(i, through, lost),
             UNCHANGED <<cloudVars, pullVars, signVars, accidents>>
      PROVE  TInv'
  <2>1. PassTyped'
    BY <1>5, <1>6, ToCarryOn DEF NextRound
  <2>2. QueueTyped' /\ UNCHANGED lastDeviceSeq
    BY <1>6, DeleteThroughTypes DEF DeleteThrough
  <2>. QED BY <1>4, <1>6, <2>1, <2>2, Kept DEF TInv
<1>7. ASSUME PassTyped', accidents' \in 0 .. MaxAccidents,
             UNCHANGED <<cloudVars, queueVars, pullVars, signVars>>
      PROVE  TInv'
  BY <1>3, <1>4, <1>7, Kept DEF TInv
<1>8. CASE StartPass(i)
  <2> DEFINE p == [NoPass EXCEPT !.pc = "push", !.session = session[i].id,
                                 !.device = session[i].device, !.own = ownDevices[i]]
  <2>1. pass' = [pass EXCEPT ![i] = p] /\ UNCHANGED <<cloudVars, queueVars, pullVars, signVars, accidents>>
    BY <1>8 DEF StartPass
  <2>2. p = PassOf("push", session[i].id, session[i].device, ownDevices[i], 0,
                   {}, 0, 0, NoAnswer, {}, FALSE)
    BY BegunIs
  <2>3. /\ session[i].id \in 0 .. 2 /\ session[i].device \in DeviceIds \union {0}
        /\ ownDevices[i] \in SUBSET DeviceIds
    BY DEF TInv, SignTyped, Session
  <2>. HIDE DEF p
  <2>4. p \in Pass
    BY <2>2, <2>3, NoAnswerType, ThreadSyncAssumption DEF PassOf, Pass
  <2>5. IsFiniteSet(p.page) /\ p.pc = "push"
    BY <2>2, FS_EmptySet DEF PassOf
  <2>6. PassTyped'
    BY <2>1, <2>4, <2>5, PassTo
  <2>. QED BY <2>1, <2>6, <1>7 DEF TInv
<1>9. CASE PassFenced(i) \/ PullCaughtUp(i)
  BY <1>9, <1>7, ToNoPass DEF PassFenced, PullCaughtUp, TInv
<1>10. CASE PullUnreachable(i)
  BY <1>10, <1>2, <1>7, ToNoPass DEF PullUnreachable
<1>11. CASE PushUnauthorized(i) \/ PullUnauthorized(i)
  BY <1>11, EndSessionTypes DEF PushUnauthorized, PullUnauthorized
<1>12. CASE PushAcked(i)
  <2>1. pass[i].rejected \in Nat /\ pass[i].round < MaxRounds
    BY <1>1, <1>12, PassFields DEF PushAcked, TInv, PassTyped
  <2>2. /\ DeleteThrough(i, pass[i].through, pass[i].rejected)
        /\ NextRound(i) /\ UNCHANGED <<cloudVars, pullVars, signVars, accidents>>
    BY <1>12 DEF PushAcked
  <2>. QED BY <2>1, <2>2, <1>6
<1>13. CASE PushRefused(i)
  <2> DEFINE lost == Cardinality({q \in outbox[i] : q.pos <= pass[i].answer.pos})
  <2>1. lost \in Nat
    BY FS_Subset, FS_CardinalityType, {q \in outbox[i] : q.pos <= pass[i].answer.pos} \in SUBSET outbox[i]
       DEF TInv, QueueTyped
  <2>2. DeleteThrough(i, pass[i].answer.pos, lost)
    BY <1>13 DEF PushRefused
  <2>. HIDE DEF lost
  <2>3. pass[i].round < MaxRounds
    BY <1>13 DEF PushRefused, TInv, PassTyped
  <2>4. NextRound(i) /\ UNCHANGED <<cloudVars, pullVars, signVars, accidents>>
    BY <1>13 DEF PushRefused
  <2>. QED BY <2>1, <2>2, <2>3, <2>4, <1>6
<1>14. CASE DropWindow(i)
  BY <1>14, <1>6, WindowFacts DEF DropWindow, Draining
<1>15. CASE DrainEnds(i)
  BY <1>15, <1>1, <1>7, ToCarryOn DEF DrainEnds, TurnToPull, TInv
<1>16. CASE PushUnreachable(i)
  BY <1>16, <1>1, <1>2, <1>7, ToCarryOn DEF PushUnreachable, TurnToPull
<1>. QED BY <1>8, <1>9, <1>10, <1>11, <1>12, <1>13, <1>14, <1>15, <1>16

\* a push sent,
LEMMA PushSendTypes ==
  ASSUME TInv, NEW i \in Installs, PushSend(i)
  PROVE  /\ TInv' /\ [Cloud!Next]_cloudVars
         /\ pass[i].device \in DeviceIds
<1> DEFINE m == [device |-> pass[i].device, batch |-> Sendable(i)]
<1>1. PICK last \in Window(i) :
        pass' = [pass EXCEPT ![i] =
          [@ EXCEPT !.pc = "pushing", !.batch = Sendable(i), !.through = last.pos,
                    !.rejected = Rejects(i)]]
  BY DEF PushSend
<1>2. /\ pass[i].round < MaxRounds /\ Cloud!Verify(m)
      /\ UNCHANGED queueVars /\ UNCHANGED <<events, cursor, skipped>> /\ UNCHANGED signVars
      /\ UNCHANGED accidents
  BY DEF PushSend, PushReady, Draining, pullVars
<1>3. /\ Sendable(i) \in SUBSET Cloud!Entry /\ IsFiniteSet(Sendable(i)) /\ Rejects(i) \in Nat
      /\ last.pos \in 0 .. MaxEvents
  BY WindowFacts, ThreadSyncAssumption DEF Cloud!Entry
<1>4. pass[i].device \in DeviceIds
  BY <1>2 DEF Cloud!Verify, TInv, Cloud!TypeOK
<1>5. Cloud!Next
  BY <1>2, <1>3, <1>4, SameSets DEF Cloud!Next
<1>6. pass[i] \in Pass
  BY DEF TInv, PassTyped
<1> DEFINE p == [pass[i] EXCEPT !.pc = "pushing", !.batch = Sendable(i), !.through = last.pos,
                                !.rejected = Rejects(i)]
<1>7. p = PassOf("pushing", pass[i].session, pass[i].device, pass[i].own, pass[i].round, Sendable(i),
                 last.pos, Rejects(i), pass[i].answer, pass[i].page, pass[i].more)
  BY <1>6, SentIs
<1>8. pass' = [pass EXCEPT ![i] = p]
  BY <1>1
<1>. HIDE DEF p
<1>9. p \in Pass
  BY <1>3, <1>6, <1>7, PassFields DEF PassOf, Pass
<1>10. IsFiniteSet(p.page) /\ p.round < MaxRounds
  <2>1. p.page = pass[i].page /\ p.round = pass[i].round
    BY <1>7 DEF PassOf
  <2>. QED BY <1>2, <2>1 DEF TInv, PassTyped
<1>11. PassTyped'
  BY <1>8, <1>9, <1>10, PassTo
<1>12. UNCHANGED lastDeviceSeq
  BY <1>2 DEF queueVars
<1>13. Cloud!TypeOK'
  BY <1>5, CloudStepTypes DEF TInv
<1>. QED BY <1>2, <1>4, <1>5, <1>11, <1>12, <1>13, Kept DEF TInv

\* an answer written,
LEMMA AnswerTypes ==
  ASSUME TInv, NEW m \in verified, NEW answer \in Cloud!PushAnswers(m.device, m.batch)
  PROVE  answer \in Answer
<1>1. m.batch \in SUBSET Cloud!Entry
  BY DEF TInv, Cloud!TypeOK, Cloud!Request
<1>2. \A p \in Cloud!RefusedAt(m.device, m.batch) : p \in 0 .. MaxEvents
  BY <1>1, ThreadSyncAssumption DEF Cloud!RefusedAt, Cloud!Entry
<1>3. answer.code \in {"ok", "outbox", "account-deleted"} /\ answer.pos \in 0 .. MaxEvents
      /\ answer = [code |-> answer.code, pos |-> answer.pos]
  BY <1>2, ThreadSyncAssumption DEF Cloud!PushAnswers
<1>. QED BY <1>3 DEF Answer

\* What a run of a push makes of each pass.
Answered(m, answer, i) ==
  IF /\ pass[i].pc = "pushing" /\ pass[i].answer = NoAnswer
     /\ pass[i].device = m.device /\ pass[i].batch = m.batch
  THEN [pass[i] EXCEPT !.answer = answer]
  ELSE pass[i]

\* a push run,
LEMMA PushRunsTypes ==
  ASSUME TInv, NEW m \in verified, PushRuns(m)
  PROVE  /\ TInv' /\ [Cloud!Next]_cloudVars
<1>1. PICK answer \in Cloud!PushAnswers(m.device, m.batch) :
        pass' = [i \in Installs |-> Answered(m, answer, i)]
  BY DEF PushRuns, Answered
<1>2. /\ Cloud!Push(m) /\ UNCHANGED queueVars /\ UNCHANGED <<events, cursor, skipped>>
      /\ UNCHANGED signVars /\ UNCHANGED accidents
  BY DEF PushRuns, pullVars
<1>3. Cloud!Next
  BY <1>2 DEF Cloud!Next
<1>4. Cloud!TypeOK'
  BY <1>3, CloudStepTypes DEF TInv
<1>5. ASSUME NEW i \in Installs
      PROVE  /\ Answered(m, answer, i) \in Pass
             /\ Answered(m, answer, i).page = pass[i].page
             /\ Answered(m, answer, i).pc = pass[i].pc
             /\ Answered(m, answer, i).round = pass[i].round
  <2>1. pass[i] \in Pass
    BY DEF TInv, PassTyped
  <2> DEFINE p == [pass[i] EXCEPT !.answer = answer]
  <2>2. p = PassOf(pass[i].pc, pass[i].session, pass[i].device, pass[i].own, pass[i].round, pass[i].batch,
                   pass[i].through, pass[i].rejected, answer, pass[i].page, pass[i].more)
    BY <2>1, AnsweredIs
  <2>. HIDE DEF p
  <2>3. p \in Pass
    BY <2>1, <2>2, AnswerTypes, PassFields DEF PassOf, Pass
  <2>4. p.page = pass[i].page /\ p.pc = pass[i].pc /\ p.round = pass[i].round
    BY <2>2 DEF PassOf
  <2>5. Answered(m, answer, i) \in {p, pass[i]}
    BY DEF Answered, p
  <2>. QED BY <2>1, <2>3, <2>4, <2>5
<1>6. PassTyped'
  BY <1>1, <1>5 DEF TInv, PassTyped
<1>7. UNCHANGED lastDeviceSeq
  BY <1>2 DEF queueVars
<1>. QED BY <1>2, <1>3, <1>4, <1>6, <1>7, Kept DEF TInv

\* a page pulled,
LEMMA PageTypes ==
  ASSUME TInv, NEW i \in Installs, PullPage(i)
  PROVE  TInv'
<1> DEFINE page == Cloud!Page(cursor[i], PullLimit)
           more == Cloud!HasMore(cursor[i], PullLimit)
           p == [pass[i] EXCEPT !.pc = "applying", !.page = page, !.more = more]
<1>1. page \in SUBSET rows /\ more \in BOOLEAN
  BY DEF Cloud!Page, Cloud!HasMore
<1>2. page \in SUBSET Cloud!Row /\ IsFiniteSet(page)
  BY <1>1, FS_Subset, SameSets DEF TInv, Cloud!TypeOK
<1>3. pass[i] \in Pass
  BY DEF TInv, PassTyped
<1>4. p = PassOf("applying", pass[i].session, pass[i].device, pass[i].own, pass[i].round, pass[i].batch,
                 pass[i].through, pass[i].rejected, pass[i].answer, page, more)
  BY <1>3, PulledIs
<1>5. /\ pass' = [pass EXCEPT ![i] = p]
      /\ UNCHANGED cloudVars /\ UNCHANGED queueVars /\ UNCHANGED <<events, cursor, skipped>>
      /\ UNCHANGED signVars /\ UNCHANGED accidents
  BY DEF PullPage, pullVars
<1>. HIDE DEF p, page, more
<1>6. p \in Pass
  BY <1>1, <1>2, <1>3, <1>4, PassFields DEF PassOf, Pass
<1>7. p.page = page /\ p.pc = "applying"
  BY <1>4 DEF PassOf
<1>8. PassTyped'
  BY <1>2, <1>5, <1>6, <1>7, PassTo
<1>9. UNCHANGED lastDeviceSeq
  BY <1>5 DEF queueVars
<1>. QED BY <1>5, <1>8, <1>9, Kept DEF TInv

\* The local row a page's row becomes.
Stored(i, lands, r) ==
  [seq |-> Cardinality(events[i]) + Cardinality({s \in lands : s.seq <= r.seq}),
   device |-> r.device, pos |-> r.pos, event |-> r.event]

\* and rows of a page applied.
LEMMA ApplyThroughTypes ==
  ASSUME TInv, NEW i \in Installs, NEW last \in pass[i].page, ApplyThrough(i, last)
  PROVE  /\ TableTyped' /\ CursorTyped' /\ (UNCHANGED lastDeviceSeq => Counted')
         /\ \A j \in Installs : OwnRows(j)' = OwnRows(j)
<1> DEFINE read   == {r \in pass[i].page : r.seq <= last.seq}
           lands  == Lands(i, read)
           unread == {r \in read : Unparsed(i, r)}
<1>1. /\ events' = [events EXCEPT ![i] = events[i] \union {Stored(i, lands, r) : r \in lands}]
      /\ cursor' = [cursor EXCEPT ![i] = last.seq]
      /\ \/ unread = {} /\ UNCHANGED skipped
         \/ \E u \in unread :
              skipped' = [skipped EXCEPT ![i] = [seq |-> LowestUnread(i, u.seq), build |-> build[i]]]
  BY DEF ApplyThrough, Stored, TInv, TableTyped
<1>2. pass[i].page \in SUBSET Cloud!Row /\ IsFiniteSet(pass[i].page)
  BY PassFields DEF TInv, PassTyped
<1>3. lands \in SUBSET pass[i].page /\ unread \in SUBSET pass[i].page
  BY DEF Lands
<1>4. lands \in SUBSET Cloud!Row /\ IsFiniteSet(lands)
  BY <1>2, <1>3, FS_Subset
<1>5. CursorTyped'
  <2>1. last.seq \in Nat /\ \A u \in unread : u.seq \in Nat
    BY <1>2, <1>3 DEF Cloud!Row
  <2>2. cursor' \in [Installs -> Nat]
    BY <1>1, <2>1 DEF TInv, CursorTyped
  <2>3. skipped' \in [Installs -> [seq : Nat, build : Builds \union {0}]]
    <3>1. CASE UNCHANGED skipped
      BY <3>1 DEF TInv, CursorTyped
    <3>2. CASE \E u \in unread :
                 skipped' = [skipped EXCEPT ![i] = [seq |-> LowestUnread(i, u.seq), build |-> build[i]]]
      <4>1. PICK u \in unread :
              skipped' = [skipped EXCEPT ![i] = [seq |-> LowestUnread(i, u.seq), build |-> build[i]]]
        BY <3>2
      <4>2. LowestUnread(i, u.seq) \in Nat /\ build[i] \in Builds
        BY <2>1 DEF LowestUnread, TInv, CursorTyped, SignTyped
      <4>. QED BY <4>1, <4>2 DEF TInv, CursorTyped
    <3>. QED BY <1>1, <3>1, <3>2
  <2>. QED BY <2>2, <2>3 DEF CursorTyped
<1>. HIDE DEF lands, read, unread
<1>6. ASSUME NEW r \in lands
      PROVE  Stored(i, lands, r) \in LocalRow /\ Stored(i, lands, r).device # 0
  <2> DEFINE upTo == {s \in lands : s.seq <= r.seq}
  <2>1. IsFiniteSet(upTo) /\ upTo # {}
    <3>1. r \in upTo
      BY <1>4 DEF Cloud!Row
    <3>. QED BY <1>4, <3>1, FS_Subset, upTo \in SUBSET lands
  <2>2. Cardinality(upTo) \in Nat \ {0}
    BY <2>1, FS_CardinalityType, FS_EmptySet
  <2>3. Cardinality(events[i]) \in Nat
    BY OwnRowsFinite
  <2>4. r.device \in DeviceIds /\ r.device # 0 /\ r.pos \in 0 .. MaxEvents /\ r.event \in Event
    BY <1>4, ThreadSyncAssumption DEF Cloud!Row, DeviceIds
  <2>. HIDE DEF upTo
  <2>5. Cardinality(events[i]) + Cardinality(upTo) \in Nat \ {0}
    BY <2>2, <2>3
  <2>6. Stored(i, lands, r) = [seq |-> Cardinality(events[i]) + Cardinality(upTo),
                               device |-> r.device, pos |-> r.pos, event |-> r.event]
    BY DEF Stored, upTo
  <2>. QED BY <2>4, <2>5, <2>6 DEF LocalRow
<1> DEFINE new == {Stored(i, lands, r) : r \in lands}
<1>7. IsFiniteSet(new)
  <2> DEFINE f == [r \in lands |-> Stored(i, lands, r)]
  <2>1. f \in Surjection(lands, new)
    BY DEF Surjection
  <2>. QED BY <2>1, <1>4, FS_Surjection
<1>8. new \in SUBSET LocalRow /\ \A s \in new : s.device # 0
  BY <1>6
<1>9. events' = [events EXCEPT ![i] = events[i] \union new]
  BY <1>1
<1>. HIDE DEF new
<1>10. TableTyped'
  <2>1. events' \in [Installs -> SUBSET LocalRow]
    BY <1>8, <1>9 DEF TInv, TableTyped
  <2>2. \A j \in Installs : IsFiniteSet(events'[j])
    BY <1>7, <1>9, FS_Union DEF TInv, TableTyped
  <2>. QED BY <2>1, <2>2 DEF TableTyped
<1>11. \A j \in Installs : OwnRows(j)' = OwnRows(j)
  BY <1>8, <1>9 DEF TInv, TableTyped, OwnRows
<1>12. UNCHANGED lastDeviceSeq => Counted'
  BY <1>11 DEF TInv, Counted
<1>. QED BY <1>5, <1>10, <1>11, <1>12

LEMMA ApplyTypes ==
  ASSUME TInv, NEW i \in Installs, ApplyPage(i) \/ ApplyFails(i)
  PROVE  TInv'
<1>1. PICK last \in pass[i].page : ApplyThrough(i, last)
  BY DEF ApplyPage, ApplyFails, CommitPoints
<1>2. UNCHANGED cloudVars /\ UNCHANGED queueVars /\ UNCHANGED signVars
  BY DEF ApplyPage, ApplyFails
<1>3. UNCHANGED lastDeviceSeq
  BY <1>2 DEF queueVars
<1>4. accidents' \in 0 .. MaxAccidents
  BY ThreadSyncAssumption DEF ApplyPage, ApplyFails, Accident, TInv
<1>5. PassTyped'
  <2>1. CASE pass' = [pass EXCEPT ![i] = NoPass]
    BY <2>1, ToNoPass
  <2>2. CASE /\ pass[i].round + 1 < MaxRounds
             /\ pass' = [pass EXCEPT ![i] = CarryOn(i, "pull", pass[i].round + 1)]
    <3>1. pass[i].round + 1 \in 0 .. MaxRounds
      BY <2>2, PassFields, ThreadSyncAssumption DEF TInv, PassTyped
    <3>. QED BY <2>2, <3>1, ToCarryOn
  <2>3. CASE ApplyPage(i)
    BY <2>1, <2>2, <2>3 DEF ApplyPage, TInv, PassTyped
  <2>. QED BY <2>1, <2>3 DEF ApplyFails
<1>. QED BY <1>1, <1>2, <1>3, <1>4, <1>5, ApplyThroughTypes, Kept DEF TInv

\* A step of the whole system.
LEMMA TInvStep ==
  ASSUME TInv, [Next]_vars
  PROVE  TInv'
<1>1. ASSUME NEW i \in Installs, PassSteps(i)
      PROVE  TInv'
  BY <1>1, DrainTypes, PushSendTypes, PageTypes, ApplyTypes DEF PassSteps, PassMoves
<1>2. CASE UNCHANGED vars
  <2>1. /\ UNCHANGED cloudVars /\ UNCHANGED queueVars /\ UNCHANGED <<events, cursor, skipped>>
        /\ UNCHANGED signVars /\ UNCHANGED pass /\ UNCHANGED accidents /\ UNCHANGED lastDeviceSeq
    BY <1>2 DEF vars, pullVars, queueVars
  <2>. QED BY <2>1, Kept DEF TInv
<1>. QED BY <1>1, <1>2, AppendTypes, SignTypes, RevokeTypes, DrainTypes, PushRunsTypes, ApplyTypes
     DEF Next

\* The strengthened types are inductive.
LEMMA TInvHolds == Spec => []TInv
BY TInvInit, TInvStep, PTL DEF Spec

\* No step arms but what an install can have armed.
LEMMA CadenceStep ==
  ASSUME CadenceTyped, [Next]_vars
  PROVE  CadenceTyped'
<1>1. ASSUME NEW i \in Installs, NEW what \in {"poll", "drain", "none"}, Arms(i, what)
      PROVE  CadenceTyped'
  BY <1>1 DEF Arms, CadenceTyped
<1>2. ASSUME NEW i \in Installs, Append(i)
      PROVE  CadenceTyped'
  <2>1. \/ cadence' = [cadence EXCEPT ![i] = IF @ = "none" THEN "drain" ELSE @]
        \/ UNCHANGED cadence
    BY <1>2 DEF Append
  <2>. QED BY <2>1 DEF CadenceTyped
<1>3. ASSUME NEW i \in Installs, \/ SignIn(i) \/ SignInFails(i) \/ SignOut(i) \/ SignOutCutOff(i)
                                 \/ Restart(i) \/ PushUnauthorized(i) \/ PullUnauthorized(i)
      PROVE  CadenceTyped'
  <2>1. Arms(i, "poll") \/ Arms(i, "none")
    BY <1>3 DEF SignIn, SignInFails, SignOut, SignOutCutOff, Restart, PushUnauthorized,
                PullUnauthorized, EndSession
  <2>. QED BY <1>1, <2>1
<1>4. ASSUME NEW i \in Installs, StartPass(i)
      PROVE  CadenceTyped'
  <2>1. Arms(i, IF cadence[i] = "drain" THEN "none" ELSE cadence[i])
    BY <1>4 DEF StartPass
  <2>. QED BY <1>1, <2>1 DEF CadenceTyped
<1>5. ASSUME NEW i \in Installs,
             \/ PassFenced(i) \/ PushSend(i) \/ PushAcked(i) \/ PushRefused(i) \/ DropWindow(i)
             \/ DrainEnds(i) \/ PullPage(i) \/ ApplyPage(i) \/ PullCaughtUp(i)
             \/ PushUnreachable(i) \/ PullUnreachable(i) \/ ApplyFails(i)
      PROVE  UNCHANGED cadence
  BY <1>5 DEF PassFenced, PushSend, PushAcked, PushRefused, DropWindow, DrainEnds, PullPage,
              ApplyPage, PullCaughtUp, PushUnreachable, PullUnreachable, ApplyFails
<1>6. ASSUME NEW m \in verified, PushRuns(m)
      PROVE  UNCHANGED cadence
  BY <1>6 DEF PushRuns
<1>7. ASSUME NEW d \in DeviceIds, Revoke(d)
      PROVE  UNCHANGED cadence
  BY <1>7 DEF Revoke
<1>8. CASE UNCHANGED vars
  BY <1>8 DEF vars, CadenceTyped
<1>. QED BY <1>2, <1>3, <1>4, <1>5, <1>6, <1>7, <1>8 DEF Next, PassSteps, PassMoves, CadenceTyped

\* What is armed is of its type.
LEMMA CadenceHolds == Spec => []CadenceTyped
<1>1. Init => CadenceTyped
  BY DEF Init, CadenceTyped
<1>. QED BY <1>1, CadenceStep, PTL DEF Spec

\* Every reachable state is of the types declared: a queue never runs ahead of the rows its install
\* wrote, nor a position past the bound.
THEOREM TypeCorrect == Spec => []TypeOK
BY TInvHolds, CadenceHolds, TInvTypes, PTL

-----------------------------------------------------------------------------
(* The account's log, with these installs as its clients. *)

\* What a step does to the log: a sign-in, a push verified or run, a revocation.
LEMMA CloudActs ==
  ASSUME TInv, [Next]_vars
  PROVE  \/ \E d \in DeviceIds : Cloud!SignIn(d)
         \/ \E i \in Installs : PushSend(i)
         \/ \E m \in verified : PushRuns(m)
         \/ \E d \in DeviceIds : Cloud!Revoke(d)
         \/ UNCHANGED cloudVars
<1>1. ASSUME NEW i \in Installs, SignIn(i) \/ SignInFails(i)
      PROVE  \E d \in DeviceIds : Cloud!SignIn(d)
  BY <1>1 DEF SignIn, SignInFails
<1>2. ASSUME NEW d \in DeviceIds, Revoke(d)
      PROVE  Cloud!Revoke(d)
  BY <1>2 DEF Revoke
<1>3. ASSUME NEW i \in Installs, \/ Append(i) \/ SignOut(i) \/ SignOutCutOff(i) \/ Restart(i)
                                 \/ PushUnreachable(i) \/ PullUnreachable(i) \/ ApplyFails(i)
      PROVE  UNCHANGED cloudVars
  BY <1>3, AppendIs DEF SignOut, SignOutCutOff, Restart, PushUnreachable, PullUnreachable, ApplyFails
<1>4. ASSUME NEW i \in Installs, PassSteps(i), ~PushSend(i)
      PROVE  UNCHANGED cloudVars
  BY <1>4 DEF PassSteps, PassMoves, StartPass, PassFenced, PushAcked, PushRefused,
              PushUnauthorized, EndSession, DropWindow, DrainEnds, PullPage, PullUnauthorized,
              ApplyPage, PullCaughtUp
<1>5. CASE UNCHANGED vars
  BY <1>5 DEF vars
<1>. QED BY <1>1, <1>2, <1>3, <1>4, <1>5 DEF Next

\* Every step is one of the log, or leaves the log alone.
LEMMA CloudStep ==
  ASSUME TInv, [Next]_vars
  PROVE  [Cloud!Next]_cloudVars
BY CloudActs, PushSendTypes, PushRunsTypes DEF Cloud!Next

\* The installs use the log as AccountLog lets any client use it.
THEOREM ImplementsAccountLog == Spec => Cloud!Spec
<1>1. Init => Cloud!Init
  BY DEF Init
<1>2. TInv /\ [Next]_vars => [Cloud!Next]_(Cloud!cloudVars)
  BY CloudStep DEF cloudVars, Cloud!cloudVars
<1>. QED BY <1>1, <1>2, TInvHolds, PTL DEF Spec, Cloud!Spec

LogInv == Cloud!SeqsAreDistinct /\ Cloud!DeviceOrder

\* So no two rows share a seq, and each device's stand in the order of its positions.
LEMMA LogInvHolds == Spec => []LogInv
<1>1. Init => Log!Init
  BY DEF Init, Cloud!Init, Log!Init
<1>2. TInv /\ [Next]_vars => [Log!Next]_(Log!cloudVars)
  BY CloudStep, SameStep
<1>3. Spec => Log!Spec
  BY <1>1, <1>2, TInvHolds, PTL DEF Spec, Log!Spec
<1>4. Log!PositionsAssumption /\ Log!LimitsAssumption
  BY ThreadSyncAssumption DEF Log!PositionsAssumption, Log!LimitsAssumption
<1>5. Log!Spec => []Log!SeqsAreDistinct
  BY <1>4, Log!SeqsDistinct
<1>6. Log!Spec => []Log!DeviceOrder
  BY <1>4, Log!DevicesInOrder
<1>7. Log!SeqsAreDistinct /\ Log!DeviceOrder => LogInv
  BY DEF LogInv, Log!SeqsAreDistinct, Cloud!SeqsAreDistinct, Log!DeviceOrder, Cloud!DeviceOrder
<1>. QED BY <1>3, <1>5, <1>6, <1>7, PTL

-----------------------------------------------------------------------------
(* What a step does to the sign-in and to the pass of an install, whoever takes it. *)

SignInStays(i) ==
  session'[i] = session[i] /\ credential'[i] = credential[i] /\ ownDevices'[i] = ownDevices[i]

SignInEnds(i) ==
  /\ session'[i].kind # "live" /\ credential'[i] \in {0, credential[i]}
  /\ ownDevices'[i] = ownDevices[i]

SignInOpens(i, d) ==
  /\ session'[i] = [kind |-> "live", id |-> NewId(i), device |-> d]
  /\ credential'[i] = d /\ ownDevices'[i] = ownDevices[i] \union {d}

\* The session a sign-in opens under a new device finds the queue reset.
SignInIsNew(i, d) ==
  /\ d \notin minted /\ minted' = minted \union {d} /\ Reset(i)
  /\ UNCHANGED <<rows, verified, pass>>

\* What a step does to a sign-in,
LEMMA SignFacts ==
  ASSUME TInv, [Next]_vars, NEW i \in Installs
  PROVE  \/ SignInStays(i)
         \/ SignInEnds(i)
         \/ \E d \in DeviceIds : SignInOpens(i, d) /\ (SignInIsNew(i, d) \/ d = credential[i])
<1>1. /\ session \in [Installs -> Session] /\ credential \in [Installs -> DeviceIds \union {0}]
      /\ ownDevices \in [Installs -> SUBSET DeviceIds]
  BY DEF TInv, SignTyped
<1>2. CASE UNCHANGED signVars
  BY <1>2 DEF signVars, SignInStays
<1>3. ASSUME NEW k \in Installs, SignIn(k)
      PROVE  SignInStays(i) \/ \E d \in DeviceIds : SignInOpens(i, d) /\ SignInIsNew(i, d)
  <2>1. PICK d \in DeviceIds :
          /\ Cloud!SignIn(d) /\ Reset(k) /\ UNCHANGED pass
          /\ credential' = [credential EXCEPT ![k] = d] /\ OpenSession(k, d)
    BY <1>3 DEF SignIn
  <2>2. CASE k = i
    BY <2>1, <2>2, <1>1 DEF OpenSession, SignInOpens, SignInIsNew, Cloud!SignIn
  <2>3. CASE k # i
    BY <2>1, <2>3, <1>1 DEF OpenSession, SignInStays
  <2>. QED BY <2>2, <2>3
<1>4. ASSUME NEW k \in Installs, SignOut(k) \/ SignOutCutOff(k)
      PROVE  SignInStays(i) \/ SignInEnds(i)
  <2>1. /\ session' = [session EXCEPT ![k] = [kind |-> "off", id |-> 0, device |-> 0]]
        /\ credential' = [credential EXCEPT ![k] = 0] /\ ownDevices' = ownDevices
    BY <1>4 DEF SignOut, SignOutCutOff
  <2>2. CASE k = i
    BY <2>1, <2>2, <1>1 DEF SignInEnds
  <2>3. CASE k # i
    BY <2>1, <2>3, <1>1 DEF SignInStays
  <2>. QED BY <2>2, <2>3
<1>5. ASSUME NEW k \in Installs, Restart(k)
      PROVE  \/ SignInStays(i) \/ SignInEnds(i)
             \/ \E d \in DeviceIds : SignInOpens(i, d) /\ d = credential[i]
  <2>1. /\ \/ credential[k] # 0 /\ OpenSession(k, credential[k])
           \/ /\ session' = [session EXCEPT ![k] = [kind |-> "off", id |-> 0, device |-> 0]]
              /\ UNCHANGED ownDevices
        /\ UNCHANGED credential
    BY <1>5 DEF Restart
  <2>2. CASE k = i
    BY <2>1, <2>2, <1>1 DEF OpenSession, SignInOpens, SignInEnds
  <2>3. CASE k # i
    BY <2>1, <2>3, <1>1 DEF OpenSession, SignInStays
  <2>. QED BY <2>2, <2>3
<1>6. ASSUME NEW k \in Installs, EndSession(k)
      PROVE  SignInStays(i) \/ SignInEnds(i)
  <2>1. /\ session' = [session EXCEPT ![k] = [@ EXCEPT !.kind = "ended", !.id = 0]]
        /\ UNCHANGED <<ownDevices, credential>>
    BY <1>6 DEF EndSession
  <2>2. CASE k = i
    <3> DEFINE s == [session[i] EXCEPT !.kind = "ended", !.id = 0]
    <3>1. s = [kind |-> "ended", id |-> 0, device |-> session[i].device]
      BY <1>1, EndedIs
    <3>2. session'[i] = s
      BY <2>1, <2>2, <1>1
    <3>. HIDE DEF s
    <3>. QED BY <2>1, <3>1, <3>2 DEF SignInEnds
  <2>3. CASE k # i
    BY <2>1, <2>3, <1>1 DEF SignInStays
  <2>. QED BY <2>2, <2>3
<1>7. ASSUME NEW k \in Installs, \/ Append(k) \/ SignInFails(k)
                                 \/ PushUnreachable(k) \/ PullUnreachable(k) \/ ApplyFails(k)
      PROVE  UNCHANGED signVars
  BY <1>7, AppendIs DEF SignInFails, PushUnreachable, PullUnreachable, ApplyFails
<1>8. ASSUME NEW k \in Installs, PassSteps(k)
      PROVE  UNCHANGED signVars \/ EndSession(k)
  BY <1>8 DEF PassSteps, PassMoves, StartPass, PassFenced, PushSend, PushAcked, PushRefused,
              PushUnauthorized, DropWindow, DrainEnds, PullPage, PullUnauthorized, ApplyPage,
              PullCaughtUp
<1>9. ASSUME NEW m \in verified, PushRuns(m)
      PROVE  UNCHANGED signVars
  BY <1>9 DEF PushRuns
<1>10. ASSUME NEW d \in DeviceIds, Revoke(d)
       PROVE  UNCHANGED signVars
  BY <1>10 DEF Revoke, signVars
<1>11. CASE UNCHANGED vars
  BY <1>2, <1>11 DEF vars
<1>. QED BY <1>2, <1>3, <1>4, <1>5, <1>6, <1>7, <1>8, <1>9, <1>10, <1>11 DEF Next

PassGoesOn(i) ==
  /\ pass'[i].session = pass[i].session /\ pass'[i].device = pass[i].device
  /\ pass'[i].own = pass[i].own
  /\ pass[i].pc = "idle" => pass'[i].pc = "idle"
  /\ pass'[i].page \subseteq pass[i].page \union rows

PassBegins(i) ==
  /\ pass'[i].session = session[i].id /\ pass'[i].device = session[i].device
  /\ pass'[i].own = ownDevices[i] /\ pass'[i].page = {}
  /\ Live(i) /\ UNCHANGED signVars

\* and to a pass.
LEMMA PassFacts ==
  ASSUME TInv, [Next]_vars, NEW i \in Installs
  PROVE  pass'[i] = NoPass \/ PassGoesOn(i) \/ PassBegins(i)
<1>1. pass \in [Installs -> Pass]
  BY DEF TInv, PassTyped
<1>2. CASE UNCHANGED pass
  BY <1>2 DEF PassGoesOn
<1>3. ASSUME NEW k \in Installs, pass' = [pass EXCEPT ![k] = NoPass]
      PROVE  pass'[i] = NoPass \/ PassGoesOn(i)
  BY <1>1, <1>3 DEF PassGoesOn
<1>4. ASSUME NEW k \in Installs, pass[k].pc # "idle", NEW pc, NEW round,
             pass' = [pass EXCEPT ![k] = CarryOn(k, pc, round)]
      PROVE  PassGoesOn(i)
  <2>1. CASE k = i
    <3>1. pass'[i] = CarryOn(i, pc, round)
      BY <1>1, <1>4, <2>1
    <3>. QED BY <3>1, <2>1, <1>4, CarryOnIs DEF PassOf, PassGoesOn
  <2>2. CASE k # i
    BY <1>1, <1>4, <2>2 DEF PassGoesOn
  <2>. QED BY <2>1, <2>2
<1>5. ASSUME NEW k \in Installs, StartPass(k)
      PROVE  PassGoesOn(i) \/ PassBegins(i)
  <2> DEFINE p == [NoPass EXCEPT !.pc = "push", !.session = session[k].id,
                                 !.device = session[k].device, !.own = ownDevices[k]]
  <2>1. pass' = [pass EXCEPT ![k] = p] /\ UNCHANGED signVars /\ Live(k)
    BY <1>5 DEF StartPass
  <2>2. p = PassOf("push", session[k].id, session[k].device, ownDevices[k], 0,
                   {}, 0, 0, NoAnswer, {}, FALSE)
    BY BegunIs
  <2>. HIDE DEF p
  <2>3. CASE k = i
    BY <1>1, <2>1, <2>2, <2>3 DEF PassOf, PassBegins
  <2>4. CASE k # i
    BY <1>1, <2>1, <2>4 DEF PassGoesOn
  <2>. QED BY <2>3, <2>4
<1>6. ASSUME NEW k \in Installs, PushSend(k)
      PROVE  PassGoesOn(i)
  <2>1. PICK last \in Window(k) :
          pass' = [pass EXCEPT ![k] =
            [@ EXCEPT !.pc = "pushing", !.batch = Sendable(k), !.through = last.pos,
                      !.rejected = Rejects(k)]]
    BY <1>6 DEF PushSend
  <2> DEFINE p == [pass[k] EXCEPT !.pc = "pushing", !.batch = Sendable(k), !.through = last.pos,
                                  !.rejected = Rejects(k)]
  <2>2. p = PassOf("pushing", pass[k].session, pass[k].device, pass[k].own, pass[k].round, Sendable(k),
                   last.pos, Rejects(k), pass[k].answer, pass[k].page, pass[k].more)
    BY <1>1, SentIs
  <2>3. pass' = [pass EXCEPT ![k] = p] /\ pass[k].pc = "push"
    BY <1>6, <2>1 DEF PushSend, PushReady, Draining
  <2>. HIDE DEF p
  <2>4. CASE k = i
    BY <1>1, <2>2, <2>3, <2>4 DEF PassOf, PassGoesOn
  <2>5. CASE k # i
    BY <1>1, <2>3, <2>5 DEF PassGoesOn
  <2>. QED BY <2>4, <2>5
<1>7. ASSUME NEW m \in verified, PushRuns(m)
      PROVE  PassGoesOn(i)
  <2>1. PICK answer : pass'[i] = Answered(m, answer, i)
    BY <1>7 DEF PushRuns, Answered
  <2> DEFINE p == [pass[i] EXCEPT !.answer = answer]
  <2>2. p = PassOf(pass[i].pc, pass[i].session, pass[i].device, pass[i].own, pass[i].round, pass[i].batch,
                   pass[i].through, pass[i].rejected, answer, pass[i].page, pass[i].more)
    BY <1>1, AnsweredIs
  <2>3. pass'[i] \in {p, pass[i]}
    BY <2>1 DEF Answered
  <2>. HIDE DEF p
  <2>. QED BY <2>2, <2>3 DEF PassOf, PassGoesOn
<1>8. ASSUME NEW k \in Installs, PullPage(k)
      PROVE  PassGoesOn(i)
  <2> DEFINE page == Cloud!Page(cursor[k], PullLimit)
             more == Cloud!HasMore(cursor[k], PullLimit)
             p == [pass[k] EXCEPT !.pc = "applying", !.page = page, !.more = more]
  <2>1. p = PassOf("applying", pass[k].session, pass[k].device, pass[k].own, pass[k].round, pass[k].batch,
                   pass[k].through, pass[k].rejected, pass[k].answer, page, more)
    BY <1>1, PulledIs
  <2>2. pass' = [pass EXCEPT ![k] = p] /\ pass[k].pc = "pull"
    BY <1>8 DEF PullPage
  <2>3. page \subseteq rows
    BY DEF Cloud!Page
  <2>. HIDE DEF p, page
  <2>4. CASE k = i
    BY <1>1, <2>1, <2>2, <2>3, <2>4 DEF PassOf, PassGoesOn
  <2>5. CASE k # i
    BY <1>1, <2>2, <2>5 DEF PassGoesOn
  <2>. QED BY <2>4, <2>5
<1>9. ASSUME NEW k \in Installs,
             \/ PassFenced(k) \/ PullCaughtUp(k) \/ PushUnauthorized(k) \/ PullUnauthorized(k)
             \/ PullUnreachable(k) \/ ApplyFails(k) \/ SignOutCutOff(k) \/ Restart(k)
      PROVE  pass'[i] = NoPass \/ PassGoesOn(i)
  <2>1. pass' = [pass EXCEPT ![k] = NoPass]
    BY <1>9 DEF PassFenced, PullCaughtUp, PushUnauthorized, PullUnauthorized, EndSession,
                PullUnreachable, ApplyFails, SignOutCutOff, Restart
  <2>. QED BY <1>3, <2>1
<1>10. ASSUME NEW k \in Installs,
              PushAcked(k) \/ PushRefused(k) \/ DropWindow(k) \/ DrainEnds(k) \/ PushUnreachable(k)
       PROVE  PassGoesOn(i)
  <2>1. pass[k].pc # "idle"
    BY <1>10 DEF PushAcked, PushRefused, DropWindow, DrainEnds, PushUnreachable, PushReady, Draining
  <2>2. \/ pass' = [pass EXCEPT ![k] = CarryOn(k, "push", pass[k].round + 1)]
        \/ pass' = [pass EXCEPT ![k] = CarryOn(k, "pull", 0)]
    BY <1>10 DEF PushAcked, PushRefused, DropWindow, DrainEnds, PushUnreachable, NextRound, TurnToPull
  <2>. QED BY <1>4, <2>1, <2>2
<1>11. ASSUME NEW k \in Installs, ApplyPage(k)
       PROVE  pass'[i] = NoPass \/ PassGoesOn(i)
  <2>1. pass[k].pc # "idle"
    BY <1>11 DEF ApplyPage
  <2>2. \/ pass' = [pass EXCEPT ![k] = CarryOn(k, "pull", pass[k].round + 1)]
        \/ pass' = [pass EXCEPT ![k] = NoPass]
    BY <1>1, <1>11 DEF ApplyPage
  <2>. QED BY <1>3, <1>4, <2>1, <2>2
<1>12. ASSUME NEW k \in Installs, Append(k) \/ SignIn(k) \/ SignInFails(k) \/ SignOut(k)
       PROVE  UNCHANGED pass
  BY <1>12, AppendIs DEF SignIn, SignInFails, SignOut
<1>13. ASSUME NEW d \in DeviceIds, Revoke(d)
       PROVE  UNCHANGED pass
  BY <1>13 DEF Revoke
<1>14. CASE UNCHANGED vars
  BY <1>2, <1>14 DEF vars
<1>. QED BY <1>2, <1>5, <1>6, <1>7, <1>8, <1>9, <1>10, <1>11, <1>12, <1>13, <1>14
     DEF Next, PassSteps, PassMoves

\* A session runs under the credential of its install, and so does the pass it still fences.
Signed ==
  \A i \in Installs :
    /\ Live(i) => session[i].device = credential[i]
    /\ credential[i] # 0 => credential[i] \in ownDevices[i]
    /\ ownDevices[i] \subseteq minted
    /\ pass[i].pc # "idle" /\ Fence(i) =>
         pass[i].device = credential[i] /\ pass[i].own = ownDevices[i]

LEMMA SignedInit ==
  ASSUME Init
  PROVE  Signed
BY DEF Init, Signed, Live, NoPass

LEMMA SignedStep ==
  ASSUME TInv, Signed, [Next]_vars
  PROVE  Signed'
<1>. SUFFICES ASSUME NEW i \in Installs
              PROVE  /\ Live(i)' => session'[i].device = credential'[i]
                     /\ credential'[i] # 0 => credential'[i] \in ownDevices'[i]
                     /\ ownDevices'[i] \subseteq minted'
                     /\ pass'[i].pc # "idle" /\ Fence(i)' =>
                          pass'[i].device = credential'[i] /\ pass'[i].own = ownDevices'[i]
  BY DEF Signed
<1>1. minted \subseteq minted'
  BY CloudStep DEF Cloud!Next, Cloud!SignIn, Cloud!Verify, Cloud!Push, Cloud!Revoke,
                   Cloud!DeleteDevices, Cloud!Purge, cloudVars
<1>2. NoPass.pc = "idle"
  BY DEF NoPass
<1>3. CASE SignInStays(i)
  <2>1. /\ Live(i)' => session'[i].device = credential'[i]
        /\ credential'[i] # 0 => credential'[i] \in ownDevices'[i]
        /\ ownDevices'[i] \subseteq minted'
    BY <1>1, <1>3 DEF SignInStays, Signed, Live
  <2>2. CASE pass'[i] = NoPass
    BY <1>2, <2>1, <2>2
  <2>3. CASE PassGoesOn(i)
    BY <1>3, <2>1, <2>3 DEF PassGoesOn, SignInStays, Signed, Fence, Live
  <2>4. CASE PassBegins(i)
    BY <1>3, <2>1, <2>4 DEF PassBegins, SignInStays, Signed, Fence, Live
  <2>. QED BY <2>2, <2>3, <2>4, PassFacts
<1>4. CASE SignInEnds(i)
  <2>1. ~Live(i)'
    BY <1>4 DEF SignInEnds, Live
  <2>. QED BY <1>1, <1>4, <2>1 DEF SignInEnds, Signed, Fence
<1>5. ASSUME NEW d \in DeviceIds, SignInOpens(i, d), SignInIsNew(i, d) \/ d = credential[i]
      PROVE  /\ Live(i)' => session'[i].device = credential'[i]
             /\ credential'[i] # 0 => credential'[i] \in ownDevices'[i]
             /\ ownDevices'[i] \subseteq minted'
             /\ pass'[i].pc # "idle" /\ Fence(i)' =>
                  pass'[i].device = credential'[i] /\ pass'[i].own = ownDevices'[i]
  <2>1. /\ session'[i].device = d /\ credential'[i] = d /\ ownDevices'[i] = ownDevices[i] \union {d}
        /\ session'[i].id = NewId(i)
    BY <1>5 DEF SignInOpens
  <2>2. d \in minted'
    BY <1>1, <1>5 DEF SignInIsNew, Signed, DeviceIds
  <2>3. ownDevices'[i] \subseteq minted'
    BY <1>1, <2>1, <2>2 DEF Signed
  <2>4. CASE pass'[i] = NoPass
    BY <1>2, <2>1, <2>3, <2>4
  <2>5. CASE PassGoesOn(i)
    <3>1. NewId(i) # pass[i].session
      BY DEF NewId
    <3>2. ~Fence(i)'
      BY <2>1, <2>5, <3>1 DEF PassGoesOn, Fence
    <3>. QED BY <2>1, <2>3, <3>2
  <2>6. CASE PassBegins(i)
    <3>1. session'[i] = session[i] /\ credential'[i] = credential[i] /\ ownDevices'[i] = ownDevices[i]
      BY <2>6 DEF PassBegins, signVars
    <3>. QED BY <2>1, <2>3, <2>6, <3>1 DEF PassBegins, Signed
  <2>. QED BY <2>4, <2>5, <2>6, PassFacts
<1>. QED BY <1>3, <1>4, <1>5, SignFacts

-----------------------------------------------------------------------------
(* What an event's origin says of it. *)

\* What a step does to the tables: it appends, applies a page, or leaves them alone.
LandsPage(i, last) ==
  /\ pass[i].pc = "applying" /\ Fence(i) /\ ApplyThrough(i, last)
  /\ UNCHANGED <<rows, verified, minted, lastDeviceSeq, outbox, dropped, issued, signVars>>

LEMMA TableFacts ==
  ASSUME TInv, [Next]_vars
  PROVE  \/ \E k \in Installs : Append(k)
         \/ \E k \in Installs : \E last \in pass[k].page : LandsPage(k, last)
         \/ UNCHANGED <<events, issued>>
<1>1. ASSUME NEW k \in Installs, ApplyPage(k) \/ ApplyFails(k)
      PROVE  \E last \in pass[k].page : LandsPage(k, last)
  <2>1. PICK last \in pass[k].page : ApplyThrough(k, last)
    BY <1>1 DEF ApplyPage, ApplyFails, CommitPoints
  <2>. QED BY <1>1, <2>1 DEF ApplyPage, ApplyFails, LandsPage, cloudVars, queueVars, signVars
<1>2. ASSUME NEW k \in Installs, SignIn(k) \/ SignInFails(k) \/ SignOut(k)
      PROVE  UNCHANGED <<events, issued>>
  BY <1>2 DEF SignIn, SignInFails, SignOut, Reset
<1>3. ASSUME NEW k \in Installs, SignOutCutOff(k) \/ Restart(k) \/ PushUnreachable(k) \/ PullUnreachable(k)
      PROVE  UNCHANGED <<events, issued>>
  BY <1>3 DEF SignOutCutOff, Restart, PushUnreachable, PullUnreachable, pullVars, queueVars
<1>4. ASSUME NEW k \in Installs, PassSteps(k), ~ApplyPage(k)
      PROVE  UNCHANGED <<events, issued>>
  BY <1>4 DEF PassSteps, PassMoves, StartPass, PassFenced, PushSend, PushAcked, PushRefused,
              PushUnauthorized, EndSession, DropWindow, DeleteThrough, DrainEnds, PullPage,
              PullUnauthorized, PullCaughtUp, pullVars, queueVars
<1>5. ASSUME NEW m \in verified, PushRuns(m)
      PROVE  UNCHANGED <<events, issued>>
  BY <1>5 DEF PushRuns, pullVars, queueVars
<1>6. ASSUME NEW d \in DeviceIds, Revoke(d)
      PROVE  UNCHANGED <<events, issued>>
  BY <1>6 DEF Revoke, pullVars, queueVars
<1>7. CASE UNCHANGED vars
  BY <1>7 DEF vars, pullVars, queueVars
<1>. QED BY <1>1, <1>2, <1>3, <1>4, <1>5, <1>6, <1>7 DEF Next

\* The ids of an install are only added to.
LEMMA IdsGrow ==
  ASSUME TInv, [Next]_vars
  PROVE  /\ \A i \in Installs : ownDevices[i] \subseteq ownDevices'[i]
         /\ minted \subseteq minted' /\ rows \subseteq rows' /\ issued \subseteq issued'
<1>1. \A i \in Installs : ownDevices[i] \subseteq ownDevices'[i]
  BY SignFacts DEF SignInStays, SignInEnds, SignInOpens
<1>2. minted \subseteq minted' /\ rows \subseteq rows'
  BY CloudActs DEF PushSend, PushRuns, Cloud!SignIn, Cloud!Verify, Cloud!Push, Cloud!Revoke, cloudVars
<1>3. issued \subseteq issued'
  BY TableFacts, AppendFacts DEF Appends, LandsPage
<1>. QED BY <1>1, <1>2, <1>3

Issued(d, q) == [device |-> d, pos |-> q.pos, event |-> q.event] \in issued

\* An event is queued once, under an id of the install that wrote it.
QueuedOnce ==
  /\ \A q \in issued : /\ q.device \in ownDevices[q.event.by]
                        /\ q.event.n <= Cardinality(OwnRows(q.event.by))
  /\ \A p, q \in issued : p.event = q.event => p = q

LEMMA QueuedOnceStep ==
  ASSUME TInv, Signed, QueuedOnce, [Next]_vars
  PROVE  QueuedOnce'
<1>1. \A q \in issued : q.event.by \in Installs /\ q.event.n \in Nat
  BY ThreadSyncAssumption DEF TInv, QueueTyped, Event
<1>2. ASSUME NEW k \in Installs, Append(k)
      PROVE  QueuedOnce'
  <2>1. PICK e \in Event, row \in LocalRow : Appends(k, e, row)
    BY <1>2, AppendFacts
  <2> DEFINE new == [device |-> session[k].device, pos |-> lastDeviceSeq[k] + 1, event |-> e]
  <2>2. /\ new.event = e /\ e.by = k /\ e.n = Cardinality(OwnRows(k)) + 1
        /\ new.device = session[k].device
    BY <2>1 DEF Appends
  <2>3. \/ issued' = issued \union {new} /\ Live(k)
        \/ issued' = issued
    BY <2>1 DEF Appends
  <2>4. ownDevices' = ownDevices
    BY <2>1 DEF Appends, signVars
  <2>5. \A j \in Installs : Cardinality(OwnRows(j)) \in Nat
    BY OwnRowsFinite
  <2>6. \A j \in Installs : Cardinality(OwnRows(j)') = IF j = k THEN Cardinality(OwnRows(j)) + 1
                                                            ELSE Cardinality(OwnRows(j))
    BY <2>1 DEF Appends
  <2>. HIDE DEF new
  <2>7. ASSUME NEW q \in issued'
        PROVE  q.device \in ownDevices'[q.event.by] /\ q.event.n <= Cardinality(OwnRows(q.event.by))'
    <3>1. CASE q \in issued
      <4>1. q.event.n <= Cardinality(OwnRows(q.event.by))
        BY <3>1 DEF QueuedOnce
      <4>2. Cardinality(OwnRows(q.event.by)) <= Cardinality(OwnRows(q.event.by)')
        BY <1>1, <2>5, <2>6, <3>1
      <4>3. Cardinality(OwnRows(q.event.by)') \in Nat
        BY <1>1, <2>5, <2>6, <3>1
      <4>4. q.event.n <= Cardinality(OwnRows(q.event.by)')
        BY <1>1, <2>5, <3>1, <4>1, <4>2, <4>3
      <4>. QED BY <3>1, <4>4, <2>4 DEF QueuedOnce
    <3>2. CASE q = new /\ Live(k)
      <4>1. session[k].device \in ownDevices[k]
        BY <3>2 DEF Signed, TInv, SignTyped, DeviceIds
      <4>2. Cardinality(OwnRows(k)') = Cardinality(OwnRows(k)) + 1
        BY <2>6
      <4>3. OwnRows(q.event.by)' = OwnRows(k)'
        BY <3>2, <2>2
      <4>. QED BY <3>2, <4>1, <4>2, <4>3, <2>2, <2>4, <2>5
    <3>. QED BY <2>3, <3>1, <3>2
  <2>8. ASSUME NEW q \in issued
        PROVE  q.event # e
    BY <1>1, <2>2, <2>5 DEF QueuedOnce
  <2>9. \A p, q \in issued' : p.event = q.event => p = q
    BY <2>2, <2>3, <2>8 DEF QueuedOnce
  <2>. QED BY <2>7, <2>9 DEF QueuedOnce
<1>3. ASSUME UNCHANGED issued, \A j \in Installs : OwnRows(j)' = OwnRows(j)
      PROVE  QueuedOnce'
  BY <1>1, <1>3, IdsGrow DEF QueuedOnce
<1>4. ASSUME NEW k \in Installs, NEW last \in pass[k].page, LandsPage(k, last)
      PROVE  QueuedOnce'
  BY <1>3, <1>4, ApplyThroughTypes DEF LandsPage
<1>5. CASE UNCHANGED <<events, issued>>
  BY <1>3, <1>5 DEF OwnRows
<1>. QED BY <1>2, <1>4, <1>5, TableFacts

\* The rows of a table: the install's own events, numbered apart, and events others queued, each
\* under its origin once.
TablesSound ==
  \A i \in Installs :
    /\ \A r \in OwnRows(i) : r.event.by = i
    /\ \A r, s \in OwnRows(i) : r.event = s.event => r = s
    /\ \A r \in events[i] : r.device # 0 => Issued(r.device, r) /\ r.event.by # i
    /\ \A r, s \in events[i] : r.device # 0 /\ r.device = s.device /\ r.pos = s.pos => r = s

\* What is on its way to the log, what it holds and what is pulled from it was queued.
LogSound ==
  /\ \A i \in Installs : credential[i] # 0 => \A q \in outbox[i] : Issued(credential[i], q)
  /\ \A m \in verified : \A q \in m.batch : Issued(m.device, q)
  /\ \A r \in rows : Issued(r.device, r)
  /\ \A i \in Installs : pass[i].page \subseteq rows

\* What a page adds: rows of it that are no own ones, under origins the table does not have.
Landing(i, lands) ==
  /\ lands \subseteq pass[i].page
  /\ \A r \in lands : r.device \notin pass[i].own /\ ~StoredOrigin(i, r)
  /\ events' = [events EXCEPT ![i] = events[i] \union {Stored(i, lands, r) : r \in lands}]

LEMMA LandingIs ==
  ASSUME TInv, NEW i \in Installs, NEW last \in pass[i].page, ApplyThrough(i, last)
  PROVE  \E lands : Landing(i, lands)
<1> DEFINE read  == {r \in pass[i].page : r.seq <= last.seq}
           lands == Lands(i, read)
<1>1. events' = [events EXCEPT ![i] = events[i] \union {Stored(i, lands, r) : r \in lands}]
  BY DEF ApplyThrough, Stored, TInv, TableTyped
<1>2. lands \subseteq pass[i].page /\ \A r \in lands : Applies(i, r) /\ ~StoredOrigin(i, r)
  BY DEF Lands
<1>. HIDE DEF lands
<1>3. Landing(i, lands)
  BY <1>1, <1>2 DEF Landing, Applies, Own
<1>. QED BY <1>3

\* A row's place in its device's order is its identity.
LEMMA OriginIsRow ==
  ASSUME TInv, LogInv, NEW r \in rows, NEW s \in rows, r.device = s.device, r.pos = s.pos
  PROVE  r = s
<1>1. r.seq \in Nat /\ s.seq \in Nat /\ r.pos \in Nat /\ s.pos \in Nat
  BY DEF TInv, Cloud!TypeOK, Cloud!Row
<1>2. ~(r.seq < s.seq) /\ ~(s.seq < r.seq)
  BY <1>1 DEF LogInv, Cloud!DeviceOrder
<1>. QED BY <1>1, <1>2 DEF LogInv, Cloud!SeqsAreDistinct

LEMMA TablesSoundStep ==
  ASSUME TInv, Signed, LogInv, QueuedOnce, LogSound, TablesSound, [Next]_vars
  PROVE  TablesSound'
<1>1. issued \subseteq issued'
  BY IdsGrow
<1>2. ASSUME NEW k \in Installs, Append(k)
      PROVE  TablesSound'
  <2>1. PICK e \in Event, row \in LocalRow : Appends(k, e, row)
    BY <1>2, AppendFacts
  <2>2. /\ e.by = k /\ row.device = 0 /\ row.event = e /\ e.n = Cardinality(OwnRows(k)) + 1
        /\ events' = [events EXCEPT ![k] = events[k] \union {row}]
        /\ \A j \in Installs : OwnRows(j)' = IF j = k THEN OwnRows(k) \union {row} ELSE OwnRows(j)
    BY <2>1 DEF Appends
  <2>3. ASSUME NEW r \in OwnRows(k)
        PROVE  r.event # e
    BY <2>2, OwnRowsFinite DEF TInv, Counted
  <2>. SUFFICES ASSUME NEW i \in Installs
                PROVE  /\ \A r \in OwnRows(i)' : r.event.by = i
                       /\ \A r, s \in OwnRows(i)' : r.event = s.event => r = s
                       /\ \A r \in events'[i] : r.device # 0 => Issued(r.device, r)' /\ r.event.by # i
                       /\ \A r, s \in events'[i] :
                            r.device # 0 /\ r.device = s.device /\ r.pos = s.pos => r = s
    BY DEF TablesSound
  <2>4. \A r \in OwnRows(i)' : r.event.by = i
    BY <2>2 DEF TablesSound
  <2>5. \A r, s \in OwnRows(i)' : r.event = s.event => r = s
    BY <2>2, <2>3 DEF TablesSound
  <2>6. \A r \in events'[i] : r.device # 0 => r \in events[i]
    BY <2>2 DEF TInv, TableTyped
  <2>7. \A r \in events[i] : r.device # 0 => Issued(r.device, r)' /\ r.event.by # i
    BY <1>1 DEF TablesSound, Issued
  <2>. QED BY <2>4, <2>5, <2>6, <2>7 DEF TablesSound
<1>3. ASSUME NEW k \in Installs, NEW last \in pass[k].page, LandsPage(k, last)
      PROVE  TablesSound'
  <2>1. PICK lands : Landing(k, lands)
    BY <1>3, LandingIs DEF LandsPage
  <2>2. \A j \in Installs : OwnRows(j)' = OwnRows(j)
    BY <1>3, ApplyThroughTypes DEF LandsPage
  <2>3. pass[k].own = ownDevices[k] /\ UNCHANGED issued
    BY <1>3 DEF LandsPage, Signed
  <2>4. ASSUME NEW r \in lands
        PROVE  /\ r \in rows /\ Issued(r.device, r) /\ r.event.by # k
               /\ r.device # 0 /\ ~StoredOrigin(k, r)
    <3>1. r \in rows
      BY <2>1 DEF Landing, LogSound
    <3>2. Issued(r.device, r)
      BY <3>1 DEF LogSound
    <3>3. r.device # 0
      BY <3>1 DEF TInv, Cloud!TypeOK, Cloud!Row, DeviceIds
    <3>4. r.event.by # k
      BY <2>1, <2>3, <3>2 DEF Landing, QueuedOnce, Issued
    <3>. QED BY <2>1, <3>1, <3>2, <3>3, <3>4 DEF Landing
  <2>5. ASSUME NEW t \in events'[k], t \notin events[k]
        PROVE  \E r \in lands : t = Stored(k, lands, r)
    BY <2>1, <2>5 DEF Landing, TInv, TableTyped
  <2>6. \A r : LET t == Stored(k, lands, r) IN t.device = r.device /\ t.pos = r.pos /\ t.event = r.event
    BY DEF Stored
  <2>7. ASSUME NEW t \in events'[k], t.device # 0
        PROVE  Issued(t.device, t) /\ t.event.by # k
    <3>1. CASE t \in events[k]
      BY <2>7, <3>1 DEF TablesSound
    <3>2. CASE t \notin events[k]
      BY <2>4, <2>5, <2>6, <3>2 DEF Issued
    <3>. QED BY <3>1, <3>2
  <2>8. ASSUME NEW t \in events'[k], NEW u \in events'[k], t.device # 0, t.device = u.device, t.pos = u.pos
        PROVE  t = u
    <3>1. CASE t \in events[k] /\ u \in events[k]
      BY <2>8, <3>1 DEF TablesSound
    <3>2. CASE t \notin events[k] /\ u \notin events[k]
      <4>1. PICK r \in lands : t = Stored(k, lands, r)
        BY <2>5, <3>2
      <4>2. PICK s \in lands : u = Stored(k, lands, s)
        BY <2>5, <3>2
      <4>3. r = s
        BY <4>1, <4>2, <2>4, <2>6, <2>8, OriginIsRow
      <4>. QED BY <4>1, <4>2, <4>3
    <3>3. CASE t \in events[k] /\ u \notin events[k]
      BY <2>4, <2>5, <2>6, <2>8, <3>3 DEF StoredOrigin
    <3>4. CASE t \notin events[k] /\ u \in events[k]
      BY <2>4, <2>5, <2>6, <2>8, <3>4 DEF StoredOrigin
    <3>. QED BY <3>1, <3>2, <3>3, <3>4
  <2>9. \A j \in Installs : j # k => events'[j] = events[j]
    BY <2>1 DEF Landing, TInv, TableTyped
  <2>. SUFFICES ASSUME NEW i \in Installs
                PROVE  /\ \A r \in OwnRows(i)' : r.event.by = i
                       /\ \A r, s \in OwnRows(i)' : r.event = s.event => r = s
                       /\ \A r \in events'[i] : r.device # 0 => Issued(r.device, r)' /\ r.event.by # i
                       /\ \A r, s \in events'[i] :
                            r.device # 0 /\ r.device = s.device /\ r.pos = s.pos => r = s
    BY DEF TablesSound
  <2>10. \A r : Issued(r.device, r)' <=> Issued(r.device, r)
    BY <2>3 DEF Issued
  <2>11. CASE i = k
    BY <2>2, <2>7, <2>8, <2>10, <2>11 DEF TablesSound
  <2>12. CASE i # k
    BY <2>2, <2>9, <2>10, <2>12 DEF TablesSound
  <2>. QED BY <2>11, <2>12
<1>4. CASE UNCHANGED <<events, issued>>
  BY <1>4 DEF TablesSound, OwnRows, Issued
<1>. QED BY <1>2, <1>3, <1>4, TableFacts

\* The queue of an install: reset, appended to, or deleted from its head.
LEMMA OutboxFacts ==
  ASSUME TInv, [Next]_vars, NEW i \in Installs
  PROVE  \/ \E e, row : Appends(i, e, row)
         \/ outbox'[i] \subseteq outbox[i]
<1>1. outbox \in [Installs -> SUBSET Cloud!Entry]
  BY DEF TInv, QueueTyped
<1>2. ASSUME NEW k \in Installs, Append(k)
      PROVE  (\E e, row : Appends(i, e, row)) \/ outbox'[i] \subseteq outbox[i]
  <2>1. PICK e, row : Appends(k, e, row)
    BY <1>2, AppendFacts
  <2>2. CASE k = i
    BY <2>1, <2>2
  <2>3. CASE k # i
    BY <1>1, <2>1, <2>3 DEF Appends
  <2>. QED BY <2>2, <2>3
<1>3. ASSUME NEW k \in Installs, SignIn(k) \/ SignInFails(k) \/ SignOut(k)
      PROVE  outbox'[i] \subseteq outbox[i]
  BY <1>1, <1>3 DEF SignIn, SignInFails, SignOut, Reset
<1>4. ASSUME NEW k \in Installs, \/ SignOutCutOff(k) \/ Restart(k) \/ PushUnreachable(k)
                                 \/ PullUnreachable(k) \/ ApplyFails(k)
      PROVE  outbox' = outbox
  BY <1>4 DEF SignOutCutOff, Restart, PushUnreachable, PullUnreachable, ApplyFails, queueVars
<1>5. ASSUME NEW k \in Installs, PushAcked(k) \/ PushRefused(k) \/ DropWindow(k)
      PROVE  outbox'[i] \subseteq outbox[i]
  <2>1. PICK through : outbox' = [outbox EXCEPT ![k] = {q \in @ : q.pos > through}]
    BY <1>5 DEF PushAcked, PushRefused, DropWindow, DeleteThrough
  <2>. QED BY <1>1, <2>1
<1>6. ASSUME NEW k \in Installs, PassSteps(k), ~PushAcked(k), ~PushRefused(k), ~DropWindow(k)
      PROVE  outbox' = outbox
  BY <1>6 DEF PassSteps, PassMoves, StartPass, PassFenced, PushSend, PushUnauthorized, EndSession,
              DrainEnds, PullPage, PullUnauthorized, ApplyPage, PullCaughtUp, queueVars
<1>7. ASSUME NEW m \in verified, PushRuns(m)
      PROVE  outbox' = outbox
  BY <1>7 DEF PushRuns, queueVars
<1>8. ASSUME NEW d \in DeviceIds, Revoke(d)
      PROVE  outbox' = outbox
  BY <1>8 DEF Revoke, queueVars
<1>9. CASE UNCHANGED vars
  BY <1>9 DEF vars, queueVars
<1>. QED BY <1>2, <1>3, <1>4, <1>5, <1>6, <1>7, <1>8, <1>9 DEF Next

\* What a push run adds to the log: rows for entries of its batch.
LEMMA LandedFacts ==
  ASSUME TInv, NEW m \in verified, Cloud!Push(m), NEW r \in rows', r \notin rows
  PROVE  \E e \in m.batch : r.device = m.device /\ r.pos = e.pos /\ r.event = e.event
<1> DEFINE fresh == IF purged \/ Cloud!Disordered(m.batch) THEN {} ELSE Cloud!Fresh(m.device, m.batch)
<1>1. fresh \subseteq m.batch
  BY DEF Cloud!Fresh, Cloud!Accepted
<1>2. rows' = rows \union Cloud!Landed(m.device, fresh)
  BY DEF Cloud!Push
<1>. HIDE DEF fresh
<1>. QED BY <1>1, <1>2 DEF Cloud!Landed

LEMMA LogSoundStep ==
  ASSUME TInv, Signed, LogSound, [Next]_vars
  PROVE  LogSound'
<1>1. issued \subseteq issued' /\ rows \subseteq rows'
  BY IdsGrow
<1>2. ASSUME NEW i \in Installs, credential'[i] # 0, NEW q \in outbox'[i]
      PROVE  [device |-> credential'[i], pos |-> q.pos, event |-> q.event] \in issued'
  <2>0. ASSUME q \in outbox[i], credential'[i] = credential[i]
        PROVE  [device |-> credential[i], pos |-> q.pos, event |-> q.event] \in issued'
    BY <1>1, <1>2, <2>0 DEF LogSound, Issued
  <2>1. CASE \E e, row : Appends(i, e, row)
    <3>1. PICK e, row : Appends(i, e, row)
      BY <2>1
    <3> DEFINE new == [pos |-> lastDeviceSeq[i] + 1, event |-> e]
    <3>2. credential' = credential
      BY <3>1 DEF Appends, signVars
    <3>3. CASE q \in outbox[i]
      BY <2>0, <3>2, <3>3
    <3>4. CASE q \notin outbox[i]
      <4>1. q = new /\ Live(i)
        BY <1>2, <3>1, <3>4 DEF Appends, TInv, QueueTyped
      <4>2. issued' = issued \union {[device |-> session[i].device, pos |-> new.pos, event |-> new.event]}
        BY <3>1, <4>1 DEF Appends
      <4>3. session[i].device = credential[i]
        BY <4>1 DEF Signed
      <4>. QED BY <3>2, <4>1, <4>2, <4>3
    <3>. QED BY <3>3, <3>4
  <2>2. CASE outbox'[i] \subseteq outbox[i] /\ credential'[i] = credential[i]
    BY <1>2, <2>0, <2>2
  <2>3. ASSUME NEW d \in DeviceIds, SignInOpens(i, d), SignInIsNew(i, d)
        PROVE  outbox'[i] = {}
    BY <2>3 DEF SignInIsNew, Reset, TInv, QueueTyped
  <2>4. credential'[i] = credential[i] \/ outbox'[i] = {}
    BY <1>2, <2>3, SignFacts DEF SignInStays, SignInEnds, SignInOpens
  <2>. QED BY <1>2, <2>1, <2>2, <2>4, OutboxFacts
<1>3. ASSUME NEW m \in verified', NEW q \in m.batch
      PROVE  Issued(m.device, q)'
  <2>1. CASE m \in verified
    BY <1>1, <1>3, <2>1 DEF LogSound, Issued
  <2>2. CASE m \notin verified
    <3>1. PICK i \in Installs : PushSend(i)
      BY <1>3, <2>2, CloudActs DEF Cloud!SignIn, PushRuns, Cloud!Push, Cloud!Revoke, cloudVars
    <3>2. m.device = pass[i].device /\ m.batch = Sendable(i)
      BY <1>3, <2>2, <3>1 DEF PushSend, Cloud!Verify
    <3>3. pass[i].device = credential[i] /\ credential[i] # 0
      BY <3>1 DEF PushSend, PushReady, Draining, Signed, Fence, Live, TInv, SignTyped, DeviceIds
    <3>4. q \in outbox[i]
      BY <1>3, <3>2, WindowFacts
    <3>. QED BY <1>1, <3>2, <3>3, <3>4 DEF LogSound, Issued
  <2>. QED BY <2>1, <2>2
<1>4. ASSUME NEW r \in rows'
      PROVE  Issued(r.device, r)'
  <2>1. CASE r \in rows
    BY <1>1, <2>1 DEF LogSound, Issued
  <2>2. CASE r \notin rows
    <3>1. PICK m \in verified : Cloud!Push(m)
      BY <1>4, <2>2, CloudActs DEF Cloud!SignIn, PushSend, Cloud!Verify, PushRuns, Cloud!Revoke, cloudVars
    <3>2. PICK e \in m.batch : r.device = m.device /\ r.pos = e.pos /\ r.event = e.event
      BY <1>4, <2>2, <3>1, LandedFacts
    <3>. QED BY <1>1, <3>2 DEF LogSound, Issued
  <2>. QED BY <2>1, <2>2
<1>5. ASSUME NEW i \in Installs
      PROVE  pass'[i].page \subseteq rows'
  <2>1. NoPass.page = {}
    BY DEF NoPass
  <2>2. pass[i].page \subseteq rows
    BY DEF LogSound
  <2>. QED BY <1>1, <2>1, <2>2, PassFacts DEF PassGoesOn, PassBegins
<1>6. \A i \in Installs : credential'[i] # 0 =>
        \A q \in outbox'[i] : [device |-> credential'[i], pos |-> q.pos, event |-> q.event] \in issued'
  BY <1>2
<1>. QED BY <1>3, <1>4, <1>5, <1>6 DEF LogSound, Issued

LEMMA OriginsInit ==
  ASSUME Init
  PROVE  QueuedOnce /\ TablesSound /\ LogSound
<1>1. NoPass.page = {}
  BY DEF NoPass
<1>. QED BY <1>1 DEF Init, Cloud!Init, QueuedOnce, TablesSound, OwnRows, LogSound

LEMMA OriginsHold == Spec => [](Signed /\ QueuedOnce /\ TablesSound /\ LogSound)
<1>1. TInv /\ TInv' /\ LogInv /\ (Signed /\ QueuedOnce /\ TablesSound /\ LogSound) /\ [Next]_vars
        => (Signed /\ QueuedOnce /\ TablesSound /\ LogSound)'
  BY SignedStep, QueuedOnceStep, TablesSoundStep, LogSoundStep
<1>. QED BY <1>1, SignedInit, OriginsInit, TInvHolds, LogInvHolds, PTL DEF Spec

\* No install ever holds an event twice: its own are numbered apart, none of them comes back from
\* the log, and another's comes under its one origin, which the table has at most once.
THEOREM HoldsNothingTwice == Spec => []NothingTwice
<1>1. TInv /\ QueuedOnce /\ TablesSound => NothingTwice
  <2>. SUFFICES ASSUME TInv, QueuedOnce, TablesSound, NEW i \in Installs,
                       NEW r \in events[i], NEW s \in events[i], r.event = s.event
                PROVE  r = s
    BY DEF NothingTwice
  <2>1. CASE r.device = 0 /\ s.device = 0
    BY <2>1 DEF TablesSound, OwnRows
  <2>2. CASE (r.device = 0) # (s.device = 0)
    BY <2>2 DEF TablesSound, OwnRows
  <2>3. CASE r.device # 0 /\ s.device # 0
    <3> DEFINE p == [device |-> r.device, pos |-> r.pos, event |-> r.event]
               q == [device |-> s.device, pos |-> s.pos, event |-> s.event]
    <3>1. p \in issued /\ q \in issued
      BY <2>3 DEF TablesSound, Issued
    <3>2. p.event = q.event
      OBVIOUS
    <3>3. p = q
      BY <3>1, <3>2 DEF QueuedOnce
    <3>. QED BY <2>3, <3>3 DEF TablesSound
  <2>. QED BY <2>1, <2>2, <2>3
<1>. QED BY <1>1, TInvHolds, OriginsHold, PTL

\* The log holds only what an install queued, at the position it queued it under.
THEOREM LogHoldsIssued == Spec => []LogIsIssued
<1>1. LogSound => LogIsIssued
  BY DEF LogSound, LogIsIssued, Issued
<1>. QED BY <1>1, OriginsHold, PTL

-----------------------------------------------------------------------------
(* The queue and the log, when every credential is kept. *)

\* No two installs are signed in as one device.
Apart == \A i, j \in Installs : credential[i] # 0 /\ credential[i] = credential[j] => i = j

\* A step leaves the queue, the sign-in and the pass of every install but one alone.
OthersRest(k) ==
  \A j \in Installs \ {k} :
    /\ outbox'[j] = outbox[j] /\ lastDeviceSeq'[j] = lastDeviceSeq[j] /\ dropped'[j] = dropped[j]
    /\ credential'[j] = credential[j] /\ session'[j] = session[j] /\ pass'[j] = pass[j]

\* What a pass that does not wait for a push leaves behind: no push to wait for, and no new answer.
NotPushing(i) ==
  /\ pass'[i].pc # "pushing"
  /\ \/ pass'[i].answer = NoAnswer
     \/ pass[i].pc # "pushing" /\ pass'[i].answer = pass[i].answer

\* A step of an install that is no append, no sign-in or sign-out, and no step of a push.
StepsAside(i) ==
  /\ OthersRest(i) /\ NotPushing(i) /\ UNCHANGED <<queueVars, credential>>

LEMMA AsideFacts ==
  ASSUME TInv, NEW i \in Installs,
         \/ Restart(i) \/ PushUnreachable(i) \/ PullUnreachable(i) \/ ApplyFails(i)
         \/ StartPass(i) \/ PassFenced(i) \/ PushUnauthorized(i) \/ DrainEnds(i)
         \/ PullPage(i) \/ PullUnauthorized(i) \/ ApplyPage(i) \/ PullCaughtUp(i)
  PROVE  StepsAside(i)
<1>1. /\ pass \in [Installs -> Pass] /\ session \in [Installs -> Session]
      /\ credential \in [Installs -> DeviceIds \union {0}]
  BY DEF TInv, PassTyped, SignTyped
<1>2. NoPass.pc = "idle" /\ NoPass.answer = NoAnswer
  BY DEF NoPass
<1>3. ASSUME NEW p, pass' = [pass EXCEPT ![i] = p], p.pc # "pushing",
             p.answer = NoAnswer \/ (pass[i].pc # "pushing" /\ p.answer = pass[i].answer)
      PROVE  NotPushing(i) /\ \A j \in Installs \ {i} : pass'[j] = pass[j]
  BY <1>1, <1>3 DEF NotPushing
<1>4. ASSUME NEW p, session' = [session EXCEPT ![i] = p]
      PROVE  \A j \in Installs \ {i} : session'[j] = session[j]
  BY <1>1, <1>4
<1>5. CASE pass' = [pass EXCEPT ![i] = NoPass] /\ UNCHANGED <<queueVars, signVars>>
  BY <1>2, <1>3, <1>5 DEF StepsAside, OthersRest, queueVars, signVars
<1>6. CASE Restart(i)
  <2>1. /\ pass' = [pass EXCEPT ![i] = NoPass] /\ UNCHANGED <<queueVars, credential>>
        /\ \E p : session' = [session EXCEPT ![i] = p]
    BY <1>6 DEF Restart, OpenSession
  <2>. QED BY <1>2, <1>3, <1>4, <2>1 DEF StepsAside, OthersRest, queueVars
<1>7. CASE EndSession(i)
  <2> DEFINE p == [session[i] EXCEPT !.kind = "ended", !.id = 0]
  <2>1. /\ pass' = [pass EXCEPT ![i] = NoPass] /\ UNCHANGED <<queueVars, credential>>
        /\ session' = [session EXCEPT ![i] = p]
    BY <1>1, <1>7 DEF EndSession
  <2>. HIDE DEF p
  <2>. QED BY <1>2, <1>3, <1>4, <2>1 DEF StepsAside, OthersRest, queueVars
<1>8. ASSUME NEW pc, NEW round, pass' = [pass EXCEPT ![i] = CarryOn(i, pc, round)], pc # "pushing",
             UNCHANGED <<queueVars, signVars>>
      PROVE  StepsAside(i)
  <2>1. CarryOn(i, pc, round).pc = pc /\ CarryOn(i, pc, round).answer = NoAnswer
    BY CarryOnIs DEF PassOf
  <2>. QED BY <1>3, <1>8, <2>1 DEF StepsAside, OthersRest, queueVars, signVars
<1>9. CASE StartPass(i)
  <2> DEFINE p == [NoPass EXCEPT !.pc = "push", !.session = session[i].id,
                                 !.device = session[i].device, !.own = ownDevices[i]]
  <2>1. pass' = [pass EXCEPT ![i] = p] /\ UNCHANGED <<queueVars, signVars>>
    BY <1>9 DEF StartPass
  <2>2. p = PassOf("push", session[i].id, session[i].device, ownDevices[i], 0,
                   {}, 0, 0, NoAnswer, {}, FALSE)
    BY BegunIs
  <2>. HIDE DEF p
  <2>3. p.pc = "push" /\ p.answer = NoAnswer
    BY <2>2 DEF PassOf
  <2>. QED BY <1>3, <2>1, <2>3 DEF StepsAside, OthersRest, queueVars, signVars
<1>10. CASE PullPage(i)
  <2> DEFINE page == Cloud!Page(cursor[i], PullLimit)
             more == Cloud!HasMore(cursor[i], PullLimit)
             p == [pass[i] EXCEPT !.pc = "applying", !.page = page, !.more = more]
  <2>1. pass' = [pass EXCEPT ![i] = p] /\ UNCHANGED <<queueVars, signVars>> /\ pass[i].pc = "pull"
    BY <1>1, <1>10 DEF PullPage
  <2>2. p = PassOf("applying", pass[i].session, pass[i].device, pass[i].own, pass[i].round, pass[i].batch,
                   pass[i].through, pass[i].rejected, pass[i].answer, page, more)
    BY <1>1, PulledIs
  <2>. HIDE DEF p
  <2>3. p.pc = "applying" /\ p.answer = pass[i].answer
    BY <2>2 DEF PassOf
  <2>. QED BY <1>3, <2>1, <2>3 DEF StepsAside, OthersRest, queueVars, signVars
<1>11. CASE PushUnauthorized(i) \/ PullUnauthorized(i)
  BY <1>7, <1>11 DEF PushUnauthorized, PullUnauthorized
<1>12. CASE PassFenced(i) \/ PullCaughtUp(i) \/ PullUnreachable(i) \/ ApplyFails(i)
  BY <1>5, <1>12 DEF PassFenced, PullCaughtUp, PullUnreachable, ApplyFails
<1>13. CASE DrainEnds(i) \/ PushUnreachable(i)
  BY <1>8, <1>13 DEF DrainEnds, PushUnreachable, TurnToPull
<1>14. CASE ApplyPage(i)
  BY <1>1, <1>5, <1>8, <1>14 DEF ApplyPage
<1>. QED BY <1>6, <1>9, <1>10, <1>11, <1>12, <1>13, <1>14

LEMMA OthersFacts ==
  ASSUME TInv, NEW i \in Installs,
         \/ \E e, row : Appends(i, e, row)
         \/ SignIn(i) \/ SignOut(i) \/ SignOutCutOff(i)
         \/ PushSend(i) \/ PushAcked(i) \/ PushRefused(i) \/ DropWindow(i)
  PROVE  OthersRest(i)
<1>1. /\ pass \in [Installs -> Pass] /\ session \in [Installs -> Session]
      /\ credential \in [Installs -> DeviceIds \union {0}]
      /\ outbox \in [Installs -> SUBSET Cloud!Entry]
      /\ lastDeviceSeq \in [Installs -> 0 .. MaxEvents] /\ dropped \in [Installs -> Nat]
  BY DEF TInv, PassTyped, SignTyped, QueueTyped
<1>2. CASE \E e, row : Appends(i, e, row)
  BY <1>1, <1>2 DEF Appends, OthersRest, signVars
<1>3. CASE SignIn(i)
  BY <1>1, <1>3 DEF SignIn, Reset, OpenSession, OthersRest
<1>4. CASE SignOut(i)
  BY <1>1, <1>4 DEF SignOut, Reset, OthersRest
<1>5. CASE SignOutCutOff(i)
  BY <1>1, <1>5 DEF SignOutCutOff, OthersRest, queueVars
<1>6. CASE PushSend(i)
  <2>1. UNCHANGED <<queueVars, signVars>> /\ \E p : pass' = [pass EXCEPT ![i] = p]
    BY <1>6 DEF PushSend
  <2>. QED BY <1>1, <2>1 DEF OthersRest, queueVars, signVars
<1>7. CASE PushAcked(i) \/ PushRefused(i) \/ DropWindow(i)
  <2>1. UNCHANGED signVars /\ \E p : pass' = [pass EXCEPT ![i] = p]
    BY <1>7 DEF PushAcked, PushRefused, DropWindow, NextRound
  <2>2. \E through, lost : DeleteThrough(i, through, lost)
    BY <1>7 DEF PushAcked, PushRefused, DropWindow
  <2>. QED BY <1>1, <2>1, <2>2 DEF OthersRest, signVars, DeleteThrough
<1>. QED BY <1>2, <1>3, <1>4, <1>5, <1>6, <1>7

\* Every step, as the queues see it.
LEMMA QueueFacts ==
  ASSUME TInv, ~CredentialWriteFails, [Next]_vars
  PROVE  \/ \E k \in Installs :
              \/ \E e \in Event, row \in LocalRow : Appends(k, e, row)
              \/ SignIn(k) \/ SignOut(k) \/ SignOutCutOff(k)
              \/ PushSend(k) \/ PushAcked(k) \/ PushRefused(k) \/ DropWindow(k)
              \/ StepsAside(k) /\ UNCHANGED cloudVars
         \/ \E m \in verified : PushRuns(m)
         \/ UNCHANGED <<queueVars, credential, session, pass, rows, verified, purged>>
<1>1. ASSUME NEW k \in Installs,
             \/ Restart(k) \/ PushUnreachable(k) \/ PullUnreachable(k) \/ ApplyFails(k)
             \/ StartPass(k) \/ PassFenced(k) \/ PushUnauthorized(k) \/ DrainEnds(k)
             \/ PullPage(k) \/ PullUnauthorized(k) \/ ApplyPage(k) \/ PullCaughtUp(k)
      PROVE  StepsAside(k) /\ UNCHANGED cloudVars
  <2>1. UNCHANGED cloudVars
    BY <1>1 DEF Restart, PushUnreachable, PullUnreachable, ApplyFails, StartPass, PassFenced,
                PushUnauthorized, EndSession, DrainEnds, PullPage, PullUnauthorized, ApplyPage, PullCaughtUp
  <2>. QED BY <1>1, <2>1, AsideFacts
<1>2. ASSUME NEW d \in DeviceIds, Revoke(d)
      PROVE  UNCHANGED <<queueVars, credential, session, pass, rows, verified, purged>>
  BY <1>2 DEF Revoke, Cloud!Revoke
<1>3. CASE UNCHANGED vars
  BY <1>3 DEF vars, cloudVars, signVars
<1>4. ASSUME NEW k \in Installs, SignInFails(k)
      PROVE  FALSE
  BY <1>4 DEF SignInFails
<1>. QED BY <1>1, <1>2, <1>3, <1>4, AppendFacts DEF Next, PassSteps, PassMoves

\* A sign-in, as the queue of its install sees it.
LEMMA SignInIs ==
  ASSUME TInv, Signed, QueuedOnce, NEW k \in Installs, SignIn(k)
  PROVE  \E d \in DeviceIds :
           /\ d \notin minted /\ credential' = [credential EXCEPT ![k] = d]
           /\ \A j \in Installs : credential[j] # d
           /\ \A q \in issued : q.device # d
           /\ outbox'[k] = {} /\ lastDeviceSeq'[k] = 0 /\ dropped'[k] = 0
           /\ session'[k].id = NewId(k)
           /\ UNCHANGED <<rows, verified, purged, issued, pass>>
<1>1. PICK d \in DeviceIds :
        /\ Cloud!SignIn(d) /\ Reset(k) /\ credential' = [credential EXCEPT ![k] = d]
        /\ OpenSession(k, d) /\ UNCHANGED pass
  BY DEF SignIn
<1>2. d \notin minted /\ UNCHANGED <<rows, verified, purged>>
  BY <1>1 DEF Cloud!SignIn
<1>3. \A j \in Installs : credential[j] # d
  BY <1>2 DEF Signed, DeviceIds
<1>4. \A q \in issued : q.device # d
  BY <1>2, ThreadSyncAssumption DEF Signed, QueuedOnce, TInv, QueueTyped, Event
<1>5. outbox'[k] = {} /\ lastDeviceSeq'[k] = 0 /\ dropped'[k] = 0 /\ UNCHANGED issued
  BY <1>1 DEF Reset, TInv, QueueTyped
<1>6. session'[k].id = NewId(k)
  BY <1>1 DEF OpenSession, TInv, SignTyped
<1>. QED BY <1>1, <1>2, <1>3, <1>4, <1>5, <1>6

LEMMA SignOutIs ==
  ASSUME TInv, NEW k \in Installs, SignOut(k) \/ SignOutCutOff(k)
  PROVE  credential'[k] = 0 /\ session'[k].kind = "off" /\ UNCHANGED <<cloudVars, issued>>
BY DEF SignOut, SignOutCutOff, Reset, queueVars, TInv, SignTyped

\* The steps of a push leave the sign-in alone, and those that settle one leave the log alone.
LEMMA PushSettles ==
  ASSUME TInv, NEW k \in Installs, PushAcked(k) \/ PushRefused(k) \/ DropWindow(k)
  PROVE  /\ UNCHANGED <<cloudVars, signVars, lastDeviceSeq, issued>> /\ NotPushing(k) /\ Fence(k)
         /\ pass[k].pc # "idle"
<1>1. UNCHANGED <<cloudVars, signVars>> /\ Fence(k) /\ pass[k].pc # "idle"
  BY DEF PushAcked, PushRefused, DropWindow, Draining
<1>2. UNCHANGED <<lastDeviceSeq, issued>>
  BY DEF PushAcked, PushRefused, DropWindow, DeleteThrough
<1>3. pass' = [pass EXCEPT ![k] = CarryOn(k, "push", pass[k].round + 1)]
  BY DEF PushAcked, PushRefused, DropWindow, NextRound
<1>4. /\ CarryOn(k, "push", pass[k].round + 1).pc = "push"
      /\ CarryOn(k, "push", pass[k].round + 1).answer = NoAnswer
  BY CarryOnIs DEF PassOf
<1>5. NotPushing(k)
  BY <1>3, <1>4 DEF NotPushing, TInv, PassTyped
<1>. QED BY <1>1, <1>2, <1>5

LEMMA ApartStep ==
  ASSUME TInv, Signed, QueuedOnce, Apart, ~CredentialWriteFails, [Next]_vars
  PROVE  Apart'
<1>1. CASE credential' = credential
  BY <1>1 DEF Apart
<1>2. ASSUME NEW k \in Installs, OthersRest(k), credential'[k] # 0,
             \A j \in Installs : credential[j] # credential'[k]
      PROVE  Apart'
  BY <1>2 DEF Apart, OthersRest
<1>3. ASSUME NEW k \in Installs, OthersRest(k), credential'[k] = 0
      PROVE  Apart'
  BY <1>3 DEF Apart, OthersRest
<1>4. ASSUME NEW k \in Installs, SignIn(k)
      PROVE  Apart'
  <2>1. credential'[k] # 0 /\ \A j \in Installs : credential[j] # credential'[k]
    BY <1>4, SignInIs DEF TInv, SignTyped, DeviceIds
  <2>. QED BY <1>2, <1>4, <2>1, OthersFacts
<1>5. ASSUME NEW k \in Installs, SignOut(k) \/ SignOutCutOff(k)
      PROVE  Apart'
  BY <1>3, <1>5, OthersFacts, SignOutIs
<1>6. ASSUME NEW k \in Installs, PushAcked(k) \/ PushRefused(k) \/ DropWindow(k)
      PROVE  credential' = credential
  BY <1>6, PushSettles DEF signVars
<1>7. ASSUME NEW k \in Installs, NEW e, NEW row, Appends(k, e, row)
      PROVE  credential' = credential
  BY <1>7 DEF Appends, signVars
<1>8. ASSUME NEW k \in Installs, PushSend(k) \/ StepsAside(k)
      PROVE  credential' = credential
  BY <1>8 DEF PushSend, StepsAside, signVars
<1>9. ASSUME NEW m \in verified, PushRuns(m)
      PROVE  credential' = credential
  BY <1>9 DEF PushRuns, signVars
<1>. QED BY <1>1, <1>4, <1>5, <1>6, <1>7, <1>8, <1>9, QueueFacts

\* The positions issued under a credential end at the last one issued, and stand for one event.
Numbered ==
  /\ IsFiniteSet(issued)
  /\ \A i \in Installs : \A q \in issued : q.device = credential[i] => q.pos <= lastDeviceSeq[i]
  /\ PositionsIssuedOnce

\* An event that is queued comes under the next position of its install's credential.
Queues(k, e) ==
  /\ Live(k) /\ credential[k] \in DeviceIds
  /\ issued' = issued \union {[device |-> credential[k], pos |-> lastDeviceSeq[k] + 1, event |-> e]}
  /\ lastDeviceSeq'[k] = lastDeviceSeq[k] + 1 /\ OthersRest(k)
  /\ outbox'[k] = outbox[k] \union {[pos |-> lastDeviceSeq[k] + 1, event |-> e]}
  /\ UNCHANGED <<cloudVars, signVars, dropped, pass>>

\* One that is not leaves all as it is.
QueuesNothing == UNCHANGED <<cloudVars, signVars, queueVars, pass>>

LEMMA QueuesIs ==
  ASSUME TInv, Signed, NEW k \in Installs, NEW e \in Event, NEW row, Appends(k, e, row)
  PROVE  Queues(k, e) \/ QueuesNothing
<1>1. UNCHANGED <<cloudVars, signVars, dropped, pass>> /\ OthersRest(k)
  BY OthersFacts DEF Appends
<1>2. CASE Live(k)
  <2>1. session[k].device = credential[k] /\ credential[k] \in DeviceIds
    BY <1>2 DEF Signed, TInv, SignTyped
  <2>. QED BY <1>1, <1>2, <2>1 DEF Appends, Queues, TInv, QueueTyped
<1>3. CASE ~Live(k)
  BY <1>1, <1>3 DEF Appends, QueuesNothing, queueVars
<1>. QED BY <1>2, <1>3

LEMMA NumberedStep ==
  ASSUME TInv, Signed, QueuedOnce, Apart, Numbered, ~CredentialWriteFails, [Next]_vars
  PROVE  Numbered'
<1>1. lastDeviceSeq \in [Installs -> 0 .. MaxEvents] /\ MaxEvents \in Nat
  BY ThreadSyncAssumption DEF TInv, QueueTyped
<1>2. CASE UNCHANGED <<issued, credential, lastDeviceSeq>>
  BY <1>2 DEF Numbered, PositionsIssuedOnce
<1>3. ASSUME NEW k \in Installs, OthersRest(k), UNCHANGED issued, \A q \in issued : q.device # credential'[k]
      PROVE  Numbered'
  BY <1>3 DEF Numbered, PositionsIssuedOnce, OthersRest
<1>4. ASSUME NEW k \in Installs, NEW e, Queues(k, e)
      PROVE  Numbered'
  <2> DEFINE new == [device |-> credential[k], pos |-> lastDeviceSeq[k] + 1, event |-> e]
  <2>1. new.device = credential[k] /\ new.pos = lastDeviceSeq[k] + 1 /\ new.event = e
    OBVIOUS
  <2>2. issued' = issued \union {new} /\ credential' = credential /\ credential[k] # 0
    BY <1>4 DEF Queues, signVars, DeviceIds
  <2>. HIDE DEF new
  <2>3. \A q \in issued : q.pos \in Nat
    BY <1>1 DEF TInv, QueueTyped
  <2>4. ASSUME NEW q \in issued, q.device = credential[k]
        PROVE  q.pos < new.pos /\ q.pos <= lastDeviceSeq'[k]
    BY <1>1, <1>4, <2>1, <2>3, <2>4 DEF Numbered, Queues
  <2>5. ASSUME NEW j \in Installs, NEW q \in issued', q.device = credential'[j]
        PROVE  q.pos <= lastDeviceSeq'[j]
    <3>1. CASE j = k
      BY <1>1, <1>4, <2>1, <2>2, <2>4, <2>5, <3>1 DEF Queues
    <3>2. CASE j # k
      <4>1. credential[j] # credential[k]
        BY <2>2, <3>2 DEF Apart
      <4>. QED BY <1>4, <2>1, <2>2, <2>5, <3>2, <4>1 DEF Queues, OthersRest, Numbered
    <3>. QED BY <3>1, <3>2
  <2>6. PositionsIssuedOnce'
    BY <2>1, <2>2, <2>3, <2>4 DEF Numbered, PositionsIssuedOnce
  <2>7. IsFiniteSet(issued')
    BY <2>2, FS_AddElement DEF Numbered
  <2>. QED BY <2>5, <2>6, <2>7 DEF Numbered
<1>5. ASSUME NEW k \in Installs, SignIn(k)
      PROVE  Numbered'
  <2>1. UNCHANGED issued /\ \A q \in issued : q.device # credential'[k]
    BY <1>5, SignInIs DEF TInv, SignTyped
  <2>. QED BY <1>3, <1>5, <2>1, OthersFacts
<1>6. ASSUME NEW k \in Installs, SignOut(k) \/ SignOutCutOff(k)
      PROVE  Numbered'
  <2>1. \A q \in issued : q.device # 0
    BY DEF TInv, QueueTyped, DeviceIds
  <2>. QED BY <1>3, <1>6, <2>1, OthersFacts, SignOutIs
<1>7. ASSUME NEW k \in Installs, \/ PushSend(k) \/ StepsAside(k)
                                 \/ PushAcked(k) \/ PushRefused(k) \/ DropWindow(k)
      PROVE  UNCHANGED <<issued, credential, lastDeviceSeq>>
  BY <1>7, PushSettles DEF PushSend, StepsAside, signVars, queueVars
<1>8. ASSUME NEW m \in verified, PushRuns(m)
      PROVE  UNCHANGED <<issued, credential, lastDeviceSeq>>
  BY <1>8 DEF PushRuns, signVars, queueVars
<1>9. CASE QueuesNothing
  BY <1>2, <1>9 DEF QueuesNothing, signVars, queueVars
<1>10. ASSUME NEW k \in Installs, NEW e \in Event, NEW row, Appends(k, e, row)
       PROVE  Numbered'
  BY <1>4, <1>9, <1>10, QueuesIs
<1>11. CASE UNCHANGED <<queueVars, credential>>
  BY <1>2, <1>11 DEF queueVars
<1>. QED BY <1>2, <1>5, <1>6, <1>7, <1>8, <1>10, <1>11, QueueFacts

\* An event too large to push, and one that waits in an install's queue.
Big(q) == q.event.kind = "oversize"
Waits(i, q) == [pos |-> q.pos, event |-> q.event] \in outbox[i]

\* The oversize events of an install's credential that were dropped.
Gone(i) == {q \in issued : q.device = credential[i] /\ Big(q) /\ ~Waits(i, q)}

\* What an install queued under its credential waits, is in the log, or is an oversize event that
\* was counted.
ExactAt(i) ==
  credential[i] # 0 =>
    /\ \A q \in issued : q.device = credential[i] /\ ~Big(q) => Waits(i, q) \/ InLog(q)
    /\ dropped[i] = Cardinality(Gone(i))

QueueExact == \A i \in Installs : ExactAt(i)

\* An event its device queued before a position, and not too large to push.
Earlier(q, d, p) == q.device = d /\ q.pos < p /\ ~Big(q)

\* The log has no gaps: before a row comes all its device queued before it.  And a push on its way
\* leaves none.
RowsClosed ==
  \A r \in rows : ~Big(r) /\ \A q \in issued : Earlier(q, r.device, r.pos) => InLog(q)

BatchesClosed ==
  \A m \in verified : \A e \in m.batch :
    ~Big(e) /\ \A q \in issued : Earlier(q, m.device, e.pos) =>
                 InLog(q) \/ [pos |-> q.pos, event |-> q.event] \in m.batch

LogClosed == ~purged /\ RowsClosed /\ BatchesClosed

\* So the log refuses nothing an install pushes.
LEMMA NothingRefused ==
  ASSUME TInv, LogSound, Numbered, LogClosed, NEW m \in verified
  PROVE  /\ ~Cloud!Disordered(m.batch)
         /\ \A e \in m.batch : ~Cloud!Refused(m.device, e)
<1>1. \A e \in m.batch : Issued(m.device, e)
  BY DEF LogSound
<1>2. m.batch \in SUBSET Cloud!Entry
  BY DEF TInv, Cloud!TypeOK, Cloud!Request
<1>3. ASSUME NEW d, NEW e, NEW f, Issued(d, e), Issued(d, f), e.pos = f.pos
      PROVE  e.event = f.event
  <2> DEFINE p == [device |-> d, pos |-> e.pos, event |-> e.event]
             q == [device |-> d, pos |-> f.pos, event |-> f.event]
  <2>1. p \in issued /\ q \in issued
    BY <1>3 DEF Issued
  <2>2. p.device = q.device /\ p.pos = q.pos
    BY <1>3
  <2>3. p.event = q.event
    BY <2>1, <2>2 DEF Numbered, PositionsIssuedOnce
  <2>. QED BY <2>3
<1>4. ~Cloud!Disordered(m.batch)
  <2>1. ASSUME NEW e \in m.batch, NEW f \in m.batch, e.pos = f.pos
        PROVE  e = f
    <3>1. e.event = f.event
      BY <1>1, <1>3, <2>1
    <3>. QED BY <1>2, <2>1, <3>1 DEF Cloud!Entry
  <2>. QED BY <2>1 DEF Cloud!Disordered
<1>5. ASSUME NEW e \in m.batch
      PROVE  ~Cloud!Conflicts(m.device, e)
  <2>1. ASSUME NEW r \in rows, r.device = m.device, r.pos = e.pos
        PROVE  r.event = e.event
    BY <1>1, <1>3, <2>1 DEF LogSound
  <2>. QED BY <2>1 DEF Cloud!Conflicts, Cloud!At
<1>6. ASSUME NEW e \in m.batch, Cloud!OutOfOrder(m.device, e)
      PROVE  FALSE
  <2>1. PICK r \in rows : r.device = m.device /\ e.pos <= r.pos
    BY <1>6 DEF Cloud!OutOfOrder
  <2>2. \A t \in rows : ~(t.device = m.device /\ t.pos = e.pos)
    BY <1>6 DEF Cloud!OutOfOrder, Cloud!At
  <2> DEFINE q == [device |-> m.device, pos |-> e.pos, event |-> e.event]
  <2>3. q \in issued
    BY <1>1 DEF Issued
  <2>4. e.pos \in Nat /\ r.pos \in Nat
    BY <1>2, <2>1 DEF Cloud!Entry, TInv, Cloud!TypeOK, Cloud!Row
  <2>5. e.pos < r.pos
    BY <2>1, <2>2, <2>4
  <2>6. Earlier(q, r.device, r.pos)
    BY <2>1, <2>5 DEF Earlier, Big, LogClosed, BatchesClosed
  <2>7. InLog(q)
    BY <2>3, <2>6 DEF LogClosed, RowsClosed
  <2>. QED BY <2>2, <2>7 DEF InLog
<1>. QED BY <1>4, <1>5, <1>6 DEF Cloud!Refused

LEMMA AnsweredOk ==
  ASSUME TInv, LogSound, Numbered, LogClosed, NEW m \in verified
  PROVE  Cloud!PushAnswers(m.device, m.batch) = {[code |-> "ok", pos |-> 0]}
<1>1. Cloud!RefusedAt(m.device, m.batch) = {}
  BY NothingRefused DEF Cloud!RefusedAt
<1>. QED BY <1>1 DEF Cloud!PushAnswers, LogClosed

LEMMA BatchLands ==
  ASSUME TInv, LogSound, Numbered, LogClosed, NEW m \in verified, Cloud!Push(m), NEW e \in m.batch
  PROVE  \E r \in rows' : r.device = m.device /\ r.pos = e.pos /\ r.event = e.event
<1> DEFINE fresh == Cloud!Fresh(m.device, m.batch)
<1>1. rows' = rows \union Cloud!Landed(m.device, fresh)
  BY NothingRefused DEF Cloud!Push, LogClosed
<1>2. CASE Cloud!At(m.device, e.pos) = {}
  <2>1. e \in fresh
    BY <1>2, NothingRefused DEF Cloud!Fresh, Cloud!Accepted
  <2>. HIDE DEF fresh
  <2> DEFINE r == [seq |-> lastSeq + Cloud!Rank(e, fresh), device |-> m.device, pos |-> e.pos,
                   event |-> e.event]
  <2>2. r \in rows'
    BY <1>1, <2>1 DEF Cloud!Landed
  <2>. QED BY <2>2
<1>3. CASE Cloud!At(m.device, e.pos) # {}
  <2>1. PICK r \in rows : r.device = m.device /\ r.pos = e.pos
    BY <1>3 DEF Cloud!At
  <2>2. r.event = e.event
    BY <2>1, NothingRefused DEF Cloud!Refused, Cloud!Conflicts, Cloud!At
  <2>. QED BY <1>1, <2>1, <2>2
<1>. QED BY <1>2, <1>3

\* A window is a head of the queue.
LEMMA WindowIsHead ==
  ASSUME TInv, NEW i \in Installs, NEW last \in Window(i), NEW q \in outbox[i], q.pos <= last.pos
  PROVE  q \in Window(i)
<1> DEFINE upTo(p) == {s \in outbox[i] : s.pos <= p.pos}
<1>1. \A s \in outbox[i] : s.pos \in Nat
  BY DEF TInv, QueueTyped, Cloud!Entry
<1>2. last \in outbox[i] /\ Cardinality(upTo(last)) <= PushMax
  BY DEF Window
<1>3. IsFiniteSet(upTo(last)) /\ upTo(q) \in SUBSET upTo(last)
  <2>1. IsFiniteSet(upTo(last))
    BY FS_Subset, upTo(last) \in SUBSET outbox[i] DEF TInv, QueueTyped
  <2>2. \A s \in upTo(q) : s \in upTo(last)
    BY <1>1, <1>2
  <2>. QED BY <2>1, <2>2
<1>4. /\ Cardinality(upTo(q)) <= Cardinality(upTo(last))
      /\ Cardinality(upTo(q)) \in Nat /\ Cardinality(upTo(last)) \in Nat
  BY <1>3, FS_Subset, FS_CardinalityType
<1>5. Cardinality(upTo(q)) <= PushMax
  BY <1>2, <1>4, ThreadSyncAssumption
<1>. QED BY <1>5 DEF Window

LEMMA LogClosedStep ==
  ASSUME TInv, Signed, QueuedOnce, LogSound, Apart, Numbered, QueueExact, LogClosed,
         ~CredentialWriteFails, [Next]_vars
  PROVE  LogClosed'
<1>1. rows \subseteq rows' /\ issued \subseteq issued'
  BY IdsGrow
<1>2. ASSUME NEW q, InLog(q)
      PROVE  InLog(q)'
  BY <1>1, <1>2 DEF InLog
<1>3. CASE UNCHANGED <<rows, verified, purged, issued>>
  BY <1>3 DEF LogClosed, RowsClosed, BatchesClosed, InLog
<1>4. ASSUME NEW k \in Installs, NEW e, Queues(k, e)
      PROVE  LogClosed'
  <2> DEFINE new == [device |-> credential[k], pos |-> lastDeviceSeq[k] + 1, event |-> e]
  <2>1. new.device = credential[k] /\ new.pos = lastDeviceSeq[k] + 1
    OBVIOUS
  <2>2. issued' = issued \union {new} /\ UNCHANGED <<rows, verified, purged>>
    BY <1>4 DEF Queues, cloudVars
  <2>. HIDE DEF new
  <2>3. ASSUME NEW d, NEW p, Issued(d, p)
        PROVE  ~Earlier(new, d, p.pos)
    <3> DEFINE q == [device |-> d, pos |-> p.pos, event |-> p.event]
    <3>1. q \in issued
      BY <2>3 DEF Issued
    <3>2. q.device = credential[k] => q.pos <= lastDeviceSeq[k]
      BY <3>1 DEF Numbered
    <3>3. q.pos \in Nat /\ lastDeviceSeq[k] \in Nat
      BY <3>1, ThreadSyncAssumption DEF TInv, QueueTyped
    <3>. QED BY <2>1, <3>2, <3>3 DEF Earlier
  <2>4. ASSUME NEW r \in rows, NEW q \in issued', Earlier(q, r.device, r.pos)
        PROVE  InLog(q)'
    BY <1>2, <2>2, <2>3, <2>4 DEF LogSound, LogClosed, RowsClosed
  <2>5. ASSUME NEW m \in verified, NEW f \in m.batch, NEW q \in issued', Earlier(q, m.device, f.pos)
        PROVE  InLog(q)' \/ [pos |-> q.pos, event |-> q.event] \in m.batch
    BY <1>2, <2>2, <2>3, <2>5 DEF LogSound, LogClosed, BatchesClosed
  <2>6. ~purged' /\ (\A r \in rows' : ~Big(r)) /\ \A m \in verified' : \A f \in m.batch : ~Big(f)
    BY <2>2 DEF LogClosed, RowsClosed, BatchesClosed
  <2>. QED BY <2>2, <2>4, <2>5, <2>6 DEF LogClosed, RowsClosed, BatchesClosed, Earlier, Big
<1>5. ASSUME NEW k \in Installs, PushSend(k)
      PROVE  LogClosed'
  <2> DEFINE new == [device |-> pass[k].device, batch |-> Sendable(k)]
  <2>1. new.device = pass[k].device /\ new.batch = Sendable(k)
    OBVIOUS
  <2>2. verified' = verified \union {new} /\ UNCHANGED <<rows, purged, issued>>
    BY <1>5 DEF PushSend, Cloud!Verify, queueVars
  <2>. HIDE DEF new
  <2>3. pass[k].device = credential[k] /\ credential[k] # 0
    BY <1>5 DEF PushSend, PushReady, Draining, Signed, Fence, Live, TInv, SignTyped, DeviceIds
  <2>4. ASSUME NEW f \in Sendable(k), NEW q \in issued, Earlier(q, credential[k], f.pos)
        PROVE  InLog(q) \/ [pos |-> q.pos, event |-> q.event] \in Sendable(k)
    <3> DEFINE p == [pos |-> q.pos, event |-> q.event]
    <3>1. p.pos = q.pos /\ p.event = q.event
      OBVIOUS
    <3>. HIDE DEF p
    <3>2. CASE p \in outbox[k]
      <4>1. f \in Window(k) /\ f.pos \in Nat /\ q.pos \in Nat
        BY WindowFacts DEF Cloud!Entry, TInv, QueueTyped
      <4>2. p \in Window(k)
        BY <2>4, <3>1, <3>2, <4>1, WindowIsHead DEF Earlier
      <4>3. p \in Sendable(k)
        BY <2>4, <3>1, <4>2 DEF Sendable, Earlier, Big
      <4>. QED BY <4>3 DEF p
    <3>3. CASE p \notin outbox[k]
      BY <2>3, <2>4, <3>3 DEF QueueExact, ExactAt, Earlier, Waits, p
    <3>. QED BY <3>2, <3>3
  <2>5. \A f \in Sendable(k) : ~Big(f)
    BY DEF Sendable, Big
  <2>6. ASSUME NEW m \in verified', NEW f \in m.batch
        PROVE  ~Big(f) /\ \A q \in issued : Earlier(q, m.device, f.pos) =>
                 InLog(q) \/ [pos |-> q.pos, event |-> q.event] \in m.batch
    <3>1. CASE m = new
      BY <2>1, <2>3, <2>4, <2>5, <2>6, <3>1
    <3>2. CASE m \in verified
      BY <2>6, <3>2 DEF LogClosed, BatchesClosed
    <3>. QED BY <2>2, <3>1, <3>2
  <2>. QED BY <2>2, <2>6 DEF LogClosed, RowsClosed, BatchesClosed, InLog
<1>6. ASSUME NEW m \in verified, PushRuns(m)
      PROVE  LogClosed'
  <2>1. Cloud!Push(m) /\ UNCHANGED issued
    BY <1>6 DEF PushRuns, queueVars
  <2>2. verified' \subseteq verified /\ UNCHANGED purged
    BY <2>1 DEF Cloud!Push
  <2>3. ASSUME NEW r \in rows', r \notin rows
        PROVE  ~Big(r) /\ \A q \in issued : Earlier(q, r.device, r.pos) => InLog(q)'
    <3>1. PICK e \in m.batch : r.device = m.device /\ r.pos = e.pos /\ r.event = e.event
      BY <2>1, <2>3, LandedFacts
    <3>2. ~Big(r)
      BY <3>1 DEF LogClosed, BatchesClosed, Big
    <3>3. ASSUME NEW q \in issued, Earlier(q, r.device, r.pos)
          PROVE  InLog(q)'
      <4>1. CASE [pos |-> q.pos, event |-> q.event] \in m.batch
        <5>1. \E t \in rows' : t.device = m.device /\ t.pos = q.pos /\ t.event = q.event
          BY <2>1, <4>1, BatchLands
        <5>. QED BY <3>1, <3>3, <5>1 DEF InLog, Earlier
      <4>. QED BY <1>2, <3>1, <3>3, <4>1 DEF LogClosed, BatchesClosed
    <3>. QED BY <3>2, <3>3
  <2>4. ASSUME NEW r \in rows'
        PROVE  ~Big(r) /\ \A q \in issued : Earlier(q, r.device, r.pos) => InLog(q)'
    BY <1>2, <2>3, <2>4 DEF LogClosed, RowsClosed
  <2>5. BatchesClosed'
    BY <1>2, <2>1, <2>2 DEF LogClosed, BatchesClosed
  <2>6. RowsClosed'
    BY <2>1, <2>4 DEF RowsClosed
  <2>. QED BY <2>2, <2>5, <2>6 DEF LogClosed
<1>7. ASSUME NEW k \in Installs,
             \/ SignIn(k) \/ SignOut(k) \/ SignOutCutOff(k) \/ PushAcked(k) \/ PushRefused(k)
             \/ DropWindow(k) \/ (StepsAside(k) /\ UNCHANGED cloudVars)
      PROVE  UNCHANGED <<rows, verified, purged, issued>>
  BY <1>7, SignInIs, SignOutIs, PushSettles DEF StepsAside, queueVars, cloudVars
<1>8. ASSUME NEW k \in Installs, NEW e \in Event, NEW row, Appends(k, e, row)
      PROVE  LogClosed'
  BY <1>3, <1>4, <1>8, QueuesIs DEF QueuesNothing, cloudVars, queueVars
<1>9. CASE UNCHANGED <<queueVars, credential, session, pass, rows, verified, purged>>
  BY <1>3, <1>9 DEF queueVars
<1>. QED BY <1>3, <1>5, <1>6, <1>7, <1>8, <1>9, QueueFacts

\* The oversize events of a queue's head.
Unsendable(i, through) == {q \in outbox[i] : q.pos <= through /\ Big(q)}

\* The head of a queue goes, counted as what of it was too large; the rest of it is in the log.
LEMMA DeleteKeepsExact ==
  ASSUME TInv, LogSound, Numbered, NEW i \in Installs, ExactAt(i), credential[i] # 0,
         NEW through \in Nat, NEW lost, DeleteThrough(i, through, lost), UNCHANGED <<rows, credential>>,
         lost = Cardinality(Unsendable(i, through)),
         \A q \in outbox[i] : q.pos <= through =>
           Big(q) \/ InLog([device |-> credential[i], pos |-> q.pos, event |-> q.event])
  PROVE  ExactAt(i)'
<1> DEFINE c       == credential[i]
           rec(q)  == [device |-> c, pos |-> q.pos, event |-> q.event]
           few     == Unsendable(i, through)
           more    == {rec(q) : q \in few}
<1>1. /\ outbox'[i] = {q \in outbox[i] : q.pos > through} /\ dropped'[i] = dropped[i] + lost
      /\ issued' = issued /\ credential'[i] = c /\ rows' = rows
  BY DEF DeleteThrough, TInv, QueueTyped
<1>2. /\ outbox[i] \in SUBSET Cloud!Entry /\ IsFiniteSet(outbox[i]) /\ dropped[i] \in Nat
      /\ \A q \in outbox[i] : q.pos \in Nat /\ q = [pos |-> q.pos, event |-> q.event]
      /\ \A q \in issued : q.pos \in Nat /\ q = [device |-> q.device, pos |-> q.pos, event |-> q.event]
  BY DEF TInv, QueueTyped, Cloud!Entry
<1>3. \A q \in outbox[i] : rec(q) \in issued
  BY DEF LogSound, Issued
<1>4. few \in SUBSET outbox[i] /\ \A q \in few : q.pos <= through /\ Big(q)
  BY DEF Unsendable
<1>5. \A q \in issued : q.device = c /\ ~Big(q) => Waits(i, q)' \/ InLog(q)'
  <2>. SUFFICES ASSUME NEW q \in issued, q.device = c, ~Big(q)
                PROVE  Waits(i, q)' \/ InLog(q)'
    OBVIOUS
  <2>1. InLog(q)' <=> InLog(q)
    BY <1>1 DEF InLog
  <2>2. CASE InLog(q)
    BY <2>1, <2>2
  <2>3. CASE Waits(i, q)
    <3> DEFINE p == [pos |-> q.pos, event |-> q.event]
    <3>1. p \in outbox[i] /\ p.pos = q.pos /\ p.event = q.event
      BY <2>3 DEF Waits
    <3>2. p.pos > through => Waits(i, q)'
      BY <1>1, <3>1 DEF Waits
    <3>3. p.pos <= through => InLog(q)
      <4>1. ~Big(p)
        BY <3>1 DEF Big
      <4>2. rec(p) = q
        BY <1>2, <3>1
      <4>. QED BY <3>1, <4>1, <4>2
    <3>4. p.pos > through \/ p.pos <= through
      BY <1>2, <3>1
    <3>. QED BY <2>1, <3>2, <3>3, <3>4
  <2>. QED BY <2>2, <2>3 DEF ExactAt
<1>6. Gone(i)' = Gone(i) \union more
  <2>1. Gone(i)' = {q \in issued : q.device = c /\ Big(q) /\ [pos |-> q.pos, event |-> q.event] \notin outbox'[i]}
    BY <1>1 DEF Gone, Waits, Big
  <2>2. ASSUME NEW q \in issued, q.device = c, Big(q), [pos |-> q.pos, event |-> q.event] \notin outbox'[i],
               q \notin Gone(i)
        PROVE  q \in more
    <3> DEFINE p == [pos |-> q.pos, event |-> q.event]
    <3>1. p \in outbox[i] /\ p \notin outbox'[i]
      BY <2>2 DEF Gone, Waits
    <3>2. p.pos = q.pos /\ p.event = q.event /\ q = rec(p)
      BY <1>2, <2>2
    <3>3. p.pos <= through
      BY <1>1, <1>2, <3>1
    <3>4. p \in few
      BY <2>2, <3>1, <3>2, <3>3 DEF Unsendable, Big
    <3>. QED BY <3>2, <3>4
  <2>3. ASSUME NEW q \in Gone(i)
        PROVE  q \in Gone(i)'
    <3>1. q \in issued /\ q.device = c /\ Big(q) /\ [pos |-> q.pos, event |-> q.event] \notin outbox[i]
      BY DEF Gone, Waits
    <3>2. [pos |-> q.pos, event |-> q.event] \notin outbox'[i]
      BY <1>1, <3>1
    <3>. QED BY <2>1, <3>1, <3>2
  <2>4. ASSUME NEW p \in few
        PROVE  rec(p) \in Gone(i)'
    <3>1. p \in outbox[i] /\ p.pos <= through /\ Big(p)
      BY <1>4
    <3>2. rec(p) \in issued /\ rec(p).device = c /\ Big(rec(p))
      BY <1>3, <3>1 DEF Big
    <3>3. [pos |-> rec(p).pos, event |-> rec(p).event] = p
      BY <1>2, <3>1
    <3>4. p \notin outbox'[i]
      BY <1>1, <1>2, <3>1
    <3>. QED BY <2>1, <3>2, <3>3, <3>4
  <2>. HIDE DEF few, rec
  <2>. QED BY <2>1, <2>2, <2>3, <2>4
<1>7. Gone(i) \cap more = {}
  <2>1. ASSUME NEW p \in few
        PROVE  rec(p) \notin Gone(i)
    <3>1. p \in outbox[i]
      BY <1>4
    <3>. QED BY <1>2, <3>1 DEF Gone, Waits
  <2>. HIDE DEF few, rec
  <2>. QED BY <2>1
<1>8. IsFiniteSet(few) /\ Cardinality(few) \in Nat
  BY <1>2, <1>4, FS_Subset, FS_CardinalityType
<1>9. IsFiniteSet(more) /\ Cardinality(more) = Cardinality(few)
  <2> DEFINE f == [q \in few |-> rec(q)]
  <2>1. ASSUME NEW p \in few, NEW q \in few, rec(p) = rec(q)
        PROVE  p = q
    <3>1. p = [pos |-> p.pos, event |-> p.event] /\ q = [pos |-> q.pos, event |-> q.event]
      BY <1>2, <1>4
    <3>2. rec(p).pos = p.pos /\ rec(p).event = p.event /\ rec(q).pos = q.pos /\ rec(q).event = q.event
      OBVIOUS
    <3>. QED BY <2>1, <3>1, <3>2
  <2>. HIDE DEF few, rec
  <2>2. f \in Bijection(few, more)
    BY <2>1 DEF Bijection, Injection, Surjection, IsInjective
  <2>. QED BY <2>2, <1>8, FS_Bijection DEF ExistsBijection
<1>10. IsFiniteSet(Gone(i)) /\ Cardinality(Gone(i)) \in Nat
  <2>1. Gone(i) \in SUBSET issued
    BY DEF Gone
  <2>. QED BY <2>1, FS_Subset, FS_CardinalityType DEF Numbered
<1>11. Cardinality(Gone(i)') = Cardinality(Gone(i)) + Cardinality(few)
  <2>1. Cardinality(Gone(i) \union more)
          = Cardinality(Gone(i)) + Cardinality(more) - Cardinality(Gone(i) \cap more)
    BY <1>9, <1>10, FS_Union
  <2>2. Cardinality(Gone(i) \cap more) = 0
    BY <1>7, FS_EmptySet
  <2>. HIDE DEF more, few
  <2>. QED BY <1>6, <1>8, <1>9, <1>10, <2>1, <2>2
<1>12. dropped'[i] = Cardinality(Gone(i)')
  BY <1>1, <1>11 DEF ExactAt
<1>. QED BY <1>1, <1>5, <1>12 DEF ExactAt

\* An install keeps its account of the queue while others write, sign in and push.
LEMMA OthersKeepExact ==
  ASSUME TInv, [Next]_vars, NEW i \in Installs, ExactAt(i), credential'[i] = credential[i],
         outbox'[i] = outbox[i], dropped'[i] = dropped[i],
         \A q \in issued' : q \in issued \/ q.device # credential[i]
  PROVE  ExactAt(i)'
<1>1. rows \subseteq rows' /\ issued \subseteq issued'
  BY IdsGrow
<1>2. Gone(i)' = Gone(i)
  BY <1>1 DEF Gone, Waits, Big
<1>3. \A q : InLog(q) => InLog(q)'
  BY <1>1 DEF InLog
<1>4. \A q : Waits(i, q)' <=> Waits(i, q)
  BY DEF Waits
<1>. QED BY <1>2, <1>3, <1>4 DEF ExactAt, Big

\* A pass that waits for its push knows what of the queue it sent and what it left out, and an
\* "ok" means that what it sent is in the log.
PushExactAt(i) ==
  pass[i].pc = "pushing" /\ Fence(i) =>
    /\ pass[i].through <= lastDeviceSeq[i]
    /\ \A q \in outbox[i] : q.pos <= pass[i].through => q \in pass[i].batch \/ Big(q)
    /\ pass[i].rejected = Cardinality(Unsendable(i, pass[i].through))
    /\ pass[i].answer.code = "ok" =>
         \A q \in pass[i].batch : InLog([device |-> pass[i].device, pos |-> q.pos, event |-> q.event])

PushExact == \A i \in Installs : PushExactAt(i)

\* No pass has an answer before it pushes, and none is ever refused.
AnswersAgree ==
  \A i \in Installs : /\ pass[i].pc # "pushing" => pass[i].answer = NoAnswer
                      /\ pass[i].answer.code # "outbox"

LEMMA AnswersAgreeStep ==
  ASSUME TInv, Signed, QueuedOnce, LogSound, Numbered, LogClosed, AnswersAgree,
         ~CredentialWriteFails, [Next]_vars
  PROVE  AnswersAgree'
<1>1. NoAnswer.code = "none" /\ NoPass.pc = "idle" /\ NoPass.answer = NoAnswer
  BY DEF NoAnswer, NoPass
<1>2. pass \in [Installs -> Pass]
  BY DEF TInv, PassTyped
<1>3. CASE UNCHANGED pass
  BY <1>3 DEF AnswersAgree
<1>4. ASSUME NEW k \in Installs, OthersRest(k), NotPushing(k)
      PROVE  AnswersAgree'
  BY <1>1, <1>4 DEF AnswersAgree, OthersRest, NotPushing
<1>5. ASSUME NEW k \in Installs, PushSend(k)
      PROVE  AnswersAgree'
  <2>1. PICK last \in Window(k) :
          pass' = [pass EXCEPT ![k] =
            [@ EXCEPT !.pc = "pushing", !.batch = Sendable(k), !.through = last.pos,
                      !.rejected = Rejects(k)]]
    BY <1>5 DEF PushSend
  <2> DEFINE p == [pass[k] EXCEPT !.pc = "pushing", !.batch = Sendable(k), !.through = last.pos,
                                  !.rejected = Rejects(k)]
  <2>2. p = PassOf("pushing", pass[k].session, pass[k].device, pass[k].own, pass[k].round, Sendable(k),
                   last.pos, Rejects(k), pass[k].answer, pass[k].page, pass[k].more)
    BY <1>2, SentIs
  <2>3. pass' = [pass EXCEPT ![k] = p]
    BY <1>2, <2>1
  <2>. HIDE DEF p
  <2>4. p.pc = "pushing" /\ p.answer = pass[k].answer
    BY <2>2 DEF PassOf
  <2>. QED BY <1>2, <2>3, <2>4 DEF AnswersAgree
<1>6. ASSUME NEW m \in verified, PushRuns(m)
      PROVE  AnswersAgree'
  <2>1. PICK answer \in Cloud!PushAnswers(m.device, m.batch) :
          pass' = [i \in Installs |-> Answered(m, answer, i)]
    BY <1>6 DEF PushRuns, Answered
  <2>2. answer.code = "ok"
    BY AnsweredOk
  <2>3. ASSUME NEW i \in Installs
        PROVE  /\ pass'[i].pc # "pushing" => pass'[i].answer = NoAnswer
               /\ pass'[i].answer.code # "outbox"
    <3> DEFINE p == [pass[i] EXCEPT !.answer = answer]
    <3>1. p = PassOf(pass[i].pc, pass[i].session, pass[i].device, pass[i].own, pass[i].round, pass[i].batch,
                     pass[i].through, pass[i].rejected, answer, pass[i].page, pass[i].more)
      BY <1>2, AnsweredIs
    <3>2. pass'[i] = pass[i] \/ (pass'[i] = p /\ pass[i].pc = "pushing")
      BY <2>1 DEF Answered
    <3>. HIDE DEF p
    <3>3. p.pc = pass[i].pc /\ p.answer = answer
      BY <3>1 DEF PassOf
    <3>. QED BY <2>2, <3>2, <3>3 DEF AnswersAgree
  <2>. QED BY <2>3 DEF AnswersAgree
<1>7. ASSUME NEW k \in Installs, SignIn(k)
      PROVE  UNCHANGED pass
  BY <1>7 DEF SignIn
<1>8. ASSUME NEW k \in Installs, SignOut(k) \/ SignOutCutOff(k)
      PROVE  AnswersAgree'
  BY <1>1, <1>2, <1>8 DEF SignOut, SignOutCutOff, AnswersAgree
<1>9. ASSUME NEW k \in Installs, PushAcked(k) \/ PushRefused(k) \/ DropWindow(k)
      PROVE  AnswersAgree'
  BY <1>4, <1>9, PushSettles, OthersFacts
<1>10. ASSUME NEW k \in Installs, NEW e, NEW row, Appends(k, e, row)
       PROVE  UNCHANGED pass
  BY <1>10 DEF Appends
<1>11. ASSUME NEW k \in Installs, StepsAside(k)
       PROVE  AnswersAgree'
  BY <1>4, <1>11 DEF StepsAside
<1>. QED BY <1>3, <1>5, <1>6, <1>7, <1>8, <1>9, <1>10, <1>11, QueueFacts

\* What a push that settles takes off the queue was sent and stored, or is counted.
LEMMA SettledIsExact ==
  ASSUME TInv, Signed, LogSound, Numbered, QueueExact, PushExact, AnswersAgree,
         NEW i \in Installs, PushAcked(i) \/ PushRefused(i) \/ DropWindow(i)
  PROVE  ExactAt(i)'
<1>1. /\ UNCHANGED <<rows, credential>> /\ credential[i] # 0 /\ pass[i].device = credential[i]
      /\ Fence(i)
  BY PushSettles DEF cloudVars, signVars, Signed, Fence, Live, TInv, SignTyped, DeviceIds
<1>2. ExactAt(i)
  BY DEF QueueExact
<1>3. pass[i] \in Pass
  BY DEF TInv, PassTyped
<1>4. CASE PushAcked(i)
  <2>1. /\ DeleteThrough(i, pass[i].through, pass[i].rejected)
        /\ pass[i].pc = "pushing" /\ pass[i].answer.code = "ok"
    BY <1>4 DEF PushAcked
  <2>2. /\ pass[i].rejected = Cardinality(Unsendable(i, pass[i].through))
        /\ \A q \in outbox[i] : q.pos <= pass[i].through => q \in pass[i].batch \/ Big(q)
        /\ \A q \in pass[i].batch : InLog([device |-> pass[i].device, pos |-> q.pos, event |-> q.event])
    BY <1>1, <2>1 DEF PushExact, PushExactAt
  <2>3. pass[i].through \in Nat
    BY <1>3, ThreadSyncAssumption DEF Pass
  <2>. QED BY <1>1, <1>2, <2>1, <2>2, <2>3, DeleteKeepsExact
<1>5. CASE PushRefused(i)
  BY <1>5 DEF PushRefused, AnswersAgree
<1>6. CASE DropWindow(i)
  <2>1. PICK last \in Window(i) :
          /\ \A q \in Window(i) : q.pos <= last.pos
          /\ DeleteThrough(i, last.pos, Rejects(i))
    BY <1>6 DEF DropWindow
  <2>2. Sendable(i) = {}
    BY <1>6 DEF DropWindow
  <2>3. \A q \in Window(i) : q \in outbox[i] /\ Big(q)
    BY <2>2 DEF Sendable, Window, Big
  <2>4. last.pos \in Nat
    BY WindowFacts DEF Cloud!Entry
  <2>5. Unsendable(i, last.pos) = Window(i)
    BY <2>1, <2>3, WindowIsHead DEF Unsendable
  <2>6. Rejects(i) = Cardinality(Unsendable(i, last.pos))
    BY <2>2, <2>5 DEF Rejects
  <2>7. \A q \in outbox[i] : q.pos <= last.pos => Big(q)
    BY <2>3, WindowIsHead
  <2>. QED BY <1>1, <1>2, <2>1, <2>4, <2>6, <2>7, DeleteKeepsExact
<1>. QED BY <1>4, <1>5, <1>6

LEMMA QueueExactStep ==
  ASSUME TInv, Signed, QueuedOnce, LogSound, Apart, Numbered, QueueExact, PushExact, AnswersAgree,
         ~CredentialWriteFails, [Next]_vars
  PROVE  QueueExact'
<1>. SUFFICES ASSUME NEW i \in Installs
              PROVE  ExactAt(i)'
  BY DEF QueueExact
<1>1. ExactAt(i)
  BY DEF QueueExact
<1>2. ASSUME UNCHANGED issued, credential'[i] = credential[i], outbox'[i] = outbox[i],
             dropped'[i] = dropped[i]
      PROVE  ExactAt(i)'
  BY <1>1, <1>2, OthersKeepExact
<1>3. ASSUME NEW k \in Installs, OthersRest(k), UNCHANGED issued, i # k
      PROVE  ExactAt(i)'
  BY <1>2, <1>3 DEF OthersRest
<1>4. ASSUME NEW k \in Installs, NEW e, Queues(k, e)
      PROVE  ExactAt(i)'
  <2> DEFINE new == [device |-> credential[k], pos |-> lastDeviceSeq[k] + 1, event |-> e]
             p   == [pos |-> new.pos, event |-> new.event]
  <2>1. /\ issued' = issued \union {new} /\ UNCHANGED <<credential, dropped, rows>> /\ OthersRest(k)
        /\ credential[k] # 0 /\ outbox'[k] = outbox[k] \union {p}
    BY <1>4 DEF Queues, signVars, cloudVars, DeviceIds
  <2>2. new.device = credential[k] /\ new.pos = lastDeviceSeq[k] + 1
    OBVIOUS
  <2>. HIDE DEF new
  <2>3. CASE i # k
    <3>1. credential[i] # credential[k]
      BY <2>1, <2>3 DEF Apart
    <3>. QED BY <1>1, <2>1, <2>2, <2>3, <3>1, OthersKeepExact DEF OthersRest
  <2>4. CASE i = k
    <3>1. ASSUME NEW q \in issued, q.device = credential[i]
          PROVE  Waits(i, q)' <=> Waits(i, q)
      <4>1. q.pos <= lastDeviceSeq[i] /\ q.pos \in Nat /\ lastDeviceSeq[i] \in Nat
        BY <3>1, ThreadSyncAssumption DEF Numbered, TInv, QueueTyped
      <4>2. [pos |-> q.pos, event |-> q.event] # p
        BY <2>2, <2>4, <4>1
      <4>. QED BY <2>1, <2>4, <4>2 DEF Waits
    <3>2. ASSUME NEW q \in issued', q \notin issued
          PROVE  Waits(i, q)'
      <4>1. q = new
        BY <2>1, <3>2
      <4>2. p \in outbox'[i]
        BY <2>1, <2>4
      <4>. QED BY <4>1, <4>2 DEF Waits
    <3>3. Gone(i)' = Gone(i)
      <4>1. Gone(i)' = {q \in issued' : q.device = credential[i] /\ Big(q) /\ ~Waits(i, q)'}
        BY <2>1 DEF Gone, Big
      <4>2. issued \subseteq issued'
        BY <2>1
      <4>. QED BY <3>1, <3>2, <4>1, <4>2 DEF Gone
    <3>4. \A q : InLog(q)' <=> InLog(q)
      BY <2>1 DEF InLog
    <3>. QED BY <1>1, <2>1, <3>1, <3>2, <3>3, <3>4 DEF ExactAt, Big
  <2>. QED BY <2>3, <2>4
<1>5. ASSUME NEW k \in Installs, SignIn(k)
      PROVE  ExactAt(i)'
  <2>1. CASE i # k
    BY <1>3, <1>5, <2>1, SignInIs, OthersFacts
  <2>2. CASE i = k
    <3>1. PICK d \in DeviceIds :
            /\ credential' = [credential EXCEPT ![k] = d] /\ \A q \in issued : q.device # d
            /\ dropped'[k] = 0 /\ UNCHANGED issued
      BY <1>5, SignInIs
    <3>2. credential'[i] = d
      BY <2>2, <3>1 DEF TInv, SignTyped
    <3>3. Gone(i)' = {}
      BY <3>1, <3>2 DEF Gone
    <3>. QED BY <2>2, <3>1, <3>2, <3>3, FS_EmptySet DEF ExactAt
  <2>. QED BY <2>1, <2>2
<1>6. ASSUME NEW k \in Installs, SignOut(k) \/ SignOutCutOff(k)
      PROVE  ExactAt(i)'
  <2>1. CASE i # k
    BY <1>3, <1>6, <2>1, SignOutIs, OthersFacts
  <2>2. CASE i = k
    BY <1>6, <2>2, SignOutIs DEF ExactAt
  <2>. QED BY <2>1, <2>2
<1>7. ASSUME NEW k \in Installs, PushAcked(k) \/ PushRefused(k) \/ DropWindow(k)
      PROVE  ExactAt(i)'
  <2>1. CASE i # k
    BY <1>3, <1>7, <2>1, PushSettles, OthersFacts
  <2>2. CASE i = k
    BY <1>7, <2>2, SettledIsExact
  <2>. QED BY <2>1, <2>2
<1>8. CASE UNCHANGED <<queueVars, credential>>
  BY <1>2, <1>8 DEF queueVars
<1>9. ASSUME NEW k \in Installs, PushSend(k) \/ StepsAside(k)
      PROVE  UNCHANGED <<queueVars, credential>>
  BY <1>9 DEF PushSend, StepsAside, signVars
<1>10. ASSUME NEW m \in verified, PushRuns(m)
       PROVE  UNCHANGED <<queueVars, credential>>
  BY <1>10 DEF PushRuns, signVars
<1>11. ASSUME NEW k \in Installs, NEW e \in Event, NEW row, Appends(k, e, row)
       PROVE  ExactAt(i)'
  <2>1. QueuesNothing => UNCHANGED <<queueVars, credential>>
    BY DEF QueuesNothing, signVars
  <2>. QED BY <1>4, <1>8, <1>11, <2>1, QueuesIs
<1>. QED BY <1>5, <1>6, <1>7, <1>8, <1>9, <1>10, <1>11, QueueFacts

LEMMA PushExactStep ==
  ASSUME TInv, Signed, QueuedOnce, LogSound, Numbered, LogClosed, PushExact, AnswersAgree,
         ~CredentialWriteFails, [Next]_vars
  PROVE  PushExact'
<1>. SUFFICES ASSUME NEW i \in Installs, pass'[i].pc = "pushing", Fence(i)'
              PROVE  PushExactAt(i)'
  BY DEF PushExact, PushExactAt
<1>1. rows \subseteq rows'
  BY IdsGrow
<1>2. pass \in [Installs -> Pass]
  BY DEF TInv, PassTyped
<1>3. \A q : InLog(q) => InLog(q)'
  BY <1>1 DEF InLog
<1>4. ASSUME pass'[i] = pass[i], session'[i] = session[i], outbox'[i] = outbox[i],
             lastDeviceSeq'[i] = lastDeviceSeq[i]
      PROVE  PushExactAt(i)'
  <2>1. pass[i].pc = "pushing" /\ Fence(i)
    BY <1>4 DEF Fence, Live
  <2>2. Unsendable(i, pass[i].through)' = Unsendable(i, pass[i].through)
    BY <1>4 DEF Unsendable, Big
  <2>. QED BY <1>3, <1>4, <2>1, <2>2 DEF PushExact, PushExactAt, Big
<1>5. ASSUME NEW k \in Installs, OthersRest(k), i # k
      PROVE  PushExactAt(i)'
  BY <1>4, <1>5 DEF OthersRest
<1>6. ASSUME NEW k \in Installs, OthersRest(k), NotPushing(k)
      PROVE  PushExactAt(i)'
  BY <1>5, <1>6 DEF NotPushing
<1>7. ASSUME NEW k \in Installs, NEW e, Queues(k, e)
      PROVE  PushExactAt(i)'
  <2>1. CASE i # k
    BY <1>5, <1>7, <2>1 DEF Queues
  <2>2. CASE i = k
    <3> DEFINE p == [pos |-> lastDeviceSeq[i] + 1, event |-> e]
    <3>1. /\ outbox'[i] = outbox[i] \union {p} /\ lastDeviceSeq'[i] = lastDeviceSeq[i] + 1
          /\ pass'[i] = pass[i] /\ session'[i] = session[i] /\ rows' = rows
      BY <1>7, <2>2 DEF Queues, cloudVars, signVars
    <3>2. pass[i].pc = "pushing" /\ Fence(i)
      BY <3>1 DEF Fence, Live
    <3>3. /\ pass[i].through <= lastDeviceSeq[i] /\ lastDeviceSeq[i] \in Nat /\ pass[i].through \in Nat
      BY <1>2, <3>2, ThreadSyncAssumption DEF PushExact, PushExactAt, TInv, QueueTyped, Pass
    <3>4. p.pos = lastDeviceSeq[i] + 1 /\ ~(p.pos <= pass[i].through)
      BY <3>3
    <3>5. pass[i].through <= lastDeviceSeq'[i]
      BY <3>1, <3>3
    <3>. HIDE DEF p
    <3>6. Unsendable(i, pass[i].through)' = Unsendable(i, pass[i].through)
      <4>1. Unsendable(i, pass[i].through)' = {q \in outbox'[i] : q.pos <= pass[i].through /\ Big(q)}
        BY <3>1 DEF Unsendable, Big
      <4>. QED BY <3>1, <3>4, <4>1 DEF Unsendable
    <3>7. \A q \in outbox'[i] : q.pos <= pass[i].through => q \in pass[i].batch \/ Big(q)
      BY <3>1, <3>2, <3>4 DEF PushExact, PushExactAt
    <3>. QED BY <1>3, <3>1, <3>2, <3>5, <3>6, <3>7 DEF PushExact, PushExactAt, Big
  <2>. QED BY <2>1, <2>2
<1>8. ASSUME NEW k \in Installs, SignIn(k)
      PROVE  PushExactAt(i)'
  <2>1. CASE i # k
    BY <1>5, <1>8, <2>1, OthersFacts
  <2>2. CASE i = k
    <3>1. session'[i].id = NewId(i) /\ pass'[i] = pass[i]
      BY <1>8, <2>2, SignInIs
    <3>2. NewId(i) # pass[i].session
      BY DEF NewId
    <3>. QED BY <3>1, <3>2 DEF Fence
  <2>. QED BY <2>1, <2>2
<1>9. ASSUME NEW k \in Installs, SignOut(k) \/ SignOutCutOff(k)
      PROVE  PushExactAt(i)'
  <2>1. CASE i # k
    BY <1>5, <1>9, <2>1, OthersFacts
  <2>2. CASE i = k
    BY <1>9, <2>2, SignOutIs DEF Fence, Live
  <2>. QED BY <2>1, <2>2
<1>10. ASSUME NEW k \in Installs, PushSend(k)
       PROVE  PushExactAt(i)'
  <2>1. CASE i # k
    BY <1>5, <1>10, <2>1, OthersFacts
  <2>2. CASE i = k
    <3>1. PICK last \in Window(i) :
            /\ \A q \in Window(i) : q.pos <= last.pos
            /\ pass' = [pass EXCEPT ![i] =
                 [@ EXCEPT !.pc = "pushing", !.batch = Sendable(i), !.through = last.pos,
                           !.rejected = Rejects(i)]]
      BY <1>10, <2>2 DEF PushSend
    <3> DEFINE p == [pass[i] EXCEPT !.pc = "pushing", !.batch = Sendable(i), !.through = last.pos,
                                    !.rejected = Rejects(i)]
    <3>2. p = PassOf("pushing", pass[i].session, pass[i].device, pass[i].own, pass[i].round, Sendable(i),
                     last.pos, Rejects(i), pass[i].answer, pass[i].page, pass[i].more)
      BY <1>2, SentIs
    <3>3. pass'[i] = p /\ pass[i].pc = "push" /\ Fence(i) /\ UNCHANGED <<queueVars, signVars>>
      BY <1>2, <1>10, <2>2, <3>1 DEF PushSend, PushReady, Draining
    <3>. HIDE DEF p
    <3>4. /\ p.batch = Sendable(i) /\ p.through = last.pos /\ p.rejected = Rejects(i)
          /\ p.answer = pass[i].answer
      BY <3>2 DEF PassOf
    <3>5. pass[i].answer.code = "none"
      BY <3>3 DEF AnswersAgree, NoAnswer
    <3>6. last.pos <= lastDeviceSeq[i]
      <4> DEFINE q == [device |-> credential[i], pos |-> last.pos, event |-> last.event]
      <4>1. session[i].device = credential[i] /\ credential[i] # 0 /\ last \in outbox[i]
        BY <3>3, WindowFacts DEF Signed, Fence, Live, TInv, SignTyped, DeviceIds
      <4>2. q \in issued
        BY <4>1 DEF LogSound, Issued
      <4>3. q.device = credential[i] /\ q.pos = last.pos
        OBVIOUS
      <4>. QED BY <4>2, <4>3 DEF Numbered
    <3>7. ASSUME NEW q \in outbox[i], q.pos <= last.pos
          PROVE  q \in Window(i) /\ (q \in Sendable(i) \/ Big(q))
      BY <3>7, WindowIsHead DEF Sendable, Big
    <3>8. Unsendable(i, last.pos) = Window(i) \ Sendable(i)
      <4>1. \A q \in Window(i) : q \in outbox[i] /\ q.pos <= last.pos
        BY <3>1, WindowFacts
      <4>2. \A q \in Window(i) : q \in Sendable(i) <=> ~Big(q)
        BY DEF Sendable, Big
      <4>. QED BY <3>7, <4>1, <4>2 DEF Unsendable
    <3>9. /\ outbox'[i] = outbox[i] /\ lastDeviceSeq'[i] = lastDeviceSeq[i]
      BY <3>3 DEF queueVars
    <3>10. pass'[i].rejected = Cardinality({q \in outbox'[i] : q.pos <= pass'[i].through /\ Big(q)})
      BY <3>3, <3>4, <3>8, <3>9 DEF Rejects, Unsendable
    <3>11. \A q \in outbox'[i] : q.pos <= pass'[i].through => q \in pass'[i].batch \/ Big(q)
      BY <3>3, <3>4, <3>7, <3>9
    <3>12. pass'[i].through <= lastDeviceSeq'[i] /\ pass'[i].answer.code # "ok"
      BY <3>3, <3>4, <3>5, <3>6, <3>9
    <3>. QED BY <3>10, <3>11, <3>12 DEF PushExactAt, Unsendable, Big
  <2>. QED BY <2>1, <2>2
<1>11. ASSUME NEW k \in Installs, PushAcked(k) \/ PushRefused(k) \/ DropWindow(k)
       PROVE  PushExactAt(i)'
  BY <1>6, <1>11, PushSettles, OthersFacts
<1>12. ASSUME NEW k \in Installs, StepsAside(k)
       PROVE  PushExactAt(i)'
  BY <1>6, <1>12 DEF StepsAside
<1>13. ASSUME NEW m \in verified, PushRuns(m)
       PROVE  PushExactAt(i)'
  <2>1. PICK answer \in Cloud!PushAnswers(m.device, m.batch) :
          pass' = [j \in Installs |-> Answered(m, answer, j)]
    BY <1>13 DEF PushRuns, Answered
  <2>2. Cloud!Push(m) /\ UNCHANGED <<queueVars, signVars>>
    BY <1>13 DEF PushRuns
  <2>3. /\ outbox'[i] = outbox[i] /\ lastDeviceSeq'[i] = lastDeviceSeq[i] /\ session'[i] = session[i]
    BY <2>2 DEF queueVars, signVars
  <2> DEFINE p == [pass[i] EXCEPT !.answer = answer]
  <2>4. p = PassOf(pass[i].pc, pass[i].session, pass[i].device, pass[i].own, pass[i].round, pass[i].batch,
                   pass[i].through, pass[i].rejected, answer, pass[i].page, pass[i].more)
    BY <1>2, AnsweredIs
  <2>5. \/ pass'[i] = pass[i]
        \/ /\ pass'[i] = p /\ pass[i].pc = "pushing"
           /\ pass[i].device = m.device /\ pass[i].batch = m.batch
    BY <2>1 DEF Answered
  <2>. HIDE DEF p
  <2>6. CASE pass'[i] = pass[i]
    BY <1>4, <2>3, <2>6
  <2>7. CASE /\ pass'[i] = p /\ pass[i].pc = "pushing"
             /\ pass[i].device = m.device /\ pass[i].batch = m.batch
    <3>1. /\ pass'[i].session = pass[i].session /\ pass'[i].through = pass[i].through
          /\ pass'[i].batch = pass[i].batch /\ pass'[i].rejected = pass[i].rejected
          /\ pass'[i].device = pass[i].device
      BY <2>4, <2>7 DEF PassOf
    <3>2. Fence(i)
      BY <2>3, <3>1 DEF Fence, Live
    <3>3. /\ pass[i].through <= lastDeviceSeq[i]
          /\ \A q \in outbox[i] : q.pos <= pass[i].through => q \in pass[i].batch \/ Big(q)
          /\ pass[i].rejected = Cardinality(Unsendable(i, pass[i].through))
      BY <2>7, <3>2 DEF PushExact, PushExactAt
    <3>4. ASSUME NEW q \in m.batch
          PROVE  \E r \in rows' : r.device = m.device /\ r.pos = q.pos /\ r.event = q.event
      BY <2>2, BatchLands
    <3>5. \A q \in pass'[i].batch :
            InLog([device |-> pass[i].device, pos |-> q.pos, event |-> q.event])'
      <4>. SUFFICES ASSUME NEW q \in m.batch
                    PROVE  \E r \in rows' : /\ r.device = pass'[i].device /\ r.pos = q.pos
                                            /\ r.event = q.event
        BY <2>7, <3>1 DEF InLog
      <4>. QED BY <2>7, <3>1, <3>4
    <3>6. Unsendable(i, pass[i].through)' = Unsendable(i, pass[i].through)
      BY <2>3, <3>1 DEF Unsendable, Big
    <3>. QED BY <2>3, <3>1, <3>3, <3>5, <3>6 DEF PushExactAt, Big
  <2>. QED BY <2>5, <2>6, <2>7
<1>14. ASSUME NEW k \in Installs, NEW e \in Event, NEW row, Appends(k, e, row)
       PROVE  PushExactAt(i)'
  <2>1. CASE QueuesNothing
    BY <1>4, <2>1 DEF QueuesNothing, signVars, queueVars
  <2>. QED BY <1>7, <1>14, <2>1, QueuesIs
<1>15. CASE UNCHANGED <<queueVars, credential, session, pass, rows, verified, purged>>
  BY <1>4, <1>15 DEF queueVars
<1>. QED BY <1>8, <1>9, <1>10, <1>11, <1>12, <1>13, <1>14, <1>15, QueueFacts

\* The inductive invariant of the queue and the log.
QueueInv == Apart /\ Numbered /\ LogClosed /\ QueueExact /\ PushExact /\ AnswersAgree

LEMMA QueueInvInit ==
  ASSUME Init
  PROVE  QueueInv
<1>1. NoPass.pc = "idle" /\ NoPass.answer = NoAnswer /\ NoAnswer.code = "none"
  BY DEF NoPass, NoAnswer
<1>2. Apart /\ LogClosed
  BY DEF Init, Cloud!Init, Apart, LogClosed, RowsClosed, BatchesClosed
<1>3. Numbered
  BY FS_EmptySet DEF Init, Numbered, PositionsIssuedOnce
<1>4. QueueExact
  BY DEF Init, QueueExact, ExactAt
<1>5. PushExact /\ AnswersAgree
  BY <1>1 DEF Init, PushExact, PushExactAt, AnswersAgree
<1>. QED BY <1>2, <1>3, <1>4, <1>5 DEF QueueInv

LEMMA QueueInvHolds ==
  ASSUME ~CredentialWriteFails
  PROVE  Spec => []QueueInv
<1> DEFINE O == Signed /\ QueuedOnce /\ TablesSound /\ LogSound
<1>1. TInv /\ O /\ QueueInv /\ [Next]_vars => QueueInv'
  BY ApartStep, NumberedStep, LogClosedStep, QueueExactStep, PushExactStep, AnswersAgreeStep
  DEF QueueInv
<1>2. Spec => []O
  BY OriginsHold
<1>. HIDE DEF O
<1>. QED BY <1>1, <1>2, QueueInvInit, TInvHolds, PTL DEF Spec

\* A position is issued once, when every credential is kept: a queue is numbered from 1 again only
\* under a new device.
THEOREM IssuedOnce ==
  ASSUME ~CredentialWriteFails
  PROVE  Spec => []PositionsIssuedOnce
<1>1. QueueInv => PositionsIssuedOnce
  BY DEF QueueInv, Numbered
<1>. QED BY <1>1, QueueInvHolds, PTL

\* And then the log refuses nothing an install pushes, whatever was lost, repeated or overtaken.
THEOREM AlwaysAgree ==
  ASSUME ~CredentialWriteFails
  PROVE  Spec => []NeverAtOdds
<1>1. QueueInv => NeverAtOdds
  BY DEF QueueInv, AnswersAgree, NeverAtOdds
<1>. QED BY <1>1, QueueInvHolds, PTL

\* And an install's status counts exactly what of its events never reached the log.
THEOREM CountsWhatIsLost ==
  ASSUME ~CredentialWriteFails
  PROVE  Spec => []DroppedIsExact
<1>1. TInv /\ Signed /\ QueueInv => DroppedIsExact
  <2>. SUFFICES ASSUME TInv, Signed, QueueInv, NEW i \in Installs, Live(i)
                PROVE  dropped[i] = Cardinality({q \in issued :
                         /\ q.device = session[i].device
                         /\ [pos |-> q.pos, event |-> q.event] \notin outbox[i]
                         /\ ~InLog(q)})
    BY DEF DroppedIsExact
  <2>1. session[i].device = credential[i] /\ credential[i] # 0
    BY DEF Signed, TInv, SignTyped, Live, DeviceIds
  <2>2. ExactAt(i)
    BY DEF QueueInv, QueueExact
  <2>3. \A q \in issued : Big(q) => ~InLog(q)
    BY DEF QueueInv, LogClosed, RowsClosed, InLog, Big
  <2>4. Gone(i) = {q \in issued : /\ q.device = session[i].device
                                  /\ [pos |-> q.pos, event |-> q.event] \notin outbox[i]
                                  /\ ~InLog(q)}
    BY <2>1, <2>2, <2>3 DEF Gone, ExactAt, Waits
  <2>. QED BY <2>1, <2>2, <2>4 DEF ExactAt
<1>. QED BY <1>1, QueueInvHolds, TInvHolds, OriginsHold, PTL

-----------------------------------------------------------------------------
(* The order of the log, of a table and of the starts of turns. *)

\* The log only grows, and past its end.
LEMMA LogGrows ==
  ASSUME TInv, [Next]_vars
  PROVE  /\ rows \subseteq rows' /\ lastSeq <= lastSeq'
         /\ \A r \in rows' \ rows : r.seq > lastSeq
<1>1. lastSeq \in Nat /\ \A r \in rows : r.seq \in Nat
  BY DEF TInv, Cloud!TypeOK, Cloud!Row
<1>2. ASSUME NEW m \in verified, Cloud!Push(m)
      PROVE  /\ rows \subseteq rows' /\ lastSeq <= lastSeq'
             /\ \A r \in rows' \ rows : r.seq > lastSeq
  <2>1. Log!TypeOK /\ Log!Push(m)
    BY <1>2, SameTypes, SamePush DEF TInv
  <2>2. Log!PositionsAssumption /\ Log!LimitsAssumption
    BY ThreadSyncAssumption DEF Log!PositionsAssumption, Log!LimitsAssumption
  <2>3. /\ rows' = rows \union Log!Landed(m.device, Log!Stored(m))
        /\ lastSeq' = lastSeq + Log!Cardinality(Log!Stored(m))
    BY <2>1, <2>2, Log!PushFacts
  <2>4. /\ m.device \in DeviceIds /\ Log!Stored(m) \in SUBSET Log!Entry
        /\ Log!IsFiniteSet(Log!Stored(m)) /\ ~Log!Disordered(Log!Stored(m))
        /\ Log!Cardinality(Log!Stored(m)) \in Nat
    BY <2>1, <2>2, Log!StoredFacts
  <2>5. \A r \in Log!Landed(m.device, Log!Stored(m)) : r.seq > lastSeq
    BY <1>1, <2>2, <2>4, Log!LandedFacts
  <2>. QED BY <1>1, <2>3, <2>4, <2>5
<1>3. CASE UNCHANGED <<rows, lastSeq>>
  BY <1>1, <1>3
<1>4. (\E m \in verified : Cloud!Push(m)) \/ UNCHANGED <<rows, lastSeq>>
  BY CloudActs DEF PushSend, PushRuns, Cloud!SignIn, Cloud!Verify, Cloud!Revoke, cloudVars
<1>. QED BY <1>2, <1>3, <1>4

\* A device signs in one install.
OwnersApart ==
  \A i, j \in Installs : \A d \in ownDevices[i] \intersect ownDevices[j] : i = j

\* A sign-in opens a session under a device of its own.
LEMMA OwnersApartStep ==
  ASSUME TInv, Signed, OwnersApart, [Next]_vars
  PROVE  OwnersApart'
<1>1. ASSUME NEW k \in Installs, NEW d, d \notin minted,
             \A j \in Installs : ownDevices'[j] \subseteq ownDevices[j] \union (IF j = k THEN {d} ELSE {})
      PROVE  OwnersApart'
  BY <1>1 DEF OwnersApart, Signed
<1>2. CASE \A j \in Installs : ownDevices'[j] \subseteq ownDevices[j]
  BY <1>2 DEF OwnersApart
<1>3. ASSUME NEW k \in Installs, SignIn(k)
      PROVE  OwnersApart'
  <2>1. PICK d \in DeviceIds : Cloud!SignIn(d) /\ OpenSession(k, d)
    BY <1>3 DEF SignIn
  <2>2. d \notin minted
    BY <2>1 DEF Cloud!SignIn
  <2>3. \A j \in Installs : ownDevices'[j] \subseteq ownDevices[j] \union (IF j = k THEN {d} ELSE {})
    BY <2>1 DEF OpenSession, TInv, SignTyped
  <2>. QED BY <1>1, <2>2, <2>3
<1>4. ASSUME NEW k \in Installs, Restart(k)
      PROVE  \A j \in Installs : ownDevices'[j] \subseteq ownDevices[j]
  <2>1. \/ credential[k] # 0 /\ OpenSession(k, credential[k])
        \/ UNCHANGED ownDevices
    BY <1>4 DEF Restart
  <2>. QED BY <2>1 DEF OpenSession, TInv, SignTyped, Signed
<1>5. (\E k \in Installs : SignIn(k) \/ Restart(k)) \/ UNCHANGED ownDevices
  <2>1. ASSUME NEW k \in Installs, \/ Append(k) \/ SignInFails(k) \/ SignOut(k) \/ SignOutCutOff(k)
                                   \/ PushUnreachable(k) \/ PullUnreachable(k) \/ ApplyFails(k)
        PROVE  UNCHANGED ownDevices
    BY <2>1, AppendIs DEF SignInFails, SignOut, SignOutCutOff, PushUnreachable, PullUnreachable,
                          ApplyFails, signVars
  <2>2. ASSUME NEW k \in Installs, PassSteps(k)
        PROVE  UNCHANGED ownDevices
    BY <2>2 DEF PassSteps, PassMoves, StartPass, PassFenced, PushSend, PushAcked, PushRefused,
                PushUnauthorized, EndSession, DropWindow, DrainEnds, PullPage, PullUnauthorized,
                ApplyPage, PullCaughtUp, signVars
  <2>3. ASSUME NEW m \in verified, PushRuns(m)
        PROVE  UNCHANGED ownDevices
    BY <2>3 DEF PushRuns, signVars
  <2>4. ASSUME NEW d \in DeviceIds, Revoke(d)
        PROVE  UNCHANGED ownDevices
    BY <2>4 DEF Revoke
  <2>5. CASE UNCHANGED vars
    BY <2>5 DEF vars, signVars
  <2>. QED BY <2>1, <2>2, <2>3, <2>4, <2>5 DEF Next
<1>. QED BY <1>2, <1>3, <1>4, <1>5

\* An event starts the turn another is content of.
Starts(f, e) == f.by = e.by /\ f.n = e.needs

\* What has its start in a set of events:
LEMMA StartedIs ==
  ASSUME NEW H, NEW e
  PROVE  Started(H, e) <=> (e.needs = 0 \/ \E f \in H : Starts(f, e))
BY DEF Started, Starts

\* An install writes a turn's content after its start, which needs nothing; and all that is queued
\* is in the table of the install that wrote it.
StartsFirst ==
  /\ \A i \in Installs : \A r \in OwnRows(i) :
       r.event.needs # 0 => \E f \in OwnRows(i) : Starts(f.event, r.event) /\ f.event.needs = 0
  /\ \A i \in Installs : \A r, s \in OwnRows(i) : r.event.n = s.event.n => r = s
  /\ \A q \in issued : \E r \in OwnRows(q.event.by) : r.event = q.event

\* what an install appends needs a start it wrote,
LEMMA AppendNeeds ==
  ASSUME NEW i \in Installs, Append(i), TInv
  PROVE  \A r \in events'[i] \ events[i] :
           r.event.needs # 0 => \E f \in Held(i) : f.by = i /\ f.n = r.event.needs /\ f.needs = 0
<1>1. PICK kind \in Kinds, needs \in {0} \union {f.n : f \in Held(i)} :
        /\ kind = "content" <=> needs # 0
        /\ kind = "content" => \E f \in Held(i) : f.by = i /\ f.n = needs /\ f.needs = 0
        /\ events' = [events EXCEPT ![i] = @ \union
             {[seq |-> Cardinality(@) + 1, device |-> 0, pos |-> 0,
               event |-> [by |-> i, n |-> Cardinality({r \in events[i] : r.device = 0}) + 1,
                          kind |-> kind, needs |-> needs]]}]
  BY Zenon DEF Append
<1> DEFINE e == [by |-> i, n |-> Cardinality({r \in events[i] : r.device = 0}) + 1,
                 kind |-> kind, needs |-> needs]
           row == [seq |-> Cardinality(events[i]) + 1, device |-> 0, pos |-> 0, event |-> e]
<1>2. e.needs = needs /\ row.event = e
  OBVIOUS
<1>3. events'[i] = events[i] \union {row}
  BY <1>1 DEF TInv, TableTyped
<1>. HIDE DEF e, row
<1>. QED BY <1>1, <1>2, <1>3

\* so content follows its start in the table of the install that wrote both.
LEMMA StartsFirstStep ==
  ASSUME TInv, TablesSound, QueuedOnce, StartsFirst, [Next]_vars
  PROVE  StartsFirst'
<1>0. \A q \in issued : q.event.by \in Installs
  BY DEF TInv, QueueTyped, Event
<1>1. ASSUME NEW k \in Installs, Append(k)
      PROVE  StartsFirst'
  <2>1. PICK e \in Event, row \in LocalRow : Appends(k, e, row)
    BY <1>1, AppendFacts
  <2>2. /\ e.by = k /\ row.device = 0 /\ row.event = e /\ e.n = Cardinality(OwnRows(k)) + 1
        /\ row \notin OwnRows(k)
        /\ events' = [events EXCEPT ![k] = events[k] \union {row}]
        /\ \A j \in Installs : OwnRows(j)' = IF j = k THEN OwnRows(k) \union {row} ELSE OwnRows(j)
    BY <2>1 DEF Appends
  <2>3. row \in events'[k] \ events[k]
    BY <2>2 DEF OwnRows, TInv, TableTyped
  <2>4. e.needs # 0 => \E f \in OwnRows(k) : Starts(f.event, e) /\ f.event.needs = 0
    <3>1. SUFFICES ASSUME e.needs # 0
                   PROVE  \E f \in OwnRows(k) : Starts(f.event, e) /\ f.event.needs = 0
      OBVIOUS
    <3>2. PICK f \in Held(k) : f.by = k /\ f.n = e.needs /\ f.needs = 0
      BY <1>1, <2>2, <2>3, <3>1, AppendNeeds
    <3>3. PICK r \in events[k] : r.event = f
      BY DEF Held
    <3>4. r.device = 0
      BY <3>2, <3>3 DEF TablesSound
    <3>. QED BY <2>2, <3>2, <3>3, <3>4 DEF OwnRows, Starts
  <2>5. \A r \in OwnRows(k) : r.event.n # e.n
    <3>1. \A r \in OwnRows(k) : r.event.n <= Cardinality(OwnRows(k))
      BY DEF TInv, Counted
    <3>2. Cardinality(OwnRows(k)) \in Nat
      BY OwnRowsFinite
    <3>3. \A r \in OwnRows(k) : r.event.n \in Nat
      BY DEF TInv, TableTyped, OwnRows, LocalRow, Event
    <3>. QED BY <2>2, <3>1, <3>2, <3>3
  <2>6. ASSUME NEW i \in Installs, NEW r \in OwnRows(i)', r.event.needs # 0
        PROVE  \E f \in OwnRows(i)' : Starts(f.event, r.event) /\ f.event.needs = 0
    BY <2>2, <2>4, <2>6 DEF StartsFirst
  <2>7. ASSUME NEW i \in Installs, NEW r \in OwnRows(i)', NEW s \in OwnRows(i)', r.event.n = s.event.n
        PROVE  r = s
    BY <2>2, <2>5, <2>7 DEF StartsFirst
  <2>8. ASSUME NEW q \in issued'
        PROVE  \E r \in OwnRows(q.event.by)' : r.event = q.event
    <3>1. CASE q \in issued
      BY <1>0, <2>2, <3>1 DEF StartsFirst
    <3>2. CASE q = [device |-> session[k].device, pos |-> lastDeviceSeq[k] + 1, event |-> e]
      <4>1. q.event = e
        BY <3>2
      <4>. QED BY <2>2, <4>1
    <3>3. \/ issued' = issued
          \/ issued' = issued \union
               {[device |-> session[k].device, pos |-> lastDeviceSeq[k] + 1, event |-> e]}
      BY <2>1 DEF Appends
    <3>. QED BY <3>1, <3>2, <3>3
  <2>. QED BY <2>6, <2>7, <2>8 DEF StartsFirst
<1>2. ASSUME UNCHANGED issued, \A j \in Installs : OwnRows(j)' = OwnRows(j)
      PROVE  StartsFirst'
  BY <1>0, <1>2 DEF StartsFirst
<1>3. ASSUME NEW k \in Installs, NEW last \in pass[k].page, LandsPage(k, last)
      PROVE  StartsFirst'
  BY <1>2, <1>3, ApplyThroughTypes DEF LandsPage
<1>4. CASE UNCHANGED <<events, issued>>
  BY <1>2, <1>4 DEF OwnRows
<1>. QED BY <1>1, <1>3, <1>4, TableFacts

\* So a row of the log that starts a turn needs nothing itself.
LEMMA StartNeedsNothing ==
  ASSUME TInv, StartsFirst, LogSound, NEW t \in rows, NEW r \in rows,
         r.event.needs # 0, Starts(t.event, r.event)
  PROVE  t.event.needs = 0
<1> DEFINE q(x) == [device |-> x.device, pos |-> x.pos, event |-> x.event]
<1>0. q(r) \in issued /\ q(t) \in issued /\ q(r).event = r.event /\ q(t).event = t.event
  BY DEF LogSound, Issued
<1>. HIDE DEF q
<1>1. PICK x \in OwnRows(r.event.by) : x.event = r.event
  BY <1>0 DEF StartsFirst
<1>2. PICK y \in OwnRows(t.event.by) : y.event = t.event
  BY <1>0 DEF StartsFirst
<1>3. r.event.by \in Installs /\ t.event.by = r.event.by /\ t.event.n = r.event.needs
  BY DEF TInv, Cloud!TypeOK, Cloud!Row, Event, Starts
<1>4. PICK f \in OwnRows(r.event.by) : Starts(f.event, x.event) /\ f.event.needs = 0
  BY <1>1, <1>3 DEF StartsFirst
<1>5. f.event.n = y.event.n
  BY <1>1, <1>2, <1>3, <1>4 DEF Starts
<1>6. f = y
  BY <1>2, <1>3, <1>5 DEF StartsFirst
<1>. QED BY <1>2, <1>4, <1>6

-----------------------------------------------------------------------------
(* What a table knows of the log. *)

\* What a table holds of others came from the log; no row stands past the table's count.
TablesFromLog ==
  \A i \in Installs : \A t \in events[i] :
    /\ t.seq <= Cardinality(events[i])
    /\ t.device # 0 =>
         \E r \in rows : r.device = t.device /\ r.pos = t.pos /\ r.event = t.event

\* A page lands rows of the log, and only it fills a table with rows of others.
LEMMA TablesFromLogStep ==
  ASSUME TInv, LogSound, Signed, LogInv, TablesFromLog, [Next]_vars
  PROVE  TablesFromLog'
<1>1. rows \subseteq rows'
  BY LogGrows
<1>2. ASSUME NEW k \in Installs, Append(k)
      PROVE  TablesFromLog'
  <2>1. PICK e, row : /\ events' = [events EXCEPT ![k] = events[k] \union {row}]
                      /\ row.device = 0 /\ row.seq = Cardinality(events[k]) + 1
    <3>1. PICK e : Appended(k, e)
      BY <1>2, AppendIs
    <3> DEFINE row == [seq |-> Cardinality(events[k]) + 1, device |-> 0, pos |-> 0, event |-> e]
    <3>2. events' = [events EXCEPT ![k] = events[k] \union {row}]
      BY <3>1 DEF Appended, TInv, TableTyped
    <3>3. row.device = 0 /\ row.seq = Cardinality(events[k]) + 1
      OBVIOUS
    <3>. HIDE DEF row
    <3>. QED BY <3>2, <3>3
  <2>2. IsFiniteSet(events[k]) /\ Cardinality(events[k]) \in Nat /\ \A t \in events[k] : t.seq \in Nat
    BY FS_CardinalityType DEF TInv, TableTyped, LocalRow
  <2>3. row \notin events[k]
    BY <2>1, <2>2 DEF TablesFromLog
  <2>4. Cardinality(events[k] \union {row}) = Cardinality(events[k]) + 1
    BY <2>2, <2>3, FS_AddElement
  <2>5. events'[k] = events[k] \union {row} /\ \A j \in Installs : j # k => events'[j] = events[j]
    BY <2>1 DEF TInv, TableTyped
  <2>. QED BY <1>1, <2>1, <2>2, <2>4, <2>5 DEF TablesFromLog
<1>3. ASSUME NEW k \in Installs, NEW last \in pass[k].page, LandsPage(k, last)
      PROVE  TablesFromLog'
  <2>1. PICK lands : Landing(k, lands)
    BY <1>3, LandingIs DEF LandsPage
  <2> DEFINE new == {Stored(k, lands, r) : r \in lands}
  <2>2. /\ lands \subseteq pass[k].page /\ \A r \in lands : ~StoredOrigin(k, r)
        /\ events'[k] = events[k] \union new
        /\ \A j \in Installs : j # k => events'[j] = events[j]
    BY <2>1 DEF Landing, TInv, TableTyped
  <2>3. lands \subseteq rows /\ IsFiniteSet(lands) /\ UNCHANGED rows
    BY <1>3, <2>2, FS_Subset DEF LogSound, TInv, PassTyped, LandsPage
  <2>4. \A r : LET t == Stored(k, lands, r) IN
                /\ t.device = r.device /\ t.pos = r.pos /\ t.event = r.event
                /\ t.seq = Cardinality(events[k]) + Cardinality({s \in lands : s.seq <= r.seq})
    BY DEF Stored
  <2>5. Cardinality(new) = Cardinality(lands) /\ IsFiniteSet(new)
    <3> DEFINE f == [r \in lands |-> Stored(k, lands, r)]
    <3>1. \A r, s \in lands : f[r] = f[s] => r = s
      BY <2>3, <2>4, OriginIsRow
    <3>2. f \in Surjection(lands, new)
      BY DEF Surjection
    <3>. HIDE DEF f, new
    <3>3. f \in Injection(lands, new)
      BY <3>1, <3>2 DEF Injection, IsInjective, Surjection
    <3>. QED BY <2>3, <3>2, <3>3, FS_Surjection
  <2>6. new \intersect events[k] = {}
    BY <2>2, <2>4 DEF StoredOrigin
  <2>7. /\ IsFiniteSet(events[k]) /\ Cardinality(events[k]) \in Nat /\ Cardinality(lands) \in Nat
        /\ \A t \in events[k] : t.seq \in Nat
    BY <2>3, FS_CardinalityType DEF TInv, TableTyped, LocalRow
  <2>8. Cardinality(events'[k]) = Cardinality(events[k]) + Cardinality(lands)
    <3>. HIDE DEF new
    <3>1. Cardinality(events[k] \intersect new) = 0
      BY <2>6, FS_EmptySet
    <3>2. Cardinality(events[k] \union new) =
            Cardinality(events[k]) + Cardinality(new) - Cardinality(events[k] \intersect new)
      BY <2>5, <2>7, FS_Union
    <3>3. events'[k] = events[k] \union new
      BY <2>2
    <3>. QED BY <2>5, <2>7, <3>1, <3>2, <3>3
  <2>9. ASSUME NEW r \in lands
        PROVE  Cardinality({s \in lands : s.seq <= r.seq}) <= Cardinality(lands)
    BY <2>3, FS_Subset, {s \in lands : s.seq <= r.seq} \in SUBSET lands
  <2>10. ASSUME NEW r \in lands
         PROVE  Cardinality({s \in lands : s.seq <= r.seq}) \in Nat
    BY <2>3, FS_Subset, FS_CardinalityType, {s \in lands : s.seq <= r.seq} \in SUBSET lands
  <2>11. ASSUME NEW t \in events'[k]
         PROVE  /\ t.seq <= Cardinality(events'[k])
                /\ t.device # 0 =>
                     \E r \in rows : r.device = t.device /\ r.pos = t.pos /\ r.event = t.event
    <3>1. CASE t \in events[k]
      BY <2>7, <2>8, <3>1 DEF TablesFromLog
    <3>2. CASE t \in new
      <4>1. PICK r \in lands : t = Stored(k, lands, r)
        BY <3>2
      <4>2. /\ t.device = r.device /\ t.pos = r.pos /\ t.event = r.event
            /\ t.seq = Cardinality(events[k]) + Cardinality({s \in lands : s.seq <= r.seq})
        BY <2>4, <4>1
      <4>3. t.seq <= Cardinality(events'[k])
        <5> DEFINE n == Cardinality({s \in lands : s.seq <= r.seq})
        <5>1. n <= Cardinality(lands) /\ n \in Nat /\ t.seq = Cardinality(events[k]) + n
          BY <2>9, <2>10, <4>2
        <5>. HIDE DEF n
        <5>. QED BY <2>7, <2>8, <5>1
      <4>4. r \in rows
        BY <2>3
      <4>. QED BY <4>2, <4>3, <4>4
    <3>. QED BY <2>2, <3>1, <3>2
  <2>. QED BY <2>2, <2>3, <2>11 DEF TablesFromLog
<1>4. CASE UNCHANGED events
  BY <1>1, <1>4 DEF TablesFromLog
<1>. QED BY <1>2, <1>3, <1>4, TableFacts

TableOrigins == OwnersApart /\ StartsFirst /\ TablesFromLog

\* All three hold of every reachable state.
LEMMA TableOriginsHold == Spec => []TableOrigins
<1> DEFINE O == Signed /\ QueuedOnce /\ TablesSound /\ LogSound
<1>1. Init => TableOrigins
  BY DEF Init, TableOrigins, OwnersApart, StartsFirst, TablesFromLog, OwnRows
<1>2. TInv /\ LogInv /\ O /\ TableOrigins /\ [Next]_vars => TableOrigins'
  BY OwnersApartStep, StartsFirstStep, TablesFromLogStep DEF TableOrigins
<1>3. Spec => []O
  BY OriginsHold
<1>. HIDE DEF O
<1>. QED BY <1>1, <1>2, <1>3, TInvHolds, LogInvHolds, PTL DEF Spec

-----------------------------------------------------------------------------
(* The cursor, when every credential is kept. *)

\* What CursorHonest says of a row the cursor has passed.
Unstarted(i, r) ==
  /\ r.event.needs # 0
  /\ \A t \in events[i], s \in rows :
       s.device = t.device /\ s.pos = t.pos /\ s.seq < r.seq => ~Starts(t.event, r.event)

Honest(i, r) ==
  \/ r.device \in ownDevices[i]
  \/ StoredOrigin(i, r)
  \/ ~Reads(build[i], r.event) /\ skipped[i].seq \in 1 .. r.seq
  \/ Unstarted(i, r)

\* Content without its start stays so while neither table nor log shows one.
LEMMA UnstartedIs ==
  ASSUME NEW i, NEW r
  PROVE  Unstarted(i, r) <=> ~Started(HeldBefore(i, r), r.event)
BY StartedIs DEF HeldBefore, Unstarted

\* A page a pass may apply is what the log has past the cursor, up to the page's last row.
PageIsNext(i) ==
  pass[i].pc = "applying" /\ Fence(i) =>
    /\ \A r \in pass[i].page : r.seq > cursor[i]
    /\ \A r \in rows, p \in pass[i].page : cursor[i] < r.seq /\ r.seq <= p.seq => r \in pass[i].page

\* The cursor has passed no row past the log's end.  The record of what was skipped is of the build
\* that runs, while the install has a credential to pull under.
CursorAt(i) ==
  /\ cursor[i] <= lastSeq
  /\ credential[i] # 0 =>
       /\ \A r \in rows : r.seq <= cursor[i] => Honest(i, r)
       /\ skipped[i].seq # 0 => skipped[i].build = build[i]
  /\ PageIsNext(i)

PullInv == \A i \in Installs : CursorAt(i)

\* What a step does to an install's pull.  Most leave it be, and at most fetch it a page;
PullRests(i) ==
  /\ cursor'[i] = cursor[i] /\ skipped'[i] = skipped[i] /\ build'[i] = build[i]
  /\ events[i] \subseteq events'[i]
  /\ \A t : t.device # 0 => (t \in events'[i] <=> t \in events[i])
  /\ credential'[i] \in {0, credential[i]}
  /\ pass'[i].pc = "applying" =>
       /\ session'[i] = session[i] /\ pass'[i].session = pass[i].session
       /\ \/ pass[i].pc = "applying" /\ pass'[i].page = pass[i].page
          \/ pass'[i].page = Cloud!Page(cursor[i], PullLimit) /\ UNCHANGED rows

\* a sign-in or a sign-out starts it over;
PullStartsOver(i) ==
  /\ cursor'[i] = 0 /\ skipped'[i] = NothingSkipped /\ events'[i] = events[i] /\ ~Fence(i)'

\* a restart may go back to what was skipped;
PullReboots(i) ==
  /\ pass'[i] = NoPass /\ events' = events /\ UNCHANGED <<rows, lastSeq>>
  /\ credential'[i] = credential[i]
  /\ \/ /\ credential[i] # 0 /\ skipped[i].seq # 0 /\ skipped[i].build # build'[i]
        /\ cursor'[i] = IF skipped[i].seq - 1 < cursor[i] THEN skipped[i].seq - 1 ELSE cursor[i]
        /\ skipped'[i] = NothingSkipped
     \/ /\ credential[i] = 0 \/ skipped[i].seq = 0 \/ skipped[i].build = build'[i]
        /\ cursor'[i] = cursor[i] /\ skipped'[i] = skipped[i]

\* and a page is applied.
PullLands(i, last) == LandsPage(i, last) /\ pass'[i].pc # "applying" /\ UNCHANGED lastSeq

LEMMA PullFacts ==
  ASSUME TInv, ~CredentialWriteFails, [Next]_vars, NEW i \in Installs
  PROVE  \/ PullRests(i) \/ PullStartsOver(i) \/ PullReboots(i)
         \/ \E last \in pass[i].page : PullLands(i, last)
<1>1. /\ pass \in [Installs -> Pass] /\ cursor \in [Installs -> Nat]
      /\ skipped \in [Installs -> [seq : Nat, build : Builds \union {0}]]
      /\ session \in [Installs -> Session] /\ credential \in [Installs -> DeviceIds \union {0}]
      /\ build \in [Installs -> Builds] /\ events \in [Installs -> SUBSET LocalRow]
  BY DEF TInv, PassTyped, CursorTyped, SignTyped, TableTyped
<1>2. NoPass.pc = "idle"
  BY DEF NoPass
<1> DEFINE Fetches == pass'[i].pc = "applying" =>
             /\ pass'[i].session = pass[i].session
             /\ \/ pass[i].pc = "applying" /\ pass'[i].page = pass[i].page
                \/ pass'[i].page = Cloud!Page(cursor[i], PullLimit) /\ UNCHANGED rows
<1>3. ASSUME UNCHANGED <<events, cursor, skipped, build, session, credential>>, Fetches
      PROVE  PullRests(i)
  BY <1>3 DEF PullRests
<1>4. UNCHANGED pass => Fetches
  OBVIOUS
<1>5. ASSUME NEW k \in Installs, NEW p, pass' = [pass EXCEPT ![k] = p], p.pc # "applying"
      PROVE  Fetches
  BY <1>1, <1>5
<1>6. ASSUME NEW k \in Installs, NEW pc, NEW round, pc # "applying",
             pass' = [pass EXCEPT ![k] = CarryOn(k, pc, round)]
      PROVE  Fetches
  BY <1>5, <1>6, CarryOnIs DEF PassOf
<1>7. ASSUME NEW k \in Installs, Append(k)
      PROVE  PullRests(i)
  <2>1. PICK e, row : Appends(k, e, row)
    BY <1>7, AppendFacts
  <2>2. /\ events' = [events EXCEPT ![k] = events[k] \union {row}] /\ row.device = 0
        /\ UNCHANGED <<cursor, skipped, signVars, pass>>
    BY <2>1 DEF Appends
  <2>. QED BY <1>1, <2>2 DEF PullRests, signVars
<1>8. ASSUME NEW k \in Installs, SignIn(k) \/ SignOut(k)
      PROVE  PullRests(i) \/ PullStartsOver(i)
  <2>1. /\ Reset(k) /\ UNCHANGED <<pass, build>>
        /\ \E s : session' = [session EXCEPT ![k] = s]
        /\ \E c : credential' = [credential EXCEPT ![k] = c]
    BY <1>8 DEF SignIn, SignOut, OpenSession
  <2>2. CASE k # i
    BY <1>1, <2>1, <2>2 DEF Reset, PullRests
  <2>3. CASE k = i
    <3>1. cursor'[i] = 0 /\ skipped'[i] = NothingSkipped /\ events'[i] = events[i]
      BY <1>1, <2>1, <2>3 DEF Reset
    <3>2. session'[i].id # pass[i].session \/ session'[i].kind # "live"
      BY <1>1, <1>8, <2>3 DEF SignIn, SignOut, OpenSession, NewId
    <3>. QED BY <2>1, <3>1, <3>2 DEF PullStartsOver, Fence, Live
  <2>. QED BY <2>2, <2>3
<1>9. ASSUME NEW k \in Installs, SignOutCutOff(k)
      PROVE  PullRests(i)
  <2>1. /\ UNCHANGED <<events, cursor, skipped, build>>
        /\ session' = [session EXCEPT ![k] = [kind |-> "off", id |-> 0, device |-> 0]]
        /\ credential' = [credential EXCEPT ![k] = 0]
        /\ pass' = [pass EXCEPT ![k] = NoPass]
    BY <1>9 DEF SignOutCutOff, pullVars
  <2>. QED BY <1>1, <1>2, <2>1 DEF PullRests
<1>10. ASSUME NEW k \in Installs, EndSession(k)
       PROVE  PullRests(i)
  <2>1. /\ UNCHANGED <<events, cursor, skipped, build, credential>>
        /\ \E s : session' = [session EXCEPT ![k] = s]
        /\ pass' = [pass EXCEPT ![k] = NoPass]
    BY <1>10 DEF EndSession, pullVars
  <2>. QED BY <1>1, <1>2, <2>1 DEF PullRests
<1>11. ASSUME NEW k \in Installs, Restart(k)
       PROVE  PullRests(i) \/ PullReboots(i)
  <2>1. PICK b \in Builds :
          LET rewinds == credential[k] # 0 /\ skipped[k].seq # 0 /\ skipped[k].build # b
          IN  /\ build' = [build EXCEPT ![k] = b]
              /\ cursor' = [cursor EXCEPT ![k] =
                   IF rewinds /\ skipped[k].seq - 1 < @ THEN skipped[k].seq - 1 ELSE @]
              /\ skipped' = [skipped EXCEPT ![k] = IF rewinds THEN NothingSkipped ELSE @]
    BY <1>11 DEF Restart
  <2>2. /\ pass' = [pass EXCEPT ![k] = NoPass] /\ UNCHANGED <<events, credential, rows, lastSeq>>
        /\ \E s : session' = [session EXCEPT ![k] = s]
    BY <1>11 DEF Restart, OpenSession, cloudVars
  <2>3. CASE k # i
    BY <1>1, <2>1, <2>2, <2>3 DEF PullRests
  <2>4. CASE k = i
    <3>1. build'[i] = b
      BY <1>1, <2>1, <2>4
    <3>2. CASE credential[i] # 0 /\ skipped[i].seq # 0 /\ skipped[i].build # b
      BY <1>1, <2>1, <2>2, <2>4, <3>1, <3>2 DEF PullReboots
    <3>3. CASE ~(credential[i] # 0 /\ skipped[i].seq # 0 /\ skipped[i].build # b)
      BY <1>1, <2>1, <2>2, <2>4, <3>1, <3>3 DEF PullReboots
    <3>. QED BY <3>2, <3>3
  <2>. QED BY <2>3, <2>4
<1>12. ASSUME NEW k \in Installs, StartPass(k)
       PROVE  PullRests(i)
  <2> DEFINE p == [NoPass EXCEPT !.pc = "push", !.session = session[k].id,
                                 !.device = session[k].device, !.own = ownDevices[k]]
  <2>1. p = PassOf("push", session[k].id, session[k].device, ownDevices[k], 0,
                   {}, 0, 0, NoAnswer, {}, FALSE)
    BY BegunIs
  <2>2. pass' = [pass EXCEPT ![k] = p]
    BY <1>12 DEF StartPass
  <2>. HIDE DEF p
  <2>3. p.pc # "applying"
    BY <2>1 DEF PassOf
  <2>. QED BY <1>3, <1>5, <1>12, <2>2, <2>3 DEF StartPass, pullVars, signVars
<1>13. ASSUME NEW k \in Installs, PushSend(k)
       PROVE  PullRests(i)
  <2>1. PICK last \in Window(k) :
          pass' = [pass EXCEPT ![k] =
            [@ EXCEPT !.pc = "pushing", !.batch = Sendable(k), !.through = last.pos,
                      !.rejected = Rejects(k)]]
    BY <1>13 DEF PushSend
  <2> DEFINE p == [pass[k] EXCEPT !.pc = "pushing", !.batch = Sendable(k), !.through = last.pos,
                                  !.rejected = Rejects(k)]
  <2>2. p = PassOf("pushing", pass[k].session, pass[k].device, pass[k].own, pass[k].round, Sendable(k),
                   last.pos, Rejects(k), pass[k].answer, pass[k].page, pass[k].more)
    BY <1>1, SentIs
  <2>3. pass' = [pass EXCEPT ![k] = p]
    BY <2>1
  <2>. HIDE DEF p
  <2>4. p.pc # "applying"
    BY <2>2 DEF PassOf
  <2>. QED BY <1>3, <1>5, <1>13, <2>3, <2>4 DEF PushSend, pullVars, signVars
<1>14. ASSUME NEW m \in verified, PushRuns(m)
       PROVE  PullRests(i)
  <2>1. PICK answer : pass'[i] = Answered(m, answer, i)
    BY <1>14 DEF PushRuns, Answered
  <2> DEFINE p == [pass[i] EXCEPT !.answer = answer]
  <2>2. p.pc = pass[i].pc /\ p.session = pass[i].session /\ p.page = pass[i].page
    BY <1>1, AnsweredIs DEF PassOf
  <2>3. pass'[i] \in {p, pass[i]}
    BY <2>1 DEF Answered
  <2>. HIDE DEF p
  <2>4. Fetches
    BY <2>2, <2>3
  <2>. QED BY <1>3, <1>14, <2>4 DEF PushRuns, pullVars, signVars
<1>15. ASSUME NEW k \in Installs, PullPage(k)
       PROVE  PullRests(i)
  <2> DEFINE page == Cloud!Page(cursor[k], PullLimit)
             more == Cloud!HasMore(cursor[k], PullLimit)
             p == [pass[k] EXCEPT !.pc = "applying", !.page = page, !.more = more]
  <2>1. p = PassOf("applying", pass[k].session, pass[k].device, pass[k].own, pass[k].round, pass[k].batch,
                   pass[k].through, pass[k].rejected, pass[k].answer, page, more)
    BY <1>1, PulledIs
  <2>2. pass' = [pass EXCEPT ![k] = p] /\ UNCHANGED rows
    BY <1>15 DEF PullPage, cloudVars
  <2>. HIDE DEF p, more
  <2>3. p.session = pass[k].session /\ p.page = page
    BY <2>1 DEF PassOf
  <2>4. Fetches
    BY <1>1, <2>2, <2>3
  <2>. QED BY <1>3, <1>15, <2>4 DEF PullPage, pullVars, signVars
<1>16. ASSUME NEW k \in Installs, PassFenced(k) \/ PullCaughtUp(k) \/ PullUnreachable(k)
       PROVE  PullRests(i)
  <2>1. pass' = [pass EXCEPT ![k] = NoPass] /\ UNCHANGED <<pullVars, signVars>>
    BY <1>16 DEF PassFenced, PullCaughtUp, PullUnreachable
  <2>. QED BY <1>2, <1>3, <1>5, <2>1 DEF pullVars, signVars
<1>17. ASSUME NEW k \in Installs,
              PushAcked(k) \/ PushRefused(k) \/ DropWindow(k) \/ DrainEnds(k) \/ PushUnreachable(k)
       PROVE  PullRests(i)
  <2>1. \/ pass' = [pass EXCEPT ![k] = CarryOn(k, "push", pass[k].round + 1)]
        \/ pass' = [pass EXCEPT ![k] = CarryOn(k, "pull", 0)]
    BY <1>17 DEF PushAcked, PushRefused, DropWindow, DrainEnds, PushUnreachable, NextRound, TurnToPull
  <2>2. UNCHANGED <<pullVars, signVars>>
    BY <1>17 DEF PushAcked, PushRefused, DropWindow, DrainEnds, PushUnreachable
  <2>. QED BY <1>3, <1>6, <2>1, <2>2 DEF pullVars, signVars
<1>18. ASSUME NEW k \in Installs, ApplyPage(k) \/ ApplyFails(k)
       PROVE  PullRests(i) \/ \E last \in pass[i].page : PullLands(i, last)
  <2>1. PICK last \in pass[k].page : LandsPage(k, last)
    <3>1. PICK last \in pass[k].page : ApplyThrough(k, last)
      BY <1>18 DEF ApplyPage, ApplyFails, CommitPoints
    <3>. QED BY <1>18, <3>1 DEF ApplyPage, ApplyFails, LandsPage, cloudVars, queueVars, signVars
  <2>2. \/ pass' = [pass EXCEPT ![k] = CarryOn(k, "pull", pass[k].round + 1)]
        \/ pass' = [pass EXCEPT ![k] = NoPass]
    BY <1>1, <1>18 DEF ApplyPage, ApplyFails
  <2>3. Fetches
    BY <1>2, <1>5, <1>6, <2>2
  <2>4. UNCHANGED <<lastSeq, signVars>>
    BY <1>18 DEF ApplyPage, ApplyFails, cloudVars
  <2>5. CASE k # i
    <3>1. cursor'[i] = cursor[i] /\ skipped'[i] = skipped[i] /\ events'[i] = events[i]
      BY <1>1, <2>1, <2>5 DEF LandsPage, ApplyThrough
    <3>. QED BY <2>3, <2>4, <3>1 DEF PullRests, signVars
  <2>6. CASE k = i
    <3>1. pass'[i].pc # "applying"
      BY <1>1, <1>2, <2>2, <2>6, CarryOnIs DEF PassOf
    <3>. QED BY <2>1, <2>4, <2>6, <3>1 DEF PullLands
  <2>. QED BY <2>5, <2>6
<1>19. ASSUME NEW d \in DeviceIds, Revoke(d)
       PROVE  PullRests(i)
  BY <1>3, <1>4, <1>19 DEF Revoke, pullVars
<1>20. CASE UNCHANGED vars
  BY <1>3, <1>4, <1>20 DEF vars, pullVars, signVars
<1>21. ASSUME NEW k \in Installs
       PROVE  ~SignInFails(k)
  BY DEF SignInFails
<1>. QED BY <1>7, <1>8, <1>9, <1>10, <1>11, <1>12, <1>13, <1>14, <1>15, <1>16, <1>17, <1>18, <1>19,
            <1>20, <1>21 DEF Next, PassSteps, PassMoves, PushUnauthorized, PullUnauthorized

\* The invariant of the pull holds at first, when nothing is passed or fetched,
LEMMA PullInvInit ==
  ASSUME Init
  PROVE  PullInv
<1>1. NoPass.pc = "idle"
  BY DEF NoPass
<1>. QED BY <1>1 DEF Init, Cloud!Init, PullInv, CursorAt, PageIsNext

\* A row that is honestly passed stays so while the tables and the log only grow as they do.
LEMMA HonestStays ==
  ASSUME TInv, [Next]_vars, NEW i \in Installs, NEW r \in rows, Honest(i, r), LogInv,
         build'[i] = build[i], skipped'[i].seq = skipped[i].seq,
         \A t : t.device # 0 => (t \in events'[i] <=> t \in events[i])
  PROVE  Honest(i, r)'
<1>1. /\ \A s \in rows' : s.device # 0 /\ (s \in rows \/ s.seq > lastSeq)
      /\ r.seq <= lastSeq /\ r.device # 0 /\ r.seq \in Nat /\ lastSeq \in Nat
      /\ \A s \in rows' : s.seq \in Nat
  BY LogGrows, TInvStep DEF LogInv, Cloud!SeqsAreDistinct, TInv, Cloud!TypeOK, Cloud!Row, DeviceIds
<1>2. CASE r.device \in ownDevices[i]
  BY <1>2, IdsGrow DEF Honest
<1>3. CASE StoredOrigin(i, r)
  BY <1>1, <1>3 DEF Honest, StoredOrigin
<1>4. CASE ~Reads(build[i], r.event) /\ skipped[i].seq \in 1 .. r.seq
  BY <1>4 DEF Honest
<1>5. CASE Unstarted(i, r)
  <2>1. ASSUME NEW t \in events'[i], NEW s \in rows', s.device = t.device, s.pos = t.pos, s.seq < r.seq
        PROVE  ~Starts(t.event, r.event)
    <3>1. s \in rows /\ t \in events[i]
      BY <1>1, <2>1
    <3>. QED BY <1>5, <2>1, <3>1 DEF Unstarted
  <2>. QED BY <1>5, <2>1 DEF Honest, Unstarted
<1>. QED BY <1>2, <1>3, <1>4, <1>5 DEF Honest

\* A page's rows up to one, applied.
LEMMA PageLands ==
  ASSUME TInv, Signed, LogInv, LogSound, NEW i \in Installs, CursorAt(i),
         NEW last \in pass[i].page, LandsPage(i, last)
  PROVE  /\ cursor'[i] = last.seq /\ last \in rows
         /\ credential[i] # 0 /\ pass[i].own = ownDevices[i]
         /\ UNCHANGED <<rows, build, credential, ownDevices>>
         /\ \A r \in rows : r.seq <= last.seq => Honest(i, r)'
         /\ skipped[i].seq # 0 => skipped[i].build = build[i]
         /\ skipped'[i].seq # 0 => skipped'[i].build = build[i]
<1> DEFINE read   == {r \in pass[i].page : r.seq <= last.seq}
           taken  == {r \in read : Applies(i, r) /\ ~StoredOrigin(i, r)}
           lands  == Lands(i, read)
           unread == {r \in read : Unparsed(i, r)}
<1>1. /\ pass[i].pc = "applying" /\ Fence(i)
      /\ UNCHANGED <<rows, build, credential, ownDevices>>
  BY DEF LandsPage, signVars
<1>2. pass[i].own = ownDevices[i] /\ credential[i] # 0
  BY <1>1 DEF Signed, Fence, Live, TInv, SignTyped, DeviceIds
<1>3. /\ pass[i].page \subseteq rows /\ PageIsNext(i) /\ cursor[i] \in Nat
      /\ \A r \in rows : r.seq \in Nat \ {0} /\ r.device # 0
  BY DEF LogSound, CursorAt, TInv, CursorTyped, Cloud!TypeOK, Cloud!Row, DeviceIds
<1>4. /\ events'[i] = events[i] \union {Stored(i, lands, r) : r \in lands}
      /\ cursor'[i] = last.seq
      /\ \/ unread = {} /\ skipped'[i] = skipped[i]
         \/ \E u \in unread :
              /\ \A v \in unread : u.seq <= v.seq
              /\ skipped'[i] = [seq |-> LowestUnread(i, u.seq), build |-> build[i]]
  BY DEF LandsPage, ApplyThrough, Stored, TInv, TableTyped, CursorTyped
<1>5. \A r \in lands :
        LET t == Stored(i, lands, r) IN t.device = r.device /\ t.pos = r.pos /\ t.event = r.event
  BY DEF Stored
<1>6. lands = {r \in taken : Started(Held(i) \union {s.event : s \in {c \in taken : c.seq < r.seq}}, r.event)}
  BY DEF Lands
<1>. HIDE DEF lands
<1>7. /\ \A r \in rows : r.seq <= cursor[i] => Honest(i, r)
      /\ skipped[i].seq # 0 => skipped[i].build = build[i]
  BY <1>2 DEF CursorAt
<1> DEFINE record(u) == [seq |-> LowestUnread(i, u.seq), build |-> build[i]]
<1>8. \A u : record(u).seq = LowestUnread(i, u.seq) /\ record(u).build = build[i]
  OBVIOUS
<1>9. \/ unread = {} /\ skipped'[i] = skipped[i]
      \/ \E u \in unread : (\A v \in unread : u.seq <= v.seq) /\ skipped'[i] = record(u)
  BY <1>4
<1>. HIDE DEF record, unread
<1>10. \/ unread = {} /\ skipped'[i] = skipped[i]
       \/ \E u \in unread : /\ \A v \in unread : u.seq <= v.seq
                            /\ skipped'[i].seq = LowestUnread(i, u.seq)
                            /\ skipped'[i].build = build[i]
  BY <1>8, <1>9
<1>11. skipped'[i].seq # 0 => skipped'[i].build = build[i]
  BY <1>7, <1>10
<1>12. ASSUME NEW t \in events'[i], NEW s \in rows, s.device = t.device, s.pos = t.pos
      PROVE  t \in events[i] \/ (s \in lands /\ t.event = s.event)
  <2>1. CASE t \notin events[i]
    <3>1. PICK c \in lands : t = Stored(i, lands, c)
      BY <1>4, <2>1
    <3>2. c \in rows /\ c.device = s.device /\ c.pos = s.pos /\ t.event = c.event
      BY <1>3, <1>5, <1>6, <1>12, <3>1
    <3>3. c = s
      BY <3>2, OriginIsRow
    <3>. QED BY <3>2, <3>3
  <2>. QED BY <2>1
<1>13. ASSUME NEW r \in rows, StoredOrigin(i, r)
       PROVE  StoredOrigin(i, r)'
  BY <1>4, <1>13 DEF StoredOrigin
<1>14. ASSUME NEW r \in rows, r.seq <= cursor[i]
       PROVE  Honest(i, r)'
  <2>1. CASE r.device \in ownDevices[i]
    BY <1>1, <2>1 DEF Honest
  <2>2. CASE StoredOrigin(i, r)
    BY <1>13, <2>2 DEF Honest
  <2>3. CASE ~Reads(build[i], r.event) /\ skipped[i].seq \in 1 .. r.seq
    <3>1. \A u \in unread : u.seq \in Nat /\ u.seq > cursor[i]
      BY <1>1, <1>3 DEF PageIsNext, unread
    <3>2. skipped'[i].seq = skipped[i].seq
      BY <1>3, <1>14, <1>10, <2>3, <3>1 DEF LowestUnread
    <3>. QED BY <1>1, <2>3, <3>2 DEF Honest
  <2>4. CASE Unstarted(i, r)
    <3>1. ASSUME NEW t \in events'[i], NEW s \in rows, s.device = t.device, s.pos = t.pos, s.seq < r.seq
          PROVE  ~Starts(t.event, r.event)
      <4>1. s \notin lands
        BY <1>1, <1>3, <1>6, <1>14, <3>1 DEF PageIsNext
      <4>2. t \in events[i]
        BY <1>12, <3>1, <4>1
      <4>. QED BY <2>4, <3>1, <4>2 DEF Unstarted
    <3>. QED BY <1>1, <2>4, <3>1 DEF Honest, Unstarted
  <2>. QED BY <1>7, <1>14, <2>1, <2>2, <2>3, <2>4 DEF Honest
<1>15. ASSUME NEW r \in rows, cursor[i] < r.seq, r.seq <= last.seq
       PROVE  Honest(i, r)'
  <2>1. r \in read
    BY <1>1, <1>3, <1>15 DEF PageIsNext
  <2>2. CASE Own(i, r)
    BY <1>1, <1>2, <2>2 DEF Own, Honest
  <2>3. CASE Unparsed(i, r)
    <3>1. PICK u \in unread : u.seq <= r.seq /\ skipped'[i].seq = LowestUnread(i, u.seq)
      BY <1>10, <2>1, <2>3 DEF unread
    <3>2. u.seq \in Nat \ {0} /\ r.seq \in Nat
      BY <1>3 DEF unread
    <3>3. skipped[i].seq \in Nat
      BY DEF TInv, CursorTyped
    <3>4. skipped'[i].seq \in 1 .. r.seq
      BY <3>1, <3>2, <3>3 DEF LowestUnread
    <3>. QED BY <1>1, <2>3, <3>4 DEF Honest, Unparsed
  <2>4. CASE StoredOrigin(i, r)
    BY <1>13, <2>4 DEF Honest
  <2>5. CASE r \in lands
    <3>1. Stored(i, lands, r) \in events'[i]
      BY <1>4, <2>5
    <3>. QED BY <1>5, <2>5, <3>1 DEF Honest, StoredOrigin
  <2>6. CASE r \in taken /\ r \notin lands
    <3>1. ~Started(Held(i) \union {s.event : s \in {c \in taken : c.seq < r.seq}}, r.event)
      BY <1>6, <2>6
    <3>2. /\ r.event.needs # 0
          /\ \A f \in Held(i) : ~Starts(f, r.event)
          /\ \A s \in taken : s.seq < r.seq => ~Starts(s.event, r.event)
      BY <3>1, StartedIs
    <3>3. ASSUME NEW t \in events'[i], NEW s \in rows, s.device = t.device, s.pos = t.pos, s.seq < r.seq
          PROVE  ~Starts(t.event, r.event)
      <4>1. CASE t \in events[i]
        BY <3>2, <4>1 DEF Held
      <4>2. CASE s \in lands /\ t.event = s.event
        BY <1>6, <3>2, <3>3, <4>2
      <4>. QED BY <1>12, <3>3, <4>1, <4>2
    <3>. QED BY <1>1, <3>2, <3>3 DEF Honest, Unstarted
  <2>. QED BY <2>1, <2>2, <2>3, <2>4, <2>5, <2>6 DEF Applies, Unparsed
<1>16. last \in rows /\ last.seq \in Nat
  BY <1>3
<1>17. \A r \in rows : r.seq <= last.seq => Honest(i, r)'
  BY <1>3, <1>14, <1>15
<1>. QED BY <1>1, <1>2, <1>4, <1>7, <1>11, <1>16, <1>17

\* every step keeps it,
LEMMA PullInvStep ==
  ASSUME TInv, ~CredentialWriteFails, Signed, LogInv, LogInv', LogSound, PullInv, [Next]_vars
  PROVE  PullInv'
<1>. SUFFICES ASSUME NEW i \in Installs
              PROVE  CursorAt(i)'
  BY DEF PullInv
<1>1. CursorAt(i)
  BY DEF PullInv
<1>2. /\ cursor[i] \in Nat /\ lastSeq \in Nat /\ lastSeq' \in Nat /\ lastSeq <= lastSeq'
      /\ rows \subseteq rows' /\ \A r \in rows' : r.seq \in Nat \ {0} /\ (r \in rows \/ r.seq > lastSeq)
      /\ skipped[i].seq \in Nat
  BY LogGrows, TInvStep DEF TInv, Cloud!TypeOK, Cloud!Row, CursorTyped
<1>3. CASE PullRests(i)
  <2>1. cursor'[i] <= lastSeq'
    BY <1>1, <1>2, <1>3 DEF CursorAt, PullRests
  <2>2. ASSUME credential'[i] # 0, NEW r \in rows', r.seq <= cursor'[i]
        PROVE  Honest(i, r)'
    <3>1. r \in rows /\ credential[i] # 0
      BY <1>1, <1>2, <1>3, <2>2 DEF CursorAt, PullRests
    <3>2. Honest(i, r)
      BY <1>1, <1>3, <2>2, <3>1 DEF CursorAt, PullRests
    <3>. QED BY <1>3, <3>1, <3>2, HonestStays DEF PullRests
  <2>3. credential'[i] # 0 /\ skipped'[i].seq # 0 => skipped'[i].build = build'[i]
    BY <1>1, <1>3 DEF CursorAt, PullRests
  <2>4. ASSUME pass'[i].pc = "applying", Fence(i)'
        PROVE  /\ \A r \in pass'[i].page : r.seq > cursor'[i]
               /\ \A r \in rows', p \in pass'[i].page :
                    cursor'[i] < r.seq /\ r.seq <= p.seq => r \in pass'[i].page
    <3>1. Fence(i)
      BY <1>3, <2>4 DEF PullRests, Fence, Live
    <3>2. CASE pass[i].pc = "applying" /\ pass'[i].page = pass[i].page
      <4>1. \A p \in pass[i].page : p.seq \in Nat /\ p.seq <= lastSeq
        BY <1>2 DEF LogSound, LogInv, Cloud!SeqsAreDistinct
      <4>. QED BY <1>1, <1>2, <1>3, <3>1, <3>2, <4>1 DEF CursorAt, PageIsNext, PullRests
    <3>3. CASE pass'[i].page = Cloud!Page(cursor[i], PullLimit) /\ UNCHANGED rows
      <4> DEFINE upTo(r) == {s \in rows : cursor[i] < s.seq /\ s.seq <= r.seq}
      <4>1. \A r : r \in Cloud!Page(cursor[i], PullLimit) <=>
                     r \in rows /\ r.seq > cursor[i] /\ Cardinality(upTo(r)) <= PullLimit
        BY SameSets DEF Cloud!Page
      <4>2. IsFiniteSet(rows)
        BY SameSets DEF TInv, Cloud!TypeOK
      <4>3. ASSUME NEW r \in rows, NEW p \in rows, r.seq <= p.seq, Cardinality(upTo(p)) <= PullLimit
            PROVE  Cardinality(upTo(r)) <= PullLimit
        <5>1. IsFiniteSet(upTo(p)) /\ upTo(r) \in SUBSET upTo(p)
          BY <1>2, <4>2, <4>3, FS_Subset, upTo(p) \in SUBSET rows
        <5>2. Cardinality(upTo(r)) <= Cardinality(upTo(p)) /\ IsFiniteSet(upTo(r))
          BY <5>1, FS_Subset
        <5>3. Cardinality(upTo(r)) \in Nat /\ Cardinality(upTo(p)) \in Nat
          BY <5>1, <5>2, FS_CardinalityType
        <5>. HIDE DEF upTo
        <5>. QED BY <4>3, <5>2, <5>3, ThreadSyncAssumption
      <4>. HIDE DEF upTo
      <4>. QED BY <1>3, <3>3, <4>1, <4>3 DEF PullRests
    <3>. QED BY <1>3, <2>4, <3>2, <3>3 DEF PullRests
  <2>. QED BY <2>1, <2>2, <2>3, <2>4 DEF CursorAt, PageIsNext
<1>4. CASE PullStartsOver(i)
  <2>1. NothingSkipped.seq = 0
    BY DEF NothingSkipped
  <2>. QED BY <1>2, <1>4, <2>1 DEF PullStartsOver, CursorAt, PageIsNext
<1>5. CASE PullReboots(i)
  <2>1. NoPass.pc = "idle" /\ NothingSkipped.seq = 0
    BY DEF NoPass, NothingSkipped
  <2>2. UNCHANGED <<rows, lastSeq, events>> /\ credential'[i] = credential[i] /\ PageIsNext(i)'
    BY <1>5, <2>1 DEF PullReboots, PageIsNext
  <2>3. ASSUME NEW r \in rows, Honest(i, r),
               r.device \in ownDevices[i] \/ StoredOrigin(i, r) \/ Unstarted(i, r)
        PROVE  Honest(i, r)'
    BY <2>2, <2>3, IdsGrow DEF Honest, StoredOrigin, Unstarted
  <2>4. CASE /\ credential[i] # 0 /\ skipped[i].seq # 0 /\ skipped[i].build # build'[i]
             /\ cursor'[i] = IF skipped[i].seq - 1 < cursor[i] THEN skipped[i].seq - 1 ELSE cursor[i]
             /\ skipped'[i] = NothingSkipped
    <3>1. cursor'[i] <= cursor[i] /\ cursor'[i] < skipped[i].seq /\ cursor'[i] \in Nat
      BY <1>2, <2>4
    <3>2. ASSUME NEW r \in rows, r.seq <= cursor'[i]
          PROVE  Honest(i, r)'
      <4>1. Honest(i, r) /\ ~(skipped[i].seq \in 1 .. r.seq)
        BY <1>1, <1>2, <2>4, <3>1, <3>2 DEF CursorAt
      <4>. QED BY <2>3, <4>1 DEF Honest
    <3>. QED BY <1>1, <1>2, <2>1, <2>2, <2>4, <3>1, <3>2 DEF CursorAt
  <2>5. CASE /\ credential[i] = 0 \/ skipped[i].seq = 0 \/ skipped[i].build = build'[i]
             /\ cursor'[i] = cursor[i] /\ skipped'[i] = skipped[i]
    <3>1. ASSUME credential[i] # 0, NEW r \in rows, r.seq <= cursor[i]
          PROVE  Honest(i, r)'
      <4>1. Honest(i, r)
        BY <1>1, <3>1 DEF CursorAt
      <4>2. CASE skipped[i].seq = 0
        BY <2>3, <4>1, <4>2 DEF Honest
      <4>3. CASE skipped[i].seq # 0 /\ skipped[i].build = build'[i]
        <5>1. build'[i] = build[i]
          BY <1>1, <3>1, <4>3 DEF CursorAt
        <5>. QED BY <2>3, <2>5, <4>1, <5>1 DEF Honest
      <4>. QED BY <2>5, <3>1, <4>2, <4>3
    <3>. QED BY <1>1, <2>2, <2>5, <3>1 DEF CursorAt
  <2>. QED BY <1>5, <2>4, <2>5 DEF PullReboots
<1>6. ASSUME NEW last \in pass[i].page, PullLands(i, last)
      PROVE  CursorAt(i)'
  <2>1. LandsPage(i, last) /\ pass'[i].pc # "applying" /\ UNCHANGED lastSeq
    BY <1>6 DEF PullLands
  <2>2. /\ cursor'[i] = last.seq /\ last \in rows
        /\ UNCHANGED <<rows, build>>
        /\ \A r \in rows : r.seq <= last.seq => Honest(i, r)'
        /\ skipped'[i].seq # 0 => skipped'[i].build = build[i]
    BY <1>1, <2>1, PageLands
  <2>3. last.seq <= lastSeq
    BY <2>2 DEF LogInv, Cloud!SeqsAreDistinct
  <2>. QED BY <2>1, <2>2, <2>3 DEF CursorAt, PageIsNext
<1>. QED BY <1>3, <1>4, <1>5, <1>6, PullFacts

\* and so it always holds.
LEMMA PullInvHolds ==
  ASSUME ~CredentialWriteFails
  PROVE  Spec => []PullInv
<1> DEFINE O == Signed /\ QueuedOnce /\ TablesSound /\ LogSound
<1>1. TInv /\ LogInv /\ LogInv' /\ O /\ PullInv /\ [Next]_vars => PullInv'
  BY PullInvStep
<1>2. Spec => []O
  BY OriginsHold
<1>. HIDE DEF O
<1>. QED BY <1>1, <1>2, PullInvInit, TInvHolds, LogInvHolds, PTL DEF Spec

\* The cursor is honest, whatever pages fail half way, whatever restarts bring another build, and
\* wherever a sign-in falls: what a page that may still be applied holds is the log's next rows.
THEOREM CursorStaysHonest ==
  ASSUME ~CredentialWriteFails
  PROVE  Spec => []CursorHonest
<1>1. TInv /\ Signed /\ PullInv => CursorHonest
  <2>. SUFFICES ASSUME TInv, Signed, PullInv, NEW i \in Installs, NEW r \in rows,
                       Live(i), r.seq <= cursor[i]
                PROVE  \/ r.device \in ownDevices[i]
                       \/ StoredOrigin(i, r)
                       \/ ~Reads(build[i], r.event) /\ skipped[i].seq \in 1 .. r.seq
                       \/ ~Started(HeldBefore(i, r), r.event)
    BY DEF CursorHonest
  <2>1. credential[i] # 0
    BY DEF Signed, TInv, SignTyped, Live, DeviceIds
  <2>. QED BY <2>1, UnstartedIs DEF PullInv, CursorAt, Honest
<1>. QED BY <1>1, PullInvHolds, OriginsHold, TInvHolds, PTL

-----------------------------------------------------------------------------
(* The order in a table, when every credential is kept. *)

\* The log has no start of the row's turn before the row, save one an older build cannot read.
LateStart(r) ==
  /\ r.event.needs # 0
  /\ \A t \in rows : Starts(t.event, r.event) /\ t.seq < r.seq => t.event.kind = "newer"

\* A row is behind: an install holds one its device wrote later, and has this one, could not read
\* it or has it only after its start.
BehindFor(i, r) == StoredOrigin(i, r) \/ r.event.kind = "newer" \/ LateStart(r)

Behind ==
  \A i \in Installs : \A t \in events[i], r \in rows :
    t.device # 0 /\ r.device = t.device /\ r.pos < t.pos => BehindFor(i, r)

\* What an honest cursor has passed of others is behind in that sense.
LEMMA PassedIsBehind ==
  ASSUME TInv, LogInv, QueuedOnce, LogSound, TableOrigins, NEW i \in Installs,
         NEW r \in rows, Honest(i, r), r.device \notin ownDevices[i],
         \A t \in rows : t.seq < r.seq => Honest(i, t)
  PROVE  BehindFor(i, r)
<1>1. CASE ~Reads(build[i], r.event)
  BY <1>1 DEF Reads, BehindFor
<1>2. CASE Unstarted(i, r)
  <2>1. ASSUME NEW t \in rows, Starts(t.event, r.event), t.seq < r.seq
        PROVE  t.event.kind = "newer"
    <3>1. t.device \notin ownDevices[i]
      <4> DEFINE q(x) == [device |-> x.device, pos |-> x.pos, event |-> x.event]
      <4>1. /\ q(r) \in issued /\ q(r).event = r.event /\ q(r).device = r.device
            /\ q(t) \in issued /\ q(t).event = t.event /\ q(t).device = t.device
        BY DEF LogSound, Issued
      <4>. HIDE DEF q
      <4>2. r.device \in ownDevices[r.event.by] /\ t.device \in ownDevices[t.event.by]
        BY <4>1 DEF QueuedOnce
      <4>3. t.event.by = r.event.by /\ r.event.by \in Installs
        BY <2>1 DEF Starts, TInv, Cloud!TypeOK, Cloud!Row, Event
      <4>. QED BY <4>2, <4>3 DEF TableOrigins, OwnersApart
    <3>2. ~StoredOrigin(i, t)
      <4>1. SUFFICES ASSUME NEW u \in events[i], u.device = t.device, u.pos = t.pos
                     PROVE  FALSE
        BY DEF StoredOrigin
      <4>2. u.device # 0
        BY <4>1 DEF TInv, Cloud!TypeOK, Cloud!Row, DeviceIds
      <4>3. PICK x \in rows : x.device = u.device /\ x.pos = u.pos /\ x.event = u.event
        BY <4>2 DEF TableOrigins, TablesFromLog
      <4>4. x = t
        BY <4>1, <4>3, OriginIsRow
      <4>. QED BY <1>2, <2>1, <4>1, <4>3, <4>4 DEF Unstarted
    <3>3. ~Unstarted(i, t)
      BY <1>2, <2>1, StartNeedsNothing DEF Unstarted, TableOrigins
    <3>. QED BY <2>1, <3>1, <3>2, <3>3 DEF Honest, Reads
  <2>. QED BY <1>2, <2>1 DEF Unstarted, LateStart, BehindFor
<1>. QED BY <1>1, <1>2 DEF Honest, BehindFor

\* So it is with every row a cursor has passed.
PassedBehind ==
  \A i \in Installs : \A r \in rows :
    credential[i] # 0 /\ r.seq <= cursor[i] /\ r.device \notin ownDevices[i] => BehindFor(i, r)

\* It is so because each of them is honestly passed.
LEMMA PassedBehindHolds ==
  ASSUME ~CredentialWriteFails
  PROVE  Spec => []PassedBehind
<1> DEFINE O == Signed /\ QueuedOnce /\ TablesSound /\ LogSound
<1>1. TInv /\ LogInv /\ O /\ TableOrigins /\ PullInv => PassedBehind
  <2>. SUFFICES ASSUME TInv, LogInv, O, TableOrigins, PullInv, NEW i \in Installs, NEW r \in rows,
                       credential[i] # 0, r.seq <= cursor[i], r.device \notin ownDevices[i]
                PROVE  BehindFor(i, r)
    BY DEF PassedBehind
  <2>1. cursor[i] \in Nat /\ \A t \in rows : t.seq \in Nat
    BY DEF TInv, CursorTyped, Cloud!TypeOK, Cloud!Row
  <2>2. \A t \in rows : t.seq <= cursor[i] => Honest(i, t)
    BY DEF PullInv, CursorAt
  <2>3. Honest(i, r) /\ \A t \in rows : t.seq < r.seq => Honest(i, t)
    BY <2>1, <2>2
  <2>. QED BY <2>3, PassedIsBehind
<1>2. Spec => []O
  BY OriginsHold
<1>. HIDE DEF O
<1>. QED BY <1>1, <1>2, TInvHolds, LogInvHolds, TableOriginsHold, PullInvHolds, PTL

\* What a page adds: rows of others up to one, under origins the table does not have, and content
\* where the table, or an earlier row the page adds, has the start.
TakenUp(i, last, lands) ==
  /\ lands \subseteq rows
  /\ events'[i] = events[i] \union {Stored(i, lands, r) : r \in lands}
  /\ \A r \in lands :
       /\ r.seq <= last.seq /\ r.device \notin ownDevices[i] /\ ~StoredOrigin(i, r)
       /\ r.event.needs # 0 => \/ \E t \in events[i] : Starts(t.event, r.event)
                               \/ \E s \in lands : s.seq < r.seq /\ Starts(s.event, r.event)

\* A page applied is such an addition.
LEMMA PageTakenUp ==
  ASSUME TInv, Signed, LogInv, LogSound, TableOrigins, NEW i \in Installs, CursorAt(i),
         NEW last \in pass[i].page, LandsPage(i, last)
  PROVE  \E lands : TakenUp(i, last, lands)
<1> DEFINE read  == {r \in pass[i].page : r.seq <= last.seq}
           taken == {r \in read : Applies(i, r) /\ ~StoredOrigin(i, r)}
           lands == Lands(i, read)
<1>1. lands = {r \in taken : Started(Held(i) \union {s.event : s \in {c \in taken : c.seq < r.seq}}, r.event)}
  BY DEF Lands
<1>2. events'[i] = events[i] \union {Stored(i, lands, r) : r \in lands}
  BY DEF LandsPage, ApplyThrough, Stored, TInv, TableTyped
<1>. HIDE DEF lands
<1>3. taken \subseteq rows /\ pass[i].own = ownDevices[i]
  BY PageLands DEF LogSound
<1>4. ASSUME NEW r \in lands
      PROVE  r.seq <= last.seq /\ r.device \notin ownDevices[i] /\ ~StoredOrigin(i, r) /\ r \in taken
  BY <1>1, <1>3 DEF Applies, Own
<1>5. ASSUME NEW r \in lands, r.event.needs # 0
      PROVE  \/ \E t \in events[i] : Starts(t.event, r.event)
             \/ \E s \in lands : s.seq < r.seq /\ Starts(s.event, r.event)
  <2>1. Started(Held(i) \union {s.event : s \in {c \in taken : c.seq < r.seq}}, r.event)
    BY <1>1
  <2>2. PICK f \in Held(i) \union {s.event : s \in {c \in taken : c.seq < r.seq}} : Starts(f, r.event)
    BY <1>5, <2>1, StartedIs
  <2>3. CASE f \in Held(i)
    BY <2>2, <2>3 DEF Held
  <2>4. ASSUME NEW s \in taken, s.seq < r.seq, f = s.event
        PROVE  s \in lands
    <3>1. s.event.needs = 0
      BY <1>3, <1>4, <1>5, <2>2, <2>4, StartNeedsNothing DEF TableOrigins
    <3>. QED BY <1>1, <3>1, StartedIs
  <2>. QED BY <2>2, <2>3, <2>4
<1>6. lands \subseteq rows
  BY <1>3, <1>4
<1>. HIDE DEF taken
<1>7. TakenUp(i, last, lands)
  BY <1>2, <1>4, <1>5, <1>6 DEF TakenUp
<1>. QED BY <1>7

\* What is before a row of the table was passed when that row was taken.
LEMMA BehindStep ==
  ASSUME TInv, TInv', ~CredentialWriteFails, Signed, LogInv, LogInv', LogSound,
         TableOrigins, TableOrigins', PullInv, PassedBehind', Behind, [Next]_vars
  PROVE  Behind'
<1>. SUFFICES ASSUME NEW i \in Installs, NEW t \in events'[i], NEW r \in rows',
                     t.device # 0, r.device = t.device, r.pos < t.pos
              PROVE  BehindFor(i, r)'
  BY DEF Behind
<1>1. /\ rows \subseteq rows' /\ \A x \in rows' : x.seq \in Nat /\ (x \in rows \/ x.seq > lastSeq)
      /\ \A x \in rows : x.seq <= lastSeq
      /\ lastSeq \in Nat
  BY LogGrows DEF TInv, Cloud!TypeOK, Cloud!Row, LogInv, Cloud!SeqsAreDistinct
<1>2. PICK x \in rows' : x.device = t.device /\ x.pos = t.pos
  BY DEF TableOrigins, TablesFromLog
<1>3. r.seq < x.seq
  BY <1>2 DEF LogInv, Cloud!DeviceOrder
<1>4. ASSUME r \in rows, BehindFor(i, r), StoredOrigin(i, r) => StoredOrigin(i, r)'
      PROVE  BehindFor(i, r)'
  <2>1. LateStart(r) => LateStart(r)'
    BY <1>1, <1>4 DEF LateStart
  <2>. QED BY <1>4, <2>1 DEF BehindFor
<1>5. ASSUME \A u : u.device # 0 => (u \in events'[i] <=> u \in events[i])
      PROVE  BehindFor(i, r)'
  <2>1. t \in events[i]
    BY <1>5
  <2>2. PICK y \in rows : y.device = t.device /\ y.pos = t.pos
    BY <2>1 DEF TableOrigins, TablesFromLog
  <2>3. r.seq < y.seq
    BY <1>1, <2>2 DEF LogInv, Cloud!DeviceOrder
  <2>4. r \in rows
    BY <1>1, <2>2, <2>3
  <2>5. BehindFor(i, r)
    BY <2>1, <2>4 DEF Behind
  <2>6. StoredOrigin(i, r) => StoredOrigin(i, r)'
    BY <1>5 DEF StoredOrigin
  <2>. QED BY <1>4, <2>4, <2>5, <2>6
<1>6. CASE PullStartsOver(i) \/ PullReboots(i) \/ PullRests(i)
  <2>1. CASE PullRests(i)
    BY <1>5, <2>1 DEF PullRests
  <2>2. CASE events'[i] = events[i]
    BY <1>5, <2>2
  <2>. QED BY <1>6, <2>1, <2>2 DEF PullStartsOver, PullReboots
<1>7. ASSUME NEW last \in pass[i].page, PullLands(i, last)
      PROVE  BehindFor(i, r)'
  <2>1. CursorAt(i) /\ LandsPage(i, last) /\ UNCHANGED lastSeq
    BY <1>7 DEF PullLands, PullInv
  <2>2. PICK lands : TakenUp(i, last, lands)
    BY <2>1, PageTakenUp
  <2>3. UNCHANGED <<rows, credential, ownDevices>> /\ credential[i] # 0 /\ cursor'[i] = last.seq
    BY <2>1, PageLands
  <2>4. CASE t \in events[i]
    <3>1. BehindFor(i, r)
      BY <2>3, <2>4 DEF Behind
    <3>2. StoredOrigin(i, r) => StoredOrigin(i, r)'
      BY <2>2 DEF TakenUp, StoredOrigin
    <3>. QED BY <1>4, <2>3, <3>1, <3>2
  <2>5. ASSUME NEW s \in lands, t = Stored(i, lands, s)
        PROVE  BehindFor(i, r)'
    <3>1. s.device = t.device /\ s.pos = t.pos
      BY <2>5 DEF Stored
    <3>2. s \in rows /\ s.seq <= last.seq /\ s.device \notin ownDevices[i]
      BY <2>2 DEF TakenUp
    <3>3. r.seq < s.seq /\ s.seq \in Nat /\ r.seq \in Nat
      BY <1>1, <2>3, <3>1, <3>2 DEF LogInv, Cloud!DeviceOrder
    <3>4. last.seq \in Nat
      BY <2>1, PageLands DEF TInv, Cloud!TypeOK, Cloud!Row
    <3>5. r.seq <= cursor'[i]
      BY <2>3, <3>2, <3>3, <3>4
    <3>6. credential'[i] # 0 /\ r.device \notin ownDevices'[i]
      BY <2>3, <3>1, <3>2
    <3>. QED BY <3>5, <3>6 DEF PassedBehind
  <2>. QED BY <2>2, <2>4, <2>5 DEF TakenUp
<1>. QED BY <1>6, <1>7, PullFacts

\* So it is of every reachable state.
LEMMA BehindHolds ==
  ASSUME ~CredentialWriteFails
  PROVE  Spec => []Behind
<1> DEFINE O == Signed /\ QueuedOnce /\ TablesSound /\ LogSound
<1>1. Init => Behind
  BY DEF Init, Behind
<1>2. /\ TInv /\ TInv' /\ LogInv /\ LogInv' /\ O /\ TableOrigins /\ TableOrigins'
      /\ PullInv /\ PassedBehind' /\ Behind /\ [Next]_vars
      => Behind'
  BY BehindStep
<1>3. Spec => []O
  BY OriginsHold
<1>. HIDE DEF O
<1>. QED BY <1>1, <1>2, <1>3, TInvHolds, LogInvHolds, TableOriginsHold, PullInvHolds,
            PassedBehindHolds, PTL DEF Spec

\* A step adds to a table, and only at its end.
LEMMA LandsInOrderStep ==
  ASSUME TInv, ~CredentialWriteFails, Signed, LogInv, LogSound, TablesSound, QueuedOnce, TableOrigins,
         PullInv, Behind, LandsInOrder, [Next]_vars
  PROVE  LandsInOrder'
<1>. SUFFICES ASSUME NEW i \in Installs, NEW r \in events'[i], NEW s \in events'[i],
                     r.device = s.device, r.device # 0, r.pos < s.pos, s.seq < r.seq
              PROVE  \/ r.event.kind = "newer"
                     \/ \E t \in events'[i] : /\ t.event.by = r.event.by
                                              /\ t.event.n = r.event.needs
                                              /\ t.event.kind = "newer" \/ Before(r, t)'
  BY DEF LandsInOrder
<1>1. rows \subseteq rows' /\ \A x \in rows : x.seq \in Nat /\ x.device # 0
  BY LogGrows DEF TInv, Cloud!TypeOK, Cloud!Row, DeviceIds
<1>2. \A t \in events[i] : Before(r, t) => Before(r, t)'
  BY <1>1 DEF Before
<1>3. ASSUME r \in events[i], s \in events[i], events[i] \subseteq events'[i]
      PROVE  \/ r.event.kind = "newer"
             \/ \E t \in events'[i] : /\ t.event.by = r.event.by
                                      /\ t.event.n = r.event.needs
                                      /\ t.event.kind = "newer" \/ Before(r, t)'
  BY <1>2, <1>3 DEF LandsInOrder
<1>4. CASE PullStartsOver(i) \/ PullReboots(i) \/ PullRests(i)
  <2>1. r \in events[i] /\ s \in events[i]
    BY <1>4 DEF PullStartsOver, PullReboots, PullRests
  <2>2. events[i] \subseteq events'[i]
    BY <1>4 DEF PullStartsOver, PullReboots, PullRests
  <2>. QED BY <1>3, <2>1, <2>2
<1>5. ASSUME NEW last \in pass[i].page, PullLands(i, last)
      PROVE  \/ r.event.kind = "newer"
             \/ \E t \in events'[i] : /\ t.event.by = r.event.by
                                      /\ t.event.n = r.event.needs
                                      /\ t.event.kind = "newer" \/ Before(r, t)'
  <2>1. CursorAt(i) /\ LandsPage(i, last)
    BY <1>5 DEF PullLands, PullInv
  <2>2. PICK lands : TakenUp(i, last, lands)
    BY <2>1, PageTakenUp
  <2>3. /\ lands \subseteq rows /\ UNCHANGED rows /\ IsFiniteSet(lands)
        /\ events'[i] = events[i] \union {Stored(i, lands, x) : x \in lands}
    BY <2>1, <2>2, SameSets, FS_Subset DEF TakenUp, LandsPage, TInv, Cloud!TypeOK
  <2>4. \A x : /\ Stored(i, lands, x).device = x.device /\ Stored(i, lands, x).pos = x.pos
               /\ Stored(i, lands, x).event = x.event
               /\ Stored(i, lands, x).seq =
                    Cardinality(events[i]) + Cardinality({y \in lands : y.seq <= x.seq})
    BY DEF Stored
  <2>5. Cardinality(events[i]) \in Nat /\ \A t \in events[i] : t.seq \in Nat /\ t.seq <= Cardinality(events[i])
    BY FS_CardinalityType DEF TInv, TableTyped, LocalRow, TableOrigins, TablesFromLog
  <2>6. ASSUME NEW x \in lands
        PROVE  Cardinality({y \in lands : y.seq <= x.seq}) \in Nat
    BY <2>3, FS_Subset, FS_CardinalityType, {y \in lands : y.seq <= x.seq} \in SUBSET lands
  <2>7. CASE r \in events[i]
    <3>1. s \in events[i]
      <4>1. ASSUME NEW x \in lands, s = Stored(i, lands, x)
            PROVE  FALSE
        <5> DEFINE n == Cardinality({y \in lands : y.seq <= x.seq})
        <5>1. n \in Nat /\ s.seq = Cardinality(events[i]) + n
          BY <2>4, <2>6, <4>1
        <5>. HIDE DEF n
        <5>. QED BY <2>5, <2>7, <5>1
      <4>. QED BY <2>3, <4>1
    <3>. QED BY <1>3, <2>3, <2>7, <3>1
  <2>8. ASSUME NEW x \in lands, r = Stored(i, lands, x)
        PROVE  \/ r.event.kind = "newer"
               \/ \E t \in events'[i] : /\ t.event.by = r.event.by
                                        /\ t.event.n = r.event.needs
                                        /\ t.event.kind = "newer" \/ Before(r, t)'
    <3>1. /\ x \in rows /\ x.device = r.device /\ x.pos = r.pos /\ x.event = r.event
          /\ ~StoredOrigin(i, x) /\ x.device \notin ownDevices[i]
          /\ x.event.needs # 0 => \/ \E t \in events[i] : Starts(t.event, x.event)
                                  \/ \E y \in lands : y.seq < x.seq /\ Starts(y.event, x.event)
      BY <2>2, <2>4, <2>8 DEF TakenUp
    <3>2. s \in events[i]
      <4>1. ASSUME NEW y \in lands, s = Stored(i, lands, y)
            PROVE  FALSE
        <5>1. y.device = x.device /\ x.pos < y.pos /\ y \in rows
          BY <2>3, <2>4, <3>1, <4>1
        <5>2. x.seq < y.seq
          BY <3>1, <5>1 DEF LogInv, Cloud!DeviceOrder
        <5> DEFINE upToX == {z \in lands : z.seq <= x.seq}
                   upToY == {z \in lands : z.seq <= y.seq}
        <5>3. upToX \in SUBSET upToY
          BY <1>1, <2>3, <3>1, <5>1, <5>2
        <5>4. IsFiniteSet(upToY)
          BY <2>3, FS_Subset, upToY \in SUBSET lands
        <5>5. Cardinality(upToX) <= Cardinality(upToY)
          BY <5>3, <5>4, FS_Subset
        <5>6. /\ s.seq = Cardinality(events[i]) + Cardinality(upToY)
              /\ r.seq = Cardinality(events[i]) + Cardinality(upToX)
              /\ Cardinality(upToX) \in Nat /\ Cardinality(upToY) \in Nat
          BY <2>4, <2>6, <2>8, <4>1
        <5>. HIDE DEF upToX, upToY
        <5>. QED BY <2>5, <5>5, <5>6
      <4>. QED BY <2>3, <4>1
    <3>3. x.event.kind = "newer" \/ LateStart(x)
      BY <3>1, <3>2 DEF Behind, BehindFor
    <3>4. ASSUME LateStart(x), NEW t \in events[i], Starts(t.event, x.event)
          PROVE  t.event.kind = "newer" \/ Before(r, t)
      <4>1. t.device # 0
        <5>1. x.event.by # i
          <6> DEFINE q == [device |-> x.device, pos |-> x.pos, event |-> x.event]
          <6>1. q \in issued /\ q.event = x.event /\ q.device = x.device
            BY <3>1 DEF LogSound, Issued
          <6>. HIDE DEF q
          <6>. QED BY <3>1, <6>1 DEF QueuedOnce
        <5>. QED BY <3>4, <5>1 DEF Starts, TablesSound, OwnRows
      <4>2. PICK z \in rows : z.device = t.device /\ z.pos = t.pos /\ z.event = t.event
        BY <4>1 DEF TableOrigins, TablesFromLog
      <4>3. CASE z.seq < x.seq
        BY <3>4, <4>2, <4>3 DEF LateStart
      <4>4. CASE x.seq < z.seq
        BY <3>1, <4>2, <4>4 DEF Before
      <4>5. CASE z.seq = x.seq
        <5>1. z = x
          BY <3>1, <4>2, <4>5 DEF LogInv, Cloud!SeqsAreDistinct
        <5>2. x.event.needs # 0 /\ z.event.needs = 0
          BY <3>1, <3>4, <4>2, StartNeedsNothing DEF LateStart, TableOrigins
        <5>. QED BY <5>1, <5>2
      <4>. QED BY <1>1, <3>1, <4>2, <4>3, <4>4, <4>5
    <3>5. ASSUME LateStart(x), NEW y \in lands, y.seq < x.seq, Starts(y.event, x.event)
          PROVE  \E t \in events'[i] : t.event = y.event /\ t.event.kind = "newer"
      <4>1. Stored(i, lands, y) \in events'[i] /\ y.event.kind = "newer"
        BY <2>3, <3>5 DEF LateStart
      <4>. QED BY <2>4, <4>1
    <3>6. CASE LateStart(x)
      <4>1. x.event.needs # 0
        BY <3>6 DEF LateStart
      <4>2. CASE \E t \in events[i] : Starts(t.event, x.event)
        BY <1>2, <2>3, <3>1, <3>4, <3>6, <4>2 DEF Starts
      <4>3. CASE \E y \in lands : y.seq < x.seq /\ Starts(y.event, x.event)
        BY <3>1, <3>5, <3>6, <4>3 DEF Starts
      <4>. QED BY <3>1, <4>1, <4>2, <4>3
    <3>. QED BY <3>1, <3>3, <3>6
  <2>. QED BY <2>3, <2>7, <2>8
<1>. QED BY <1>4, <1>5, PullFacts

\* What another device wrote lands in the order it wrote it, save what an older build could not read
\* then, and the content of a turn whose start it could not read, or the log holds only after it.
THEOREM LandedInOrder ==
  ASSUME ~CredentialWriteFails
  PROVE  Spec => []LandsInOrder
<1> DEFINE O == Signed /\ QueuedOnce /\ TablesSound /\ LogSound
<1>1. Init => LandsInOrder
  BY DEF Init, LandsInOrder
<1>2. TInv /\ LogInv /\ O /\ TableOrigins /\ PullInv /\ Behind /\ LandsInOrder /\ [Next]_vars
        => LandsInOrder'
  BY LandsInOrderStep
<1>3. Spec => []O
  BY OriginsHold
<1>. HIDE DEF O
<1>. QED BY <1>1, <1>2, <1>3, TInvHolds, LogInvHolds, TableOriginsHold, PullInvHolds, BehindHolds,
            PTL DEF Spec

-----------------------------------------------------------------------------
(* The log's end. *)

\* A row under an install's own id is an event of its own, and in its table.
LEMMA OwnRowsAreHeld ==
  ASSUME TInv, QueuedOnce, LogSound, TableOrigins,
         NEW i \in Installs, NEW r \in rows, r.device \in ownDevices[i]
  PROVE  r.event.by = i /\ r.event \in Held(i)
<1> DEFINE q == [device |-> r.device, pos |-> r.pos, event |-> r.event]
<1>1. q \in issued /\ q.device = r.device /\ q.event = r.event
  BY DEF LogSound, Issued
<1>. HIDE DEF q
<1>2. r.event.by \in Installs /\ r.device \in ownDevices[r.event.by]
  BY <1>1 DEF TInv, QueueTyped, Event, QueuedOnce
<1>3. r.event.by = i
  BY <1>2 DEF TableOrigins, OwnersApart
<1>4. PICK x \in OwnRows(i) : x.event = r.event
  BY <1>1, <1>3 DEF TableOrigins, StartsFirst
<1>. QED BY <1>3, <1>4 DEF OwnRows, Held

\* A row stored under its origin is stored as it is.
LEMMA StoredAsItIs ==
  ASSUME TInv, LogSound, TablesSound, PositionsIssuedOnce,
         NEW i \in Installs, NEW r \in rows, NEW t \in events[i], t.device = r.device, t.pos = r.pos
  PROVE  t.event = r.event
<1> DEFINE p == [device |-> t.device, pos |-> t.pos, event |-> t.event]
           q == [device |-> r.device, pos |-> r.pos, event |-> r.event]
<1>1. r.device # 0
  BY DEF TInv, Cloud!TypeOK, Cloud!Row, DeviceIds
<1>2. p \in issued /\ q \in issued
  BY <1>1 DEF LogSound, TablesSound, Issued
<1>3. p.device = q.device /\ p.pos = q.pos
  OBVIOUS
<1>. QED BY <1>2, <1>3 DEF PositionsIssuedOnce

\* Installs that have read the log to its end, under builds that read all of it, hold every event
\* there whose turn the log had begun: what one wrote and the log took is in the tables of all
\* (sync-pass.ts, plan-page.ts), whatever was repeated, cut off, rewound or read by an older build.
THEOREM EndIsHeld ==
  ASSUME ~CredentialWriteFails
  PROVE  Spec => []EndOfLogIsHeld
<1> DEFINE O == Signed /\ QueuedOnce /\ TablesSound /\ LogSound
<1>1. TInv /\ O /\ TableOrigins /\ PositionsIssuedOnce /\ CursorHonest => EndOfLogIsHeld
  <2>. SUFFICES ASSUME TInv, O, TableOrigins, PositionsIssuedOnce, CursorHonest,
                       NEW i \in Installs, Live(i),
                       \A r \in rows : r.seq <= cursor[i] /\ Reads(build[i], r.event),
                       NEW r \in rows,
                       Started({s.event : s \in {t \in rows : t.seq < r.seq}}, r.event)
                PROVE  r.event \in Held(i)
    BY DEF EndOfLogIsHeld
  <2>1. \A s \in rows : s.device \in ownDevices[i] \/ StoredOrigin(i, s)
                        \/ ~Started(HeldBefore(i, s), s.event)
    BY DEF CursorHonest
  <2>2. r.device \in ownDevices[i] \/ StoredOrigin(i, r) => r.event \in Held(i)
    BY OwnRowsAreHeld, StoredAsItIs DEF O, StoredOrigin, Held
  <2>3. CASE r.event.needs = 0
    <3>1. r.device \in ownDevices[i] \/ StoredOrigin(i, r)
      BY <2>1, <2>3 DEF Started
    <3>. QED BY <2>2, <3>1
  <2>4. CASE r.event.needs # 0
    <3>1. PICK s \in rows : s.seq < r.seq /\ s.event.by = r.event.by /\ s.event.n = r.event.needs
      BY <2>4 DEF Started
    <3>2. s.event.needs = 0
      BY <2>4, <3>1, StartNeedsNothing DEF O, TableOrigins, Starts
    <3>3. s.device \in ownDevices[i] \/ StoredOrigin(i, s)
      BY <2>1, <3>2 DEF Started
    <3>4. CASE s.device \in ownDevices[i]
      \* The start is the install's own, and so is the content.
      <4> DEFINE p == [device |-> r.device, pos |-> r.pos, event |-> r.event]
      <4>1. p \in issued /\ p.device = r.device /\ p.event.by = i
        BY <3>1, <3>4, OwnRowsAreHeld DEF O, LogSound, Issued
      <4>2. r.device \in ownDevices[i]
        BY <4>1 DEF O, QueuedOnce
      <4>. QED BY <2>2, <4>2
    <3>5. CASE StoredOrigin(i, s)
      <4>1. PICK t \in events[i] : t.device = s.device /\ t.pos = s.pos
        BY <3>5 DEF StoredOrigin
      <4>2. t.event = s.event
        BY <4>1, StoredAsItIs DEF O
      <4>3. t.event \in HeldBefore(i, r)
        BY <3>1, <4>1 DEF HeldBefore
      <4>4. Started(HeldBefore(i, r), r.event)
        BY <3>1, <4>2, <4>3 DEF Started
      <4>. QED BY <2>2, <2>1, <4>4
    <3>. QED BY <3>3, <3>4, <3>5
  <2>. QED BY <2>3, <2>4
<1>2. Spec => []O
  BY OriginsHold
<1>. HIDE DEF O
<1>. QED BY <1>1, <1>2, TInvHolds, TableOriginsHold, IssuedOnce, CursorStaysHonest, PTL
=============================================================================
