------------------------------ MODULE AccountLog ------------------------------
(***************************************************************************)
(* The account's thread log, as the cloud keeps it: the sync_events table  *)
(* of the account's Durable Object (apps/web/src/worker/sync/              *)
(* thread-sync-do.ts) and the Worker route in front of it, which verifies  *)
(* a device's credential before it calls the object.  The clients here are *)
(* arbitrary: any batch may be pushed under any live credential, and the   *)
(* object may get to it long after the credential was verified.            *)
(*                                                                         *)
(* A table is a set of rows.  A batch is a set of entries, because the     *)
(* object judges an entry by its position alone: the order of the batch is *)
(* the order of its positions, or the batch is refused.                    *)
(*                                                                         *)
(* A definition marked "Faulty" is no part of the specification: it is a   *)
(* defect the code could have in the definition that follows it, kept to   *)
(* show that the properties tell the two apart.                            *)
(***************************************************************************)
EXTENDS Integers, FiniteSets

CONSTANTS
  Devices,    \* device ids a sign-in can mint
  Positions,  \* outbox positions (deviceSeq)
  Bodies,     \* event bodies: opaque to the cloud, compared and never read
  PushMax,    \* the most entries one push may carry
  MaxVerified \* bound: pushes the Worker has verified and the object has not run

ASSUME PositionsAssumption == Positions \subseteq Nat
ASSUME LimitsAssumption == PushMax \in Nat /\ MaxVerified \in Nat

VARIABLES
  rows,      \* sync_events: the account's log
  lastSeq,   \* the AUTOINCREMENT counter of sync_events
  deleting,  \* the account is being deleted: its device rows went
  purged,    \* account_state holds the tombstone
  minted,    \* the device ids sign-ins were given
  valid,     \* those whose credential the Worker still accepts
  verified   \* pushes whose credential was verified and which the object has not run

cloudVars == <<rows, lastSeq, deleting, purged, minted, valid, verified>>

Row     == [seq : Nat \ {0}, device : Devices, pos : Positions, event : Bodies]
Entry   == [pos : Positions, event : Bodies]
Request == [device : Devices, batch : SUBSET Entry]

TypeOK ==
  /\ rows \subseteq Row
  /\ lastSeq \in Nat
  /\ deleting \in BOOLEAN
  /\ purged \in BOOLEAN
  /\ minted \subseteq Devices
  /\ valid \subseteq minted
  /\ verified \subseteq Request
  /\ IsFiniteSet(rows)
  /\ \A m \in verified : IsFiniteSet(m.batch)

-----------------------------------------------------------------------------
(* How the object judges a push. *)

\* Faulty: a position is unique in the whole account.
AtOfAnyDevice(d, p) == {r \in rows : r.pos = p}

\* A device's row at a position: UNIQUE (device_id, device_seq).
At(d, p) == {r \in rows : r.device = d /\ r.pos = p}

\* Two entries at one position: the batch disagrees with itself.
Disordered(batch) == \E e, f \in batch : e # f /\ e.pos = f.pos

\* The position is stored with another body.
Conflicts(d, e) == \E r \in At(d, e.pos) : r.event # e.event

\* Faulty: the high-water mark is not looked at.
NeverOutOfOrder(d, e) == FALSE

\* The position is not stored, and the high-water mark is past it.
OutOfOrder(d, e) ==
  /\ At(d, e.pos) = {}
  /\ \E r \in rows : r.device = d /\ e.pos <= r.pos

Refused(d, e) == Conflicts(d, e) \/ OutOfOrder(d, e)

\* Faulty: a refused entry is passed over.
AcceptedOneByOne(d, batch) == {e \in batch : ~Refused(d, e)}

\* What a push gets through before the entry that refuses the rest of it.
Accepted(d, batch) ==
  {e \in batch : \A f \in batch : Refused(d, f) => e.pos < f.pos}

\* The rest of that is a duplicate of what is stored.
Fresh(d, batch) == {e \in Accepted(d, batch) : At(d, e.pos) = {}}

\* Faulty: one seq for a whole push, and the batch stored from its end.
RankOfPush(e, batch) == 1
RankFromEnd(e, batch) == Cardinality({f \in batch : f.pos >= e.pos})

\* Where an entry lands in its batch: the first fresh one takes the next seq.
Rank(e, batch) == Cardinality({f \in batch : f.pos <= e.pos})

\* Faulty: the counter's value before the insert, and the position for the seq.
LandedAtCounter(d, fresh) ==
  {[seq |-> lastSeq + Rank(e, fresh) - 1, device |-> d, pos |-> e.pos,
    event |-> e.event] : e \in fresh}
LandedAtPosition(d, fresh) ==
  {[seq |-> e.pos, device |-> d, pos |-> e.pos, event |-> e.event] : e \in fresh}

Landed(d, fresh) ==
  {[seq |-> lastSeq + Rank(e, fresh), device |-> d, pos |-> e.pos,
    event |-> e.event] : e \in fresh}

\* The positions a batch is refused at: where it repeats one, or the first entry refused.
RefusedAt(d, batch) ==
  IF Disordered(batch)
  THEN {e.pos : e \in {f \in batch : \E g \in batch : f # g /\ f.pos = g.pos}}
  ELSE {e.pos : e \in {f \in batch : /\ Refused(d, f)
                                     /\ \A g \in batch : Refused(d, g) => f.pos <= g.pos}}

\* What a push is answered with: one of these, and "ok" exactly when nothing refuses it.
PushAnswers(d, batch) ==
  IF purged                       THEN {[code |-> "account-deleted", pos |-> 0]}
  ELSE IF RefusedAt(d, batch) = {} THEN {[code |-> "ok", pos |-> 0]}
  ELSE {[code |-> "outbox", pos |-> p] : p \in RefusedAt(d, batch)}

-----------------------------------------------------------------------------
(* One page of the log: the rows past a cursor, oldest first. *)

Page(after, limit) ==
  {r \in rows :
     /\ r.seq > after
     /\ Cardinality({s \in rows : after < s.seq /\ s.seq <= r.seq}) <= limit}

HasMore(after, limit) == Page(after, limit) # {r \in rows : r.seq > after}

-----------------------------------------------------------------------------
Init ==
  /\ rows = {}
  /\ lastSeq = 0
  /\ deleting = FALSE
  /\ purged = FALSE
  /\ minted = {}
  /\ valid = {}
  /\ verified = {}

\* A sign-in mints an id no sign-in had before.  Deleting an account does not stop one, and a
\* deletion that fails half way leaves the account to sign in to.
SignIn(d) ==
  /\ d \notin minted
  /\ minted' = minted \union {d}
  /\ valid' = valid \union {d}
  /\ UNCHANGED <<rows, lastSeq, deleting, purged, verified>>

\* The Worker's route: the credential is verified, then the object is called.
Verify(m) ==
  /\ m.device \in valid
  /\ Cardinality(m.batch) <= PushMax
  /\ Cardinality(verified) < MaxVerified
  /\ verified' = verified \union {m}
  /\ UNCHANGED <<rows, lastSeq, deleting, purged, minted, valid>>

\* Faulty: the tombstone is not looked at.
PushPastTombstone(m) ==
  LET fresh == IF Disordered(m.batch) THEN {} ELSE Fresh(m.device, m.batch)
  IN  /\ m \in verified
      /\ rows' = rows \union Landed(m.device, fresh)
      /\ lastSeq' = lastSeq + Cardinality(fresh)
      /\ verified' = verified \ {m}
      /\ UNCHANGED <<deleting, purged, minted, valid>>

\* The object runs a push: it stores the whole accepted part or, past the tombstone, nothing.
Push(m) ==
  LET fresh == IF purged \/ Disordered(m.batch) THEN {} ELSE Fresh(m.device, m.batch)
  IN  /\ m \in verified
      /\ rows' = rows \union Landed(m.device, fresh)
      /\ lastSeq' = lastSeq + Cardinality(fresh)
      /\ verified' = verified \ {m}
      /\ UNCHANGED <<deleting, purged, minted, valid>>

\* A device is signed out, or revoked by another.
Revoke(d) ==
  /\ d \in valid
  /\ valid' = valid \ {d}
  /\ UNCHANGED <<rows, lastSeq, deleting, purged, minted, verified>>

\* The account's deletion begins with its devices, whose credentials then verify no more.
DeleteDevices ==
  /\ deleting' = TRUE
  /\ valid' = {}
  /\ UNCHANGED <<rows, lastSeq, purged, minted, verified>>

\* It goes on, in a later call, with the object: its tables are emptied and the tombstone written.
\* The code awaits the emptying, and the object is handed no other call meanwhile.
Purge ==
  /\ deleting
  /\ purged' = TRUE
  /\ rows' = {}
  /\ lastSeq' = 0
  /\ UNCHANGED <<deleting, minted, valid, verified>>

Next ==
  \/ \E d \in Devices : \E batch \in SUBSET Entry :
       IsFiniteSet(batch) /\ Verify([device |-> d, batch |-> batch])
  \/ \E m \in verified : Push(m)
  \/ \E d \in Devices : SignIn(d) \/ Revoke(d)
  \/ DeleteDevices
  \/ Purge

Spec == Init /\ [][Next]_cloudVars

-----------------------------------------------------------------------------
(* Properties. *)

\* A row's seq is its identity: no two rows share one, and none is past the counter.  Every
\* client's cursor is a seq, so a shared one would hide a row from every pull.
SeqsAreDistinct ==
  /\ \A r \in rows : r.seq <= lastSeq
  /\ \A r, s \in rows : r.seq = s.seq => r = s

\* The log holds each device's events once per position and in the order the device numbered
\* them, however its pushes were repeated, delayed or reordered on the way.
DeviceOrder ==
  \A r, s \in rows :
    r.device = s.device => (r.seq < s.seq <=> r.pos < s.pos)

\* The tombstone holds: a push verified before the account was deleted, and run after, does not
\* bring any of its state back.
PurgedStaysEmpty == purged => rows = {}

\* A push is all or nothing: when any entry of it is refused, what it got through before that
\* entry was already in the log, so the refusal leaves the log as it was.
RefusedPushStoresNothing ==
  \A m \in verified : (\E e \in m.batch : Refused(m.device, e)) => Fresh(m.device, m.batch) = {}
=============================================================================
