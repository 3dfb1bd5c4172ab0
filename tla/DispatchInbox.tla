---------------------------- MODULE DispatchInbox ----------------------------
(***************************************************************************)
(* The dispatch inbox of an account: the requests phones leave for the     *)
(* Macs, and the approvals the Macs offer the phones, as two tables of the *)
(* account's Durable Object (apps/web/src/worker/sync/dispatch-inbox.ts,   *)
(* called from thread-sync-do.ts).  The clients here are arbitrary: any    *)
(* device calls anything at any time, a claimant acks what it was handed   *)
(* however late, and a call verified before its device was revoked may run *)
(* after.                                                                  *)
(*                                                                         *)
(* The code reads the clock only to compare an age with a limit, so a row  *)
(* keeps the ages themselves, counted up to the limit and no further.  A   *)
(* row also remembers the claim whose ack settled it (ackedBy), which the  *)
(* code does not: it is there for the properties alone.                    *)
(*                                                                         *)
(* A definition marked "Faulty" is no part of the specification: see       *)
(* AccountLog.                                                             *)
(***************************************************************************)
EXTENDS Integers, FiniteSets

CONSTANTS
  Devices,     \* the devices of the account
  Requests,    \* what phones may ask: see Request
  Approvals,   \* what Macs may ask their phones: [name, from], from being the Mac
  Tokens,      \* claim tokens, which the code mints at random
  Limit,       \* rows in one claim (DISPATCH_CLAIM_DEFAULT_LIMIT)
  MaxPending,  \* rows waiting for a Mac at once (DISPATCH_MAX_PENDING)
  MaxOpen,     \* approvals not yet closed (APPROVAL_MAX_OPEN)
  Ttl,         \* the age at which a claim lapses (DISPATCH_CLAIM_TTL_MS)
  Retention,   \* the age at which a settled row goes (DISPATCH_RETENTION_MS)
  MaxPosition, \* bound: the highest rowid
  MaxRevoked,  \* bound: devices revoked
  MaxLate      \* bound: calls that run after their device was revoked

Kinds == {"turn", "answer", "capture"}

\* A request stands for its id, which names one request for good.  An answer names its approval,
\* and is "offered" when that approval's payload offers its decision; a request is "readable" when
\* the build of the Worker that hands it over still reads the body stored at its create.
ASSUME RequestsAssumption ==
  \A q \in Requests : /\ q.kind \in Kinds
                      /\ q.from \in Devices
                      /\ q.kind = "answer" => q.approval \in Approvals
                      /\ q.offered \in BOOLEAN /\ q.readable \in BOOLEAN
ASSUME ApprovalsAssumption == \A a \in Approvals : a.from \in Devices
ASSUME InboxLimitsAssumption ==
  /\ Limit \in Nat /\ MaxPending \in Nat /\ MaxOpen \in Nat
  /\ Ttl \in Nat /\ Retention \in Nat /\ MaxPosition \in Nat
  /\ MaxRevoked \in Nat /\ MaxLate \in Nat
ASSUME AnyoneAssumption == "any" \notin Devices
ASSUME TokensAssumption == Tokens \subseteq Nat \ {0}

VARIABLES
  dispatches, \* the requests stored
  approvals,  \* dispatch_approvals: the approvals stored
  gone,       \* the account's tombstone
  claims,     \* the claims whose Mac may yet ack them: the token, the Mac, the requests handed over
  shut,       \* approvals their Mac has asked to close, and so asks about no more
  valid,      \* devices whose credential is accepted
  unswept,    \* devices revoked whose rows are still to be forgotten
  late        \* bound: how many calls ran after their device was revoked

inboxVars == <<dispatches, approvals, gone, claims, shut, valid, unswept, late>>

Dispatch == [q : Requests, to : Devices \union {"any"}, token : Tokens \union {0},
             claimAge : 0 .. Ttl, state : {"pending", "delivered", "refused"},
             ackedBy : Tokens \union {0}, settleAge : 0 .. Retention, position : Nat \ {0}]
Approval == [a : Approvals, state : {"open", "answered", "closed"}, age : 0 .. Retention]
Claimed  == [token : Tokens, by : Devices, handed : SUBSET Requests]

TypeOK ==
  /\ dispatches \subseteq Dispatch
  /\ approvals \subseteq Approval
  /\ gone \in BOOLEAN
  /\ claims \subseteq Claimed
  /\ shut \subseteq Approvals
  /\ valid \subseteq Devices
  /\ unswept \subseteq Devices \ valid
  /\ late \in 0 .. MaxLate

Init ==
  /\ dispatches = {}
  /\ approvals = {}
  /\ gone = FALSE
  /\ claims = {}
  /\ shut = {}
  /\ valid = Devices
  /\ unswept = {}
  /\ late = 0

-----------------------------------------------------------------------------
(* Reading the tables. *)

Pending(r) == r.state = "pending"

\* No live claim holds the row: it was never claimed, or its claim is past its time.
Lapsed(r) == r.token = 0 \/ r.claimAge >= Ttl

Waiting(r) == Pending(r) /\ Lapsed(r)

\* What a prune leaves.
KeptDispatches == {r \in dispatches : Pending(r) \/ r.settleAge < Retention}
KeptApprovals  == {x \in approvals : x.state # "closed" \/ x.age < Retention}

\* The approvals the requests of some rows answer.
AnsweredBy(rs) == {r.q.approval : r \in {s \in rs : s.q.kind = "answer"}}

-----------------------------------------------------------------------------
(* Writing the tables. *)

Settled(r, state, token) == [r EXCEPT !.state = state, !.ackedBy = token, !.settleAge = 0]

\* Faulty: what its Mac never took is answered still.
LeftAnswered(as, names) == as

\* An answer withdrawn leaves its approval open to another.
Reopened(as, names) ==
  {IF x.a \in names /\ x.state = "answered" THEN [x EXCEPT !.state = "open"] ELSE x : x \in as}

Closed(as, names) ==
  {IF x.a \in names /\ x.state # "closed" THEN [x EXCEPT !.state = "closed", !.age = 0] ELSE x :
     x \in as}

\* SQLite gives a row the rowid after the highest there is.
NextPosition(ds) ==
  1 + CHOOSE p \in {0} \union {r.position : r \in ds} : \A r \in ds : r.position <= p

NewDispatch(ds, q, to, state) ==
  [q |-> q, to |-> to, token |-> 0, claimAge |-> 0, state |-> state, ackedBy |-> 0,
   settleAge |-> 0, position |-> NextPosition(ds)]

-----------------------------------------------------------------------------
(* The phone's calls. *)

\* The Worker verified the device before it called the object, perhaps before it was revoked.
Calls(d) ==
  /\ ~gone
  /\ \/ d \in valid /\ UNCHANGED late
     \/ d \notin valid /\ late < MaxLate /\ late' = late + 1

Stored(ds, q) == \E r \in ds : r.q = q
Full(ds)      == Cardinality({r \in ds : Pending(r)}) >= MaxPending
AskedAs(q)    == {x \in KeptApprovals : q.kind = "answer" /\ x.a = q.approval}

\* A create that stores nothing: the row is there already, there is no room for another, or what
\* it answers is not there or does not offer that answer.
CreateNothing(q) ==
  /\ Calls(q.from)
  /\ \/ Stored(KeptDispatches, q)
     \/ Full(KeptDispatches)
     \/ q.kind = "answer" /\ AskedAs(q) = {}
     \/ ~q.offered /\ \E x \in AskedAs(q) : x.state = "open"
  /\ dispatches' = KeptDispatches
  /\ approvals' = KeptApprovals
  /\ UNCHANGED <<gone, claims, shut, valid, unswept>>

\* A create with a row of its own to store.
Creates(q) ==
  /\ Calls(q.from)
  /\ ~Stored(KeptDispatches, q)
  /\ ~Full(KeptDispatches)
  /\ NextPosition(KeptDispatches) <= MaxPosition
  /\ UNCHANGED <<gone, claims, shut, valid, unswept>>

CreateWork(q) ==
  /\ q.kind # "answer"
  /\ Creates(q)
  /\ dispatches' = KeptDispatches \union {NewDispatch(KeptDispatches, q, "any", "pending")}
  /\ approvals' = KeptApprovals

\* An answer to an open approval waits for the Mac that asked; to any other it is stored refused,
\* for the phone to read that as it reads every verdict.
CreateAnswer(q) ==
  /\ Creates(q)
  /\ \E x \in AskedAs(q) :
       \/ /\ x.state = "open" /\ q.offered
          /\ dispatches' = KeptDispatches \union
               {NewDispatch(KeptDispatches, q, x.a.from, "pending")}
          /\ approvals' = (KeptApprovals \ {x}) \union {[x EXCEPT !.state = "answered"]}
       \/ /\ x.state # "open"
          /\ dispatches' = KeptDispatches \union
               {NewDispatch(KeptDispatches, q, x.a.from, "refused")}
          /\ approvals' = KeptApprovals

\* Withdraws a request no live claim holds, whichever device asks.
Cancel(q) ==
  LET taken == {r \in dispatches : r.q = q /\ Waiting(r)}
  IN  /\ \E d \in Devices : Calls(d)
      /\ dispatches' = dispatches \ taken
      /\ approvals' = Reopened(approvals, AnsweredBy(taken))
      /\ UNCHANGED <<gone, claims, shut, valid, unswept>>

-----------------------------------------------------------------------------
(* The Mac's calls. *)

\* What a claim may hand a Mac: answers to the Mac that asked, anything else to any.
Claimable(d, kinds) ==
  {r \in KeptDispatches : Waiting(r) /\ r.q.kind \in kinds /\ r.to \in {"any", d}}

\* The first rows of some, in the order they were stored.
FirstOf(rs) == {r \in rs : Cardinality({s \in rs : s.position <= r.position}) <= Limit}

\* A token is fresh when no row has it and no Mac may ack under it, and one fresh token is as good
\* as another.
FreshTokens == Tokens \ ({r.token : r \in dispatches} \union {c.token : c \in claims})
NewToken    == CHOOSE token \in FreshTokens : TRUE

\* A row taken by a claim: one whose body cannot be read is refused, or every claim would take it.
TakenBy(r, token) ==
  LET held == [r EXCEPT !.token = token, !.claimAge = 0]
  IN  IF r.q.readable THEN held ELSE Settled(held, "refused", 0)

Claim(d, kinds) ==
  LET taken == FirstOf(Claimable(d, kinds))
  IN  /\ Calls(d)
      /\ approvals' = Closed(KeptApprovals, AnsweredBy({r \in taken : ~r.q.readable}))
      /\ \/ taken = {} /\ dispatches' = KeptDispatches /\ UNCHANGED claims
         \/ /\ taken # {}
            /\ FreshTokens # {}
            /\ dispatches' = (KeptDispatches \ taken) \union {TakenBy(r, NewToken) : r \in taken}
            /\ claims' = claims \union
                 {[token |-> NewToken, by |-> d,
                   handed |-> {r.q : r \in {s \in taken : s.q.readable}}]}
      /\ UNCHANGED <<gone, shut, valid, unswept>>

\* Faulty: an ack sent again settles its row again.
AckableAgain(c, qs) == {r \in dispatches : r.q \in qs /\ r.token = c.token}

\* The rows a claim's ack settles: those it still holds, lapsed or not.
Ackable(c, qs) == {r \in dispatches : r.q \in qs /\ r.token = c.token /\ Pending(r)}

\* The results of a claim, each of a request it handed over.
Ack(c, qs, delivered) ==
  LET taken == Ackable(c, qs)
  IN  /\ c \in claims
      /\ Calls(c.by)
      /\ dispatches' = (dispatches \ taken) \union
           {Settled(r, IF r.q \in delivered THEN "delivered" ELSE "refused", c.token) : r \in taken}
      /\ approvals' = Closed(approvals, AnsweredBy(taken))
      /\ UNCHANGED <<gone, claims, shut, valid, unswept>>

\* The Mac has no more to say under a claim.
LetGo(c) ==
  /\ c \in claims
  /\ claims' = claims \ {c}
  /\ UNCHANGED <<dispatches, approvals, gone, shut, valid, unswept, late>>

\* A Mac asks again under the same id when an answer was lost, and never once it closed it.
OpenApproval(a) ==
  /\ a \notin shut
  /\ Calls(a.from)
  /\ dispatches' = KeptDispatches
  /\ approvals' =
       IF \/ \E x \in KeptApprovals : x.a = a
          \/ Cardinality({x \in KeptApprovals : x.state # "closed"}) >= MaxOpen
         THEN KeptApprovals
         ELSE KeptApprovals \union {[a |-> a, state |-> "open", age |-> 0]}
  /\ UNCHANGED <<gone, claims, shut, valid, unswept>>

\* What waits as an answer to an approval there is.
WaitingAnswers(a) ==
  {r \in dispatches : /\ \E x \in approvals : x.a = a
                      /\ Waiting(r) /\ r.q.kind = "answer" /\ r.q.approval = a}

\* Faulty: an answer its Mac holds is refused too.
CloseApprovalOverClaim(a) ==
  LET refused == {r \in dispatches : Pending(r) /\ r.q.kind = "answer" /\ r.q.approval = a}
  IN  /\ Calls(a.from)
      /\ approvals' = Closed(approvals, {a})
      /\ dispatches' = (dispatches \ refused) \union {Settled(r, "refused", 0) : r \in refused}
      /\ shut' = shut \union {a}
      /\ UNCHANGED <<gone, claims, valid, unswept>>

\* The Mac takes its approval back.  A waiting answer would never be claimed and is refused; one
\* under a live claim is left to that claim's ack.
CloseApproval(a) ==
  LET refused == WaitingAnswers(a)
  IN  /\ Calls(a.from)
      /\ approvals' = Closed(approvals, {a})
      /\ dispatches' = (dispatches \ refused) \union {Settled(r, "refused", 0) : r \in refused}
      /\ shut' = shut \union {a}
      /\ UNCHANGED <<gone, claims, valid, unswept>>

-----------------------------------------------------------------------------
(* The account. *)

\* Faulty: the object is told first.
RevokeLast(d) ==
  /\ d \in valid
  /\ unswept' = unswept \union {d}
  /\ UNCHANGED <<dispatches, approvals, gone, claims, shut, valid, late>>

\* The credential dies in the Worker's table; the object hears of it in a call of its own.
Revoke(d) ==
  /\ d \in valid
  /\ Cardinality(Devices \ valid) < MaxRevoked
  /\ valid' = valid \ {d}
  /\ unswept' = unswept \union {d}
  /\ UNCHANGED <<dispatches, approvals, gone, claims, shut, late>>

\* Forgets a revoked device: what it asked and no Mac holds goes, and what it was asked, and all
\* that waits for it, is closed.
Forget(d) ==
  LET withdrawn == {r \in dispatches : r.q.from = d /\ Waiting(r)}
      left      == dispatches \ withdrawn
      refused   == {r \in left : r.to = d /\ Pending(r)}
  IN  /\ d \in unswept
      /\ ~gone
      /\ dispatches' = (left \ refused) \union {Settled(r, "refused", 0) : r \in refused}
      /\ approvals' = Closed(Reopened(approvals, AnsweredBy(withdrawn)),
                             {x.a : x \in {y \in approvals : y.a.from = d}})
      /\ unswept' = unswept \ {d}
      /\ UNCHANGED <<gone, claims, shut, valid, late>>

\* The account is deleted, or a build with other tables wakes the object: both tables are empty.
Emptied == dispatches' = {} /\ approvals' = {} /\ UNCHANGED <<claims, shut, valid, unswept, late>>

Purge         == Emptied /\ gone' = TRUE
ReplaceTables == Emptied /\ UNCHANGED gone

\* Time passes: ages count up to the limits the code compares them with.
Older(age, limit) == IF age < limit THEN age + 1 ELSE age

Tick ==
  /\ dispatches' = {[r EXCEPT !.claimAge = IF r.token # 0 THEN Older(@, Ttl) ELSE @,
                              !.settleAge = IF Pending(r) THEN @ ELSE Older(@, Retention)] :
                      r \in dispatches}
  /\ approvals' = {[x EXCEPT !.age = IF x.state = "closed" THEN Older(@, Retention) ELSE @] :
                     x \in approvals}
  /\ UNCHANGED <<gone, claims, shut, valid, unswept, late>>

KindsClaimed == {Kinds, {"capture"}}

Next ==
  \/ \E q \in Requests : CreateNothing(q) \/ CreateWork(q) \/ CreateAnswer(q) \/ Cancel(q)
  \/ \E d \in Devices, kinds \in KindsClaimed : Claim(d, kinds)
  \/ \E c \in claims : \E qs \in SUBSET c.handed : \E delivered \in SUBSET qs :
       qs # {} /\ Ack(c, qs, delivered)
  \/ \E c \in claims : LetGo(c)
  \/ \E a \in Approvals : OpenApproval(a) \/ CloseApproval(a)
  \/ \E d \in Devices : Revoke(d) \/ Forget(d)
  \/ Purge
  \/ ReplaceTables
  \/ Tick

Spec == Init /\ [][Next]_inboxVars

-----------------------------------------------------------------------------
(* What is checked. *)

PendingAnswers(a) == {r \in dispatches : Pending(r) /\ r.q.kind = "answer" /\ r.q.approval = a}

\* The two tables agree: an approval is answered exactly while one answer to it is on its way, and
\* two never are, whatever order answers, cancels, lapses, closes, revocations and prunes come in.
\* An open approval has none, or the phone could send a second; an approval left answered by an
\* answer that went would never be answered again.
ApprovalsAgree ==
  /\ \A x \in approvals : /\ x.state = "answered" => PendingAnswers(x.a) # {}
                          /\ x.state = "open" => PendingAnswers(x.a) = {}
  /\ \A r, s \in dispatches :
       /\ Pending(r) /\ Pending(s)
       /\ r.q.kind = "answer" /\ s.q.kind = "answer" /\ r.q.approval = s.q.approval
       => r = s

\* While a claim is live its row is the claim's: it stays as it is, or that claim's ack settles it,
\* or the one Mac it was for is signed out.  No cancel, close or second claim takes it away.
LiveClaimHolds ==
  [][\A r \in dispatches :
       Pending(r) /\ r.token # 0 /\ r.claimAge < Ttl =>
         \/ Emptied
         \/ \E s \in dispatches' :
              /\ s.q = r.q /\ s.token = r.token
              /\ Pending(s) \/ s.ackedBy = r.token \/ r.to \in unswept]_inboxVars

\* A verdict is final: a settled row is never claimed, changed or settled again.  It only grows
\* old, and goes when a phone has had its time to read it.
VerdictIsFinal ==
  [][\A r \in dispatches :
       \/ Pending(r)
       \/ Emptied
       \/ r.settleAge >= Retention
       \/ \E s \in dispatches' : s.q = r.q /\ s.state = r.state /\ s.token = r.token]_inboxVars

\* What the inbox answers an ack of a settled row, by its token alone, is what happened: "recorded"
\* says this claim settled it.
RecordedIsTrue ==
  \A r \in dispatches, c \in claims :
    ~Pending(r) /\ r.token = c.token /\ r.q \in c.handed => r.ackedBy = c.token

=============================================================================
