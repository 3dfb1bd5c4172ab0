------------------------- MODULE DispatchInboxProofs -------------------------
(***************************************************************************)
(* What DispatchInbox's run shows for three answers to one approval,       *)
(* proved for every set of devices, requests, approvals and tokens, and    *)
(* whatever the limits.  Two properties need only a look at each action:   *)
(* what it may do to a settled row, and to a row under a live claim.       *)
(* ApprovalsAgree is not inductive, and Paired below is what makes it so.  *)
(***************************************************************************)
EXTENDS DispatchInbox, TLAPS

-----------------------------------------------------------------------------
(* Types. *)

Positions(ds) == {r.position : r \in ds}

\* Among any stored rows one is the last: there are finitely many, but that is all NextPosition asks.
HasLast == \A P \in SUBSET Positions(dispatches) : P # {} => \E m \in P : \A p \in P : p <= m

LEMMA NextPositionIsNew ==
  ASSUME TypeOK, HasLast, NEW ds \in SUBSET dispatches
  PROVE  /\ NextPosition(ds) \in Nat \ {0}
         /\ \A r \in ds : r.position < NextPosition(ds)
<1> DEFINE last(p) == p \in {0} \union Positions(ds) /\ \A r \in ds : r.position <= p
<1>1. Positions(ds) \in SUBSET Positions(dispatches)
  BY DEF Positions
<1>2. \A r \in ds : r.position \in Nat
  BY DEF TypeOK, Dispatch
<1>3. \E p : last(p)
  <2>1. CASE ds = {}
    BY <2>1
  <2>2. CASE ds # {}
    <3>1. Positions(ds) # {}
      BY <2>2 DEF Positions
    <3>2. PICK m \in Positions(ds) : \A p \in Positions(ds) : p <= m
      BY <1>1, <3>1 DEF HasLast
    <3>3. last(m)
      BY <3>2 DEF Positions
    <3> QED BY <3>3
  <2> QED BY <2>1, <2>2
<1> DEFINE top == CHOOSE p \in {0} \union {r.position : r \in ds} : \A r \in ds : r.position <= p
<1>4. top \in {0} \union {r.position : r \in ds} /\ \A r \in ds : r.position <= top
  BY <1>3 DEF Positions
<1>5. top \in Nat
  BY <1>2, <1>4
<1>6. NextPosition(ds) = 1 + top
  BY DEF NextPosition
<1> HIDE DEF top
<1> QED BY <1>2, <1>4, <1>5, <1>6

\* What a settle and a claim write of a row, and that they keep the rest.
LEMMA RowFields ==
  ASSUME NEW r \in Dispatch,
         NEW state \in {"delivered", "refused"}, NEW token \in Tokens \union {0}
  PROVE  /\ Settled(r, state, token) \in Dispatch
         /\ Settled(r, state, token).q = r.q
         /\ Settled(r, state, token).to = r.to
         /\ Settled(r, state, token).position = r.position
         /\ Settled(r, state, token).token = r.token
         /\ Settled(r, state, token).state = state
         /\ Settled(r, state, token).ackedBy = token
<1>1. Settled(r, state, token) =
        [f \in DOMAIN r |-> IF f = "state" THEN state ELSE IF f = "ackedBy" THEN token
                            ELSE IF f = "settleAge" THEN 0 ELSE r[f]]
  BY DEF Settled, Dispatch
<1>2. 0 \in 0 .. Retention
  BY InboxLimitsAssumption
<1> QED BY <1>1, <1>2 DEF Dispatch

LEMMA TakenFields ==
  ASSUME NEW r \in Dispatch, NEW token \in Tokens
  PROVE  /\ TakenBy(r, token) \in Dispatch
         /\ TakenBy(r, token).q = r.q
         /\ TakenBy(r, token).to = r.to
         /\ TakenBy(r, token).position = r.position
         /\ TakenBy(r, token).token = token
         /\ TakenBy(r, token).state = IF r.q.readable THEN r.state ELSE "refused"
<1> DEFINE held == [r EXCEPT !.token = token, !.claimAge = 0]
<1>1. held = [f \in DOMAIN r |-> IF f = "token" THEN token ELSE IF f = "claimAge" THEN 0 ELSE r[f]]
  BY DEF Dispatch
<1>2. 0 \in 0 .. Ttl
  BY InboxLimitsAssumption
<1>3. /\ held \in Dispatch
      /\ held.q = r.q /\ held.to = r.to /\ held.position = r.position
      /\ held.token = token /\ held.state = r.state
  BY <1>1, <1>2 DEF Dispatch
<1>4. TakenBy(r, token) = IF r.q.readable THEN held ELSE Settled(held, "refused", 0)
  BY DEF TakenBy
<1> HIDE DEF held
<1> QED BY <1>3, <1>4, RowFields

LEMMA NewDispatchType ==
  ASSUME TypeOK, HasLast, NEW ds \in SUBSET dispatches, NEW q \in Requests,
         NEW to \in Devices \union {"any"}, NEW state \in {"pending", "refused"}
  PROVE  NewDispatch(ds, q, to, state) \in Dispatch
BY NextPositionIsNew, InboxLimitsAssumption DEF NewDispatch, Dispatch

\* Approvals are closed and reopened one by one, and those not named stay as they are.
LEMMA ClosedFacts ==
  ASSUME NEW as \in SUBSET Approval, NEW names
  PROVE  /\ Closed(as, names) \in SUBSET Approval
         /\ \A y \in Closed(as, names) : \E x \in as :
              x.a = y.a /\ (IF x.a \in names THEN y.state = "closed" ELSE y = x)
         /\ \A x \in as : x.a \notin names => x \in Closed(as, names)
         /\ \A x \in as : x.a \in names => \E y \in Closed(as, names) : y.a = x.a
<1> DEFINE close(x) == [x EXCEPT !.state = "closed", !.age = 0]
           write(x) == IF x.a \in names /\ x.state # "closed" THEN close(x) ELSE x
<1>1. ASSUME NEW x \in Approval
      PROVE  close(x) \in Approval /\ close(x).a = x.a /\ close(x).state = "closed"
  <2>1. close(x) =
          [f \in DOMAIN x |-> IF f = "state" THEN "closed" ELSE IF f = "age" THEN 0 ELSE x[f]]
    BY DEF Approval
  <2>2. 0 \in 0 .. Retention
    BY InboxLimitsAssumption
  <2> QED BY <2>1, <2>2 DEF Approval
<1>2. Closed(as, names) = {write(x) : x \in as}
  BY DEF Closed
<1> HIDE DEF close
<1>3. \A x \in as : /\ write(x) \in Approval /\ write(x).a = x.a
                    /\ IF x.a \in names THEN write(x).state = "closed" ELSE write(x) = x
  BY <1>1
<1> QED BY <1>2, <1>3

LEMMA ReopenedFacts ==
  ASSUME NEW as \in SUBSET Approval, NEW names
  PROVE  /\ Reopened(as, names) \in SUBSET Approval
         /\ \A y \in Reopened(as, names) : \E x \in as :
              /\ x.a = y.a
              /\ IF x.a \in names /\ x.state = "answered" THEN y.state = "open" ELSE y = x
         /\ \A x \in as : x.a \notin names => x \in Reopened(as, names)
<1> DEFINE open(x) == [x EXCEPT !.state = "open"]
           write(x) == IF x.a \in names /\ x.state = "answered" THEN open(x) ELSE x
<1>1. \A x \in Approval : open(x) \in Approval /\ open(x).a = x.a /\ open(x).state = "open"
  BY DEF Approval
<1>2. Reopened(as, names) = {write(x) : x \in as}
  BY DEF Reopened
<1> HIDE DEF open
<1>3. \A x \in as : /\ write(x) \in Approval /\ write(x).a = x.a
                    /\ IF x.a \in names /\ x.state = "answered"
                         THEN write(x).state = "open" ELSE write(x) = x
  BY <1>1
<1> QED BY <1>2, <1>3

LEMMA FreshTokenType == FreshTokens # {} => NewToken \in Tokens /\ NewToken # 0
BY TokensAssumption DEF FreshTokens, NewToken

\* The ages of a row and of an approval, after a tick.
LEMMA TickFacts ==
  ASSUME TypeOK, Tick
  PROVE  /\ dispatches' \in SUBSET Dispatch
         /\ approvals' \in SUBSET Approval
         /\ \A s \in dispatches' : \E r \in dispatches :
              /\ s.q = r.q /\ s.to = r.to /\ s.token = r.token /\ s.state = r.state
              /\ s.ackedBy = r.ackedBy /\ s.position = r.position
         /\ \A r \in dispatches : \E s \in dispatches' :
              /\ s.q = r.q /\ s.to = r.to /\ s.token = r.token /\ s.state = r.state
              /\ s.ackedBy = r.ackedBy /\ s.position = r.position
         /\ \A y \in approvals' : \E x \in approvals : y.a = x.a /\ y.state = x.state
         /\ \A x \in approvals : \E y \in approvals' : y.a = x.a /\ y.state = x.state
         /\ \A s, t \in dispatches' : \E r, u \in dispatches :
              /\ s.q = r.q /\ s.state = r.state /\ t.q = u.q /\ t.state = u.state
              /\ r = u => s = t
         /\ \A y, z \in approvals' : \E x, w \in approvals :
              y.a = x.a /\ z.a = w.a /\ (x = w => y = z)
<1> DEFINE claimAge(r)  == IF r.token # 0 THEN Older(r.claimAge, Ttl) ELSE r.claimAge
           settleAge(r) == IF Pending(r) THEN r.settleAge ELSE Older(r.settleAge, Retention)
           aged(r) == [r EXCEPT !.claimAge = IF r.token # 0 THEN Older(@, Ttl) ELSE @,
                                !.settleAge = IF Pending(r) THEN @ ELSE Older(@, Retention)]
           agedOf(x) == [x EXCEPT !.age = IF x.state = "closed" THEN Older(@, Retention) ELSE @]
<1>1. Ttl \in Nat /\ Retention \in Nat
  BY InboxLimitsAssumption
<1>2. \A limit \in Nat : \A age \in 0 .. limit : Older(age, limit) \in 0 .. limit
  BY DEF Older
<1>3. ASSUME NEW r \in Dispatch
      PROVE  /\ aged(r) \in Dispatch
             /\ aged(r).q = r.q /\ aged(r).to = r.to /\ aged(r).token = r.token
             /\ aged(r).state = r.state /\ aged(r).ackedBy = r.ackedBy
             /\ aged(r).position = r.position
  <2>1. aged(r) = [f \in DOMAIN r |-> IF f = "claimAge" THEN claimAge(r)
                                      ELSE IF f = "settleAge" THEN settleAge(r) ELSE r[f]]
    BY DEF Dispatch
  <2>2. claimAge(r) \in 0 .. Ttl /\ settleAge(r) \in 0 .. Retention
    BY <1>1, <1>2 DEF Dispatch
  <2> HIDE DEF aged, claimAge, settleAge
  <2> QED BY <2>1, <2>2 DEF Dispatch
<1>4. ASSUME NEW x \in Approval
      PROVE  agedOf(x) \in Approval /\ agedOf(x).a = x.a /\ agedOf(x).state = x.state
  BY <1>1, <1>2 DEF Approval
<1>5. dispatches' = {aged(r) : r \in dispatches} /\ approvals' = {agedOf(x) : x \in approvals}
  BY DEF Tick
<1> HIDE DEF aged, agedOf
<1> QED BY <1>3, <1>4, <1>5 DEF TypeOK

LEMMA LateType == ASSUME TypeOK, NEW d, Calls(d) PROVE late' \in 0 .. MaxLate
BY InboxLimitsAssumption DEF TypeOK, Calls

\* What there is of positions stays, and at most one is added.
LEMMA LastStays ==
  ASSUME TypeOK, HasLast, NEW n \in Nat,
         Positions(dispatches)' \subseteq Positions(dispatches) \union {n}
  PROVE  HasLast'
<1>1. Positions(dispatches) \in SUBSET Nat
  BY DEF TypeOK, Dispatch, Positions
<1>2. SUFFICES ASSUME NEW P \in SUBSET (Positions(dispatches) \union {n}), P # {}
               PROVE  \E m \in P : \A p \in P : p <= m
  BY DEF HasLast
<1>3. CASE P \subseteq {n}
  <2>1. n \in P /\ \A p \in P : p = n
    BY <1>2, <1>3
  <2>2. n <= n
    OBVIOUS
  <2> QED BY <2>1, <2>2
<1>4. CASE ~(P \subseteq {n})
  <2>1. P \ {n} \in SUBSET Positions(dispatches) /\ P \ {n} # {}
    BY <1>4
  <2>2. PICK m \in P \ {n} : \A p \in P \ {n} : p <= m
    BY <2>1 DEF HasLast
  <2>3. CASE n \in P /\ m < n
    BY <1>1, <2>1, <2>2, <2>3
  <2>4. CASE n \notin P \/ n <= m
    BY <1>1, <2>1, <2>2, <2>4
  <2> QED BY <1>1, <2>1, <2>3, <2>4
<1> QED BY <1>3, <1>4

\* A step of the calls that create: the rows kept and one new.
LEMMA CreateTypes ==
  ASSUME TypeOK, HasLast, NEW q \in Requests, CreateWork(q) \/ CreateAnswer(q)
  PROVE  /\ dispatches' \in SUBSET Dispatch
         /\ approvals' \in SUBSET Approval
         /\ Positions(dispatches)' \subseteq
              Positions(dispatches) \union {NextPosition(KeptDispatches)}
<1>1. KeptDispatches \in SUBSET dispatches /\ KeptApprovals \in SUBSET approvals
  BY DEF KeptDispatches, KeptApprovals
<1> DEFINE new(to, state) == NewDispatch(KeptDispatches, q, to, state)
<1>2. \A to, state : new(to, state).position = NextPosition(KeptDispatches)
  BY DEF NewDispatch
<1>3. \A to \in Devices \union {"any"}, state \in {"pending", "refused"} : new(to, state) \in Dispatch
  BY <1>1, NewDispatchType
<1> HIDE DEF new
<1>4. CASE CreateWork(q)
  <2>1. dispatches' = KeptDispatches \union {new("any", "pending")} /\ approvals' = KeptApprovals
    BY <1>4 DEF CreateWork, new
  <2> QED BY <1>1, <1>2, <1>3, <2>1 DEF Positions, TypeOK
<1>5. CASE CreateAnswer(q)
  <2>1. PICK x \in AskedAs(q) :
          \/ /\ dispatches' = KeptDispatches \union {new(x.a.from, "pending")}
             /\ approvals' = (KeptApprovals \ {x}) \union {[x EXCEPT !.state = "answered"]}
          \/ /\ dispatches' = KeptDispatches \union {new(x.a.from, "refused")}
             /\ approvals' = KeptApprovals
    BY <1>5 DEF CreateAnswer, new
  <2>2. x \in Approval
    BY <1>1, <2>1 DEF AskedAs, TypeOK
  <2>3. x.a.from \in Devices /\ [x EXCEPT !.state = "answered"] \in Approval
    BY <2>2, ApprovalsAssumption DEF Approval
  <2> QED BY <1>1, <1>2, <1>3, <2>1, <2>3 DEF Positions, TypeOK
<1> QED BY <1>4, <1>5

\* The rows a claim takes keep their requests and their places.
LEMMA ClaimTypes ==
  ASSUME TypeOK, NEW d \in Devices, NEW kinds, Claim(d, kinds)
  PROVE  /\ dispatches' \in SUBSET Dispatch
         /\ approvals' \in SUBSET Approval
         /\ claims' \in SUBSET Claimed
         /\ Positions(dispatches)' \subseteq Positions(dispatches)
<1> DEFINE taken == FirstOf(Claimable(d, kinds))
<1>1. taken \in SUBSET KeptDispatches
  BY DEF FirstOf, Claimable
<1>2. KeptDispatches \in SUBSET dispatches /\ KeptApprovals \in SUBSET Approval
  BY DEF KeptDispatches, KeptApprovals, TypeOK
<1>3. approvals' \in SUBSET Approval
  BY <1>2, ClosedFacts DEF Claim
<1>4. CASE dispatches' = KeptDispatches /\ UNCHANGED claims
  BY <1>2, <1>3, <1>4 DEF TypeOK, Positions
<1>5. CASE FreshTokens # {} /\ dispatches' = (KeptDispatches \ taken)
                                             \union {TakenBy(r, NewToken) : r \in taken}
                            /\ claims' = claims \union
                                 {[token |-> NewToken, by |-> d,
                                   handed |-> {r.q : r \in {s \in taken : s.q.readable}}]}
  <2>1. NewToken \in Tokens
    BY <1>5, FreshTokenType
  <2>2. \A r \in taken : /\ TakenBy(r, NewToken) \in Dispatch
                         /\ TakenBy(r, NewToken).position = r.position
    BY <1>1, <1>2, <2>1, TakenFields DEF TypeOK
  <2>3. \A r \in taken : r.q \in Requests
    BY <1>1, <1>2 DEF TypeOK, Dispatch
  <2>4. claims' \in SUBSET Claimed
    BY <1>5, <2>1, <2>3 DEF TypeOK, Claimed
  <2> HIDE DEF taken
  <2> QED BY <1>1, <1>2, <1>3, <1>5, <2>2, <2>4 DEF TypeOK, Positions
<1> QED BY <1>4, <1>5 DEF Claim

\* Any other call, and time: rows settled or aged, none new.
LEMMA OtherTypes ==
  ASSUME TypeOK,
         \/ \E q \in Requests : CreateNothing(q) \/ Cancel(q)
         \/ \E c \in claims : \E qs \in SUBSET c.handed : \E delivered \in SUBSET qs :
              Ack(c, qs, delivered)
         \/ \E a \in Approvals : OpenApproval(a) \/ CloseApproval(a)
         \/ \E d \in Devices : Forget(d)
         \/ Emptied
         \/ Tick
  PROVE  /\ dispatches' \in SUBSET Dispatch
         /\ approvals' \in SUBSET Approval
         /\ Positions(dispatches)' \subseteq Positions(dispatches)
<1> DEFINE Done == /\ dispatches' \in SUBSET Dispatch
                   /\ approvals' \in SUBSET Approval
                   /\ Positions(dispatches)' \subseteq Positions(dispatches)
<1>1. dispatches \in SUBSET Dispatch /\ approvals \in SUBSET Approval
  BY DEF TypeOK
<1>2. KeptDispatches \in SUBSET dispatches /\ KeptApprovals \in SUBSET approvals
  BY DEF KeptDispatches, KeptApprovals
<1>3. ASSUME NEW q \in Requests, CreateNothing(q)
      PROVE  Done
  BY <1>1, <1>2, <1>3 DEF CreateNothing, Positions
<1>4. ASSUME NEW q \in Requests, Cancel(q)
      PROVE  Done
  BY <1>1, <1>4, ReopenedFacts DEF Cancel, Positions
<1>5. ASSUME NEW c \in claims, NEW qs \in SUBSET c.handed, NEW delivered \in SUBSET qs,
             Ack(c, qs, delivered)
      PROVE  Done
  <2> DEFINE taken == Ackable(c, qs)
             verdict(r) == IF r.q \in delivered THEN "delivered" ELSE "refused"
  <2>1. taken \in SUBSET dispatches
    BY DEF Ackable
  <2>2. c.token \in Tokens
    BY DEF TypeOK, Claimed
  <2>3. \A r \in taken : /\ Settled(r, verdict(r), c.token) \in Dispatch
                         /\ Settled(r, verdict(r), c.token).position = r.position
    BY <1>1, <2>1, <2>2, RowFields
  <2>4. dispatches' = (dispatches \ taken) \union {Settled(r, verdict(r), c.token) : r \in taken}
    BY <1>5 DEF Ack
  <2>5. approvals' \in SUBSET Approval
    BY <1>1, <1>5, ClosedFacts DEF Ack
  <2> HIDE DEF taken, verdict
  <2> QED BY <1>1, <2>1, <2>3, <2>4, <2>5 DEF Positions
<1>6. ASSUME NEW a \in Approvals, OpenApproval(a)
      PROVE  Done
  <2>1. [a |-> a, state |-> "open", age |-> 0] \in Approval
    BY InboxLimitsAssumption DEF Approval
  <2> QED BY <1>1, <1>2, <1>6, <2>1 DEF OpenApproval, Positions
<1>7. ASSUME NEW ds \in SUBSET dispatches, NEW refused \in SUBSET ds,
             dispatches' = (ds \ refused) \union {Settled(r, "refused", 0) : r \in refused}
      PROVE  /\ dispatches' \in SUBSET Dispatch
             /\ Positions(dispatches)' \subseteq Positions(dispatches)
  BY <1>1, <1>7, RowFields DEF Positions
<1>8. ASSUME NEW a \in Approvals, CloseApproval(a)
      PROVE  Done
  <2>1. WaitingAnswers(a) \in SUBSET dispatches
    BY DEF WaitingAnswers
  <2>2. dispatches' = (dispatches \ WaitingAnswers(a))
                        \union {Settled(r, "refused", 0) : r \in WaitingAnswers(a)}
    BY <1>8 DEF CloseApproval
  <2>3. approvals' = Closed(approvals, {a})
    BY <1>8 DEF CloseApproval
  <2>4. approvals' \in SUBSET Approval
    BY <1>1, <2>3, ClosedFacts
  <2>5. dispatches \in SUBSET dispatches
    OBVIOUS
  <2> QED BY <1>7, <2>1, <2>2, <2>4, <2>5
<1>9. ASSUME NEW d \in Devices, Forget(d)
      PROVE  Done
  <2> DEFINE withdrawn == {r \in dispatches : r.q.from = d /\ Waiting(r)}
             left      == dispatches \ withdrawn
             refused   == {r \in left : r.to = d /\ Pending(r)}
  <2>1. dispatches' = (left \ refused) \union {Settled(r, "refused", 0) : r \in refused}
    BY <1>9 DEF Forget
  <2> DEFINE reopened == Reopened(approvals, AnsweredBy(withdrawn))
  <2>2. approvals' \in SUBSET Approval
    <3>1. approvals' = Closed(reopened, {x.a : x \in {y \in approvals : y.a.from = d}})
      BY <1>9 DEF Forget
    <3>2. reopened \in SUBSET Approval
      BY <1>1, ReopenedFacts
    <3> HIDE DEF reopened
    <3> QED BY <3>1, <3>2, ClosedFacts
  <2>3. left \in SUBSET dispatches /\ refused \in SUBSET left
    OBVIOUS
  <2> HIDE DEF left, refused
  <2> QED BY <1>7, <2>1, <2>2, <2>3
<1>10. CASE Emptied
  BY <1>10 DEF Emptied, Positions
<1>11. CASE Tick
  <2>1. /\ dispatches' \in SUBSET Dispatch /\ approvals' \in SUBSET Approval
        /\ \A s \in dispatches' : \E r \in dispatches : s.position = r.position
    BY <1>11, TickFacts
  <2> QED BY <2>1 DEF Positions
<1> QED BY <1>3, <1>4, <1>5, <1>6, <1>8, <1>9, <1>10, <1>11

\* The tables are typed to begin with,
LEMMA InitTypes ==
  ASSUME Init
  PROVE  TypeOK /\ HasLast
<1>1. TypeOK
  <2>1. late \in 0 .. MaxLate
    BY InboxLimitsAssumption DEF Init
  <2>2. unswept \subseteq Devices \ valid /\ valid \subseteq Devices
    BY Zenon DEF Init
  <2>3. dispatches \subseteq Dispatch /\ approvals \subseteq Approval /\ claims \subseteq Claimed
    BY Zenon DEF Init
  <2> QED BY <2>1, <2>2, <2>3, Zenon DEF Init, TypeOK
<1>2. Positions(dispatches) = {}
  BY DEF Init, Positions
<1> QED BY <1>1, <1>2 DEF HasLast

\* and every step keeps them so.
LEMMA StepTypes ==
  ASSUME TypeOK, HasLast, [Next]_inboxVars
  PROVE  TypeOK' /\ HasLast'
<1> DEFINE Rest == /\ gone' \in BOOLEAN
                   /\ shut' \in SUBSET Approvals
                   /\ valid' \in SUBSET Devices
                   /\ unswept' \in SUBSET (Devices \ valid')
                   /\ late' \in 0 .. MaxLate
<1>1. KeptDispatches \in SUBSET dispatches
  BY DEF KeptDispatches
<1>2. ASSUME /\ dispatches' \in SUBSET Dispatch /\ approvals' \in SUBSET Approval
             /\ Positions(dispatches)' \subseteq Positions(dispatches)
             /\ claims' \in SUBSET Claimed /\ Rest
      PROVE  TypeOK' /\ HasLast'
  BY <1>2, LastStays DEF TypeOK
<1>3. ASSUME NEW q \in Requests, CreateNothing(q) \/ Cancel(q)
      PROVE  TypeOK' /\ HasLast'
  BY <1>2, <1>3, OtherTypes, LateType, RequestsAssumption DEF CreateNothing, Cancel, TypeOK
<1>4. ASSUME NEW q \in Requests, CreateWork(q) \/ CreateAnswer(q)
      PROVE  TypeOK' /\ HasLast'
  <2>1. /\ dispatches' \in SUBSET Dispatch /\ approvals' \in SUBSET Approval
        /\ Positions(dispatches)' \subseteq
             Positions(dispatches) \union {NextPosition(KeptDispatches)}
    BY <1>4, CreateTypes
  <2>2. HasLast'
    BY <1>1, <2>1, NextPositionIsNew, LastStays
  <2>3. late' \in 0 .. MaxLate
    BY <1>4, LateType DEF CreateWork, CreateAnswer, Creates
  <2> QED BY <1>4, <2>1, <2>2, <2>3 DEF CreateWork, CreateAnswer, Creates, TypeOK
<1>5. ASSUME NEW d \in Devices, NEW kinds, Claim(d, kinds)
      PROVE  TypeOK' /\ HasLast'
  <2>1. late' \in 0 .. MaxLate
    BY <1>5, LateType DEF Claim
  <2>2. Rest
    BY <1>5, <2>1 DEF Claim, TypeOK
  <2> QED BY <1>2, <1>5, <2>2, ClaimTypes
<1>6. ASSUME NEW c \in claims, NEW qs \in SUBSET c.handed, NEW delivered \in SUBSET qs,
             Ack(c, qs, delivered)
      PROVE  TypeOK' /\ HasLast'
  <2>1. late' \in 0 .. MaxLate
    BY <1>6, LateType DEF Ack
  <2> QED BY <1>2, <1>6, <2>1, OtherTypes DEF Ack, TypeOK
<1>7. ASSUME NEW c \in claims, LetGo(c)
      PROVE  TypeOK' /\ HasLast'
  BY <1>2, <1>7 DEF LetGo, TypeOK, Positions
<1>8. ASSUME NEW a \in Approvals, OpenApproval(a) \/ CloseApproval(a)
      PROVE  TypeOK' /\ HasLast'
  <2>1. late' \in 0 .. MaxLate
    BY <1>8, LateType DEF OpenApproval, CloseApproval
  <2> QED BY <1>2, <1>8, <2>1, OtherTypes DEF OpenApproval, CloseApproval, TypeOK
<1>9. ASSUME NEW d \in Devices, Revoke(d)
      PROVE  TypeOK' /\ HasLast'
  BY <1>2, <1>9 DEF Revoke, TypeOK, Positions
<1>10. ASSUME NEW d \in Devices, Forget(d)
       PROVE  TypeOK' /\ HasLast'
  BY <1>2, <1>10, OtherTypes DEF Forget, TypeOK
<1>11. CASE Purge \/ ReplaceTables
  BY <1>2, <1>11, OtherTypes DEF Purge, ReplaceTables, Emptied, TypeOK
<1>12. CASE Tick
  BY <1>2, <1>12, OtherTypes DEF Tick, TypeOK
<1>13. CASE UNCHANGED inboxVars
  BY <1>2, <1>13 DEF inboxVars, TypeOK, Positions
<1> QED BY <1>3, <1>4, <1>5, <1>6, <1>7, <1>8, <1>9, <1>10, <1>11, <1>12, <1>13 DEF Next

\* The types of the two tables, and that a rowid can always be found.
THEOREM TypeCorrect == Spec => [](TypeOK /\ HasLast)
<1>1. Init => TypeOK /\ HasLast
  BY InitTypes
<1>2. TypeOK /\ HasLast /\ [Next]_inboxVars => TypeOK' /\ HasLast'
  BY StepTypes
<1> QED BY <1>1, <1>2, PTL DEF Spec

-----------------------------------------------------------------------------
(* What no call takes away. *)

\* Whatever happens, a row that does not wait, and that no prune drops, stays as it is; or an ack of
\* the claim it is under settles it; or the Mac it was for is signed out; or time passes.
LEMMA NotWaitingStays ==
  ASSUME TypeOK, Next, NEW r \in dispatches, ~Waiting(r), Pending(r) \/ r.settleAge < Retention
  PROVE  \/ r \in dispatches'
         \/ Emptied
         \/ Tick
         \/ /\ Pending(r)
            /\ \E s \in dispatches' : s.q = r.q /\ s.token = r.token /\ s.ackedBy = r.token
         \/ /\ Pending(r) /\ r.to \in unswept
            /\ \E s \in dispatches' : s.q = r.q /\ s.token = r.token
<1> DEFINE Stays == r \in dispatches'
           AckedNow == /\ Pending(r)
                       /\ \E s \in dispatches' :
                            s.q = r.q /\ s.token = r.token /\ s.ackedBy = r.token
           SignedOut == /\ Pending(r) /\ r.to \in unswept
                        /\ \E s \in dispatches' : s.q = r.q /\ s.token = r.token
<1>1. r \in Dispatch /\ r \in KeptDispatches
  BY DEF TypeOK, KeptDispatches
<1>2. ASSUME NEW q \in Requests, CreateNothing(q) \/ CreateWork(q) \/ CreateAnswer(q) \/ Cancel(q)
      PROVE  Stays
  BY <1>1, <1>2 DEF CreateNothing, CreateWork, CreateAnswer, Cancel
<1>3. ASSUME NEW d \in Devices, NEW kinds, Claim(d, kinds)
      PROVE  Stays
  <2>1. r \notin FirstOf(Claimable(d, kinds))
    BY DEF FirstOf, Claimable
  <2> QED BY <1>1, <1>3, <2>1 DEF Claim
<1>4. ASSUME NEW c \in claims, NEW qs \in SUBSET c.handed, NEW delivered \in SUBSET qs,
             Ack(c, qs, delivered)
      PROVE  Stays \/ AckedNow
  <2> DEFINE verdict(s) == IF s.q \in delivered THEN "delivered" ELSE "refused"
  <2>1. dispatches' = (dispatches \ Ackable(c, qs))
                        \union {Settled(s, verdict(s), c.token) : s \in Ackable(c, qs)}
    BY <1>4 DEF Ack
  <2>2. c.token \in Tokens /\ verdict(r) \in {"delivered", "refused"}
    BY DEF TypeOK, Claimed
  <2>3. CASE r \in Ackable(c, qs)
    <3>1. Pending(r) /\ r.token = c.token
      BY <2>3 DEF Ackable
    <3>2. /\ Settled(r, verdict(r), c.token).q = r.q
          /\ Settled(r, verdict(r), c.token).token = r.token
          /\ Settled(r, verdict(r), c.token).ackedBy = c.token
      BY <1>1, <2>2, RowFields
    <3>3. Settled(r, verdict(r), c.token) \in dispatches'
      BY <2>1, <2>3
    <3> HIDE DEF verdict
    <3> QED BY <3>1, <3>2, <3>3
  <2>4. CASE r \notin Ackable(c, qs)
    BY <2>1, <2>4
  <2> QED BY <2>3, <2>4
<1>5. ASSUME NEW a \in Approvals, OpenApproval(a) \/ CloseApproval(a)
      PROVE  Stays
  BY <1>1, <1>5 DEF OpenApproval, CloseApproval, WaitingAnswers
<1>6. ASSUME NEW d \in Devices, Forget(d)
      PROVE  Stays \/ SignedOut
  <2> DEFINE withdrawn == {s \in dispatches : s.q.from = d /\ Waiting(s)}
             left      == dispatches \ withdrawn
             refused   == {s \in left : s.to = d /\ Pending(s)}
  <2>1. dispatches' = (left \ refused) \union {Settled(s, "refused", 0) : s \in refused}
    BY <1>6 DEF Forget
  <2>2. r \in left /\ d \in unswept
    BY <1>6 DEF Forget
  <2>3. CASE r \in refused
    <3>1. /\ Settled(r, "refused", 0).q = r.q
          /\ Settled(r, "refused", 0).token = r.token
      BY <1>1, RowFields
    <3>2. Settled(r, "refused", 0) \in dispatches'
      BY <2>1, <2>3
    <3>3. Pending(r) /\ r.to = d
      BY <2>3
    <3> QED BY <2>2, <3>1, <3>2, <3>3
  <2>4. CASE r \notin refused
    BY <2>1, <2>2, <2>4
  <2> QED BY <2>3, <2>4
<1>7. ASSUME \/ \E c \in claims : LetGo(c)
             \/ \E d \in Devices : Revoke(d)
      PROVE  Stays
  BY <1>7 DEF LetGo, Revoke
<1>8. Purge \/ ReplaceTables => Emptied
  BY DEF Purge, ReplaceTables
<1> HIDE DEF Stays, AckedNow, SignedOut
<1>9. Stays \/ Emptied \/ Tick \/ AckedNow \/ SignedOut
  BY <1>2, <1>3, <1>4, <1>5, <1>6, <1>7, <1>8 DEF Next
<1> QED BY <1>9 DEF Stays, AckedNow, SignedOut

\* A request the inbox has settled is never claimed, changed or settled again: a phone that reads a
\* verdict reads the verdict, however late an ack, a close or a sign-out of its Mac comes.
THEOREM VerdictStands == Spec => VerdictIsFinal
<1> DEFINE Final == \A r \in dispatches :
                      \/ Pending(r)
                      \/ Emptied
                      \/ r.settleAge >= Retention
                      \/ \E s \in dispatches' :
                           s.q = r.q /\ s.state = r.state /\ s.token = r.token
<1>1. TypeOK /\ [Next]_inboxVars => [Final]_inboxVars
  <2> SUFFICES ASSUME TypeOK, Next, NEW r \in dispatches,
                      ~Pending(r), ~Emptied, ~(r.settleAge >= Retention)
               PROVE  \E s \in dispatches' :
                        s.q = r.q /\ s.state = r.state /\ s.token = r.token
    OBVIOUS
  <2>1. r.settleAge < Retention
    BY InboxLimitsAssumption DEF TypeOK, Dispatch
  <2>2. r \in dispatches' \/ Tick
    BY <2>1, NotWaitingStays DEF Waiting
  <2> QED BY <2>2, TickFacts
<1> QED BY <1>1, TypeCorrect, PTL DEF Spec, VerdictIsFinal

\* A Mac that holds a request keeps it: while its claim is live no cancel, no close, no second claim
\* and no sign-out of another device takes the request from under it.
THEOREM ClaimsHold == Spec => LiveClaimHolds
<1> DEFINE Holds == \A r \in dispatches :
                      Pending(r) /\ r.token # 0 /\ r.claimAge < Ttl =>
                        \/ Emptied
                        \/ \E s \in dispatches' :
                             /\ s.q = r.q /\ s.token = r.token
                             /\ Pending(s) \/ s.ackedBy = r.token \/ r.to \in unswept
<1>1. TypeOK /\ [Next]_inboxVars => [Holds]_inboxVars
  <2> SUFFICES ASSUME TypeOK, Next, NEW r \in dispatches,
                      Pending(r), r.token # 0, r.claimAge < Ttl, ~Emptied
               PROVE  \E s \in dispatches' :
                        /\ s.q = r.q /\ s.token = r.token
                        /\ Pending(s) \/ s.ackedBy = r.token \/ r.to \in unswept
    OBVIOUS
  <2>1. ~Waiting(r)
    BY InboxLimitsAssumption DEF Waiting, Lapsed, TypeOK, Dispatch
  <2>2. CASE Tick
    <3>1. PICK s \in dispatches' :
            s.q = r.q /\ s.token = r.token /\ s.state = r.state
      BY <2>2, TickFacts
    <3> QED BY <3>1 DEF Pending
  <2>3. CASE ~Tick
    BY <2>1, <2>3, NotWaitingStays
  <2> QED BY <2>2, <2>3
<1> QED BY <1>1, TypeCorrect, PTL DEF Spec, LiveClaimHolds

-----------------------------------------------------------------------------
(* The two tables agree. *)

\* The answers on their way.
Answers == {r \in dispatches : Pending(r) /\ r.q.kind = "answer"}

\* What makes ApprovalsAgree inductive.  An approval has one row; an answer waits for the Mac that
\* asked, so that a sign-out of that Mac finds it; and while one is on its way its approval is still
\* answered, or its Mac has closed it and never asks it again, so that no approval is opened over it.
Paired ==
  /\ ApprovalsAgree
  /\ \A x, y \in approvals : x.a = y.a => x = y
  /\ \A r \in Answers : r.to = r.q.approval.from
  /\ \A r \in Answers : \/ \E x \in approvals : x.a = r.q.approval /\ x.state = "answered"
                        \/ r.q.approval \in shut

\* A step adds no answer, and takes away only answers to the approvals of some names.
AnswersLeave(names) ==
  /\ \A s \in Answers' : \E r \in Answers : r.q = s.q /\ r.to = s.to
  /\ \A s \in Answers' : s.q.approval \notin names \/ s.q.approval \in shut'
  /\ \A s, t \in Answers' : s.q.approval = t.q.approval => s = t
  /\ \A r \in Answers : r.q.approval \notin names => \E s \in Answers' : s.q = r.q

\* A step closes approvals, and opens again some whose answer went; the approvals of the names are
\* answered no more, and any other that was answered still is.
MarksLeave(names) ==
  /\ \A y \in approvals' : \E x \in approvals :
       /\ x.a = y.a
       /\ \/ y.state = x.state
          \/ y.state = "closed"
          \/ y.state = "open" /\ \A s \in Answers' : s.q.approval # y.a
  /\ \A y \in approvals' : y.state = "answered" => y.a \notin names
  /\ \A x \in approvals : x.state = "answered" /\ x.a \notin names =>
       \E y \in approvals' : y.a = x.a /\ y.state = "answered"
  /\ \A x, y \in approvals' : x.a = y.a => x = y

\* A step keeps the tables paired when the answers it takes away take the marks of their approvals
\* along.
LEMMA PairsKept ==
  ASSUME Paired, shut \subseteq shut', NEW names, AnswersLeave(names), MarksLeave(names)
  PROVE  Paired'
<1>1. \A a : PendingAnswers(a) = {r \in Answers : r.q.approval = a}
  BY DEF PendingAnswers, Answers
<1>2. \A a : PendingAnswers(a)' = {r \in Answers' : r.q.approval = a}
  BY DEF PendingAnswers, Answers
<1>3. \A y \in approvals' : y.state = "answered" => PendingAnswers(y.a)' # {}
  <2> SUFFICES ASSUME NEW y \in approvals', y.state = "answered"
               PROVE  \E s \in Answers' : s.q.approval = y.a
    BY <1>2
  <2>1. y.a \notin names /\ \E x \in approvals : x.a = y.a /\ x.state = "answered"
    BY DEF MarksLeave
  <2>2. PendingAnswers(y.a) # {}
    BY <2>1 DEF Paired, ApprovalsAgree
  <2>3. PICK r \in Answers : r.q.approval = y.a
    BY <1>1, <2>2
  <2> QED BY <2>1, <2>3 DEF AnswersLeave
<1>4. \A y \in approvals' : y.state = "open" => PendingAnswers(y.a)' = {}
  <2> SUFFICES ASSUME NEW y \in approvals', y.state = "open", NEW s \in Answers', s.q.approval = y.a
               PROVE  FALSE
    BY <1>2
  <2>1. \E x \in approvals : x.a = y.a /\ x.state = "open"
    BY DEF MarksLeave
  <2>2. PendingAnswers(y.a) = {}
    BY <2>1 DEF Paired, ApprovalsAgree
  <2>3. PICK r \in Answers : r.q = s.q
    BY DEF AnswersLeave
  <2> QED BY <1>1, <2>2, <2>3
<1>5. ApprovalsAgree'
  <2>1. \A r, s \in dispatches' :
          /\ Pending(r) /\ Pending(s)
          /\ r.q.kind = "answer" /\ s.q.kind = "answer" /\ r.q.approval = s.q.approval
          => r = s
    BY DEF AnswersLeave, Answers, Pending
  <2> QED BY <1>3, <1>4, <2>1 DEF ApprovalsAgree, Pending
<1>6. \A s \in Answers' : s.to = s.q.approval.from
  BY DEF AnswersLeave, Paired
<1>7. \A s \in Answers' : \/ \E y \in approvals' : y.a = s.q.approval /\ y.state = "answered"
                          \/ s.q.approval \in shut'
  <2> SUFFICES ASSUME NEW s \in Answers', s.q.approval \notin shut'
               PROVE  \E y \in approvals' : y.a = s.q.approval /\ y.state = "answered"
    OBVIOUS
  <2>1. PICK r \in Answers : r.q = s.q
    BY DEF AnswersLeave
  <2>2. PICK x \in approvals : x.a = s.q.approval /\ x.state = "answered"
    BY <2>1 DEF Paired
  <2>3. s.q.approval \notin names
    BY DEF AnswersLeave
  <2> QED BY <2>2, <2>3 DEF MarksLeave
<1>8. \A x, y \in approvals' : x.a = y.a => x = y
  BY DEF MarksLeave
<1> QED BY <1>5, <1>6, <1>7, <1>8 DEF Paired

\* To close or reopen approvals leaves one row each.
LEMMA OneRowEach ==
  ASSUME NEW as \in SUBSET Approval, NEW names, \A x, y \in as : x.a = y.a => x = y
  PROVE  /\ \A x, y \in Closed(as, names) : x.a = y.a => x = y
         /\ \A x, y \in Reopened(as, names) : x.a = y.a => x = y
<1> DEFINE close(x) == [x EXCEPT !.state = "closed", !.age = 0]
           open(x)  == [x EXCEPT !.state = "open"]
           closing(x) == IF x.a \in names /\ x.state # "closed" THEN close(x) ELSE x
           opening(x) == IF x.a \in names /\ x.state = "answered" THEN open(x) ELSE x
<1>1. \A x \in Approval : open(x).a = x.a
  BY DEF Approval
<1>2. ASSUME NEW x \in Approval PROVE close(x).a = x.a
  <2>1. close(x) =
          [f \in DOMAIN x |-> IF f = "state" THEN "closed" ELSE IF f = "age" THEN 0 ELSE x[f]]
    BY DEF Approval
  <2> QED BY <2>1 DEF Approval
<1>3. Closed(as, names) = {closing(x) : x \in as} /\ Reopened(as, names) = {opening(x) : x \in as}
  BY DEF Closed, Reopened
<1> HIDE DEF close, open
<1>4. \A x \in as : closing(x).a = x.a /\ opening(x).a = x.a
  BY <1>1, <1>2
<1> HIDE DEF closing, opening
<1>5. \A x, y \in Closed(as, names) : \E u, w \in as : x = closing(u) /\ y = closing(w)
  BY <1>3
<1>6. \A x, y \in Reopened(as, names) : \E u, w \in as : x = opening(u) /\ y = opening(w)
  BY <1>3
<1>7. \A x, y \in Closed(as, names) : x.a = y.a => x = y
  <2> SUFFICES ASSUME NEW x \in Closed(as, names), NEW y \in Closed(as, names), x.a = y.a
               PROVE  x = y
    OBVIOUS
  <2>1. PICK u \in as, w \in as : x = closing(u) /\ y = closing(w)
    BY <1>5
  <2>2. u.a = w.a
    BY <1>4, <2>1
  <2> QED BY <2>1, <2>2
<1>8. \A x, y \in Reopened(as, names) : x.a = y.a => x = y
  <2> SUFFICES ASSUME NEW x \in Reopened(as, names), NEW y \in Reopened(as, names), x.a = y.a
               PROVE  x = y
    OBVIOUS
  <2>1. PICK u \in as, w \in as : x = opening(u) /\ y = opening(w)
    BY <1>6
  <2>2. u.a = w.a
    BY <1>4, <2>1
  <2> QED BY <2>1, <2>2
<1> QED BY <1>7, <1>8

\* A step that takes some answers off their way and touches the approvals of these alone.  An answer
\* that is left has another approval, or one its Mac has closed.
LEMMA PairedWhenTaken ==
  ASSUME TypeOK, Paired, shut \subseteq shut', NEW taken,
         Answers' = Answers \ taken,
         NEW as \in SUBSET approvals, \A x \in approvals : x.state = "closed" \/ x \in as,
         NEW names, \A r \in Answers : r \in taken => r.q.approval \in names,
         \/ approvals' = Closed(as, names)
         \/ /\ approvals' = Reopened(as, names)
            /\ \A s \in Answers' : s.q.approval \notin names,
         \A s \in Answers' : s.q.approval \notin names \/ s.q.approval \in shut'
  PROVE  Paired'
<1>1. as \in SUBSET Approval /\ \A x, y \in as : x.a = y.a => x = y
  BY DEF TypeOK, Paired
<1>2. AnswersLeave(names)
  <2>1. \A s, t \in Answers' : s.q.approval = t.q.approval => s = t
    BY DEF Answers, Paired, ApprovalsAgree
  <2> QED BY <2>1 DEF AnswersLeave
<1>3. ASSUME approvals' = Closed(as, names)
      PROVE  MarksLeave(names)
  <2>1. \A y \in approvals' : \E x \in as :
          x.a = y.a /\ (IF x.a \in names THEN y.state = "closed" ELSE y = x)
    BY <1>1, <1>3, ClosedFacts
  <2>2. \A x \in as : x.a \notin names => x \in approvals'
    BY <1>1, <1>3, ClosedFacts
  <2>3. \A x, y \in approvals' : x.a = y.a => x = y
    BY <1>1, <1>3, OneRowEach
  <2> QED BY <2>1, <2>2, <2>3 DEF MarksLeave
<1>4. ASSUME approvals' = Reopened(as, names), \A s \in Answers' : s.q.approval \notin names
      PROVE  MarksLeave(names)
  <2>1. \A y \in approvals' : \E x \in as :
          /\ x.a = y.a
          /\ IF x.a \in names /\ x.state = "answered" THEN y.state = "open" ELSE y = x
    <3>1. \A y \in Reopened(as, names) : \E x \in as :
            /\ x.a = y.a
            /\ IF x.a \in names /\ x.state = "answered" THEN y.state = "open" ELSE y = x
      BY <1>1, ReopenedFacts
    <3> QED BY <1>4, <3>1
  <2>2. \A x \in as : x.a \notin names => x \in approvals'
    BY <1>1, <1>4, ReopenedFacts
  <2>3. \A x, y \in approvals' : x.a = y.a => x = y
    BY <1>1, <1>4, OneRowEach
  <2> QED BY <1>4, <2>1, <2>2, <2>3 DEF MarksLeave
<1>5. MarksLeave(names)
  BY <1>3, <1>4
<1> QED BY <1>2, <1>5, PairsKept

\* A prune drops neither an answer on its way nor an approval not yet closed.
LEMMA PruneKeeps ==
  /\ {r \in KeptDispatches : Pending(r) /\ r.q.kind = "answer"} = Answers
  /\ KeptApprovals \in SUBSET approvals
  /\ \A x \in approvals : x.state = "closed" \/ x \in KeptApprovals
BY DEF KeptDispatches, KeptApprovals, Answers

\* A step that prunes and changes no answer.
LEMMA PairedWhenPruned ==
  ASSUME TypeOK, Paired, shut \subseteq shut', Answers' = Answers,
         approvals' = KeptApprovals \/ approvals' = approvals
  PROVE  Paired'
<1> DEFINE names == {}
<1>1. approvals' \in SUBSET approvals /\ \A x \in approvals : x.state = "closed" \/ x \in approvals'
  BY PruneKeeps
<1>2. \A s, t \in Answers : s.q.approval = t.q.approval => s = t
  BY DEF Answers, Paired, ApprovalsAgree
<1>3. AnswersLeave(names)
  BY <1>2 DEF AnswersLeave
<1>4. MarksLeave(names)
  BY <1>1 DEF MarksLeave, Paired
<1> HIDE DEF names
<1> QED BY <1>3, <1>4, PairsKept

\* The calls of the phone.
LEMMA PhoneKeepsPairs ==
  ASSUME TypeOK, HasLast, Paired, NEW q \in Requests,
         CreateNothing(q) \/ CreateWork(q) \/ CreateAnswer(q) \/ Cancel(q)
  PROVE  Paired'
<1> DEFINE new(to, state) == NewDispatch(KeptDispatches, q, to, state)
<1>1. \A to, state : /\ new(to, state).q = q /\ new(to, state).to = to
                     /\ new(to, state).state = state
  BY DEF NewDispatch
<1> HIDE DEF new
<1>2. CASE CreateNothing(q)
  <2>1. dispatches' = KeptDispatches /\ approvals' = KeptApprovals /\ shut' = shut
    BY <1>2 DEF CreateNothing
  <2>2. Answers' = Answers
    BY <2>1, PruneKeeps DEF Answers, Pending
  <2> QED BY <2>1, <2>2, PairedWhenPruned
<1>3. CASE CreateWork(q)
  <2>1. /\ dispatches' = KeptDispatches \union {new("any", "pending")}
        /\ approvals' = KeptApprovals /\ shut' = shut /\ q.kind # "answer"
    BY <1>3 DEF CreateWork, Creates, new
  <2>2. Answers' = Answers
    BY <1>1, <2>1, PruneKeeps DEF Answers, Pending
  <2> QED BY <2>1, <2>2, PairedWhenPruned
<1>4. CASE CreateAnswer(q)
  <2>1. PICK x \in AskedAs(q) :
          \/ /\ x.state = "open"
             /\ dispatches' = KeptDispatches \union {new(x.a.from, "pending")}
             /\ approvals' = (KeptApprovals \ {x}) \union {[x EXCEPT !.state = "answered"]}
          \/ /\ dispatches' = KeptDispatches \union {new(x.a.from, "refused")}
             /\ approvals' = KeptApprovals
    BY <1>4 DEF CreateAnswer, new
  <2>2. shut' = shut /\ q.kind = "answer" /\ x \in KeptApprovals /\ x.a = q.approval
    BY <1>4 DEF CreateAnswer, Creates, AskedAs
  <2>3. CASE /\ dispatches' = KeptDispatches \union {new(x.a.from, "refused")}
             /\ approvals' = KeptApprovals
    <3>1. Answers' = Answers
      BY <1>1, <2>3, PruneKeeps DEF Answers, Pending
    <3> QED BY <2>2, <2>3, <3>1, PairedWhenPruned
  <2>4. CASE /\ x.state = "open"
             /\ dispatches' = KeptDispatches \union {new(x.a.from, "pending")}
             /\ approvals' = (KeptApprovals \ {x}) \union {[x EXCEPT !.state = "answered"]}
    <3> DEFINE row == new(x.a.from, "pending")
               y == [x EXCEPT !.state = "answered"]
    <3>1. row.q = q /\ row.to = x.a.from
      BY <1>1
    <3>2. Answers' = Answers \union {row}
      BY <1>1, <2>2, <2>4, PruneKeeps DEF Answers, Pending
    <3>3. y.a = x.a /\ y.state = "answered"
      BY <2>2, PruneKeeps DEF TypeOK, Approval
    <3>4. approvals' = (KeptApprovals \ {x}) \union {y}
      BY <2>4
    <3> HIDE DEF row, y
    <3>5. \A r \in Answers : r.q.approval # x.a
      BY <2>2, <2>4, PruneKeeps DEF Paired, ApprovalsAgree, PendingAnswers, Answers
    <3>6. \A z \in approvals' : z = y \/ (z \in approvals /\ z.a # x.a)
      BY <2>2, <3>4, PruneKeeps DEF Paired
    <3>7. \A z, w \in approvals' : z.a = w.a => z = w
      BY <3>3, <3>6 DEF Paired
    <3>8. \A a : PendingAnswers(a)' = {r \in Answers' : r.q.approval = a}
      BY DEF PendingAnswers, Answers
    <3>9. \A a : PendingAnswers(a) = {r \in Answers : r.q.approval = a}
      BY DEF PendingAnswers, Answers
    <3>10. \A z \in approvals' : /\ z.state = "answered" => PendingAnswers(z.a)' # {}
                                 /\ z.state = "open" => PendingAnswers(z.a)' = {}
      <4>1. PendingAnswers(y.a)' # {}
        BY <2>2, <3>1, <3>2, <3>3, <3>8
      <4>2. ASSUME NEW z \in approvals, z.a # x.a
            PROVE  PendingAnswers(z.a)' = PendingAnswers(z.a)
        BY <2>2, <3>1, <3>2, <3>8, <3>9, <4>2
      <4> QED BY <3>3, <3>6, <4>1, <4>2 DEF Paired, ApprovalsAgree
    <3>11. \A r, s \in Answers' : r.q.approval = s.q.approval => r = s
      <4>1. \A r, s \in Answers : r.q.approval = s.q.approval => r = s
        BY DEF Paired, ApprovalsAgree, Answers
      <4> QED BY <2>2, <3>1, <3>2, <3>5, <4>1
    <3>12. ApprovalsAgree'
      <4>1. \A r, s \in dispatches' :
              /\ Pending(r) /\ Pending(s)
              /\ r.q.kind = "answer" /\ s.q.kind = "answer" /\ r.q.approval = s.q.approval
              => r = s
        BY <3>11 DEF Answers, Pending
      <4> QED BY <3>10, <4>1 DEF ApprovalsAgree, Pending
    <3>13. \A r \in Answers' : r.to = r.q.approval.from
      BY <2>2, <3>1, <3>2 DEF Paired
    <3>14. \A r \in Answers' : \/ \E z \in approvals' : z.a = r.q.approval /\ z.state = "answered"
                               \/ r.q.approval \in shut'
      <4>1. \E z \in approvals' : z.a = row.q.approval /\ z.state = "answered"
        BY <2>2, <3>1, <3>3, <3>4
      <4>2. ASSUME NEW r \in Answers, NEW z \in approvals, z.a = r.q.approval, z.state = "answered"
            PROVE  z \in approvals'
        BY <3>4, <3>5, <4>2, PruneKeeps
      <4> QED BY <2>2, <3>2, <4>1, <4>2 DEF Paired
    <3> QED BY <3>7, <3>12, <3>13, <3>14 DEF Paired
  <2> QED BY <2>1, <2>3, <2>4
<1>5. CASE Cancel(q)
  <2> DEFINE taken == {r \in dispatches : r.q = q /\ Waiting(r)}
  <2>1. /\ dispatches' = dispatches \ taken /\ shut' = shut
        /\ approvals' = Reopened(approvals, AnsweredBy(taken))
    BY <1>5 DEF Cancel
  <2>2. Answers' = Answers \ taken
    BY <2>1 DEF Answers, Pending
  <2>3. \A r \in Answers : r \in taken => r.q.approval \in AnsweredBy(taken)
    BY DEF Answers, AnsweredBy
  <2>4. \A s \in Answers' : s.q.approval \notin AnsweredBy(taken)
    BY <2>2 DEF Answers, AnsweredBy, Waiting, Paired, ApprovalsAgree
  <2> HIDE DEF taken
  <2> QED BY <2>1, <2>2, <2>3, <2>4, PairedWhenTaken
<1> QED BY <1>2, <1>3, <1>4, <1>5

\* A claim: what it hands over stays on its way, and what it cannot read is refused.
LEMMA ClaimKeepsPairs ==
  ASSUME TypeOK, Paired, NEW d \in Devices, NEW kinds, Claim(d, kinds)
  PROVE  Paired'
<1> DEFINE taken  == FirstOf(Claimable(d, kinds))
           unread == {r \in taken : ~r.q.readable}
           names  == AnsweredBy(unread)
<1>1. taken \in SUBSET KeptDispatches /\ \A r \in taken : Pending(r)
  BY DEF FirstOf, Claimable, Waiting
<1>2. KeptDispatches \in SUBSET dispatches /\ dispatches \in SUBSET Dispatch
  BY DEF KeptDispatches, TypeOK
<1>3. approvals' = Closed(KeptApprovals, names) /\ shut' = shut
  BY DEF Claim
<1>4. CASE taken = {} /\ dispatches' = KeptDispatches
  <2>1. Answers' = Answers
    BY <1>4, PruneKeeps DEF Answers, Pending
  <2>2. names = {}
    BY <1>4 DEF AnsweredBy
  <2> HIDE DEF names, taken, unread
  <2> QED BY <1>3, <2>1, <2>2, PruneKeeps, PairedWhenTaken
<1>5. CASE /\ FreshTokens # {}
           /\ dispatches' = (KeptDispatches \ taken) \union {TakenBy(r, NewToken) : r \in taken}
  <2> DEFINE row(r) == TakenBy(r, NewToken)
  <2>1. \A r \in taken : /\ row(r).q = r.q /\ row(r).to = r.to
                         /\ row(r).state = IF r.q.readable THEN r.state ELSE "refused"
    BY <1>1, <1>2, <1>5, FreshTokenType, TakenFields
  <2>2. dispatches' = (KeptDispatches \ taken) \union {row(r) : r \in taken}
    BY <1>5
  <2>3. \A r \in taken : r \in unread \/ r.q.readable
    OBVIOUS
  <2>4. \A r \in taken : r \in Answers \/ r.q.kind # "answer"
    BY <1>1, <1>2 DEF Answers
  <2> HIDE DEF row
  <2>5. \A s \in Answers' : \/ s \in Answers \ taken
                            \/ \E r \in taken : r \in Answers /\ r.q.readable /\ s = row(r)
    BY <2>1, <2>2, <2>4, PruneKeeps DEF Answers, Pending
  <2>6. \A r \in Answers : \/ r \notin taken /\ r \in Answers'
                           \/ r \in unread
                           \/ r \in taken /\ row(r) \in Answers'
    BY <2>1, <2>2, <2>3, PruneKeeps DEF Answers, Pending
  <2>7. \A r, u \in Answers : r.q.approval = u.q.approval => r = u
    BY DEF Answers, Paired, ApprovalsAgree
  <2>8. \A r \in unread : r \in taken /\ ~r.q.readable
    OBVIOUS
  <2>9. \A a \in names : \E r \in unread : r \in Answers /\ r.q.approval = a
    BY <2>4, <2>8 DEF AnsweredBy
  <2>10. \A r \in Answers : r \in unread => r.q.approval \in names
    BY DEF AnsweredBy, Answers
  <2> HIDE DEF taken, unread, names
  <2>11. \A s \in Answers' : \E r \in Answers : r.q = s.q /\ r.to = s.to
    BY <2>1, <2>5
  <2>12. \A s \in Answers' : s.q.approval \notin names
    BY <2>1, <2>5, <2>7, <2>8, <2>9
  <2>13. \A s, t \in Answers' : s.q.approval = t.q.approval => s = t
    BY <2>1, <2>5, <2>7
  <2>14. \A r \in Answers : r.q.approval \notin names => \E s \in Answers' : s.q = r.q
    BY <2>1, <2>6, <2>10
  <2>15. KeptApprovals \in SUBSET Approval /\ \A x, y \in KeptApprovals : x.a = y.a => x = y
    BY PruneKeeps DEF TypeOK, Paired
  <2>16. \A y \in approvals' : \E x \in approvals :
           x.a = y.a /\ (y.state = x.state \/ y.state = "closed")
    BY <1>3, <2>15, PruneKeeps, ClosedFacts
  <2>17. \A y \in approvals' : y.state = "answered" => y.a \notin names
    BY <1>3, <2>15, ClosedFacts
  <2>18. \A x \in approvals : x.state = "answered" /\ x.a \notin names => x \in approvals'
    BY <1>3, <2>15, PruneKeeps, ClosedFacts
  <2>19. \A x, y \in approvals' : x.a = y.a => x = y
    BY <1>3, <2>15, OneRowEach
  <2>20. AnswersLeave(names)
    BY <2>11, <2>12, <2>13, <2>14 DEF AnswersLeave
  <2>21. MarksLeave(names)
    BY <2>16, <2>17, <2>18, <2>19 DEF MarksLeave
  <2> QED BY <1>3, <2>20, <2>21, PairsKept
<1> QED BY <1>4, <1>5 DEF Claim

\* An ack, and what a Mac asks and takes back.
LEMMA MacKeepsPairs ==
  ASSUME TypeOK, Paired,
         \/ \E c \in claims : \E qs \in SUBSET c.handed : \E delivered \in SUBSET qs :
              Ack(c, qs, delivered)
         \/ \E a \in Approvals : OpenApproval(a) \/ CloseApproval(a)
  PROVE  Paired'
<1>1. dispatches \in SUBSET Dispatch
  BY DEF TypeOK
<1>2. ASSUME NEW c \in claims, NEW qs \in SUBSET c.handed, NEW delivered \in SUBSET qs,
             Ack(c, qs, delivered)
      PROVE  Paired'
  <2> DEFINE taken == Ackable(c, qs)
             row(r) == Settled(r, IF r.q \in delivered THEN "delivered" ELSE "refused", c.token)
  <2>1. /\ dispatches' = (dispatches \ taken) \union {row(r) : r \in taken}
        /\ approvals' = Closed(approvals, AnsweredBy(taken)) /\ shut' = shut
    BY <1>2 DEF Ack
  <2>2. taken \in SUBSET dispatches /\ \A r \in taken : Pending(r)
    BY DEF Ackable
  <2>3. c.token \in Tokens
    BY DEF TypeOK, Claimed
  <2>4. \A r \in taken : row(r).state \in {"delivered", "refused"}
    BY <1>1, <2>2, <2>3, RowFields
  <2> HIDE DEF taken, row
  <2>5. Answers' = Answers \ taken
    BY <2>1, <2>4 DEF Answers, Pending
  <2>6. \A r \in Answers : r \in taken => r.q.approval \in AnsweredBy(taken)
    BY DEF Answers, AnsweredBy
  <2>7. \A s \in Answers' : s.q.approval \notin AnsweredBy(taken)
    BY <2>2, <2>5 DEF Answers, AnsweredBy, Paired, ApprovalsAgree
  <2>8. approvals \in SUBSET approvals
    OBVIOUS
  <2> QED BY <2>1, <2>5, <2>6, <2>7, <2>8, PairedWhenTaken
<1>3. ASSUME NEW a \in Approvals, OpenApproval(a)
      PROVE  Paired'
  <2>1. dispatches' = KeptDispatches /\ shut' = shut /\ a \notin shut
    BY <1>3 DEF OpenApproval
  <2>2. Answers' = Answers
    BY <2>1, PruneKeeps DEF Answers, Pending
  <2>3. CASE approvals' = KeptApprovals
    BY <2>1, <2>2, <2>3, PairedWhenPruned
  <2>4. CASE approvals' # KeptApprovals
    <3> DEFINE new == [a |-> a, state |-> "open", age |-> 0]
    <3>1. approvals' = KeptApprovals \union {new} /\ ~ \E x \in KeptApprovals : x.a = a
      BY <1>3, <2>4 DEF OpenApproval
    <3>2. new.a = a /\ new.state = "open"
      OBVIOUS
    <3> HIDE DEF new
    <3>3. \A r \in Answers : r.q.approval # a
      BY <2>1, <3>1, PruneKeeps DEF Paired
    <3>4. \A b : PendingAnswers(b)' = PendingAnswers(b)
      BY <2>2 DEF PendingAnswers, Answers, Pending
    <3>5. PendingAnswers(a) = {}
      BY <3>3 DEF PendingAnswers, Answers
    <3>6. \A x \in approvals' : /\ x.state = "answered" => PendingAnswers(x.a)' # {}
                                /\ x.state = "open" => PendingAnswers(x.a)' = {}
      BY <3>1, <3>2, <3>4, <3>5, PruneKeeps DEF Paired, ApprovalsAgree
    <3>7. \A r, s \in dispatches' :
            /\ Pending(r) /\ Pending(s)
            /\ r.q.kind = "answer" /\ s.q.kind = "answer" /\ r.q.approval = s.q.approval
            => r = s
      BY <2>1 DEF Paired, ApprovalsAgree, KeptDispatches
    <3>8. ApprovalsAgree'
      BY <3>6, <3>7 DEF ApprovalsAgree, Pending
    <3>9. \A x, y \in approvals' : x.a = y.a => x = y
      BY <3>1, <3>2, PruneKeeps DEF Paired
    <3>10. \A r \in Answers' : \/ \E x \in approvals' : x.a = r.q.approval /\ x.state = "answered"
                               \/ r.q.approval \in shut'
      BY <2>1, <2>2, <3>1, PruneKeeps DEF Paired
    <3> QED BY <2>2, <3>8, <3>9, <3>10 DEF Paired
  <2> QED BY <2>3, <2>4
<1>4. ASSUME NEW a \in Approvals, CloseApproval(a)
      PROVE  Paired'
  <2> DEFINE taken == WaitingAnswers(a)
  <2>1. /\ dispatches' = (dispatches \ taken) \union {Settled(r, "refused", 0) : r \in taken}
        /\ approvals' = Closed(approvals, {a}) /\ shut' = shut \union {a}
    BY <1>4 DEF CloseApproval
  <2>2. taken \in SUBSET dispatches /\ \A r \in taken : r.q.approval = a
    BY DEF WaitingAnswers
  <2>3. \A r \in taken : Settled(r, "refused", 0).state = "refused"
    BY <1>1, <2>2, RowFields
  <2> HIDE DEF taken
  <2>4. Answers' = Answers \ taken
    BY <2>1, <2>3 DEF Answers, Pending
  <2>5. approvals \in SUBSET approvals
    OBVIOUS
  <2>6. shut \subseteq shut' /\ \A s \in Answers' : s.q.approval \notin {a} \/ s.q.approval \in shut'
    BY <2>1
  <2>7. \A r \in Answers : r \in taken => r.q.approval \in {a}
    BY <2>2
  <2> QED BY <2>1, <2>4, <2>5, <2>6, <2>7, PairedWhenTaken
<1> QED BY <1>2, <1>3, <1>4

\* A sign-out: what the device asked goes, and what waits for it is refused.
LEMMA ForgetKeepsPairs ==
  ASSUME TypeOK, Paired, NEW d \in Devices, Forget(d)
  PROVE  Paired'
<1> DEFINE withdrawn == {r \in dispatches : r.q.from = d /\ Waiting(r)}
           left      == dispatches \ withdrawn
           refused   == {r \in left : r.to = d /\ Pending(r)}
           reopened  == Reopened(approvals, AnsweredBy(withdrawn))
           its       == {x.a : x \in {y \in approvals : y.a.from = d}}
           names     == AnsweredBy(withdrawn) \union {a \in Approvals : a.from = d}
<1>1. /\ dispatches' = (left \ refused) \union {Settled(r, "refused", 0) : r \in refused}
      /\ approvals' = Closed(reopened, its)
      /\ shut' = shut
  BY DEF Forget
<1>2. /\ dispatches \in SUBSET Dispatch /\ approvals \in SUBSET Approval
      /\ \A x, y \in approvals : x.a = y.a => x = y
  BY DEF TypeOK, Paired
<1>3. \A r \in refused : Settled(r, "refused", 0).state = "refused"
  BY <1>2, RowFields
<1>4. \A r \in Answers : r.q.approval \in Approvals
  BY <1>2, RequestsAssumption DEF Answers, Dispatch
<1>5. \A r \in Answers : r \in refused <=> r.q.approval.from = d /\ r \notin withdrawn
  BY DEF Answers, Paired
<1>6. \A r \in withdrawn : r \in Answers \/ r.q.kind # "answer"
  BY DEF Answers, Waiting
<1> HIDE DEF withdrawn
<1>7. \A a \in AnsweredBy(withdrawn) : \E r \in withdrawn : r \in Answers /\ r.q.approval = a
  BY <1>6 DEF AnsweredBy
<1>8. \A r \in Answers : r \in withdrawn => r.q.approval \in AnsweredBy(withdrawn)
  BY DEF AnsweredBy, Answers
<1> HIDE DEF refused
<1>9. Answers' = (Answers \ withdrawn) \ refused
  BY <1>1, <1>3 DEF Answers, Pending
<1>10. \A r, u \in Answers : r.q.approval = u.q.approval => r = u
  BY DEF Answers, Paired, ApprovalsAgree
<1> HIDE DEF left
<1>11. \A s \in Answers' : s \in Answers /\ s.q.approval \notin names
  BY <1>5, <1>7, <1>9, <1>10
<1>12. \A r \in Answers : r.q.approval \notin names => r \in Answers'
  BY <1>4, <1>5, <1>8, <1>9
<1>13. /\ reopened \in SUBSET Approval
       /\ \A x, y \in reopened : x.a = y.a => x = y
  BY <1>2, ReopenedFacts, OneRowEach
<1>14. \A y \in reopened : \E x \in approvals :
         /\ x.a = y.a
         /\ IF x.a \in AnsweredBy(withdrawn) /\ x.state = "answered" THEN y.state = "open" ELSE y = x
  BY <1>2, ReopenedFacts
<1>15. \A x \in approvals : x.a \notin names => x \in reopened
  BY <1>2, ReopenedFacts
<1> HIDE DEF reopened
<1>16. \A y \in approvals' : \E x \in reopened :
         x.a = y.a /\ (IF x.a \in its THEN y.state = "closed" ELSE y = x)
  BY <1>1, <1>13, ClosedFacts
<1>17. \A x \in approvals : x.a \notin names => x \notin reopened \/ x \in approvals'
  <2>1. \A a \in its : a \in names
    BY <1>2 DEF Approval
  <2>2. \A x \in reopened : x.a \notin its => x \in approvals'
    BY <1>1, <1>13, ClosedFacts
  <2> HIDE DEF its, names
  <2> QED BY <2>1, <2>2
<1>18. \A x \in approvals : x.a \in names => x.a \in AnsweredBy(withdrawn) \/ x.a \in its
  OBVIOUS
<1> HIDE DEF its
<1>19. \A y \in approvals' : \E x \in approvals :
         /\ x.a = y.a
         /\ \/ y.state = x.state
            \/ y.state = "closed"
            \/ y.state = "open" /\ \A s \in Answers' : s.q.approval # y.a
  BY <1>11, <1>14, <1>16
<1>20. \A y \in approvals' : y.state = "answered" => y.a \notin names
  BY <1>14, <1>16, <1>18
<1>21. \A x, y \in approvals' : x.a = y.a => x = y
  BY <1>1, <1>13, OneRowEach
<1> HIDE DEF names
<1>22. AnswersLeave(names)
  BY <1>10, <1>11, <1>12 DEF AnswersLeave
<1>23. MarksLeave(names)
  BY <1>15, <1>17, <1>19, <1>20, <1>21 DEF MarksLeave
<1> QED BY <1>1, <1>22, <1>23, PairsKept

\* Time changes no state, and takes no row away.
LEMMA TickKeepsPairs ==
  ASSUME TypeOK, Paired, Tick
  PROVE  Paired'
<1>1. shut' = shut
  BY DEF Tick
<1>2. \A s \in dispatches' : \E r \in dispatches : s.q = r.q /\ s.to = r.to /\ s.state = r.state
  BY TickFacts
<1>3. \A r \in dispatches : \E s \in dispatches' : s.q = r.q /\ s.state = r.state
  BY TickFacts
<1>4. \A y \in approvals' : \E x \in approvals : y.a = x.a /\ y.state = x.state
  BY TickFacts
<1>5. \A x \in approvals : \E y \in approvals' : y.a = x.a /\ y.state = x.state
  BY TickFacts
<1>6. \A s, t \in Answers' : s.q.approval = t.q.approval => s = t
  <2> SUFFICES ASSUME NEW s \in Answers', NEW t \in Answers', s.q.approval = t.q.approval
               PROVE  s = t
    OBVIOUS
  <2>1. s \in dispatches' /\ t \in dispatches'
    BY DEF Answers
  <2>2. PICK r \in dispatches, u \in dispatches :
          s.q = r.q /\ s.state = r.state /\ t.q = u.q /\ t.state = u.state /\ (r = u => s = t)
    BY <2>1, TickFacts
  <2>3. r \in Answers /\ u \in Answers
    BY <2>2 DEF Answers, Pending
  <2> QED BY <2>2, <2>3 DEF Answers, Paired, ApprovalsAgree
<1>7. \A x, y \in approvals' : x.a = y.a => x = y
  <2> SUFFICES ASSUME NEW y \in approvals', NEW z \in approvals', y.a = z.a
               PROVE  y = z
    OBVIOUS
  <2>1. PICK x \in approvals, w \in approvals : y.a = x.a /\ z.a = w.a /\ (x = w => y = z)
    BY TickFacts
  <2> QED BY <2>1 DEF Paired
<1>8. /\ \A s \in Answers' : \E r \in Answers : r.q = s.q /\ r.to = s.to
      /\ \A r \in Answers : \E s \in Answers' : s.q = r.q
  BY <1>2, <1>3 DEF Answers, Pending
<1> DEFINE names == {}
<1>9. AnswersLeave(names)
  BY <1>6, <1>8 DEF AnswersLeave
<1>10. MarksLeave(names)
  BY <1>4, <1>5, <1>7 DEF MarksLeave
<1> HIDE DEF names
<1> QED BY <1>1, <1>9, <1>10, PairsKept

\* The two tables agree whatever the phones and the Macs do, and whenever: an approval is answered
\* exactly while one answer to it is on its way.
THEOREM TablesAgree == Spec => []ApprovalsAgree
<1>1. Init => Paired
  BY Zenon DEF Init, Paired, ApprovalsAgree, Answers
<1>2. TypeOK /\ HasLast /\ Paired /\ [Next]_inboxVars => Paired'
  <2> SUFFICES ASSUME TypeOK, HasLast, Paired, [Next]_inboxVars
               PROVE  Paired'
    OBVIOUS
  <2>1. ASSUME NEW q \in Requests,
               CreateNothing(q) \/ CreateWork(q) \/ CreateAnswer(q) \/ Cancel(q)
        PROVE  Paired'
    BY <2>1, PhoneKeepsPairs
  <2>2. ASSUME NEW d \in Devices, NEW kinds, Claim(d, kinds)
        PROVE  Paired'
    BY <2>2, ClaimKeepsPairs
  <2>3. ASSUME NEW c \in claims, NEW qs \in SUBSET c.handed, NEW delivered \in SUBSET qs,
               Ack(c, qs, delivered)
        PROVE  Paired'
    BY <2>3, MacKeepsPairs
  <2>4. ASSUME NEW a \in Approvals, OpenApproval(a) \/ CloseApproval(a)
        PROVE  Paired'
    BY <2>4, MacKeepsPairs
  <2>5. ASSUME NEW d \in Devices, Forget(d)
        PROVE  Paired'
    BY <2>5, ForgetKeepsPairs
  <2>6. CASE Purge \/ ReplaceTables
    <3>1. dispatches' = {} /\ approvals' = {}
      BY <2>6 DEF Purge, ReplaceTables, Emptied
    <3>2. Answers' = {}
      BY <3>1 DEF Answers
    <3>3. ApprovalsAgree'
      BY <3>1, Zenon DEF ApprovalsAgree
    <3> QED BY <3>1, <3>2, <3>3 DEF Paired
  <2>7. CASE Tick
    BY <2>7, TickKeepsPairs
  <2>8. CASE UNCHANGED <<dispatches, approvals, shut>>
    <3>1. Answers' = Answers
      BY <2>8 DEF Answers, Pending
    <3> QED BY <2>8, <3>1, PairedWhenPruned
  <2>9. ASSUME \/ \E c \in claims : LetGo(c)
               \/ \E d \in Devices : Revoke(d)
               \/ UNCHANGED inboxVars
        PROVE  UNCHANGED <<dispatches, approvals, shut>>
    BY <2>9 DEF LetGo, Revoke, inboxVars
  <2> QED BY <2>1, <2>2, <2>3, <2>4, <2>5, <2>6, <2>7, <2>8, <2>9 DEF Next
<1>3. Paired => ApprovalsAgree
  BY DEF Paired
<1> QED BY <1>1, <1>2, <1>3, TypeCorrect, PTL DEF Spec

=============================================================================
