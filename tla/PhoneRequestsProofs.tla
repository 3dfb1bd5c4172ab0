------------------------- MODULE PhoneRequestsProofs -------------------------
(***************************************************************************)
(* What the two runs of PhoneRequests show for a turn, a capture and an    *)
(* answer, proved for any Macs, requests and approvals and any limits of   *)
(* the inbox: that the phone and the Macs use the inbox as DispatchInbox   *)
(* lets its clients use it, that "delivered" is true, that a request taken *)
(* back in time reaches no Mac, and that a Mac runs no turn the log held   *)
(* when it began to pull.  The safety of the runs; what they show of       *)
(* liveness stays with TLC.                                                *)
(***************************************************************************)
EXTENDS PhoneRequests, TLAPS

Proved == INSTANCE DispatchInboxProofs
            WITH Devices <- Macs \union {phone}, MaxRevoked <- 0, MaxLate <- 0

-----------------------------------------------------------------------------
(* The two instances of the inbox's module say the same. *)

\* Of counts,
LEMMA SameCounts ==
  /\ \A S : Inbox!Cardinality(S) = Cardinality(S)
  /\ \A S : Proved!Cardinality(S) = Cardinality(S)
<1>1. ASSUME NEW S
      PROVE  Inbox!Cardinality(S) = Cardinality(S)
  BY DEF Inbox!Cardinality, Cardinality
<1>2. ASSUME NEW S
      PROVE  Proved!Cardinality(S) = Cardinality(S)
  BY DEF Proved!Cardinality, Cardinality
<1> QED BY <1>1, <1>2

\* Its constants are what it asks of them.
LEMMA InboxConstants ==
  /\ Proved!RequestsAssumption /\ Proved!ApprovalsAssumption /\ Proved!InboxLimitsAssumption
  /\ Proved!AnyoneAssumption /\ Proved!TokensAssumption
BY PhoneAssumption
   DEF Proved!RequestsAssumption, Proved!ApprovalsAssumption, Proved!InboxLimitsAssumption,
       Proved!AnyoneAssumption, Proved!TokensAssumption, Proved!Kinds

\* of types,
LEMMA SameTypes ==
  /\ Proved!Dispatch = Inbox!Dispatch /\ Proved!Approval = Inbox!Approval
  /\ Proved!Claimed = Inbox!Claimed
  /\ Proved!TypeOK <=> Inbox!TypeOK
  /\ Proved!TypeOK' <=> Inbox!TypeOK'
<1>1. /\ Proved!Dispatch = Inbox!Dispatch /\ Proved!Approval = Inbox!Approval
      /\ Proved!Claimed = Inbox!Claimed
  BY DEF Proved!Dispatch, Inbox!Dispatch, Proved!Approval, Inbox!Approval,
         Proved!Claimed, Inbox!Claimed
<1>2. Proved!TypeOK <=> Inbox!TypeOK
  BY <1>1 DEF Proved!TypeOK, Inbox!TypeOK
<1>3. Proved!TypeOK' <=> Inbox!TypeOK'
  BY <1>1 DEF Proved!TypeOK, Inbox!TypeOK
<1> QED BY <1>1, <1>2, <1>3

\* What is read of a row and of the tables,
LEMMA SameReads ==
  /\ \A r : Proved!Pending(r) <=> Inbox!Pending(r)
  /\ \A r : Proved!Waiting(r) <=> Inbox!Waiting(r)
  /\ Proved!KeptDispatches = Inbox!KeptDispatches
  /\ Proved!KeptApprovals = Inbox!KeptApprovals
  /\ \A rs : Proved!AnsweredBy(rs) = Inbox!AnsweredBy(rs)
  /\ \A rs : Proved!FirstOf(rs) = Inbox!FirstOf(rs)
  /\ \A ds : Proved!NextPosition(ds) = Inbox!NextPosition(ds)
  /\ Proved!FreshTokens = Inbox!FreshTokens /\ Proved!NewToken = Inbox!NewToken
<1>1. \A r : Proved!Pending(r) <=> Inbox!Pending(r)
  BY DEF Proved!Pending, Inbox!Pending
<1>2. \A r : Proved!Waiting(r) <=> Inbox!Waiting(r)
  BY <1>1 DEF Proved!Waiting, Inbox!Waiting, Proved!Lapsed, Inbox!Lapsed
<1>3. Proved!KeptDispatches = Inbox!KeptDispatches
  BY <1>1 DEF Proved!KeptDispatches, Inbox!KeptDispatches
<1>4. Proved!KeptApprovals = Inbox!KeptApprovals
  BY DEF Proved!KeptApprovals, Inbox!KeptApprovals
<1>5. \A rs : Proved!AnsweredBy(rs) = Inbox!AnsweredBy(rs)
  BY DEF Proved!AnsweredBy, Inbox!AnsweredBy
<1>6. \A rs : Proved!FirstOf(rs) = Inbox!FirstOf(rs)
  BY SameCounts DEF Proved!FirstOf, Inbox!FirstOf
<1>7. \A ds : Proved!NextPosition(ds) = Inbox!NextPosition(ds)
  BY DEF Proved!NextPosition, Inbox!NextPosition
<1>8. Proved!FreshTokens = Inbox!FreshTokens
  BY DEF Proved!FreshTokens, Inbox!FreshTokens
<1>9. Proved!NewToken = Inbox!NewToken
  BY <1>8 DEF Proved!NewToken, Inbox!NewToken
<1> QED BY <1>1, <1>2, <1>3, <1>4, <1>5, <1>6, <1>7, <1>8, <1>9

\* what is written there,
LEMMA SameWrites ==
  /\ \A r, state, token : Proved!Settled(r, state, token) = Inbox!Settled(r, state, token)
  /\ \A r, token : Proved!TakenBy(r, token) = Inbox!TakenBy(r, token)
  /\ \A as, names : Proved!Closed(as, names) = Inbox!Closed(as, names)
  /\ \A as, names : Proved!Reopened(as, names) = Inbox!Reopened(as, names)
  /\ \A ds, q, to, state :
       Proved!NewDispatch(ds, q, to, state) = Inbox!NewDispatch(ds, q, to, state)
<1>1. \A r, state, token : Proved!Settled(r, state, token) = Inbox!Settled(r, state, token)
  BY DEF Proved!Settled, Inbox!Settled
<1>2. \A r, token : Proved!TakenBy(r, token) = Inbox!TakenBy(r, token)
  BY <1>1 DEF Proved!TakenBy, Inbox!TakenBy
<1>3. \A as, names : Proved!Closed(as, names) = Inbox!Closed(as, names)
  BY DEF Proved!Closed, Inbox!Closed
<1>4. \A as, names : Proved!Reopened(as, names) = Inbox!Reopened(as, names)
  BY DEF Proved!Reopened, Inbox!Reopened
<1>5. \A ds, q, to, state :
        Proved!NewDispatch(ds, q, to, state) = Inbox!NewDispatch(ds, q, to, state)
  BY SameReads DEF Proved!NewDispatch, Inbox!NewDispatch
<1> QED BY <1>1, <1>2, <1>3, <1>4, <1>5

\* and every step.
LEMMA SameStep ==
  ASSUME [Inbox!Next]_(Inbox!inboxVars)
  PROVE  [Proved!Next]_(Proved!inboxVars)
<1>1. \A d : Proved!Calls(d) <=> Inbox!Calls(d)
  BY DEF Proved!Calls, Inbox!Calls
<1>2. /\ \A ds, q : Proved!Stored(ds, q) <=> Inbox!Stored(ds, q)
      /\ \A ds : Proved!Full(ds) <=> Inbox!Full(ds)
      /\ \A q : Proved!AskedAs(q) = Inbox!AskedAs(q)
  BY SameCounts, SameReads DEF Proved!Stored, Inbox!Stored, Proved!Full, Inbox!Full, Proved!AskedAs,
     Inbox!AskedAs
<1>3. \A q : Proved!Creates(q) <=> Inbox!Creates(q)
  BY <1>1, <1>2, SameReads DEF Proved!Creates, Inbox!Creates
<1>4. \A q : Proved!CreateNothing(q) <=> Inbox!CreateNothing(q)
  BY <1>1, <1>2, SameReads DEF Proved!CreateNothing, Inbox!CreateNothing
<1>5. \A q : Proved!CreateWork(q) <=> Inbox!CreateWork(q)
  BY <1>3, SameReads, SameWrites DEF Proved!CreateWork, Inbox!CreateWork
<1>6. \A q : Proved!CreateAnswer(q) <=> Inbox!CreateAnswer(q)
  BY <1>2, <1>3, SameReads, SameWrites DEF Proved!CreateAnswer, Inbox!CreateAnswer
<1>7. \A q : Proved!Cancel(q) <=> Inbox!Cancel(q)
  BY <1>1, SameReads, SameWrites DEF Proved!Cancel, Inbox!Cancel
<1>8. \A d, kinds : Proved!Claim(d, kinds) <=> Inbox!Claim(d, kinds)
  <2>1. \A d, kinds : Proved!Claimable(d, kinds) = Inbox!Claimable(d, kinds)
    BY SameReads DEF Proved!Claimable, Inbox!Claimable
  <2>2. ASSUME NEW d, NEW kinds
        PROVE  Proved!Claim(d, kinds) <=> Inbox!Claim(d, kinds)
    <3> DEFINE taken == Inbox!FirstOf(Inbox!Claimable(d, kinds))
               after == {Inbox!TakenBy(r, Inbox!NewToken) : r \in taken}
    <3>1. Proved!FirstOf(Proved!Claimable(d, kinds)) = taken
      BY <2>1, SameReads
    <3>2. {Proved!TakenBy(r, Proved!NewToken) : r \in taken} = after
      BY SameReads, SameWrites
    <3> HIDE DEF taken, after
    <3>3. Proved!Closed(Proved!KeptApprovals, Proved!AnsweredBy({r \in taken : ~r.q.readable}))
            = Inbox!Closed(Inbox!KeptApprovals, Inbox!AnsweredBy({r \in taken : ~r.q.readable}))
      BY SameReads, SameWrites
    <3>4. Proved!Claim(d, kinds) =
            /\ Inbox!Calls(d)
            /\ approvals' = Inbox!Closed(Inbox!KeptApprovals,
                                         Inbox!AnsweredBy({r \in taken : ~r.q.readable}))
            /\ \/ taken = {} /\ dispatches' = Inbox!KeptDispatches /\ UNCHANGED claims
               \/ /\ taken # {}
                  /\ Inbox!FreshTokens # {}
                  /\ dispatches' = (Inbox!KeptDispatches \ taken) \union after
                  /\ claims' = claims \union
                       {[token |-> Inbox!NewToken, by |-> d,
                         handed |-> {r.q : r \in {s \in taken : s.q.readable}}]}
            /\ UNCHANGED <<gone, shut, valid, unswept>>
      BY <1>1, <3>1, <3>2, <3>3, SameReads DEF Proved!Claim
    <3> QED BY <3>4 DEF Inbox!Claim, taken, after
  <2> QED BY <2>2
<1>9. \A c, qs, delivered : Proved!Ack(c, qs, delivered) <=> Inbox!Ack(c, qs, delivered)
  <2>1. \A c, qs : Proved!Ackable(c, qs) = Inbox!Ackable(c, qs)
    BY SameReads DEF Proved!Ackable, Inbox!Ackable
  <2> QED BY <1>1, <2>1, SameReads, SameWrites DEF Proved!Ack, Inbox!Ack
<1>10. \A c : Proved!LetGo(c) <=> Inbox!LetGo(c)
  BY DEF Proved!LetGo, Inbox!LetGo
<1>11. \A a : Proved!OpenApproval(a) <=> Inbox!OpenApproval(a)
  BY <1>1, SameCounts, SameReads DEF Proved!OpenApproval, Inbox!OpenApproval
<1>12. \A a : Proved!CloseApproval(a) <=> Inbox!CloseApproval(a)
  <2>1. \A a : Proved!WaitingAnswers(a) = Inbox!WaitingAnswers(a)
    BY SameReads DEF Proved!WaitingAnswers, Inbox!WaitingAnswers
  <2> QED BY <1>1, <2>1, SameWrites DEF Proved!CloseApproval, Inbox!CloseApproval
<1>13. \A d : Proved!Revoke(d) <=> Inbox!Revoke(d)
  BY SameCounts DEF Proved!Revoke, Inbox!Revoke
<1>14. \A d : Proved!Forget(d) <=> Inbox!Forget(d)
  BY SameReads, SameWrites DEF Proved!Forget, Inbox!Forget
<1>15. (Proved!Purge <=> Inbox!Purge) /\ (Proved!ReplaceTables <=> Inbox!ReplaceTables)
  BY DEF Proved!Purge, Inbox!Purge, Proved!ReplaceTables, Inbox!ReplaceTables, Proved!Emptied,
         Inbox!Emptied
<1>16. Proved!Tick <=> Inbox!Tick
  <2>1. \A age, limit : Proved!Older(age, limit) = Inbox!Older(age, limit)
    BY DEF Proved!Older, Inbox!Older
  <2> QED BY <2>1, SameReads DEF Proved!Tick, Inbox!Tick
<1>17. Proved!KindsClaimed = Inbox!KindsClaimed
  BY DEF Proved!KindsClaimed, Inbox!KindsClaimed, Proved!Kinds, Inbox!Kinds
<1>18. Proved!inboxVars = Inbox!inboxVars /\ Proved!inboxVars' = Inbox!inboxVars'
  BY DEF Proved!inboxVars, Inbox!inboxVars
<1> QED BY <1>4, <1>5, <1>6, <1>7, <1>8, <1>9, <1>10, <1>11, <1>12, <1>13, <1>14, <1>15, <1>16,
           <1>17, <1>18
        DEF Proved!Next, Inbox!Next

\* So a step of the inbox keeps its tables typed.
LEMMA InboxStepTypes ==
  ASSUME Inbox!TypeOK, Proved!HasLast, [Inbox!Next]_(Inbox!inboxVars)
  PROVE  Inbox!TypeOK' /\ Proved!HasLast'
<1>1. Proved!TypeOK
  BY SameTypes
<1>2. [Proved!Next]_(Proved!inboxVars)
  BY SameStep
<1>3. Proved!TypeOK' /\ Proved!HasLast'
  BY <1>1, <1>2, InboxConstants, Proved!StepTypes
<1> QED BY <1>3, SameTypes

-----------------------------------------------------------------------------
(* What each call leaves of the requests stored. *)

\* A row keeps its fields when it is settled or taken.
LEMMA WrittenFields ==
  ASSUME NEW r \in Inbox!Dispatch
  PROVE  /\ \A state \in {"delivered", "refused"}, token \in Tokens \union {0} :
              Inbox!Settled(r, state, token).q = r.q /\ Inbox!Settled(r, state, token).state = state
         /\ \A token \in Tokens :
              /\ Inbox!TakenBy(r, token).q = r.q
              /\ Inbox!TakenBy(r, token).state = IF r.q.readable THEN r.state ELSE "refused"
<1>1. r \in Proved!Dispatch
  BY SameTypes
<1>2. \A state \in {"delivered", "refused"}, token \in Tokens \union {0} :
        Proved!Settled(r, state, token).q = r.q /\ Proved!Settled(r, state, token).state = state
  BY <1>1, InboxConstants, Proved!RowFields
<1>3. \A token \in Tokens :
        /\ Proved!TakenBy(r, token).q = r.q
        /\ Proved!TakenBy(r, token).state = IF r.q.readable THEN r.state ELSE "refused"
  BY <1>1, InboxConstants, Proved!TakenFields
<1> QED BY <1>2, <1>3, SameWrites

\* A create adds no row but its own.
LEMMA CreateFacts ==
  ASSUME NEW q, Create(q)
  PROVE  \A s \in dispatches' : \/ s \in dispatches
                                \/ s.q = q /\ s.token = 0 /\ s.state # "delivered"
<1>1. Inbox!KeptDispatches \subseteq dispatches
  BY DEF Inbox!KeptDispatches
<1>2. \A ds, to, state : /\ Inbox!NewDispatch(ds, q, to, state).q = q
                         /\ Inbox!NewDispatch(ds, q, to, state).token = 0
                         /\ Inbox!NewDispatch(ds, q, to, state).state = state
  BY DEF Inbox!NewDispatch
<1>3. CASE Inbox!CreateNothing(q)
  BY <1>1, <1>3 DEF Inbox!CreateNothing
<1>4. CASE Inbox!CreateWork(q)
  BY <1>1, <1>2, <1>4 DEF Inbox!CreateWork
<1>5. CASE Inbox!CreateAnswer(q)
  BY <1>1, <1>2, <1>5 DEF Inbox!CreateAnswer
<1> QED BY <1>3, <1>4, <1>5 DEF Create

\* A cancel leaves no row of its request that waits.
LEMMA CancelFacts ==
  ASSUME NEW q, Inbox!Cancel(q)
  PROVE  /\ dispatches' \subseteq dispatches
         /\ \A s \in dispatches' : s.q = q => ~Inbox!Waiting(s)
BY DEF Inbox!Cancel

\* A claim hands over requests that were pending, of its kinds, and any row it takes is one it
\* hands over, or refused.
LEMMA ClaimFacts ==
  ASSUME Inbox!TypeOK, NEW d \in Macs, NEW kinds, Inbox!Claim(d, kinds)
  PROVE  /\ claims' = claims => dispatches' \subseteq dispatches
         /\ claims' # claims =>
              /\ NewClaim \in Inbox!Claimed
              /\ \A q \in NewClaim.handed :
                   q.kind \in kinds /\ \E r \in dispatches : r.q = q /\ Inbox!Pending(r)
              /\ \A s \in dispatches' :
                   \/ s \in dispatches
                   \/ s.state # "delivered" /\ (Inbox!Pending(s) => s.q \in NewClaim.handed)
<1> DEFINE taken == Inbox!FirstOf(Inbox!Claimable(d, kinds))
           handedOver == {r.q : r \in {s \in taken : s.q.readable}}
           token == Inbox!NewToken
           c == [token |-> token, by |-> d, handed |-> handedOver]
<1>1. \A r \in taken : /\ r \in dispatches /\ r \in Inbox!Dispatch
                       /\ Inbox!Pending(r) /\ r.q.kind \in kinds
  BY DEF Inbox!FirstOf, Inbox!Claimable, Inbox!KeptDispatches, Inbox!Waiting, Inbox!TypeOK
<1>2. Inbox!KeptDispatches \subseteq dispatches
  BY DEF Inbox!KeptDispatches
<1>3. CASE dispatches' = Inbox!KeptDispatches /\ UNCHANGED claims
  BY <1>2, <1>3
<1>4. CASE /\ Inbox!FreshTokens # {}
           /\ dispatches' = (Inbox!KeptDispatches \ taken)
                               \union {Inbox!TakenBy(r, token) : r \in taken}
           /\ claims' = claims \union {c}
  <2>1. token \in Inbox!FreshTokens
    BY <1>4 DEF Inbox!NewToken
  <2>2. token \in Tokens /\ c \notin claims
    <3>1. token \in Tokens /\ \A x \in claims : x.token # token
      BY <2>1 DEF Inbox!FreshTokens
    <3>2. c.token = token
      OBVIOUS
    <3> QED BY <3>1, <3>2
  <2> HIDE DEF c
  <2>3. NewClaim = c
    BY <1>4, <2>2 DEF NewClaim
  <2>4. c.handed = handedOver /\ c.token = token /\ c.by = d
    BY DEF c
  <2>5. c \in Inbox!Claimed
    <3>1. handedOver \subseteq Requests
      BY <1>1 DEF Inbox!Dispatch
    <3> QED BY <2>2, <3>1 DEF c, Inbox!Claimed
  <2>6. \A q \in handedOver :
          q.kind \in kinds /\ \E r \in dispatches : r.q = q /\ Inbox!Pending(r)
    BY <1>1
  <2>7. ASSUME NEW s \in dispatches', s \notin dispatches
        PROVE  s.state # "delivered" /\ (Inbox!Pending(s) => s.q \in handedOver)
    <3>1. PICK r \in taken : s = Inbox!TakenBy(r, token)
      BY <1>2, <1>4, <2>7
    <3>2. s.q = r.q /\ s.state = IF r.q.readable THEN r.state ELSE "refused"
      BY <1>1, <2>2, <3>1, WrittenFields
    <3> QED BY <1>1, <3>2 DEF Inbox!Pending
  <2> HIDE DEF handedOver
  <2> QED BY <1>4, <2>2, <2>3, <2>4, <2>5, <2>6, <2>7
<1> HIDE DEF c, taken
<1> QED BY <1>3, <1>4 DEF Inbox!Claim, c, taken

\* An ack settles rows, and delivers none it does not say was.
LEMMA AckFacts ==
  ASSUME Inbox!TypeOK, NEW c, NEW qs, NEW delivered, Inbox!Ack(c, qs, delivered)
  PROVE  \A s \in dispatches' :
           \/ s \in dispatches
           \/ ~Inbox!Pending(s) /\ (s.state = "delivered" => s.q \in delivered)
<1> DEFINE verdict(r) == IF r.q \in delivered THEN "delivered" ELSE "refused"
<1>1. dispatches' = (dispatches \ Inbox!Ackable(c, qs))
                      \union {Inbox!Settled(r, verdict(r), c.token) : r \in Inbox!Ackable(c, qs)}
  BY DEF Inbox!Ack
<1>2. c.token \in Tokens
  BY DEF Inbox!Ack, Inbox!TypeOK, Inbox!Claimed
<1>3. SUFFICES ASSUME NEW s \in dispatches', s \notin dispatches
               PROVE  ~Inbox!Pending(s) /\ (s.state = "delivered" => s.q \in delivered)
  OBVIOUS
<1>4. PICK r \in Inbox!Ackable(c, qs) : s = Inbox!Settled(r, verdict(r), c.token)
  BY <1>1, <1>3
<1>5. r \in Inbox!Dispatch
  BY DEF Inbox!Ackable, Inbox!TypeOK
<1>6. s.q = r.q /\ s.state = verdict(r)
  BY <1>2, <1>4, <1>5, WrittenFields
<1> QED BY <1>6 DEF Inbox!Pending

\* The calls about an approval refuse requests, and do nothing else to them.
LEMMA MarkFacts ==
  ASSUME Inbox!TypeOK, NEW a, Inbox!OpenApproval(a) \/ Inbox!CloseApproval(a)
  PROVE  \A s \in dispatches' : s \in dispatches \/ s.state = "refused"
<1>1. CASE Inbox!OpenApproval(a)
  BY <1>1 DEF Inbox!OpenApproval, Inbox!KeptDispatches
<1>2. CASE Inbox!CloseApproval(a)
  <2>1. dispatches' = (dispatches \ Inbox!WaitingAnswers(a))
                        \union {Inbox!Settled(r, "refused", 0) : r \in Inbox!WaitingAnswers(a)}
    BY <1>2 DEF Inbox!CloseApproval
  <2>2. \A r \in Inbox!WaitingAnswers(a) : r \in Inbox!Dispatch
    BY DEF Inbox!WaitingAnswers, Inbox!TypeOK
  <2> QED BY <2>1, <2>2, WrittenFields
<1> QED BY <1>1, <1>2

\* Time changes ages alone.
LEMMA AgeFacts ==
  ASSUME Inbox!TypeOK, Inbox!Tick
  PROVE  \A s \in dispatches' : \E r \in dispatches :
           s.q = r.q /\ s.token = r.token /\ s.state = r.state
<1>1. Proved!Tick /\ Proved!TypeOK
  <2>1. \A age, limit : Proved!Older(age, limit) = Inbox!Older(age, limit)
    BY DEF Proved!Older, Inbox!Older
  <2> QED BY <2>1, SameReads, SameTypes DEF Proved!Tick, Inbox!Tick
<1> QED BY <1>1, InboxConstants, Proved!TickFacts

-----------------------------------------------------------------------------
(* The passes, field by field. *)

PassOf(pc, seen, caughtUp, taking, claim, todo, results, delivered, relaying) ==
  [pc |-> pc, seen |-> seen, caughtUp |-> caughtUp, takes |-> taking, claim |-> claim,
   todo |-> todo, results |-> results, delivered |-> delivered, relaying |-> relaying]

\* A pass that has done with the phone's requests, or has not begun.
Over(p) ==
  /\ p \in Pass /\ p.pc \in {"idle", "open", "close"} /\ ~p.caughtUp
  /\ p.todo = {} /\ p.results = {} /\ p.delivered = {}

\* No pass is over,
LEMMA NoPassFacts == Over(NoPass) /\ NoPass.pc = "idle"
<1>1. NoClaim \in AClaim
  BY DEF AClaim
<1> QED BY <1>1, Zenon DEF NoPass, Pass, Over

\* What is left of a pass relays approvals, and no request.
LEMMA RelayingFacts ==
  ASSUME NEW pc \in {"open", "close"}, NEW taking \in BOOLEAN, NEW relaying \in SUBSET Approvals
  PROVE  /\ Over([NoPass EXCEPT !.pc = pc, !.takes = taking, !.relaying = relaying])
         /\ Over([NoPass EXCEPT !.pc = pc, !.relaying = relaying])
<1>1. NoClaim \in AClaim
  BY DEF AClaim
<1>2. [NoPass EXCEPT !.pc = pc, !.takes = taking, !.relaying = relaying]
        = PassOf(pc, {}, FALSE, taking, NoClaim, {}, {}, {}, relaying)
  <2>1. ASSUME NEW n, n = [NoPass EXCEPT !.pc = pc, !.takes = taking, !.relaying = relaying]
        PROVE  n = PassOf(pc, {}, FALSE, taking, NoClaim, {}, {}, {}, relaying)
    BY <2>1 DEF NoPass, PassOf
  <2> QED BY <2>1
<1>3. [NoPass EXCEPT !.pc = pc, !.relaying = relaying]
        = PassOf(pc, {}, FALSE, FALSE, NoClaim, {}, {}, {}, relaying)
  <2>1. ASSUME NEW n, n = [NoPass EXCEPT !.pc = pc, !.relaying = relaying]
        PROVE  n = PassOf(pc, {}, FALSE, FALSE, NoClaim, {}, {}, {}, relaying)
    BY <2>1 DEF NoPass, PassOf
  <2> QED BY <2>1
<1>4. ASSUME NEW told \in BOOLEAN
      PROVE  Over(PassOf(pc, {}, FALSE, told, NoClaim, {}, {}, {}, relaying))
  BY <1>1 DEF PassOf, Pass, Over
<1> QED BY <1>2, <1>3, <1>4

\* so is what is left once all that was to be opened is,
LEMMA ClosesFacts ==
  ASSUME NEW m, NEW taking, NEW as
  PROVE  Over(Closes(m, taking, as))
<1>1. ToClose(m, taking, as) \subseteq Approvals
  BY DEF ToClose
<1> QED BY <1>1, NoPassFacts, RelayingFacts DEF Closes

\* and so is what comes after the requests.
LEMMA RelaysFacts ==
  ASSUME TypeOK, NEW m \in Macs
  PROVE  Over(Relaying(m))
<1>1. ToOpen(m) \subseteq Approvals /\ takes[m] \in BOOLEAN
  BY DEF ToOpen, TypeOK
<1> QED BY <1>1, ClosesFacts, RelayingFacts DEF Relaying

\* What the other writes of a pass change.
LEMMA BegunIs ==
  ASSUME NEW p \in Pass, NEW pc, NEW seen, NEW caughtUp, NEW taking, NEW n,
         n = [p EXCEPT !.pc = pc, !.seen = seen, !.caughtUp = caughtUp, !.takes = taking]
  PROVE  n = PassOf(pc, seen, caughtUp, taking, p.claim, p.todo, p.results, p.delivered, p.relaying)
BY DEF Pass, PassOf

\* A move,
LEMMA MovedIs ==
  ASSUME NEW p \in Pass, NEW pc, NEW n, n = [p EXCEPT !.pc = pc]
  PROVE  n = PassOf(pc, p.seen, p.caughtUp, p.takes, p.claim, p.todo, p.results, p.delivered,
                    p.relaying)
BY DEF Pass, PassOf

\* a claim,
LEMMA ClaimedIs ==
  ASSUME NEW p \in Pass, NEW pc, NEW claim, NEW todo, NEW n,
         n = [p EXCEPT !.pc = pc, !.claim = claim, !.todo = todo]
  PROVE  n = PassOf(pc, p.seen, p.caughtUp, p.takes, claim, todo, p.results, p.delivered,
                    p.relaying)
BY DEF Pass, PassOf

\* a result,
LEMMA AppliedIs ==
  ASSUME NEW p \in Pass, NEW todo, NEW results, NEW delivered, NEW n,
         n = [p EXCEPT !.todo = todo, !.results = results, !.delivered = delivered]
  PROVE  n = PassOf(p.pc, p.seen, p.caughtUp, p.takes, p.claim, todo, results, delivered,
                    p.relaying)
BY DEF Pass, PassOf

\* a request left out,
LEMMA LeftOutIs ==
  ASSUME NEW p \in Pass, NEW todo, NEW n, n = [p EXCEPT !.todo = todo]
  PROVE  n = PassOf(p.pc, p.seen, p.caughtUp, p.takes, p.claim, todo, p.results, p.delivered,
                    p.relaying)
BY DEF Pass, PassOf

\* and an approval relayed.
LEMMA RelayedIs ==
  ASSUME NEW p \in Pass, NEW relaying, NEW n, n = [p EXCEPT !.relaying = relaying]
  PROVE  n = PassOf(p.pc, p.seen, p.caughtUp, p.takes, p.claim, p.todo, p.results, p.delivered,
                    relaying)
BY DEF Pass, PassOf

\* A pass of typed fields is typed,
LEMMA PassOfType ==
  ASSUME NEW pc \in {"idle", "held", "claim", "apply", "open", "close"}, NEW seen \in SUBSET Turns,
         NEW caughtUp \in BOOLEAN, NEW taking \in BOOLEAN, NEW claim \in AClaim,
         NEW todo \in SUBSET Requests, NEW results \in SUBSET Requests,
         NEW delivered \in SUBSET Requests, NEW relaying \in SUBSET Approvals
  PROVE  /\ PassOf(pc, seen, caughtUp, taking, claim, todo, results, delivered, relaying) \in Pass
         /\ Over(PassOf(pc, seen, caughtUp, taking, claim, todo, results, delivered, relaying)) <=>
              /\ pc \in {"idle", "open", "close"} /\ ~caughtUp
              /\ todo = {} /\ results = {} /\ delivered = {}
BY DEF Pass, PassOf, Over

\* and has typed fields.
LEMMA PassTypes ==
  ASSUME NEW p \in Pass
  PROVE  /\ p.pc \in {"idle", "held", "claim", "apply", "open", "close"}
         /\ p.seen \in SUBSET Turns /\ p.caughtUp \in BOOLEAN /\ p.takes \in BOOLEAN
         /\ p.claim \in AClaim /\ p.todo \in SUBSET Requests /\ p.results \in SUBSET Requests
         /\ p.delivered \in SUBSET Requests /\ p.relaying \in SUBSET Approvals
BY DEF Pass

-----------------------------------------------------------------------------
(* What a Mac's step does to its pass. *)

AnAsk == [status : {"none", "pending", "resolved", "interrupted"}, decision : SUBSET Requests,
           relay : {"none", "opened", "closed"}]

MacTyped ==
  /\ log \subseteq Turns
  /\ takes \in [Macs -> BOOLEAN]
  /\ held \in [Macs -> SUBSET Turns]
  /\ asks \in [Approvals -> AnAsk]
  /\ heldAck \in [Macs -> [claim : AClaim, results : SUBSET Requests, delivered : SUBSET Requests]]
  /\ pass \in [Macs -> Pass]
  /\ ran \in [Turns -> SUBSET Macs]
  /\ handed \subseteq Requests

\* What "delivered" promises of a request.
Done(q) ==
  /\ q.kind = "turn" => \E m \in Macs : q \in held[m]
  /\ q.kind = "answer" => asks[q.approval].status = "resolved" /\ q \in asks[q.approval].decision

\* An ack is of requests its claim handed over, and there is something in one that is kept.
Handled(m) ==
  /\ heldAck[m] # NoAck => heldAck[m].results # {}
  /\ heldAck[m].results \subseteq heldAck[m].claim.handed
  /\ heldAck[m].delivered \subseteq heldAck[m].results
  /\ pass[m].pc \in {"idle", "open", "close"} => Over(pass[m])
  /\ pass[m].pc = "held" => heldAck[m] # NoAck
  /\ pass[m].pc \in {"held", "claim"} =>
       pass[m].todo = {} /\ pass[m].results = {} /\ pass[m].delivered = {}
  /\ pass[m].pc = "apply" => /\ pass[m].todo \union pass[m].results \subseteq pass[m].claim.handed
                            /\ pass[m].delivered \subseteq pass[m].results

\* The pass begins.
Begins(m) ==
  /\ pass[m].pc = "idle" /\ heldAck'[m] = heldAck[m]
  /\ pass'[m].pc \in {"held", "claim"} /\ (pass'[m].pc = "held" => heldAck[m] # NoAck)
  /\ pass'[m].todo = {} /\ pass'[m].results = {} /\ pass'[m].delivered = {}
  /\ pass'[m].caughtUp => pass'[m].seen \subseteq held'[m]

\* The kept ack arrives.
Resends(m) ==
  /\ pass[m].pc = "held" /\ pass'[m].pc = "claim" /\ heldAck'[m] = NoAck
  /\ pass'[m].todo = {} /\ pass'[m].results = {} /\ pass'[m].delivered = {}
  /\ pass'[m].seen = pass[m].seen /\ pass'[m].caughtUp = pass[m].caughtUp

\* A claim is answered.
Takes(m) ==
  /\ pass[m].pc = "claim" /\ pass'[m].pc = "apply" /\ heldAck'[m] = heldAck[m]
  /\ pass'[m].todo = pass'[m].claim.handed /\ pass'[m].results = {} /\ pass'[m].delivered = {}
  /\ pass'[m].seen = pass[m].seen /\ pass'[m].caughtUp = pass[m].caughtUp
  /\ \A q \in pass'[m].todo : q.kind = "turn" => pass[m].caughtUp

\* One of its requests is applied, or not.
Applies(m) ==
  /\ pass[m].pc = "apply" /\ pass'[m].pc = "apply" /\ heldAck'[m] = heldAck[m]
  /\ pass'[m].claim = pass[m].claim
  /\ pass'[m].todo \subseteq pass[m].todo
  /\ pass[m].results \subseteq pass'[m].results
  /\ pass'[m].results \subseteq pass[m].results \union pass[m].todo
  /\ \A q \in pass'[m].delivered : q \in pass[m].delivered \/ (q \in pass'[m].results /\ Done(q)')
  /\ pass'[m].seen = pass[m].seen /\ pass'[m].caughtUp = pass[m].caughtUp

\* The pass is done with requests, and an ack that was lost is kept.
Ends(m) ==
  /\ Over(pass'[m])
  /\ \/ heldAck'[m] \in {heldAck[m], NoAck}
     \/ /\ pass[m].pc = "apply" /\ pass[m].results # {}
        /\ heldAck'[m] = [claim |-> pass[m].claim, results |-> pass[m].results,
                          delivered |-> pass[m].delivered]

Stands(m) == pass'[m] = pass[m] /\ heldAck'[m] = heldAck[m]

Moves(m) ==
  /\ \A n \in Macs \ {m} : Stands(n)
  /\ Stands(m) \/ Begins(m) \/ Resends(m) \/ Takes(m) \/ Applies(m) \/ Ends(m)

\* The Macs' part of TypeOK, and its empty ack.
LEMMA MacTypes == TypeOK => MacTyped
BY DEF TypeOK, MacTyped, AnAsk

LEMMA NoAckType ==
  NoAck \in [claim : AClaim, results : SUBSET Requests, delivered : SUBSET Requests]
BY DEF NoAck, AClaim

\* A pass that begins has all of the log it saw, or does not say it caught up.
LEMMA PushPullFacts ==
  ASSUME TypeOK, NEW m \in Macs, Handled(m), PushPull(m)
  PROVE  MacTyped' /\ Moves(m)
<1> DEFINE p == pass[m]
           pc == IF heldAck[m] = NoAck THEN "claim" ELSE "held"
<1>1. PICK caughtUp \in BOOLEAN, some \in SUBSET log' :
        /\ caughtUp => some = log'
        /\ held' = [held EXCEPT ![m] = @ \union some]
        /\ pass' = [pass EXCEPT ![m] = [@ EXCEPT !.pc = pc, !.seen = log', !.caughtUp = caughtUp,
                                                !.takes = takes[m]]]
  BY DEF PushPull
<1>2. log' \subseteq Turns
  BY DEF PushPull, TypeOK
<1>3. p \in Pass /\ p.pc = "idle" /\ Over(p) /\ takes[m] \in BOOLEAN
  BY DEF TypeOK, PushPull, Handled
<1>4. pass'[m] = PassOf(pc, log', caughtUp, takes[m], p.claim, p.todo, p.results, p.delivered,
                        p.relaying)
  <2>1. pass'[m] = [p EXCEPT !.pc = pc, !.seen = log', !.caughtUp = caughtUp, !.takes = takes[m]]
    BY <1>1 DEF TypeOK
  <2>2. p \in Pass
    BY <1>3
  <2> HIDE DEF p, pc
  <2> QED BY <2>1, <2>2, BegunIs
<1>5. pass'[m] \in Pass
  BY <1>2, <1>3, <1>4, PassTypes, PassOfType
<1>6. pass' = [pass EXCEPT ![m] = pass'[m]] /\ held' \in [Macs -> SUBSET Turns]
  BY <1>1, <1>2 DEF TypeOK
<1>7. MacTyped'
  BY <1>2, <1>5, <1>6 DEF MacTyped, AnAsk, TypeOK, PushPull
<1>8. Begins(m)
  <2>1. log' \subseteq held'[m] \/ ~caughtUp
    BY <1>1 DEF TypeOK
  <2>2. heldAck'[m] = heldAck[m] /\ pc \in {"held", "claim"} /\ (pc = "held" => heldAck[m] # NoAck)
    BY DEF PushPull
  <2>3. /\ pass'[m].pc = pc /\ pass'[m].seen = log' /\ pass'[m].caughtUp = caughtUp
        /\ pass'[m].todo = p.todo /\ pass'[m].results = p.results
        /\ pass'[m].delivered = p.delivered
    BY <1>4 DEF PassOf
  <2> HIDE DEF pc
  <2> QED BY <1>3, <2>1, <2>2, <2>3 DEF Begins, Over
<1>9. \A n \in Macs \ {m} : Stands(n)
  BY <1>6 DEF TypeOK, PushPull, Stands
<1> QED BY <1>7, <1>8, <1>9 DEF Moves

\* The pass goes over to the approvals.
LEMMA RelaysMove ==
  ASSUME TypeOK, NEW m \in Macs, Relays(m)
  PROVE  /\ pass' \in [Macs -> Pass] /\ Over(pass'[m])
         /\ \A n \in Macs \ {m} : pass'[n] = pass[n]
BY RelaysFacts DEF Relays, TypeOK, Over

\* A kept ack arrives and is let go of, or stays.
LEMMA AckHeldFacts ==
  ASSUME TypeOK, NEW m \in Macs, Handled(m), AckHeld(m)
  PROVE  MacTyped' /\ Moves(m)
<1> DEFINE p == pass[m]
<1>1. p \in Pass /\ p.pc = "held" /\ p.todo = {} /\ p.results = {} /\ p.delivered = {}
  BY DEF TypeOK, AckHeld, Handled
<1>2. CASE heldAck' = [heldAck EXCEPT ![m] = NoAck] /\ Goes(m, "claim")
  <2>1. pass' = [pass EXCEPT ![m] = pass'[m]] /\ pass'[m] = [p EXCEPT !.pc = "claim"]
    BY <1>2 DEF Goes, TypeOK
  <2>2. pass'[m] = PassOf("claim", p.seen, p.caughtUp, p.takes, p.claim, p.todo, p.results,
                          p.delivered, p.relaying)
    BY <1>1, <2>1, MovedIs
  <2>3. pass'[m] \in Pass
    BY <1>1, <2>2, PassTypes, PassOfType
  <2>4. pass' \in [Macs -> Pass] /\ \A n \in Macs \ {m} : Stands(n)
    BY <1>2, <2>1, <2>3 DEF TypeOK, Stands
  <2>5. MacTyped'
    BY <1>2, <2>4, NoAckType DEF MacTyped, AnAsk, TypeOK, AckHeld
  <2>6. heldAck'[m] = NoAck
    BY <1>2 DEF TypeOK
  <2>7. Resends(m)
    BY <1>1, <2>2, <2>6 DEF Resends, PassOf
  <2> QED BY <2>4, <2>5, <2>7 DEF Moves
<1>3. CASE Relays(m) /\ UNCHANGED heldAck
  <2>1. MacTyped'
    BY <1>3, RelaysMove DEF MacTyped, AnAsk, TypeOK, AckHeld
  <2> QED BY <1>3, <2>1, RelaysMove DEF Moves, Ends, Stands
<1> QED BY <1>2, <1>3 DEF AckHeld

\* A claim that has a request has it applied next, a turn only by a Mac that caught up.
LEMMA ClaimMoves ==
  ASSUME TypeOK, NEW m \in Macs, Handled(m), Claim(m)
  PROVE  MacTyped' /\ Moves(m)
<1> DEFINE p == pass[m]
<1>1. p \in Pass /\ p.pc = "claim" /\ p.todo = {} /\ p.results = {} /\ p.delivered = {}
  BY DEF TypeOK, Claim, Handled
<1>2. Inbox!TypeOK /\ (claims' # claims => \E kinds : Inbox!Claim(m, kinds))
  <2>1. Inbox!Claim(m, KindsOf(m)) \/ UNCHANGED claims
    BY DEF Claim, Lost, inboxVars
  <2> QED BY <2>1 DEF TypeOK
<1>3. claims' # claims => NewClaim \in Inbox!Claimed
  BY <1>2, ClaimFacts
<1>4. handed' \subseteq Requests
  BY <1>3 DEF Claim, TypeOK, Inbox!Claimed
<1>5. ASSUME pass' \in [Macs -> Pass]
      PROVE  MacTyped'
  BY <1>4, <1>5 DEF MacTyped, AnAsk, TypeOK, Claim
<1>6. heldAck' = heldAck
  BY DEF Claim
<1>7. CASE Relays(m)
  BY <1>5, <1>6, <1>7, RelaysMove DEF Moves, Ends, Stands
<1>8. CASE /\ Inbox!Claim(m, KindsOf(m)) /\ claims' # claims
           /\ pass' = [pass EXCEPT ![m] = [@ EXCEPT !.pc = "apply", !.claim = NewClaim,
                                                   !.todo = NewClaim.handed]]
  <2>1. pass' = [pass EXCEPT ![m] = pass'[m]]
        /\ pass'[m] = [p EXCEPT !.pc = "apply", !.claim = NewClaim, !.todo = NewClaim.handed]
    BY <1>8 DEF TypeOK
  <2>2. p \in Pass
    BY <1>1
  <2>3. pass'[m] = PassOf("apply", p.seen, p.caughtUp, p.takes, NewClaim, NewClaim.handed,
                          p.results, p.delivered, p.relaying)
    BY <2>1, <2>2, ClaimedIs
  <2>4. NewClaim \in AClaim /\ NewClaim.handed \in SUBSET Requests
    BY <1>3, <1>8 DEF AClaim, Inbox!Claimed
  <2>5. pass'[m] \in Pass
    BY <2>2, <2>3, <2>4, PassTypes, PassOfType
  <2>6. pass' \in [Macs -> Pass] /\ \A n \in Macs \ {m} : Stands(n)
    BY <1>6, <2>1, <2>5 DEF TypeOK, Stands
  <2>7. \A q \in NewClaim.handed : q.kind \in KindsOf(m)
    BY <1>2, <1>8, ClaimFacts
  <2>8. \A q \in NewClaim.handed : q.kind = "turn" => p.caughtUp
    <3>1. p.caughtUp \/ KindsOf(m) = {"capture"}
      BY DEF KindsOf
    <3> QED BY <2>7, <3>1
  <2>9. /\ pass'[m].pc = "apply" /\ pass'[m].seen = p.seen /\ pass'[m].caughtUp = p.caughtUp
        /\ pass'[m].claim = NewClaim /\ pass'[m].todo = NewClaim.handed
        /\ pass'[m].results = p.results /\ pass'[m].delivered = p.delivered
    BY <2>3 DEF PassOf
  <2>10. Takes(m)
    BY <1>1, <1>6, <2>8, <2>9 DEF Takes
  <2> QED BY <1>5, <2>6, <2>10 DEF Moves
<1>9. CASE /\ Inbox!Claim(m, KindsOf(m)) /\ claims' = claims
           /\ pass' = [pass EXCEPT ![m] = Relaying(m)]
  BY <1>7, <1>9 DEF Relays
<1> QED BY <1>7, <1>8, <1>9 DEF Claim

\* One request of a claim done with.
LEMMA ResultFacts ==
  ASSUME pass \in [Macs -> Pass], NEW m \in Macs, NEW q \in pass[m].todo, pass[m].pc = "apply",
         NEW delivered \in BOOLEAN, Result(m, q, delivered), UNCHANGED heldAck,
         delivered => Done(q)'
  PROVE  pass' \in [Macs -> Pass] /\ Moves(m)
<1> DEFINE p == pass[m]
           more == IF delivered THEN p.delivered \union {q} ELSE p.delivered
<1>1. p \in Pass /\ q \in Requests
  BY DEF Pass
<1> DEFINE after == [p EXCEPT !.todo = p.todo \ {q}, !.results = p.results \union {q},
                              !.delivered = more]
<1>2. pass' = [pass EXCEPT ![m] = after]
  BY DEF Result
<1>3. pass'[m] = PassOf(p.pc, p.seen, p.caughtUp, p.takes, p.claim, p.todo \ {q},
                        p.results \union {q}, more, p.relaying)
      /\ pass' = [pass EXCEPT ![m] = pass'[m]]
  <2>1. p \in Pass
    BY <1>1
  <2>2. after = PassOf(p.pc, p.seen, p.caughtUp, p.takes, p.claim, p.todo \ {q},
                       p.results \union {q}, more, p.relaying)
    <3> HIDE DEF p, more
    <3> QED BY <2>1, AppliedIs
  <2> HIDE DEF after
  <2>3. pass'[m] = after
    BY <1>2
  <2> QED BY <1>2, <2>2, <2>3
<1>4. pass'[m] \in Pass
  <2>1. more \in SUBSET Requests
    BY <1>1 DEF Pass
  <2> HIDE DEF more
  <2> QED BY <1>1, <1>3, <2>1, PassTypes, PassOfType
<1>5. /\ pass'[m].pc = p.pc /\ pass'[m].seen = p.seen /\ pass'[m].caughtUp = p.caughtUp
      /\ pass'[m].claim = p.claim /\ pass'[m].todo = p.todo \ {q}
      /\ pass'[m].results = p.results \union {q} /\ pass'[m].delivered = more
  BY <1>3 DEF PassOf
<1>6. Applies(m)
  BY <1>5 DEF Applies
<1>7. pass' \in [Macs -> Pass] /\ \A n \in Macs \ {m} : Stands(n)
  BY <1>3, <1>4 DEF Stands
<1> QED BY <1>6, <1>7 DEF Moves

\* A turn said to be delivered is one its threads hold now,
LEMMA ApplyTurnFacts ==
  ASSUME TypeOK, NEW m \in Macs, NEW q \in Requests, ApplyTurn(m, q)
  PROVE  MacTyped' /\ Moves(m)
<1>1. /\ pass \in [Macs -> Pass] /\ q \in pass[m].todo /\ pass[m].pc = "apply" /\ q.kind = "turn"
      /\ UNCHANGED heldAck
  BY DEF TypeOK, ApplyTurn
<1>2. q \in Turns
  BY <1>1 DEF Turns
<1>3. CASE UNCHANGED <<held, ran>> /\ q \in held[m] /\ Result(m, q, TRUE)
  <2>1. Done(q)'
    BY <1>1, <1>3 DEF Done
  <2>2. pass' \in [Macs -> Pass] /\ Moves(m)
    BY <1>1, <1>3, <2>1, ResultFacts
  <2> QED BY <1>3, <2>2 DEF MacTyped, AnAsk, TypeOK, ApplyTurn
<1>4. CASE UNCHANGED <<held, ran>> /\ Result(m, q, FALSE)
  <2>1. pass' \in [Macs -> Pass] /\ Moves(m)
    BY <1>1, <1>4, ResultFacts
  <2> QED BY <1>4, <2>1 DEF MacTyped, AnAsk, TypeOK, ApplyTurn
<1>5. CASE /\ held' = [held EXCEPT ![m] = @ \union {q}]
           /\ ran' = [ran EXCEPT ![q] = @ \union {m}]
           /\ Result(m, q, TRUE)
  <2>1. held' \in [Macs -> SUBSET Turns] /\ q \in held'[m]
    BY <1>2, <1>5 DEF TypeOK
  <2>2. ran' \in [Turns -> SUBSET Macs]
    BY <1>2, <1>5 DEF TypeOK
  <2>3. Done(q)'
    BY <1>1, <2>1 DEF Done
  <2>4. pass' \in [Macs -> Pass] /\ Moves(m)
    BY <1>1, <1>5, <2>3, ResultFacts
  <2> QED BY <2>1, <2>2, <2>4 DEF MacTyped, AnAsk, TypeOK, ApplyTurn
<1> QED BY <1>3, <1>4, <1>5 DEF ApplyTurn

\* an answer said to be delivered is what was decided,
LEMMA ApplyAnswerFacts ==
  ASSUME TypeOK, NEW m \in Macs, NEW q \in Requests, ApplyAnswer(m, q)
  PROVE  MacTyped' /\ Moves(m)
<1>1. /\ pass \in [Macs -> Pass] /\ q \in pass[m].todo /\ pass[m].pc = "apply" /\ q.kind = "answer"
      /\ UNCHANGED heldAck
  BY DEF TypeOK, ApplyAnswer
<1>2. q.approval \in Approvals
  BY <1>1, PhoneAssumption
<1> DEFINE ask == asks[q.approval]
<1>3. ASSUME NEW decision \in SUBSET AnswersTo(q.approval), q \in decision,
             asks' = [asks EXCEPT ![q.approval] =
                       [@ EXCEPT !.status = "resolved", !.decision = decision]],
             Result(m, q, TRUE)
      PROVE  MacTyped' /\ Moves(m)
  <2>1. /\ asks'[q.approval].status = "resolved" /\ q \in asks'[q.approval].decision
        /\ asks' \in [Approvals -> AnAsk]
    <3> DEFINE resolved == [ask EXCEPT !.status = "resolved", !.decision = decision]
    <3>0. ask \in AnAsk /\ decision \in SUBSET Requests
      BY <1>2 DEF TypeOK, AnAsk, AnswersTo
    <3>1. resolved \in AnAsk /\ resolved.status = "resolved" /\ q \in resolved.decision
      BY <1>3, <3>0 DEF AnAsk
    <3>2. asks' = [asks EXCEPT ![q.approval] = resolved]
      BY <1>3, Zenon
    <3> HIDE DEF resolved
    <3> QED BY <1>2, <3>1, <3>2 DEF TypeOK, AnAsk
  <2>2. Done(q)'
    BY <1>1, <2>1 DEF Done
  <2>3. pass' \in [Macs -> Pass] /\ Moves(m)
    BY <1>1, <1>3, <2>2, ResultFacts
  <2> QED BY <2>1, <2>3 DEF MacTyped, AnAsk, TypeOK, ApplyAnswer
<1>4. CASE /\ Result(m, q, ask.status = "resolved" /\ q \in ask.decision)
           /\ UNCHANGED asks
  <2>1. ask.status = "resolved" /\ q \in ask.decision => Done(q)'
    BY <1>1, <1>4 DEF Done
  <2>2. pass' \in [Macs -> Pass] /\ Moves(m)
    BY <1>1, <1>4, <2>1, ResultFacts
  <2> QED BY <1>4, <2>2 DEF MacTyped, AnAsk, TypeOK, ApplyAnswer
<1> QED BY <1>3, <1>4 DEF ApplyAnswer

\* and a line, or a request left out, changes nothing but the pass.
LEMMA ApplyOtherFacts ==
  ASSUME TypeOK, NEW m \in Macs, NEW q \in Requests, ApplyCapture(m, q) \/ ApplyThrows(m, q)
  PROVE  MacTyped' /\ Moves(m)
<1>1. pass \in [Macs -> Pass] /\ q \in pass[m].todo /\ pass[m].pc = "apply" /\ UNCHANGED heldAck
  BY DEF TypeOK, ApplyCapture, ApplyThrows
<1>2. CASE ApplyCapture(m, q)
  <2>1. Done(q)' /\ Result(m, q, TRUE)
    BY <1>2 DEF ApplyCapture, Done
  <2>2. pass' \in [Macs -> Pass] /\ Moves(m)
    BY <1>1, <2>1, ResultFacts
  <2> QED BY <1>2, <2>2 DEF MacTyped, AnAsk, TypeOK, ApplyCapture
<1>3. CASE ApplyThrows(m, q)
  <2> DEFINE p == pass[m]
  <2>1. pass' = [pass EXCEPT ![m] = pass'[m]] /\ pass'[m] = [p EXCEPT !.todo = p.todo \ {q}]
    BY <1>1, <1>3 DEF ApplyThrows
  <2>2. p \in Pass
    BY <1>1
  <2>3. pass'[m] = PassOf(p.pc, p.seen, p.caughtUp, p.takes, p.claim, p.todo \ {q}, p.results,
                          p.delivered, p.relaying)
    BY <2>1, <2>2, LeftOutIs
  <2>4. pass'[m] \in Pass
    BY <2>2, <2>3, PassTypes, PassOfType
  <2>5. pass' \in [Macs -> Pass] /\ \A n \in Macs \ {m} : Stands(n)
    BY <1>1, <2>1, <2>4 DEF Stands
  <2>6. Applies(m)
    BY <1>1, <2>3 DEF Applies, PassOf
  <2>7. MacTyped'
    BY <1>3, <2>5 DEF MacTyped, AnAsk, TypeOK, ApplyThrows
  <2> QED BY <2>5, <2>6, <2>7 DEF Moves
<1> QED BY <1>2, <1>3

\* An ack ends a pass's requests, and is kept if it may be lost.
LEMMA AckMoves ==
  ASSUME TypeOK, NEW m \in Macs, Ack(m)
  PROVE  MacTyped' /\ Moves(m)
<1> DEFINE p == pass[m]
           kept == [claim |-> p.claim, results |-> p.results, delivered |-> p.delivered]
<1>1. Relays(m) /\ p.pc = "apply"
  BY DEF Ack
<1>2. \/ UNCHANGED heldAck
      \/ p.results # {} /\ heldAck' = [heldAck EXCEPT ![m] = kept]
  BY DEF Ack
<1>3. kept \in [claim : AClaim, results : SUBSET Requests, delivered : SUBSET Requests]
  BY DEF TypeOK, Pass
<1>4. /\ heldAck' \in [Macs -> [claim : AClaim, results : SUBSET Requests,
                               delivered : SUBSET Requests]]
      /\ \A n \in Macs \ {m} : heldAck'[n] = heldAck[n]
      /\ heldAck'[m] = heldAck[m] \/ (p.results # {} /\ heldAck'[m] = kept)
  <2> DEFINE HeldAcks == [claim : AClaim, results : SUBSET Requests, delivered : SUBSET Requests]
  <2>1. heldAck \in [Macs -> HeldAcks]
    BY DEF TypeOK
  <2> HIDE DEF kept, HeldAcks
  <2>2. /\ heldAck' \in [Macs -> HeldAcks]
        /\ \A n \in Macs \ {m} : heldAck'[n] = heldAck[n]
        /\ heldAck'[m] = heldAck[m] \/ (p.results # {} /\ heldAck'[m] = kept)
    <3>1. kept \in HeldAcks
      BY <1>3 DEF HeldAcks
    <3> QED BY <1>2, <2>1, <3>1
  <2> QED BY <2>2 DEF HeldAcks
<1>5. MacTyped'
  BY <1>1, <1>4, RelaysMove DEF MacTyped, AnAsk, TypeOK, Ack
<1>6. Over(pass'[m]) /\ \A n \in Macs \ {m} : Stands(n)
  BY <1>1, <1>4, RelaysMove DEF Stands
<1>7. Ends(m)
  BY <1>1, <1>4, <1>6 DEF Ends
<1> QED BY <1>5, <1>6, <1>7 DEF Moves

\* The pass over the approvals goes on, or is over.
LEMMA RelayMoves ==
  ASSUME TypeOK, NEW m \in Macs, NEW a, Over(pass[m]), NEW next, UNCHANGED heldAck,
         pass' = [pass EXCEPT ![m] = next],
         Over(next) \/ next = [pass[m] EXCEPT !.relaying = pass[m].relaying \ {a}]
  PROVE  pass' \in [Macs -> Pass] /\ Moves(m)
<1> DEFINE p == pass[m]
<1>1. p \in Pass
  BY DEF TypeOK
<1>2. ASSUME next = [p EXCEPT !.relaying = p.relaying \ {a}]
      PROVE  Over(next)
  <2>1. next = PassOf(p.pc, p.seen, p.caughtUp, p.takes, p.claim, p.todo, p.results, p.delivered,
                      p.relaying \ {a})
    BY <1>1, <1>2, RelayedIs
  <2>2. p.relaying \ {a} \in SUBSET Approvals
    BY <1>1, PassTypes
  <2>3. Over(p)
    OBVIOUS
  <2>4. /\ p.pc \in {"idle", "open", "close"} /\ ~p.caughtUp
        /\ p.todo = {} /\ p.results = {} /\ p.delivered = {}
    BY <2>3 DEF Over
  <2> HIDE DEF p
  <2> QED BY <1>1, <2>1, <2>2, <2>4, PassTypes, PassOfType
<1>3. Over(next)
  BY <1>2
<1>4. next \in Pass
  BY <1>3 DEF Over
<1>5. pass' \in [Macs -> Pass] /\ pass'[m] = next /\ \A n \in Macs \ {m} : Stands(n)
  BY <1>4 DEF TypeOK, Stands
<1> QED BY <1>3, <1>5 DEF Moves, Ends

\* A mark changes no decision.
LEMMA MarkMoves ==
  ASSUME TypeOK, NEW m \in Macs, NEW a \in Approvals, Handled(m), Open(m, a) \/ Close(m, a)
  PROVE  /\ MacTyped' /\ Moves(m)
         /\ \A x \in Approvals : /\ asks'[x].status = asks[x].status
                               /\ asks'[x].decision = asks[x].decision
<1> DEFINE p == pass[m]
<1>1. Over(p) /\ UNCHANGED heldAck
  BY DEF Handled, Open, Close
<1>2. ASSUME NEW relay \in {"opened", "closed"}, asks' = [asks EXCEPT ![a].relay = relay]
      PROVE  /\ asks' \in [Approvals -> AnAsk]
             /\ \A x \in Approvals : /\ asks'[x].status = asks[x].status
                                   /\ asks'[x].decision = asks[x].decision
  BY <1>2 DEF TypeOK, AnAsk
<1>3. /\ asks' \in [Approvals -> AnAsk]
      /\ \A x \in Approvals : /\ asks'[x].status = asks[x].status
                            /\ asks'[x].decision = asks[x].decision
  <2>1. CASE UNCHANGED asks
    BY <2>1 DEF TypeOK, AnAsk
  <2>2. CASE \E relay \in {"opened", "closed"} : asks' = [asks EXCEPT ![a].relay = relay]
    BY <1>2, <2>2
  <2>3. \/ UNCHANGED asks
        \/ \E relay \in {"opened", "closed"} : asks' = [asks EXCEPT ![a].relay = relay]
    BY DEF Open, Close
  <2> QED BY <2>1, <2>2, <2>3
<1>4. \E next : /\ pass' = [pass EXCEPT ![m] = next]
                /\ Over(next) \/ next = [p EXCEPT !.relaying = p.relaying \ {a}]
  <2>1. CASE pass' = [pass EXCEPT ![m] = NoPass]
    BY <2>1, NoPassFacts
  <2>2. CASE pass' = [pass EXCEPT ![m] = [p EXCEPT !.relaying = p.relaying \ {a}]]
    BY <2>2
  <2>3. CASE pass' = [pass EXCEPT ![m] = Closes(m, p.takes, asks')]
    BY <2>3, ClosesFacts
  <2>4. CASE Open(m, a)
    <3>1. \/ pass' = [pass EXCEPT ![m] = IF p.relaying = {a} THEN Closes(m, p.takes, asks')
                                       ELSE [p EXCEPT !.relaying = p.relaying \ {a}]]
          \/ pass' = [pass EXCEPT ![m] = NoPass]
      BY <2>4 DEF Open
    <3> QED BY <2>1, <2>2, <2>3, <3>1
  <2>5. CASE Close(m, a)
    <3>1. \/ pass' = [pass EXCEPT ![m] = IF p.relaying = {a} THEN NoPass
                                       ELSE [p EXCEPT !.relaying = p.relaying \ {a}]]
          \/ pass' = [pass EXCEPT ![m] = NoPass]
      BY <2>5 DEF Close
    <3> QED BY <2>1, <2>2, <3>1
  <2> QED BY <2>4, <2>5
<1>5. pass' \in [Macs -> Pass] /\ Moves(m)
  BY <1>1, <1>4, RelayMoves
<1>6. UNCHANGED <<log, takes, held, heldAck, ran, handed>>
  BY DEF Open, Close
<1> QED BY <1>3, <1>5, <1>6 DEF MacTyped, AnAsk, TypeOK

\* What happens around a Mac's passes.
LEMMA AroundFacts ==
  ASSUME TypeOK, \/ \E a \in Approvals : Raise(a) \/ SettleHere(a)
                 \/ \E m \in Macs : Choose(m)
  PROVE  MacTyped' /\ \A m \in Macs : Stands(m)
<1>1. ASSUME NEW a \in Approvals, Raise(a)
      PROVE  asks' \in [Approvals -> AnAsk]
  BY <1>1 DEF Raise, TypeOK, AnAsk
<1>2. ASSUME NEW a \in Approvals, SettleHere(a)
      PROVE  asks' \in [Approvals -> AnAsk]
  <2>1. CASE asks' = [asks EXCEPT ![a].status = "interrupted"]
    <3>1. asks \in [Approvals -> AnAsk]
      BY DEF TypeOK, AnAsk
    <3>2. [asks[a] EXCEPT !.status = "interrupted"] \in AnAsk
      BY <3>1 DEF AnAsk
    <3> QED BY <2>1, <3>1, <3>2
  <2>2. ASSUME NEW decision \in SUBSET Requests,
               asks' = [asks EXCEPT ![a] = [@ EXCEPT !.status = "resolved", !.decision = decision]]
        PROVE  asks' \in [Approvals -> AnAsk]
    <3> DEFINE resolved == [asks[a] EXCEPT !.status = "resolved", !.decision = decision]
    <3>1. asks[a] \in AnAsk
      BY DEF TypeOK, AnAsk
    <3>2. resolved \in AnAsk
      BY <3>1 DEF AnAsk
    <3>3. asks' = [asks EXCEPT ![a] = resolved]
      BY <2>2, Zenon
    <3> HIDE DEF resolved
    <3> QED BY <3>2, <3>3 DEF TypeOK, AnAsk
  <2> QED BY <1>2, <2>1, <2>2 DEF SettleHere, AnswersTo
<1>3. ASSUME NEW a \in Approvals, Raise(a) \/ SettleHere(a)
      PROVE  MacTyped' /\ \A m \in Macs : Stands(m)
  <2>1. UNCHANGED <<log, takes, held, heldAck, pass, ran, handed>>
    BY <1>3 DEF Raise, SettleHere
  <2> QED BY <1>1, <1>2, <1>3, <2>1 DEF MacTyped, AnAsk, TypeOK, Stands
<1>4. ASSUME NEW m \in Macs, Choose(m)
      PROVE  MacTyped' /\ \A n \in Macs : Stands(n)
  BY <1>4 DEF Choose, MacTyped, AnAsk, TypeOK, Stands
<1> QED BY <1>3, <1>4

\* A restart forgets the pass and the ack.
LEMMA RestartFacts ==
  ASSUME TypeOK, NEW m \in Macs, Restart(m)
  PROVE  MacTyped' /\ Moves(m)
<1>1. pass' = [pass EXCEPT ![m] = NoPass] /\ heldAck' = [heldAck EXCEPT ![m] = NoAck]
  BY DEF Restart
<1>2. NoPass \in Pass /\ Over(NoPass)
  BY NoPassFacts DEF Over
<1>3. /\ pass' \in [Macs -> Pass] /\ pass'[m] = NoPass
      /\ heldAck' \in [Macs -> [claim : AClaim, results : SUBSET Requests,
                               delivered : SUBSET Requests]]
      /\ heldAck'[m] = NoAck
      /\ \A n \in Macs \ {m} : Stands(n)
  BY <1>1, <1>2, NoAckType DEF TypeOK, Stands
<1>4. asks' \in [Approvals -> AnAsk]
  <2>1. \A a \in Approvals : asks[a] \in AnAsk
    BY DEF TypeOK, AnAsk
  <2>2. \A a \in Approvals : [asks[a] EXCEPT !.status = "interrupted"] \in AnAsk
    BY <2>1 DEF AnAsk
  <2> QED BY <2>1, <2>2 DEF Restart
<1>5. MacTyped'
  BY <1>3, <1>4 DEF Restart, MacTyped, AnAsk, TypeOK
<1>6. Ends(m)
  BY <1>2, <1>3 DEF Ends
<1> QED BY <1>3, <1>5, <1>6 DEF Moves

\* A step of the phone, of the clock or of LetGo touches no Mac.
LEMMA PhoneSteps ==
  ASSUME \/ \E q \in Requests :
              \/ Ask(q) \/ Send(q) \/ Sent(q) \/ SendLost(q) \/ LateCreate(q)
              \/ DropLanded(q) \/ Cancel(q) \/ CancelLost(q)
         \/ Poll \/ PollLost
         \/ \E c \in claims : LetGo(c)
         \/ Tick
         \/ UNCHANGED vars
  PROVE  UNCHANGED macVars
<1>1. ASSUME NEW q \in Requests,
             \/ Ask(q) \/ Send(q) \/ Sent(q) \/ SendLost(q) \/ LateCreate(q)
             \/ DropLanded(q) \/ Cancel(q) \/ CancelLost(q)
      PROVE  UNCHANGED macVars
  BY <1>1 DEF Ask, Send, Sent, SendLost, LateCreate, DropLanded, Cancel, CancelLost
<1>2. ASSUME NEW c \in claims, LetGo(c)
      PROVE  UNCHANGED macVars
  BY <1>2 DEF LetGo
<1>3. Poll \/ PollLost => UNCHANGED macVars
  BY DEF Poll, PollLost
<1> QED BY <1>1, <1>2, <1>3 DEF Tick, vars

\* Every step keeps the Macs typed, and at most one of them moves.
LEMMA MacSteps ==
  ASSUME TypeOK, \A m \in Macs : Handled(m), [Next]_vars
  PROVE  /\ MacTyped'
         /\ (\A m \in Macs : Stands(m)) \/ (\E m \in Macs : Moves(m))
<1>1. ASSUME UNCHANGED macVars
      PROVE  MacTyped' /\ \A m \in Macs : Stands(m)
  BY <1>1 DEF macVars, MacTyped, AnAsk, TypeOK, Stands
<1>2. ASSUME NEW m \in Macs, PassStep(m) \/ Restart(m)
      PROVE  MacTyped' /\ Moves(m)
  BY <1>2, PushPullFacts, AckHeldFacts, ClaimMoves, AckMoves, ApplyTurnFacts, ApplyAnswerFacts,
     ApplyOtherFacts, MarkMoves, RestartFacts DEF PassStep
<1> QED BY <1>1, <1>2, AroundFacts, PhoneSteps DEF Next, PhoneStep

-----------------------------------------------------------------------------
(* The inbox is used as DispatchInbox allows. *)

\* What an ack holds stays of its claim.
LEMMA HandledStays ==
  ASSUME TypeOK, \A m \in Macs : Handled(m), [Next]_vars
  PROVE  \A m \in Macs : Handled(m)'
<1>1. ASSUME NEW m \in Macs, Stands(m)
      PROVE  Handled(m)'
  <2>1. Handled(m)
    OBVIOUS
  <2> QED BY <1>1, <2>1 DEF Stands, Handled, Over
<1>2. ASSUME NEW m \in Macs, Moves(m)
      PROVE  Handled(m)'
  <2>1. Handled(m) /\ MacTyped'
    BY MacSteps
  <2>2. pass[m] \in Pass /\ pass'[m] \in Pass
    BY <2>1 DEF TypeOK, MacTyped
  <2>3. CASE Begins(m)
    BY <2>1, <2>3 DEF Begins, Handled
  <2>4. CASE Resends(m)
    BY <2>1, <2>4 DEF Resends, Handled, NoAck, NoClaim
  <2>5. CASE Takes(m)
    BY <2>1, <2>5 DEF Takes, Handled
  <2>6. CASE Applies(m)
    BY <2>1, <2>6 DEF Applies, Handled
  <2>7. CASE Ends(m)
    <3>1. /\ pass'[m].pc \in {"idle", "open", "close"} /\ Over(pass'[m])
      BY <2>7 DEF Ends, Over
    <3>2. CASE heldAck'[m] = heldAck[m]
      BY <2>1, <3>1, <3>2 DEF Handled
    <3>3. CASE heldAck'[m] = NoAck
      BY <3>1, <3>3 DEF Handled, NoAck, NoClaim
    <3>4. CASE /\ pass[m].pc = "apply" /\ pass[m].results # {}
               /\ heldAck'[m] = [claim |-> pass[m].claim, results |-> pass[m].results,
                                 delivered |-> pass[m].delivered]
      BY <2>1, <3>1, <3>4 DEF Handled
    <3> QED BY <2>7, <3>2, <3>3, <3>4 DEF Ends
  <2> QED BY <1>1, <1>2, <2>3, <2>4, <2>5, <2>6, <2>7 DEF Moves
<1>3. ASSUME NEW n \in Macs, Moves(n)
      PROVE  \A m \in Macs : Handled(m)'
  BY <1>1, <1>2, <1>3 DEF Moves
<1> QED BY <1>1, <1>3, MacSteps

\* A Mac's calls are calls a device may make,
LEMMA MacCalls ==
  ASSUME \A m \in Macs : Handled(m), NEW m \in Macs, PassStep(m)
  PROVE  [Inbox!Next]_(Inbox!inboxVars)
<1> DEFINE Good == [Inbox!Next]_(Inbox!inboxVars)
<1>1. UNCHANGED inboxVars => Good
  BY DEF inboxVars, Inbox!inboxVars
<1>2. ASSUME NEW kinds \in Inbox!KindsClaimed, Inbox!Claim(m, kinds)
      PROVE  Good
  BY <1>2 DEF Inbox!Next
<1>3. ASSUME NEW c, NEW qs, NEW delivered, qs # {}, qs \subseteq c.handed, delivered \subseteq qs,
             Inbox!Ack(c, qs, delivered)
      PROVE  Good
  <2>1. c \in claims
    BY <1>3 DEF Inbox!Ack
  <2> QED BY <1>3, <2>1 DEF Inbox!Next
<1>4. ASSUME NEW a \in Approvals, Inbox!OpenApproval(a) \/ Inbox!CloseApproval(a)
      PROVE  Good
  BY <1>4 DEF Inbox!Next
<1>5. CASE PushPull(m)
  BY <1>1, <1>5 DEF PushPull
<1>6. CASE AckHeld(m)
  <2>1. /\ heldAck[m].results # {} /\ heldAck[m].results \subseteq heldAck[m].claim.handed
        /\ heldAck[m].delivered \subseteq heldAck[m].results
    BY <1>6 DEF AckHeld, Handled
  <2>2. \/ Inbox!Ack(heldAck[m].claim, heldAck[m].results, heldAck[m].delivered)
        \/ UNCHANGED inboxVars
    BY <1>6 DEF AckHeld, Lost
  <2> QED BY <1>1, <1>3, <2>1, <2>2
<1>7. CASE Claim(m)
  <2>1. KindsOf(m) \in Inbox!KindsClaimed
    BY DEF KindsOf, Inbox!KindsClaimed
  <2>2. Inbox!Claim(m, KindsOf(m)) \/ UNCHANGED inboxVars
    BY <1>7 DEF Claim, Lost
  <2> QED BY <1>1, <1>2, <2>1, <2>2
<1>8. CASE Ack(m)
  <2>1. /\ pass[m].results \subseteq pass[m].claim.handed
        /\ pass[m].delivered \subseteq pass[m].results
    BY <1>8 DEF Ack, Handled
  <2>2. \/ /\ pass[m].results # {}
           /\ Inbox!Ack(pass[m].claim, pass[m].results, pass[m].delivered)
        \/ UNCHANGED inboxVars
    BY <1>8 DEF Ack, Lost
  <2> QED BY <1>1, <1>3, <2>1, <2>2
<1>9. ASSUME NEW q \in Requests,
             ApplyTurn(m, q) \/ ApplyAnswer(m, q) \/ ApplyCapture(m, q) \/ ApplyThrows(m, q)
      PROVE  Good
  BY <1>1, <1>9 DEF ApplyTurn, ApplyAnswer, ApplyCapture, ApplyThrows
<1>10. ASSUME NEW a \in Approvals, Open(m, a) \/ Close(m, a)
       PROVE  Good
  <2>1. Inbox!OpenApproval(a) \/ Inbox!CloseApproval(a) \/ UNCHANGED inboxVars
    BY <1>10 DEF Open, Close, Lost
  <2> QED BY <1>1, <1>4, <2>1
<1> QED BY <1>5, <1>6, <1>7, <1>8, <1>9, <1>10 DEF PassStep

\* and so is every other.
LEMMA InboxSteps ==
  ASSUME \A m \in Macs : Handled(m), [Next]_vars
  PROVE  [Inbox!Next]_(Inbox!inboxVars)
<1> DEFINE Good == [Inbox!Next]_(Inbox!inboxVars)
<1>1. UNCHANGED inboxVars => Good
  BY DEF inboxVars, Inbox!inboxVars
<1>2. ASSUME NEW q \in Requests, Create(q) \/ Inbox!Cancel(q)
      PROVE  Good
  BY <1>2 DEF Create, Inbox!Next
<1>3. ASSUME NEW q \in Requests,
             \/ Ask(q) \/ Send(q) \/ Sent(q) \/ SendLost(q) \/ LateCreate(q)
             \/ DropLanded(q) \/ Cancel(q) \/ CancelLost(q)
      PROVE  Good
  <2>1. Create(q) \/ Inbox!Cancel(q) \/ UNCHANGED inboxVars
    BY <1>3 DEF Ask, Send, Sent, SendLost, LateCreate, DropLanded, Cancel, CancelLost
  <2> QED BY <1>1, <1>2, <2>1
<1>4. ASSUME NEW m \in Macs, Choose(m) \/ Restart(m)
      PROVE  Good
  BY <1>1, <1>4 DEF Choose, Restart
<1>5. ASSUME NEW a \in Approvals, Raise(a) \/ SettleHere(a)
      PROVE  Good
  BY <1>1, <1>5 DEF Raise, SettleHere
<1>6. ASSUME NEW c \in claims, LetGo(c)
      PROVE  Good
  BY <1>6 DEF LetGo, Inbox!Next
<1>7. Tick => Good
  BY DEF Tick, Inbox!Next
<1>8. UNCHANGED vars => Good
  BY <1>1 DEF vars
<1>9. Poll \/ PollLost => Good
  BY <1>1 DEF Poll, PollLost
<1> QED BY <1>3, <1>4, <1>5, <1>6, <1>7, <1>8, <1>9, MacCalls DEF Next, PhoneStep

-----------------------------------------------------------------------------
(* Types. *)

RowStates == {"none", "unsent", "waiting", "claimed", "delivered", "refused", "gone"}

\* What the phone may read of a request, and keep of it.
LEMMA StatusTypes ==
  /\ \A ds, q : StatusIn(ds, q) \in {"waiting", "claimed", "delivered", "refused", "unknown"}
  /\ \A q : \A status \in {"waiting", "claimed", "delivered", "refused", "unknown"} :
       Record(q, status) \in RowStates \ {"none", "unsent"}
<1>1. ASSUME NEW ds, NEW q
      PROVE  StatusIn(ds, q) \in {"waiting", "claimed", "delivered", "refused", "unknown"}
  BY Zenon DEF StatusIn
<1>2. ASSUME NEW q, NEW status \in {"waiting", "claimed", "delivered", "refused", "unknown"}
      PROVE  Record(q, status) \in RowStates \ {"none", "unsent"}
  BY <1>2 DEF Record, RowStates
<1> QED BY <1>1, <1>2

\* What a step of the phone leaves of the states of its requests.
LEMMA PhoneTypes ==
  ASSUME TypeOK, NEW q \in Requests,
         \/ Ask(q) \/ Send(q) \/ Sent(q) \/ SendLost(q) \/ LateCreate(q)
         \/ DropLanded(q) \/ Cancel(q) \/ CancelLost(q)
  PROVE  /\ rows' \in [Requests -> RowStates]
         /\ sending' \subseteq Requests /\ limbo' \subseteq Requests /\ freed' \subseteq Requests
         /\ \A x \in Requests \ {q} : rows'[x] = rows[x]
<1>1. rows \in [Requests -> RowStates] /\ sending \subseteq Requests /\ limbo \subseteq Requests
      /\ freed \subseteq Requests
  BY DEF TypeOK, RowStates
<1>2. ASSUME NEW state \in RowStates, rows' = [rows EXCEPT ![q] = state]
      PROVE  rows' \in [Requests -> RowStates] /\ \A x \in Requests \ {q} : rows'[x] = rows[x]
  BY <1>1, <1>2
<1>3. \/ UNCHANGED rows
      \/ \E state \in RowStates : rows' = [rows EXCEPT ![q] = state]
  <2>1. CASE Sent(q)
    <3> DEFINE status == StatusIn(dispatches', q)
               state == IF rows[q] = "gone" THEN "gone"
                        ELSE IF Inbox!Stored(dispatches', q) THEN Record(q, status)
                        ELSE IF Inbox!Full(Inbox!KeptDispatches) THEN "unsent"
                        ELSE "refused"
    <3>1. state \in RowStates
      BY StatusTypes DEF RowStates
    <3>2. rows' = [rows EXCEPT ![q] = state]
      BY <2>1 DEF Sent
    <3> HIDE DEF state
    <3> QED BY <3>1, <3>2
  <2>3. CASE Cancel(q)
    <3> DEFINE status == StatusIn(dispatches, q)
               state == IF status \in {"waiting", "unknown"} THEN "gone" ELSE Record(q, status)
    <3>1. state \in RowStates
      BY StatusTypes DEF RowStates
    <3>2. rows' = [rows EXCEPT ![q] = state]
      BY <2>3 DEF Cancel, Forgets
    <3> HIDE DEF state
    <3> QED BY <3>1, <3>2
  <2>4. CASE Ask(q) \/ DropLanded(q)
    BY <2>4 DEF Ask, DropLanded, RowStates
  <2>5. CASE Send(q) \/ SendLost(q) \/ LateCreate(q) \/ CancelLost(q)
    BY <2>5 DEF Send, SendLost, LateCreate, CancelLost, phoneVars
  <2> QED BY <2>1, <2>3, <2>4, <2>5
<1>4. sending' \subseteq Requests /\ limbo' \subseteq Requests /\ freed' \subseteq Requests
  BY <1>1 DEF Ask, Send, Sent, SendLost, LateCreate, DropLanded, Cancel, CancelLost, Forgets,
     phoneVars
<1> QED BY <1>1, <1>2, <1>3, <1>4

\* A poll leaves states, and those of what it asked about; nothing is sent meanwhile.
LEMMA PollTypes ==
  ASSUME TypeOK, Poll \/ PollLost
  PROVE  /\ rows' \in [Requests -> RowStates]
         /\ UNCHANGED <<sending, limbo, freed, inboxVars>>
         /\ \A q \in Requests : rows[q] = "gone" => rows'[q] = "gone"
<1>1. rows \in [Requests -> RowStates]
  BY DEF TypeOK, RowStates
<1>2. CASE Poll
  <2>1. ASSUME NEW q \in Requests
        PROVE  Record(q, StatusIn(dispatches, q)) \in RowStates
    BY StatusTypes
  <2>2. \A q \in Requests : rows[q] = "gone" => ~Polled(q)
    BY DEF Polled
  <2>. QED BY <1>1, <1>2, <2>1, <2>2 DEF Poll
<1>3. CASE PollLost
  BY <1>1, <1>3 DEF PollLost
<1> QED BY <1>2, <1>3

\* A step of a Mac, of the clock or of LetGo touches no request on the phone.
LEMMA MacsLeavePhone ==
  ASSUME \/ \E m \in Macs : PassStep(m) \/ Choose(m) \/ Restart(m)
         \/ \E a \in Approvals : Raise(a) \/ SettleHere(a)
         \/ \E c \in claims : LetGo(c)
         \/ Tick
         \/ UNCHANGED vars
  PROVE  UNCHANGED phoneVars
<1>1. ASSUME NEW m \in Macs, PassStep(m) \/ Choose(m) \/ Restart(m)
      PROVE  UNCHANGED phoneVars
  <2>1. CASE PushPull(m) \/ AckHeld(m) \/ Claim(m) \/ Ack(m)
    BY <2>1 DEF PushPull, AckHeld, Claim, Ack
  <2>2. ASSUME NEW q \in Requests,
               ApplyTurn(m, q) \/ ApplyAnswer(m, q) \/ ApplyCapture(m, q) \/ ApplyThrows(m, q)
        PROVE  UNCHANGED phoneVars
    BY <2>2 DEF ApplyTurn, ApplyAnswer, ApplyCapture, ApplyThrows
  <2>3. ASSUME NEW a \in Approvals, Open(m, a) \/ Close(m, a)
        PROVE  UNCHANGED phoneVars
    BY <2>3 DEF Open, Close
  <2>4. CASE Choose(m) \/ Restart(m)
    BY <2>4 DEF Choose, Restart
  <2> QED BY <1>1, <2>1, <2>2, <2>3, <2>4 DEF PassStep
<1>2. ASSUME NEW a \in Approvals, Raise(a) \/ SettleHere(a)
      PROVE  UNCHANGED phoneVars
  BY <1>2 DEF Raise, SettleHere
<1>3. ASSUME NEW c \in claims, LetGo(c)
      PROVE  UNCHANGED phoneVars
  BY <1>3 DEF LetGo
<1> QED BY <1>1, <1>2, <1>3 DEF Tick, vars

\* Where the phone's pass may stand, and a create is under way only while it sends.
PhonePasses == [pc : {"idle", "send", "poll"}, todo : SUBSET Requests]
Waits == phonePass.pc # "send" => sending = {} /\ phonePass.todo = {}

LEMMA PhonePassStep ==
  ASSUME TypeOK, Waits, [Next]_vars
  PROVE  phonePass' \in PhonePasses /\ Waits'
<1>1. /\ phonePass \in PhonePasses /\ PhoneIdle \in PhonePasses
      /\ PhoneIdle.pc = "idle" /\ PhoneIdle.todo = {}
  BY DEF TypeOK, PhonePasses, PhoneIdle
<1>2. CASE UNCHANGED phoneVars
  BY <1>1, <1>2 DEF phoneVars, Waits
<1>3. ASSUME NEW q \in Requests, Send(q)
      PROVE  phonePass' \in PhonePasses /\ Waits'
  <2>1. PICK todo : /\ todo = IF phonePass.pc = "idle" THEN Unsent ELSE phonePass.todo
                    /\ phonePass' = [pc |-> "send", todo |-> todo \ {q}]
    BY <1>3 DEF Send
  <2>2. todo \subseteq Requests
    BY <1>1, <2>1 DEF PhonePasses, Unsent
  <2>. QED BY <2>1, <2>2 DEF PhonePasses, Waits
<1>4. ASSUME NEW q \in Requests, Sent(q)
      PROVE  phonePass' \in PhonePasses /\ Waits'
  <2>1. sending' = {} /\ phonePass' \in {PhoneIdle, SendsOn}
    BY <1>4 DEF Sent
  <2>2. SendsOn \in PhonePasses /\ (SendsOn.pc # "send" => SendsOn.todo = {})
    BY <1>1 DEF SendsOn, PhonePasses
  <2>. QED BY <1>1, <2>1, <2>2 DEF Waits
<1>5. ASSUME NEW q \in Requests, SendLost(q)
      PROVE  phonePass' \in PhonePasses /\ Waits'
  BY <1>1, <1>5 DEF SendLost, Waits
<1>6. CASE Poll \/ PollLost
  <2>1. phonePass' = PhoneIdle /\ sending' = sending /\ sending = {}
    BY <1>6 DEF Poll, AtPoll, PollLost, Waits
  <2>. QED BY <1>1, <2>1 DEF Waits
<1>7. ASSUME NEW q \in Requests, Ask(q) \/ LateCreate(q) \/ DropLanded(q) \/ Cancel(q) \/ CancelLost(q)
      PROVE  UNCHANGED <<phonePass, sending>>
  BY <1>7 DEF Ask, LateCreate, DropLanded, Cancel, CancelLost, phoneVars
<1>8. UNCHANGED <<phonePass, sending>> => phonePass' \in PhonePasses /\ Waits'
  BY <1>1 DEF Waits
<1> QED BY <1>2, <1>3, <1>4, <1>5, <1>6, <1>7, <1>8, MacsLeavePhone DEF Next, PhoneStep

\* Accidents are counted up to their bound.
LEMMA AccidentsCounted ==
  ASSUME TypeOK, [Next]_vars
  PROVE  accidents' \in 0 .. MaxAccidents
<1> DEFINE Counted == UNCHANGED accidents \/ \E peril \in Perils : Accident(peril)
<1>1. ASSUME NEW q \in Requests,
             \/ Ask(q) \/ Send(q) \/ Sent(q) \/ SendLost(q) \/ LateCreate(q)
             \/ DropLanded(q) \/ Cancel(q) \/ CancelLost(q)
      PROVE  Counted
  <2>1. CASE SendLost(q) \/ CancelLost(q)
    BY <2>1 DEF SendLost, CancelLost, Accident
  <2>2. CASE Ask(q) \/ Send(q) \/ Sent(q) \/ LateCreate(q) \/ DropLanded(q) \/ Cancel(q)
    BY <2>2 DEF Ask, Send, Sent, LateCreate, DropLanded, Cancel
  <2> QED BY <1>1, <2>1, <2>2
<1>2. ASSUME NEW m \in Macs, PassStep(m) \/ Choose(m) \/ Restart(m)
      PROVE  Counted
  <2>1. CASE PushPull(m)
    BY <2>1 DEF PushPull, Accident
  <2>2. CASE AckHeld(m) \/ Claim(m) \/ Ack(m)
    BY <2>2 DEF AckHeld, Claim, Ack, Lost, Accident
  <2>3. ASSUME NEW q \in Requests,
               ApplyTurn(m, q) \/ ApplyAnswer(m, q) \/ ApplyCapture(m, q) \/ ApplyThrows(m, q)
        PROVE  Counted
    BY <2>3 DEF ApplyTurn, ApplyAnswer, ApplyCapture, ApplyThrows, Accident
  <2>4. ASSUME NEW a \in Approvals, Open(m, a) \/ Close(m, a)
        PROVE  Counted
    BY <2>4 DEF Open, Close, Lost, Accident
  <2>5. CASE Choose(m) \/ Restart(m)
    BY <2>5 DEF Choose, Restart, Accident
  <2> QED BY <1>2, <2>1, <2>2, <2>3, <2>4, <2>5 DEF PassStep
<1>3. ASSUME NEW a \in Approvals, Raise(a) \/ SettleHere(a)
      PROVE  Counted
  BY <1>3 DEF Raise, SettleHere
<1>4. ASSUME NEW c \in claims, LetGo(c)
      PROVE  Counted
  BY <1>4 DEF LetGo
<1>5. Poll \/ PollLost => Counted
  BY DEF Poll, PollLost, Accident
<1>6. Counted
  BY <1>1, <1>2, <1>3, <1>4, <1>5 DEF Next, PhoneStep, Tick, vars
<1> QED BY <1>6, PhoneAssumption DEF TypeOK, Accident

\* What TypeOK rests on: the inbox's own, what its acks hold, and where the phone's pass stands.
TInv == TypeOK /\ Waits /\ Proved!HasLast /\ \A m \in Macs : Handled(m)

\* It holds at first,
LEMMA InitTyped ==
  ASSUME Init
  PROVE  TInv
<1>1. Proved!Init
  BY DEF Init, Inbox!Init, Proved!Init
<1>2. Inbox!TypeOK /\ Proved!HasLast
  BY <1>1, InboxConstants, Proved!InitTypes, SameTypes
<1>3. pass \in [Macs -> Pass] /\ heldAck = [m \in Macs |-> NoAck]
      /\ heldAck \in [Macs -> [claim : AClaim, results : SUBSET Requests,
                              delivered : SUBSET Requests]]
      /\ \A m \in Macs : pass[m] = NoPass
  BY NoPassFacts, NoAckType DEF Init, Over
<1>4. asks \in [Approvals -> [status : {"none", "pending", "resolved", "interrupted"},
                             decision : SUBSET Requests, relay : {"none", "opened", "closed"}]]
  BY DEF Init
<1>5. TypeOK
  BY <1>2, <1>3, <1>4, PhoneAssumption DEF Init, PhoneIdle, TypeOK
<1>6. ASSUME NEW m \in Macs
      PROVE  Handled(m)
  BY <1>3, NoPassFacts DEF Handled, NoAck, NoClaim
<1>7. Waits
  BY DEF Init, PhoneIdle, Waits
<1> QED BY <1>2, <1>5, <1>6, <1>7 DEF TInv

\* and every step keeps it.
LEMMA StepTyped ==
  ASSUME TInv, [Next]_vars
  PROVE  TInv'
<1>1. TypeOK /\ Waits /\ Proved!HasLast /\ \A m \in Macs : Handled(m)
  BY DEF TInv
<1>2. \A m \in Macs : Handled(m)'
  BY <1>1, HandledStays
<1>3. Inbox!TypeOK' /\ Proved!HasLast'
  BY <1>1, InboxSteps, InboxStepTypes DEF TypeOK
<1>4. MacTyped' /\ accidents' \in 0 .. MaxAccidents
  BY <1>1, MacSteps, AccidentsCounted
<1>5. /\ rows' \in [Requests -> RowStates]
      /\ sending' \subseteq Requests /\ limbo' \subseteq Requests /\ freed' \subseteq Requests
  <2>1. CASE UNCHANGED phoneVars
    BY <1>1, <2>1 DEF TypeOK, RowStates, phoneVars
  <2>2. CASE Poll \/ PollLost
    BY <1>1, <2>2, PollTypes DEF TypeOK
  <2> QED BY <1>1, <2>1, <2>2, PhoneTypes, MacsLeavePhone DEF Next, PhoneStep
<1>6. phonePass' \in PhonePasses /\ Waits'
  BY <1>1, PhonePassStep
<1>7. TypeOK'
  BY <1>3, <1>4, <1>5, <1>6 DEF TypeOK, MacTyped, AnAsk, RowStates, PhonePasses
<1> QED BY <1>2, <1>3, <1>6, <1>7 DEF TInv

\* The tables of the inbox, the passes of the Macs and the phone's own rows hold what they should.
THEOREM TypeCorrect == Spec => []TypeOK
<1>1. Init => TInv
  BY InitTyped
<1>2. TInv /\ [Next]_vars => TInv'
  BY StepTyped
<1>3. TInv => TypeOK
  BY DEF TInv
<1> QED BY <1>1, <1>2, <1>3, PTL DEF Spec

\* The phone and the Macs call the inbox as DispatchInbox lets its clients call it: an ack is of
\* requests its claim handed over, and names none delivered that it does not settle.  So what is
\* proved of the inbox, whatever its clients do, holds while they do what they do.
THEOREM ImplementsDispatchInbox == Spec => Inbox!Spec
<1>1. Init => TInv /\ Inbox!Init
  BY InitTyped DEF Init
<1>2. TInv /\ [Next]_vars => TInv' /\ [Inbox!Next]_(Inbox!inboxVars)
  BY StepTyped, InboxSteps DEF TInv
<1> QED BY <1>1, <1>2, PTL DEF Spec, Inbox!Spec

-----------------------------------------------------------------------------
(* "Delivered" is true. *)

\* Threads forget no turn, and what was decided stays decided, a restart or not.
LEMMA MacsRemember ==
  ASSUME TInv, [Next]_vars
  PROVE  /\ \A m \in Macs : held[m] \subseteq held'[m]
         /\ \A a \in Approvals : asks[a].status = "resolved" =>
              asks'[a].status = "resolved" /\ asks'[a].decision = asks[a].decision
<1> DEFINE Holds == \A m \in Macs : held[m] \subseteq held'[m]
           Stays == \A a \in Approvals : asks[a].status = "resolved" =>
                      asks'[a].status = "resolved" /\ asks'[a].decision = asks[a].decision
<1>1. /\ held \in [Macs -> SUBSET Turns] /\ asks \in [Approvals -> AnAsk]
      /\ TypeOK /\ \A m \in Macs : Handled(m)
  BY DEF TInv, TypeOK, AnAsk
<1>2. UNCHANGED held => Holds
  OBVIOUS
<1>3. UNCHANGED asks => Stays
  OBVIOUS
<1>4. ASSUME NEW m \in Macs, NEW some, held' = [held EXCEPT ![m] = @ \union some]
      PROVE  Holds
  BY <1>1, <1>4
<1>5. ASSUME NEW m \in Macs, PushPull(m)
      PROVE  Holds /\ Stays
  BY <1>3, <1>4, <1>5 DEF PushPull
<1>6. ASSUME NEW m \in Macs, AckHeld(m) \/ Claim(m) \/ Ack(m) \/ Choose(m)
      PROVE  Holds /\ Stays
  BY <1>2, <1>3, <1>6 DEF AckHeld, Claim, Ack, Choose
<1>7. ASSUME NEW m \in Macs, NEW q \in Requests, ApplyTurn(m, q)
      PROVE  Holds /\ Stays
  BY <1>2, <1>3, <1>4, <1>7 DEF ApplyTurn
<1>8. ASSUME NEW m \in Macs, NEW q \in Requests, ApplyCapture(m, q) \/ ApplyThrows(m, q)
      PROVE  Holds /\ Stays
  BY <1>2, <1>3, <1>8 DEF ApplyCapture, ApplyThrows
<1>9. ASSUME NEW a, asks[a].status # "resolved", NEW ask, asks' = [asks EXCEPT ![a] = ask]
      PROVE  Stays
  BY <1>1, <1>9
<1>10. ASSUME NEW m \in Macs, NEW q \in Requests, ApplyAnswer(m, q)
       PROVE  Holds /\ Stays
  <2>1. UNCHANGED held
    BY <1>10 DEF ApplyAnswer
  <2>2. \/ UNCHANGED asks
        \/ /\ asks[q.approval].status = "pending"
           /\ \E ask : asks' = [asks EXCEPT ![q.approval] = ask]
    BY <1>10 DEF ApplyAnswer
  <2> QED BY <1>2, <1>3, <1>9, <2>1, <2>2
<1>11. ASSUME NEW m \in Macs, NEW a \in Approvals, Open(m, a) \/ Close(m, a)
       PROVE  Holds /\ Stays
  <2>1. UNCHANGED held
    BY <1>11 DEF Open, Close
  <2> QED BY <1>1, <1>2, <1>11, <2>1, MarkMoves
<1>12. ASSUME NEW a \in Approvals, Raise(a)
       PROVE  Holds /\ Stays
  BY <1>1, <1>2, <1>12 DEF Raise
<1>13. ASSUME NEW a \in Approvals, SettleHere(a)
       PROVE  Holds /\ Stays
  <2>1. UNCHANGED held /\ asks[a].status = "pending" /\ \E ask : asks' = [asks EXCEPT ![a] = ask]
    BY <1>13 DEF SettleHere
  <2> QED BY <1>2, <1>9, <2>1
<1>14. ASSUME NEW m \in Macs, Restart(m)
       PROVE  Holds /\ Stays
  BY <1>2, <1>14 DEF Restart
<1>15. UNCHANGED macVars => Holds /\ Stays
  BY <1>2, <1>3 DEF macVars
<1> QED BY <1>5, <1>6, <1>7, <1>8, <1>10, <1>11, <1>12, <1>13, <1>14, <1>15, PhoneSteps
        DEF Next, PhoneStep, PassStep

\* What an ack says was delivered was, when the request was applied and whenever the ack arrives:
\* a restart between the two forgets the ack, and never the turn or the decision.
Truthful ==
  /\ DeliveredIsTrue
  /\ \A m \in Macs : \A q \in pass[m].delivered \union heldAck[m].delivered : Done(q)

\* A step records as delivered only what an ack it sends says was.
LEMMA DeliveredNow ==
  ASSUME TInv, [Next]_vars, NEW s \in dispatches', s.state = "delivered"
  PROVE  \/ \E r \in dispatches : r.q = s.q /\ r.state = "delivered"
         \/ \E m \in Macs : s.q \in pass[m].delivered \union heldAck[m].delivered
<1> DEFINE Was == \E r \in dispatches : r.q = s.q /\ r.state = "delivered"
           Said == \E m \in Macs : s.q \in pass[m].delivered \union heldAck[m].delivered
<1>1. Inbox!TypeOK
  BY DEF TInv, TypeOK
<1>2. s \in dispatches => Was
  OBVIOUS
<1>3. UNCHANGED inboxVars => Was
  BY <1>2 DEF inboxVars
<1>4. ASSUME NEW q \in Requests,
             \/ Ask(q) \/ Send(q) \/ Sent(q) \/ SendLost(q) \/ LateCreate(q)
             \/ DropLanded(q) \/ Cancel(q) \/ CancelLost(q)
      PROVE  Was
  <2>1. Create(q) \/ Inbox!Cancel(q) \/ UNCHANGED inboxVars
    BY <1>4 DEF Ask, Send, Sent, SendLost, LateCreate, DropLanded, Cancel, CancelLost
  <2> QED BY <1>2, <1>3, <2>1, CreateFacts, CancelFacts
<1>5. ASSUME NEW m \in Macs, Claim(m)
      PROVE  Was
  <2>1. Inbox!Claim(m, KindsOf(m)) \/ UNCHANGED inboxVars
    BY <1>5 DEF Claim, Lost
  <2> QED BY <1>1, <1>2, <1>3, <2>1, ClaimFacts
<1>6. ASSUME NEW m \in Macs, AckHeld(m)
      PROVE  Was \/ Said
  <2>1. \/ Inbox!Ack(heldAck[m].claim, heldAck[m].results, heldAck[m].delivered)
        \/ UNCHANGED inboxVars
    BY <1>6 DEF AckHeld, Lost
  <2> QED BY <1>1, <1>2, <1>3, <2>1, AckFacts
<1>7. ASSUME NEW m \in Macs, Ack(m)
      PROVE  Was \/ Said
  <2>1. \/ Inbox!Ack(pass[m].claim, pass[m].results, pass[m].delivered)
        \/ UNCHANGED inboxVars
    BY <1>7 DEF Ack, Lost
  <2> QED BY <1>1, <1>2, <1>3, <2>1, AckFacts
<1>8. ASSUME NEW m \in Macs, NEW a \in Approvals, Open(m, a) \/ Close(m, a)
      PROVE  Was
  <2>1. Inbox!OpenApproval(a) \/ Inbox!CloseApproval(a) \/ UNCHANGED inboxVars
    BY <1>8 DEF Open, Close, Lost
  <2> QED BY <1>1, <1>2, <1>3, <2>1, MarkFacts
<1>9. ASSUME NEW m \in Macs, \/ PushPull(m) \/ Choose(m) \/ Restart(m)
                             \/ \E q \in Requests : \/ ApplyTurn(m, q) \/ ApplyAnswer(m, q)
                                                     \/ ApplyCapture(m, q) \/ ApplyThrows(m, q)
      PROVE  Was
  BY <1>3, <1>9 DEF PushPull, Choose, Restart, ApplyTurn, ApplyAnswer, ApplyCapture, ApplyThrows
<1>10. ASSUME NEW a \in Approvals, Raise(a) \/ SettleHere(a)
       PROVE  Was
  BY <1>3, <1>10 DEF Raise, SettleHere
<1>11. ASSUME NEW c \in claims, LetGo(c)
       PROVE  Was
  BY <1>2, <1>11 DEF LetGo, Inbox!LetGo
<1>12. CASE Tick
  BY <1>1, <1>12, AgeFacts DEF Tick
<1>13. CASE UNCHANGED vars
  BY <1>3, <1>13 DEF vars
<1>14. Poll \/ PollLost => Was
  BY <1>3 DEF Poll, PollLost
<1> QED BY <1>4, <1>5, <1>6, <1>7, <1>8, <1>9, <1>10, <1>11, <1>12, <1>13, <1>14
        DEF Next, PhoneStep, PassStep

\* Every step keeps that true.
LEMMA TruthStays ==
  ASSUME TInv, Truthful, [Next]_vars
  PROVE  Truthful'
<1>1. TInv'
  BY StepTyped
<1>2. \A q \in Requests : Done(q) => Done(q)'
  <2>1. \A q \in Requests : q.kind = "answer" => q.approval \in Approvals
    BY PhoneAssumption
  <2> QED BY <2>1, MacsRemember DEF Done
<1>3. ASSUME NEW m \in Macs
      PROVE  \A q \in pass'[m].delivered \union heldAck'[m].delivered : Done(q)'
  <2>1. \A q \in pass[m].delivered \union heldAck[m].delivered : q \in Requests /\ Done(q)
    BY DEF TInv, TypeOK, Pass, Truthful
  <2>2. CASE Stands(m)
    BY <1>2, <2>1, <2>2 DEF Stands
  <2>3. CASE Begins(m) \/ Takes(m)
    BY <1>2, <2>1, <2>3 DEF Begins, Takes
  <2>4. CASE Resends(m)
    BY <2>4 DEF Resends, NoAck
  <2>5. CASE Applies(m)
    BY <1>2, <2>1, <2>5 DEF Applies
  <2>6. CASE Ends(m)
    BY <1>2, <2>1, <2>6 DEF Ends, Over, NoAck
  <2> QED BY <2>2, <2>3, <2>4, <2>5, <2>6, MacSteps DEF Moves, TInv
<1>4. ASSUME NEW s \in dispatches', s.state = "delivered"
      PROVE  Done(s.q)'
  <2>1. s.q \in Requests
    BY <1>1 DEF TInv, TypeOK, Inbox!TypeOK, Inbox!Dispatch
  <2>2. Done(s.q)
    BY <1>4, DeliveredNow DEF Truthful, DeliveredIsTrue, Done
  <2> QED BY <1>2, <2>1, <2>2
<1>5. DeliveredIsTrue'
  BY <1>4 DEF DeliveredIsTrue, Done
<1> QED BY <1>3, <1>5 DEF Truthful

\* A phone that reads "delivered" of a turn reads that a Mac's threads hold it, and of an answer
\* that its approval was decided so: whichever acks are lost, sent again or forgotten by a restart,
\* and whatever was decided at the keyboard meanwhile.
THEOREM DeliveredHolds == Spec => []DeliveredIsTrue
<1>1. Init => TInv /\ Truthful
  <2>1. ASSUME Init
        PROVE  Truthful
    <3>1. dispatches = {}
      BY <2>1 DEF Init, Inbox!Init
    <3>2. \A m \in Macs : pass[m].delivered = {} /\ heldAck[m].delivered = {}
      BY <2>1 DEF Init, NoPass, NoAck
    <3> QED BY <3>1, <3>2 DEF Truthful, DeliveredIsTrue
  <2> QED BY <2>1, InitTyped
<1>2. TInv /\ Truthful /\ [Next]_vars => TInv' /\ Truthful'
  BY StepTyped, TruthStays
<1>3. Truthful => DeliveredIsTrue
  BY DEF Truthful
<1> QED BY <1>1, <1>2, <1>3, PTL DEF Spec

-----------------------------------------------------------------------------
(* What the log held is run no more. *)

\* A Mac that is handed a turn had the whole log, and its threads hold what of it it saw.
CaughtUp(m) ==
  /\ pass[m].caughtUp => pass[m].seen \subseteq held[m]
  /\ \A q \in pass[m].todo : q.kind = "turn" => pass[m].caughtUp

\* Every step keeps that so.
LEMMA CaughtUpStays ==
  ASSUME TInv, \A m \in Macs : CaughtUp(m), [Next]_vars
  PROVE  \A m \in Macs : CaughtUp(m)'
<1> SUFFICES ASSUME NEW m \in Macs
             PROVE  CaughtUp(m)'
  OBVIOUS
<1>1. CaughtUp(m) /\ held[m] \subseteq held'[m]
  BY MacsRemember
<1>2. CASE Stands(m)
  BY <1>1, <1>2 DEF Stands, CaughtUp
<1>3. CASE Begins(m)
  BY <1>3 DEF Begins, CaughtUp
<1>4. CASE Resends(m)
  BY <1>1, <1>4 DEF Resends, CaughtUp
<1>5. CASE Takes(m)
  BY <1>1, <1>5 DEF Takes, CaughtUp
<1>6. CASE Applies(m)
  BY <1>1, <1>6 DEF Applies, CaughtUp
<1>7. CASE Ends(m)
  BY <1>7 DEF Ends, Over, CaughtUp
<1> QED BY <1>2, <1>3, <1>4, <1>5, <1>6, <1>7, MacSteps DEF Moves, TInv

\* Only an applied turn is run, and only by a Mac whose threads do not hold it.
LEMMA RunsAreApplied ==
  ASSUME TInv, [Next]_vars, NEW m \in Macs, NEW q \in Turns, m \in ran'[q], m \notin ran[q]
  PROVE  q \in pass[m].todo /\ q \notin held[m]
<1> DEFINE Applied == q \in pass[m].todo /\ q \notin held[m]
<1>1. ran' # ran
  OBVIOUS
<1>2. ASSUME NEW n \in Macs, PassStep(n)
      PROVE  Applied
  <2>1. PICK x \in Requests : ApplyTurn(n, x)
    BY <1>1, <1>2 DEF PassStep, PushPull, AckHeld, Claim, Ack, ApplyAnswer, ApplyCapture,
       ApplyThrows, Open, Close
  <2>2. /\ x \in pass[n].todo /\ x \notin held[n] /\ x.kind = "turn"
        /\ ran' = [ran EXCEPT ![x] = @ \union {n}]
    BY <1>1, <2>1 DEF ApplyTurn
  <2>3. ran \in [Turns -> SUBSET Macs] /\ x \in Turns
    BY <2>2 DEF TInv, TypeOK, Turns
  <2>4. x = q /\ n = m
    BY <2>2, <2>3
  <2> QED BY <2>2, <2>4
<1>3. ASSUME NEW n \in Macs, Choose(n) \/ Restart(n)
      PROVE  FALSE
  BY <1>1, <1>3 DEF Choose, Restart
<1>4. ASSUME NEW a \in Approvals, Raise(a) \/ SettleHere(a)
      PROVE  FALSE
  BY <1>1, <1>4 DEF Raise, SettleHere
<1> QED BY <1>1, <1>2, <1>3, <1>4, PhoneSteps DEF Next, PhoneStep, macVars

\* A Mac runs no turn that was in the log when its pass began to pull, whichever Mac ran it and
\* whatever became of that Mac's ack and claim: a claim lapses, and the request is handed out again.
THEOREM LoggedStaysRun == Spec => LoggedRunsNoMore
<1> DEFINE Ready == \A m \in Macs : CaughtUp(m)
           RunsNoMore == \A m \in Macs, q \in Turns :
                           m \in ran'[q] \ ran[q] => q \notin pass[m].seen
<1>1. Init => TInv /\ Ready
  <2>1. ASSUME Init
        PROVE  Ready
    BY <2>1 DEF Init, NoPass, CaughtUp
  <2> QED BY <2>1, InitTyped
<1>2. TInv /\ Ready /\ [Next]_vars => TInv' /\ Ready'
  BY StepTyped, CaughtUpStays
<1>3. TInv /\ Ready /\ [Next]_vars => [RunsNoMore]_vars
  <2> SUFFICES ASSUME TInv, Ready, [Next]_vars, NEW m \in Macs, NEW q \in Turns,
                      m \in ran'[q], m \notin ran[q]
               PROVE  q \notin pass[m].seen
    OBVIOUS
  <2>1. q \in pass[m].todo /\ q \notin held[m]
    BY RunsAreApplied
  <2>2. q.kind = "turn" /\ CaughtUp(m)
    BY DEF Turns
  <2> QED BY <2>1, <2>2 DEF CaughtUp
<1>4. (Spec => [][RunsNoMore]_vars) <=> (Spec => LoggedRunsNoMore)
  BY DEF LoggedRunsNoMore
<1> QED BY <1>1, <1>2, <1>3, <1>4, PTL DEF Spec

-----------------------------------------------------------------------------
(* What was taken back in time reaches no Mac. *)

\* A request under a claim was handed over; one the phone took back is on no way to the inbox, and
\* what the inbox has of it is settled.
TakenBackInTime ==
  /\ \A r \in dispatches : Inbox!Pending(r) /\ r.token # 0 => r.q \in handed
  /\ \A q \in freed :
       /\ rows[q] = "gone" /\ q \notin handed
       /\ q \notin limbo /\ q \notin sending /\ q \notin phonePass.todo
       /\ \A r \in dispatches : r.q = q => ~Inbox!Pending(r)

\* A step of the phone keeps that,
LEMMA TakenBackByPhone ==
  ASSUME TInv, TakenBackInTime, NEW q \in Requests,
         \/ Ask(q) \/ Send(q) \/ Sent(q) \/ SendLost(q) \/ LateCreate(q)
         \/ DropLanded(q) \/ Cancel(q) \/ CancelLost(q)
  PROVE  TakenBackInTime'
<1>1. /\ TypeOK /\ Inbox!TypeOK /\ handed' = handed /\ rows \in [Requests -> RowStates]
      /\ \A x \in Requests \ {q} : rows'[x] = rows[x]
      /\ freed \subseteq Requests
  BY PhoneSteps, PhoneTypes DEF TInv, TypeOK, RowStates, macVars
<1>2. CASE Ask(q) \/ Send(q) \/ SendLost(q) \/ DropLanded(q)
  <2>1. \A x \in freed : x \notin phonePass'.todo
    <3>1. CASE Send(q)
      <4>1. PICK todo : /\ todo = IF phonePass.pc = "idle" THEN Unsent ELSE phonePass.todo
                        /\ phonePass' = [pc |-> "send", todo |-> todo \ {q}]
        BY <3>1 DEF Send
      <4>2. phonePass'.todo \subseteq Unsent \union phonePass.todo
        BY <4>1
      <4> QED BY <4>2 DEF Unsent, TakenBackInTime
    <3>2. CASE Ask(q) \/ SendLost(q) \/ DropLanded(q)
      BY <3>2 DEF Ask, SendLost, DropLanded, PhoneIdle, TakenBackInTime
    <3> QED BY <1>2, <3>1, <3>2
  <2>2. Send(q) => q \notin freed
    BY DEF Send, Unsent, TakenBackInTime
  <2>3. /\ dispatches' = dispatches /\ freed' = freed
        /\ q \in freed => rows'[q] = "gone"
        /\ sending' \ sending \subseteq {q} /\ limbo' \ limbo \subseteq {q}
        /\ q \in freed => q \notin sending' /\ q \notin limbo'
    BY <1>1, <1>2, <2>2 DEF Ask, Send, SendLost, DropLanded, inboxVars, TakenBackInTime
  <2> QED BY <1>1, <2>1, <2>3 DEF TakenBackInTime, Inbox!Pending
<1>3. CASE Sent(q) \/ LateCreate(q)
  <2>1. /\ freed' = freed /\ sending' \subseteq sending /\ limbo' \subseteq limbo
        /\ Create(q) /\ q \notin freed
    BY <1>1, <1>3 DEF Sent, LateCreate, TakenBackInTime
  <2>4. phonePass'.todo \subseteq phonePass.todo
    BY <1>1, <1>3 DEF Sent, LateCreate, SendsOn, PhoneIdle, TypeOK
  <2>2. \A s \in dispatches' : s \in dispatches \/ (s.q = q /\ s.token = 0)
    BY <2>1, CreateFacts
  <2>3. \A x \in freed : rows'[x] = rows[x]
    BY <1>1, <2>1
  <2> QED BY <1>1, <2>1, <2>2, <2>3, <2>4 DEF TakenBackInTime, Inbox!Pending
<1>4. CASE CancelLost(q)
  <2>1. /\ dispatches' \subseteq dispatches /\ UNCHANGED <<rows, phonePass, sending, limbo, freed>>
    BY <1>4, CancelFacts DEF CancelLost, phoneVars
  <2> QED BY <1>1, <2>1 DEF TakenBackInTime, Inbox!Pending
<1>5. CASE Cancel(q)
  <2>1. /\ dispatches' \subseteq dispatches /\ UNCHANGED <<phonePass, sending, limbo>>
        /\ sending = {} /\ phonePass.todo = {}
        /\ \A s \in dispatches' : s.q = q => ~Inbox!Waiting(s)
        /\ rows[q] # "gone"
    BY <1>5, CancelFacts DEF Cancel, TInv, Waits
  <2>2. q \notin freed /\ \A x \in freed : rows'[x] = rows[x]
    BY <1>1, <2>1 DEF TakenBackInTime
  <2>3. freed' = freed
        \/ (freed' = freed \union {q} /\ rows'[q] = "gone" /\ q \notin handed \union limbo)
    BY <1>5 DEF Cancel, Forgets
  <2>4. q \notin handed => \A s \in dispatches' : s.q = q => ~Inbox!Pending(s)
    BY <2>1 DEF TakenBackInTime, Inbox!Waiting, Inbox!Lapsed, Inbox!Pending
  <2> QED BY <1>1, <2>1, <2>2, <2>3, <2>4 DEF TakenBackInTime, Inbox!Pending
<1> QED BY <1>2, <1>3, <1>4, <1>5

\* and so does any other: a claim is of pending requests.
LEMMA TakenBackByMacs ==
  ASSUME TInv, TakenBackInTime, UNCHANGED phoneVars,
         \/ \E m \in Macs : PassStep(m) \/ Choose(m) \/ Restart(m)
         \/ \E a \in Approvals : Raise(a) \/ SettleHere(a)
         \/ \E c \in claims : LetGo(c)
         \/ Tick
         \/ UNCHANGED vars
  PROVE  TakenBackInTime'
<1> DEFINE AsBefore(s) == \/ ~Inbox!Pending(s)
                          \/ \E r \in dispatches : /\ r.q = s.q /\ r.token = s.token
                                                  /\ r.state = s.state
<1>1. Inbox!TypeOK
  BY DEF TInv, TypeOK
<1>2. ASSUME UNCHANGED handed, \A s \in dispatches' : AsBefore(s)
      PROVE  TakenBackInTime'
  BY <1>2 DEF TakenBackInTime, phoneVars, Inbox!Pending
<1>3. UNCHANGED inboxVars => \A s \in dispatches' : AsBefore(s)
  BY DEF inboxVars
<1>4. ASSUME NEW m \in Macs, Claim(m)
      PROVE  TakenBackInTime'
  <2>1. Inbox!Claim(m, KindsOf(m)) \/ UNCHANGED inboxVars
    BY <1>4 DEF Claim, Lost
  <2>2. CASE claims' = claims
    <3>1. dispatches' \subseteq dispatches
      BY <1>1, <2>1, <2>2, ClaimFacts DEF inboxVars
    <3>2. UNCHANGED handed
      BY <1>4, <2>2 DEF Claim
    <3> QED BY <1>2, <3>1, <3>2
  <2>3. CASE claims' # claims
    <3>1. handed' = handed \union NewClaim.handed
      BY <1>4, <2>3 DEF Claim
    <3>2. /\ \A q \in NewClaim.handed : \E r \in dispatches : r.q = q /\ Inbox!Pending(r)
          /\ \A s \in dispatches' :
               s \in dispatches \/ (Inbox!Pending(s) => s.q \in NewClaim.handed)
      BY <1>1, <2>1, <2>3, ClaimFacts DEF inboxVars
    <3>3. \A q \in freed : q \notin NewClaim.handed
      BY <3>2 DEF TakenBackInTime
    <3> QED BY <3>1, <3>2, <3>3 DEF TakenBackInTime, phoneVars, Inbox!Pending
  <2> QED BY <2>2, <2>3
<1>5. ASSUME NEW m \in Macs, AckHeld(m) \/ Ack(m)
      PROVE  TakenBackInTime'
  <2>1. \/ \E c, qs, delivered : Inbox!Ack(c, qs, delivered)
        \/ UNCHANGED inboxVars
    BY <1>5 DEF AckHeld, Ack, Lost
  <2>2. \A s \in dispatches' : AsBefore(s)
    BY <1>1, <1>3, <2>1, AckFacts
  <2>3. UNCHANGED handed
    BY <1>5 DEF AckHeld, Ack
  <2> QED BY <1>2, <2>2, <2>3
<1>6. ASSUME NEW m \in Macs, NEW a \in Approvals, Open(m, a) \/ Close(m, a)
      PROVE  TakenBackInTime'
  <2>1. Inbox!OpenApproval(a) \/ Inbox!CloseApproval(a) \/ UNCHANGED inboxVars
    BY <1>6 DEF Open, Close, Lost
  <2>2. \A s \in dispatches' : AsBefore(s)
    BY <1>1, <1>3, <2>1, MarkFacts DEF Inbox!Pending
  <2>3. UNCHANGED handed
    BY <1>6 DEF Open, Close
  <2> QED BY <1>2, <2>2, <2>3
<1>7. ASSUME NEW m \in Macs, \/ PushPull(m) \/ Choose(m) \/ Restart(m)
                             \/ \E q \in Requests : \/ ApplyTurn(m, q) \/ ApplyAnswer(m, q)
                                                     \/ ApplyCapture(m, q) \/ ApplyThrows(m, q)
      PROVE  TakenBackInTime'
  <2>1. UNCHANGED inboxVars /\ UNCHANGED handed
    BY <1>7 DEF PushPull, Choose, Restart, ApplyTurn, ApplyAnswer, ApplyCapture, ApplyThrows
  <2> QED BY <1>2, <1>3, <2>1
<1>8. ASSUME NEW a \in Approvals, Raise(a) \/ SettleHere(a)
      PROVE  TakenBackInTime'
  <2>1. UNCHANGED inboxVars /\ UNCHANGED handed
    BY <1>8 DEF Raise, SettleHere
  <2> QED BY <1>2, <1>3, <2>1
<1>9. ASSUME NEW c \in claims, LetGo(c)
      PROVE  TakenBackInTime'
  <2>1. UNCHANGED dispatches /\ UNCHANGED handed
    BY <1>9 DEF LetGo, Inbox!LetGo, macVars
  <2> QED BY <1>2, <2>1
<1>10. CASE Tick
  <2>1. UNCHANGED handed /\ \A s \in dispatches' : AsBefore(s)
    BY <1>1, <1>10, AgeFacts DEF Tick, macVars
  <2> QED BY <1>2, <2>1
<1>11. CASE UNCHANGED vars
  <2>1. UNCHANGED inboxVars /\ UNCHANGED handed
    BY <1>11 DEF vars, macVars
  <2> QED BY <1>2, <1>3, <2>1
<1> QED BY <1>4, <1>5, <1>6, <1>7, <1>8, <1>9, <1>10, <1>11 DEF PassStep

\* A request the phone took back before any Mac was handed it reaches none, however its create, its
\* cancel and the Macs' claims cross: a cancel waits out the phone's pass, withdraws the row no live
\* claim holds, and no create of it is left under way.
THEOREM CancelledIsGone == Spec => []CancelledStaysAway
<1>1. Init => TInv /\ TakenBackInTime
  <2>1. ASSUME Init
        PROVE  TakenBackInTime
    BY <2>1 DEF Init, Inbox!Init, TakenBackInTime
  <2> QED BY <2>1, InitTyped
<1>2. TInv /\ TakenBackInTime /\ [Next]_vars => TInv' /\ TakenBackInTime'
  <2> SUFFICES ASSUME TInv, TakenBackInTime, [Next]_vars
               PROVE  TakenBackInTime'
    BY StepTyped
  <2>1. CASE Poll \/ PollLost
    <3>1. UNCHANGED handed /\ phonePass'.todo = {}
      BY <2>1 DEF Poll, PollLost, PhoneIdle, macVars
    <3>2. freed \subseteq Requests
      BY DEF TInv, TypeOK
    <3>3. TypeOK
      BY DEF TInv
    <3> QED BY <2>1, <3>1, <3>2, <3>3, PollTypes DEF TakenBackInTime, inboxVars, Inbox!Pending
  <2> QED BY <2>1, TakenBackByPhone, TakenBackByMacs, MacsLeavePhone DEF Next, PhoneStep
<1>3. TakenBackInTime => CancelledStaysAway
  BY DEF TakenBackInTime, CancelledStaysAway
<1> QED BY <1>1, <1>2, <1>3, PTL DEF Spec

=============================================================================
