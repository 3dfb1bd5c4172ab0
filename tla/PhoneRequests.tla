---------------------------- MODULE PhoneRequests ----------------------------
(***************************************************************************)
(* A phone that asks, and the Macs that do: both ends of the dispatch      *)
(* inbox.                                                                  *)
(*                                                                         *)
(* The phone keeps what it asks until a Mac took it, resends what may not  *)
(* have arrived, polls what has, and cancels what no Mac holds             *)
(* (apps/mobile/src/dispatch/dispatch-runtime.ts).  A Mac's sync pass,     *)
(* after its push and its pull, claims requests, applies each, acks them   *)
(* under the claim, and then relays its approvals                          *)
(* (apps/cli/src/server/cloud/sync-pass.ts and dispatches.ts).             *)
(*                                                                         *)
(* Every call may fail to reach the cloud, or reach it and lose its        *)
(* answer.  Sign-ins, the log's own positions and queues, and threads are  *)
(* ThreadSync's: here the log is the set of turns whose request is in it.  *)
(*                                                                         *)
(* A definition marked "Faulty" is no part of the specification: see       *)
(* AccountLog.                                                             *)
(***************************************************************************)
EXTENDS Integers, FiniteSets

CONSTANTS
  phone, Macs,          \* the devices
  Requests, Approvals,  \* see DispatchInbox
  Tokens, Limit, MaxPending, MaxOpen, Ttl, Retention, MaxPosition,
  Perils,               \* what may go wrong: see Accident
  MaxAsks,              \* bound: how many requests the phone asks
  MaxAccidents          \* bound: how often something does

ASSUME PhoneAssumption ==
  /\ phone \notin Macs /\ "any" \notin Macs \union {phone}
  /\ \A q \in Requests : /\ q.kind \in {"turn", "answer", "capture"} /\ q.from = phone
                         /\ q.kind = "answer" => q.approval \in Approvals
                         /\ q.offered \in BOOLEAN /\ q.readable \in BOOLEAN
  /\ \A a \in Approvals : a.from \in Macs
  /\ Tokens \subseteq Nat \ {0}
  /\ Limit \in Nat /\ MaxPending \in Nat /\ MaxOpen \in Nat
  /\ Ttl \in Nat /\ Retention \in Nat /\ MaxPosition \in Nat
  /\ Perils \subseteq {"create", "poll", "cancel", "pull", "claim", "ack", "open", "close", "apply",
                       "restart", "choice"}
  /\ MaxAsks \in Nat /\ MaxAccidents \in Nat

VARIABLES
  dispatches, approvals, gone, claims, shut, valid, unswept, late, \* DispatchInbox
  log,       \* the turns whose request is in the account's log
  takes,     \* per Mac: "Let my phone ask this Mac"
  held,      \* per Mac: the turns its threads hold, run here or pulled
  asks,      \* per approval: where it stands on its Mac, and the answers that say what was decided
  heldAck,   \* per Mac: an ack that did not reach the cloud
  pass,      \* per Mac: where its sync pass stands
  rows,      \* per request: where the phone has it
  phonePass, \* where the phone's own pass stands: the creates it has yet to send, then its poll
  sending,   \* the request whose create the phone has under way
  limbo,     \* requests whose create the phone gave up on, and which may yet reach the cloud
  ran,       \* history: the Macs that ran each turn
  handed,    \* history: requests handed to a Mac
  freed,     \* history: requests the phone took back before any Mac was handed them
  accidents  \* bound: how many of them there were

Inbox == INSTANCE DispatchInbox
           WITH Devices <- Macs \union {phone}, MaxRevoked <- 0, MaxLate <- 0

inboxVars == <<dispatches, approvals, gone, claims, shut, valid, unswept, late>>
macVars   == <<log, takes, held, asks, heldAck, pass, ran, handed>>
phoneVars == <<rows, phonePass, sending, limbo, freed>>
vars      == <<inboxVars, macVars, phoneVars, accidents>>

Turns    == {q \in Requests : q.kind = "turn"}
NoClaim  == [token |-> 0, by |-> phone, handed |-> {}]
NoAck    == [claim |-> NoClaim, results |-> {}, delivered |-> {}]
NoPass   == [pc |-> "idle", seen |-> {}, caughtUp |-> FALSE, takes |-> FALSE, claim |-> NoClaim,
             todo |-> {}, results |-> {}, delivered |-> {}, relaying |-> {}]

PhoneIdle == [pc |-> "idle", todo |-> {}]

AClaim == Inbox!Claimed \union {NoClaim}
Pass   == [pc : {"idle", "held", "claim", "apply", "open", "close"}, seen : SUBSET Turns,
           caughtUp : BOOLEAN, takes : BOOLEAN, claim : AClaim,
           todo : SUBSET Requests, results : SUBSET Requests, delivered : SUBSET Requests,
           relaying : SUBSET Approvals]

TypeOK ==
  /\ Inbox!TypeOK
  /\ log \subseteq Turns
  /\ takes \in [Macs -> BOOLEAN]
  /\ held \in [Macs -> SUBSET Turns]
  /\ asks \in [Approvals -> [status : {"none", "pending", "resolved", "interrupted"},
                             decision : SUBSET Requests,
                             relay : {"none", "opened", "closed"}]]
  /\ heldAck \in [Macs -> [claim : AClaim, results : SUBSET Requests, delivered : SUBSET Requests]]
  /\ pass \in [Macs -> Pass]
  /\ rows \in [Requests -> {"none", "unsent", "waiting", "claimed", "delivered", "refused",
                            "gone"}]
  /\ phonePass \in [pc : {"idle", "send", "poll"}, todo : SUBSET Requests]
  /\ sending \subseteq Requests
  /\ limbo \subseteq Requests
  /\ ran \in [Turns -> SUBSET Macs]
  /\ handed \subseteq Requests
  /\ freed \subseteq Requests
  /\ accidents \in 0 .. MaxAccidents

Init ==
  /\ Inbox!Init
  /\ log = {}
  /\ takes = [m \in Macs |-> TRUE]
  /\ held = [m \in Macs |-> {}]
  /\ asks = [a \in Approvals |-> [status |-> "none", decision |-> {}, relay |-> "none"]]
  /\ heldAck = [m \in Macs |-> NoAck]
  /\ pass = [m \in Macs |-> NoPass]
  /\ rows = [q \in Requests |-> "none"]
  /\ phonePass = PhoneIdle
  /\ sending = {}
  /\ limbo = {}
  /\ ran = [q \in Turns |-> {}]
  /\ handed = {}
  /\ freed = {}
  /\ accidents = 0

\* What goes wrong goes wrong finitely often: a call that is not answered, a pull that ends short,
\* an apply that throws, a restart of a Mac, and its person's change of mind.
Accident(peril) == peril \in Perils /\ accidents < MaxAccidents /\ accidents' = accidents + 1

\* A call that is not answered: it reached the cloud or it did not.
Lost(peril, call) == Accident(peril) /\ (call \/ UNCHANGED inboxVars)

-----------------------------------------------------------------------------
(* The phone. *)

\* What the phone may ask: an answer only to an approval it sees open.
Ask(q) ==
  /\ rows[q] = "none"
  /\ Cardinality({r \in Requests : rows[r] # "none"}) < MaxAsks
  /\ q.kind = "answer" => \E x \in approvals : x.a = q.approval /\ x.state = "open"
  /\ rows' = [rows EXCEPT ![q] = "unsent"]
  /\ UNCHANGED <<inboxVars, macVars, phonePass, sending, limbo, freed, accidents>>

Unsent == {q \in Requests : rows[q] = "unsent"}

\* A pass of the phone sends what was unsent as it began, one at a time.
Send(q) ==
  /\ sending = {}
  /\ \E todo \in {IF phonePass.pc = "idle" THEN Unsent ELSE phonePass.todo} :
       /\ q \in todo
       /\ phonePass' = [pc |-> "send", todo |-> todo \ {q}]
  /\ sending' = {q}
  /\ UNCHANGED <<inboxVars, macVars, rows, limbo, freed, accidents>>

\* What the inbox says of a request: the state of its row, and "unknown" of one it has not.
StatusIn(ds, q) ==
  CASE \E r \in ds : r.q = q /\ Inbox!Waiting(r)                     -> "waiting"
    [] \E r \in ds : r.q = q /\ Inbox!Pending(r) /\ ~Inbox!Waiting(r) -> "claimed"
    [] \E r \in ds : r.q = q /\ r.state = "delivered"                 -> "delivered"
    [] \E r \in ds : r.q = q /\ r.state = "refused"                   -> "refused"
    [] OTHER                                                          -> "unknown"

\* Faulty: the inbox's word is kept as it is.
RecordAsItIs(q, status) == status

\* What the phone keeps of a status: an answer or a capture that was delivered has nothing left to
\* say, and a request the inbox does not know is shown refused.
Record(q, status) ==
  CASE status = "delivered" /\ q.kind # "turn" -> "gone"
    [] status = "unknown"                      -> "refused"
    [] OTHER                                   -> status

Create(q) == Inbox!CreateNothing(q) \/ Inbox!CreateWork(q) \/ Inbox!CreateAnswer(q)

\* What a pass does once a create is stored or refused for good.
SendsOn == [phonePass EXCEPT !.pc = IF phonePass.todo = {} THEN "poll" ELSE "send"]

\* The create is answered with the row's state, or with a refusal no resend passes, and the pass
\* goes on; refused for want of room, it ends the pass, and the next one tries again.
Sent(q) ==
  /\ sending = {q}
  /\ sending' = {}
  /\ Create(q)
  /\ LET stored == Inbox!Stored(dispatches', q)
         full   == Inbox!Full(Inbox!KeptDispatches)
     IN  /\ rows' = [rows EXCEPT ![q] =
              IF @ = "gone" THEN "gone"
              ELSE IF stored THEN Record(q, StatusIn(dispatches', q))
              ELSE IF full THEN "unsent"
              ELSE "refused"]
         /\ phonePass' = IF ~stored /\ full THEN PhoneIdle ELSE SendsOn
  /\ UNCHANGED <<macVars, limbo, freed, accidents>>

\* The create is not answered: the pass ends, and the next one tries again; whether it reached the
\* cloud, or will yet, the phone cannot tell.
SendLost(q) ==
  /\ sending = {q}
  /\ sending' = {}
  /\ Accident("create")
  /\ limbo' = limbo \union {q}
  /\ phonePass' = PhoneIdle
  /\ UNCHANGED <<inboxVars, macVars, rows, freed>>

LateCreate(q) ==
  /\ q \in limbo
  /\ limbo' = limbo \ {q}
  /\ Create(q)
  /\ UNCHANGED <<macVars, rows, phonePass, sending, freed, accidents>>

\* A pass that sent all it had to goes on to its poll; one with nothing to send begins there.
AtPoll == sending = {} /\ (phonePass.pc = "poll" \/ (phonePass.pc = "idle" /\ Unsent = {}))

\* Faulty: what a Mac holds is as good as done.
PolledWaiting(q) == rows[q] = "waiting"

\* What is asked about: a delivered turn is, until the log holds it.
Polled(q) == rows[q] \in {"waiting", "claimed"} \/ (rows[q] = "delivered" /\ q.kind = "turn")

\* The fate of what the inbox holds is polled, all of it at once, and the pass is over.  A poll
\* with nothing to ask changes nothing, and none is begun for it.
Poll ==
  /\ AtPoll
  /\ phonePass.pc = "poll" \/ \E q \in Requests : Polled(q)
  /\ rows' = [q \in Requests |->
       IF Polled(q) THEN Record(q, StatusIn(dispatches, q)) ELSE rows[q]]
  /\ phonePass' = PhoneIdle
  /\ UNCHANGED <<inboxVars, macVars, sending, limbo, freed, accidents>>

\* The poll is not answered.
PollLost ==
  /\ phonePass.pc = "poll"
  /\ Accident("poll")
  /\ phonePass' = PhoneIdle
  /\ UNCHANGED <<inboxVars, macVars, rows, sending, limbo, freed>>

\* A turn the log holds is drawn from there alone.
DropLanded(q) ==
  /\ q \in log
  /\ rows[q] \notin {"none", "gone"}
  /\ rows' = [rows EXCEPT ![q] = "gone"]
  /\ UNCHANGED <<inboxVars, macVars, phonePass, sending, limbo, freed, accidents>>

\* What a cancel's answer leaves of a request, from what the inbox had of it: a request taken back,
\* or never known, is forgotten, and a Mac that has it keeps it.
Forgets(q, status) ==
  /\ rows' = [rows EXCEPT ![q] =
       IF status \in {"waiting", "unknown"} THEN "gone" ELSE Record(q, status)]
  /\ freed' = IF rows'[q] = "gone" /\ q \notin handed \union limbo THEN freed \union {q} ELSE freed

\* Faulty: a cancel does not wait for the pass.
CancelDuringPass(q) ==
  /\ rows[q] \notin {"none", "gone"}
  /\ Inbox!Cancel(q)
  /\ Forgets(q, StatusIn(dispatches, q))
  /\ UNCHANGED <<macVars, phonePass, sending, limbo, accidents>>

\* A cancel waits out the phone's pass.
Cancel(q) ==
  /\ phonePass.pc = "idle"
  /\ rows[q] \notin {"none", "gone"}
  /\ Inbox!Cancel(q)
  /\ Forgets(q, StatusIn(dispatches, q))
  /\ UNCHANGED <<macVars, phonePass, sending, limbo, accidents>>

CancelLost(q) ==
  /\ phonePass.pc = "idle"
  /\ rows[q] \notin {"none", "gone"}
  /\ Accident("cancel")
  /\ Inbox!Cancel(q)
  /\ UNCHANGED <<macVars, phoneVars>>

-----------------------------------------------------------------------------
(* A Mac's pass.  Each action runs from one await to the next. *)

Goes(m, pc) == pass' = [pass EXCEPT ![m].pc = pc]

\* What the phone should see and was never offered.
ToOpen(m) ==
  {a \in Approvals : a.from = m /\ takes[m] /\ asks[a].status = "pending" /\ asks[a].relay = "none"}

\* Faulty: a Mac that takes no requests has nothing to relay.
ToCloseTaking(m, taking, as) ==
  {a \in Approvals : /\ a.from = m /\ as[a].relay = "opened"
                     /\ as[a].status # "pending" /\ taking}

\* What the phone was offered and should no longer see.
ToClose(m, taking, as) ==
  {a \in Approvals : /\ a.from = m /\ as[a].relay = "opened"
                     /\ as[a].status # "pending" \/ ~taking}

\* The end of a pass: what is to be closed is listed once all that was to be opened is.
Closes(m, taking, as) ==
  IF ToClose(m, taking, as) = {} THEN NoPass
  ELSE [NoPass EXCEPT !.pc = "close", !.relaying = ToClose(m, taking, as)]

\* The pass goes on to the approvals, whatever came of the requests.
Relaying(m) ==
  IF ToOpen(m) = {} THEN Closes(m, takes[m], asks)
  ELSE [NoPass EXCEPT !.pc = "open", !.takes = takes[m], !.relaying = ToOpen(m)]

Relays(m) == pass' = [pass EXCEPT ![m] = Relaying(m)]

\* The steps of the pass before this one, as far as requests go: of what the Mac's threads hold
\* all or some goes to the log, and then what the log holds comes here.  Whether the Mac takes
\* requests is read as the next step starts, before it waits for anything.
PushPull(m) ==
  /\ pass[m].pc = "idle"
  /\ \A c \in claims : c.by = m => c = heldAck[m].claim \* see LetGo
  /\ \E some \in SUBSET held[m] : log' = log \union some
  /\ \E some \in SUBSET log', caughtUp \in BOOLEAN :
       /\ caughtUp => some = log'
       /\ IF caughtUp THEN UNCHANGED accidents ELSE Accident("pull")
       /\ held' = [held EXCEPT ![m] = @ \union some]
       /\ pass' = [pass EXCEPT ![m] = [@ EXCEPT
            !.pc = IF heldAck[m] = NoAck THEN "claim" ELSE "held",
            !.seen = log', !.caughtUp = caughtUp, !.takes = takes[m]]]
  /\ UNCHANGED <<inboxVars, phoneVars, takes, asks, heldAck, ran, handed>>

\* An ack that did not reach the cloud goes again before the next claim.
AckHeld(m) ==
  LET ack == Inbox!Ack(heldAck[m].claim, heldAck[m].results, heldAck[m].delivered)
  IN  /\ pass[m].pc = "held"
      /\ \/ /\ ack
            /\ heldAck' = [heldAck EXCEPT ![m] = NoAck]
            /\ Goes(m, "claim")
            /\ UNCHANGED accidents
         \/ /\ Lost("ack", ack)
            /\ Relays(m)
            /\ UNCHANGED heldAck
      /\ UNCHANGED <<phoneVars, log, takes, held, asks, ran, handed>>

\* Faulty: whatever came of the pull.
KindsUnread(m) == IF pass[m].takes THEN Inbox!Kinds ELSE {"capture"}

\* A Mac that takes the phone's requests claims them once it has the whole log.
KindsOf(m) == IF pass[m].takes /\ pass[m].caughtUp THEN Inbox!Kinds ELSE {"capture"}

\* What this step's claim was answered with.
NewClaim == CHOOSE c \in claims' : c \notin claims

Claim(m) ==
  /\ pass[m].pc = "claim"
  /\ \/ /\ Inbox!Claim(m, KindsOf(m))
        /\ pass' = [pass EXCEPT ![m] =
             IF claims' = claims THEN Relaying(m)
             ELSE [@ EXCEPT !.pc = "apply", !.claim = NewClaim, !.todo = NewClaim.handed]]
        /\ UNCHANGED accidents
     \/ Lost("claim", Inbox!Claim(m, KindsOf(m))) /\ Relays(m)
  /\ handed' = IF claims' = claims THEN handed ELSE handed \union NewClaim.handed
  /\ UNCHANGED <<phoneVars, log, takes, held, asks, heldAck, ran>>

\* One request of the claim is done with, and has a result.
Result(m, q, delivered) ==
  LET p == pass[m]
  IN  pass' = [pass EXCEPT ![m] = [p EXCEPT
        !.todo = p.todo \ {q}, !.results = p.results \union {q},
        !.delivered = IF delivered THEN p.delivered \union {q} ELSE p.delivered]]

\* A turn the Mac's threads hold is delivered already; any other starts or is queued, unless its
\* thread is archived or runs elsewhere.
ApplyTurn(m, q) ==
  /\ pass[m].pc = "apply" /\ q \in pass[m].todo /\ q.kind = "turn"
  /\ \/ q \in held[m] /\ Result(m, q, TRUE) /\ UNCHANGED <<held, ran>>
     \/ /\ q \notin held[m]
        /\ held' = [held EXCEPT ![m] = @ \union {q}]
        /\ ran' = [ran EXCEPT ![q] = @ \union {m}]
        /\ Result(m, q, TRUE)
     \/ q \notin held[m] /\ Result(m, q, FALSE) /\ UNCHANGED <<held, ran>>
  /\ UNCHANGED <<inboxVars, phoneVars, log, takes, asks, heldAck, handed, accidents>>

\* Faulty: whatever was decided.
ApplyAnswerToResolved(m, q) ==
  /\ pass[m].pc = "apply" /\ q \in pass[m].todo /\ q.kind = "answer"
  /\ IF asks[q.approval].status = "pending"
       THEN asks' = [asks EXCEPT ![q.approval] = [@ EXCEPT !.status = "resolved", !.decision = {q}]]
       ELSE UNCHANGED asks
  /\ Result(m, q, asks'[q.approval].status = "resolved")
  /\ UNCHANGED <<inboxVars, phoneVars, log, takes, held, heldAck, ran, handed, accidents>>

AnswersTo(a) == {q \in Requests : q.kind = "answer" /\ q.approval = a}

\* An answer resolves what waits for it, as every answer does that decides the same: one of those
\* that comes after it, or again, finds what it would have resolved.
ApplyAnswer(m, q) ==
  /\ pass[m].pc = "apply" /\ q \in pass[m].todo /\ q.kind = "answer"
  /\ \E ask \in {asks[q.approval]} :
       \/ /\ ask.status = "pending"
          /\ \E decision \in SUBSET AnswersTo(q.approval) :
               /\ q \in decision
               /\ asks' = [asks EXCEPT ![q.approval] =
                    [@ EXCEPT !.status = "resolved", !.decision = decision]]
          /\ Result(m, q, TRUE)
       \/ /\ ask.status # "pending"
          /\ Result(m, q, ask.status = "resolved" /\ q \in ask.decision)
          /\ UNCHANGED asks
  /\ UNCHANGED <<inboxVars, phoneVars, log, takes, held, heldAck, ran, handed, accidents>>

\* A line for Inbox.md has no ledger: one that comes again is written again.
ApplyCapture(m, q) ==
  /\ pass[m].pc = "apply" /\ q \in pass[m].todo /\ q.kind = "capture"
  /\ Result(m, q, TRUE)
  /\ UNCHANGED <<inboxVars, phoneVars, log, takes, held, asks, heldAck, ran, handed, accidents>>

\* An apply that threw is left out of the ack: its claim lapses, and it comes back.
ApplyThrows(m, q) ==
  /\ pass[m].pc = "apply" /\ q \in pass[m].todo
  /\ Accident("apply")
  /\ pass' = [pass EXCEPT ![m].todo = @ \ {q}]
  /\ UNCHANGED <<inboxVars, phoneVars, log, takes, held, asks, heldAck, ran, handed>>

\* The results go to the cloud, and are kept when they do not reach it.
Ack(m) ==
  LET p   == pass[m]
      ack == Inbox!Ack(p.claim, p.results, p.delivered)
  IN  /\ p.pc = "apply" /\ p.todo = {}
      /\ \/ p.results = {} /\ UNCHANGED <<inboxVars, heldAck, accidents>>
         \/ p.results # {} /\ ack /\ UNCHANGED <<heldAck, accidents>>
         \/ /\ p.results # {}
            /\ Lost("ack", ack)
            /\ heldAck' = [heldAck EXCEPT ![m] =
                 [claim |-> p.claim, results |-> p.results, delivered |-> p.delivered]]
      /\ Relays(m)
      /\ UNCHANGED <<phoneVars, log, takes, held, asks, ran, handed>>

\* A claim nobody can ack any more, its answer lost or its ack done, is let go of before the Mac's
\* next pass: it is nothing the code does.
LetGo(c) ==
  /\ \A m \in Macs : pass[m].claim # c /\ heldAck[m].claim # c
  /\ Inbox!LetGo(c)
  /\ UNCHANGED <<macVars, phoneVars, accidents>>

-----------------------------------------------------------------------------
(* The approvals. *)

\* The mark follows the inbox's answer.  A refusal for want of room, or no answer, ends the pass.
Open(m, a) ==
  /\ pass[m].pc = "open" /\ a \in pass[m].relaying
  /\ \/ /\ Inbox!OpenApproval(a)
        /\ \E x \in approvals' :
             /\ x.a = a
             /\ asks' = [asks EXCEPT ![a].relay = IF x.state = "closed" THEN "closed" ELSE "opened"]
        /\ pass' = [pass EXCEPT ![m] =
             IF @.relaying = {a} THEN Closes(m, @.takes, asks')
             ELSE [@ EXCEPT !.relaying = pass[m].relaying \ {a}]]
        /\ UNCHANGED accidents
     \/ /\ Inbox!OpenApproval(a)
        /\ \A x \in approvals' : x.a # a
        /\ pass' = [pass EXCEPT ![m] = NoPass]
        /\ UNCHANGED <<asks, accidents>>
     \/ /\ Lost("open", Inbox!OpenApproval(a))
        /\ pass' = [pass EXCEPT ![m] = NoPass]
        /\ UNCHANGED asks
  /\ UNCHANGED <<phoneVars, log, takes, held, heldAck, ran, handed>>

Close(m, a) ==
  /\ pass[m].pc = "close" /\ a \in pass[m].relaying
  /\ \/ /\ Inbox!CloseApproval(a)
        /\ asks' = [asks EXCEPT ![a].relay = "closed"]
        /\ pass' = [pass EXCEPT ![m] =
             IF @.relaying = {a} THEN NoPass
             ELSE [@ EXCEPT !.relaying = pass[m].relaying \ {a}]]
        /\ UNCHANGED accidents
     \/ /\ Lost("close", Inbox!CloseApproval(a))
        /\ pass' = [pass EXCEPT ![m] = NoPass]
        /\ UNCHANGED asks
  /\ UNCHANGED <<phoneVars, log, takes, held, heldAck, ran, handed>>

-----------------------------------------------------------------------------
(* What happens around a Mac's passes. *)

\* A turn the phone started waits for a decision.
Raise(a) ==
  /\ asks[a].status = "none"
  /\ \E q \in Turns : a.from \in ran[q]
  /\ asks' = [asks EXCEPT ![a].status = "pending"]
  /\ UNCHANGED <<inboxVars, phoneVars, log, takes, held, heldAck, pass, ran, handed, accidents>>

\* It is answered at the Mac's keyboard, as the phone would have or not, or its turn ends.
SettleHere(a) ==
  /\ asks[a].status = "pending"
  /\ \/ \E decision \in SUBSET AnswersTo(a) :
          asks' = [asks EXCEPT ![a] = [@ EXCEPT !.status = "resolved", !.decision = decision]]
     \/ asks' = [asks EXCEPT ![a].status = "interrupted"]
  /\ UNCHANGED <<inboxVars, phoneVars, log, takes, held, heldAck, pass, ran, handed, accidents>>

\* The person changes "Let my phone ask this Mac".
Choose(m) ==
  /\ Accident("choice")
  /\ takes' = [takes EXCEPT ![m] = ~@]
  /\ UNCHANGED <<inboxVars, phoneVars, log, held, asks, heldAck, pass, ran, handed>>

\* A restart forgets the pass and the held ack, and settles what waited in its turns.
Restart(m) ==
  /\ Accident("restart")
  /\ pass' = [pass EXCEPT ![m] = NoPass]
  /\ heldAck' = [heldAck EXCEPT ![m] = NoAck]
  /\ asks' = [a \in Approvals |->
       IF a.from = m /\ asks[a].status = "pending"
         THEN [asks[a] EXCEPT !.status = "interrupted"] ELSE asks[a]]
  /\ UNCHANGED <<inboxVars, phoneVars, log, takes, held, ran, handed>>

Tick == UNCHANGED <<macVars, phoneVars, accidents>> /\ Inbox!Tick

PassStep(m) ==
  \/ PushPull(m) \/ AckHeld(m) \/ Claim(m) \/ Ack(m)
  \/ \E q \in Requests :
       ApplyTurn(m, q) \/ ApplyAnswer(m, q) \/ ApplyCapture(m, q) \/ ApplyThrows(m, q)
  \/ \E a \in Approvals : Open(m, a) \/ Close(m, a)

PhoneStep == Poll \/ \E q \in Requests : Send(q) \/ Sent(q)

Next ==
  \/ \E q \in Requests : \/ Ask(q) \/ SendLost(q) \/ LateCreate(q) \/ DropLanded(q)
                         \/ Cancel(q) \/ CancelLost(q)
  \/ PhoneStep \/ PollLost
  \/ \E m \in Macs : PassStep(m) \/ Choose(m) \/ Restart(m)
  \/ \E a \in Approvals : Raise(a) \/ SettleHere(a)
  \/ \E c \in claims : LetGo(c)
  \/ Tick

\* A Mac syncs on a timer for as long as it runs, a phone in the foreground runs its passes on one
\* while anything is on its way, and the clock moves.  Which step a pass comes to is its own.
Fairness ==
  /\ \A m \in Macs : WF_vars(PassStep(m))
  /\ WF_vars(PhoneStep)
  /\ WF_vars(\E c \in claims : LetGo(c))
  /\ WF_vars(Tick)

Spec == Init /\ [][Next]_vars /\ Fairness

-----------------------------------------------------------------------------
(* What is checked. *)

\* "delivered" is true: a Mac's threads hold the turn, and the approval was decided as answered.
DeliveredIsTrue ==
  \A r \in dispatches : r.state = "delivered" =>
    /\ r.q.kind = "turn" => \E m \in Macs : r.q \in held[m]
    /\ r.q.kind = "answer" => asks[r.q.approval].status = "resolved"
                              /\ r.q \in asks[r.q.approval].decision

\* A request another Mac already ran is found in the log: one the log held when a Mac began to pull
\* is not run by that Mac, whatever became of its ack and its claim.
LoggedRunsNoMore ==
  [][\A m \in Macs, q \in Turns : m \in ran'[q] \ ran[q] => q \notin pass[m].seen]_vars

\* A request taken back before any Mac was handed it never reaches one, unless a create the phone
\* gave up on was still on its way.
CancelledStaysAway == freed \intersect handed = {}

OnPhone(q) == rows[q] \in {"unsent", "waiting", "claimed"}

\* No Mac that could take the request is willing to: any Mac may take a turn, and the Mac that
\* asked takes the answer.  A capture every Mac takes.
NobodyWilling(q) ==
  \/ q.kind = "turn" /\ \A m \in Macs : ~takes[m]
  \/ q.kind = "answer" /\ ~takes[q.approval.from]

\* Whatever a phone asks is settled there in the end, unless the Macs meanwhile took no requests.
RequestsSettle ==
  \A q \in Requests : OnPhone(q) ~> (~OnPhone(q) \/ NobodyWilling(q))

Listed(a) == \E x \in approvals : x.a = a /\ x.state # "closed"

\* A Mac has an approval to offer and the list has no room for it.
Crowded(m) ==
  /\ Cardinality({x \in approvals : x.state # "closed"}) >= MaxOpen
  /\ \E a \in ToOpen(m) : \A x \in approvals : x.a # a

Wanted(a) == asks[a].status = "pending" /\ takes[a.from]

\* An approval marked as offered leaves the phone once it is settled on its Mac, or the Mac takes
\* no more requests, whichever calls are lost, unless the Mac keeps having one to offer that finds
\* the list full: that refusal ends its passes before they take anything back.
MarkedIsTakenBack ==
  \A a \in Approvals :
    (asks[a].relay = "opened" /\ ~Wanted(a)) ~> (Wanted(a) \/ ~Listed(a) \/ Crowded(a.from))

\* An approval is taken back once it settles on its Mac, however it settled.
TakenBack ==
  \A a \in Approvals : (asks[a].status \in {"resolved", "interrupted"}) ~> ~Listed(a)

=============================================================================
