---------------------------- MODULE ThreadTurns ----------------------------
(***************************************************************************)
(* The turns of one thread: its row and message queue in the local         *)
(* database (packages/db/src/threads.ts, queued-messages.ts), the service  *)
(* that moves them (apps/cli/src/server/threads), and the driver that runs *)
(* a turn at a provider (agents/runtime-manager.ts), with the approvals a  *)
(* turn asks for.  A thread's row, queue, driver entry and cards are keyed *)
(* by its id and no step reads another thread's, so one thread is enough.  *)
(*                                                                         *)
(* The server is one JavaScript thread: a handler runs to its end before   *)
(* another begins, but each of its transactions commits on its own, and    *)
(* the process may die after any of them.  "hand" is what the running      *)
(* handler has still to do; while it is not Idle nothing happens but its   *)
(* next step, or a crash.                                                  *)
(*                                                                         *)
(* The provider is trusted for nothing: a turn prompted there may report   *)
(* its end at any later time, whatever became of it here, or never.        *)
(*                                                                         *)
(* A definition marked "Faulty" is no part of the specification: see       *)
(* AccountLog.                                                             *)
(***************************************************************************)
EXTENDS Naturals, Sequences

CONSTANTS
  Typed,      \* messages sent from this device, each with an id of its own
  Dispatched, \* a phone's requests, handed over by the account, perhaps again and again
  Foreign,    \* turns other devices start on this thread
  Asks,       \* the tool calls turns ask an approval for
  NoMessage, NoAsk,
  MaxTurns,   \* bound: the turns TurnsEnd asks about, one for each message
  MaxCrashes  \* bound: how often the process dies

Messages == Typed \cup Dispatched

\* A turn of this device is named by the position of its request in the log.
NoTurn == 0
LocalTurns == Nat \ {0}

ASSUME ForeignAssumption == Foreign \cap Nat = {}
ASSUME MessageAssumption == NoMessage \notin Messages /\ Typed \cap Dispatched = {}
ASSUME AsksAssumption == NoAsk \notin Asks
ASSUME BoundsAssumption == MaxTurns \in Nat /\ MaxCrashes \in Nat

VARIABLES
  up,        \* the server process runs
  thread,    \* the thread row: status, the turn it describes, archived
  queue,     \* queued_thread_messages, by sort key
  claims,    \* the queued messages whose row is claimed
  requested, \* the client/turn/requested events appended here, in order
  open,      \* the turns of this device whose turn/started event has no turn/completed yet
  foreign,   \* how much of each foreign turn was pulled: unseen, running, done
  pulled,    \* the dispatches whose request was pulled from another Mac's log
  cards,     \* pending_interactions: per ask its turn and status; waiter: the parked request
             \* lives; told: what the provider was answered
  driver,    \* the driver's entry for the thread: the turn and its phase
  prompted,  \* the turns a provider was given and may yet report on
  hand,      \* what the running handler has still to do
  crashes,
  why,       \* history: what last took the row out of a turn
  excused    \* history: the two interleavings the properties leave out, see Quiet

row == <<thread, queue, claims>>
log == <<requested, open>>
abroad == <<foreign, pulled>>
engine == <<driver, prompted>>
history == <<crashes, excused>>
vars == <<up, row, log, abroad, cards, engine, hand, history, why>>

Statuses == {"idle", "starting", "active", "stopping", "error"}
Running == {"starting", "active", "stopping"}
-----------------------------------------------------------------------------
(* The lifecycle: what an event does to the row. *)

RefusedWhenArchived == {"run.preparing", "run.started"}
Settling == {"run.succeeded", "run.failed", "stop.settled"}

\* THREAD_LIFECYCLE by column; "none" is an absent cell.
Cell(status, event) ==
  CASE event = "run.preparing"  /\ status \in {"idle", "error"}             -> "starting"
    [] event = "run.started"    /\ status \in {"idle", "error", "starting"} -> "active"
    [] event = "run.succeeded"  /\ status \in Running                       -> "idle"
    [] event = "run.failed"     /\ status \in Running                       -> "error"
    [] event = "stop.requested" /\ status \in {"starting", "active"}        -> "stopping"
    [] event = "stop.settled"   /\ status = "stopping"                      -> "idle"
    [] OTHER                                                                -> "none"

\* Faulty: an archived thread still takes new work.
AppliesThoughArchived(r, event, t) ==
  /\ event \in Settling => t = r.turn
  /\ Cell(r.status, event) # "none"

\* An event applies when the archive does not refuse it, a settle names the turn the row
\* describes, and the table has a cell for it.
Applies(r, event, t) ==
  /\ event \in RefusedWhenArchived => ~r.archived
  /\ event \in Settling => t = r.turn
  /\ Cell(r.status, event) # "none"

\* Faulty: a status without a cell for the event is overwritten all the same.
MovedBlindly(r, event, t) ==
  [status   |-> Cell(r.status, event),
   turn     |-> IF event = "run.started" THEN t
                ELSE IF event \in Settling THEN NoTurn ELSE r.turn,
   archived |-> r.archived]

Moved(r, event, t) ==
  IF ~Applies(r, event, t) THEN r
  ELSE [status   |-> Cell(r.status, event),
        turn     |-> IF event = "run.started" THEN t
                     ELSE IF event \in Settling THEN NoTurn ELSE r.turn,
        archived |-> r.archived]

RunsHere == thread.status \in Running /\ thread.turn \notin Foreign
RunsElsewhere == thread.status \in Running /\ thread.turn \in Foreign
-----------------------------------------------------------------------------
(* The queue and the steps a handler is made of. *)

Hand(step, m, t, k) == [step |-> step, msg |-> m, turn |-> t, ask |-> k]
Idle == Hand("none", NoMessage, NoTurn, NoAsk)
Waits == up /\ hand = Idle
InHand(step) == up /\ hand.step = step

SeenIn(s) == {s[i] : i \in DOMAIN s}
Unclaimed == {i \in DOMAIN queue : queue[i] \notin claims}
NextUp == queue[CHOOSE i \in Unclaimed : \A j \in Unclaimed : i <= j]

Position(s, m) == CHOOSE i \in DOMAIN s : s[i] = m
Without(s, m) == [i \in 1 .. Len(s) - 1 |-> IF i < Position(s, m) THEN s[i] ELSE s[i + 1]]

\* Claims the oldest queued message and leaves its dispatch in hand.
ClaimNext ==
  /\ claims' = claims \cup {NextUp}
  /\ hand' = Hand("drain", NextUp, NoTurn, NoAsk)

\* Faulty: the queue follows a turn that succeeded alone.
SettleDrainsSuccess(r, event, t, drain, holds, reason) ==
  LET applied == Applies(r, event, t)
  IN  /\ thread' = Moved(r, event, t)
      /\ why' = IF ~applied THEN why ELSE IF holds THEN "held" ELSE reason
      /\ IF applied /\ drain /\ event = "run.succeeded" /\ Unclaimed # {}
         THEN ClaimNext
         ELSE hand' = Idle /\ UNCHANGED claims

\* projectLifecycleInTransaction for a settle of row r: where the settle applies and drains, and
\* no failure holds the queue, the next message is claimed in the same transaction.
Settle(r, event, t, drain, holds, reason) ==
  LET applied == Applies(r, event, t)
  IN  /\ thread' = Moved(r, event, t)
      /\ why' = IF ~applied THEN why ELSE IF holds THEN "held" ELSE reason
      /\ IF applied /\ drain /\ ~holds /\ Unclaimed # {}
         THEN ClaimNext
         ELSE hand' = Idle /\ UNCHANGED claims

\* The request of a message: the row prepares, the log gains its request, and the turn it names is
\* left for the driver once the transaction commits.
Request(m) ==
  /\ thread' = Moved(thread, "run.preparing", NoTurn)
  /\ requested' = Append(requested, m)
  /\ hand' = Hand("dispatch", m, Len(requested) + 1, NoAsk)

\* interruptOpenPendingInteractions and the waiters' cancel: every card still open is interrupted,
\* every parked request denied.
Cleared(c) ==
  [k \in Asks |->
    [turn   |-> c[k].turn,
     status |-> IF c[k].status = "pending" THEN "interrupted" ELSE c[k].status,
     waiter |-> FALSE,
     told   |-> IF c[k].waiter THEN "deny" ELSE c[k].told]]

NoDriver == [turn |-> NoTurn, phase |-> "none"]
-----------------------------------------------------------------------------
(* What people and phones ask of the service. *)

\* Faulty: a send on a thread at rest starts ahead of the messages left in line.
TakeAhead(m) ==
  /\ ~thread.archived
  /\ \/ /\ thread.status \in Running
        /\ queue' = Append(queue, m)
        /\ UNCHANGED <<thread, claims, requested, hand>>
     \/ /\ thread.status \notin Running
        /\ Request(m)
        /\ UNCHANGED <<queue, claims>>
  /\ UNCHANGED <<up, open, abroad, cards, engine, history, why>>

\* resolveSendInTransaction: a send joins a running thread's queue; on a thread at rest the oldest
\* message left in line starts and the send queues behind, and only an empty line lets it start.
Take(m) ==
  /\ ~thread.archived
  /\ \/ /\ thread.status \in Running
        /\ queue' = Append(queue, m)
        /\ UNCHANGED <<thread, claims, requested, hand>>
     \/ /\ thread.status \notin Running /\ Unclaimed # {}
        /\ queue' = Append(queue, m)
        /\ ClaimNext
        /\ UNCHANGED <<thread, requested>>
     \/ /\ thread.status \notin Running /\ Unclaimed = {}
        /\ Request(m)
        /\ UNCHANGED <<queue, claims>>
  /\ UNCHANGED <<up, open, abroad, cards, engine, history, why>>

Send(m) ==
  /\ Waits /\ m \in Typed
  /\ m \notin SeenIn(queue) \cup SeenIn(requested)
  /\ Take(m)

\* threadHoldsDispatch: the ledger of a phone's request is the request or queued message that
\* carries it, here or pulled.
Held(m) == m \in SeenIn(queue) \cup SeenIn(requested) \cup pulled

AcceptDispatch(m) ==
  /\ Waits /\ m \in Dispatched
  /\ ~Held(m) /\ ~RunsElsewhere
  /\ Take(m)

\* requestStopInTransaction; what is left is to ask the driver.
RequestStop ==
  /\ IF RunsHere
     THEN /\ thread' = Moved(thread, "stop.requested", NoTurn)
          /\ hand' = Hand("interrupt", NoMessage, thread.turn, NoAsk)
     ELSE /\ hand' = Idle /\ UNCHANGED thread
  /\ UNCHANGED <<up, queue, claims, log, abroad, cards, engine, history, why>>

Interrupt == Waits /\ RunsHere /\ RequestStop

\* The archive commits first and the stop follows; archived on another device, the thread stops here
\* in the same two steps once that is pulled.
Archive ==
  /\ Waits /\ ~thread.archived
  /\ thread' = [status |-> thread.status, turn |-> thread.turn, archived |-> TRUE]
  /\ hand' = Hand("stop", NoMessage, NoTurn, NoAsk)
  /\ UNCHANGED <<up, queue, claims, log, abroad, cards, engine, history, why>>

StopArchived == InHand("stop") /\ RequestStop

\* interruptTurn, and settleStop where no turn at a provider will report.
AskDriver ==
  /\ InHand("interrupt")
  /\ \/ /\ driver.phase \in {"none", "dispatched"}
        /\ driver' = NoDriver
        /\ cards' = IF driver = NoDriver THEN cards ELSE Cleared(cards)
        /\ Settle(thread, "stop.settled", hand.turn, TRUE, FALSE, "settled")
     \/ /\ driver.phase = "started"
        /\ driver' = [turn |-> driver.turn, phase |-> "stopping"]
        /\ cards' = Cleared(cards)
        /\ hand' = Idle
        /\ UNCHANGED <<thread, claims, why>>
     \/ /\ driver.phase = "stopping"
        /\ hand' = Idle
        /\ UNCHANGED <<driver, cards, thread, claims, why>>
  /\ UNCHANGED <<up, queue, log, abroad, prompted, history>>

\* Faulty: a refused drain keeps its claim.
DrainKeepsClaim ==
  /\ InHand("drain")
  /\ IF Applies(thread, "run.preparing", NoTurn)
     THEN /\ Request(hand.msg)
          /\ queue' = Without(queue, hand.msg)
          /\ claims' = claims \ {hand.msg}
     ELSE hand' = Idle /\ UNCHANGED <<thread, requested, queue, claims>>
  /\ UNCHANGED <<up, open, abroad, cards, engine, history, why>>
\* dispatchQueuedMessage: the request and the queue row's removal are one transaction; a row the
\* lifecycle refuses to prepare gets its claim back.
Drain ==
  /\ InHand("drain")
  /\ IF Applies(thread, "run.preparing", NoTurn)
     THEN /\ Request(hand.msg)
          /\ queue' = Without(queue, hand.msg)
     ELSE /\ hand' = Idle
          /\ UNCHANGED <<thread, requested, queue>>
  /\ claims' = claims \ {hand.msg}
  /\ UNCHANGED <<up, open, abroad, cards, engine, history, why>>

-----------------------------------------------------------------------------
(* The driver and the provider. *)

\* startTurn: refused where no provider is available or the thread's turn is unsettled, and the
\* run that never had a turn fails.
StartTurn ==
  /\ InHand("dispatch")
  /\ hand' = Idle
  /\ \/ /\ driver = NoDriver
        /\ driver' = [turn |-> hand.turn, phase |-> "dispatched"]
        /\ UNCHANGED <<thread, why>>
     \/ /\ thread' = Moved(thread, "run.failed", NoTurn)
        /\ why' = "refused"
        /\ UNCHANGED driver
  /\ UNCHANGED <<up, queue, claims, log, abroad, cards, prompted, history>>

\* The session is open and the prompt on the wire.
TurnStarted ==
  /\ Waits /\ driver.phase = "dispatched"
  /\ driver' = [turn |-> driver.turn, phase |-> "started"]
  /\ prompted' = prompted \cup {driver.turn}
  /\ open' = open \cup {driver.turn}
  /\ thread' = Moved(thread, "run.started", driver.turn)
  /\ UNCHANGED <<up, queue, claims, requested, abroad, cards, hand, history, why>>

\* Faulty: the turn's open cards outlive it.
EndTurnKeepsCards(r, t, event, holds) ==
  /\ driver' = NoDriver
  /\ cards' = cards
  /\ open' = open \ {t}
  /\ Settle(r, event, t, TRUE, holds, "settled")
  /\ UNCHANGED <<up, queue, requested, abroad, history>>

\* The driver lets its turn go and the log gains its end, in this order: the settle may claim the
\* next message, whose turn must find the thread free.
EndTurn(r, t, event, holds) ==
  /\ driver' = NoDriver
  /\ cards' = Cleared(cards)
  /\ open' = open \ {t}
  /\ Settle(r, event, t, TRUE, holds, "settled")
  /\ UNCHANGED <<up, queue, requested, abroad, history>>

\* failTurn: a turn that never started is started and failed in one ingest.
FailTurn(holds) ==
  LET unstarted == driver.phase = "dispatched"
  IN  /\ EndTurn(IF unstarted THEN Moved(thread, "run.started", driver.turn) ELSE thread,
                 driver.turn, "run.failed", holds)
      /\ UNCHANGED prompted

\* Opening the session failed or the child died first; a sign-in refusal holds the queue.
DispatchFails ==
  /\ Waits /\ driver.phase = "dispatched"
  /\ \E holds \in BOOLEAN : FailTurn(holds)

\* Faulty: whatever turn it tells of, a report lets go of the driver's.
ReportsAnyTurn(t) ==
  /\ Waits /\ t \in prompted
  /\ prompted' = prompted \ {t}
  /\ IF driver.phase \in {"started", "stopping"}
     THEN \/ EndTurn(thread, t, "run.succeeded", FALSE)
          \/ \E holds \in BOOLEAN : EndTurn(thread, t, "run.failed", holds)
     ELSE UNCHANGED <<up, row, log, abroad, cards, driver, hand, history, why>>

\* The provider reports the end of turn t.  A turn that is not the driver's is dropped.
Reports(t) ==
  /\ Waits /\ t \in prompted
  /\ prompted' = prompted \ {t}
  /\ IF driver.turn = t
     THEN \/ EndTurn(thread, t, "run.succeeded", FALSE)
          \/ \E holds \in BOOLEAN : EndTurn(thread, t, "run.failed", holds)
     ELSE UNCHANGED <<up, row, log, abroad, cards, driver, hand, history, why>>

\* The provider will say nothing more of the driver's turn.
FallsSilent(t) ==
  /\ Waits /\ t \in prompted /\ t = driver.turn
  /\ prompted' = prompted \ {t}
  /\ UNCHANGED <<up, row, log, abroad, cards, driver, hand, history, why>>

\* Faulty: the watchdog leaves a turn that was told to stop to its grace, and one not started alone.
WatchdogStartedOnly ==
  /\ Waits /\ driver.phase = "started"
  /\ \A k \in Asks : ~cards[k].waiter
  /\ FailTurn(FALSE)

\* sweepIdleTurns: a turn the driver heard nothing of for the budget, no approval parked.
Watchdog ==
  /\ Waits /\ driver # NoDriver
  /\ \A k \in Asks : ~cards[k].waiter
  /\ FailTurn(FALSE)

\* closeStoppedTurn: a cancelled turn outlived its grace.
GraceEnds ==
  /\ Waits /\ driver.phase = "stopping"
  /\ EndTurn(thread, driver.turn, "run.succeeded", FALSE)
  /\ UNCHANGED prompted

Card(t, status, waiter, told) == [turn |-> t, status |-> status, waiter |-> waiter, told |-> told]
NewCard == Card(NoTurn, "none", FALSE, "none")
WithCard(k, card) == [a \in Asks |-> IF a = k THEN card ELSE cards[a]]

\* onInteractiveRequest and park, for a turn not cancelled.  A row this key already has answers the
\* request as it was settled.
Ask(k) ==
  /\ Waits /\ driver.phase = "started" /\ driver.turn \in prompted
  /\ cards[k].status # "pending"
  /\ cards' = WithCard(k, CASE cards[k].status = "none"        -> Card(driver.turn, "pending", TRUE, "none")
                             [] cards[k].status = "interrupted" -> Card(cards[k].turn, "interrupted", FALSE, "deny")
                             [] OTHER -> Card(cards[k].turn, "resolved", FALSE, "answer"))
  /\ UNCHANGED <<up, row, log, abroad, engine, hand, history, why>>

\* answerInteraction resolves the row; the waiter is told next.
Answer(k) ==
  /\ Waits /\ cards[k].status = "pending"
  /\ cards' = WithCard(k, Card(cards[k].turn, "resolved", cards[k].waiter, cards[k].told))
  /\ hand' = Hand("answer", NoMessage, NoTurn, k)
  /\ UNCHANGED <<up, row, log, abroad, engine, history, why>>

TellWaiter ==
  /\ InHand("answer")
  /\ LET c == cards[hand.ask]
     IN  cards' = WithCard(hand.ask,
                    Card(c.turn, c.status, FALSE, IF c.waiter THEN "answer" ELSE c.told))
  /\ hand' = Idle
  /\ UNCHANGED <<up, row, log, abroad, engine, history, why>>

AskLapses(k) ==
  /\ Waits /\ cards[k].waiter
  /\ cards' = WithCard(k, Card(cards[k].turn, "interrupted", FALSE, "deny"))
  /\ UNCHANGED <<up, row, log, abroad, engine, hand, history, why>>
-----------------------------------------------------------------------------
(* Events other devices wrote, pulled from the account's log.  A settle pulled does not drain. *)

ForeignStarts(f) ==
  /\ Waits /\ foreign[f] = "unseen"
  /\ foreign' = [foreign EXCEPT ![f] = "running"]
  /\ thread' = Moved(thread, "run.started", f)
  /\ excused' = IF Applies(thread, "run.started", f) /\ driver # NoDriver
                THEN excused \cup {"crossed"} ELSE excused
  /\ UNCHANGED <<up, queue, claims, log, pulled, cards, engine, hand, crashes, why>>

ForeignEnds(f) ==
  /\ Waits /\ foreign[f] = "running"
  /\ foreign' = [foreign EXCEPT ![f] = "done"]
  /\ \E event \in {"run.succeeded", "run.failed"} : Settle(thread, event, f, FALSE, FALSE, "elsewhere")
  /\ UNCHANGED <<up, queue, log, pulled, cards, engine, history>>

\* Another Mac ran the phone's request and its log got here first.
ForeignRequest(m) ==
  /\ Waits /\ m \in Dispatched \ pulled
  /\ pulled' = pulled \cup {m}
  /\ UNCHANGED <<up, row, log, foreign, cards, engine, hand, history, why>>
-----------------------------------------------------------------------------
(* A crash and the boot after it. *)

Crash ==
  /\ up /\ crashes < MaxCrashes
  /\ crashes' = crashes + 1
  /\ up' = FALSE
  /\ hand' = Idle
  /\ driver' = NoDriver
  /\ prompted' = {}
  /\ cards' = [k \in Asks |-> Card(cards[k].turn, cards[k].status, FALSE, cards[k].told)]
  /\ excused' = IF hand.step = "clear" THEN excused \cup {"cut"} ELSE excused
  /\ UNCHANGED <<row, log, abroad, why>>

\* The claims a dead process held are released first.
Boot ==
  /\ ~up
  /\ up' = TRUE
  /\ claims' = {}
  /\ hand' = Hand("recover", NoMessage, NoTurn, NoAsk)
  /\ why' = "recovered"
  /\ UNCHANGED <<thread, queue, log, abroad, cards, engine, history>>

\* recoverWedgedThreads: a run that never had a turn fails, a turn of this device fails with its
\* end in the log, a turn another device runs is left to it.
Recover ==
  /\ InHand("recover")
  /\ IF RunsHere
     THEN /\ thread' = Moved(thread, "run.failed", thread.turn)
          /\ open' = open \ {thread.turn}
          /\ hand' = Hand("clear", NoMessage, NoTurn, NoAsk)
     ELSE /\ hand' = Idle
          /\ UNCHANGED <<thread, open>>
  /\ UNCHANGED <<up, queue, claims, requested, abroad, cards, engine, history, why>>

ClearDead ==
  /\ InHand("clear")
  /\ cards' = Cleared(cards)
  /\ hand' = Idle
  /\ UNCHANGED <<up, row, log, abroad, engine, history, why>>
-----------------------------------------------------------------------------
Init ==
  /\ up = TRUE
  /\ thread = [status |-> "idle", turn |-> NoTurn, archived |-> FALSE]
  /\ queue = <<>> /\ claims = {}
  /\ requested = <<>> /\ open = {}
  /\ foreign = [f \in Foreign |-> "unseen"] /\ pulled = {}
  /\ cards = [k \in Asks |-> NewCard]
  /\ driver = NoDriver /\ prompted = {}
  /\ hand = Idle
  /\ crashes = 0 /\ why = "new" /\ excused = {}

People ==
  \/ \E m \in Messages : Send(m) \/ AcceptDispatch(m)
  \/ Interrupt \/ Archive
  \/ \E k \in Asks : Answer(k)

Service == StopArchived \/ AskDriver \/ Drain \/ StartTurn \/ TellWaiter

Provider ==
  \/ TurnStarted \/ DispatchFails
  \/ \E t \in prompted : Reports(t) \/ FallsSilent(t)
  \/ \E k \in Asks : Ask(k)

Timers == Watchdog \/ GraceEnds \/ \E k \in Asks : AskLapses(k)

Elsewhere ==
  \/ \E f \in Foreign : ForeignStarts(f) \/ ForeignEnds(f)
  \/ \E m \in Dispatched : ForeignRequest(m)

Restart == Crash \/ Boot \/ Recover \/ ClearDead

Next == People \/ Service \/ Provider \/ Timers \/ Elsewhere \/ Restart

AtWork == driver.phase = "started" /\ driver.turn \in prompted

\* Once a provider is silent for good about the driver's turn, the watchdog's clock does run out.
SilenceCounted == ~AtWork /\ Watchdog

\* The process goes on with what it has in hand and is started again after a crash.  A timer that is
\* due fires at the event loop's next turn however busy the handlers keep it, so its fairness is
\* strong.  Nothing is asked of people, providers or other devices.
Fairness ==
  /\ WF_vars(Service) /\ WF_vars(Boot \/ Recover \/ ClearDead)
  /\ SF_vars(SilenceCounted) /\ SF_vars(GraceEnds)
  /\ \A k \in Asks : SF_vars(AskLapses(k))

Spec == Init /\ [][Next]_vars
FairSpec == Spec /\ Fairness
-----------------------------------------------------------------------------
(* Correctness. *)

Phases == {"none", "dispatched", "started", "stopping"}
Steps == {"none", "stop", "interrupt", "drain", "dispatch", "answer", "recover", "clear"}

TypeOK ==
  /\ up \in BOOLEAN
  /\ thread \in [status : Statuses, turn : Nat \cup Foreign, archived : BOOLEAN]
  /\ queue \in Seq(Messages) /\ claims \subseteq Messages
  /\ requested \in Seq(Messages)
  /\ open \subseteq LocalTurns
  /\ foreign \in [Foreign -> {"unseen", "running", "done"}] /\ pulled \subseteq Dispatched
  /\ cards \in [Asks -> [turn : Nat, status : {"none", "pending", "resolved", "interrupted"},
                        waiter : BOOLEAN, told : {"none", "answer", "deny"}]]
  /\ driver \in [turn : Nat, phase : Phases] /\ prompted \subseteq LocalTurns
  /\ hand \in [step : Steps, msg : Messages \cup {NoMessage}, turn : Nat \cup Foreign,
              ask : Asks \cup {NoAsk}]
  /\ crashes \in 0 .. MaxCrashes
  /\ why \in {"new", "settled", "held", "refused", "elsewhere", "recovered"}
  /\ excused \subseteq {"crossed", "cut"}

\* Between handlers, where no turn of another device was bound to the row while the driver held one
\* of its own (the account's log carries both, and the row describes one turn).
Quiet == Waits /\ "crossed" \notin excused

\* The row, the driver and the log tell of one turn: a turn this device's row runs is the driver's,
\* which alone may end it, and a turn the log started and did not end is that turn.  A row wedged in
\* a running status, a turn that runs for nobody and a turn row that renders working for ever
\* (thread-recovery.ts:14-16) are all against it.
OneTurn ==
  Quiet =>
    /\ RunsHere <=> driver # NoDriver
    /\ driver.phase = "dispatched" => thread.status = "starting" /\ thread.turn = NoTurn
    /\ driver.phase = "started" => thread.status = "active" /\ thread.turn = driver.turn
    /\ driver.phase = "stopping" => thread.status = "stopping" /\ thread.turn = driver.turn
    /\ open = IF driver.phase \in {"started", "stopping"} THEN {driver.turn} ELSE {}

\* Between handlers nothing holds a claim: whatever a drain met, its message is requested or back in
\* line, never hidden (queued-messages.ts:166).
NoClaimLeft == Waits => claims = {}

\* On an archived thread no turn runs that was not told to stop (service.ts:160, 340).
ArchivedStops ==
  Quiet /\ thread.archived => driver.phase \in {"none", "stopping"}

\* A queued reply follows the turn it waited on however that turn ended: a line that stands still on
\* a thread at rest met a restart, a refused start, a failure that holds it, or a turn that ran
\* elsewhere (thread-ingest.ts:130, thread-send.ts:223).
LineFollows ==
  Quiet /\ thread.status \notin Running /\ queue # <<>> /\ ~thread.archived => why # "settled"

\* A card is open only while the turn that asked for it runs and its request is parked to hear the
\* answer, a restart that dies between its two writes excepted (service.ts:379); and a decision
\* reached the provider of the turn that asked while that turn still runs (service.ts:300).
CardsAreHeard ==
  \A k \in Asks :
    /\ Quiet /\ "cut" \notin excused /\ cards[k].status = "pending"
       => cards[k].waiter /\ driver.phase = "started" /\ cards[k].turn = driver.turn
    /\ Waits /\ cards[k].status = "resolved" /\ cards[k].turn = driver.turn
       => cards[k].told = "answer"

\* The thread keeps the promise of a message line: every message once, in order, one at a time, none
\* after the archive.
Line == INSTANCE MessageLine WITH
  waiting <- queue, sent <- requested,
  busy <- thread.status \in Running, closed <- thread.archived
KeepsLine == Line!Spec

\* Nothing but a provider at work keeps a turn: one whose session never opens, one whose provider
\* fell silent, even with an approval parked, and one told to stop end on the timers alone.
TurnsEnd ==
  \A t \in 1 .. MaxTurns : (driver.turn = t /\ ~AtWork) ~> (driver.turn # t \/ AtWork)
=============================================================================
