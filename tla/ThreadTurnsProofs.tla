------------------------- MODULE ThreadTurnsProofs --------------------------
(***************************************************************************)
(* What the run of ThreadTurns shows for two messages, one foreign turn    *)
(* and one crash, proved for every set of messages, foreign turns and      *)
(* approvals and any number of crashes: that a thread keeps the promise of *)
(* a MessageLine, and that its row, driver and log tell of one turn.       *)
(***************************************************************************)
EXTENDS ThreadTurns, SequenceTheorems, TLAPS

-----------------------------------------------------------------------------
(* The lifecycle. *)

AtRest(status) == status \in {"idle", "error"}
Rows == [status : Statuses, turn : Nat \cup Foreign, archived : BOOLEAN]

\* The table, event by event.
LEMMA CellFacts ==
  ASSUME NEW status \in Statuses
  PROVE  /\ Cell(status, "run.preparing") = IF AtRest(status) THEN "starting" ELSE "none"
         /\ Cell(status, "run.started") =
              IF AtRest(status) \/ status = "starting" THEN "active" ELSE "none"
         /\ Cell(status, "run.succeeded") = IF status \in Running THEN "idle" ELSE "none"
         /\ Cell(status, "run.failed") = IF status \in Running THEN "error" ELSE "none"
         /\ Cell(status, "stop.requested") =
              IF status \in {"starting", "active"} THEN "stopping" ELSE "none"
         /\ Cell(status, "stop.settled") = IF status = "stopping" THEN "idle" ELSE "none"
BY DEF Cell, AtRest, Running, Statuses

RowOf(status, turn, archived) == [status |-> status, turn |-> turn, archived |-> archived]

\* What each event makes of a row.
LEMMA MovedFacts ==
  ASSUME NEW r \in Rows, NEW t
  PROVE  /\ Moved(r, "run.preparing", t) =
              IF ~r.archived /\ AtRest(r.status) THEN RowOf("starting", r.turn, r.archived) ELSE r
         /\ Moved(r, "run.started", t) =
              IF ~r.archived /\ (AtRest(r.status) \/ r.status = "starting")
              THEN RowOf("active", t, r.archived) ELSE r
         /\ Moved(r, "run.succeeded", t) =
              IF r.status \in Running /\ t = r.turn THEN RowOf("idle", NoTurn, r.archived) ELSE r
         /\ Moved(r, "run.failed", t) =
              IF r.status \in Running /\ t = r.turn THEN RowOf("error", NoTurn, r.archived) ELSE r
         /\ Moved(r, "stop.requested", t) =
              IF r.status \in {"starting", "active"}
              THEN RowOf("stopping", r.turn, r.archived) ELSE r
         /\ Moved(r, "stop.settled", t) =
              IF r.status = "stopping" /\ t = r.turn THEN RowOf("idle", NoTurn, r.archived) ELSE r
<1>1. r.status \in Statuses
  BY DEF Rows
<1>. QED BY <1>1, CellFacts DEF Moved, Applies, RowOf, RefusedWhenArchived, Settling

\* When an event applies, and so whether a settle may claim the next message.
LEMMA AppliesFacts ==
  ASSUME NEW r \in Rows, NEW t
  PROVE  /\ Applies(r, "run.preparing", t) <=> ~r.archived /\ AtRest(r.status)
         /\ Applies(r, "run.started", t) <=>
              ~r.archived /\ (AtRest(r.status) \/ r.status = "starting")
         /\ \A event \in {"run.succeeded", "run.failed"} :
              Applies(r, event, t) <=> r.status \in Running /\ t = r.turn
         /\ Applies(r, "stop.settled", t) <=> r.status = "stopping" /\ t = r.turn
<1>1. r.status \in Statuses
  BY DEF Rows
<1>. QED BY <1>1, CellFacts DEF Applies, RefusedWhenArchived, Settling

\* A settle ends a run or changes nothing.
Ended(r, s) == s = r \/ (r.status \in Running /\ AtRest(s.status) /\ s.turn = NoTurn
                         /\ s.archived = r.archived)

-----------------------------------------------------------------------------
(* The line. *)

Distinct(s) == \A i, j \in DOMAIN s : s[i] = s[j] => i = j

LEMMA AppendFacts ==
  ASSUME NEW s \in Seq(Messages), NEW m \in Messages
  PROVE  /\ Append(s, m) \in Seq(Messages)
         /\ s # <<>> => Head(Append(s, m)) = Head(s)
         /\ Append(s, m) # <<>>
         /\ Distinct(s) /\ m \notin SeenIn(s) => Distinct(Append(s, m))
BY DEF Distinct, SeenIn

\* Without its first message a line is its tail, whatever it is made of after.
LEMMA WithoutHead ==
  ASSUME NEW s \in Seq(Messages), s # <<>>, Distinct(s)
  PROVE  Without(s, Head(s)) = Tail(s)
<1>1. 1 \in DOMAIN s /\ Head(s) = s[1] /\ Len(s) \in Nat \ {0} /\ DOMAIN s = 1 .. Len(s)
  BY EmptySeq
<1>2. Position(s, Head(s)) = 1
  BY <1>1 DEF Position, Distinct
<1>3. Without(s, Head(s)) = [i \in 1 .. Len(s) - 1 |-> s[i + 1]]
  BY <1>1, <1>2 DEF Without
<1>4. /\ Tail(s) \in [1 .. Len(s) - 1 -> Messages]
      /\ \A i \in 1 .. Len(s) - 1 : Tail(s)[i] = s[i + 1]
  BY HeadTailProperties, LenProperties
<1>5. Tail(s) = [i \in 1 .. Len(s) - 1 |-> s[i + 1]]
  BY <1>4
<1>. QED BY <1>3, <1>5

LEMMA TailFacts ==
  ASSUME NEW s \in Seq(Messages), s # <<>>, Distinct(s)
  PROVE  Tail(s) \in Seq(Messages) /\ Distinct(Tail(s))
<1>1. /\ Tail(s) \in Seq(Messages) /\ Len(Tail(s)) = Len(s) - 1
      /\ \A i \in 1 .. Len(Tail(s)) : Tail(s)[i] = s[i + 1]
  BY HeadTailProperties
<1>2. DOMAIN s = 1 .. Len(s) /\ DOMAIN Tail(s) = 1 .. Len(s) - 1 /\ Len(s) \in Nat
  BY <1>1, LenProperties
<1>. QED BY <1>1, <1>2 DEF Distinct

\* With no claim out, the next message up is the head of the line.
LEMMA NextIsHead ==
  ASSUME queue \in Seq(Messages), claims = {}
  PROVE  /\ Unclaimed = DOMAIN queue
         /\ Unclaimed = {} <=> queue = <<>>
         /\ queue # <<>> => NextUp = Head(queue) /\ NextUp \in Messages
<1>1. Unclaimed = DOMAIN queue
  BY DEF Unclaimed
<1>2. DOMAIN queue = 1 .. Len(queue) /\ Len(queue) \in Nat
  BY LenProperties
<1>3. queue = <<>> <=> DOMAIN queue = {}
  BY <1>2, EmptySeq
<1>4. ASSUME queue # <<>> PROVE NextUp = Head(queue) /\ NextUp \in Messages
  <2>1. 1 \in Unclaimed /\ \A j \in Unclaimed : 1 <= j
    BY <1>1, <1>2, <1>3, <1>4
  <2>2. \A i \in Unclaimed : (\A j \in Unclaimed : i <= j) => i = 1
    BY <1>1, <1>2, <2>1
  <2>3. (CHOOSE i \in Unclaimed : \A j \in Unclaimed : i <= j) = 1
    BY <2>1, <2>2
  <2>. QED BY <1>1, <2>1, <2>3, <1>4 DEF NextUp
<1>. QED BY <1>1, <1>3, <1>4

-----------------------------------------------------------------------------
(* The invariants. *)

\* A turn in hand or at the driver is one of this device, and a driver without a turn is free.
TurnsNamed ==
  /\ hand.step = "dispatch" => hand.turn \in LocalTurns
  /\ IF driver.phase = "none" THEN driver = NoDriver ELSE driver.turn \in LocalTurns

\* The only claim is the one the handler at work holds, on the head of the line.
LineInv ==
  /\ Distinct(queue)
  /\ up /\ hand.step # "drain" => claims = {}
  /\ up /\ hand.step = "drain" =>
       queue # <<>> /\ hand.msg = Head(queue) /\ claims = {hand.msg}

\* A line that stands still did not wait for a turn that settled here.
FollowInv ==
  /\ hand.step = "recover" => why = "recovered"
  /\ up /\ hand.step # "drain" /\ AtRest(thread.status) /\ queue # <<>> /\ ~thread.archived
       => why # "settled"

\* The row and the driver tell of one turn.
Agrees ==
  /\ RunsHere <=> driver # NoDriver
  /\ driver.phase = "dispatched" => thread.status = "starting" /\ thread.turn = NoTurn
  /\ driver.phase = "started" => thread.status = "active" /\ thread.turn = driver.turn
  /\ driver.phase = "stopping" => thread.status = "stopping" /\ thread.turn = driver.turn

\* A stop in hand: the row is stopping, the driver has yet to hear of it or heard before.
Stopping ==
  /\ thread.status = "stopping" /\ hand.turn = thread.turn
  /\ thread.turn \notin Foreign
  /\ \/ driver.phase = "dispatched" /\ thread.turn = NoTurn
     \/ driver.phase \in {"started", "stopping"} /\ driver.turn = thread.turn

\* What each step still in hand has done to the row, the driver and the log so far.
InStep ==
  /\ hand.step \in {"none", "stop", "drain", "answer", "clear"} => Agrees
  /\ hand.step = "stop" => thread.archived
  /\ hand.step = "interrupt" => Stopping
  /\ hand.step = "dispatch" =>
       driver = NoDriver /\ thread.status = "starting" /\ ~thread.archived
  /\ hand.step = "recover" => driver = NoDriver
  /\ thread.archived /\ hand.step \notin {"stop", "interrupt"}
       => driver.phase \in {"none", "stopping"}

RowInv ==
  /\ AtRest(thread.status) \/ thread.status = "starting" => thread.turn = NoTurn
  /\ open = IF RunsHere /\ thread.turn # NoTurn THEN {thread.turn} ELSE {}
  /\ ~up => driver = NoDriver

\* A turn is prompted once, after its request.
PromptInv ==
  /\ \A t \in prompted : t <= Len(requested)
  /\ driver.turn <= Len(requested)
  /\ hand.step = "dispatch" => hand.turn <= Len(requested) /\ hand.turn \notin prompted
  /\ driver.phase = "dispatched" => driver.turn \notin prompted

TurnInv == "crossed" \notin excused => RowInv /\ (up => InStep)

\* A card names a turn requested before, and never one yet to be prompted.
CardNamed(k) ==
  /\ cards[k].turn <= Len(requested)
  /\ IF cards[k].status = "none" THEN ~cards[k].waiter ELSE cards[k].turn # NoTurn
  /\ hand.step = "dispatch" => cards[k].turn # hand.turn
  /\ driver.phase = "dispatched" => cards[k].turn # driver.turn

\* An open card of the driver's turn has its waiter, and a resolved one was told, or is being told.
CardHeard(k) ==
  /\ up /\ cards[k].status = "pending" /\ cards[k].turn = driver.turn => cards[k].waiter
  /\ up /\ cards[k].status = "resolved"
     /\ (cards[k].waiter \/ (cards[k].turn = driver.turn /\ cards[k].told # "answer"))
       => hand.step = "answer" /\ hand.ask = k /\ cards[k].waiter
  /\ ~up => ~cards[k].waiter

\* A card is open only for the driver's turn, or after a crash for the turn recovery will fail.
CardOpen(k) ==
  "crossed" \notin excused /\ "cut" \notin excused /\ cards[k].status = "pending" =>
    IF up /\ hand.step \notin {"recover", "clear"}
    THEN driver.phase = "started" /\ cards[k].turn = driver.turn
    ELSE hand.step # "clear" => RunsHere

CardInv ==
  /\ \A k \in Asks : CardNamed(k) /\ CardHeard(k) /\ CardOpen(k)
  /\ hand.step = "answer" => hand.ask \in Asks /\ cards[hand.ask].status = "resolved"
  /\ ~up => driver = NoDriver

DownIsIdle == ~up => hand = Idle

\* What the types and the line need of each other: the message up next is one, and no other is claimed.
CoreInv == TypeOK /\ TurnsNamed /\ DownIsIdle /\ LineInv

-----------------------------------------------------------------------------
(* The parts actions are made of. *)

Hands == [step : Steps, msg : Messages \cup {NoMessage}, turn : Nat \cup Foreign,
          ask : Asks \cup {NoAsk}]
Drivers == [turn : Nat, phase : Phases]
CardRecords == [turn : Nat, status : {"none", "pending", "resolved", "interrupted"},
                waiter : BOOLEAN, told : {"none", "answer", "deny"}]

LEMMA HandFacts ==
  ASSUME NEW step \in Steps, NEW m \in Messages \cup {NoMessage}, NEW t \in Nat \cup Foreign,
         NEW k \in Asks \cup {NoAsk}
  PROVE  /\ Hand(step, m, t, k) \in Hands
         /\ Hand(step, m, t, k).step = step /\ Hand(step, m, t, k).msg = m
         /\ Hand(step, m, t, k).turn = t /\ Hand(step, m, t, k).ask = k
BY DEF Hand, Hands

\* What is in hand without a message or an ask.
LEMMA TaskFacts ==
  \A step \in Steps : \A t \in Nat \cup Foreign :
    /\ Hand(step, NoMessage, t, NoAsk) \in Hands
    /\ Hand(step, NoMessage, t, NoAsk).step = step /\ Hand(step, NoMessage, t, NoAsk).turn = t
BY HandFacts

LEMMA IdleFacts == Idle \in Hands /\ Idle.step = "none"
<1>1. "none" \in Steps
  BY DEF Steps
<1>. QED BY <1>1, HandFacts DEF Idle, NoTurn

LEMMA CardFacts ==
  ASSUME NEW t \in Nat, NEW status \in {"none", "pending", "resolved", "interrupted"},
         NEW waiter \in BOOLEAN, NEW told \in {"none", "answer", "deny"}
  PROVE  Card(t, status, waiter, told) \in CardRecords
BY DEF Card, CardRecords

LEMMA CardsTyped ==
  ASSUME cards \in [Asks -> CardRecords]
  PROVE  /\ Cleared(cards) \in [Asks -> CardRecords]
         /\ \A k \in Asks : \A card \in CardRecords : WithCard(k, card) \in [Asks -> CardRecords]
<1>1. \A k \in Asks : cards[k] \in CardRecords
  OBVIOUS
<1>2. ASSUME NEW k \in Asks
      PROVE  [turn   |-> cards[k].turn,
              status |-> IF cards[k].status = "pending" THEN "interrupted" ELSE cards[k].status,
              waiter |-> FALSE,
              told   |-> IF cards[k].waiter THEN "deny" ELSE cards[k].told] \in CardRecords
  BY <1>1 DEF CardRecords
<1>3. Cleared(cards) \in [Asks -> CardRecords]
  BY <1>2 DEF Cleared
<1>. QED BY <1>1, <1>3 DEF WithCard

\* TypeOK, under the names above.
TypesNamed ==
  /\ up \in BOOLEAN /\ thread \in Rows
  /\ queue \in Seq(Messages) /\ claims \subseteq Messages
  /\ requested \in Seq(Messages) /\ open \subseteq LocalTurns
  /\ foreign \in [Foreign -> {"unseen", "running", "done"}] /\ pulled \subseteq Dispatched
  /\ cards \in [Asks -> CardRecords]
  /\ driver \in Drivers /\ prompted \subseteq LocalTurns
  /\ hand \in Hands
  /\ crashes \in 0 .. MaxCrashes
  /\ why \in {"new", "settled", "held", "refused", "elsewhere", "recovered"}
  /\ excused \subseteq {"crossed", "cut"}

LEMMA TypesAreNamed == (TypeOK <=> TypesNamed) /\ (TypeOK' <=> TypesNamed')
BY DEF TypeOK, TypesNamed, Rows, CardRecords, Drivers, Hands

LEMMA DriverFacts ==
  /\ NoDriver \in Drivers /\ NoDriver.phase = "none" /\ NoDriver.turn = NoTurn
  /\ \A t \in Nat : \A phase \in Phases :
       /\ [turn |-> t, phase |-> phase] \in Drivers
       /\ [turn |-> t, phase |-> phase].turn = t
       /\ [turn |-> t, phase |-> phase].phase = phase
BY DEF NoDriver, Drivers, Phases, NoTurn

LEMMA MovedTyped ==
  ASSUME NEW r \in Rows, NEW t \in Nat \cup Foreign,
         NEW event \in {"run.preparing", "run.started", "run.succeeded", "run.failed",
                        "stop.requested", "stop.settled"}
  PROVE  Moved(r, event, t) \in Rows /\ Moved(r, event, t).archived = r.archived
BY MovedFacts DEF RowOf, Rows, Statuses, NoTurn

\* A settle of any row: what becomes of it, and whether the next message is claimed.
Settles == {"run.succeeded", "run.failed", "stop.settled"}

LEMMA SettleFacts ==
  ASSUME CoreInv, up, hand.step # "drain", NEW r \in Rows, NEW event \in Settles,
         NEW t \in Nat \cup Foreign, NEW drain \in BOOLEAN, NEW holds \in BOOLEAN,
         NEW reason \in {"settled", "elsewhere"},
         Settle(r, event, t, drain, holds, reason)
  PROVE  /\ thread' = Moved(r, event, t) /\ thread' \in Rows
         /\ claims' \subseteq Messages /\ hand' \in Hands
         /\ why' \in {why, "held", reason}
         /\ \/ hand' = Idle /\ claims' = claims
            \/ /\ queue # <<>> /\ claims' = {Head(queue)}
               /\ hand'.step = "drain" /\ hand'.msg = Head(queue)
<1>1. claims = {} /\ queue \in Seq(Messages)
  BY DEF CoreInv, LineInv, TypeOK
<1>2. thread' = Moved(r, event, t) /\ thread' \in Rows
  BY MovedTyped DEF Settle, Settles
<1>3. \/ hand' = Idle /\ claims' = claims
      \/ ClaimNext /\ Unclaimed # {}
  BY DEF Settle
<1>4. why' \in {why, "held", reason}
  BY DEF Settle
<1>5. CASE hand' = Idle /\ claims' = claims
  BY <1>1, <1>2, <1>4, <1>5, IdleFacts
<1>6. CASE ClaimNext /\ Unclaimed # {}
  <2>1. queue # <<>> /\ NextUp = Head(queue) /\ NextUp \in Messages
    BY <1>1, <1>6, NextIsHead
  <2>2. claims' = {Head(queue)} /\ hand' = Hand("drain", Head(queue), NoTurn, NoAsk)
    BY <1>1, <1>6, <2>1 DEF ClaimNext
  <2>3. "drain" \in Steps /\ NoTurn \in Nat
    BY DEF Steps, NoTurn
  <2>4. hand' \in Hands /\ hand'.step = "drain" /\ hand'.msg = Head(queue)
    BY <2>1, <2>2, <2>3, HandFacts
  <2>. QED BY <1>2, <1>4, <2>1, <2>2, <2>4
<1>. QED BY <1>3, <1>5, <1>6

\* The line under a step that takes nothing from it and claims the head or nothing.
LEMMA LineStep ==
  ASSUME LineInv, up, hand.step # "drain", queue' = queue,
         \/ claims' = claims /\ hand'.step # "drain"
         \/ /\ queue # <<>> /\ claims' = {Head(queue)}
            /\ hand'.step = "drain" /\ hand'.msg = Head(queue)
  PROVE  LineInv'
BY DEF LineInv

\* A step between handlers, or one that ends a handler, which leaves the line alone.
LEMMA Bystander ==
  ASSUME CoreInv, up, hand.step # "drain", up' = up, queue' = queue, claims' = claims,
         hand'.step # "drain"
  PROVE  LineInv' /\ DownIsIdle'
BY LineStep DEF CoreInv, DownIsIdle

-----------------------------------------------------------------------------
(* CoreInv is inductive: what people ask. *)

LEMMA TakeCore ==
  ASSUME CoreInv, Waits, NEW m \in Messages, m \notin SeenIn(queue), Take(m)
  PROVE  CoreInv'
<1>1. /\ TypesNamed /\ claims = {} /\ hand.step # "drain" /\ up
      /\ Distinct(queue)
  BY TypesAreNamed, IdleFacts DEF CoreInv, LineInv, Waits
<1>2. /\ Append(queue, m) \in Seq(Messages) /\ Append(queue, m) # <<>>
      /\ queue # <<>> => Head(Append(queue, m)) = Head(queue)
      /\ Distinct(Append(queue, m))
  BY <1>1, AppendFacts DEF TypesNamed
<1>3. "drain" \in Steps /\ "dispatch" \in Steps /\ NoTurn \in Nat
  BY DEF Steps, NoTurn
<1>4. CASE thread.status \in Running
  <2>1. queue' = Append(queue, m) /\ UNCHANGED <<thread, claims, requested, hand>>
    BY <1>4 DEF Take
  <2>2. TypesNamed'
    BY <1>1, <1>2, <2>1 DEF Take, TypesNamed, abroad, engine, history
  <2>3. LineInv'
    BY <1>1, <1>2, <2>1 DEF LineInv, Take
  <2>4. TurnsNamed' /\ DownIsIdle'
    BY <1>1, <2>1 DEF CoreInv, TurnsNamed, DownIsIdle, Take, engine
  <2>. QED BY <2>2, <2>3, <2>4, TypesAreNamed DEF CoreInv
<1>5. CASE thread.status \notin Running /\ Unclaimed # {}
  <2>1. queue' = Append(queue, m) /\ ClaimNext /\ UNCHANGED <<thread, requested>>
    BY <1>5 DEF Take
  <2>2. queue # <<>> /\ NextUp = Head(queue) /\ NextUp \in Messages
    BY <1>1, <1>5, NextIsHead DEF TypesNamed
  <2>3. claims' = {Head(queue)} /\ hand' = Hand("drain", Head(queue), NoTurn, NoAsk)
    BY <1>1, <2>1, <2>2 DEF ClaimNext
  <2>4. hand' \in Hands /\ hand'.step = "drain" /\ hand'.msg = Head(queue)
    BY <1>3, <2>2, <2>3, HandFacts
  <2>5. TypesNamed'
    BY <1>1, <1>2, <2>1, <2>2, <2>3, <2>4 DEF Take, TypesNamed, abroad, engine, history
  <2>6. LineInv'
    BY <1>1, <1>2, <2>1, <2>2, <2>3, <2>4 DEF LineInv, Take
  <2>7. TurnsNamed' /\ DownIsIdle'
    BY <1>1, <2>4 DEF CoreInv, TurnsNamed, DownIsIdle, Take, engine
  <2>. QED BY <2>5, <2>6, <2>7, TypesAreNamed DEF CoreInv
<1>6. CASE thread.status \notin Running /\ Unclaimed = {}
  <2>1. Request(m) /\ UNCHANGED <<queue, claims>>
    BY <1>6 DEF Take
  <2>2. Len(requested) + 1 \in LocalTurns
    BY <1>1 DEF TypesNamed, LocalTurns
  <2>3. hand' = Hand("dispatch", m, Len(requested) + 1, NoAsk)
    BY <2>1 DEF Request
  <2>4. hand' \in Hands /\ hand'.step = "dispatch" /\ hand'.turn = Len(requested) + 1
    BY <1>3, <2>2, <2>3, HandFacts DEF LocalTurns
  <2>5. thread' \in Rows
    BY <1>1, <1>3, <2>1, MovedTyped DEF Request, TypesNamed
  <2>6. requested' \in Seq(Messages)
    BY <1>1, <2>1 DEF Request, TypesNamed
  <2>7. TypesNamed'
    BY <1>1, <2>1, <2>4, <2>5, <2>6 DEF Take, TypesNamed, abroad, engine, history
  <2>8. LineInv' /\ DownIsIdle'
    BY <1>1, <2>1, <2>4, Bystander DEF Take
  <2>9. TurnsNamed'
    BY <2>2, <2>4 DEF CoreInv, TurnsNamed, Take, engine
  <2>. QED BY <2>7, <2>8, <2>9, TypesAreNamed DEF CoreInv
<1>. QED BY <1>4, <1>5, <1>6

LEMMA SendCore ==
  ASSUME CoreInv, NEW m \in Messages, Send(m) \/ AcceptDispatch(m)
  PROVE  CoreInv'
<1>1. Waits /\ m \notin SeenIn(queue) /\ Take(m)
  BY DEF Send, AcceptDispatch, Held
<1>. QED BY <1>1, TakeCore

\* A step that leaves the line alone and takes no drain in hand.
LEMMA OffTheLine ==
  ASSUME CoreInv, up, hand.step # "drain", up' = up, queue' = queue, claims' = claims,
         hand'.step # "drain", TypesNamed', TurnsNamed'
  PROVE  CoreInv'
BY Bystander, TypesAreNamed DEF CoreInv

LEMMA RequestStopHand ==
  ASSUME CoreInv, RequestStop
  PROVE  /\ thread' \in Rows /\ hand' \in Hands
         /\ IF RunsHere THEN hand'.step = "interrupt" /\ hand'.turn = thread.turn
            ELSE hand' = Idle /\ hand'.step = "none"
<1>1. TypesNamed /\ thread \in Rows /\ thread.turn \in Nat \cup Foreign
  BY TypesAreNamed DEF CoreInv, TypesNamed, Rows
<1>2. /\ "interrupt" \in Steps /\ NoTurn \in Nat \cup Foreign
      /\ NoMessage \in Messages \cup {NoMessage} /\ NoAsk \in Asks \cup {NoAsk}
  BY DEF Steps, NoTurn
<1>3. CASE RunsHere
  <2>1. /\ thread' = Moved(thread, "stop.requested", NoTurn)
        /\ hand' = Hand("interrupt", NoMessage, thread.turn, NoAsk)
    BY <1>3 DEF RequestStop
  <2>2. Moved(thread, "stop.requested", NoTurn) \in Rows
    BY <1>1, <1>2, MovedTyped
  <2>3. /\ Hand("interrupt", NoMessage, thread.turn, NoAsk) \in Hands
        /\ Hand("interrupt", NoMessage, thread.turn, NoAsk).step = "interrupt"
        /\ Hand("interrupt", NoMessage, thread.turn, NoAsk).turn = thread.turn
    BY <1>1, <1>2, TaskFacts
  <2>. QED BY <1>3, <2>1, <2>2, <2>3
<1>4. CASE ~RunsHere
  BY <1>4, <1>1, IdleFacts DEF RequestStop
<1>. QED BY <1>3, <1>4

LEMMA RequestStopCore ==
  ASSUME CoreInv, up, hand.step # "drain", RequestStop
  PROVE  CoreInv'
<1>1. TypesNamed
  BY TypesAreNamed DEF CoreInv
<1>3. thread' \in Rows /\ hand' \in Hands /\ hand'.step \in {"none", "interrupt"}
  BY RequestStopHand
<1>4. TypesNamed'
  BY <1>1, <1>3 DEF RequestStop, TypesNamed, log, abroad, engine, history
<1>5. TurnsNamed'
  BY <1>3 DEF CoreInv, TurnsNamed, RequestStop, engine
<1>. QED BY <1>3, <1>4, <1>5, OffTheLine DEF RequestStop

LEMMA ArchiveCore ==
  ASSUME CoreInv, Archive
  PROVE  CoreInv'
<1>1. TypesNamed /\ thread \in Rows /\ up /\ hand.step # "drain"
  BY TypesAreNamed, IdleFacts DEF CoreInv, TypesNamed, Archive, Waits
<1>2. "stop" \in Steps /\ NoTurn \in Nat
  BY DEF Steps, NoTurn
<1>3. hand' \in Hands /\ hand'.step = "stop"
  BY <1>2, HandFacts DEF Archive
<1>4. thread' \in Rows
  BY <1>1 DEF Archive, Rows
<1>5. TypesNamed'
  BY <1>1, <1>3, <1>4 DEF Archive, TypesNamed, log, abroad, engine, history
<1>6. TurnsNamed'
  BY <1>3 DEF CoreInv, TurnsNamed, Archive, engine
<1>. QED BY <1>1, <1>3, <1>5, <1>6, OffTheLine DEF Archive

\* A step around a settle.
LEMMA SettleCore ==
  ASSUME CoreInv, up, hand.step # "drain", NEW r \in Rows, NEW event \in Settles,
         NEW t \in Nat \cup Foreign, NEW drain \in BOOLEAN, NEW holds \in BOOLEAN,
         NEW reason \in {"settled", "elsewhere"},
         Settle(r, event, t, drain, holds, reason),
         UNCHANGED <<up, queue, requested, pulled, crashes, excused>>,
         open' \subseteq LocalTurns, prompted' \subseteq LocalTurns,
         foreign' \in [Foreign -> {"unseen", "running", "done"}],
         cards' \in [Asks -> CardRecords],
         driver' = driver \/ driver' = NoDriver
  PROVE  CoreInv'
<1>1. TypesNamed
  BY TypesAreNamed DEF CoreInv
<1>2. /\ thread' \in Rows /\ claims' \subseteq Messages /\ hand' \in Hands
      /\ why' \in {why, "held", reason}
      /\ \/ hand' = Idle /\ claims' = claims
         \/ /\ queue # <<>> /\ claims' = {Head(queue)}
            /\ hand'.step = "drain" /\ hand'.msg = Head(queue)
  BY SettleFacts
<1>3. driver' \in Drivers
  BY <1>1, DriverFacts DEF TypesNamed
<1>4. TypesNamed'
  BY <1>1, <1>2, <1>3 DEF TypesNamed
<1>5. LineInv' /\ DownIsIdle'
  BY <1>2, LineStep, IdleFacts DEF CoreInv, DownIsIdle
<1>6. TurnsNamed'
  BY <1>2, IdleFacts, DriverFacts DEF CoreInv, TurnsNamed
<1>. QED BY <1>4, <1>5, <1>6, TypesAreNamed DEF CoreInv

LEMMA AskDriverCore ==
  ASSUME CoreInv, AskDriver
  PROVE  CoreInv'
<1>1. TypesNamed /\ up /\ hand.step = "interrupt" /\ hand.turn \in Nat \cup Foreign
  BY TypesAreNamed DEF CoreInv, TypesNamed, Hands, AskDriver, InHand
<1>2. cards' \in [Asks -> CardRecords]
  BY <1>1, CardsTyped DEF AskDriver, TypesNamed
<1>3. /\ UNCHANGED <<up, queue, requested, open, foreign, pulled, prompted, crashes, excused>>
  BY DEF AskDriver, log, abroad, history
<1>4. CASE driver' = NoDriver /\ Settle(thread, "stop.settled", hand.turn, TRUE, FALSE, "settled")
  <2>1. "stop.settled" \in Settles
    BY DEF Settles
  <2>2. /\ thread \in Rows /\ open' \subseteq LocalTurns /\ prompted' \subseteq LocalTurns
        /\ foreign' \in [Foreign -> {"unseen", "running", "done"}]
    BY <1>1, <1>3 DEF TypesNamed
  <2>. QED BY <1>1, <1>2, <1>3, <1>4, <2>1, <2>2, SettleCore
<1>5. CASE /\ hand' = Idle /\ UNCHANGED <<thread, claims, why>>
           /\ \/ driver' = driver
              \/ driver.phase = "started" /\ driver' = [turn |-> driver.turn, phase |-> "stopping"]
  <2>1. driver.turn \in Nat /\ "stopping" \in Phases
    BY <1>1 DEF TypesNamed, Drivers, Phases
  <2>2. driver' \in Drivers
    BY <1>1, <1>5, <2>1, DriverFacts DEF TypesNamed
  <2>3. TypesNamed'
    BY <1>1, <1>2, <1>3, <1>5, <2>2, IdleFacts DEF TypesNamed
  <2>4. TurnsNamed'
    BY <1>5, IdleFacts, DriverFacts, <2>1 DEF CoreInv, TurnsNamed
  <2>. QED BY <1>1, <1>3, <1>5, <2>3, <2>4, OffTheLine, IdleFacts
<1>. QED BY <1>4, <1>5 DEF AskDriver

\* The message in a drain's hand is the head of the line, so the queue without it is the tail.
LEMMA DrainFacts ==
  ASSUME CoreInv, InHand("drain")
  PROVE  /\ up /\ queue # <<>> /\ hand.msg = Head(queue) /\ hand.msg \in Messages
         /\ claims = {hand.msg}
         /\ Without(queue, hand.msg) = Tail(queue)
         /\ Tail(queue) \in Seq(Messages) /\ Distinct(Tail(queue))
<1>1. /\ up /\ queue # <<>> /\ hand.msg = Head(queue) /\ Distinct(queue)
      /\ claims = {hand.msg} /\ queue \in Seq(Messages) /\ claims \subseteq Messages
  BY TypesAreNamed DEF CoreInv, LineInv, InHand, TypesNamed
<1>. QED BY <1>1, WithoutHead, TailFacts

LEMMA DrainCore ==
  ASSUME CoreInv, Drain
  PROVE  CoreInv'
<1>1. /\ TypesNamed /\ up /\ up' = up /\ claims' = {} /\ Distinct(queue)
      /\ hand.msg \in Messages
      /\ Without(queue, hand.msg) = Tail(queue)
      /\ Tail(queue) \in Seq(Messages) /\ Distinct(Tail(queue))
  BY DrainFacts, TypesAreNamed DEF CoreInv, LineInv, Drain
<1>2. "dispatch" \in Steps /\ NoTurn \in Nat
  BY DEF Steps, NoTurn
<1>3. CASE Applies(thread, "run.preparing", NoTurn)
  <2>1. Request(hand.msg) /\ queue' = Tail(queue)
    BY <1>1, <1>3 DEF Drain
  <2>2. Len(requested) + 1 \in LocalTurns
    BY <1>1 DEF TypesNamed, LocalTurns
  <2>3. hand' = Hand("dispatch", hand.msg, Len(requested) + 1, NoAsk)
    BY <2>1 DEF Request
  <2>4. hand' \in Hands /\ hand'.step = "dispatch" /\ hand'.turn = Len(requested) + 1
    BY <1>1, <1>2, <2>2, <2>3, HandFacts DEF LocalTurns
  <2>5. thread' \in Rows
    BY <1>1, <1>2, <2>1, MovedTyped DEF Request, TypesNamed
  <2>6. requested' \in Seq(Messages)
    BY <1>1, <2>1 DEF Request, TypesNamed
  <2>7. TypesNamed'
    BY <1>1, <2>1, <2>4, <2>5, <2>6 DEF Drain, TypesNamed, abroad, engine, history
  <2>8. LineInv' /\ DownIsIdle'
    BY <1>1, <2>1, <2>4 DEF LineInv, DownIsIdle
  <2>9. TurnsNamed'
    BY <2>2, <2>4 DEF CoreInv, TurnsNamed, Drain, engine
  <2>. QED BY <2>7, <2>8, <2>9, TypesAreNamed DEF CoreInv
<1>4. CASE ~Applies(thread, "run.preparing", NoTurn)
  <2>1. hand' = Idle /\ UNCHANGED <<thread, requested, queue>>
    BY <1>4 DEF Drain
  <2>2. TypesNamed'
    BY <1>1, <2>1, IdleFacts DEF Drain, TypesNamed, abroad, engine, history
  <2>3. LineInv' /\ DownIsIdle'
    BY <1>1, <2>1, IdleFacts DEF LineInv, DownIsIdle
  <2>4. TurnsNamed'
    BY <2>1, IdleFacts DEF CoreInv, TurnsNamed, Drain, engine
  <2>. QED BY <2>2, <2>3, <2>4, TypesAreNamed DEF CoreInv
<1>. QED BY <1>3, <1>4

-----------------------------------------------------------------------------
(* CoreInv is inductive: the driver and the provider. *)

LEMMA StartTurnCore ==
  ASSUME CoreInv, StartTurn
  PROVE  CoreInv'
<1>1. /\ TypesNamed /\ up /\ hand.step = "dispatch" /\ hand.turn \in LocalTurns
      /\ hand.turn \in Nat
  BY TypesAreNamed DEF CoreInv, TurnsNamed, StartTurn, InHand, LocalTurns
<1>2. hand' \in Hands /\ hand'.step = "none"
  BY IdleFacts DEF StartTurn
<1>3. driver' \in Drivers /\ (IF driver'.phase = "none" THEN driver' = NoDriver
                              ELSE driver'.turn \in LocalTurns)
  <2>1. "dispatched" \in Phases
    BY DEF Phases
  <2>2. CASE driver' = [turn |-> hand.turn, phase |-> "dispatched"]
    BY <1>1, <2>1, <2>2, DriverFacts
  <2>3. CASE driver' = driver
    BY <1>1, <2>3 DEF TypesNamed, CoreInv, TurnsNamed
  <2>. QED BY <2>2, <2>3 DEF StartTurn
<1>4. thread' \in Rows /\ why' \in {why, "refused"}
  <2>1. Moved(thread, "run.failed", NoTurn) \in Rows
    BY <1>1, MovedTyped DEF TypesNamed, NoTurn
  <2>. QED BY <1>1, <2>1 DEF StartTurn, TypesNamed
<1>5. TypesNamed'
  BY <1>1, <1>2, <1>3, <1>4 DEF StartTurn, TypesNamed, log, abroad, history
<1>6. TurnsNamed'
  BY <1>2, <1>3 DEF TurnsNamed
<1>. QED BY <1>1, <1>2, <1>5, <1>6, OffTheLine DEF StartTurn

LEMMA TurnStartedCore ==
  ASSUME CoreInv, TurnStarted
  PROVE  CoreInv'
<1>1. /\ TypesNamed /\ up /\ hand = Idle /\ hand.step = "none"
      /\ driver.turn \in LocalTurns /\ driver.turn \in Nat
  BY TypesAreNamed, IdleFacts DEF CoreInv, TurnsNamed, TurnStarted, Waits, LocalTurns
<1>2. "started" \in Phases
  BY DEF Phases
<1>3. driver' \in Drivers /\ driver'.turn = driver.turn /\ driver'.phase = "started"
  BY <1>1, <1>2, DriverFacts DEF TurnStarted
<1>4. thread' \in Rows
  BY <1>1, MovedTyped DEF TurnStarted, TypesNamed
<1>5. prompted' \subseteq LocalTurns /\ open' \subseteq LocalTurns
  BY <1>1 DEF TurnStarted, TypesNamed
<1>6. TypesNamed'
  BY <1>1, <1>3, <1>4, <1>5 DEF TurnStarted, TypesNamed, abroad, history
<1>7. TurnsNamed'
  BY <1>1, <1>3 DEF TurnsNamed, TurnStarted
<1>. QED BY <1>1, <1>6, <1>7, OffTheLine DEF TurnStarted

LEMMA EndTurnCore ==
  ASSUME CoreInv, Waits, NEW r \in Rows, NEW t \in Nat,
         NEW event \in {"run.succeeded", "run.failed"}, NEW holds \in BOOLEAN,
         EndTurn(r, t, event, holds), prompted' \subseteq prompted
  PROVE  CoreInv'
<1>1. TypesNamed /\ up /\ hand.step # "drain"
  BY TypesAreNamed, IdleFacts DEF CoreInv, Waits
<1>2. /\ event \in Settles /\ t \in Nat \cup Foreign
      /\ driver' = NoDriver
      /\ Settle(r, event, t, TRUE, holds, "settled")
      /\ UNCHANGED <<up, queue, requested, pulled, crashes, excused>>
  BY DEF Settles, EndTurn, abroad, history
<1>3. /\ open' \subseteq LocalTurns /\ prompted' \subseteq LocalTurns
      /\ foreign' \in [Foreign -> {"unseen", "running", "done"}]
      /\ cards' \in [Asks -> CardRecords]
  BY <1>1, CardsTyped DEF EndTurn, TypesNamed, abroad
<1>. QED BY <1>1, <1>2, <1>3, SettleCore

\* FailTurn ends the driver's turn on the row as it would stand had the turn started.
LEMMA FailTurnCore ==
  ASSUME CoreInv, Waits, NEW holds \in BOOLEAN, FailTurn(holds)
  PROVE  CoreInv'
<1>1. thread \in Rows /\ driver.turn \in Nat
  BY TypesAreNamed DEF CoreInv, TypesNamed, Drivers
<1>2. Moved(thread, "run.started", driver.turn) \in Rows
  BY <1>1, MovedTyped
<1>3. PICK r \in Rows : EndTurn(r, driver.turn, "run.failed", holds) /\ prompted' = prompted
  BY <1>1, <1>2 DEF FailTurn
<1>. QED BY <1>1, <1>3, EndTurnCore

LEMMA FailuresCore ==
  ASSUME CoreInv, DispatchFails \/ Watchdog
  PROVE  CoreInv'
<1>1. PICK holds \in BOOLEAN : Waits /\ FailTurn(holds)
  BY DEF DispatchFails, Watchdog
<1>. QED BY <1>1, FailTurnCore

LEMMA GraceEndsCore ==
  ASSUME CoreInv, GraceEnds
  PROVE  CoreInv'
<1>1. thread \in Rows /\ driver.turn \in Nat
  BY TypesAreNamed DEF CoreInv, TypesNamed, Drivers
<1>. QED BY <1>1, EndTurnCore DEF GraceEnds

\* A report that ends nothing here, a silence and a lapsed ask leave everything but these alone.
LEMMA AsideCore ==
  ASSUME CoreInv, Waits, UNCHANGED <<up, row, log, abroad, driver, hand, history, why>>,
         prompted' \subseteq prompted, cards' \in [Asks -> CardRecords]
  PROVE  CoreInv'
<1>1. TypesNamed /\ up /\ hand.step # "drain" /\ hand' = hand
  BY TypesAreNamed, IdleFacts DEF CoreInv, Waits
<1>2. TypesNamed'
  BY <1>1 DEF TypesNamed, row, log, abroad, history
<1>3. TurnsNamed'
  BY DEF CoreInv, TurnsNamed
<1>. QED BY <1>1, <1>2, <1>3, OffTheLine DEF row

LEMMA ReportsCore ==
  ASSUME CoreInv, NEW t \in prompted, Reports(t) \/ FallsSilent(t)
  PROVE  CoreInv'
<1>1. /\ thread \in Rows /\ t \in Nat /\ cards \in [Asks -> CardRecords] /\ Waits
      /\ prompted' \subseteq prompted
  BY TypesAreNamed DEF CoreInv, TypesNamed, LocalTurns, Reports, FallsSilent
<1>2. CASE \E event \in {"run.succeeded", "run.failed"} : \E holds \in BOOLEAN :
             EndTurn(thread, t, event, holds)
  BY <1>1, <1>2, EndTurnCore
<1>3. CASE UNCHANGED <<up, row, log, abroad, cards, driver, hand, history, why>>
  BY <1>1, <1>3, AsideCore
<1>. QED BY <1>2, <1>3 DEF Reports, FallsSilent

-----------------------------------------------------------------------------
(* CoreInv is inductive: approvals, other devices, crashes. *)

LEMMA AskCore ==
  ASSUME CoreInv, NEW k \in Asks, Ask(k) \/ AskLapses(k)
  PROVE  CoreInv'
<1>1. /\ TypesNamed /\ Waits /\ cards \in [Asks -> CardRecords] /\ prompted' = prompted
      /\ driver.turn \in Nat /\ cards[k].turn \in Nat
  BY TypesAreNamed DEF CoreInv, TypesNamed, Ask, AskLapses, engine, Drivers, CardRecords
<1>2. \E card \in CardRecords : cards' = WithCard(k, card)
  <2>1. CASE Ask(k)
    <3>1. Card(driver.turn, "pending", TRUE, "none") \in CardRecords
      BY <1>1, CardFacts
    <3>2. Card(cards[k].turn, "interrupted", FALSE, "deny") \in CardRecords
      BY <1>1, CardFacts
    <3>3. Card(cards[k].turn, "resolved", FALSE, "answer") \in CardRecords
      BY <1>1, CardFacts
    <3>. QED BY <2>1, <3>1, <3>2, <3>3 DEF Ask
  <2>2. CASE AskLapses(k)
    BY <1>1, <2>2, CardFacts DEF AskLapses
  <2>. QED BY <2>1, <2>2
<1>3. cards' \in [Asks -> CardRecords]
  BY <1>1, <1>2, CardsTyped
<1>. QED BY <1>1, <1>3, AsideCore DEF Ask, AskLapses, engine

LEMMA AnswerCore ==
  ASSUME CoreInv, NEW k \in Asks, Answer(k)
  PROVE  CoreInv'
<1>1. /\ TypesNamed /\ up /\ hand.step # "drain" /\ cards \in [Asks -> CardRecords]
      /\ cards[k].turn \in Nat /\ cards[k].waiter \in BOOLEAN
      /\ cards[k].told \in {"none", "answer", "deny"}
  BY TypesAreNamed, IdleFacts DEF CoreInv, TypesNamed, Answer, Waits, CardRecords
<1>2. Card(cards[k].turn, "resolved", cards[k].waiter, cards[k].told) \in CardRecords
  BY <1>1, CardFacts
<1>3. cards' \in [Asks -> CardRecords]
  BY <1>1, <1>2, CardsTyped DEF Answer
<1>4. "answer" \in Steps /\ NoTurn \in Nat
  BY DEF Steps, NoTurn
<1>5. hand' \in Hands /\ hand'.step = "answer"
  BY <1>4, HandFacts DEF Answer
<1>6. TypesNamed'
  BY <1>1, <1>3, <1>5 DEF Answer, TypesNamed, row, log, abroad, engine, history
<1>7. TurnsNamed'
  BY <1>5 DEF CoreInv, TurnsNamed, Answer, engine
<1>. QED BY <1>1, <1>5, <1>6, <1>7, OffTheLine DEF Answer, row

\* The last step of an answer or of a recovery: cards alone change.
LEMMA CardsCore ==
  ASSUME CoreInv, up, hand.step # "drain", hand' = Idle, cards' \in [Asks -> CardRecords],
         UNCHANGED <<up, row, log, abroad, engine, history, why>>
  PROVE  CoreInv'
<1>1. TypesNamed /\ hand' \in Hands /\ hand'.step = "none"
  BY TypesAreNamed, IdleFacts DEF CoreInv
<1>2. TypesNamed'
  BY <1>1 DEF TypesNamed, row, log, abroad, engine, history
<1>3. TurnsNamed'
  BY <1>1 DEF CoreInv, TurnsNamed, engine
<1>. QED BY <1>1, <1>2, <1>3, OffTheLine DEF row

LEMMA TellWaiterCore ==
  ASSUME CoreInv, TellWaiter
  PROVE  CoreInv'
<1>1. /\ cards \in [Asks -> CardRecords] /\ up /\ hand.step = "answer" /\ hand \in Hands
  BY TypesAreNamed DEF CoreInv, TypesNamed, TellWaiter, InHand
<1>2. cards' \in [Asks -> CardRecords]
  <2>1. CASE hand.ask \in Asks
    <3>1. /\ cards[hand.ask].turn \in Nat
          /\ cards[hand.ask].status \in {"none", "pending", "resolved", "interrupted"}
          /\ (IF cards[hand.ask].waiter THEN "answer" ELSE cards[hand.ask].told)
                \in {"none", "answer", "deny"}
      BY <1>1, <2>1 DEF CardRecords
    <3>. QED BY <1>1, <2>1, <3>1, CardFacts, CardsTyped DEF TellWaiter
  <2>2. CASE hand.ask \notin Asks
    BY <1>1, <2>2 DEF TellWaiter, WithCard
  <2>. QED BY <2>1, <2>2
<1>. QED BY <1>1, <1>2, CardsCore DEF TellWaiter

LEMMA ClearDeadCore ==
  ASSUME CoreInv, ClearDead
  PROVE  CoreInv'
<1>1. cards' \in [Asks -> CardRecords] /\ up /\ hand.step = "clear"
  BY TypesAreNamed, CardsTyped DEF CoreInv, TypesNamed, ClearDead, InHand
<1>. QED BY <1>1, CardsCore DEF ClearDead

LEMMA ForeignStartsCore ==
  ASSUME CoreInv, NEW f \in Foreign, ForeignStarts(f)
  PROVE  CoreInv'
<1>1. /\ TypesNamed /\ up /\ hand.step = "none" /\ hand' = hand
  BY TypesAreNamed, IdleFacts DEF CoreInv, ForeignStarts, Waits
<1>2. thread' \in Rows
  BY <1>1, MovedTyped DEF ForeignStarts, TypesNamed
<1>3. foreign' \in [Foreign -> {"unseen", "running", "done"}]
  BY <1>1 DEF ForeignStarts, TypesNamed
<1>4. excused' \subseteq {"crossed", "cut"}
  BY <1>1 DEF ForeignStarts, TypesNamed
<1>5. TypesNamed'
  BY <1>1, <1>2, <1>3, <1>4 DEF ForeignStarts, TypesNamed, log, engine
<1>6. TurnsNamed'
  BY <1>1 DEF CoreInv, TurnsNamed, ForeignStarts, engine
<1>. QED BY <1>1, <1>5, <1>6, OffTheLine DEF ForeignStarts

LEMMA ForeignEndsCore ==
  ASSUME CoreInv, NEW f \in Foreign, ForeignEnds(f)
  PROVE  CoreInv'
<1>1. TypesNamed /\ up /\ hand.step # "drain"
  BY TypesAreNamed, IdleFacts DEF CoreInv, ForeignEnds, Waits
<1>2. PICK event \in Settles : Settle(thread, event, f, FALSE, FALSE, "elsewhere")
  BY DEF ForeignEnds, Settles
<1>3. /\ thread \in Rows /\ open' \subseteq LocalTurns /\ prompted' \subseteq LocalTurns
      /\ cards' \in [Asks -> CardRecords] /\ f \in Nat \cup Foreign
      /\ UNCHANGED <<up, queue, requested, pulled, crashes, excused, driver>>
  BY <1>1 DEF TypesNamed, ForeignEnds, log, engine, history
<1>4. foreign' \in [Foreign -> {"unseen", "running", "done"}]
  BY <1>1 DEF ForeignEnds, TypesNamed
<1>. QED BY <1>1, <1>2, <1>3, <1>4, SettleCore

LEMMA ForeignRequestCore ==
  ASSUME CoreInv, NEW m \in Dispatched, ForeignRequest(m)
  PROVE  CoreInv'
<1>1. TypesNamed /\ up /\ hand.step # "drain" /\ hand' = hand
  BY TypesAreNamed, IdleFacts DEF CoreInv, ForeignRequest, Waits
<1>2. TypesNamed'
  BY <1>1 DEF ForeignRequest, TypesNamed, row, log, engine, history
<1>3. TurnsNamed'
  BY <1>1 DEF CoreInv, TurnsNamed, ForeignRequest, engine
<1>. QED BY <1>1, <1>2, <1>3, OffTheLine DEF ForeignRequest, row

LEMMA CrashCore ==
  ASSUME CoreInv, Crash
  PROVE  CoreInv'
<1>1. /\ TypesNamed /\ hand' = Idle /\ hand' \in Hands /\ hand'.step = "none"
      /\ driver' = NoDriver /\ driver' \in Drivers /\ ~up'
      /\ UNCHANGED <<thread, queue, claims, requested, open, foreign, pulled, why>>
  BY TypesAreNamed, IdleFacts, DriverFacts DEF CoreInv, Crash, row, log, abroad
<1>2. cards' \in [Asks -> CardRecords]
  <2>1. \A k \in Asks : cards[k] \in CardRecords
    BY <1>1 DEF TypesNamed
  <2>2. \A k \in Asks : Card(cards[k].turn, cards[k].status, FALSE, cards[k].told) \in CardRecords
    BY <2>1 DEF Card, CardRecords
  <2>. QED BY <2>2 DEF Crash
<1>3. crashes' \in 0 .. MaxCrashes
  BY <1>1, BoundsAssumption DEF TypesNamed, Crash
<1>4. excused' \subseteq {"crossed", "cut"}
  BY <1>1 DEF TypesNamed, Crash
<1>5. TypesNamed'
  BY <1>1, <1>2, <1>3, <1>4 DEF TypesNamed, Crash
<1>6. LineInv' /\ DownIsIdle' /\ TurnsNamed'
  BY <1>1, DriverFacts DEF CoreInv, LineInv, DownIsIdle, TurnsNamed
<1>. QED BY <1>5, <1>6, TypesAreNamed DEF CoreInv

LEMMA BootCore ==
  ASSUME CoreInv, Boot
  PROVE  CoreInv'
<1>1. TypesNamed /\ claims' = {} /\ queue' = queue /\ up'
  BY TypesAreNamed DEF CoreInv, Boot
<1>2. "recover" \in Steps /\ NoTurn \in Nat
  BY DEF Steps, NoTurn
<1>3. hand' \in Hands /\ hand'.step = "recover"
  BY <1>2, HandFacts DEF Boot
<1>4. TypesNamed'
  BY <1>1, <1>3 DEF Boot, TypesNamed, log, abroad, engine, history
<1>5. LineInv' /\ DownIsIdle' /\ TurnsNamed'
  BY <1>1, <1>3 DEF CoreInv, LineInv, DownIsIdle, TurnsNamed, Boot, engine
<1>. QED BY <1>4, <1>5, TypesAreNamed DEF CoreInv

LEMMA RecoverCore ==
  ASSUME CoreInv, Recover
  PROVE  CoreInv'
<1>1. /\ TypesNamed /\ up /\ hand.step = "recover"
      /\ thread \in Rows /\ thread.turn \in Nat \cup Foreign
  BY TypesAreNamed DEF CoreInv, TypesNamed, Rows, Recover, InHand
<1>2. "clear" \in Steps /\ NoTurn \in Nat
  BY DEF Steps, NoTurn
<1>3. hand' \in Hands /\ hand'.step \in {"none", "clear"}
  BY <1>2, HandFacts, IdleFacts DEF Recover
<1>4. thread' \in Rows /\ open' \subseteq LocalTurns
  <2>1. Moved(thread, "run.failed", thread.turn) \in Rows
    BY <1>1, MovedTyped
  <2>. QED BY <1>1, <2>1 DEF Recover, TypesNamed
<1>5. TypesNamed'
  BY <1>1, <1>3, <1>4 DEF Recover, TypesNamed, abroad, engine, history
<1>6. TurnsNamed'
  BY <1>3 DEF CoreInv, TurnsNamed, Recover, engine
<1>. QED BY <1>1, <1>3, <1>5, <1>6, OffTheLine DEF Recover

LEMMA CoreInit == Init => CoreInv
<1>. SUFFICES ASSUME Init PROVE CoreInv
  OBVIOUS
<1>1. /\ up = TRUE /\ hand = Idle /\ hand \in Hands /\ hand.step = "none"
      /\ queue = <<>> /\ claims = {} /\ driver = NoDriver /\ driver \in Drivers
  BY IdleFacts, DriverFacts DEF Init
<1>2. thread \in Rows
  BY DEF Init, Rows, Statuses, NoTurn
<1>3. cards \in [Asks -> CardRecords]
  <2>1. NewCard \in CardRecords
    BY CardFacts DEF NewCard, NoTurn
  <2>. QED BY <2>1 DEF Init
<1>4. foreign \in [Foreign -> {"unseen", "running", "done"}] /\ crashes \in 0 .. MaxCrashes
  BY BoundsAssumption DEF Init
<1>5. TypesNamed
  BY <1>1, <1>2, <1>3, <1>4 DEF Init, TypesNamed
<1>6. LineInv
  BY <1>1 DEF LineInv, Distinct
<1>. QED BY <1>1, <1>5, <1>6, TypesAreNamed, DriverFacts DEF CoreInv, DownIsIdle, TurnsNamed

LEMMA CoreStep == CoreInv /\ [Next]_vars => CoreInv'
<1>. SUFFICES ASSUME CoreInv, [Next]_vars PROVE CoreInv'
  OBVIOUS
<1>1. CASE UNCHANGED vars
  BY <1>1, TypesAreNamed DEF vars, row, log, abroad, engine, history, CoreInv, TypesNamed,
     TurnsNamed, DownIsIdle, LineInv
<1>2. CASE People
  <2>1. CASE \E m \in Messages : Send(m) \/ AcceptDispatch(m)
    BY <2>1, SendCore
  <2>2. CASE Interrupt
    BY <2>2, RequestStopCore, IdleFacts DEF Interrupt, Waits
  <2>3. CASE Archive
    BY <2>3, ArchiveCore
  <2>4. CASE \E k \in Asks : Answer(k)
    BY <2>4, AnswerCore
  <2>. QED BY <1>2, <2>1, <2>2, <2>3, <2>4 DEF People
<1>3. CASE Service
  <2>1. CASE StopArchived
    BY <2>1, RequestStopCore DEF StopArchived, InHand
  <2>. QED BY <1>3, <2>1, AskDriverCore, DrainCore, StartTurnCore, TellWaiterCore DEF Service
<1>4. CASE Provider
  BY <1>4, TurnStartedCore, FailuresCore, ReportsCore, AskCore DEF Provider
<1>5. CASE Timers
  BY <1>5, FailuresCore, GraceEndsCore, AskCore DEF Timers
<1>6. CASE Elsewhere
  BY <1>6, ForeignStartsCore, ForeignEndsCore, ForeignRequestCore DEF Elsewhere
<1>7. CASE Restart
  BY <1>7, CrashCore, BootCore, RecoverCore, ClearDeadCore DEF Restart
<1>. QED BY <1>1, <1>2, <1>3, <1>4, <1>5, <1>6, <1>7 DEF Next

\* Every variable has its type in every reachable state.
THEOREM TypeCorrect == Spec => []TypeOK
<1>1. Init => CoreInv
  BY CoreInit
<1>2. CoreInv /\ [Next]_vars => CoreInv'
  BY CoreStep
<1>3. CoreInv => TypeOK
  BY DEF CoreInv
<1>. QED BY <1>1, <1>2, <1>3, PTL DEF Spec

\* Between handlers no queued message is claimed, whatever crashed or was refused.
THEOREM NoClaimStays == Spec => []NoClaimLeft
<1>1. Init => CoreInv
  BY CoreInit
<1>2. CoreInv /\ [Next]_vars => CoreInv'
  BY CoreStep
<1>3. CoreInv => NoClaimLeft
  BY IdleFacts DEF CoreInv, LineInv, NoClaimLeft, Waits
<1>. QED BY <1>1, <1>2, <1>3, PTL DEF Spec

-----------------------------------------------------------------------------
(* The thread keeps the promise of a MessageLine. *)

LEMMA BusyFacts ==
  ASSUME NEW r \in Rows
  PROVE  AtRest(r.status) <=> r.status \notin Running
BY DEF Rows, Statuses, AtRest, Running

\* A row an event moved is archived as before, and one put to work by it was not archived.
LEMMA MovedOpens ==
  ASSUME NEW r \in Rows, NEW t \in Nat \cup Foreign,
         NEW event \in {"run.preparing", "run.started", "run.succeeded", "run.failed",
                        "stop.requested", "stop.settled"}
  PROVE  /\ Moved(r, event, t) \in Rows /\ Moved(r, event, t).archived = r.archived
         /\ Moved(r, event, t).status \in Running /\ r.status \notin Running => ~r.archived
<1>1. Moved(r, event, t) \in Rows /\ Moved(r, event, t).archived = r.archived
  BY MovedTyped
<1>2. ASSUME r.archived, r.status \notin Running PROVE Moved(r, event, t) = r
  BY <1>2, MovedFacts DEF Running
<1>. QED BY <1>1, <1>2

\* Whatever moves the row alone is a step of the line or none: the thread falls busy, falls free or
\* is as before.
LEMMA RowIsALineStep ==
  ASSUME thread'.archived = thread.archived,
         thread'.status \in Running /\ thread.status \notin Running => ~thread.archived,
         UNCHANGED <<queue, requested>>
  PROVE  [Line!Next]_Line!vars
<1>1. CASE (thread'.status \in Running) = (thread.status \in Running)
  BY <1>1 DEF Line!vars
<1>2. CASE thread'.status \in Running /\ thread.status \notin Running
  BY <1>2 DEF Line!Next, Line!Occupy
<1>3. CASE thread'.status \notin Running /\ thread.status \in Running
  BY <1>3 DEF Line!Next, Line!Vacate
<1>. QED BY <1>1, <1>2, <1>3

\* What a send or a drain makes of a thread at rest that is not archived.
LEMMA RequestFacts ==
  ASSUME CoreInv, NEW m \in Messages, Request(m), ~thread.archived, AtRest(thread.status)
  PROVE  /\ thread.status \notin Running /\ thread'.status \in Running
         /\ thread'.archived = thread.archived
         /\ requested' = Append(requested, m)
<1>1. thread \in Rows
  BY TypesAreNamed DEF CoreInv, TypesNamed
<1>2. thread' = RowOf("starting", thread.turn, thread.archived)
  BY <1>1, MovedFacts DEF Request
<1>. QED BY <1>1, <1>2, BusyFacts DEF Request, RowOf, Running

LEMMA TakeKeepsLine ==
  ASSUME CoreInv, NEW m \in Messages, Send(m) \/ AcceptDispatch(m)
  PROVE  [Line!Next]_Line!vars
<1>1. /\ Take(m) /\ m \notin SeenIn(queue) /\ m \notin SeenIn(requested) /\ Waits
      /\ ~thread.archived
  BY DEF Send, AcceptDispatch, Held, Take
<1>2. Line!New(m)
  BY <1>1 DEF Line!New, Line!SeenIn, SeenIn
<1>3. thread \in Rows /\ queue \in Seq(Messages) /\ claims = {}
  BY <1>1, IdleFacts, TypesAreNamed DEF CoreInv, TypesNamed, LineInv, Waits
<1>4. CASE queue' = Append(queue, m) /\ UNCHANGED <<thread, requested>>
  BY <1>2, <1>4 DEF Line!Next, Line!Join
<1>5. CASE thread.status \notin Running /\ Unclaimed = {} /\ Request(m) /\ UNCHANGED queue
  <2>1. queue = <<>>
    BY <1>3, <1>5, NextIsHead
  <2>2. /\ thread'.status \in Running /\ thread'.archived = thread.archived
        /\ requested' = Append(requested, m)
    BY <1>1, <1>3, <1>5, BusyFacts, RequestFacts
  <2>3. Line!PassThrough(m)
    BY <1>2, <1>5, <2>1, <2>2 DEF Line!PassThrough
  <2>. QED BY <2>3 DEF Line!Next
<1>. QED BY <1>1, <1>4, <1>5 DEF Take

LEMMA DrainKeepsLine ==
  ASSUME CoreInv, Drain
  PROVE  [Line!Next]_Line!vars
<1>1. /\ queue # <<>> /\ hand.msg = Head(queue) /\ hand.msg \in Messages
      /\ Without(queue, hand.msg) = Tail(queue) /\ thread \in Rows
  BY DrainFacts, TypesAreNamed DEF CoreInv, TypesNamed, Drain
<1>2. CASE Applies(thread, "run.preparing", NoTurn)
  <2>1. Request(hand.msg) /\ queue' = Tail(queue)
    BY <1>1, <1>2 DEF Drain
  <2>2. ~thread.archived /\ AtRest(thread.status)
    BY <1>1, <1>2, AppliesFacts
  <2>3. /\ thread.status \notin Running /\ thread'.status \in Running
        /\ thread'.archived = thread.archived /\ requested' = Append(requested, Head(queue))
    BY <1>1, <2>1, <2>2, RequestFacts
  <2>4. Line!Advance
    BY <1>1, <2>1, <2>2, <2>3 DEF Line!Advance
  <2>. QED BY <2>4 DEF Line!Next
<1>3. CASE ~Applies(thread, "run.preparing", NoTurn)
  BY <1>3, RowIsALineStep DEF Drain
<1>. QED BY <1>2, <1>3

LEMMA SettleKeepsLine ==
  ASSUME CoreInv, NEW r \in Rows, r.archived = thread.archived,
         r.status \in Running /\ thread.status \notin Running => ~thread.archived,
         NEW event \in Settles, NEW t \in Nat \cup Foreign,
         NEW drain, NEW holds, NEW reason,
         Settle(r, event, t, drain, holds, reason), UNCHANGED <<queue, requested>>
  PROVE  [Line!Next]_Line!vars
<1>1. thread' = Moved(r, event, t)
  BY DEF Settle
<1>2. /\ Moved(r, event, t).archived = r.archived
      /\ Moved(r, event, t).status \in Running /\ r.status \notin Running => ~r.archived
  BY MovedOpens DEF Settles
<1>. QED BY <1>1, <1>2, RowIsALineStep

LEMMA FailTurnKeepsLine ==
  ASSUME CoreInv, NEW holds, FailTurn(holds)
  PROVE  [Line!Next]_Line!vars
<1>1. thread \in Rows /\ driver.turn \in Nat \cup Foreign /\ "run.failed" \in Settles
  BY TypesAreNamed DEF CoreInv, TypesNamed, Drivers, Settles
<1>2. \E r \in Rows :
        /\ r.archived = thread.archived
        /\ r.status \in Running /\ thread.status \notin Running => ~thread.archived
        /\ EndTurn(r, driver.turn, "run.failed", holds)
  <2>1. CASE driver.phase = "dispatched"
    BY <1>1, <2>1, MovedOpens DEF FailTurn
  <2>2. CASE driver.phase # "dispatched"
    BY <1>1, <2>2 DEF FailTurn
  <2>. QED BY <2>1, <2>2
<1>. QED BY <1>1, <1>2, SettleKeepsLine DEF EndTurn

LEMMA LineStepOfNext ==
  CoreInv /\ [Next]_vars => [Line!Next]_Line!vars
<1>. SUFFICES ASSUME CoreInv, [Next]_vars PROVE [Line!Next]_Line!vars
  OBVIOUS
<1>0. /\ TypesNamed /\ thread \in Rows /\ NoTurn \in Nat \cup Foreign
      /\ driver.turn \in Nat \cup Foreign /\ thread.turn \in Nat \cup Foreign
      /\ hand.turn \in Nat \cup Foreign
  BY TypesAreNamed DEF CoreInv, TypesNamed, Drivers, Rows, Hands, NoTurn
<1>1. ASSUME UNCHANGED <<thread, queue, requested>> PROVE [Line!Next]_Line!vars
  BY <1>1, RowIsALineStep
<1>2. ASSUME NEW event \in {"run.preparing", "run.started", "run.succeeded", "run.failed",
                            "stop.requested", "stop.settled"},
             NEW t \in Nat \cup Foreign,
             thread' = Moved(thread, event, t), UNCHANGED <<queue, requested>>
      PROVE  [Line!Next]_Line!vars
  BY <1>0, <1>2, MovedOpens, RowIsALineStep
<1>3. CASE UNCHANGED vars
  BY <1>1, <1>3 DEF vars, row, log
<1>4. ASSUME RequestStop PROVE [Line!Next]_Line!vars
  <2>1. UNCHANGED <<queue, requested>>
    BY <1>4 DEF RequestStop, log
  <2>2. thread' = Moved(thread, "stop.requested", NoTurn) \/ thread' = thread
    BY <1>4 DEF RequestStop
  <2>. QED BY <1>0, <1>1, <1>2, <2>1, <2>2
<1>5. ASSUME Archive PROVE [Line!Next]_Line!vars
  BY <1>5 DEF Archive, log, Line!Next, Line!Close
<1>6. ASSUME AskDriver PROVE [Line!Next]_Line!vars
  <2>1. UNCHANGED <<queue, requested>>
    BY <1>6 DEF AskDriver, log
  <2>2. CASE Settle(thread, "stop.settled", hand.turn, TRUE, FALSE, "settled")
    BY <1>0, <2>1, <2>2, SettleKeepsLine DEF Settles
  <2>3. CASE UNCHANGED thread
    BY <1>1, <2>1, <2>3
  <2>. QED BY <1>6, <2>2, <2>3 DEF AskDriver
<1>7. ASSUME StartTurn PROVE [Line!Next]_Line!vars
  <2>1. UNCHANGED <<queue, requested>>
    BY <1>7 DEF StartTurn, log
  <2>2. thread' = Moved(thread, "run.failed", NoTurn) \/ thread' = thread
    BY <1>7 DEF StartTurn
  <2>. QED BY <1>0, <1>1, <1>2, <2>1, <2>2
<1>8. ASSUME NEW t \in prompted, Reports(t) \/ FallsSilent(t) PROVE [Line!Next]_Line!vars
  <2>1. CASE \E event \in {"run.succeeded", "run.failed"} : \E holds \in BOOLEAN :
               EndTurn(thread, t, event, holds)
    <3>1. t \in Nat \cup Foreign
      BY <1>0 DEF TypesNamed, LocalTurns
    <3>2. PICK event \in Settles, holds \in BOOLEAN :
            Settle(thread, event, t, TRUE, holds, "settled") /\ UNCHANGED <<queue, requested>>
      BY <2>1 DEF EndTurn, Settles
    <3>. QED BY <1>0, <3>1, <3>2, SettleKeepsLine
  <2>2. CASE UNCHANGED <<up, row, log, abroad, cards, driver, hand, history, why>>
    BY <1>1, <2>2 DEF row, log
  <2>. QED BY <1>8, <2>1, <2>2 DEF Reports, FallsSilent
<1>9. ASSUME NEW f \in Foreign, ForeignStarts(f) \/ ForeignEnds(f) PROVE [Line!Next]_Line!vars
  <2>1. f \in Nat \cup Foreign
    OBVIOUS
  <2>2. CASE ForeignStarts(f)
    BY <1>2, <2>1, <2>2 DEF ForeignStarts, log
  <2>3. CASE ForeignEnds(f)
    BY <1>0, <2>1, <2>3, SettleKeepsLine DEF ForeignEnds, log, Settles
  <2>. QED BY <1>9, <2>2, <2>3
<1>10. ASSUME GraceEnds PROVE [Line!Next]_Line!vars
  BY <1>0, <1>10, SettleKeepsLine DEF GraceEnds, EndTurn, Settles
<1>11. ASSUME TurnStarted PROVE [Line!Next]_Line!vars
  BY <1>0, <1>2, <1>11 DEF TurnStarted
<1>12. ASSUME Recover PROVE [Line!Next]_Line!vars
  <2>1. UNCHANGED <<queue, requested>>
    BY <1>12 DEF Recover
  <2>2. thread' = Moved(thread, "run.failed", thread.turn) \/ thread' = thread
    BY <1>12 DEF Recover
  <2>. QED BY <1>0, <1>1, <1>2, <2>1, <2>2
<1>13. CASE People
  <2>1. CASE \E m \in Messages : Send(m) \/ AcceptDispatch(m)
    BY <2>1, TakeKeepsLine
  <2>2. CASE \E k \in Asks : Answer(k)
    BY <1>1, <2>2 DEF Answer, row, log
  <2>. QED BY <1>4, <1>5, <1>13, <2>1, <2>2 DEF People, Interrupt
<1>14. CASE Service
  <2>1. CASE TellWaiter
    BY <1>1, <2>1 DEF TellWaiter, row, log
  <2>. QED BY <1>4, <1>6, <1>7, <1>14, <2>1, DrainKeepsLine DEF Service, StopArchived
<1>15. CASE Provider
  <2>1. CASE \E k \in Asks : Ask(k)
    BY <1>1, <2>1 DEF Ask, row, log
  <2>2. CASE DispatchFails
    BY <2>2, FailTurnKeepsLine DEF DispatchFails
  <2>. QED BY <1>8, <1>11, <1>15, <2>1, <2>2 DEF Provider
<1>16. CASE Timers
  <2>1. CASE \E k \in Asks : AskLapses(k)
    BY <1>1, <2>1 DEF AskLapses, row, log
  <2>2. CASE Watchdog
    BY <2>2, FailTurnKeepsLine DEF Watchdog
  <2>. QED BY <1>10, <1>16, <2>1, <2>2 DEF Timers
<1>17. CASE Elsewhere
  <2>1. CASE \E m \in Dispatched : ForeignRequest(m)
    BY <1>1, <2>1 DEF ForeignRequest, row, log
  <2>. QED BY <1>9, <1>17, <2>1 DEF Elsewhere
<1>18. CASE Restart
  <2>1. CASE Crash \/ ClearDead
    BY <1>1, <2>1 DEF Crash, ClearDead, row, log
  <2>2. CASE Boot
    BY <1>1, <2>2 DEF Boot, log
  <2>. QED BY <1>12, <1>18, <2>1, <2>2 DEF Restart
<1>. QED BY <1>3, <1>13, <1>14, <1>15, <1>16, <1>17, <1>18 DEF Next

\* The thread implements the line: every message once, in the order it joined, one turn at a time,
\* none after the archive, whatever stops, fails, crashes or runs elsewhere.
THEOREM ThreadKeepsLine == Spec => KeepsLine
<1>1. Init => Line!Init
  BY DEF Init, Line!Init, Running
<1>2. Init => CoreInv
  BY CoreInit
<1>3. CoreInv /\ [Next]_vars => CoreInv'
  BY CoreStep
<1>4. CoreInv /\ [Next]_vars => [Line!Next]_Line!vars
  BY LineStepOfNext
<1>. QED BY <1>1, <1>2, <1>3, <1>4, PTL DEF Spec, KeepsLine, Line!Spec

-----------------------------------------------------------------------------
(* The line follows the turn it waited on. *)

\* Only a settle takes a row from work to rest.
LEMMA MovedRests ==
  ASSUME NEW r \in Rows, NEW t,
         NEW event \in {"run.preparing", "run.started", "stop.requested"},
         AtRest(Moved(r, event, t).status)
  PROVE  Moved(r, event, t) = r
BY MovedFacts DEF AtRest, RowOf

\* A step that settles nothing and leaves the queue alone.
LEMMA FollowQuiet ==
  ASSUME FollowInv, up, hand.step # "drain", UNCHANGED <<queue, why>>,
         AtRest(thread'.status) /\ ~thread'.archived => thread' = thread,
         hand' = hand \/ hand'.step # "recover"
  PROVE  FollowInv'
BY DEF FollowInv

LEMMA SettleFollows ==
  ASSUME CoreInv, FollowInv, up, hand.step # "drain",
         NEW r \in Rows, r = thread \/ ~AtRest(r.status),
         NEW event \in Settles, NEW t \in Nat \cup Foreign,
         NEW drain \in BOOLEAN, NEW holds \in BOOLEAN,
         NEW reason \in {"settled", "elsewhere"}, ~drain => reason = "elsewhere",
         Settle(r, event, t, drain, holds, reason), queue' = queue
  PROVE  FollowInv'
<1>1. claims = {} /\ queue \in Seq(Messages)
  BY TypesAreNamed DEF CoreInv, LineInv, TypesNamed
<1>2. \/ hand' = Idle /\ hand'.step = "none"
      \/ hand'.step = "drain"
  BY SettleFacts, IdleFacts
<1>3. CASE ~Applies(r, event, t)
  <2>1. thread' = r /\ why' = why
    BY <1>3 DEF Settle, Moved
  <2>. QED BY <1>2, <2>1 DEF FollowInv
<1>4. CASE Applies(r, event, t) /\ (holds \/ ~drain)
  <2>1. why' # "settled"
    BY <1>4 DEF Settle
  <2>. QED BY <1>2, <2>1 DEF FollowInv
<1>5. CASE Applies(r, event, t) /\ ~holds /\ drain
  <2>1. CASE queue = <<>>
    BY <1>2, <2>1 DEF FollowInv
  <2>2. CASE queue # <<>>
    <3>1. ClaimNext
      BY <1>1, <1>5, <2>2, NextIsHead DEF Settle
    <3>2. hand' = Hand("drain", NextUp, NoTurn, NoAsk) /\ NextUp \in Messages
      BY <1>1, <2>2, <3>1, NextIsHead DEF ClaimNext
    <3>3. "drain" \in Steps /\ NoTurn \in Nat
      BY DEF Steps, NoTurn
    <3>4. hand'.step = "drain"
      BY <3>2, <3>3, HandFacts
    <3>. QED BY <3>4 DEF FollowInv
  <2>. QED BY <2>1, <2>2
<1>. QED BY <1>3, <1>4, <1>5

LEMMA TakeFollows ==
  ASSUME CoreInv, FollowInv, NEW m \in Messages, Send(m) \/ AcceptDispatch(m)
  PROVE  FollowInv'
<1>1. Take(m) /\ Waits /\ up /\ hand.step = "none" /\ ~thread.archived
  BY IdleFacts DEF Send, AcceptDispatch, Waits, Take
<1>2. thread \in Rows /\ claims = {} /\ queue \in Seq(Messages) /\ requested \in Seq(Messages)
  BY <1>1, TypesAreNamed DEF CoreInv, TypesNamed, LineInv
<1>3. "drain" \in Steps /\ "dispatch" \in Steps /\ NoTurn \in Nat
  BY DEF Steps, NoTurn
<1>4. CASE thread.status \in Running
  <2>1. hand' = hand /\ thread' = thread
    BY <1>1, <1>4 DEF Take
  <2>. QED BY <1>1, <1>2, <1>4, <2>1, BusyFacts DEF FollowInv
<1>5. CASE thread.status \notin Running /\ Unclaimed # {}
  <2>1. ClaimNext /\ NextUp \in Messages
    BY <1>1, <1>2, <1>5, NextIsHead DEF Take
  <2>2. hand'.step = "drain"
    BY <1>3, <2>1, HandFacts DEF ClaimNext
  <2>. QED BY <2>2 DEF FollowInv
<1>6. CASE thread.status \notin Running /\ Unclaimed = {}
  <2>1. Request(m)
    BY <1>1, <1>6 DEF Take
  <2>2. thread'.status \in Running
    BY <1>1, <1>2, <1>6, <2>1, BusyFacts, RequestFacts
  <2>3. hand'.step = "dispatch"
    BY <1>2, <1>3, <2>1, HandFacts DEF Request
  <2>. QED BY <2>2, <2>3 DEF FollowInv, AtRest, Running
<1>. QED BY <1>4, <1>5, <1>6

LEMMA DrainFollows ==
  ASSUME CoreInv, FollowInv, Drain
  PROVE  FollowInv'
<1>1. /\ hand.msg \in Messages /\ thread \in Rows /\ requested \in Seq(Messages)
  BY DrainFacts, TypesAreNamed DEF CoreInv, TypesNamed, Drain
<1>2. CASE Applies(thread, "run.preparing", NoTurn)
  <2>1. Request(hand.msg)
    BY <1>2 DEF Drain
  <2>2. thread'.status \in Running
    BY <1>1, <1>2, <2>1, AppliesFacts, RequestFacts
  <2>3. "dispatch" \in Steps /\ Len(requested) + 1 \in Nat
    BY <1>1 DEF Steps
  <2>4. hand'.step = "dispatch"
    BY <1>1, <2>1, <2>3, HandFacts DEF Request
  <2>. QED BY <2>2, <2>4 DEF FollowInv, AtRest, Running
<1>3. CASE ~Applies(thread, "run.preparing", NoTurn)
  <2>1. hand'.step = "none" /\ thread' = thread
    BY <1>3, IdleFacts DEF Drain
  <2>2. thread.archived \/ ~AtRest(thread.status)
    BY <1>1, <1>3, AppliesFacts
  <2>. QED BY <2>1, <2>2 DEF FollowInv
<1>. QED BY <1>2, <1>3

LEMMA FailTurnFollows ==
  ASSUME CoreInv, FollowInv, Waits, NEW holds \in BOOLEAN, FailTurn(holds)
  PROVE  FollowInv'
<1>1. /\ thread \in Rows /\ driver.turn \in Nat \cup Foreign /\ "run.failed" \in Settles
      /\ up /\ hand.step = "none"
  BY TypesAreNamed, IdleFacts DEF CoreInv, TypesNamed, Drivers, Settles, Waits
<1>2. \E r \in Rows : /\ r = thread \/ ~AtRest(r.status)
                      /\ EndTurn(r, driver.turn, "run.failed", holds)
  <2>1. CASE driver.phase = "dispatched"
    BY <1>1, <2>1, MovedTyped, MovedRests DEF FailTurn
  <2>2. CASE driver.phase # "dispatched"
    BY <1>1, <2>2 DEF FailTurn
  <2>. QED BY <2>1, <2>2
<1>. QED BY <1>1, <1>2, SettleFollows DEF EndTurn

LEMMA FollowStep == CoreInv /\ FollowInv /\ [Next]_vars => FollowInv'
<1>. SUFFICES ASSUME CoreInv, FollowInv, [Next]_vars PROVE FollowInv'
  OBVIOUS
<1>0. /\ TypesNamed /\ thread \in Rows /\ NoTurn \in Nat \cup Foreign
      /\ driver.turn \in Nat \cup Foreign /\ thread.turn \in Nat \cup Foreign
      /\ hand.turn \in Nat \cup Foreign
  BY TypesAreNamed DEF CoreInv, TypesNamed, Drivers, Rows, Hands, NoTurn
<1>1. ASSUME up, hand.step # "drain", UNCHANGED <<thread, queue, why>>,
             hand' = hand \/ hand'.step # "recover"
      PROVE  FollowInv'
  BY <1>1, FollowQuiet
<1>2. Waits => up /\ hand.step = "none"
  BY IdleFacts DEF Waits
<1>3. CASE UNCHANGED vars
  BY <1>3 DEF vars, row, FollowInv
<1>4. ASSUME RequestStop, up, hand.step # "drain" PROVE FollowInv'
  <2>1. UNCHANGED <<queue, why>>
    BY <1>4 DEF RequestStop
  <2>2. AtRest(thread'.status) => thread' = thread
    BY <1>0, <1>4, MovedRests DEF RequestStop
  <2>3. hand'.step # "recover"
    BY <1>4, RequestStopHand
  <2>. QED BY <1>4, <2>1, <2>2, <2>3, FollowQuiet
<1>5. ASSUME Archive PROVE FollowInv'
  <2>1. hand'.step = "stop"
    BY <1>0, <1>5, TaskFacts DEF Archive, Steps
  <2>2. thread'.archived
    BY <1>5 DEF Archive
  <2>. QED BY <2>1, <2>2 DEF FollowInv
<1>6. ASSUME AskDriver PROVE FollowInv'
  <2>1. up /\ hand.step = "interrupt" /\ queue' = queue
    BY <1>6 DEF AskDriver, InHand
  <2>2. CASE Settle(thread, "stop.settled", hand.turn, TRUE, FALSE, "settled")
    BY <1>0, <2>1, <2>2, SettleFollows DEF Settles
  <2>3. CASE hand' = Idle /\ UNCHANGED <<thread, why>>
    BY <1>1, <2>1, <2>3, IdleFacts
  <2>. QED BY <1>6, <2>2, <2>3 DEF AskDriver
<1>7. ASSUME StartTurn PROVE FollowInv'
  <2>1. up /\ hand.step = "dispatch" /\ hand' = Idle /\ hand'.step = "none" /\ queue' = queue
    BY <1>7, IdleFacts DEF StartTurn, InHand
  <2>2. why' = "refused" \/ UNCHANGED <<thread, why>>
    BY <1>7 DEF StartTurn
  <2>. QED BY <2>1, <2>2 DEF FollowInv
<1>8. ASSUME NEW t \in prompted, Reports(t) \/ FallsSilent(t) PROVE FollowInv'
  <2>0. Waits
    BY <1>8 DEF Reports, FallsSilent
  <2>1. CASE \E event \in {"run.succeeded", "run.failed"} : \E holds \in BOOLEAN :
               EndTurn(thread, t, event, holds)
    <3>1. t \in Nat \cup Foreign
      BY <1>0 DEF TypesNamed, LocalTurns
    <3>2. PICK event \in Settles, holds \in BOOLEAN :
            Settle(thread, event, t, TRUE, holds, "settled") /\ queue' = queue
      BY <2>1 DEF EndTurn, Settles
    <3>. QED BY <1>0, <1>2, <2>0, <3>1, <3>2, SettleFollows
  <2>2. CASE UNCHANGED <<up, row, log, abroad, cards, driver, hand, history, why>>
    BY <1>1, <1>2, <2>0, <2>2 DEF row
  <2>. QED BY <1>8, <2>1, <2>2 DEF Reports, FallsSilent
<1>9. ASSUME NEW f \in Foreign, ForeignStarts(f) \/ ForeignEnds(f) PROVE FollowInv'
  <2>1. f \in Nat \cup Foreign /\ up /\ hand.step = "none"
    BY <1>2, <1>9 DEF ForeignStarts, ForeignEnds
  <2>2. CASE ForeignStarts(f)
    <3>1. AtRest(thread'.status) => thread' = thread
      BY <1>0, <2>2, MovedRests DEF ForeignStarts
    <3>. QED BY <2>1, <2>2, <3>1, FollowQuiet DEF ForeignStarts
  <2>3. CASE ForeignEnds(f)
    <3>1. PICK event \in Settles : Settle(thread, event, f, FALSE, FALSE, "elsewhere")
      BY <2>3 DEF ForeignEnds, Settles
    <3>. QED BY <1>0, <2>1, <2>3, <3>1, SettleFollows DEF ForeignEnds
  <2>. QED BY <1>9, <2>2, <2>3
<1>10. ASSUME GraceEnds PROVE FollowInv'
  <2>1. Settle(thread, "run.succeeded", driver.turn, TRUE, FALSE, "settled") /\ queue' = queue
    BY <1>10 DEF GraceEnds, EndTurn
  <2>. QED BY <1>0, <1>2, <1>10, <2>1, SettleFollows DEF GraceEnds, Settles
<1>11. ASSUME TurnStarted PROVE FollowInv'
  <2>1. AtRest(thread'.status) => thread' = thread
    BY <1>0, <1>11, MovedRests DEF TurnStarted
  <2>. QED BY <1>2, <1>11, <2>1, FollowQuiet DEF TurnStarted
<1>12. ASSUME Recover PROVE FollowInv'
  <2>1. why = "recovered" /\ why' = why
    BY <1>12 DEF Recover, InHand, FollowInv
  <2>. QED BY <2>1 DEF FollowInv
<1>13. CASE People
  <2>1. CASE \E m \in Messages : Send(m) \/ AcceptDispatch(m)
    BY <2>1, TakeFollows
  <2>2. CASE Interrupt
    BY <1>2, <1>4, <2>2 DEF Interrupt
  <2>3. CASE \E k \in Asks : Answer(k)
    <3>1. PICK k \in Asks : Answer(k)
      BY <2>3
    <3>2. "answer" \in Steps /\ NoTurn \in Nat
      BY DEF Steps, NoTurn
    <3>3. hand'.step = "answer"
      BY <3>1, <3>2, HandFacts DEF Answer
    <3>. QED BY <1>1, <1>2, <3>1, <3>3 DEF Answer, row
  <2>. QED BY <1>5, <1>13, <2>1, <2>2, <2>3 DEF People
<1>14. CASE Service
  <2>1. CASE TellWaiter
    BY <1>1, <2>1, IdleFacts DEF TellWaiter, row, InHand
  <2>2. CASE StopArchived
    BY <1>4, <2>2 DEF StopArchived, InHand
  <2>. QED BY <1>6, <1>7, <1>14, <2>1, <2>2, DrainFollows DEF Service
<1>15. CASE Provider
  <2>1. CASE \E k \in Asks : Ask(k)
    BY <1>1, <1>2, <2>1 DEF Ask, row
  <2>2. CASE DispatchFails
    BY <2>2, FailTurnFollows DEF DispatchFails
  <2>. QED BY <1>8, <1>11, <1>15, <2>1, <2>2 DEF Provider
<1>16. CASE Timers
  <2>1. CASE \E k \in Asks : AskLapses(k)
    BY <1>1, <1>2, <2>1 DEF AskLapses, row
  <2>2. CASE Watchdog
    BY <2>2, FailTurnFollows DEF Watchdog
  <2>. QED BY <1>10, <1>16, <2>1, <2>2 DEF Timers
<1>17. CASE Elsewhere
  <2>1. CASE \E m \in Dispatched : ForeignRequest(m)
    BY <1>1, <1>2, <2>1 DEF ForeignRequest, row
  <2>. QED BY <1>9, <1>17, <2>1 DEF Elsewhere
<1>18. CASE Restart
  <2>1. CASE Crash
    BY <2>1, IdleFacts DEF Crash, FollowInv
  <2>2. CASE Boot
    BY <2>2 DEF Boot, FollowInv
  <2>3. CASE ClearDead
    BY <1>1, <2>3, IdleFacts DEF ClearDead, row, InHand
  <2>. QED BY <1>12, <1>18, <2>1, <2>2, <2>3 DEF Restart
<1>. QED BY <1>3, <1>13, <1>14, <1>15, <1>16, <1>17, <1>18 DEF Next

\* A queued message is never left behind by a turn that settled here.
THEOREM TheLineFollows == Spec => []LineFollows
<1>1. Init => CoreInv /\ FollowInv
  BY CoreInit, IdleFacts DEF Init, FollowInv
<1>2. CoreInv /\ FollowInv /\ [Next]_vars => CoreInv' /\ FollowInv'
  BY CoreStep, FollowStep
<1>3. CoreInv /\ FollowInv => LineFollows
  <2>1. CoreInv => (AtRest(thread.status) <=> thread.status \notin Running)
    BY TypesAreNamed, BusyFacts DEF CoreInv, TypesNamed
  <2>. QED BY <2>1, IdleFacts DEF FollowInv, LineFollows, Quiet, Waits
<1>. QED BY <1>1, <1>2, <1>3, PTL DEF Spec

-----------------------------------------------------------------------------
(* The row, the driver and the log tell of one turn. *)

\* A step that requests and prompts nothing.
LEMMA PromptQuiet ==
  ASSUME PromptInv, prompted' \subseteq prompted, requested' = requested,
         driver' = driver \/ (driver'.turn \in {driver.turn, NoTurn} /\ driver'.phase # "dispatched"),
         hand'.step # "dispatch", TypesNamed
  PROVE  PromptInv'
BY DEF PromptInv, NoTurn, TypesNamed

LEMMA PromptRequest ==
  ASSUME CoreInv, PromptInv, NEW m \in Messages, Request(m), UNCHANGED engine
  PROVE  PromptInv'
<1>1. /\ requested \in Seq(Messages) /\ prompted \subseteq Nat /\ driver.turn \in Nat
      /\ UNCHANGED <<prompted, driver>>
  BY TypesAreNamed DEF CoreInv, TypesNamed, Drivers, LocalTurns, engine
<1>2. Len(requested) \in Nat /\ Len(requested') = Len(requested) + 1
  BY <1>1 DEF Request
<1>3. "dispatch" \in Steps /\ NoTurn \in Nat
  BY DEF Steps, NoTurn
<1>4. hand'.step = "dispatch" /\ hand'.turn = Len(requested) + 1
  BY <1>2, <1>3, HandFacts DEF Request
<1>. QED BY <1>1, <1>2, <1>4 DEF PromptInv

\* A claim and a settle put no turn in hand.
LEMMA SettleHand ==
  ASSUME CoreInv, up, hand.step # "drain", NEW r \in Rows, NEW event \in Settles,
         NEW t \in Nat \cup Foreign, NEW drain \in BOOLEAN, NEW holds \in BOOLEAN,
         NEW reason \in {"settled", "elsewhere"},
         Settle(r, event, t, drain, holds, reason)
  PROVE  hand'.step \in {"none", "drain"} /\ thread' = Moved(r, event, t)
BY SettleFacts, IdleFacts

LEMMA EndTurnHand ==
  ASSUME CoreInv, Waits, NEW r \in Rows, NEW t \in Nat, NEW event \in {"run.succeeded", "run.failed"},
         NEW holds \in BOOLEAN, EndTurn(r, t, event, holds)
  PROVE  /\ hand'.step \in {"none", "drain"} /\ thread' = Moved(r, event, t)
         /\ driver' = NoDriver /\ requested' = requested /\ up' = up /\ excused' = excused
         /\ open' = open \ {t}
<1>1. event \in Settles /\ up /\ hand.step # "drain" /\ t \in Nat \cup Foreign
  BY IdleFacts DEF Settles, Waits
<1>. QED BY <1>1, SettleHand DEF EndTurn, history

LEMMA FailTurnHand ==
  ASSUME CoreInv, Waits, NEW holds \in BOOLEAN, FailTurn(holds)
  PROVE  LET d == driver.turn
             r == IF driver.phase = "dispatched" THEN Moved(thread, "run.started", d) ELSE thread
         IN  /\ hand'.step \in {"none", "drain"} /\ thread' = Moved(r, "run.failed", d)
             /\ driver' = NoDriver /\ requested' = requested /\ up' = up /\ excused' = excused
             /\ open' = open \ {d} /\ prompted' = prompted
<1>1. thread \in Rows /\ driver.turn \in Nat
  BY TypesAreNamed DEF CoreInv, TypesNamed, Drivers
<1>2. Moved(thread, "run.started", driver.turn) \in Rows
  BY <1>1, MovedTyped
<1>3. CASE driver.phase = "dispatched"
  BY <1>1, <1>2, <1>3, EndTurnHand DEF FailTurn
<1>4. CASE driver.phase # "dispatched"
  BY <1>1, <1>4, EndTurnHand DEF FailTurn
<1>. QED BY <1>3, <1>4

\* A claim, an answer and an archive.
LEMMA ClaimHand ==
  ASSUME NextUp \in Messages, ClaimNext
  PROVE  hand'.step = "drain"
<1>1. "drain" \in Steps /\ NoTurn \in Nat
  BY DEF Steps, NoTurn
<1>. QED BY <1>1, HandFacts DEF ClaimNext

LEMMA AnswerHand ==
  ASSUME NEW k \in Asks, Answer(k)
  PROVE  hand'.step = "answer"
<1>1. "answer" \in Steps /\ NoTurn \in Nat
  BY DEF Steps, NoTurn
<1>. QED BY <1>1, HandFacts DEF Answer

LEMMA RestartHand ==
  /\ Archive => hand'.step = "stop"
  /\ Boot => hand'.step = "recover"
  /\ Recover => hand'.step = IF RunsHere THEN "clear" ELSE "none"
<1>1. {"stop", "recover", "clear"} \subseteq Steps /\ NoTurn \in Nat \cup Foreign
  BY DEF Steps, NoTurn
<1>. QED BY <1>1, TaskFacts, IdleFacts DEF Archive, Boot, Recover

\* What Take makes of a send, by the state of the line.
LEMMA TakeFacts ==
  ASSUME CoreInv, NEW m \in Messages, Send(m) \/ AcceptDispatch(m)
  PROVE  /\ up /\ hand.step = "none" /\ ~thread.archived /\ up' = up
         /\ UNCHANGED <<open, driver, prompted, excused>>
         /\ \/ hand' = hand /\ UNCHANGED <<thread, requested>>
            \/ hand'.step = "drain" /\ UNCHANGED <<thread, requested>>
            \/ AtRest(thread.status) /\ Request(m)
<1>1. Take(m) /\ up /\ hand.step = "none" /\ Waits
  BY IdleFacts DEF Send, AcceptDispatch, Waits
<1>2. thread \in Rows /\ claims = {} /\ queue \in Seq(Messages)
  BY <1>1, TypesAreNamed DEF CoreInv, TypesNamed, LineInv
<1>3. CASE thread.status \notin Running /\ Unclaimed # {} /\ ClaimNext /\ UNCHANGED <<thread, requested>>
  BY <1>1, <1>2, <1>3, NextIsHead, ClaimHand DEF Take, engine, history
<1>4. CASE hand' = hand /\ UNCHANGED <<thread, requested>>
  BY <1>1, <1>4 DEF Take, engine, history
<1>5. CASE thread.status \notin Running /\ Request(m)
  BY <1>1, <1>2, <1>5, BusyFacts DEF Take, engine, history
<1>. QED BY <1>1, <1>3, <1>4, <1>5 DEF Take

LEMMA PromptStep == CoreInv /\ PromptInv /\ [Next]_vars => PromptInv'
<1>. SUFFICES ASSUME CoreInv, PromptInv, [Next]_vars PROVE PromptInv'
  OBVIOUS
<1>0. /\ TypesNamed /\ thread \in Rows /\ NoTurn \in Nat \cup Foreign
      /\ driver.turn \in Nat \cup Foreign /\ thread.turn \in Nat \cup Foreign
      /\ hand.turn \in Nat \cup Foreign /\ driver.turn \in Nat
      /\ NoDriver.turn = NoTurn /\ NoDriver.phase = "none"
  BY TypesAreNamed, DriverFacts DEF CoreInv, TypesNamed, Drivers, Rows, Hands, NoTurn
<1>1. Waits => up /\ hand.step = "none"
  BY IdleFacts DEF Waits
<1>2. ASSUME UNCHANGED <<requested, driver>>, prompted' \subseteq prompted, hand'.step # "dispatch"
      PROVE  PromptInv'
  BY <1>0, <1>2, PromptQuiet
<1>3. ASSUME requested' = requested, driver' = NoDriver, prompted' \subseteq prompted,
             hand'.step # "dispatch"
      PROVE  PromptInv'
  BY <1>0, <1>3, PromptQuiet
<1>4. CASE UNCHANGED vars
  BY <1>4 DEF vars, log, engine, PromptInv
<1>5. CASE \E m \in Messages : Send(m) \/ AcceptDispatch(m)
  <2>1. PICK m \in Messages : Send(m) \/ AcceptDispatch(m)
    BY <1>5
  <2>2. /\ hand.step = "none" /\ UNCHANGED engine /\ UNCHANGED <<driver, prompted>>
        /\ \/ hand' = hand /\ UNCHANGED <<thread, requested>>
           \/ hand'.step = "drain" /\ UNCHANGED <<thread, requested>>
           \/ Request(m)
    BY <2>1, TakeFacts DEF engine
  <2>3. CASE Request(m)
    BY <2>2, <2>3, PromptRequest
  <2>. QED BY <1>2, <2>2, <2>3
<1>6. ASSUME RequestStop PROVE PromptInv'
  BY <1>2, <1>6, RequestStopHand DEF RequestStop, log, engine
<1>7. CASE Archive
  BY <1>2, <1>7, RestartHand DEF Archive, log, engine
<1>8. CASE \E k \in Asks : Answer(k)
  BY <1>2, <1>8, AnswerHand DEF Answer, log, engine
<1>9. CASE AskDriver
  <2>1. /\ up /\ hand.step = "interrupt" /\ UNCHANGED <<requested, prompted>>
    BY <1>9 DEF AskDriver, InHand, log
  <2>2. hand'.step # "dispatch"
    <3>1. CASE Settle(thread, "stop.settled", hand.turn, TRUE, FALSE, "settled")
      BY <1>0, <2>1, <3>1, SettleHand DEF Settles
    <3>2. CASE hand' = Idle
      BY <3>2, IdleFacts
    <3>. QED BY <1>9, <3>1, <3>2 DEF AskDriver
  <2>3. driver' \in {driver, NoDriver, [turn |-> driver.turn, phase |-> "stopping"]}
    BY <1>9 DEF AskDriver
  <2>. QED BY <1>0, <2>1, <2>2, <2>3, PromptQuiet
<1>10. CASE Drain
  <2>1. hand.msg \in Messages /\ UNCHANGED engine /\ UNCHANGED <<driver, prompted>>
    BY <1>10, DrainFacts DEF Drain, engine
  <2>2. CASE Request(hand.msg)
    BY <2>1, <2>2, PromptRequest
  <2>3. CASE hand' = Idle /\ UNCHANGED requested
    BY <1>2, <2>1, <2>3, IdleFacts
  <2>. QED BY <1>10, <2>2, <2>3 DEF Drain
<1>11. CASE StartTurn
  <2>1. /\ hand.step = "dispatch" /\ hand'.step = "none" /\ UNCHANGED <<requested, prompted>>
        /\ \/ driver' = driver
           \/ driver' = [turn |-> hand.turn, phase |-> "dispatched"]
    BY <1>11, IdleFacts DEF StartTurn, InHand, log
  <2>. QED BY <2>1 DEF PromptInv
<1>12. CASE TurnStarted
  <2>1. /\ hand'.step = "none" /\ requested' = requested
        /\ prompted' = prompted \cup {driver.turn}
        /\ driver' = [turn |-> driver.turn, phase |-> "started"]
    BY <1>1, <1>12 DEF TurnStarted
  <2>. QED BY <2>1 DEF PromptInv
<1>13. ASSUME NEW holds \in BOOLEAN, Waits, FailTurn(holds) PROVE PromptInv'
  BY <1>3, <1>13, FailTurnHand
<1>14. CASE \E t \in prompted : Reports(t) \/ FallsSilent(t)
  <2>1. PICK t \in prompted : Reports(t) \/ FallsSilent(t)
    BY <1>14
  <2>2. Waits /\ prompted' \subseteq prompted /\ t \in Nat
    BY <1>0, <2>1 DEF Reports, FallsSilent, TypesNamed, LocalTurns
  <2>3. CASE \E event \in {"run.succeeded", "run.failed"} : \E holds \in BOOLEAN :
               EndTurn(thread, t, event, holds)
    BY <1>0, <1>3, <2>2, <2>3, EndTurnHand
  <2>4. CASE UNCHANGED <<up, row, log, abroad, cards, driver, hand, history, why>>
    BY <1>1, <1>2, <2>2, <2>4 DEF log
  <2>. QED BY <2>1, <2>3, <2>4 DEF Reports, FallsSilent
<1>15. CASE \E k \in Asks : Ask(k) \/ AskLapses(k)
  BY <1>1, <1>2, <1>15 DEF Ask, AskLapses, log, engine
<1>16. CASE GraceEnds
  BY <1>0, <1>3, <1>16, EndTurnHand DEF GraceEnds
<1>17. CASE \E f \in Foreign : ForeignStarts(f) \/ ForeignEnds(f)
  <2>1. PICK f \in Foreign : ForeignStarts(f) \/ ForeignEnds(f)
    BY <1>17
  <2>2. CASE ForeignStarts(f)
    BY <1>1, <1>2, <2>2 DEF ForeignStarts, log, engine
  <2>3. CASE ForeignEnds(f)
    <3>1. PICK event \in Settles : Settle(thread, event, f, FALSE, FALSE, "elsewhere")
      BY <2>3 DEF ForeignEnds, Settles
    <3>2. up /\ hand.step = "none" /\ UNCHANGED <<requested, driver, prompted>>
      BY <1>1, <2>3 DEF ForeignEnds, log, engine
    <3>3. hand'.step # "dispatch"
      BY <1>0, <3>1, <3>2, SettleHand
    <3>. QED BY <1>2, <3>2, <3>3
  <2>. QED BY <2>1, <2>2, <2>3
<1>18. CASE \E m \in Dispatched : ForeignRequest(m)
  BY <1>1, <1>2, <1>18 DEF ForeignRequest, log, engine
<1>19. CASE TellWaiter \/ ClearDead
  BY <1>2, <1>19, IdleFacts DEF TellWaiter, ClearDead, log, engine
<1>20. CASE Crash
  BY <1>3, <1>20, IdleFacts DEF Crash, log
<1>21. CASE Boot \/ Recover
  BY <1>2, <1>21, RestartHand DEF Boot, Recover, log, engine
<1>22. CASE People
  BY <1>5, <1>6, <1>7, <1>8, <1>22 DEF People, Interrupt
<1>23. CASE Service
  BY <1>6, <1>9, <1>10, <1>11, <1>19, <1>23 DEF Service, StopArchived
<1>24. CASE Provider
  BY <1>12, <1>13, <1>14, <1>15, <1>24 DEF Provider, DispatchFails
<1>25. CASE Timers
  BY <1>13, <1>15, <1>16, <1>25 DEF Timers, Watchdog
<1>26. CASE Elsewhere
  BY <1>17, <1>18, <1>26 DEF Elsewhere
<1>27. CASE Restart
  BY <1>19, <1>20, <1>21, <1>27 DEF Restart
<1>. QED BY <1>4, <1>22, <1>23, <1>24, <1>25, <1>26, <1>27 DEF Next

-----------------------------------------------------------------------------

\* Between the steps of a handler that has said all it has to say, row, driver and log agree.
LEMMA WorkFacts ==
  ASSUME CoreInv, TurnInv, "crossed" \notin excused, up,
         hand.step \in {"none", "stop", "drain", "answer", "clear"}
  PROVE  /\ RunsHere <=> driver # NoDriver
         /\ driver.phase = "none" => driver = NoDriver /\ open = {}
         /\ driver.phase = "dispatched" =>
              thread.status = "starting" /\ thread.turn = NoTurn /\ open = {}
         /\ driver.phase = "started" =>
              thread.status = "active" /\ thread.turn = driver.turn /\ open = {driver.turn}
         /\ driver.phase = "stopping" =>
              thread.status = "stopping" /\ thread.turn = driver.turn /\ open = {driver.turn}
         /\ driver.phase # "none" => driver.turn \in LocalTurns /\ driver.turn \notin Foreign
                                     /\ driver.turn # NoTurn
<1>1. Agrees /\ RowInv
  BY DEF TurnInv, InStep
<1>2. IF driver.phase = "none" THEN driver = NoDriver
      ELSE driver.turn \in LocalTurns /\ driver.turn \notin Foreign /\ driver.turn # NoTurn
  BY ForeignAssumption DEF CoreInv, TurnsNamed, LocalTurns, NoTurn
<1>3. NoDriver.phase = "none" /\ NoTurn \notin Foreign
  BY DriverFacts, ForeignAssumption DEF NoTurn
<1>. QED BY <1>1, <1>2, <1>3 DEF Agrees, RowInv, RunsHere, Running

\* A step the row, the driver and the log do not notice.
LEMMA TurnQuiet ==
  ASSUME TurnInv, up, up' = up, UNCHANGED <<thread, open, driver>>, excused \subseteq excused',
         hand.step \in {"none", "drain", "answer", "clear"},
         hand'.step \in {"none", "drain", "answer"}
  PROVE  TurnInv'
BY DEF TurnInv, RowInv, InStep, Agrees, RunsHere

\* A step that leaves the thread and the driver at rest.
LEMMA TurnRests ==
  ASSUME up', driver' = NoDriver, thread'.turn = NoTurn, AtRest(thread'.status), open' = {},
         hand'.step \in {"none", "drain", "clear"}
  PROVE  TurnInv'
<1>1. NoDriver.phase = "none"
  BY DriverFacts
<1>2. thread'.status \notin Running
  BY DEF AtRest, Running
<1>. QED BY <1>1, <1>2 DEF TurnInv, RowInv, InStep, Agrees, RunsHere

LEMMA RequestTurn ==
  ASSUME CoreInv, TurnInv, up, up' = up, hand.step \in {"none", "drain"},
         NEW m \in Messages, Request(m), AtRest(thread.status), ~thread.archived,
         UNCHANGED <<open, driver, excused>>
  PROVE  TurnInv'
<1>1. thread \in Rows /\ requested \in Seq(Messages)
  BY TypesAreNamed DEF CoreInv, TypesNamed
<1>2. thread' = RowOf("starting", thread.turn, thread.archived)
  BY <1>1, MovedFacts DEF Request
<1>3. "dispatch" \in Steps /\ Len(requested) + 1 \in Nat
  BY <1>1 DEF Steps
<1>4. hand'.step = "dispatch"
  BY <1>3, HandFacts DEF Request
<1>5. CASE "crossed" \notin excused
  <2>1. ~RunsHere
    BY DEF RunsHere, AtRest, Running
  <2>2. driver = NoDriver /\ thread.turn = NoTurn /\ open = {}
    BY <1>5, <2>1 DEF TurnInv, RowInv, InStep, Agrees
  <2>3. NoDriver.phase = "none"
    BY DriverFacts
  <2>. QED BY <1>2, <1>4, <2>2, <2>3 DEF RowOf, TurnInv, RowInv, InStep, AtRest
<1>. QED BY <1>5 DEF TurnInv

\* The end of the driver's turn, from the row as it stands once the turn started.
LEMMA EndTurnRests ==
  ASSUME CoreInv, TurnInv, "crossed" \notin excused, Waits, driver # NoDriver,
         NEW r \in Rows, r.status \in Running, r.turn = driver.turn,
         NEW event \in {"run.succeeded", "run.failed"},
         thread' = Moved(r, event, driver.turn), driver' = NoDriver, up' = up,
         open' = open \ {driver.turn}, hand'.step \in {"none", "drain"}
  PROVE  TurnInv'
<1>1. up /\ hand.step = "none"
  BY IdleFacts DEF Waits
<1>2. open' = {}
  BY <1>1, WorkFacts DEF CoreInv, TypeOK, Phases
<1>3. thread'.turn = NoTurn /\ AtRest(thread'.status)
  BY MovedFacts DEF RowOf, AtRest
<1>. QED BY <1>1, <1>2, <1>3, TurnRests

\* Whatever fails the driver's turn, started or not, finds the row running it.
LEMMA FailTurnRests ==
  ASSUME CoreInv, TurnInv, "crossed" \notin excused, Waits, driver # NoDriver,
         NEW holds \in BOOLEAN, FailTurn(holds)
  PROVE  TurnInv'
<1>1. /\ up /\ hand.step = "none" /\ thread \in Rows /\ driver.turn \in Nat
      /\ driver.phase \in Phases
  BY IdleFacts, TypesAreNamed DEF Waits, CoreInv, TypesNamed, Drivers
<1>2. driver.phase # "none"
  BY DEF CoreInv, TurnsNamed
<1>3. PICK r \in Rows :
        /\ r = IF driver.phase = "dispatched" THEN Moved(thread, "run.started", driver.turn) ELSE thread
        /\ r \in Rows
  BY <1>1, MovedTyped
<1>4. r.status \in Running /\ r.turn = driver.turn
  <2>1. CASE driver.phase = "dispatched"
    <3>1. thread.status = "starting" /\ thread.turn = NoTurn
      BY <1>1, <2>1, WorkFacts
    <3>2. ~thread.archived
      BY <1>1, <2>1 DEF TurnInv, InStep
    <3>3. r = RowOf("active", driver.turn, thread.archived)
      BY <1>1, <1>3, <2>1, <3>1, <3>2, MovedFacts
    <3>. QED BY <3>3 DEF RowOf, Running
  <2>2. CASE driver.phase # "dispatched"
    BY <1>1, <1>2, <1>3, <2>2, WorkFacts DEF Phases, Running
  <2>. QED BY <2>1, <2>2
<1>5. /\ hand'.step \in {"none", "drain"} /\ thread' = Moved(r, "run.failed", driver.turn)
      /\ driver' = NoDriver /\ up' = up /\ open' = open \ {driver.turn}
  BY <1>3, FailTurnHand
<1>. QED BY <1>4, <1>5, EndTurnRests

LEMMA TurnStep == CoreInv /\ PromptInv /\ TurnInv /\ [Next]_vars => TurnInv'
<1>. SUFFICES ASSUME CoreInv, PromptInv, TurnInv, [Next]_vars PROVE TurnInv'
  OBVIOUS
<1>0. /\ TypesNamed /\ thread \in Rows /\ NoTurn \in Nat \cup Foreign
      /\ driver.turn \in Nat \cup Foreign /\ thread.turn \in Nat \cup Foreign
      /\ hand.turn \in Nat \cup Foreign /\ driver.turn \in Nat /\ driver.phase \in Phases
      /\ NoDriver.turn = NoTurn /\ NoDriver.phase = "none" /\ NoTurn \notin Foreign
      /\ driver # NoDriver <=> driver.phase # "none"
  BY TypesAreNamed, DriverFacts, ForeignAssumption
  DEF CoreInv, TypesNamed, Drivers, Rows, Hands, NoTurn, TurnsNamed
<1>1. Waits => up /\ hand.step = "none"
  BY IdleFacts DEF Waits
<1>2. CASE UNCHANGED vars
  BY <1>2 DEF vars, row, log, engine, history, TurnInv, RowInv, InStep, Agrees, Stopping, RunsHere
<1>3. CASE \E m \in Messages : Send(m) \/ AcceptDispatch(m)
  <2>1. PICK m \in Messages : Send(m) \/ AcceptDispatch(m)
    BY <1>3
  <2>2. /\ up /\ hand.step = "none" /\ ~thread.archived /\ up' = up
        /\ UNCHANGED <<open, driver, excused>>
        /\ \/ hand' = hand /\ UNCHANGED <<thread, requested>>
           \/ hand'.step = "drain" /\ UNCHANGED <<thread, requested>>
           \/ AtRest(thread.status) /\ Request(m)
    BY <2>1, TakeFacts
  <2>3. CASE AtRest(thread.status) /\ Request(m)
    BY <2>2, <2>3, RequestTurn
  <2>. QED BY <2>2, <2>3, TurnQuiet
<1>4. ASSUME RequestStop, up, hand.step \in {"none", "stop"} PROVE TurnInv'
  <2>1. UNCHANGED <<up, open, driver, excused>>
    BY <1>4 DEF RequestStop, log, engine, history
  <2>2. CASE "crossed" \in excused
    BY <2>1, <2>2 DEF TurnInv
  <2>3. CASE RunsHere /\ "crossed" \notin excused
    <3>1. hand'.step = "interrupt" /\ hand'.turn = thread.turn
      BY <1>4, <2>3, RequestStopHand
    <3>2. thread' = Moved(thread, "stop.requested", NoTurn)
      BY <1>4, <2>3 DEF RequestStop
    <3>3. thread.status \in Running /\ thread.turn \notin Foreign
      BY <2>3 DEF RunsHere
    <3>4. thread'.status = "stopping" /\ thread'.turn = thread.turn
      BY <1>0, <3>2, <3>3, MovedFacts DEF RowOf, Running
    <3>5. \/ driver.phase = "dispatched" /\ thread.turn = NoTurn
          \/ driver.phase \in {"started", "stopping"} /\ driver.turn = thread.turn
      BY <1>0, <1>4, <2>3, WorkFacts DEF Phases
    <3>6. Stopping'
      BY <2>1, <3>1, <3>3, <3>4, <3>5 DEF Stopping
    <3>7. RowInv'
      BY <1>4, <2>1, <2>3, <3>3, <3>4 DEF RowInv, TurnInv, AtRest, RunsHere, Running
    <3>. QED BY <3>1, <3>6, <3>7 DEF TurnInv, InStep
  <2>4. CASE ~RunsHere /\ "crossed" \notin excused
    <3>1. hand'.step = "none" /\ thread' = thread
      BY <1>4, <2>4, RequestStopHand DEF RequestStop
    <3>2. driver = NoDriver /\ driver.phase = "none" /\ RowInv /\ Agrees
      BY <1>0, <1>4, <2>4 DEF TurnInv, InStep, Agrees
    <3>3. RowInv' /\ Agrees'
      BY <2>1, <3>1, <3>2 DEF RowInv, Agrees, RunsHere
    <3>. QED BY <2>1, <3>1, <3>2, <3>3 DEF TurnInv, InStep
  <2>. QED BY <2>2, <2>3, <2>4
<1>5. CASE Archive
  <2>1. /\ hand'.step = "stop" /\ hand.step = "none" /\ up
        /\ thread'.status = thread.status /\ thread'.turn = thread.turn /\ thread'.archived
        /\ UNCHANGED <<up, open, driver, excused>>
    BY <1>1, <1>5, RestartHand DEF Archive, log, engine, history
  <2>. QED BY <2>1 DEF TurnInv, RowInv, InStep, Agrees, RunsHere
<1>6. CASE \E k \in Asks : Answer(k)
  BY <1>1, <1>6, AnswerHand, TurnQuiet DEF Answer, row, log, engine, history
<1>7. CASE AskDriver
  <2>1. up /\ hand.step = "interrupt" /\ UNCHANGED <<up, open, excused>>
    BY <1>7 DEF AskDriver, InHand, log, history
  <2>2. CASE "crossed" \in excused
    BY <2>1, <2>2 DEF TurnInv
  <2>3. ASSUME "crossed" \notin excused PROVE TurnInv'
    <3>1. Stopping /\ RowInv
      BY <2>1, <2>3 DEF TurnInv, InStep
    <3>2. CASE /\ driver.phase \in {"none", "dispatched"} /\ driver' = NoDriver
               /\ Settle(thread, "stop.settled", hand.turn, TRUE, FALSE, "settled")
      <4>1. thread.status = "stopping" /\ hand.turn = thread.turn /\ thread.turn = NoTurn
        BY <3>1, <3>2 DEF Stopping
      <4>2. open' = {}
        BY <2>1, <3>1, <4>1 DEF RowInv
      <4>3. hand'.step \in {"none", "drain"} /\ thread' = Moved(thread, "stop.settled", hand.turn)
        BY <1>0, <2>1, <3>2, SettleHand DEF Settles
      <4>4. AtRest(thread'.status) /\ thread'.turn = NoTurn
        BY <1>0, <4>1, <4>3, MovedFacts DEF RowOf, AtRest
      <4>. QED BY <2>1, <3>2, <4>2, <4>3, <4>4, TurnRests
    <3>3. CASE /\ driver.phase \in {"started", "stopping"} /\ hand' = Idle /\ UNCHANGED thread
               /\ \/ driver' = [turn |-> driver.turn, phase |-> "stopping"]
                  \/ driver.phase = "stopping" /\ driver' = driver
      <4>1. /\ driver'.phase = "stopping" /\ driver'.turn = driver.turn
            /\ driver' # NoDriver
        BY <1>0, <3>3
      <4>2. thread.status = "stopping" /\ thread.turn = driver.turn /\ thread.turn \notin Foreign
        BY <1>0, <3>1, <3>3 DEF Stopping
      <4>3. Agrees'
        BY <3>3, <4>1, <4>2 DEF Agrees, RunsHere, Running
      <4>4. RowInv'
        BY <2>1, <3>1, <3>3, <4>2 DEF RowInv, RunsHere
      <4>. QED BY <3>3, <4>1, <4>3, <4>4, IdleFacts DEF TurnInv, InStep
    <3>. QED BY <1>7, <3>2, <3>3 DEF AskDriver
  <2>. QED BY <2>2, <2>3
<1>8. CASE Drain
  <2>1. hand.msg \in Messages /\ up /\ hand.step = "drain" /\ UNCHANGED <<up, open, driver, excused>>
    BY <1>8, DrainFacts DEF Drain, engine, history, InHand
  <2>2. CASE Applies(thread, "run.preparing", NoTurn)
    BY <1>0, <1>8, <2>1, <2>2, AppliesFacts, RequestTurn DEF Drain
  <2>3. CASE ~Applies(thread, "run.preparing", NoTurn)
    BY <1>8, <2>1, <2>3, IdleFacts, TurnQuiet DEF Drain
  <2>. QED BY <2>2, <2>3
<1>9. CASE StartTurn
  <2>1. up /\ hand.step = "dispatch" /\ hand'.step = "none" /\ UNCHANGED <<up, open, excused>>
    BY <1>9, IdleFacts DEF StartTurn, InHand, log, history
  <2>2. CASE "crossed" \in excused
    BY <2>1, <2>2 DEF TurnInv
  <2>3. ASSUME "crossed" \notin excused PROVE TurnInv'
    <3>1. /\ driver = NoDriver /\ thread.status = "starting" /\ ~thread.archived
          /\ thread.turn = NoTurn /\ open = {}
      BY <2>1, <2>3 DEF TurnInv, InStep, RowInv
    <3>2. CASE driver' = [turn |-> hand.turn, phase |-> "dispatched"] /\ UNCHANGED thread
      <4>1. driver'.phase = "dispatched" /\ driver' # NoDriver
        BY <1>0, <3>2
      <4>2. RunsHere /\ RunsHere'
        BY <1>0, <3>1, <3>2 DEF RunsHere, Running
      <4>3. Agrees' /\ RowInv'
        BY <2>1, <3>1, <3>2, <4>1, <4>2 DEF Agrees, RowInv
      <4>. QED BY <2>1, <3>1, <3>2, <4>1, <4>3 DEF TurnInv, InStep
    <3>3. CASE thread' = Moved(thread, "run.failed", NoTurn) /\ UNCHANGED driver
      <4>1. AtRest(thread'.status) /\ thread'.turn = NoTurn
        BY <1>0, <3>1, <3>3, MovedFacts DEF RowOf, AtRest, Running
      <4>. QED BY <2>1, <3>1, <3>3, <4>1, TurnRests
    <3>. QED BY <1>9, <3>2, <3>3 DEF StartTurn
  <2>. QED BY <2>2, <2>3
<1>10. CASE TurnStarted
  <2>1. /\ up /\ hand.step = "none" /\ UNCHANGED <<up, hand, excused>>
        /\ driver.phase = "dispatched"
        /\ driver' = [turn |-> driver.turn, phase |-> "started"]
        /\ thread' = Moved(thread, "run.started", driver.turn)
        /\ open' = open \cup {driver.turn}
    BY <1>1, <1>10 DEF TurnStarted, history
  <2>2. CASE "crossed" \in excused
    BY <2>1, <2>2 DEF TurnInv
  <2>3. ASSUME "crossed" \notin excused PROVE TurnInv'
    <3>1. /\ thread.status = "starting" /\ thread.turn = NoTurn /\ open = {}
          /\ driver.turn \notin Foreign /\ driver.turn # NoTurn
      BY <2>1, <2>3, WorkFacts
    <3>2. ~thread.archived
      BY <2>1, <2>3 DEF TurnInv, InStep
    <3>3. thread' = RowOf("active", driver.turn, thread.archived)
      BY <1>0, <2>1, <3>1, <3>2, MovedFacts
    <3>4. thread'.status = "active" /\ thread'.turn = driver.turn /\ ~thread'.archived
      BY <3>2, <3>3 DEF RowOf
    <3>5. driver'.phase = "started" /\ driver'.turn = driver.turn /\ driver' # NoDriver
      BY <1>0, <2>1
    <3>6. Agrees'
      BY <3>1, <3>4, <3>5 DEF Agrees, RunsHere, Running
    <3>7. RowInv'
      BY <2>1, <3>1, <3>4 DEF RowInv, RunsHere, Running, AtRest
    <3>. QED BY <2>1, <3>4, <3>6, <3>7 DEF TurnInv, InStep
  <2>. QED BY <2>2, <2>3
<1>11. ASSUME NEW holds \in BOOLEAN, Waits, driver # NoDriver, FailTurn(holds) PROVE TurnInv'
  <2>1. excused' = excused
    BY <1>11, FailTurnHand
  <2>2. CASE "crossed" \in excused
    BY <2>1, <2>2 DEF TurnInv
  <2>. QED BY <1>11, <2>2, FailTurnRests
<1>12. ASSUME NEW event \in {"run.succeeded", "run.failed"}, NEW holds \in BOOLEAN,
              Waits, driver.phase \in {"started", "stopping"},
              EndTurn(thread, driver.turn, event, holds)
       PROVE  TurnInv'
  <2>1. /\ hand'.step \in {"none", "drain"} /\ thread' = Moved(thread, event, driver.turn)
        /\ driver' = NoDriver /\ up' = up /\ excused' = excused
        /\ open' = open \ {driver.turn}
    BY <1>0, <1>12, EndTurnHand
  <2>2. CASE "crossed" \in excused
    BY <2>1, <2>2 DEF TurnInv
  <2>3. ASSUME "crossed" \notin excused PROVE TurnInv'
    <3>1. thread.status \in Running /\ thread.turn = driver.turn
      BY <1>1, <1>12, <2>3, WorkFacts DEF Running
    <3>2. driver # NoDriver
      BY <1>0, <1>12
    <3>. QED BY <1>0, <1>12, <2>1, <2>3, <3>1, <3>2, EndTurnRests
  <2>. QED BY <2>2, <2>3
<1>13. CASE \E t \in prompted : Reports(t) \/ FallsSilent(t)
  <2>1. PICK t \in prompted : Reports(t) \/ FallsSilent(t)
    BY <1>13
  <2>2. Waits
    BY <2>1 DEF Reports, FallsSilent
  <2>3. CASE driver.turn = t /\ \E event \in {"run.succeeded", "run.failed"} : \E holds \in BOOLEAN :
               EndTurn(thread, t, event, holds)
    <3>1. driver.turn # NoTurn
      BY <1>0, <2>1, <2>3 DEF TypesNamed, LocalTurns, NoTurn
    <3>2. driver.phase \in {"started", "stopping"}
      BY <1>0, <2>1, <2>3, <3>1 DEF PromptInv, Phases
    <3>. QED BY <1>12, <2>2, <2>3, <3>2
  <2>4. CASE UNCHANGED <<up, row, log, abroad, cards, driver, hand, history, why>>
    BY <1>1, <2>2, <2>4, TurnQuiet DEF row, log, history
  <2>. QED BY <2>1, <2>3, <2>4 DEF Reports, FallsSilent
<1>14. CASE \E k \in Asks : Ask(k) \/ AskLapses(k)
  BY <1>1, <1>14, TurnQuiet DEF Ask, AskLapses, row, log, engine, history
<1>15. CASE GraceEnds
  BY <1>12, <1>15 DEF GraceEnds
<1>16. CASE \E f \in Foreign : ForeignStarts(f)
  <2>1. PICK f \in Foreign : ForeignStarts(f)
    BY <1>16
  <2>2. /\ up /\ hand.step = "none" /\ UNCHANGED <<up, hand, open, driver>>
        /\ excused \subseteq excused' /\ thread' = Moved(thread, "run.started", f)
    BY <1>1, <2>1 DEF ForeignStarts, log, engine
  <2>3. CASE "crossed" \in excused'
    BY <2>3 DEF TurnInv
  <2>4. CASE ~Applies(thread, "run.started", f)
    BY <2>2, <2>4, TurnQuiet DEF Moved
  <2>5. CASE Applies(thread, "run.started", f) /\ "crossed" \notin excused'
    <3>1. driver = NoDriver /\ "crossed" \notin excused
      BY <2>1, <2>5 DEF ForeignStarts
    <3>2. ~RunsHere /\ open = {}
      BY <1>0, <2>2, <3>1, WorkFacts
    <3>3. thread' = RowOf("active", f, thread.archived) /\ ~thread.archived
      BY <1>0, <2>2, <2>5, AppliesFacts, MovedFacts
    <3>4. thread'.status = "active" /\ thread'.turn = f /\ ~thread'.archived
      BY <3>3 DEF RowOf
    <3>5. Agrees' /\ RowInv'
      BY <1>0, <2>2, <3>1, <3>2, <3>4 DEF Agrees, RowInv, RunsHere, AtRest
    <3>. QED BY <2>2, <3>4, <3>5 DEF TurnInv, InStep
  <2>. QED BY <2>3, <2>4, <2>5
<1>17. CASE \E f \in Foreign : ForeignEnds(f)
  <2>1. PICK f \in Foreign : ForeignEnds(f)
    BY <1>17
  <2>2. PICK event \in {"run.succeeded", "run.failed"} :
          Settle(thread, event, f, FALSE, FALSE, "elsewhere")
    BY <2>1 DEF ForeignEnds
  <2>3. up /\ hand.step = "none" /\ UNCHANGED <<up, open, driver, excused>>
    BY <1>1, <2>1 DEF ForeignEnds, log, engine, history
  <2>4. /\ hand'.step \in {"none", "drain"} /\ thread' = Moved(thread, event, f)
    <3>1. event \in Settles /\ f \in Nat \cup Foreign
      BY DEF Settles
    <3>. QED BY <1>0, <2>2, <2>3, <3>1, SettleHand
  <2>5. CASE "crossed" \in excused
    BY <2>3, <2>5 DEF TurnInv
  <2>6. CASE ~Applies(thread, event, f)
    BY <2>3, <2>4, <2>6, TurnQuiet DEF Moved
  <2>7. CASE Applies(thread, event, f) /\ "crossed" \notin excused
    <3>1. thread.turn = f /\ thread.status \in Running
      BY <1>0, <2>7, AppliesFacts
    <3>2. driver = NoDriver /\ open = {}
      BY <1>0, <2>3, <2>7, <3>1, WorkFacts DEF RunsHere
    <3>3. AtRest(thread'.status) /\ thread'.turn = NoTurn
      BY <1>0, <2>4, <3>1, MovedFacts DEF RowOf, AtRest
    <3>. QED BY <2>3, <2>4, <3>2, <3>3, TurnRests
  <2>. QED BY <2>5, <2>6, <2>7
<1>18. CASE \E m \in Dispatched : ForeignRequest(m)
  BY <1>1, <1>18, TurnQuiet DEF ForeignRequest, row, log, engine, history
<1>19. CASE TellWaiter \/ ClearDead
  BY <1>19, IdleFacts, TurnQuiet DEF TellWaiter, ClearDead, InHand, row, log, engine, history
<1>20. CASE Crash
  <2>1. ~up' /\ driver' = NoDriver /\ UNCHANGED <<thread, open>> /\ excused \subseteq excused'
    BY <1>20 DEF Crash, row, log
  <2>. QED BY <2>1 DEF TurnInv, RowInv, RunsHere
<1>21. CASE Boot
  <2>1. ~up /\ hand'.step = "recover" /\ UNCHANGED <<thread, open, driver, excused>>
    BY <1>21, RestartHand DEF Boot, log, engine, history
  <2>. QED BY <1>0, <2>1 DEF TurnInv, RowInv, InStep, RunsHere
<1>22. CASE Recover
  <2>1. /\ up /\ hand.step = "recover" /\ UNCHANGED <<up, driver, excused>>
        /\ hand'.step = IF RunsHere THEN "clear" ELSE "none"
    BY <1>22, RestartHand DEF Recover, InHand, engine, history
  <2>2. CASE "crossed" \in excused
    BY <2>1, <2>2 DEF TurnInv
  <2>3. ASSUME "crossed" \notin excused PROVE TurnInv'
    <3>1. driver = NoDriver /\ RowInv /\ driver.phase = "none"
      BY <1>0, <2>1, <2>3 DEF TurnInv, InStep
    <3>2. CASE RunsHere
      <4>1. thread' = Moved(thread, "run.failed", thread.turn) /\ open' = open \ {thread.turn}
        BY <1>22, <3>2 DEF Recover
      <4>2. AtRest(thread'.status) /\ thread'.turn = NoTurn
        BY <1>0, <3>2, <4>1, MovedFacts DEF RowOf, AtRest, RunsHere
      <4>3. open' = {}
        BY <3>1, <4>1 DEF RowInv
      <4>. QED BY <2>1, <3>1, <3>2, <4>2, <4>3, TurnRests
    <3>3. CASE ~RunsHere
      <4>1. UNCHANGED <<thread, open>>
        BY <1>22, <3>3 DEF Recover
      <4>2. Agrees' /\ RowInv'
        BY <2>1, <3>1, <3>3, <4>1 DEF Agrees, RowInv, RunsHere
      <4>. QED BY <2>1, <3>1, <3>3, <4>2 DEF TurnInv, InStep
    <3>. QED BY <3>2, <3>3
  <2>. QED BY <2>2, <2>3
<1>23. CASE People
  BY <1>1, <1>3, <1>4, <1>5, <1>6, <1>23 DEF People, Interrupt
<1>24. CASE Service
  BY <1>4, <1>7, <1>8, <1>9, <1>19, <1>24 DEF Service, StopArchived, InHand
<1>25. CASE Provider
  <2>1. CASE DispatchFails
    BY <1>0, <1>11, <2>1 DEF DispatchFails
  <2>. QED BY <1>10, <1>13, <1>14, <1>25, <2>1 DEF Provider
<1>26. CASE Timers
  BY <1>11, <1>14, <1>15, <1>26 DEF Timers, Watchdog
<1>27. CASE Elsewhere
  BY <1>16, <1>17, <1>18, <1>27 DEF Elsewhere
<1>28. CASE Restart
  BY <1>19, <1>20, <1>21, <1>22, <1>28 DEF Restart
<1>. QED BY <1>2, <1>23, <1>24, <1>25, <1>26, <1>27, <1>28 DEF Next

\* The inductive invariant of the turns.
TurnsInv == CoreInv /\ PromptInv /\ TurnInv

LEMMA TurnsInductive == (Init => TurnsInv) /\ (TurnsInv /\ [Next]_vars => TurnsInv')
<1>1. ASSUME Init PROVE PromptInv /\ TurnInv
  <2>1. /\ up /\ hand.step = "none" /\ driver = NoDriver /\ driver.turn = 0
        /\ driver.phase = "none" /\ requested = <<>> /\ prompted = {} /\ open = {}
        /\ thread.status = "idle" /\ thread.turn = NoTurn /\ ~thread.archived
    BY <1>1, IdleFacts, DriverFacts DEF Init, NoTurn
  <2>. QED BY <2>1 DEF PromptInv, TurnInv, RowInv, InStep, Agrees, RunsHere, Running, AtRest
<1>. QED BY <1>1, CoreInit, CoreStep, PromptStep, TurnStep DEF TurnsInv

\* The row, the driver and the log never tell of different turns.
THEOREM OneTurnAtATime == Spec => []OneTurn
<1>1. Init => TurnsInv
  BY TurnsInductive
<1>2. TurnsInv /\ [Next]_vars => TurnsInv'
  BY TurnsInductive
<1>3. TurnsInv => OneTurn
  <2>. SUFFICES ASSUME TurnsInv, Quiet PROVE OneTurn
    BY DEF OneTurn
  <2>1. up /\ hand.step = "none" /\ "crossed" \notin excused /\ driver.phase \in Phases
    BY IdleFacts DEF Quiet, Waits, TurnsInv, CoreInv, TypeOK
  <2>. QED BY <2>1, WorkFacts DEF OneTurn, TurnsInv, Phases
<1>. QED BY <1>1, <1>2, <1>3, PTL DEF Spec

\* An archived thread runs no turn that was not told to stop.
THEOREM ArchiveStops == Spec => []ArchivedStops
<1>1. Init => TurnsInv
  BY TurnsInductive
<1>2. TurnsInv /\ [Next]_vars => TurnsInv'
  BY TurnsInductive
<1>3. TurnsInv => ArchivedStops
  BY IdleFacts DEF ArchivedStops, Quiet, Waits, TurnsInv, TurnInv, InStep
<1>. QED BY <1>1, <1>2, <1>3, PTL DEF Spec

-----------------------------------------------------------------------------
(* Approvals. *)

\* A step that leaves the cards, the driver and the log of requests alone.
LEMMA CardsQuiet ==
  ASSUME CardInv, up, up' = up, UNCHANGED <<cards, driver, requested>>,
         hand.step \notin {"answer", "recover", "clear"},
         hand'.step \notin {"answer", "dispatch", "recover", "clear"}, excused \subseteq excused'
  PROVE  CardInv'
BY DEF CardInv, CardNamed, CardHeard, CardOpen

LEMMA CardsRequest ==
  ASSUME CoreInv, CardInv, up, up' = up, hand.step \in {"none", "drain"},
         NEW m \in Messages, Request(m), UNCHANGED <<cards, driver, excused>>
  PROVE  CardInv'
<1>1. /\ requested \in Seq(Messages) /\ \A k \in Asks : cards[k].turn \in Nat
      /\ driver.turn \in Nat
  BY TypesAreNamed DEF CoreInv, TypesNamed, CardRecords, Drivers
<1>2. Len(requested) \in Nat /\ Len(requested') = Len(requested) + 1
  BY <1>1 DEF Request
<1>3. "dispatch" \in Steps
  BY DEF Steps
<1>4. hand'.step = "dispatch" /\ hand'.turn = Len(requested) + 1
  BY <1>2, <1>3, HandFacts DEF Request
<1>5. \A k \in Asks : CardNamed(k)'
  BY <1>1, <1>2, <1>4 DEF CardInv, CardNamed
<1>6. \A k \in Asks : CardHeard(k)' /\ CardOpen(k)'
  BY <1>4 DEF CardInv, CardHeard, CardOpen
<1>. QED BY <1>4, <1>5, <1>6 DEF CardInv

\* A step that interrupts what is open and lets the driver's turn go, stop or be.
LEMMA CardsCleared ==
  ASSUME CoreInv, CardInv, up, up' = up, hand.step # "answer", cards' = Cleared(cards),
         driver' \in {driver, NoDriver} \/ (driver'.turn = driver.turn /\ driver'.phase = "stopping"),
         requested' = requested, hand'.step \in {"none", "drain"}
  PROVE  CardInv'
<1>1. NoDriver.phase = "none" /\ NoDriver.turn = NoTurn /\ driver.turn \in Nat
  BY DriverFacts, TypesAreNamed DEF CoreInv, TypesNamed, Drivers
<1>2. ASSUME NEW k \in Asks
      PROVE  /\ cards'[k].turn = cards[k].turn /\ ~cards'[k].waiter
             /\ cards'[k].status # "pending"
             /\ cards'[k].status = "none" <=> cards[k].status = "none"
             /\ cards'[k].status = "resolved" =>
                  cards[k].status = "resolved" /\ (~cards[k].waiter => cards'[k].told = cards[k].told)
  BY DEF Cleared
<1>3. ASSUME NEW k \in Asks PROVE CardNamed(k)'
  BY <1>1, <1>2 DEF CardInv, CardNamed, NoTurn
<1>4. ASSUME NEW k \in Asks PROVE CardHeard(k)'
  BY <1>1, <1>2 DEF CardInv, CardNamed, CardHeard
<1>5. ASSUME NEW k \in Asks PROVE CardOpen(k)'
  BY <1>2 DEF CardOpen
<1>. QED BY <1>3, <1>4, <1>5 DEF CardInv

\* One card changes, between handlers.
LEMMA CardsOne ==
  ASSUME CardInv, CoreInv, Waits, NEW k \in Asks, NEW c \in CardRecords, cards' = WithCard(k, c),
         UNCHANGED <<up, driver, requested, hand, excused>>,
         c.turn <= Len(requested), c.status # "none", c.turn # NoTurn,
         driver.phase # "dispatched" \/ c.turn = cards[k].turn,
         c.status = "pending" => c.waiter /\ driver.phase = "started" /\ c.turn = driver.turn,
         c.status = "resolved" => ~c.waiter /\ c.told = "answer"
  PROVE  CardInv'
<1>1. hand.step = "none" /\ up
  BY IdleFacts DEF Waits
<1>2. cards'[k] = c /\ \A a \in Asks \ {k} : cards'[a] = cards[a]
  BY DEF WithCard
<1>3. CardNamed(k)' /\ CardHeard(k)' /\ CardOpen(k)'
  BY <1>1, <1>2 DEF CardInv, CardNamed, CardHeard, CardOpen
<1>4. \A a \in Asks \ {k} : CardNamed(a)' /\ CardHeard(a)' /\ CardOpen(a)'
  BY <1>1, <1>2 DEF CardInv, CardNamed, CardHeard, CardOpen
<1>. QED BY <1>1, <1>3, <1>4 DEF CardInv

LEMMA AskCards ==
  ASSUME CoreInv, PromptInv, CardInv, NEW k \in Asks, Ask(k) \/ AskLapses(k)
  PROVE  CardInv'
<1>1. /\ Waits /\ UNCHANGED <<up, driver, requested, hand, excused>>
      /\ cards[k] \in CardRecords /\ driver.turn \in Nat
  BY TypesAreNamed DEF Ask, AskLapses, CoreInv, TypesNamed, Drivers, log, engine, history
<1>2. cards[k].turn \in Nat /\ cards[k].turn <= Len(requested)
      /\ (cards[k].status # "none" => cards[k].turn # NoTurn)
  BY <1>1 DEF CardInv, CardNamed, CardRecords
<1>9. AskLapses(k) => cards[k].status # "none"
  BY DEF AskLapses, CardInv, CardNamed
<1>3. driver.turn <= Len(requested)
  BY DEF PromptInv
<1>4. CASE Ask(k) /\ cards[k].status = "none"
  <2> DEFINE c == Card(driver.turn, "pending", TRUE, "none")
  <2>1. cards' = WithCard(k, c) /\ driver.phase = "started"
    BY <1>4 DEF Ask
  <2>2. driver.turn # NoTurn
    BY <2>1, DriverFacts DEF CoreInv, TurnsNamed, LocalTurns, NoTurn
  <2>3. /\ c \in CardRecords /\ c.turn = driver.turn /\ c.status = "pending" /\ c.waiter
    BY <1>1, CardFacts DEF Card
  <2> HIDE DEF c
  <2>. QED BY <1>1, <1>3, <2>1, <2>2, <2>3, CardsOne
<1>5. CASE cards[k].status # "none" /\ cards' = WithCard(k, Card(cards[k].turn, "interrupted", FALSE, "deny"))
  <2> DEFINE c == Card(cards[k].turn, "interrupted", FALSE, "deny")
  <2>1. cards' = WithCard(k, c)
    BY <1>5
  <2>2. /\ c \in CardRecords /\ c.turn = cards[k].turn /\ c.status = "interrupted"
    BY <1>2, CardFacts DEF Card
  <2> HIDE DEF c
  <2>. QED BY <1>1, <1>2, <1>5, <2>1, <2>2, CardsOne
<1>6. CASE cards[k].status # "none" /\ cards' = WithCard(k, Card(cards[k].turn, "resolved", FALSE, "answer"))
  <2> DEFINE c == Card(cards[k].turn, "resolved", FALSE, "answer")
  <2>1. cards' = WithCard(k, c)
    BY <1>6
  <2>2. /\ c \in CardRecords /\ c.turn = cards[k].turn /\ c.status = "resolved"
        /\ ~c.waiter /\ c.told = "answer"
    BY <1>2, CardFacts DEF Card
  <2> HIDE DEF c
  <2>. QED BY <1>1, <1>2, <1>6, <2>1, <2>2, CardsOne
<1>7. CASE Ask(k)
  BY <1>4, <1>5, <1>6, <1>7 DEF Ask
<1>8. CASE AskLapses(k)
  BY <1>5, <1>8, <1>9 DEF AskLapses
<1>. QED BY <1>7, <1>8

LEMMA AnswerCards ==
  ASSUME CoreInv, CardInv, NEW k \in Asks, Answer(k)
  PROVE  CardInv'
<1>1. /\ up /\ hand.step = "none" /\ UNCHANGED <<up, driver, requested, excused>>
      /\ cards' = WithCard(k, Card(cards[k].turn, "resolved", cards[k].waiter, cards[k].told))
      /\ cards[k].status = "pending"
  BY IdleFacts DEF Answer, Waits, log, engine, history
<1>2. hand'.step = "answer" /\ hand'.ask = k
  BY DEF Answer, Hand
<1>3. /\ cards'[k].turn = cards[k].turn /\ cards'[k].status = "resolved"
      /\ cards'[k].waiter = cards[k].waiter /\ cards'[k].told = cards[k].told
      /\ \A a \in Asks \ {k} : cards'[a] = cards[a]
  BY <1>1 DEF WithCard, Card
<1>4. CardNamed(k)' /\ CardHeard(k)' /\ CardOpen(k)'
  BY <1>1, <1>2, <1>3 DEF CardInv, CardNamed, CardHeard, CardOpen
<1>5. \A a \in Asks \ {k} : CardNamed(a)' /\ CardHeard(a)' /\ CardOpen(a)'
  BY <1>1, <1>2, <1>3 DEF CardInv, CardNamed, CardHeard, CardOpen
<1>. QED BY <1>1, <1>2, <1>3, <1>4, <1>5 DEF CardInv

LEMMA TellCards ==
  ASSUME CoreInv, CardInv, TellWaiter
  PROVE  CardInv'
<1>1. /\ up /\ hand.step = "answer" /\ UNCHANGED <<up, driver, requested, excused>>
      /\ hand'.step = "none"
  BY IdleFacts DEF TellWaiter, InHand, log, engine, history
<1>2. PICK k \in Asks : k = hand.ask /\ cards[k].status = "resolved"
  BY <1>1 DEF CardInv
<1>3. /\ cards'[k].turn = cards[k].turn /\ cards'[k].status = "resolved" /\ ~cards'[k].waiter
      /\ cards'[k].told = IF cards[k].waiter THEN "answer" ELSE cards[k].told
      /\ \A a \in Asks \ {k} : cards'[a] = cards[a]
  BY <1>2 DEF TellWaiter, WithCard, Card
<1>4. CardNamed(k)' /\ CardOpen(k)'
  BY <1>1, <1>2, <1>3 DEF CardInv, CardNamed, CardOpen
<1>5. CardHeard(k)'
  BY <1>1, <1>2, <1>3 DEF CardInv, CardHeard
<1>6. \A a \in Asks \ {k} : CardNamed(a)' /\ CardHeard(a)' /\ CardOpen(a)'
  BY <1>1, <1>2, <1>3 DEF CardInv, CardNamed, CardHeard, CardOpen
<1>. QED BY <1>1, <1>4, <1>5, <1>6 DEF CardInv

\* While the driver's turn is started, the row runs it, whatever is in hand.
LEMMA StartedRuns ==
  ASSUME CoreInv, TurnInv, "crossed" \notin excused, up, driver.phase = "started",
         hand.step \notin {"recover", "clear"}
  PROVE  RunsHere
<1>1. hand.step \in Steps /\ NoDriver.phase = "none"
  BY TypesAreNamed, DriverFacts DEF CoreInv, TypesNamed, Hands
<1>2. CASE hand.step \in {"none", "stop", "drain", "answer"}
  <2>1. driver # NoDriver
    BY <1>1
  <2>. QED BY <1>2, <2>1 DEF TurnInv, InStep, Agrees
<1>3. CASE hand.step = "interrupt"
  BY <1>3 DEF TurnInv, InStep, Stopping, RunsHere, Running
<1>4. CASE hand.step = "dispatch"
  BY <1>1, <1>4 DEF TurnInv, InStep
<1>. QED BY <1>1, <1>2, <1>3, <1>4 DEF Steps

LEMMA CrashCards ==
  ASSUME CoreInv, TurnInv, CardInv, Crash
  PROVE  CardInv'
<1>1. /\ up /\ ~up' /\ hand'.step = "none" /\ driver' = NoDriver /\ driver'.phase = "none"
      /\ UNCHANGED <<thread, requested>>
      /\ excused' = IF hand.step = "clear" THEN excused \cup {"cut"} ELSE excused
  BY IdleFacts, DriverFacts DEF Crash, row, log
<1>2. ASSUME NEW k \in Asks
      PROVE  /\ cards'[k].turn = cards[k].turn /\ cards'[k].status = cards[k].status
             /\ ~cards'[k].waiter
  BY DEF Crash, Card
<1>3. ASSUME NEW k \in Asks PROVE CardNamed(k)' /\ CardHeard(k)'
  BY <1>1, <1>2, <1>3 DEF CardInv, CardNamed, CardHeard
<1>4. ASSUME NEW k \in Asks PROVE CardOpen(k)'
  <2>1. CASE hand.step = "clear"
    BY <1>1, <2>1 DEF CardOpen
  <2>2. CASE hand.step # "clear"
    <3>1. RunsHere' <=> RunsHere
      BY <1>1 DEF RunsHere
    <3>2. /\ "crossed" \notin excused /\ "cut" \notin excused /\ cards[k].status = "pending"
             => RunsHere
      BY <1>1, <2>2, StartedRuns DEF CardInv, CardOpen
    <3>. QED BY <1>1, <1>2, <2>2, <3>1, <3>2 DEF CardOpen
  <2>. QED BY <2>1, <2>2
<1>. QED BY <1>1, <1>3, <1>4 DEF CardInv

LEMMA BootCards ==
  ASSUME CoreInv, CardInv, Boot
  PROVE  CardInv'
<1>1. /\ ~up /\ up' /\ hand.step = "none" /\ hand'.step = "recover"
      /\ UNCHANGED <<thread, requested, cards, driver, excused>>
      /\ driver.turn = NoTurn /\ driver.phase = "none"
  BY RestartHand, IdleFacts, DriverFacts
  DEF Boot, log, engine, history, CoreInv, DownIsIdle, CardInv
<1>2. RunsHere' <=> RunsHere
  BY <1>1 DEF RunsHere
<1>3. ASSUME NEW k \in Asks PROVE CardNamed(k)' /\ CardHeard(k)' /\ CardOpen(k)'
  BY <1>1, <1>2 DEF CardInv, CardNamed, CardHeard, CardOpen
<1>. QED BY <1>1, <1>3 DEF CardInv

LEMMA RecoverCards ==
  ASSUME CoreInv, CardInv, Recover
  PROVE  CardInv'
<1>1. /\ up /\ up' /\ hand.step = "recover"
      /\ hand'.step = IF RunsHere THEN "clear" ELSE "none"
      /\ UNCHANGED <<requested, cards, driver, excused>>
  BY RestartHand DEF Recover, InHand, engine, history
<1>2. ASSUME NEW k \in Asks PROVE CardNamed(k)' /\ CardHeard(k)' /\ CardOpen(k)'
  BY <1>1 DEF CardInv, CardNamed, CardHeard, CardOpen
<1>. QED BY <1>1, <1>2 DEF CardInv

LEMMA EndTurnCards ==
  ASSUME CoreInv, CardInv, Waits, NEW r \in Rows, NEW t \in Nat,
         NEW event \in {"run.succeeded", "run.failed"}, NEW holds \in BOOLEAN,
         EndTurn(r, t, event, holds)
  PROVE  CardInv'
<1>1. /\ up /\ hand.step = "none" /\ hand'.step \in {"none", "drain"} /\ up' = up
      /\ driver' = NoDriver /\ requested' = requested /\ cards' = Cleared(cards)
  BY IdleFacts, EndTurnHand DEF Waits, EndTurn
<1>. QED BY <1>1, CardsCleared

LEMMA AskDriverCards ==
  ASSUME CoreInv, CardInv, AskDriver
  PROVE  CardInv'
<1>1. /\ up /\ hand.step = "interrupt" /\ UNCHANGED <<up, requested, excused>>
      /\ thread \in Rows /\ hand.turn \in Nat \cup Foreign /\ NoDriver.phase = "none"
  BY TypesAreNamed, DriverFacts
  DEF AskDriver, InHand, log, history, CoreInv, TypesNamed, Hands
<1>2. hand'.step \in {"none", "drain"}
  <2>1. CASE Settle(thread, "stop.settled", hand.turn, TRUE, FALSE, "settled")
    BY <1>1, <2>1, SettleHand DEF Settles
  <2>2. CASE hand' = Idle
    BY <2>2, IdleFacts
  <2>. QED BY <2>1, <2>2 DEF AskDriver
<1>3. CASE driver = NoDriver
  <2>1. UNCHANGED <<cards, driver>>
    BY <1>1, <1>3 DEF AskDriver
  <2>. QED BY <1>1, <1>2, <2>1, CardsQuiet
<1>4. CASE driver.phase \in {"none", "dispatched"} /\ driver # NoDriver
  <2>1. cards' = Cleared(cards) /\ driver' = NoDriver
    BY <1>4 DEF AskDriver
  <2>. QED BY <1>1, <1>2, <2>1, CardsCleared
<1>5. CASE driver.phase = "started"
  <2>1. /\ cards' = Cleared(cards)
        /\ driver' = [turn |-> driver.turn, phase |-> "stopping"]
    BY <1>5 DEF AskDriver
  <2>2. driver'.turn = driver.turn /\ driver'.phase = "stopping"
    BY <2>1
  <2>. QED BY <1>1, <1>2, <2>1, <2>2, CardsCleared
<1>6. CASE driver.phase = "stopping"
  <2>1. UNCHANGED <<cards, driver>>
    BY <1>6 DEF AskDriver
  <2>. QED BY <1>1, <1>2, <2>1, CardsQuiet
<1>. QED BY <1>3, <1>4, <1>5, <1>6 DEF AskDriver

LEMMA StartCards ==
  ASSUME CoreInv, PromptInv, CardInv, StartTurn \/ TurnStarted
  PROVE  CardInv'
<1>0. NoDriver.phase = "none" /\ NoDriver.turn = NoTurn
  BY DriverFacts
<1>1. CASE StartTurn
  <2>1. /\ up /\ hand.step = "dispatch" /\ hand'.step = "none"
        /\ UNCHANGED <<up, requested, cards, excused>>
    BY <1>1, IdleFacts DEF StartTurn, InHand, log, history
  <2>2. CASE driver' = driver
    BY <2>1, <2>2, CardsQuiet
  <2>3. CASE driver = NoDriver /\ driver' = [turn |-> hand.turn, phase |-> "dispatched"]
    <3>1. driver.phase = "none" /\ driver'.turn = hand.turn /\ driver'.phase = "dispatched"
      BY <1>0, <2>3
    <3>2. ASSUME NEW k \in Asks PROVE CardNamed(k)' /\ CardHeard(k)' /\ CardOpen(k)'
      BY <2>1, <3>1 DEF CardInv, CardNamed, CardHeard, CardOpen
    <3>. QED BY <2>1, <3>2 DEF CardInv
  <2>. QED BY <1>1, <2>2, <2>3 DEF StartTurn
<1>2. CASE TurnStarted
  <2>1. /\ up /\ hand.step = "none" /\ UNCHANGED <<up, hand, requested, cards, excused>>
        /\ driver.phase = "dispatched"
        /\ driver'.turn = driver.turn /\ driver'.phase = "started"
    BY <1>2, IdleFacts DEF TurnStarted, Waits, history
  <2>2. ASSUME NEW k \in Asks PROVE CardNamed(k)' /\ CardHeard(k)' /\ CardOpen(k)'
    BY <2>1 DEF CardInv, CardNamed, CardHeard, CardOpen
  <2>. QED BY <2>1, <2>2 DEF CardInv
<1>. QED BY <1>1, <1>2

LEMMA CardStep == TurnsInv /\ CardInv /\ [Next]_vars => CardInv'
<1>. SUFFICES ASSUME CoreInv, PromptInv, TurnInv, CardInv, [Next]_vars PROVE CardInv'
  BY DEF TurnsInv
<1>0. /\ TypesNamed /\ thread \in Rows /\ driver.turn \in Nat
  BY TypesAreNamed DEF CoreInv, TypesNamed, Drivers
<1>1. Waits => up /\ hand.step = "none"
  BY IdleFacts DEF Waits
<1>2. CASE UNCHANGED vars
  BY <1>2 DEF vars, row, log, engine, history, CardInv, CardNamed, CardHeard, CardOpen, RunsHere
<1>3. CASE \E m \in Messages : Send(m) \/ AcceptDispatch(m)
  <2>1. PICK m \in Messages : Send(m) \/ AcceptDispatch(m)
    BY <1>3
  <2>2. /\ up /\ hand.step = "none" /\ up' = up /\ UNCHANGED <<driver, excused>> /\ cards' = cards
        /\ \/ hand' = hand /\ UNCHANGED <<thread, requested>>
           \/ hand'.step = "drain" /\ UNCHANGED <<thread, requested>>
           \/ Request(m)
    BY <2>1, TakeFacts DEF Send, AcceptDispatch, Take
  <2>3. CASE Request(m)
    BY <2>2, <2>3, CardsRequest
  <2>. QED BY <2>2, <2>3, CardsQuiet
<1>4. ASSUME RequestStop, up, hand.step \in {"none", "stop"} PROVE CardInv'
  BY <1>4, RequestStopHand, CardsQuiet DEF RequestStop, log, engine, history
<1>5. CASE Archive
  BY <1>1, <1>5, RestartHand, CardsQuiet DEF Archive, log, engine, history
<1>6. CASE Drain
  <2>1. hand.msg \in Messages /\ up /\ hand.step = "drain" /\ UNCHANGED <<up, cards, driver, excused>>
    BY <1>6, DrainFacts DEF Drain, engine, history, InHand
  <2>2. CASE Request(hand.msg)
    BY <2>1, <2>2, CardsRequest
  <2>3. CASE hand' = Idle /\ UNCHANGED requested
    BY <2>1, <2>3, IdleFacts, CardsQuiet
  <2>. QED BY <1>6, <2>2, <2>3 DEF Drain
<1>7. ASSUME NEW holds \in BOOLEAN, Waits, FailTurn(holds) PROVE CardInv'
  <2>1. Moved(thread, "run.started", driver.turn) \in Rows
    BY <1>0, MovedTyped
  <2>2. PICK r \in Rows : EndTurn(r, driver.turn, "run.failed", holds)
    BY <1>0, <1>7, <2>1 DEF FailTurn
  <2>. QED BY <1>0, <1>7, <2>2, EndTurnCards
<1>8. CASE \E t \in prompted : Reports(t) \/ FallsSilent(t)
  <2>1. PICK t \in prompted : Reports(t) \/ FallsSilent(t)
    BY <1>8
  <2>2. Waits /\ t \in Nat
    BY <1>0, <2>1 DEF Reports, FallsSilent, TypesNamed, LocalTurns
  <2>3. CASE \E event \in {"run.succeeded", "run.failed"} : \E holds \in BOOLEAN :
               EndTurn(thread, t, event, holds)
    BY <1>0, <2>2, <2>3, EndTurnCards
  <2>4. CASE UNCHANGED <<up, row, log, abroad, cards, driver, hand, history, why>>
    BY <1>1, <2>2, <2>4, CardsQuiet DEF log, history
  <2>. QED BY <2>1, <2>3, <2>4 DEF Reports, FallsSilent
<1>9. CASE GraceEnds
  BY <1>0, <1>9, EndTurnCards DEF GraceEnds
<1>10. CASE \E f \in Foreign : ForeignStarts(f) \/ ForeignEnds(f)
  <2>1. PICK f \in Foreign : ForeignStarts(f) \/ ForeignEnds(f)
    BY <1>10
  <2>2. CASE ForeignStarts(f)
    BY <1>1, <2>2, CardsQuiet DEF ForeignStarts, log, engine
  <2>3. CASE ForeignEnds(f)
    <3>1. PICK event \in Settles : Settle(thread, event, f, FALSE, FALSE, "elsewhere")
      BY <2>3 DEF ForeignEnds, Settles
    <3>2. up /\ hand.step = "none" /\ UNCHANGED <<up, requested, driver, cards, excused>>
      BY <1>1, <2>3 DEF ForeignEnds, log, engine, history
    <3>3. hand'.step \in {"none", "drain"}
      BY <1>0, <3>1, <3>2, SettleHand
    <3>. QED BY <3>2, <3>3, CardsQuiet
  <2>. QED BY <2>1, <2>2, <2>3
<1>11. CASE \E m \in Dispatched : ForeignRequest(m)
  BY <1>1, <1>11, CardsQuiet DEF ForeignRequest, log, engine, history
<1>12. CASE ClearDead
  <2>1. /\ up /\ hand.step = "clear" /\ hand'.step = "none" /\ cards' = Cleared(cards)
        /\ UNCHANGED <<up, driver, requested>>
    BY <1>12, IdleFacts DEF ClearDead, InHand, log, engine
  <2>. QED BY <2>1, CardsCleared
<1>13. CASE People
  BY <1>1, <1>3, <1>4, <1>5, <1>13, AnswerCards DEF People, Interrupt
<1>14. CASE Service
  BY <1>4, <1>6, <1>14, AskDriverCards, StartCards, TellCards DEF Service, StopArchived, InHand
<1>15. CASE Provider
  BY <1>7, <1>8, <1>15, StartCards, AskCards DEF Provider, DispatchFails
<1>16. CASE Timers
  BY <1>7, <1>9, <1>16, AskCards DEF Timers, Watchdog
<1>17. CASE Elsewhere
  BY <1>10, <1>11, <1>17 DEF Elsewhere
<1>18. CASE Restart
  BY <1>12, <1>18, CrashCards, BootCards, RecoverCards DEF Restart
<1>. QED BY <1>2, <1>13, <1>14, <1>15, <1>16, <1>17, <1>18 DEF Next

\* No card is left open by what ended its turn, and no decision fails to reach the turn that asked.
THEOREM CardsHeard == Spec => []CardsAreHeard
<1>1. Init => TurnsInv /\ CardInv
  <2>1. ASSUME Init PROVE CardInv
    <3>1. /\ up /\ hand.step = "none" /\ driver.phase = "none" /\ requested = <<>>
          /\ \A k \in Asks : cards[k] = NewCard
      BY <2>1, IdleFacts, DriverFacts DEF Init
    <3>2. NewCard.turn = 0 /\ NewCard.status = "none" /\ ~NewCard.waiter
      BY DEF NewCard, Card, NoTurn
    <3>. QED BY <3>1, <3>2 DEF CardInv, CardNamed, CardHeard, CardOpen
  <2>. QED BY <2>1, TurnsInductive
<1>2. TurnsInv /\ CardInv /\ [Next]_vars => TurnsInv' /\ CardInv'
  BY TurnsInductive, CardStep
<1>3. CardInv => CardsAreHeard
  BY IdleFacts DEF CardInv, CardHeard, CardOpen, CardsAreHeard, Quiet, Waits
<1>. QED BY <1>1, <1>2, <1>3, PTL DEF Spec
=============================================================================
