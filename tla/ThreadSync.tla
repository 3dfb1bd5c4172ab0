------------------------------ MODULE ThreadSync ------------------------------
(***************************************************************************)
(* Thread sync: the installs of one account and the account's log.         *)
(*                                                                         *)
(* Each install keeps its own event table, a queue of the events the log   *)
(* has not acknowledged (sync_outbox), and one row of positions            *)
(* (sync_state).  A single-flight pass drains the queue, then pulls the    *)
(* log past the cursor.  A pass belongs to the session it started under:   *)
(* it asks the fence after every await, because a sign-in meanwhile        *)
(* renumbers the queue and rewinds the cursor.                             *)
(*                                                                         *)
(* Code: apps/cli/src/server/cloud/sync-pass.ts, sync-runtime.ts and       *)
(* outbox.ts, packages/db/src/sync-outbox.ts and events.ts, and            *)
(* packages/contract/src/cloud/sync/sync-session.ts and plan-page.ts.      *)
(*                                                                         *)
(* Threads are left out: an install's table is the table of one thread,    *)
(* and since the rows of a page may belong to any threads, a group the     *)
(* planner applies in one transaction may end after any of its rows.       *)
(*                                                                         *)
(* A definition marked "Faulty" is no part of the specification: see       *)
(* AccountLog.                                                             *)
(***************************************************************************)
EXTENDS Integers, FiniteSets

CONSTANTS
  Installs,             \* copies of the app, each with a database of its own
  Kinds,                \* the kinds of event the installs write: see Event
  Builds,               \* versions of the app: "newer" events need build 2
  PushMax,              \* entries in one push (PUSH_MAX_EVENTS)
  PullLimit,            \* rows in one page (PULL_DEFAULT_LIMIT)
  MaxRounds,            \* pushes, and pages, in one pass
  CredentialWriteFails, \* whether keeping a new credential may fail or be cut off
  MaxEvents,            \* bound: events the installs write
  MaxDevices,           \* bound: sign-ins of the account
  MaxAccidents,         \* bound: restarts, revocations, lost answers and failed writes
  MaxVerified           \* bound: pushes between the Worker and the object

ASSUME ThreadSyncAssumption ==
  /\ PushMax \in Nat \ {0} /\ PullLimit \in Nat \ {0} /\ MaxRounds \in Nat \ {0}
  /\ MaxEvents \in Nat /\ MaxDevices \in Nat /\ MaxAccidents \in Nat /\ MaxVerified \in Nat
  /\ Builds \subseteq Nat \ {0}
  /\ Kinds \subseteq {"plain", "content", "newer", "oversize"}
  /\ CredentialWriteFails \in BOOLEAN
  /\ IsFiniteSet(Installs)

DeviceIds == 1 .. MaxDevices

\* An event names its install and its number there.  The content of a turn needs the event that
\* starts the turn, and no other event needs one; a "newer" event is one that only build 2 reads,
\* and an "oversize" one is refused by the contract before it is pushed.
Event == [by : Installs, n : 1 .. MaxEvents, kind : Kinds, needs : 0 .. MaxEvents]

VARIABLES
  rows, lastSeq, deleting, purged, minted, valid, verified, \* the cloud: AccountLog
  events,         \* per install: the event table, every row under its own seq
  outbox,         \* per install: sync_outbox, the events waiting to be pushed
  lastDeviceSeq,  \* per install: the last outbox position issued
  dropped,        \* per install: outbox rows deleted without reaching the log
  cursor,         \* per install: the log row the pull has seen
  skipped,        \* per install: the lowest row no build here could read, and that build
  ownDevices,     \* per install: every device id it ever signed in as
  credential,     \* per install: the credential file, as the device id in it, or 0
  build,          \* per install: the build that runs
  session,        \* per install: the sign-in in memory, and its fence id while it is live
  cadence,        \* per install: what is armed to start a pass: the poll, the debounce of an append
                  \* alone ("drain"), or nothing
  pass,           \* per install: where its sync pass stands
  accidents,      \* bound: how many of them there were
  issued          \* history: every event queued, under its device and position

cloudVars == <<rows, lastSeq, deleting, purged, minted, valid, verified>>
queueVars == <<outbox, lastDeviceSeq, dropped, issued>>
pullVars  == <<events, cursor, skipped>>
signVars  == <<ownDevices, credential, build, session>>
vars      == <<cloudVars, queueVars, pullVars, signVars, cadence, pass, accidents>>

\* The account's log, in an account nobody deletes.
Cloud == INSTANCE AccountLog
           WITH Devices <- DeviceIds, Positions <- 1 .. MaxEvents, Bodies <- Event

-----------------------------------------------------------------------------
(* Types. *)

LocalRow == [seq : Nat \ {0}, device : DeviceIds \union {0}, pos : 0 .. MaxEvents, event : Event]
NothingSkipped == [seq |-> 0, build |-> 0]
NoAnswer       == [code |-> "none", pos |-> 0]
NoPass == [pc |-> "idle", session |-> 0, device |-> 0, own |-> {}, round |-> 0,
           batch |-> {}, through |-> 0, rejected |-> 0, answer |-> NoAnswer,
           page |-> {}, more |-> FALSE]

Session == [kind : {"off", "live", "ended"}, id : 0 .. 2, device : DeviceIds \union {0}]
Answer  == [code : {"none", "ok", "outbox", "unauthorized", "account-deleted"}, pos : 0 .. MaxEvents]
Pass == [pc : {"idle", "push", "pushing", "pull", "applying"}, session : 0 .. 2,
         device : DeviceIds \union {0}, own : SUBSET DeviceIds, round : 0 .. MaxRounds,
         batch : SUBSET Cloud!Entry, through : 0 .. MaxEvents, rejected : Nat, answer : Answer,
         page : SUBSET Cloud!Row, more : BOOLEAN]

TypeOK ==
  /\ Cloud!TypeOK
  /\ events \in [Installs -> SUBSET LocalRow]
  /\ outbox \in [Installs -> SUBSET Cloud!Entry]
  /\ lastDeviceSeq \in [Installs -> 0 .. MaxEvents]
  /\ dropped \in [Installs -> Nat]
  /\ cursor \in [Installs -> Nat]
  /\ skipped \in [Installs -> [seq : Nat, build : Builds \union {0}]]
  /\ ownDevices \in [Installs -> SUBSET DeviceIds]
  /\ credential \in [Installs -> DeviceIds \union {0}]
  /\ build \in [Installs -> Builds]
  /\ session \in [Installs -> Session]
  /\ cadence \in [Installs -> {"poll", "drain", "none"}]
  /\ pass \in [Installs -> Pass]
  /\ accidents \in 0 .. MaxAccidents
  /\ issued \subseteq [device : DeviceIds, pos : 1 .. MaxEvents, event : Event]

Init ==
  /\ Cloud!Init
  /\ events = [i \in Installs |-> {}]
  /\ outbox = [i \in Installs |-> {}]
  /\ lastDeviceSeq = [i \in Installs |-> 0]
  /\ dropped = [i \in Installs |-> 0]
  /\ cursor = [i \in Installs |-> 0]
  /\ skipped = [i \in Installs |-> NothingSkipped]
  /\ ownDevices = [i \in Installs |-> {}]
  /\ credential = [i \in Installs |-> 0]
  /\ build \in [Installs -> Builds]
  /\ session = [i \in Installs |-> [kind |-> "off", id |-> 0, device |-> 0]]
  /\ cadence = [i \in Installs |-> "none"]
  /\ pass = [i \in Installs |-> NoPass]
  /\ accidents = 0
  /\ issued = {}

-----------------------------------------------------------------------------
(* The event table and the queue. *)

\* What goes wrong goes wrong finitely often.
Accident == accidents < MaxAccidents /\ accidents' = accidents + 1

Live(i) == session[i].kind = "live"

\* The process is single-threaded: between two awaits of its pass it does nothing else.  Only
\* "push" is no await: the pass reads the queue at once, as it starts and as it acks a batch.
AtAwait(i) == pass[i].pc # "push"

Reads(b, e) == e.kind = "newer" => b >= 2

\* A turn's content is refused by a table that does not hold the turn's start.
Started(held, e) == e.needs = 0 \/ \E f \in held : f.by = e.by /\ f.n = e.needs

Held(i) == {r.event : r \in events[i]}

\* How many events the installs have written.
Written == Cardinality(UNION {{r \in events[i] : r.device = 0} : i \in Installs})

\* Faulty: the next position is counted from what waits.
NextPositionFromQueue(i) == Cardinality(outbox[i]) + 1

NextPosition(i) == lastDeviceSeq[i] + 1

\* One local append and, in its transaction, the queue row of a signed-in install.
Append(i) ==
  \E kind \in Kinds, needs \in {0} \union {f.n : f \in Held(i)} :
    LET n == Cardinality({r \in events[i] : r.device = 0}) + 1
        e == [by |-> i, n |-> n, kind |-> kind, needs |-> needs]
        q == [pos |-> NextPosition(i), event |-> e]
    IN  /\ AtAwait(i)
        /\ Written < MaxEvents
        /\ Reads(build[i], e)
        /\ kind = "content" <=> needs # 0
        /\ kind = "content" => \E f \in Held(i) : f.by = i /\ f.n = needs /\ f.needs = 0
        /\ events' = [events EXCEPT ![i] = @ \union
             {[seq |-> Cardinality(@) + 1, device |-> 0, pos |-> 0, event |-> e]}]
        /\ \/ /\ Live(i)
              /\ outbox' = [outbox EXCEPT ![i] = @ \union {q}]
              /\ lastDeviceSeq' = [lastDeviceSeq EXCEPT ![i] = q.pos]
              /\ issued' = issued \union
                   {[device |-> session[i].device, pos |-> q.pos, event |-> e]}
              /\ cadence' = [cadence EXCEPT ![i] = IF @ = "none" THEN "drain" ELSE @]
           \/ /\ ~Live(i)
              /\ UNCHANGED <<outbox, lastDeviceSeq, issued, cadence>>
        /\ UNCHANGED <<cloudVars, dropped, cursor, skipped, signVars, pass, accidents>>

-----------------------------------------------------------------------------
(* Signing in and out. *)

\* Faulty: what waits is kept, for the next sign-in to push.
ResetKeepingQueue(i) ==
  /\ cursor' = [cursor EXCEPT ![i] = 0]
  /\ skipped' = [skipped EXCEPT ![i] = NothingSkipped]
  /\ UNCHANGED <<queueVars, events>>

\* The queue and the row of positions, as the baseline seeds them.
Reset(i) ==
  /\ outbox' = [outbox EXCEPT ![i] = {}]
  /\ lastDeviceSeq' = [lastDeviceSeq EXCEPT ![i] = 0]
  /\ dropped' = [dropped EXCEPT ![i] = 0]
  /\ cursor' = [cursor EXCEPT ![i] = 0]
  /\ skipped' = [skipped EXCEPT ![i] = NothingSkipped]
  /\ UNCHANGED <<events, issued>>

\* The code counts sessions up; all that matters is an id the running pass was not started under.
NewId(i) == IF pass[i].session = 1 THEN 2 ELSE 1

\* The device becomes one of this install's own before a session runs under it.
OpenSession(i, d) ==
  /\ ownDevices' = [ownDevices EXCEPT ![i] = @ \union {d}]
  /\ session' = [session EXCEPT ![i] = [kind |-> "live", id |-> NewId(i), device |-> d]]

Arms(i, what) == cadence' = [cadence EXCEPT ![i] = what]

\* A sign-in, over whatever was there: a pass still running meets the fence.
SignIn(i) ==
  \E d \in DeviceIds :
    /\ AtAwait(i)
    /\ d = Cardinality(minted) + 1
    /\ Cloud!SignIn(d)
    /\ Reset(i)
    /\ credential' = [credential EXCEPT ![i] = d]
    /\ OpenSession(i, d)
    /\ Arms(i, "poll")
    /\ UNCHANGED <<build, accidents, pass>>

\* A sign-in whose credential is not kept: the timers are stopped and the reset is committed, and
\* the file and the session are as they were.  A process that died between the two writes is this
\* and then a Restart.
SignInFails(i) ==
  /\ CredentialWriteFails
  /\ AtAwait(i)
  /\ Accident
  /\ \E d \in DeviceIds : d = Cardinality(minted) + 1 /\ Cloud!SignIn(d)
  /\ Reset(i)
  /\ Arms(i, "none")
  /\ UNCHANGED <<signVars, pass>>

SignOut(i) ==
  /\ AtAwait(i)
  /\ session' = [session EXCEPT ![i] = [kind |-> "off", id |-> 0, device |-> 0]]
  /\ credential' = [credential EXCEPT ![i] = 0]
  /\ Reset(i)
  /\ Arms(i, "none")
  /\ UNCHANGED <<cloudVars, ownDevices, build, accidents, pass>>

\* A sign-out cut off after the credential file went and before the reset.
SignOutCutOff(i) ==
  /\ session[i].kind # "off"
  /\ Accident
  /\ session' = [session EXCEPT ![i] = [kind |-> "off", id |-> 0, device |-> 0]]
  /\ credential' = [credential EXCEPT ![i] = 0]
  /\ pass' = [pass EXCEPT ![i] = NoPass]
  /\ Arms(i, "none")
  /\ UNCHANGED <<cloudVars, queueVars, pullVars, ownDevices, build>>

\* The process ends anywhere and starts again, perhaps as another build: the credential opens a
\* session, and another build pulls again from the first row the last one could not read.
Restart(i) ==
  /\ Accident
  /\ pass' = [pass EXCEPT ![i] = NoPass]
  /\ \E b \in Builds :
       LET rewinds == credential[i] # 0 /\ skipped[i].seq # 0 /\ skipped[i].build # b
       IN  /\ build' = [build EXCEPT ![i] = b]
           /\ cursor' = [cursor EXCEPT ![i] =
                IF rewinds /\ skipped[i].seq - 1 < @ THEN skipped[i].seq - 1 ELSE @]
           /\ skipped' = [skipped EXCEPT ![i] = IF rewinds THEN NothingSkipped ELSE @]
  /\ \/ credential[i] # 0 /\ OpenSession(i, credential[i]) /\ Arms(i, "poll")
     \/ /\ credential[i] = 0
        /\ Arms(i, "none")
        /\ session' = [session EXCEPT ![i] = [kind |-> "off", id |-> 0, device |-> 0]]
        /\ UNCHANGED ownDevices
  /\ UNCHANGED <<cloudVars, queueVars, events, credential>>

\* A device signed out or revoked elsewhere: its next request is refused.  Of a device no
\* install will ask under again, nothing reads whether it was.
Revoke(d) ==
  /\ \E i \in Installs : credential[i] = d
  /\ Accident
  /\ Cloud!Revoke(d)
  /\ UNCHANGED <<queueVars, pullVars, ownDevices, credential, build, session, cadence, pass>>

-----------------------------------------------------------------------------
(* The pass.  Each action runs from one await to the next. *)

\* Faulty: whatever session runs will do.
FenceOnLiveness(i) == Live(i)

\* The session the pass was started under still runs.
Fence(i) == Live(i) /\ session[i].id = pass[i].session

\* A pass starts on what is armed, or because somebody asks for one.
StartPass(i) ==
  /\ pass[i].pc = "idle"
  /\ Live(i)
  /\ pass' = [pass EXCEPT ![i] =
       [NoPass EXCEPT !.pc = "push", !.session = session[i].id,
                      !.device = session[i].device, !.own = ownDevices[i]]]
  /\ Arms(i, IF cadence[i] = "drain" THEN "none" ELSE cadence[i])
  /\ UNCHANGED <<cloudVars, queueVars, pullVars, signVars, accidents>>

\* The fence, wherever it is asked: a pass of an ended session writes nothing more.
PassFenced(i) ==
  /\ pass[i].pc # "idle"
  /\ ~Fence(i)
  /\ pass' = [pass EXCEPT ![i] = NoPass]
  /\ UNCHANGED <<cloudVars, queueVars, pullVars, signVars, cadence, accidents>>

\* Faulty: the refusal is only recorded.
EndPassOnly(i) ==
  /\ pass' = [pass EXCEPT ![i] = NoPass]
  /\ UNCHANGED <<cloudVars, queueVars, pullVars, signVars, cadence, accidents>>

\* A terminal refusal ends the session and, with it, the pass.
EndSession(i) ==
  /\ session' = [session EXCEPT ![i] = [@ EXCEPT !.kind = "ended", !.id = 0]]
  /\ pass' = [pass EXCEPT ![i] = NoPass]
  /\ Arms(i, "none")
  /\ UNCHANGED <<cloudVars, queueVars, pullVars, ownDevices, credential, build, accidents>>

\* The head of the queue, as far as one push carries.
Window(i) ==
  {q \in outbox[i] : Cardinality({p \in outbox[i] : p.pos <= q.pos}) <= PushMax}

\* What of it the contract lets into a push, and how many rows it leaves out.
Sendable(i) == {q \in Window(i) : q.event.kind # "oversize"}
Rejects(i)  == Cardinality(Window(i) \ Sendable(i))

\* Faulty: the position itself stays.
DeleteBefore(i, through, lost) ==
  /\ outbox' = [outbox EXCEPT ![i] = {q \in @ : q.pos >= through}]
  /\ dropped' = [dropped EXCEPT ![i] = @ + lost]
  /\ UNCHANGED <<lastDeviceSeq, issued>>

\* Deletes the queue through a position, counting the rows that never reached the log.
DeleteThrough(i, through, lost) ==
  /\ outbox' = [outbox EXCEPT ![i] = {q \in @ : q.pos > through}]
  /\ dropped' = [dropped EXCEPT ![i] = @ + lost]
  /\ UNCHANGED <<lastDeviceSeq, issued>>

Draining(i) == pass[i].pc = "push" /\ Fence(i) /\ pass[i].round < MaxRounds /\ outbox[i] # {}

PushReady(i) == Draining(i) /\ Sendable(i) # {}

\* The batch is read and sent, and the Worker verifies its device.
PushSend(i) ==
  /\ PushReady(i)
  /\ Cloud!Verify([device |-> pass[i].device, batch |-> Sendable(i)])
  /\ \E last \in Window(i) :
       /\ \A q \in Window(i) : q.pos <= last.pos
       /\ pass' = [pass EXCEPT ![i] =
            [@ EXCEPT !.pc = "pushing", !.batch = Sendable(i), !.through = last.pos,
                      !.rejected = Rejects(i)]]
  /\ UNCHANGED <<queueVars, pullVars, signVars, cadence, accidents>>

\* The object runs a push, and the pass that waits for it may hear the answer.
PushRuns(m) ==
  /\ \E answer \in Cloud!PushAnswers(m.device, m.batch) :
       pass' = [i \in Installs |->
         IF /\ pass[i].pc = "pushing" /\ pass[i].answer = NoAnswer
            /\ pass[i].device = m.device /\ pass[i].batch = m.batch
         THEN [pass[i] EXCEPT !.answer = answer]
         ELSE pass[i]]
  /\ Cloud!Push(m)
  /\ UNCHANGED <<queueVars, pullVars, signVars, cadence, accidents>>

\* The pass goes on under the session, the client and the ids it was started with.
CarryOn(i, pc, round) ==
  [NoPass EXCEPT !.pc = pc, !.session = pass[i].session, !.device = pass[i].device,
                 !.own = pass[i].own, !.round = round]

NextRound(i) == pass' = [pass EXCEPT ![i] = CarryOn(i, "push", pass[i].round + 1)]

PushAcked(i) ==
  /\ pass[i].pc = "pushing"
  /\ Fence(i)
  /\ pass[i].answer.code = "ok"
  /\ DeleteThrough(i, pass[i].through, pass[i].rejected)
  /\ NextRound(i)
  /\ UNCHANGED <<cloudVars, pullVars, signVars, cadence, accidents>>

\* The log refused the queue at a position: the queue through it is dropped and counted.
PushRefused(i) ==
  /\ pass[i].pc = "pushing"
  /\ Fence(i)
  /\ pass[i].answer.code = "outbox"
  /\ DeleteThrough(i, pass[i].answer.pos,
       Cardinality({q \in outbox[i] : q.pos <= pass[i].answer.pos}))
  /\ NextRound(i)
  /\ UNCHANGED <<cloudVars, pullVars, signVars, cadence, accidents>>

\* The Worker refuses the device.
PushUnauthorized(i) ==
  /\ PushReady(i)
  /\ pass[i].device \notin valid
  /\ EndSession(i)

\* A window the contract refuses whole is dropped without a push.
DropWindow(i) ==
  /\ Draining(i)
  /\ Sendable(i) = {}
  /\ \E last \in Window(i) :
       /\ \A q \in Window(i) : q.pos <= last.pos
       /\ DeleteThrough(i, last.pos, Rejects(i))
  /\ NextRound(i)
  /\ UNCHANGED <<cloudVars, pullVars, signVars, cadence, accidents>>

TurnToPull(i) == pass' = [pass EXCEPT ![i] = CarryOn(i, "pull", 0)]

\* The queue is empty, or this pass has pushed all it may.
DrainEnds(i) ==
  /\ pass[i].pc = "push"
  /\ Fence(i)
  /\ ~Draining(i)
  /\ TurnToPull(i)
  /\ UNCHANGED <<cloudVars, queueVars, pullVars, signVars, cadence, accidents>>

\* No answer came: the push may have run, may yet run, or was lost on the way.
PushUnreachable(i) ==
  /\ \/ PushReady(i)
     \/ pass[i].pc = "pushing" /\ Fence(i)
  /\ Accident
  /\ TurnToPull(i)
  /\ UNCHANGED <<cloudVars, queueVars, pullVars, signVars, cadence>>

PullPage(i) ==
  /\ pass[i].pc = "pull"
  /\ Fence(i)
  /\ pass[i].device \in valid
  /\ pass' = [pass EXCEPT ![i] =
       [@ EXCEPT !.pc = "applying", !.page = Cloud!Page(cursor[i], PullLimit),
                 !.more = Cloud!HasMore(cursor[i], PullLimit)]]
  /\ UNCHANGED <<cloudVars, queueVars, pullVars, signVars, cadence, accidents>>

PullUnauthorized(i) ==
  /\ pass[i].pc = "pull"
  /\ Fence(i)
  /\ pass[i].device \notin valid
  /\ EndSession(i)

\* No page came: the pass ends, and the next one asks again.
PullUnreachable(i) ==
  /\ pass[i].pc = "pull"
  /\ Fence(i)
  /\ Accident
  /\ pass' = [pass EXCEPT ![i] = NoPass]
  /\ UNCHANGED <<cloudVars, queueVars, pullVars, signVars, cadence>>

-----------------------------------------------------------------------------
(* Applying a page. *)

\* Faulty: only the current sign-in's rows are the install's own.
OwnNow(i, r) == r.device = pass[i].device

\* The planner's verdicts on a row.
Own(i, r)      == r.device \in pass[i].own
Unparsed(i, r) == ~Own(i, r) /\ ~Reads(build[i], r.event)
Applies(i, r)  == ~Own(i, r) /\ Reads(build[i], r.event)

StoredOrigin(i, r) == \E t \in events[i] : t.device = r.device /\ t.pos = r.pos

\* Of the rows read, those the table takes: not stored yet, and of a started turn.
Lands(i, read) ==
  LET candidates == {r \in read : Applies(i, r) /\ ~StoredOrigin(i, r)}
  IN  {r \in candidates :
         Started(Held(i) \union {s.event : s \in {c \in candidates : c.seq < r.seq}}, r.event)}

\* The rows of a page up to where a transaction may end: a run of skipped rows moves the cursor once.
CommitPoints(i) ==
  {r \in pass[i].page :
     Applies(i, r)
     \/ \A s \in pass[i].page :
          s.seq > r.seq => \E t \in pass[i].page :
            r.seq < t.seq /\ t.seq <= s.seq /\ Applies(i, t)}

\* Faulty: the last row no build here could read is the one to go back to.
LatestUnread(i, seq) == seq

\* The lowest such row is kept.
LowestUnread(i, seq) == IF skipped[i].seq \in 1 .. seq THEN skipped[i].seq ELSE seq

\* The page's rows through one, each transaction with its own move of the cursor.
ApplyThrough(i, last) ==
  LET read   == {r \in pass[i].page : r.seq <= last.seq}
      lands  == Lands(i, read)
      unread == {r \in read : Unparsed(i, r)}
  IN  /\ events' = [events EXCEPT ![i] = @ \union
           {[seq |-> Cardinality(@) + Cardinality({s \in lands : s.seq <= r.seq}),
             device |-> r.device, pos |-> r.pos, event |-> r.event] : r \in lands}]
      /\ cursor' = [cursor EXCEPT ![i] = last.seq]
      /\ \/ unread = {} /\ UNCHANGED skipped
         \/ \E u \in unread :
              /\ \A v \in unread : u.seq <= v.seq
              /\ skipped' = [skipped EXCEPT ![i] =
                   [seq |-> LowestUnread(i, u.seq), build |-> build[i]]]

\* The page lands whole; another follows while there is more and the pass may ask.
ApplyPage(i) ==
  /\ pass[i].pc = "applying"
  /\ Fence(i)
  /\ \E last \in pass[i].page :
       /\ \A r \in pass[i].page : r.seq <= last.seq
       /\ ApplyThrough(i, last)
  /\ pass' = [pass EXCEPT ![i] =
       IF @.more /\ @.round + 1 < MaxRounds THEN CarryOn(i, "pull", @.round + 1) ELSE NoPass]
  /\ UNCHANGED <<cloudVars, queueVars, signVars, cadence, accidents>>

\* One of the page's writes throws, and the pass ends with what was committed before it.
ApplyFails(i) ==
  /\ pass[i].pc = "applying"
  /\ Fence(i)
  /\ \E last \in CommitPoints(i) :
       /\ \E r \in pass[i].page : r.seq > last.seq
       /\ ApplyThrough(i, last)
  /\ Accident
  /\ pass' = [pass EXCEPT ![i] = NoPass]
  /\ UNCHANGED <<cloudVars, queueVars, signVars, cadence>>

PullCaughtUp(i) ==
  /\ pass[i].pc = "applying"
  /\ Fence(i)
  /\ pass[i].page = {}
  /\ pass' = [pass EXCEPT ![i] = NoPass]
  /\ UNCHANGED <<cloudVars, queueVars, pullVars, signVars, cadence, accidents>>

-----------------------------------------------------------------------------
\* What an install's pass does of itself.
PassMoves(i) ==
  \/ PassFenced(i)
  \/ PushSend(i) \/ PushAcked(i) \/ PushRefused(i) \/ PushUnauthorized(i)
  \/ DropWindow(i) \/ DrainEnds(i)
  \/ PullPage(i) \/ PullUnauthorized(i) \/ ApplyPage(i) \/ PullCaughtUp(i)

PassSteps(i) == StartPass(i) \/ PassMoves(i)

Next ==
  \/ \E i \in Installs :
       \/ Append(i)
       \/ SignIn(i) \/ SignInFails(i) \/ SignOut(i) \/ SignOutCutOff(i) \/ Restart(i)
       \/ PassSteps(i)
       \/ PushUnreachable(i) \/ PullUnreachable(i) \/ ApplyFails(i)
  \/ \E m \in verified : PushRuns(m)
  \/ \E d \in DeviceIds : Revoke(d)

Spec == Init /\ [][Next]_vars

\* What is armed starts a pass (sync-cadence.ts), and a pass goes on whenever it can; nobody need
\* ask for one.  The object runs what the Worker verified.  Answers are lost, but not for ever:
\* MaxAccidents bounds them.
Fairness ==
  /\ WF_vars(\E m \in verified : PushRuns(m))
  /\ \A i \in Installs : /\ WF_vars(cadence[i] # "none" /\ StartPass(i))
                         /\ WF_vars(PassMoves(i))

FairSpec == Spec /\ Fairness

-----------------------------------------------------------------------------
(* Properties. *)

InLog(q) == \E r \in rows : r.device = q.device /\ r.pos = q.pos /\ r.event = q.event

\* No install ever holds an event twice: not its own, pulled back from the log under the ids of
\* its earlier sign-ins, nor another's, however often a page is replayed after a lost answer, a
\* sign-in, a restart or a rewind.
NothingTwice ==
  \A i \in Installs : \A r, s \in events[i] : r.event = s.event => r = s

\* What an install holds of what the log holds before a row.
HeldBefore(i, r) ==
  {t.event : t \in {u \in events[i] :
                      \E s \in rows : s.device = u.device /\ s.pos = u.pos /\ s.seq < r.seq}}

\* The cursor is honest: a row the cursor of a signed-in install has passed is the install's own,
\* is in its table, is recorded for a build that can read it, or is content of a turn whose start
\* the install lacks, or the log holds only after it.
CursorHonest ==
  \A i \in Installs : \A r \in rows :
    Live(i) /\ r.seq <= cursor[i] =>
      \/ r.device \in ownDevices[i]
      \/ StoredOrigin(i, r)
      \/ ~Reads(build[i], r.event) /\ skipped[i].seq \in 1 .. r.seq
      \/ ~Started(HeldBefore(i, r), r.event)

\* Installs that have read the log to its end agree: under a build that reads all of it, an install
\* holds every event there, its own of any sign-in and the others', save content of a turn the log
\* has no start of before it.
EndOfLogIsHeld ==
  \A i \in Installs :
    Live(i) /\ (\A r \in rows : r.seq <= cursor[i] /\ Reads(build[i], r.event)) =>
      \A r \in rows : Started({s.event : s \in {t \in rows : t.seq < r.seq}}, r.event)
        => r.event \in Held(i)

\* A readable event the pull passed over is "a turn-content event whose turn/started never
\* arrived" (sync-pass.ts:163): no install holds the start of a turn whose content it gave up.
GivenUpNeverStarted ==
  \A i \in Installs : \A r \in rows :
    /\ Live(i) /\ r.seq <= cursor[i]
    /\ r.device \notin ownDevices[i] /\ ~StoredOrigin(i, r)
    /\ Reads(build[i], r.event)
    => ~Started(Held(i), r.event)

\* Nothing is lost silently: what a live install queued under its device either still waits or is
\* in the log, except exactly as many events as its status counts as dropped.
DroppedIsExact ==
  \A i \in Installs :
    Live(i) =>
      dropped[i] = Cardinality({q \in issued :
        /\ q.device = session[i].device
        /\ [pos |-> q.pos, event |-> q.event] \notin outbox[i]
        /\ ~InLog(q)})

\* The log holds only what an install queued, at the position it queued it under.
LogIsIssued == \A r \in rows : [device |-> r.device, pos |-> r.pos, event |-> r.event] \in issued

\* The queue is never at odds with the log: no position is pushed again with another body, and
\* none is pushed for the first time behind one already stored.
NeverAtOdds == \A i \in Installs : pass[i].answer.code # "outbox"

\* The log has the origin of one row of a table before that of another.
Before(s, t) ==
  \E x, y \in rows : /\ x.device = s.device /\ x.pos = s.pos
                     /\ y.device = t.device /\ y.pos = t.pos
                     /\ x.seq < y.seq

\* What another device wrote lands in the order it wrote it, save what an older build could not read
\* then, and the content of a turn whose start it could not read, or the log holds only after it.
LandsInOrder ==
  \A i \in Installs : \A r, s \in events[i] :
    /\ r.device = s.device /\ r.device # 0
    /\ r.pos < s.pos /\ s.seq < r.seq
    => \/ r.event.kind = "newer"
       \/ \E t \in events[i] : /\ t.event.by = r.event.by
                               /\ t.event.n = r.event.needs
                               /\ t.event.kind = "newer" \/ Before(r, t)

\* A position is issued once: under one device it never stands for two events.
PositionsIssuedOnce ==
  \A p, q \in issued : p.device = q.device /\ p.pos = q.pos => p.event = q.event

\* An install whose poll stays armed, signed in under a device nobody revokes, pushes all it queued
\* and pulls all the log holds, whatever was lost, refused or repeated before.  A sign-in whose
\* credential is not kept leaves the session before it with no poll (sync-runtime.ts:412), and that
\* one is promised nothing.
CaughtUp(i) == outbox[i] = {} /\ \A r \in rows : r.seq <= cursor[i]

Converges ==
  \A i \in Installs :
    <>[](Live(i) /\ session[i].device \in valid /\ cadence[i] = "poll") => <>[]CaughtUp(i)

\* A revoked device does not stay signed in: its next request ends the session, and while anything
\* is armed there is a next one.
RevocationEnds ==
  \A i \in Installs : \A d \in DeviceIds :
    (Live(i) /\ session[i].device = d /\ d \in minted \ valid)
      ~> (~(Live(i) /\ session[i].device = d) \/ cadence[i] = "none")
=============================================================================
