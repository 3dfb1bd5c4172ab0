# A verification project for inteligir

TLA+ models of the parts of inteligir where several processes, a lossy network
and restarts meet, model-checked with TLC. Most of their safety properties are
also proved with TLAPS for every value of the constants: of the cloud's log and
its inbox, of the installs, the phone and the Macs that use them, of the turns
of a thread, of the vault, and of the verdict on a note.

Paths below are relative to `src/`. The words are those of `CONTEXT.md`.

## The system

inteligir is a personal notes app. A person has one account and several
*installs*: Macs, each with a local server, a git vault and a database, and
phones. What the installs share goes through a Cloudflare Worker.

| component | state it keeps | operations | with whom it interacts |
|---|---|---|---|
| account log (`apps/web/src/worker/sync/thread-sync-do.ts`, `routes.ts`) | per account: `sync_events` and its AUTOINCREMENT counter, the tombstone | push, pull, purge | the Worker verifies a device, then calls the account's object; every install pushes to and pulls from it |
| device authentication (`apps/web/src/worker/device/`, `auth/auth.ts`) | device rows with a credential hash, revoked or not | mint at sign-in, verify, revoke, delete all with the account | stands in front of every call of the object |
| thread sync of an install (`apps/cli/src/server/cloud/sync-*.ts`, `outbox.ts`, `packages/db/src/sync-outbox.ts`, `packages/contract/src/cloud/sync/`) | `sync_outbox`, the one row of `sync_state` (last position, dropped count, cursor, skipped row), `sync_own_devices`, the credential file, the session in memory | enqueue with an append, a single-flight pass (push, pull, dispatches, approvals), sign-in, sign-out, restart | pushes and pulls the account log; appends what it pulls to the event table |
| event table (`packages/db/src/events.ts`) | every event of every thread, pulled ones with their origin | append local events, append synced events with a dedup on the origin | the turn lifecycle and thread sync write it |
| dispatch inbox (`apps/web/src/worker/sync/dispatch-inbox.ts`, `apps/cli/src/server/cloud/dispatches.ts`, phone) | requests from a phone, each pending, claimed with a lapse, acked or cancelled; approvals that are open, answered or closed | create, claim, ack, cancel, open and close an approval, answer | phones create, Macs claim and run, both sides close |
| turn lifecycle and message queue (`packages/domain/src/thread-lifecycle.ts`, `apps/cli/src/server/threads/`) | a status per thread, the turn that runs, queued messages and the claimed head | send, stop, archive, settle, drain, recover at boot | agent runtimes report turns; pulled events move the status too |
| agent runtime (`apps/cli/src/server/agents/`, `packages/agent-runtime/`) | provider processes | start, steer, stop | the turn lifecycle |
| vault git engine (`apps/cli/src/server/vault/git-*.ts`) | a repository, its lock, the holds of running turns, the refused push | commit, fetch, integrate, push | other installs through the hosted remote; turns that write files |
| file reconciliation (`packages/notes/src/sync/reconcile-file.ts`) | none: a function of three versions | reconcile | the git engine, the phone |
| phone write queue (`apps/mobile/src/notes/`) | queued edits, the pinned set that is being sent, a mirror of the vault | write, pass, settle, repin | the vault's commit endpoint |
| vault commit endpoint (`apps/web/src/worker/vault/`) | the hosted repository | commit a change set on an expected head | the phone write queue |
| vault service, knowledge index, undo, connectors, comments, server process, editor, desktop shell | files, caches, user interface | | |

### What is hard here

* **Everything that waits for the network can be overtaken.** A pass holds a
  batch or a page across an await. Meanwhile the user signs out, signs in under
  another device id (which empties the queue, restarts its numbering and rewinds
  the cursor), appends events, or the process ends.
* **Answers are lost after their effect.** The log may have stored a push whose
  answer never arrives, so everything is sent again, perhaps in another batch.
* **The log outlives sign-ins and builds.** An install meets its own events
  under device ids it used to have, and rows its build cannot read.
* **A credential is verified in one place and used in another.** Between the
  two the device may be revoked or the account deleted.
* **The dispatch inbox and the turn lifecycle have three writers each**, with
  claims that lapse, late acks, and settles of turns that were superseded.
* **The git engine drops its lock around the network** while turns write files.

`PROJECT.json` lists these hazards one by one under `hazards`, at the line where
each bites, with the properties that would catch it going wrong.

### What makes each component correct

* account log: append-only and in each device's order, distinct seqs, a push is
  all or nothing, a deleted account stays empty.
* thread sync: no event twice, none lost without being counted, the cursor
  passes only what is stored, skipped for good or remembered; positions issued
  once; convergence of an install that stays signed in.
* dispatch inbox: a request runs at most once per Mac, an acknowledged one is
  never handed out again, a cancelled one never runs, an answered approval is
  answered once.
* turn lifecycle: one turn at a time, no queued message lost, overtaken or sent
  twice, no claim left on one, no thread left running after a restart; an
  approval is open only while somebody waits for it.
* git engine: no text lost, no commit of a half-written turn, an answer of a pass
  as fresh as its asker.
* reconciliation and the phone write queue: no side's text lost; no copy of one's
  own text beside what one wrote since.

## The modules

| module | what it is |
|---|---|
| `AccountLog` | the cloud's log and the credentials in front of it, with arbitrary clients |
| `AccountJournal` | what that log promises: a journal each device appends to in its own order, closed once |
| `AccountLogJournal` | the refinement mapping between the two |
| `AccountLogProofs` | invariants of `AccountLog`, proved |
| `AccountLogJournalProofs` | that `AccountLog` implements `AccountJournal`, proved |
| `ThreadSync` | the installs: their event tables, queues, cursors, sign-ins and passes, against an instance of `AccountLog` |
| `ThreadSyncProofs` | that the installs use the log as `AccountLog` lets them, and invariants of `ThreadSync`, proved |
| `DispatchInbox` | the inbox of a phone's requests and a Mac's approvals, with arbitrary clients |
| `DispatchInboxProofs` | invariants and action properties of `DispatchInbox`, proved |
| `PhoneRequests` | a phone and its Macs, against an instance of `DispatchInbox` |
| `PhoneRequestsProofs` | that the phone and its Macs use the inbox as `DispatchInbox` lets them, and invariants and action properties of `PhoneRequests`, proved |
| `MessageLine` | what a thread promises: messages in one line, each a turn's request once |
| `ThreadTurns` | the turns of a thread: its row, queue and approvals, the service, the driver and the provider, crashes and recovery |
| `ThreadTurnsProofs` | invariants of `ThreadTurns` and that it implements `MessageLine`, proved |
| `Notes` | a note, and the verdict on three versions of it |
| `NotesProofs` | what that verdict keeps, proved |
| `HostedVault` | the hosted vault with its commit endpoint, and what people write |
| `PhoneNotes` | a phone's write queue and mirror, on `HostedVault` |
| `MacVault` | a Mac's working tree, commits, turns and sync passes, on `HostedVault` |
| `VaultSync` | a phone and a Mac on one hosted vault: instances of both |
| `VaultSyncProofs` | the type invariant and every property of `VaultSync`, proved |
| `MCAccountLog`, `MCThreadSync`, `MCThreadTurns` | symmetry for TLC; their `.cfg` files give the constants |
| `MCDispatchInbox`, `MCPhoneRequests`, `MCVaultSync` | the requests, approvals and scenes of the instances |

A definition whose comment begins with "Faulty:" is not part of a
specification. It is a defect that the definition after it could have in the
code (a guard left out, a reset missing, an off-by-one), kept so that each
property can be seen to fail on one.

### AccountLog and the code

| in the model | in the code |
|---|---|
| `rows`, `lastSeq` | `sync_events` and its AUTOINCREMENT counter (`thread-sync-do.ts`, `initSchema`) |
| `purged`, `deleting` | the tombstone in `account_state`; an account whose deletion removed its devices and has not yet purged the object |
| `minted`, `valid` | device rows ever inserted, and those whose credential still verifies |
| `verified` | requests between `verifyDeviceCredential` and the object's `push` (`routes.ts`) |
| `Verify`, `Push` | the two halves of the push route. `Push` runs the whole method: the tombstone, the batch's own order, the high-water mark, the duplicate, the conflict and the out-of-order refusal, the inserts |
| `RefusedAt`, `PushAnswers` | what the client is answered, with the position it was refused at |
| `Page`, `HasMore` | `pull`, which changes nothing |
| `SignIn`, `Revoke`, `DeleteDevices`, `Purge` | `mintDeviceCredential`, `revokeDevice`, `purgeDeviceRows`, `purge` |

A batch is a set of entries, because the object judges an entry by its position
and refuses a batch that is not in the order of its positions. A batch that
repeats a position (`Disordered`) stands for every batch refused for its order.
The Durable Object runs one call at a time without an await inside, so a call is
one step. The exception is `purge`, which awaits `deleteAll` between emptying the
tables and writing the tombstone (`thread-sync-do.ts:459-475`). While it waits for
its storage the object is handed no other call, so it is one step here. Not
modelled is a death of the object between the two: a push verified before could
then store rows until the deletion is asked for again.

### ThreadSync and the code

| in the model | in the code |
|---|---|
| `events` | the `events` table; `device` and `pos` are the origin columns, 0 for null |
| `outbox`, `lastDeviceSeq`, `dropped`, `cursor`, `skipped` | `sync_outbox` and the row of `sync_state` |
| `ownDevices`, `credential`, `build` | `sync_own_devices`, the credential file, the running build |
| `session` | `createSyncSession`: off, live, or ended by a refusal; its id is the fence. The code counts ids up; two suffice, because only a pass's own id is compared with it |
| `cadence` | what is armed to start a pass: the poll, the debounce of an append alone, or nothing (`sync-cadence.ts`) |
| `pass` | where `runSyncPass` waits, and what it carries across the await |
| `Append` | an append with `enqueue` in its transaction |
| `SignIn`, `SignInFails` | `adoptCredential`, and the same whose `writeDeviceCredential` throws: the timers are stopped and the queue is reset by then, and the old session stays |
| `SignOut`, `SignOutCutOff` | `forgetSignIn`, and the same cut off between the file and the database |
| `Restart` | the process ends anywhere; the next reads the credential and calls `openSession` with `takeRewindIfBuildChanged` |
| `PushSend`, `PushRuns`, `PushAcked`, `PushRefused`, `PushUnauthorized`, `PushUnreachable`, `DropWindow`, `DrainEnds` | `drain`, from one await to the next |
| `PullPage`, `PullUnauthorized`, `PullUnreachable`, `ApplyPage`, `ApplyFails`, `PullCaughtUp` | `pullPages` and `pullAndApply` |
| `PassFenced` | every `fenced` check that stops a pass |

The process is one JavaScript thread with a synchronous database, so what runs
between two awaits is one step, and other handlers of the same install run only
at awaits (`AtAwait`). `PushUnreachable` may fire before or after the object ran
the push, so an answer may be lost after its effect; a pass that gives up leaves
its request in `verified`, where it may run much later.

Threads are left out: a table stands for one thread. Because rows of a page may
belong to any thread, the group the planner applies in one transaction may end
after any of them, and `ApplyFails` lets a write throw after any.

An event is a record with a *kind* that says what the code tells apart: plain,
the content of a turn (refused by a table that lacks the turn's start), "newer"
(only build 2 reads it), "oversize" (refused by the contract before a push).

### DispatchInbox and the code

| in the model | in the code |
|---|---|
| `dispatches`, `approvals` | the two tables of `dispatch-inbox.ts`; `position` is the rowid, `to` is `to_device_id` with "any" for null |
| `token`, `claimAge`, `settleAge`, `age` | `claim_token`, and how long ago `claimed_at`, `settled_at`, `closed_at` were |
| `claims` | what Macs hold of claim responses: a token and the requests handed over |
| `CreateNothing`, `CreateWork`, `CreateAnswer` | `createDispatchRow` and `storeAnswer` |
| `Claim`, `Ack`, `Cancel`, `OpenApproval`, `CloseApproval`, `Forget` | `claimDispatchRows`, `ackDispatchRows`, `cancelDispatchRow`, `openApprovalRow`, `closeApprovalRow`, `forgetDevice` |
| `KeptDispatches`, `KeptApprovals` | `prune`, which opens a create, a claim and an open, and no other call |
| `Calls` | the Worker's check of the credential, and the tombstone |
| `Purge`, `ReplaceTables` | `purge`; `initDispatchTables` of a build with other tables |

The code reads the clock only to compare an age with a limit (the time to live
of a claim, the retention of what is settled). The model keeps the ages and
counts them up to the limit; `Tick` makes everything older by one. A token the
code mints at random is any token that no row and no Mac holds.

### PhoneRequests and the code

| in the model | in the code |
|---|---|
| `rows`, `phonePass`, `sending` | the phone's `dispatch_outbox` with its statuses ("unsent" is null), how far its pass has come, and the create it waits for (`dispatch-runtime.ts`) |
| `limbo` | creates the phone gave up on that may still arrive |
| `held`, `log` | the turns a Mac's threads hold (`threadHoldsDispatch`); those whose request is in the account's log |
| `asks` | rows of `pending_interactions`: status, decision, relay |
| `pass`, `heldAck`, `takes` | where a Mac's pass waits (`sync-pass.ts`), the ack that did not reach the cloud, "Let my phone ask this Mac" |
| `Send`, `Sent`, `SendLost`, `Poll`, `PollLost`, `DropLanded`, `Cancel`, `CancelLost` | `sendUnsent`, `pollStatus`, `dropLanded`, `cancelOne` |
| `PushPull`, `AckHeld`, `Claim`, `ApplyTurn`, `ApplyAnswer`, `ApplyCapture`, `ApplyThrows`, `Ack` | the steps push, pull and dispatch of a pass |
| `Open`, `Close` | `relayApprovals` |
| `Raise`, `SettleHere`, `Restart`, `Choose` | an interaction is created, decided at the Mac or interrupted; recovery at boot; the person's choice |

`PushPull` stands for all that `ThreadSync` models: some of the turns a Mac holds
reach the log, some or all of the log comes here. What the dispatch step asks of
it is whether the pull caught up, and that then everything in the log is here.
A phone's pass sends what was unsent when it began, one after the other, and then
polls all that is on its way at once; a create that finds the inbox full, or is not
answered, ends it before the poll. A pass and the phone's cancels exclude each other
(`serial`), so a cancel waits until no pass runs; a create given up on is not under
way any more. An answer that decides what another decided before it is delivered
as that one was (`ApplyAnswer`): the decision is kept as all the answers that made it.
`LetGo` is bookkeeping: a Mac forgets a token it cannot use again.

An answer the phone shows refused stays so in the model. The code lets the user
dismiss it and drops it once its approval is gone; nothing reads it after.

### ThreadTurns and the code

| in the model | in the code |
|---|---|
| `thread`, `queue`, `claims` | the row of `threads`, `queued_thread_messages` by sort key, their claims (`packages/db/src`) |
| `requested`, `open` | the `client/turn/requested` events; the turns with a `turn/started` and no `turn/completed` |
| `foreign`, `pulled` | what thread sync brought of other devices' turns, and of a phone's requests that another Mac ran |
| `cards` | `pending_interactions`; `waiter` is the parked promise of `interaction-waiters.ts`, `told` what it resolved to |
| `driver`, `prompted` | the entry of `runtime-manager.ts` and its phase; the turns a provider may yet report on |
| `hand` | what the running handler still does after the transaction it committed |
| `Cell`, `Applies`, `Moved` | `THREAD_LIFECYCLE` and `projectLifecycle` (`thread-lifecycle.ts`) |
| `Settle`, `ClaimNext`, `Drain` | the settle that claims the next message in its transaction (`thread-ingest.ts`), and `dispatchQueuedMessage` after it |
| `Take`, `Send`, `AcceptDispatch`, `Request` | `resolveSendInTransaction` and its two callers (`thread-send.ts`, `service.ts`) |
| `RequestStop`, `Interrupt`, `Archive`, `StopArchived`, `AskDriver` | `thread-stop.ts`, the archive of `service.ts`, `interruptTurn` |
| `StartTurn`, `TurnStarted`, `DispatchFails`, `Reports`, `FallsSilent`, `Watchdog`, `GraceEnds` | the driver, and what its provider does |
| `Ask`, `Answer`, `TellWaiter`, `AskLapses` | a tool call that wants an approval, from the request to the provider's answer |
| `ForeignStarts`, `ForeignEnds`, `ForeignRequest` | what a pulled event does to the row |
| `Crash`, `Boot`, `Recover`, `ClearDead` | the end of the process at any await or between any two transactions; `recoverWedgedThreads` |

One thread is enough, because its row, queue, driver entry and approvals are
keyed by its id. The server is one JavaScript thread with a synchronous
database: while a handler has something in `hand`, nothing else happens but its
next step or a crash. The two writes of `settleTurn` are one step, because
nothing reads between them and a crash after the first is repaired as one before
it. A provider is trusted for nothing: it may report a turn late, or never.

Two interleavings are recorded in `excused` and left out of the properties they
defeat:

* *crossed*: another device's turn is pulled and bound to the row while the
  driver holds a turn of this device. The row describes one turn; the log has
  both. `OneTurn`, `ArchivedStops`, `LineFollows` and the first half of
  `CardsAreHeard` are asked where this did not happen.
* *cut*: the process dies between the recovery's transaction and
  `interruptOpenPendingInteractions` (`service.ts:362-381`). The next boot finds
  nothing wedged and leaves the card open for good. The first half of
  `CardsAreHeard` leaves this out.

### The vault modules and the code

| in the model | in the code |
|---|---|
| `Reconciled`, `KeptEdit`, `Merged` | `reconcileFile`, its report, and `mergeText` over diff3 (`packages/notes/src`) |
| `hosted`, `CommitChanges`, `Conflicts` | the branch of the hosted repository; `commitChanges` over `classifyPut` and `classifyDelete` (`apps/web/src/worker/vault`) |
| `mirror`, `rows`, `pass`, `walk` | the phone's mirror row, `vault_outbox`, where a pass waits, and a refresh between its mark and its end |
| `Writes`, `SendPinned`, `AskHead`, `Repin`, `Resend`, `Landed`, `ResolvedLocally`, `ResolvedToSend` | `enqueue` and the pass of `vault-outbox.ts`: `sendRow`, `repinUnlanded`, `settleRow`, `outbox-reconcile.ts` |
| `List`, `ApplyTree` | `vault-mirror.ts` |
| `work`, `head`, `midway` | the working tree, HEAD, and git inside a rebase or a merge |
| `discarded` | bookkeeping of what an abort took out of the working tree |
| `base`, `tracking` | the newest hosted commit under HEAD; the commit of the last fetch |
| `turn` | the holds of `agent-commits.ts` |
| `engine`, `requested`, `owed` | where `requestSync` and its pass wait, `forceNetwork` and `syncAgain`; bookkeeping of who asked when |
| `Flush`, `TurnHolds`, `TurnReady`, `TurnEnds` | `commitIfDirty` after the debounce; `beginAgentTurnWrites` and `finish` |
| `Asks`, `Ticks`, `Refuses`, `Prepares`, `Fetches`, `StopsForHold`, `Integrates`, `IntegrationLands`, `Pushes`, `Repeats`, `Answers` | `requestSync`, `preparePass`, `integrateFetched`, `push` (`git-engine.ts`, `git-merge.ts`) |
| `Dies`, `Boots` | the process ends anywhere, also inside an integration; `clearInterruptedIntegration` comes with the first commit |

The model follows one note. A note is a function from lines that lie far enough
apart for diff3 to take each alone, to words; every edit writes a new word, named
by its position in `wrote`. So "nothing is lost" can say of every word where it
is. The engine's lock is a queue, so what holds it is one step, except an
integration, which a death may cut. The phone's steps are the transactions of its
database; its app may be killed between any two (`GivesUp`).

Modelling these parts showed six places where the code does less than its
comments say. The properties are stated so that they hold beside them:

* `remainderOf` (`vault-outbox.ts:329-353`) lays what the person typed while a
  merge was being sent over the merge that landed, and does not look at the
  conflict flag of the line merge. A line another device changed is then written
  over without a copy. `NothingLost` records these lines in `rebasedOver`.
* A request the phone gave up on may still reach the vault, after the phone asked
  the head and made the set anew. The phone then finds its own text there and may
  keep a copy of it: the head says only whether a set has landed so far
  (`vault-outbox.ts:675-704`). `NoSelfCopy` is asked where none ran late (`ranLate`
  in `detours`); without that, one edit past a lost answer makes TLC find the copy.
* A delete that meets another device's version gives way to it
  (`reconcileRemove`). If the person had already written the note again, that row
  starts from nothing, and may find at the path what the phone's own merge had made of
  the other version: it copies that. `NoSelfCopy` excuses the copies of such rows
  (`gaveWay`). The run is too short for the case; the proof showed it.
* A ping that comes while a turn holds commits is answered "held" and its
  `forceNetwork` is dropped; the quiet tick may wait a quarter of an hour
  (`git-engine.ts:51-54`). Liveness of the vault is not claimed.
* A pass that a hold refuses is answered with a snapshot that "says 'held' rather
  than reporting clean as if a pass ran" (`git-engine.ts:906-907`). But
  `statusSnapshot` reads the configuration of git first (811) and asks for the hold
  after that (838). A turn that ends between the two leaves a clean tree with nothing
  to push, and the answer is "clean" without the commit that was hosted when the
  caller asked. The same goes for a pass that a hold stopped after its fetch (666).
  The window is that of one `git config`. `SyncIsFresh` is about the other passes,
  those that met no hold and ended well.
* The first commit after a crash aborts the integration it finds
  (`clearInterruptedIntegration`), and with it whatever was saved or written by
  other programs since the crash. `NothingLost` records these words in
  `discarded`: what was committed before the crash is not among them.

## What the runs check

| run | instance | what it shows |
|---|---|---|
| `account_log` | 2 devices, 3 positions, 2 bodies, pushes of up to 2 entries, 1 verified push waiting | `TypeOK`, `SeqsAreDistinct`, `DeviceOrder`, `PurgedStaysEmpty`, `RefusedPushStoresNothing`, `ImplementsJournal` |
| `sync` | 2 installs, 2 builds, 2 events of all four kinds, 2 sign-ins, 1 accident, pages and pushes of 2 | `TypeOK`, `CursorHonest`, `EndOfLogIsHeld`, `LandsInOrder`, `NothingTwice`, `DroppedIsExact`, `LogIsIssued`, `NeverAtOdds`, `PositionsIssuedOnce` |
| `sync_live` | 2 installs, 2 events, 2 sign-ins, 1 accident, one event a push, one row a page, two rounds a pass, credentials that may not be kept | `Converges`, `RevocationEnds` |
| `sync_credential_not_kept` | plain events, 3 sign-ins, credentials that may not be kept | violates `PositionsIssuedOnce`: see the findings |
| `sync_overtaken` | plain events and content, 3 sign-ins, no accident, two requests under way | violates `GivenUpNeverStarted`: see the findings |
| `dispatch_inbox` | a phone, two Macs, a turn and three answers to one approval, 2 tokens, 2 rows pending, one device revoked and one call of it late | `TypeOK`, `ApprovalsAgree`, `LiveClaimHolds`, `VerdictIsFinal` |
| `phone_requests` | a phone, two Macs, a turn or a capture, 2 accidents: lost creates, cancels, claims and acks, short pulls, throws, restarts | `TypeOK`, `CancelledStaysAway`, `LoggedRunsNoMore` |
| `phone_answers` | a phone, one Mac, a turn that asks twice and an answer, room for one pending row and one approval, 1 accident: a lost ack, offer or close, a change of the choice | `DeliveredIsTrue`, `RequestsSettle`, `MarkedIsTakenBack` |
| `threads` | a thread with a typed and a dispatched message, a turn of another device, one approval, 2 crashes, a provider that reports late or never | `TypeOK`, `OneTurn`, `NoClaimLeft`, `ArchivedStops`, `LineFollows`, `CardsAreHeard`, `KeepsLine`, `TurnsEnd` |
| `vault` | a phone and a Mac, a note of two lines, four scenes | `TypeOK`, `NothingLost`, `NoSelfCopy`, `TurnsOwnWrites`, `SyncIsFresh` |
| `dispatch_ack` | `dispatch_inbox` without revocation | violates `RecordedIsTrue`: see the findings |
| `phone_approval_left` | one approval, with lost offers and restarts | violates `TakenBack`: see the findings |

An *accident* is a restart, a cut-off sign-out, a revocation, a lost answer, a
write that throws or a credential that is not kept. Sign-ins and sign-outs are
not accidents; sign-ins are bounded by `MaxDevices`, and sign-outs change
nothing that a second one changes again.

**Why the bounds are enough.** Every defect the properties were written for
needs two events or fewer, one install that changes its sign-in and one other,
and one accident: the counterexamples of the faulty definitions are found well
inside the bounds. Two sign-ins are two installs, or one install
that changes its device. `MaxRounds` 2 lets a pass push and pull again after an
ack. Verified pushes are bounded by one: two of one device are in flight only
after a pass gave up on the first. For `sync` the bounds decide nothing in the
end: its safety properties are all proved for any values of the constants.
The `account_log` run has arbitrary clients instead
of installs, so any reordering or repetition of pushes is in it.

In the dispatch runs the limits are the smallest at which the code can be at
them: a claim lapses and a settled row is pruned after one tick, so a lapse can
fall between any two steps, and one or two rows fill the inbox. In `phone_answers`
`MaxPending` and `MaxOpen` are 1: while the ack of the turn is lost, the answer finds
the inbox full, and the second approval finds the list full. `Retention` is 0
there, so a settled row goes at the first call that prunes; it lasts a tick in the
other runs. `Perils` names what may go wrong in a run, and `MaxAccidents` how often; the perils are
split over the runs because an accident doubles the states, not because some
exclude others. `MaxAsks` keeps the phone to one request of either kind where two
Macs compete. `phone_requests` has 660 thousand states,
`phone_answers`, which checks liveness, 190 thousand. What restarts and throws do to
`DeliveredIsTrue` is in its proof, for any perils.

In `threads` two messages and one turn from elsewhere are enough for one to be
overtaken: one waits, one comes, and the thread is busy, at rest or stopping for
the other. Two crashes let the second fall into the recovery from the first. A
provider may report a turn at any later time, so a late report meets the next
turn. 112 thousand states.

In `vault` a behaviour stays in one of four *scenes* (`MCScenes`), each of which
says how often each may act: the phone that writes on past a lost answer and a
change from the Mac; passes that are joined, fail and are cut by a crash; a turn
beside a person and a pass; two turns, one cut. All of them together in one scene
do not fit into minutes; each hazard the properties are for needs the parts of
one scene. Two lines let two edits touch one line or different ones, and a third
would behave as one of them; `MaxRows` 2 lets a row wait behind one that is being
sent. Ticks and listings that could change nothing are left out. Edits over a cut
integration are in the second scene. 950 thousand states.

The dispatch runs check deadlock, and there is none because the clock always
moves. The others do not: every bound (pushes, events, sign-ins, accidents) may
be used up and every install signed out, and then nothing is left to do. That is
a state the system may stay in.

**Fairness.** In `phone_answers` a Mac's pass goes on as long as
the Mac runs (the same poll), a phone in the foreground runs passes while anything
is on its way (`DISPATCH_STATUS_POLL_MS`), and the clock moves. Of the phone only
weak fairness of `PhoneStep` is assumed, whatever step its pass has come to: a pass
that finds the inbox full ends before its poll, and the next begins with the same
create. That every request settles in the end then rests on the Macs emptying the
inbox, which does not need the phone. Nothing is assumed of the person, of restarts or of
lost calls, which are finitely many. `sync_live` assumes weak fairness of what a pass has begun,
of starting one while anything is armed (`cadence`), and of the object running what was
verified. A signed-in install polls every 60 seconds and 1.5 seconds after an append
(`sync-cadence.ts`), and each await of a pass ends, because requests have a time
limit. After `SignInFails` nothing is armed until the next append, so no pass is
assumed to start: `Converges` asks that the poll stay armed, and `RevocationEnds`
ends with an install that has nothing armed. In `threads` the process goes on with what it
has in hand and is started again after a crash (weak fairness). A timer that is
due fires at the event loop's next turn, however busy the handlers keep it, so
the watchdog once the provider is silent for good, the grace of a stopped turn
and the lapse of an ask are strongly fair. Nothing is assumed of the provider: a
turn it works on may run for ever, and `TurnsEnd` says that nothing else keeps
one. Nothing is
assumed of sign-ins, appends, revocations or accidents; accidents are finitely
many, so the network is eventually up. `Converges` is asked only of an install
that stays signed in under a valid device with its poll armed.

## What is proved

`AccountLogProofs` proves, for all sets of devices, positions (any naturals) and
bodies, and any `PushMax` and `MaxVerified`:

* `TypeCorrect`: `Spec => []TypeOK`
* `SeqsDistinct`: `Spec => []SeqsAreDistinct`
* `DevicesInOrder`: `Spec => []DeviceOrder`
* `TombstoneHolds`: `Spec => []PurgedStaysEmpty`
* `LogOnlyGrows`: `Spec => OnlyAppended`
* `RefusalIsWhole`: `Spec => []RefusedPushStoresNothing`

`AccountLogJournalProofs` proves `LogImplementsJournal`:
`Spec => ImplementsJournal`.

The argument. Only `Push` adds rows (`OnlyPushAddsRows`). `Rank` numbers a finite
batch without repetition from 1 to its size, in the order of positions
(`RankType`, `RankIncreases`, `RankHitsAll`), so what a push stores lands at
distinct seqs past the counter, in order, with no gap (`LandedFacts`). What it
may still store lies past every row of its device (`FreshIsPast`): that is the
high-water check, and it is why the prefix accepted before a refusal is always
made of duplicates, so that a refused push stores nothing although the code
inserts as it goes. `DeviceOrder` is not inductive alone: an old and a new row
of a device are compared through the counter, which needs `SeqsAreDistinct`. The
refinement needs one more invariant, `NoGaps`: the k-th record of the journal is
the row with seq k. The assumptions are the two in `AccountLog`: positions are
naturals, and so are the two limits. The limits matter to no proof; finiteness
of a batch does, and `Next` asks for it.

`ThreadSyncProofs` proves, for any finite set of installs, any builds and kinds and
any bounds:

* `TypeCorrect`: `Spec => []TypeOK`
* `ImplementsAccountLog`: `Spec => Cloud!Spec`, so the theorems about the log hold
  under these installs
* `HoldsNothingTwice`: `Spec => []NothingTwice`
* `LogHoldsIssued`: `Spec => []LogIsIssued`
* and, when credentials are kept (`~CredentialWriteFails`): `IssuedOnce`
  (`PositionsIssuedOnce`), `AlwaysAgree` (`NeverAtOdds`), `CountsWhatIsLost`
  (`DroppedIsExact`), `CursorStaysHonest` (`CursorHonest`), `LandedInOrder`
  (`LandsInOrder`) and `EndIsHeld` (`EndOfLogIsHeld`)

The argument. An install numbers its events by the own rows of its table, and its
queue never runs ahead of them: that is what types the counters (`TInv`), and it
rests on there being finitely many installs. `NothingTwice` needs to know where a
row of a table is from (`Signed`, `QueuedOnce`, `TablesSound`, `LogSound`): an
event of the log names the install that queued it, under a device that install
owns for ever, and it was queued under one device and position only; so an own
event is recognised as own whenever it comes back, and another's by its origin.
The first three of the others are one invariant, `QueueInv`. No two installs are signed in as
one device (`Apart`); no position issued under it is past the
counter, and each is for one event (`Numbered`); before anything in the log, or
on its way there, comes all its device queued before it, save what is oversize
(`LogClosed`); what was queued under a credential waits, is in the log, or is
counted as dropped (`QueueExact`);
and what a push carries is the head of the queue (`PushExact`). Then no push
finds a position taken by another event or stands behind a later one
(`NothingRefused`), and what an answer deletes is what the log has stored.

The others are about the pull. A page that may still be applied (its pass is of
the session that is live) is what the log has next past the cursor, with no row
missing up to its last one; the record of skipped rows is of the build that runs;
and every row a cursor has passed is honest: the install's own, stored, unreadable
and recorded, or content with no start before it (`PullInv`). A step lets the pull
rest, starts it over, reboots it or lands a page (`PullFacts`). It rests on a
content's start being written before it and needing nothing itself
(`StartsFirst`), so a page that lands the content lands the start the content
found there. The order of what lands follows from what a table may be missing
(`Behind`): whatever the log has before a row of the table, of the same device, is
stored, was unreadable, or is content whose start was late; what a page adds is
later than all that is stored already, so a row that lands after a later one of
its device was one of those. `EndIsHeld` closes the circle with `Converges`, which
TLC checks: an install that stays signed in reaches the log's end, and at the end
its table has whatever the log has, because an own row never leaves it, another's
is stored as it was queued, and a content's start, when the log has it before, is
in the table before the content is asked about.

`DispatchInboxProofs` proves, for all sets of devices, requests, approvals and
tokens and whatever the limits:

* `TypeCorrect`: `Spec => [](TypeOK /\ HasLast)`
* `VerdictStands`: `Spec => VerdictIsFinal`
* `ClaimsHold`: `Spec => LiveClaimHolds`
* `TablesAgree`: `Spec => []ApprovalsAgree`

The argument. `HasLast` says that among any stored rows one has the highest
rowid, which is all that choosing the next rowid needs of the table being finite.
The two action properties follow from one lemma about every action: a row that
does not wait, and that no prune drops, stays as it is, unless an ack of its own
claim settles it, its Mac is signed out, or time passes (`NotWaitingStays`).
`ApprovalsAgree` is not inductive. `Paired` adds that an approval has one row;
that an answer waits for the Mac that asked, or signing that Mac out would close
the approval and leave the answer; and that while an answer is on its way its
approval is still answered, or its Mac has closed it and asks it no more, or a
pruned approval could be opened again over an answer still held. A step keeps
`Paired` when the answers it takes away take the marks of their approvals along
(`PairsKept`), and each action is shown to be such a step. The third part rests
on the guard of `OpenApproval`: a Mac never offers again what it asked to close.
The assumptions are those in `DispatchInbox`: what a request and an approval are,
natural limits, and that tokens are not 0, which stands for none.

`PhoneRequestsProofs` proves, for all sets of Macs, requests, approvals and
tokens and whatever the limits:

* `TypeCorrect`: `Spec => []TypeOK`
* `ImplementsDispatchInbox`: `Spec => Inbox!Spec`
* `DeliveredHolds`: `Spec => []DeliveredIsTrue`
* `LoggedStaysRun`: `Spec => LoggedRunsNoMore`
* `CancelledIsGone`: `Spec => []CancelledStaysAway`

The argument. Each action of a Mac moves its pass along in one of a few ways
(`Moves`), and leaves the other Macs' where they are; what is invariant of a pass
is shown once for each way. `Handled` says that an ack, sent or kept, is of
requests its claim handed over, and names none delivered that it does not settle:
that is what `DispatchInbox` asks of a client, so every step here is a step of the
inbox or leaves it alone. `Truthful` says of what a pass or a kept ack calls
delivered what `DeliveredIsTrue` says of a row; it lasts because threads forget no
turn and a decision stands (`MacsRemember`). `CaughtUp` says that a Mac with a turn
to apply had pulled the whole log, so that its threads hold what it saw of it; a
turn they hold is not run again. `TakenBackInTime` says that a request under a
claim was handed over, and that one the phone took back in time is on no way to
the inbox and waits for nobody there. The assumptions are those in
`PhoneRequests`: what a request and an approval are, a Mac that stands for "any"
and is none, tokens that are not 0, natural limits.

`ThreadTurnsProofs` proves, for all sets of messages, turns of other devices and
approvals, and any number of crashes:

* `TypeCorrect`: `Spec => []TypeOK`
* `NoClaimStays`: `Spec => []NoClaimLeft`
* `ThreadKeepsLine`: `Spec => KeepsLine`, the refinement of `MessageLine`
* `TheLineFollows`: `Spec => []LineFollows`
* `OneTurnAtATime`: `Spec => []OneTurn`
* `ArchiveStops`: `Spec => []ArchivedStops`
* `CardsHeard`: `Spec => []CardsAreHeard`

The argument. The properties speak of the moments between handlers; the
inductive invariants speak of every step a handler is made of. `LineInv`: the
only claim is the one the drain in hand holds, on the head of the line, so the
queue without that message is its tail (`WithoutHead`), and a drain is the line's
`Advance`. `FollowInv`: a settle that applies and drains takes the head along, and
the recovery that does not drain runs after a boot. `TurnInv` says for each step in
hand how far row, driver and log have gone: after the row is stopping and before
the driver heard of it (`Stopping`), after the request and before the driver took
the turn, after the boot and before the recovery. It needs `PromptInv`: a turn the
driver has yet to start was never prompted, or a late report could end it. The
approvals need three parts for each card: it names a turn requested before
(`CardNamed`), its waiter is there while its turn is the driver's (`CardHeard`),
and it is open for the driver's turn alone or, after a crash, for the turn the
recovery will fail (`CardOpen`). The assumptions are those in `ThreadTurns`: other
devices' turns are no naturals, messages typed and dispatched differ, and the
values for "no message" and "no ask" are none.

`NotesProofs` proves of the verdict on any three versions, for any set of lines:
that it is a note or nothing, with all of theirs beside it or nothing
(`VerdictTyped`); that what mine wrote stays (`MineStays`); that what theirs wrote
stays or all of theirs is in the copy (`TheirsIsKept`); and that two devices that
settle the same versions, each with its own side as mine, leave the same note
whenever no copy is made (`DevicesAgree`). The argument goes through the six
disjoint cases of `Reconciled` (`VerdictCases`), and line by line where the two
texts are merged. Its assumptions: there is a line, and an absent file is no
text.

`VaultSyncProofs` proves, for any lines, any bound of the queue and however often
each may act:

* `TypeCorrect`: `Spec => []TypeOK`
* `TurnsKeepTheirWrites`: `Spec => []TurnsOwnWrites`
* `AnswersAreFresh`: `Spec => SyncIsFresh`
* `NothingIsLost`: `Spec => []NothingLost`
* `NoCopyOfItsOwn`: `Spec => []NoSelfCopy`

The argument of the first three. A merge takes lines and makes none, so every operation of the phone,
the vault and the Mac keeps "all that is stored is drawn from the words W", for any
W (`PhoneStepKeeps`, `TreeStepKeeps`). With all words this is the type invariant.
With `Allowed`, the words a running turn did not write, it is `TurnsOwnWrites`:
only the working tree holds others, and it is committed under a hold by the turn
alone, at its start and its end, when all words are allowed. `PassFresh` says for
each place a pass waits at what it has of what it owes, unless somebody joined and
it will run again, or a hold stopped or refused it; `AgainIsForced` closes it,
because only an unforced pass may stop before the fetch. So `AnswersAreFresh` is
about passes that met no hold and ended well, and no more. `MacShape` adds that past its first commit a pass finds no
cut integration, or it would commit git's markers.

`NothingLost` is not inductive: a step that sends, merges or settles drops a text,
and only a fact about where its words still are keeps it. `NothingGoes` has these
facts, each up to the words somebody replaced, a remainder was laid over or an
abort discarded (`Spent`). What a row's base holds, its content holds (`RowKeeps`): so the
verdict, which takes a line from the side that changed it, loses neither side's
words. What a set's base holds, the set puts, in its text or its copies
(`SetKeeps`), also one that may still run late. What the base of a text, the
mirror and a listing hold, the head of the vault holds (`RowKeeps`, `KnownKeeps`).
The pass has the front row as it read it, and what was committed for it is at the
head (`PassKeeps`). What any hosted commit holds, the head holds (`HostedKeeps`),
so that a set or a push made for an older one takes nothing away. The Mac's
HEAD holds what the hosted commit under it holds, and its working tree what its
HEAD holds (`MacKeeps`), except inside an integration. What is written there over
what git left (`Litter`, `Scraps`) is in the tree until the next commit, which
aborts the integration and puts the words into `discarded`; HEAD keeps what was
committed before (`TornFacts`, `CommitClears`). With these every word is at the
head, on the Mac, in a row or spent (`Live`), which is `NothingLost`.

`NoSelfCopy` needs to know that a hosted note of the phone's words alone (`Own`,
`Homely`) is one the phone put there. `Apart` says why no push makes one: what
HEAD changed of the hosted commit under it, it changed with a word that neither
the vault nor the phone has, and the working tree against HEAD likewise; a merge
on either side keeps that word. So `KnowsHead` holds: where the head is of the
phone's words, it is the mirror if no row waits, the base of a text that was not
sent, or the base or the text of the set that was. A set that conflicts then meets
a word of another device (`MeetsForeign`), and its copy is what it met
(`CopiesForeign`). `Alternates` says that a text and a remove take turns in the
queue, so that behind another row a text starts from nothing. The assumptions are
those in `Notes` and `VaultSync`.

## What is only model-checked

What must happen in the end: `RequestsSettle` and `MarkedIsTakenBack` of
`PhoneRequests`, `TurnsEnd` of `ThreadTurns`, `Converges` and `RevocationEnds` of
`ThreadSync`. Liveness under fairness is beyond the prover. Every safety property
that a run shows is also proved.

## The findings

`sync_credential_not_kept`: `adoptCredential` (`sync-runtime.ts:412-414`) resets
the queue and the positions and then writes the new credential. If the write
throws or the process dies between the two, the old credential remains and the
counter starts again at zero under the old device, although
`sync-schema.ts:4` says positions strictly increase per device. Two events are
then issued one position. The reset also takes back the cursor and the record of
skipped rows, under a pull of the session that goes on: with three sign-ins that
pull moves the cursor past rows whose record is gone. The other runs of safety
properties, and the theorems that need it, assume that a credential is kept, so
that they say what holds otherwise.

`sync_overtaken`: one device's positions only grow, so the log refuses what
arrives behind a later push. Across two sign-ins of one install nothing does. A
push of a turn's start stalls between the Worker and the object; the install
signs in again and pushes the turn's content under its new device; another
install pulls that, has no start for it and moves its cursor past it for good.
Then the start lands there. The comment in `applyStep` (`sync-pass.ts:163-164`)
says the refused event is content "whose turn/started never arrived".
`CursorHonest` states what does hold: the log itself had the start, if at all,
only after the content. The content is not lost for every cursor: an install that
signs in again reads the log from its beginning, has the start by then, and lands
the content behind later events of its device. `LandsInOrder` says so; it takes
four sign-ins and three events, more than `sync` has room for.

`phone_approval_left`: a Mac offers an approval, the inbox stores it, and the
answer is lost or the Mac restarts before it marks the interaction. If the
interaction settles before the next pass, it is neither pending (so it is not
offered again) nor marked (so it is not closed). The comment above
`relayApprovals` (`sync-pass.ts:355-358`) says it is taken back however it
settled and that a lost answer is asked again. The phone lists it for good.
`MarkedIsTakenBack` is what does hold: once marked, it is taken back, unless the
list stays full.

`dispatch_ack`: an ack is answered "recorded" when the row's token is its own,
whoever settled the row. A claim that lapsed keeps its token in the row;
`closeApprovalRow` may refuse the row then. `dispatch-schema.ts:173` says
recorded means that this claim settled it.

Two more places where the code does less than its comments say have no run of
their own; the properties name them.

* `adoptCredential` stops the poll, the debounce and the socket before it resets
  the queue and writes the credential (`sync-runtime.ts:412-414`). If the write
  throws, the old session stays live, but only a write that succeeded (423) or the
  next start of the process (582) arms the poll and connects again. An append still
  starts a pass by its debounce; otherwise the install is signed in and reads
  nothing more, although `sync-cadence.ts:3` says of the poll that it makes sync
  correct when the socket is down. `Converges` is what does hold: an install that
  stays signed in with its poll armed catches up.
* `relayApprovals` offers before it takes back, and a refused offer ends the pass
  there (`sync-pass.ts:375-377`). The inbox refuses one when `APPROVAL_MAX_OPEN`
  (100) approvals are not closed (`dispatch-inbox.ts:457`). If those have settled on
  this Mac and it has one more to offer, every pass ends at the refusal, and what
  would make room is never closed, although the comment above says that it is taken
  back however it settled. It ends when the pending one is decided at the Mac, or by
  a change of the choice. `MarkedIsTakenBack` leaves out the Mac that keeps finding
  the list full (`Crowded`).

## What is left of the plan

The moves of a path: renames, the asset puts of the phone and the comment stores,
each with the conflicts of its own that the vault's endpoint knows.

## What is not modelled, and why

* Passwords, invites, request budgets and the device cap decide who may sign in;
  they do not touch what the models hold.
* Sockets and pings only start a pass earlier than the poll would.
* The phone's sign-ins and their fence, the dismissal of refused requests, the
  list of approvals it polls, and the throttles of the Worker: a phone here is
  one sign-in.
* Bodies of events, their clipping to the size limit and the timeline views: the
  cloud never reads a body, and no property depends on one.
* A row filed under a thread its event does not name is skipped like an own row,
  for good and without a record; no install writes one.
* Of a thread: titles and metadata, the edits and reorderings of its queue, a
  refusal for an expected turn that is another, several pulled rows in one
  transaction (each has the effect of its own), and an orderly shutdown, which
  does less than the crash that is modelled.
* The protocol spoken with a provider and the coalescing of its events: what a
  turn says does not move it, except that it began, asks, and ended.
* Of the vault: renames, comments, assets and the parked rows of a refused put;
  the names of copies (a copy is its text); the union merge of the Inbox and the
  rules for dot folders and comment stores; sign-outs; the memos of a refused push
  and of a failed merge, which are about sizes and about what git will not merge;
  overlapping turns; a rebase commit by commit, which leaves the note the verdict
  on its ends leaves; commits that change another file.
* The vault service, knowledge index, undo, connectors, comments, editor, phone
  screens and desktop shell are input and output over state that the modelled
  parts do not share, or caches rebuilt from it.
