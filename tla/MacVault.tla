------------------------------ MODULE MacVault ------------------------------
(***************************************************************************)
(* A Mac's vault, for one note: the working tree people and agents write,  *)
(* the commits made of it and the sync passes that rebase or merge, and    *)
(* push (apps/cli/src/server/vault: git-engine.ts, git-commits.ts,         *)
(* git-merge.ts; agents/agent-commits.ts).                                 *)
(*                                                                         *)
(* The engine's lock is a queue: what holds it is one step, except an      *)
(* integration, which a death may cut.  The network steps of a pass are    *)
(* off the lock.                                                           *)
(***************************************************************************)
EXTENDS HostedVault

VARIABLES
  up,
  work,       \* the working tree
  head,       \* the tree of HEAD
  base,       \* the newest commit of the hosted branch that HEAD descends from
  tracking,   \* the hosted commit of the last fetch
  midway,     \* git stands in a rebase or a merge
  turn,       \* no turn, one that "holds" commits, or one that "writes", since this word
  engine,     \* where the pass waits, whether it is forced, and what it concluded
  requested,  \* forceNetwork and syncAgain, raised by whoever joins a running pass
  owed,       \* history: the hosted commits when somebody last joined the running pass
  discarded   \* history: the words an abort took out of the working tree, each at its line

tree == <<work, head, midway, discarded>>
mac == <<up, tree, base, tracking, turn, engine, requested, owed>>

\* engine.stopped: the pass met the hold of a turn.
Engine(pc, forced, outcome, stopped) ==
  [pc |-> pc, forced |-> forced, outcome |-> outcome, stopped |-> stopped]
NoSync(outcome) == Engine("idle", FALSE, outcome, FALSE)
NothingAsked == [force |-> FALSE, again |-> FALSE]

\* Faulty: whoever joins a pass is answered by it.
JoinedAlone == [force |-> TRUE, again |-> FALSE]

Joined == [force |-> TRUE, again |-> TRUE]

Turn(phase, since) == [phase |-> phase, since |-> since]
NoTurn == Turn("none", 0)
Held == turn.phase # "none"
LockFree == up /\ engine.pc # "integrates"
Stands(pc) == up /\ engine.pc = pc
Goes(pc) == engine' = [engine EXCEPT !.pc = pc]
Ends(outcome) == engine' = [engine EXCEPT !.pc = "ended", !.outcome = outcome]

\* The top of requestSync's loop takes what was asked so far.
Begins(forced) ==
  /\ engine' = Engine("gate", forced, engine.outcome, FALSE)
  /\ requested' = NothingAsked

\* Git writes its markers over the note while it stands between the two histories.
Torn == Tree([l \in Lines |-> NoWord], {})

\* That note, and what anybody makes of it.
TornTrees == [note : [Lines -> Words \cup {NoWord}] \cup {Absent}, copies : {{}}]
-----------------------------------------------------------------------------
(* Commits. *)

\* Faulty: a commit takes the working tree as a crash left it.
CommitOverInterrupted == head' = work /\ midway' = FALSE /\ UNCHANGED <<work, discarded>>

\* clearInterruptedIntegration, then commitIfDirty or commitPathsIfDirty: a commit first gives up
\* the integration a crash left open, and with it whatever was written over it since.
Commit ==
  IF midway
  THEN /\ work' = head /\ midway' = FALSE
       /\ discarded' = discarded \cup {pair \in Pairs(work.note) : pair[2] # NoWord}
       /\ UNCHANGED head
  ELSE head' = work /\ UNCHANGED <<work, midway, discarded>>

\* The debounce that follows a write, and the boot; a hold defers it.
Flush ==
  /\ LockFree /\ ~Held
  /\ midway \/ head # work
  /\ Commit
  /\ UNCHANGED <<vault, left, up, base, tracking, turn, engine, requested, owed>>

\* Also over what a cut integration left in the tree, until a commit gives it up.
Writes(who) ==
  /\ LockFree
  /\ \E after \in EditsOf(work.note) :
       /\ Edits(who, work.note, after)
       /\ work' = [work EXCEPT !.note = after]
  /\ UNCHANGED <<hosted, up, head, midway, discarded, base, tracking, turn>>
  /\ UNCHANGED <<engine, requested, owed>>

UserWrites == Writes("user")
-----------------------------------------------------------------------------
(* A turn's writes. *)

\* beginAgentTurnWrites: the hold is taken at once, and the checkpoint waits for the lock.
TurnHolds ==
  /\ up /\ ~Held /\ Spends("turn")
  /\ turn' = Turn("holds", 0)
  /\ UNCHANGED <<vault, up, tree, base, tracking, engine, requested, owed>>

\* commitUnclaimed: the user's edits so far; the agent writes once it is done.
TurnReady ==
  /\ LockFree /\ turn.phase = "holds"
  /\ Commit
  /\ turn' = Turn("writes", Word)
  /\ UNCHANGED <<vault, left, up, base, tracking, engine, requested, owed>>

AgentWrites == turn.phase = "writes" /\ Writes("agent")

\* finish: the turn's own commit, and the hold is let go.
TurnEnds ==
  /\ LockFree /\ turn.phase = "writes"
  /\ Commit
  /\ turn' = NoTurn
  /\ UNCHANGED <<vault, left, up, base, tracking, engine, requested, owed>>
-----------------------------------------------------------------------------
(* A pass. *)

\* requestSync of a ping, a save's push or the boot: it starts a pass, or has the running one run
\* again.
Asks ==
  /\ up /\ Spends("ask")
  /\ IF engine.pc = "idle" THEN Begins(TRUE) ELSE requested' = Joined /\ UNCHANGED engine
  /\ owed' = Len(hosted)
  /\ UNCHANGED <<vault, up, tree, base, tracking, turn>>

\* The timer's tick joins a running pass with nothing to add.  Bound: one that would find nothing
\* to do is left out.
Ticks ==
  /\ Stands("idle") /\ Begins(FALSE)
  /\ work # HeadTree \/ tracking # Len(hosted)
  /\ owed' = 1
  /\ UNCHANGED <<vault, left, up, tree, base, tracking, turn>>

InSync == base = tracking /\ head' = hosted[tracking]

\* quietTickCanWait excuses an unforced tick whose last pass ended clean a short while ago.
Excused == engine.outcome = "none" /\ ~engine.forced /\ InSync

\* The loop begins nothing under a hold, and answers that it is held.
Refuses ==
  /\ Stands("gate") /\ Held
  /\ Goes("refused")
  /\ UNCHANGED <<vault, left, up, tree, base, tracking, turn, requested, owed>>

\* preparePass: the dirty tree is committed first.
Prepares ==
  /\ Stands("gate") /\ ~Held
  /\ Commit
  /\ Goes("fetches") \/ (Excused /\ Goes("ended"))
  /\ UNCHANGED <<vault, left, up, base, tracking, turn, requested, owed>>

Fetches ==
  /\ Stands("fetches")
  /\ tracking' = Len(hosted)
  /\ engine' = [engine EXCEPT !.pc = "fetched", !.outcome = "none"]
  /\ UNCHANGED <<vault, left, up, tree, base, turn, requested, owed>>

FetchFails ==
  /\ Stands("fetches") /\ Spends("fails")
  /\ Ends("unreachable")
  /\ UNCHANGED <<vault, up, tree, base, tracking, turn, requested, owed>>

\* integrateFetched stops where a turn took its hold during the fetch.
StopsForHold ==
  /\ Stands("fetched") /\ Held
  /\ engine' = [engine EXCEPT !.pc = "ended", !.stopped = TRUE]
  /\ UNCHANGED <<vault, left, up, tree, base, tracking, turn, requested, owed>>

\* A save made during the fetch is committed, and the fetched commit is integrated where HEAD does
\* not hold it; a HEAD that is the fetched commit has nothing to push.
Begun ==
  LET apart == tracking > base
  IN  /\ head' = work
      /\ work' = IF apart THEN Torn ELSE work
      /\ midway' = apart
      /\ Goes(IF apart THEN "integrates" ELSE IF InSync THEN "ended" ELSE "pushes")
      /\ UNCHANGED <<vault, left, up, discarded, base, tracking, turn, requested, owed>>

\* Faulty: the pass goes on over a hold taken during the fetch.
IntegratesUnderHold == Stands("fetched") /\ Begun

Integrates == Stands("fetched") /\ ~Held /\ Begun

\* A rebase, or the merge that settles what stopped it: the same verdict for the note either way,
\* and theirs beside it where the two changed one line.
Settled(mine, theirs) ==
  LET v == Reconciled(hosted[base].note, mine.note, theirs.note)
  IN  Tree(v.stays, mine.copies \cup theirs.copies \cup ({v.copy} \ {Absent}))

IntegrationLands ==
  /\ Stands("integrates")
  /\ head' = Settled(head, hosted[tracking])
  /\ work' = head' /\ midway' = FALSE
  /\ base' = tracking
  /\ Goes(IF head' = hosted[tracking] THEN "ended" ELSE "pushes")
  /\ UNCHANGED <<vault, left, up, discarded, tracking, turn, requested, owed>>

\* git refused, and what was begun is aborted.
IntegrationFails ==
  /\ Stands("integrates") /\ Spends("fails")
  /\ work' = head /\ midway' = FALSE
  /\ Ends("stalled")
  /\ UNCHANGED <<vault, up, head, discarded, base, tracking, turn, requested, owed>>

\* A push lands on the head it was made for; its answer may be lost.
Pushes ==
  /\ Stands("pushes") /\ Len(hosted) = base
  /\ hosted' = Append(hosted, head)
  /\ base' = Len(hosted')
  /\ \/ tracking' = base' /\ Ends("none") /\ UNCHANGED left
     \/ UNCHANGED tracking /\ Ends("unreachable") /\ Spends("fails")
  /\ UNCHANGED <<wrote, superseded, up, tree, turn, requested, owed>>

\* A push that lost the race is no failure: the next pass takes the commit that won.
LosesRace ==
  /\ Stands("pushes") /\ Len(hosted) # base
  /\ Ends("none")
  /\ UNCHANGED <<vault, left, up, tree, base, tracking, turn, requested, owed>>

\* Whoever waits is answered, unless somebody joined since the pass began.
Repeats ==
  /\ Stands("ended") /\ requested.again
  /\ Begins(requested.force)
  /\ UNCHANGED <<vault, left, up, tree, base, tracking, turn, owed>>

Answers ==
  /\ Stands("refused") \/ (Stands("ended") /\ ~requested.again)
  /\ engine' = NoSync(engine.outcome)
  /\ UNCHANGED <<vault, left, up, tree, base, tracking, turn, requested, owed>>
-----------------------------------------------------------------------------
\* What is written stays; the boot starts a pass and a flush.
Dies ==
  /\ up /\ Spends("dies")
  /\ up' = FALSE
  /\ turn' = NoTurn
  /\ engine' = NoSync("none")
  /\ requested' = NothingAsked
  /\ UNCHANGED <<vault, tree, base, tracking, owed>>

Boots ==
  /\ ~up /\ up' = TRUE
  /\ Begins(TRUE)
  /\ owed' = Len(hosted)
  /\ UNCHANGED <<vault, left, tree, base, tracking, turn>>
-----------------------------------------------------------------------------
Init ==
  /\ up = TRUE
  /\ work = HeadTree /\ head = HeadTree /\ midway = FALSE /\ discarded = {}
  /\ base = Len(hosted) /\ tracking = Len(hosted)
  /\ turn = NoTurn
  /\ engine = NoSync("none") /\ requested = NothingAsked
  /\ owed = 1

TurnSteps == TurnHolds \/ TurnReady \/ AgentWrites \/ TurnEnds

Pass ==
  \/ Refuses \/ Prepares \/ Fetches \/ FetchFails \/ StopsForHold \/ Integrates
  \/ IntegrationLands \/ IntegrationFails \/ Pushes \/ LosesRace
  \/ Repeats \/ Answers

Next == UserWrites \/ Flush \/ TurnSteps \/ Asks \/ Ticks \/ Pass \/ Dies \/ Boots

TypeOK ==
  /\ up \in BOOLEAN /\ midway \in BOOLEAN
  /\ head \in Trees
  /\ work \in IF midway THEN TornTrees ELSE Trees
  /\ discarded \subseteq Lines \X Words
  /\ base \in DOMAIN hosted /\ tracking \in DOMAIN hosted
  /\ turn \in [phase : {"none", "holds", "writes"}, since : Nat]
  /\ engine \in [pc : {"idle", "gate", "fetches", "fetched", "integrates", "pushes", "ended", "refused"},
                 forced : BOOLEAN, outcome : {"none", "unreachable", "stalled"}, stopped : BOOLEAN]
  /\ requested \in [force : BOOLEAN, again : BOOLEAN]
  /\ owed \in DOMAIN hosted
=============================================================================
