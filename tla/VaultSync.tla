----------------------------- MODULE VaultSync -----------------------------
(***************************************************************************)
(* A phone and a Mac that share a note through the hosted vault.           *)
(***************************************************************************)
EXTENDS HostedVault

CONSTANTS
  MaxRows, \* bound: see PhoneNotes
  Scenes   \* bound: how often each may act; a behaviour stays in one of them

Kinds == {"phone", "lost", "user", "turn", "agent", "ask", "fails", "dies"}
ASSUME MaxRowsAssumption == MaxRows \in Nat
ASSUME ScenesAssumption == Scenes \subseteq [Kinds -> Nat]

VARIABLES mirror, rows, pass, walk, late, detours, rebasedOver
VARIABLES up, work, head, base, tracking, midway, turn, engine, requested, owed, discarded

Phone == INSTANCE PhoneNotes
Mac == INSTANCE MacVault

ofPhone == <<mirror, rows, pass, walk, late, detours, rebasedOver>>
ofMac == <<up, work, head, base, tracking, midway, turn, engine, requested, owed, discarded>>
vars == <<hosted, wrote, superseded, left, ofPhone, ofMac>>

Init ==
  /\ hosted = <<Tree([l \in Lines |-> 1], {})>>
  /\ wrote = <<[by |-> "first", on |-> Lines]>>
  /\ superseded = {}
  /\ left \in Scenes
  /\ Phone!Init /\ Mac!Init

PhoneSteps == Phone!Next /\ UNCHANGED ofMac
MacSteps == Mac!Next /\ UNCHANGED ofPhone

Next == PhoneSteps \/ MacSteps

Spec == Init /\ [][Next]_vars
-----------------------------------------------------------------------------
\* Every variable has its type; in particular no commit holds the marks of an integration that a
\* death of the engine cut (git-engine.ts:287, clearInterruptedIntegration).
TypeOK ==
  /\ \A i \in DOMAIN hosted : hosted[i] \in Trees
  /\ left \in [Kinds -> Nat]
  /\ Phone!TypeOK /\ Mac!TypeOK

HeldBy(t) == Pairs(t.note) \cup UNION {Pairs(copy) : copy \in t.copies}
OfRow(row) == UNION {Pairs(side) : side \in {row.content, row.settle.set.text} \cup row.settle.set.copies}

Found ==
  HeldBy(HeadTree) \cup HeldBy(head) \cup HeldBy(work)
  \cup UNION {OfRow(rows[i]) : i \in DOMAIN rows}

\* Whatever a person or an agent wrote is in the note, in a copy beside it, or on its way there, on
\* some device or in the vault, unless somebody who had read it replaced it: whoever else wrote,
\* and however the requests, the integrations and the crashes fell.  With two exceptions: what a
\* landed merge brought while the person went on writing on the phone may be written over
\* (remainderOf); and what somebody writes on a Mac over an integration that a crash cut goes with
\* it when the next commit aborts it (git-engine.ts, clearInterruptedIntegration).
NothingLost ==
  \A i \in DOMAIN wrote : \A l \in wrote[i].on :
    <<l, i>> \in Found \cup superseded \cup rebasedOver \cup discarded

Foreign(w) == wrote[w].by \notin {"phone", "first"}

\* A copy the phone leaves beside the note holds something another device wrote: its own earlier
\* text, in a set that landed with no answer, is never copied beside what it wrote since, for "the
\* head says whether it ever reached the vault" (vault-outbox.ts:675, repinUnlanded).  Only a note
\* written again behind a delete that gave way to another version may find there what the phone's
\* own merge had made of that version.
CopiesAreForeign ==
  \A i \in DOMAIN rows : \A copy \in rows[i].settle.set.copies :
    \/ \E l \in Lines : Foreign(copy[l])
    \/ rows[i].base = Absent /\ "gaveWay" \in detours

\* The same as long as no request the phone gave up on ran later: one that runs after the head was
\* asked puts the earlier text where the newer one then conflicts with it, and is copied beside it.
NoSelfCopy == "ranLate" \notin detours => CopiesAreForeign

\* While a turn writes, neither HEAD nor the hosted vault holds what it wrote: no debounce and no
\* pass takes the agent's half-done writes into a commit of the engine's
\* (agents/agent-commits.ts:1, git-engine.ts integrateFetched).
TurnsOwnWrites ==
  turn.phase = "writes" =>
    \A pair \in HeldBy(head) \cup HeldBy(HeadTree) :
      pair[2] < turn.since \/ wrote[pair[2]].by # "agent"

\* Whoever is answered by a pass that met no turn's hold and ended well has every commit that was
\* hosted when they asked, also where they joined a pass that had already fetched (git-engine.ts,
\* requestSync).  One that a hold stopped or refused may answer clean without them all the same, when
\* the hold is let go before statusSnapshot asks for it (git-engine.ts:838).
SyncIsFresh ==
  [][ Mac!Answers /\ engine.pc = "ended" /\ ~engine.stopped /\ engine.outcome = "none"
      => base >= owed ]_vars
=============================================================================
