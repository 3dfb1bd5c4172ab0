----------------------------- MODULE PhoneNotes -----------------------------
(***************************************************************************)
(* A phone's write queue and its mirror of the vault, for one note:        *)
(* apps/mobile/src/notes (notes-store.ts, vault-outbox.ts,                 *)
(* outbox-reconcile.ts, vault-mirror.ts).                                  *)
(*                                                                         *)
(* The rows and the mirror are the phone's database: they outlive the app, *)
(* and each step below is one of its transactions.  A pass of the queue    *)
(* waits on the network between two of them, while the person goes on      *)
(* writing.                                                                *)
(***************************************************************************)
EXTENDS HostedVault

CONSTANT MaxRows \* bound: the rows that wait at once

VARIABLES
  mirror,      \* the note's mirror row
  rows,        \* the outbox, oldest first
  pass,        \* where the pass waits, the row it read, and what the vault answered of the note
  walk,        \* a refresh: the note as it was listed, and whether a write landed since the mark
  late,        \* sets the pass gave up on that may still reach the vault
  detours,     \* history: what came about beside a row's own pass, see Detours
  rebasedOver  \* history: words of a landed merge that a later edit here was laid over

\* A set the pass gave up on landed after all; a delete gave way to a version it did not know.
Detours == {"ranLate", "gaveWay"}
Takes(detour) == detours' = detours \cup {detour}

queue == <<rows, pass>>
phone == <<mirror, queue, walk, late, detours, rebasedOver>>

\* "against", "set", "mine" and "reported" of a row's settle.
Settle(against, set, mine, reported) ==
  [against |-> against, set |-> set, mine |-> mine, reported |-> reported]
NoSettle == Settle(Absent, NoSet, Absent, FALSE)

\* A write, or a create where base is Absent; a remove has no content.
Row(op, base, content, settle) == [op |-> op, base |-> base, content |-> content, settle |-> settle]
TextRow(base, content) == Row("text", base, content, NoSettle)
RemoveRow(base) == Row("remove", base, Absent, NoSettle)
NoRow == RemoveRow(Absent)

Waits(pc, row, seen) == [pc |-> pc, row |-> row, seen |-> seen]
Resting == Waits("idle", NoRow, Absent)
NoWalk == [listed |-> FALSE, seen |-> Absent, stamped |-> FALSE]
-----------------------------------------------------------------------------
(* The person. *)

\* What the phone shows: the rows laid over the mirror.
Shown == IF rows = <<>> THEN mirror ELSE rows[Len(rows)].content

WithLast(row) == [rows EXCEPT ![Len(rows)] = row]
WithFirst(row) == [rows EXCEPT ![1] = row]

\* A write joins the text row it finds last, whose set stands as it was pinned; any other change is
\* a row of its own.
Enqueued(after) ==
  IF after # Absent /\ rows # <<>> /\ rows[Len(rows)].op = "text"
  THEN WithLast([rows[Len(rows)] EXCEPT !.content = after])
  ELSE Append(rows, IF after = Absent THEN RemoveRow(Shown) ELSE TextRow(Shown, after))

Writes ==
  \E after \in EditsOf(Shown) :
    /\ Edits("phone", Shown, after)
    /\ rows' = Enqueued(after)
    /\ Len(rows') <= MaxRows
    /\ UNCHANGED <<hosted, mirror, pass, walk, late, detours, rebasedOver>>
-----------------------------------------------------------------------------
(* The pass. *)

FirstSet(row) == Settle(Absent, ChangeSet(row.base, row.content, {}), row.content, FALSE)
Pinned(row) == [row EXCEPT !.settle = FirstSet(row)]

\* pinnedPut: the row's settle is its first set, not one a conflict made.
PinnedPut(row) ==
  /\ row.op = "text" /\ row.settle # NoSettle
  /\ row.settle.against = Absent /\ ~row.settle.reported
  /\ row.settle.set = ChangeSet(row.base, row.settle.set.text, {})

SetOf(row) == IF row.settle # NoSettle THEN row.settle.set ELSE ChangeSet(row.base, Absent, {})
MineOf(row) == row.settle.mine

Foremost == rows[1]
PassAt(pc) == pass.pc = pc

\* sendRow: a text is pinned before it is first sent.
SendPinned ==
  /\ PassAt("idle") /\ rows # <<>>
  /\ Foremost.op = "text" /\ Foremost.settle = NoSettle
  /\ rows' = WithFirst(Pinned(Foremost))
  /\ pass' = Waits("sent", Pinned(Foremost), Absent)
  /\ UNCHANGED <<vault, left, mirror, walk, late, detours, rebasedOver>>

WrittenPast(row) == PinnedPut(row) /\ row.content # row.settle.mine

\* repinUnlanded asks the head first where the person wrote past a pinned first set.
AskHead ==
  /\ PassAt("idle") /\ rows # <<>> /\ WrittenPast(Foremost)
  /\ pass' = Waits("asked", Foremost, HeadTree.note)
  /\ UNCHANGED <<vault, left, rows, mirror, walk, late, detours, rebasedOver>>

\* Faulty: a set written past is always made anew from the text as it is.
RepinAlways ==
  /\ PassAt("asked")
  /\ rows' = WithFirst(Pinned(Foremost))
  /\ pass' = Waits("sent", Pinned(Foremost), Absent)
  /\ UNCHANGED <<vault, left, mirror, walk, late, detours, rebasedOver>>

\* A set that never landed is made anew from the text as it is; any other is resent as it was.
Repin ==
  /\ PassAt("asked")
  /\ \/ /\ pass.seen = pass.row.settle.set.base
        /\ rows' = WithFirst(Pinned(Foremost))
        /\ pass' = Waits("sent", Pinned(Foremost), Absent)
     \/ /\ pass.seen # pass.row.settle.set.base
        /\ pass' = Waits("sent", pass.row, Absent)
        /\ UNCHANGED rows
  /\ UNCHANGED <<vault, left, mirror, walk, late, detours, rebasedOver>>

Resend ==
  /\ PassAt("idle") /\ rows # <<>>
  /\ Foremost.op = "remove" \/ Foremost.settle # NoSettle
  /\ ~WrittenPast(Foremost)
  /\ pass' = Waits("sent", Foremost, Absent)
  /\ UNCHANGED <<vault, left, rows, mirror, walk, late, detours, rebasedOver>>

\* The vault's answer is on its way back.
VaultRuns ==
  /\ PassAt("sent")
  /\ LET set == SetOf(pass.row)
     IN  /\ CommitChanges(set)
         /\ pass' = Waits(IF Conflicts(set) THEN "conflict" ELSE "committed", pass.row, HeadTree.note)
  /\ UNCHANGED <<wrote, superseded, left, rows, mirror, walk, late, detours, rebasedOver>>

Stamped == [walk EXCEPT !.stamped = walk.listed]

\* Faulty: the row goes with the set it sent, whatever was written since.
SettleRowWhole(mine, landed) ==
  /\ mirror' = landed
  /\ walk' = Stamped
  /\ pass' = Resting
  /\ rows' = Tail(rows)
  /\ UNCHANGED <<vault, left, late, rebasedOver>>

\* remainderOf: a text written while its row was out, as an edit of what landed; the line merge keeps
\* its own side where the two overlap.  Over a landed delete the row starts again as it is.
Remainder(row, mine, landed) ==
  IF landed = Absent THEN [row EXCEPT !.settle = NoSettle]
  ELSE TextRow(landed, Merged(mine, row.content, landed))

RebasedOver(row, mine, landed) ==
  IF landed = Absent THEN {}
  ELSE {<<l, landed[l]>> : l \in {k \in Lines : OverlapAt(mine, row.content, landed, k)}}

\* settleRow: the mirror takes what landed, and the row goes unless it was written past.
SettleRow(mine, landed) ==
  /\ mirror' = landed
  /\ walk' = Stamped
  /\ pass' = Resting
  /\ \/ /\ Foremost.op = "text" /\ Foremost.content # mine
        /\ rows' = WithFirst(Remainder(Foremost, mine, landed))
        /\ rebasedOver' = rebasedOver \cup RebasedOver(Foremost, mine, landed)
     \/ /\ Foremost.op = "text" => Foremost.content = mine
        /\ rows' = Tail(rows)
        /\ UNCHANGED rebasedOver
  /\ UNCHANGED <<vault, left, late>>

Landed ==
  /\ PassAt("committed")
  /\ SettleRow(MineOf(pass.row), SetOf(pass.row).text)
  /\ UNCHANGED detours

\* reconcileText, reconcileRemove: mine is the row's own text as the pass read it, theirs what the
\* conflict found.
VerdictOn(row, theirs) == Reconciled(row.base, row.content, theirs)

Resolution(row, theirs) ==
  LET v == VerdictOn(row, theirs)
  IN  Settle(theirs, ChangeSet(theirs, v.stays, {v.copy} \ {Absent}), row.content,
             v.copy # Absent \/ KeptEdit(row.base, row.content, theirs))

\* The verdict leaves the vault's own version: it lands here and nothing is sent.
ResolvedLocally ==
  /\ PassAt("conflict")
  /\ VerdictOn(pass.row, pass.seen).stays = pass.seen
  /\ SettleRow(pass.row.content, pass.seen)
  /\ IF pass.row.op = "remove" THEN Takes("gaveWay") ELSE UNCHANGED detours

\* The verdict's set is kept on the row before it is sent, whatever was written meanwhile.
ResolvedToSend ==
  /\ PassAt("conflict")
  /\ VerdictOn(pass.row, pass.seen).stays # pass.seen
  /\ rows' = WithFirst([Foremost EXCEPT !.settle = Resolution(pass.row, pass.seen)])
  /\ pass' = Resting
  /\ UNCHANGED <<vault, left, mirror, walk, late, detours, rebasedOver>>
-----------------------------------------------------------------------------
(* The refresh. *)

\* Bound: a listing that could change nothing is left out.
List ==
  /\ ~walk.listed
  /\ HeadTree.note # mirror \/ rows # <<>>
  /\ walk' = [listed |-> TRUE, seen |-> HeadTree.note, stamped |-> FALSE]
  /\ UNCHANGED <<vault, left, mirror, queue, late, detours, rebasedOver>>

\* applyTree: a path a write landed on since the mark keeps what that landing left.
ApplyTree ==
  /\ walk.listed
  /\ mirror' = IF walk.stamped THEN mirror ELSE walk.seen
  /\ walk' = NoWalk
  /\ UNCHANGED <<vault, left, queue, late, detours, rebasedOver>>
-----------------------------------------------------------------------------
(* What goes wrong. *)

\* The pass hears nothing, or the app is killed; a request not yet run may still arrive.
GivesUp ==
  /\ ~PassAt("idle") /\ Spends("lost")
  /\ pass' = Resting
  /\ late' = IF PassAt("sent") THEN late \cup {SetOf(pass.row)} ELSE late
  /\ UNCHANGED <<vault, rows, mirror, walk, detours, rebasedOver>>

RunsLate ==
  \E set \in late :
    /\ CommitChanges(set)
    /\ late' = late \ {set}
    /\ Takes("ranLate")
    /\ UNCHANGED <<wrote, superseded, left, mirror, queue, walk, rebasedOver>>
-----------------------------------------------------------------------------
Init ==
  /\ mirror = HeadTree.note
  /\ rows = <<>> /\ pass = Resting
  /\ walk = NoWalk
  /\ late = {} /\ detours = {}
  /\ rebasedOver = {}

Pass ==
  \/ SendPinned \/ AskHead \/ Repin \/ Resend
  \/ VaultRuns \/ Landed \/ ResolvedLocally \/ ResolvedToSend

Next == Writes \/ Pass \/ List \/ ApplyTree \/ GivesUp \/ RunsLate

Rows == [op : {"text", "remove"}, base : Sides, content : Sides,
         settle : [against : Sides, set : ChangeSets, mine : Sides, reported : BOOLEAN]]

TypeOK ==
  /\ mirror \in Sides
  /\ rows \in Seq(Rows) /\ Len(rows) <= MaxRows
  /\ \A i \in DOMAIN rows : rows[i].op = "text" <=> rows[i].content # Absent
  /\ pass \in [pc : {"idle", "asked", "sent", "conflict", "committed"}, row : Rows, seen : Sides]
  /\ walk \in [listed : BOOLEAN, seen : Sides, stamped : BOOLEAN]
  /\ late \subseteq ChangeSets /\ detours \subseteq Detours
  /\ rebasedOver \subseteq Lines \X Words
=============================================================================
