------------------------------- MODULE Notes -------------------------------
(***************************************************************************)
(* A note as the code that settles two versions of it sees one: lines far  *)
(* enough apart that the line merge takes each on its own, each holding a  *)
(* word, and a new word for every edit.  A blob's oid names its bytes, so  *)
(* here a text is its own oid.                                             *)
(*                                                                         *)
(* A definition marked "Faulty" is no part of the specification: see       *)
(* AccountLog.                                                             *)
(***************************************************************************)
EXTENDS Naturals

CONSTANTS
  Lines,
  Absent \* no file at the path

Words == Nat \ {0}
Text == [Lines -> Words]

ASSUME LinesAssumption == Lines # {}
ASSUME AbsentAssumption == Absent \notin Text

Sides == Text \cup {Absent}

\* An absent file merges as an empty one.
NoWord == 0
At(side, l) == IF side = Absent THEN NoWord ELSE side[l]

Edited(text, l, w) == [text EXCEPT ![l] = w]
Pairs(side) == IF side = Absent THEN {} ELSE {<<l, side[l]>> : l \in Lines}

\* diff3: a line one side changed is that side's; where both did, mine stays.
Merged(base, mine, theirs) ==
  [l \in Lines |-> IF mine[l] = At(base, l) THEN theirs[l] ELSE mine[l]]

OverlapAt(base, mine, theirs, l) ==
  /\ mine[l] # At(base, l) /\ theirs[l] # At(base, l)
  /\ mine[l] # theirs[l]

Overlap(base, mine, theirs) == \E l \in Lines : OverlapAt(base, mine, theirs, l)

Verdict(stays, copy) == [stays |-> stays, copy |-> copy]

\* reconcileFile for a note: what stays at the path, and the whole of theirs beside it where the
\* two changed one line.
Reconciled(base, mine, theirs) ==
  IF mine = theirs \/ theirs = base THEN Verdict(mine, Absent)
  ELSE IF mine \in {base, Absent}   THEN Verdict(theirs, Absent)
  ELSE IF theirs = Absent           THEN Verdict(mine, Absent)
  ELSE Verdict(Merged(base, mine, theirs),
               IF Overlap(base, mine, theirs) THEN theirs ELSE Absent)

\* A delete beside an edit, on either side: the report every device shows, and no copy.
KeptEdit(base, mine, theirs) ==
  /\ mine # theirs /\ theirs # base /\ mine # base
  /\ Absent \in {mine, theirs}

\* A vault's tree: the note, and the copies conflicts left beside it, each under a free name.
Trees == [note : Sides, copies : SUBSET Text]
Tree(note, copies) == [note |-> note, copies |-> copies]
=============================================================================
