---------------------------- MODULE NotesProofs ----------------------------
(***************************************************************************)
(* What holds of the verdict on three versions of a note, whatever they    *)
(* are.  A phone and a Mac reach it by different ways and with different   *)
(* sides as mine.                                                          *)
(***************************************************************************)
EXTENDS Notes, TLAPS

LEMMA AtOfText ==
  ASSUME NEW side \in Text PROVE \A l \in Lines : At(side, l) = side[l] /\ At(side, l) # NoWord
BY AbsentAssumption DEF At, Text, Words, NoWord

LEMMA MergedIsText ==
  ASSUME NEW base \in Sides, NEW mine \in Text, NEW theirs \in Text
  PROVE  Merged(base, mine, theirs) \in Text
BY DEF Merged, Text

\* The cases of the verdict that merge no lines.
LEMMA VerdictCases ==
  ASSUME NEW base, NEW mine, NEW theirs
  PROVE  LET v == Reconciled(base, mine, theirs)
         IN  /\ mine = theirs \/ theirs = base => v = Verdict(mine, Absent)
             /\ theirs # base /\ mine = base => v = Verdict(theirs, Absent)
             /\ theirs # base /\ mine # base /\ mine = Absent => v = Verdict(theirs, Absent)
             /\ theirs # base /\ mine # Absent /\ mine # base /\ theirs = Absent
                  => v = Verdict(mine, Absent)
BY DEF Reconciled

\* The last case of the verdict is reached by two texts that both differ from the base.
LEMMA VerdictOnTexts ==
  ASSUME NEW base \in Sides, NEW mine \in Text, NEW theirs \in Text,
         mine # theirs, theirs # base, mine # base
  PROVE  Reconciled(base, mine, theirs) =
           Verdict(Merged(base, mine, theirs),
                   IF Overlap(base, mine, theirs) THEN theirs ELSE Absent)
BY AbsentAssumption DEF Reconciled

\* A verdict leaves a note or nothing at the path, and beside it the whole of theirs or nothing:
\* never a text of its own making in the copy (reconcile-file.ts, withCopyOfTheirs).
THEOREM VerdictTyped ==
  ASSUME NEW base \in Sides, NEW mine \in Sides, NEW theirs \in Sides
  PROVE  /\ Reconciled(base, mine, theirs).stays \in Sides
         /\ Reconciled(base, mine, theirs).copy \in {theirs, Absent}
<1>1. CASE mine = theirs \/ theirs = base
  BY <1>1 DEF Reconciled, Verdict, Sides
<1>2. CASE ~(mine = theirs \/ theirs = base) /\ mine = base
  BY <1>2 DEF Reconciled, Verdict, Sides
<1>3. CASE ~(mine = theirs \/ theirs = base) /\ mine # base /\ Absent \in {mine, theirs}
  BY <1>3 DEF Reconciled, Verdict, Sides
<1>4. CASE ~(mine = theirs \/ theirs = base) /\ mine # base /\ Absent \notin {mine, theirs}
  <2>1. mine \in Text /\ theirs \in Text
    BY <1>4 DEF Sides
  <2>2. Reconciled(base, mine, theirs) =
          Verdict(Merged(base, mine, theirs),
                  IF Overlap(base, mine, theirs) THEN theirs ELSE Absent)
    BY <1>4, <2>1, VerdictOnTexts
  <2>. QED BY <2>1, <2>2, MergedIsText DEF Verdict, Sides
<1>. QED BY <1>1, <1>2, <1>3, <1>4

\* What my side wrote stays at the path, whatever theirs wrote there (diff3.ts, overlap "mine").
THEOREM MineStays ==
  ASSUME NEW base \in Sides, NEW mine \in Text, NEW theirs \in Sides, NEW l \in Lines,
         mine[l] # At(base, l)
  PROVE  At(Reconciled(base, mine, theirs).stays, l) = mine[l]
<1>0. mine # base
  BY AtOfText
<1>1. CASE mine = theirs \/ theirs = base
  <2>1. Reconciled(base, mine, theirs).stays = mine
    BY <1>1, VerdictCases DEF Verdict
  <2>. QED BY <2>1, AtOfText
<1>2. CASE ~(mine = theirs \/ theirs = base) /\ theirs = Absent
  <2>1. Reconciled(base, mine, theirs).stays = mine
    BY <1>0, <1>2, AbsentAssumption, VerdictCases DEF Verdict
  <2>. QED BY <2>1, AtOfText
<1>3. CASE ~(mine = theirs \/ theirs = base) /\ theirs # Absent
  <2>1. theirs \in Text
    BY <1>3 DEF Sides
  <2>2. Reconciled(base, mine, theirs).stays = Merged(base, mine, theirs)
    BY <1>0, <1>3, <2>1, VerdictOnTexts DEF Verdict
  <2>3. Merged(base, mine, theirs)[l] = mine[l]
    BY DEF Merged
  <2>. QED BY <2>1, <2>2, <2>3, MergedIsText, AtOfText
<1>. QED BY <1>1, <1>2, <1>3

\* What the other side wrote stays at the path too, or all of theirs is in the copy: no line anybody
\* wrote is lost by a verdict, in any combination of edits, equal edits and deletes
\* (reconcile-file.ts:139-179).
THEOREM TheirsIsKept ==
  ASSUME NEW base \in Sides, NEW mine \in Sides, NEW theirs \in Text, NEW l \in Lines,
         theirs[l] # At(base, l)
  PROVE  \/ At(Reconciled(base, mine, theirs).stays, l) = theirs[l]
         \/ Reconciled(base, mine, theirs).copy = theirs
<1>0. theirs # base
  BY AtOfText
<1>1. CASE mine = theirs \/ mine = base \/ mine = Absent
  <2>1. Reconciled(base, mine, theirs).stays = theirs
    BY <1>0, <1>1, VerdictCases DEF Verdict
  <2>. QED BY <2>1, AtOfText
<1>2. CASE mine # theirs /\ mine # base /\ mine # Absent
  <2>1. mine \in Text
    BY <1>2 DEF Sides
  <2>2. Reconciled(base, mine, theirs) =
          Verdict(Merged(base, mine, theirs),
                  IF Overlap(base, mine, theirs) THEN theirs ELSE Absent)
    BY <1>0, <1>2, <2>1, VerdictOnTexts
  <2>3. At(Merged(base, mine, theirs), l) = Merged(base, mine, theirs)[l]
    BY <2>1, MergedIsText, AtOfText
  <2>4. CASE OverlapAt(base, mine, theirs, l)
    BY <2>2, <2>4 DEF Overlap, Verdict
  <2>5. CASE ~OverlapAt(base, mine, theirs, l)
    <3>1. Merged(base, mine, theirs)[l] = theirs[l]
      BY <2>5 DEF Merged, OverlapAt
    <3>. QED BY <2>2, <2>3, <3>1 DEF Verdict
  <2>. QED BY <2>4, <2>5
<1>. QED BY <1>1, <1>2

\* Two devices that settle the same versions, each with its own side as mine, leave the same note
\* whenever the verdict makes no copy, and then neither makes one: a Mac that rebases and a phone
\* that lays its rows over a new head do not drift apart (reconcile-file.ts:139-179).
THEOREM DevicesAgree ==
  ASSUME NEW base \in Sides, NEW mine \in Sides, NEW theirs \in Sides,
         Reconciled(base, mine, theirs).copy = Absent
  PROVE  /\ Reconciled(base, theirs, mine).stays = Reconciled(base, mine, theirs).stays
         /\ Reconciled(base, theirs, mine).copy = Absent
<1>1. CASE mine = theirs \/ theirs = base \/ mine = base \/ Absent \in {mine, theirs}
  BY <1>1 DEF Reconciled, Verdict
<1>2. CASE ~(mine = theirs \/ theirs = base \/ mine = base \/ Absent \in {mine, theirs})
  <2>1. mine \in Text /\ theirs \in Text
    BY <1>2 DEF Sides
  <2>2. ~Overlap(base, mine, theirs)
    BY <1>2, <2>1, VerdictOnTexts, AbsentAssumption DEF Verdict
  <2>3. \A l \in Lines : ~OverlapAt(base, mine, theirs, l) /\ ~OverlapAt(base, theirs, mine, l)
    BY <2>2 DEF Overlap, OverlapAt
  <2>4. Merged(base, mine, theirs) = Merged(base, theirs, mine)
    <3>1. \A l \in Lines : (IF mine[l] = At(base, l) THEN theirs[l] ELSE mine[l])
                           = (IF theirs[l] = At(base, l) THEN mine[l] ELSE theirs[l])
      BY <2>3 DEF OverlapAt
    <3>. QED BY <3>1 DEF Merged
  <2>5. ~Overlap(base, theirs, mine)
    BY <2>3 DEF Overlap
  <2>6. /\ Reconciled(base, mine, theirs) = Verdict(Merged(base, mine, theirs), Absent)
        /\ Reconciled(base, theirs, mine) = Verdict(Merged(base, theirs, mine), Absent)
    BY <1>2, <2>1, <2>2, <2>5, VerdictOnTexts
  <2>. QED BY <2>4, <2>6 DEF Verdict
<1>. QED BY <1>1, <1>2
=============================================================================
