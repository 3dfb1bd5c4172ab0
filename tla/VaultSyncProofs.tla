-------------------------- MODULE VaultSyncProofs --------------------------
(***************************************************************************)
(* What the run of VaultSync shows for two lines and four scenes, proved   *)
(* for any lines, any queue and however often each may act: what a turn is *)
(* writing is in no commit of the engine's; a sync that is answered as     *)
(* done has every commit that was hosted when it was asked for; what       *)
(* anybody wrote is somewhere until somebody who read it replaced it; and  *)
(* the phone leaves no copy of its own text beside its own text.           *)
(*                                                                         *)
(* Everything a device or the vault holds is made of words somebody wrote: *)
(* a merge takes lines and makes none.  So one invariant, "the notes are   *)
(* drawn from this set of words", is at once the type invariant, with all  *)
(* words, and the separation of a turn's writes, with those of the others. *)
(*                                                                         *)
(* That nothing is lost rests on bases: what a base holds, each side that  *)
(* was made from it holds or somebody replaced it.  So a merge, which      *)
(* takes a line from a side where the other left it as it was, loses none. *)
(*                                                                         *)
(* That no copy is the phone's own rests on news: what a Mac changed has a *)
(* word that neither the vault nor the phone has.  So a hosted note of the *)
(* phone's words alone is one that the phone's own sets put there.         *)
(***************************************************************************)
EXTENDS VaultSync, SequenceTheorems, TLAPS

-----------------------------------------------------------------------------
(* Notes drawn from a set of words. *)

TextsOver(W) == [Lines -> W]
SidesOver(W) == TextsOver(W) \cup {Absent}
TreesOver(W) == [note : SidesOver(W), copies : SUBSET TextsOver(W)]
SetsOver(W) == [base : SidesOver(W), text : SidesOver(W), copies : SUBSET TextsOver(W)]
SettlesOver(W) == [against : SidesOver(W), set : SetsOver(W), mine : SidesOver(W), reported : BOOLEAN]
RowsOver(W) ==
  [op : {"text", "remove"}, base : SidesOver(W), content : SidesOver(W), settle : SettlesOver(W)]

LEMMA TextsAreNotAbsent ==
  ASSUME NEW W \in SUBSET Words PROVE Absent \notin TextsOver(W)
BY AbsentAssumption DEF TextsOver, Text

\* The notions of a phone and of a Mac are those of a note.
LEMMA PhoneNotions ==
  /\ Phone!HeadTree = HeadTree /\ Phone!Word = Word
  /\ \A b, m, t : Phone!Reconciled(b, m, t) = Reconciled(b, m, t)
  /\ \A b, m, t : Phone!Merged(b, m, t) = Merged(b, m, t)
  /\ \A side : Phone!EditsOf(side) = EditsOf(side)
BY DEF Phone!HeadTree, HeadTree, Phone!Word, Word, Phone!EditsOf, EditsOf, Phone!Edited, Edited,
  Phone!Reconciled, Reconciled, Phone!Verdict, Verdict, Phone!Merged, Merged, Phone!Overlap, Overlap,
  Phone!OverlapAt, OverlapAt, Phone!At, At, Phone!NoWord, NoWord

LEMMA MacNotions ==
  /\ Mac!HeadTree = HeadTree /\ Mac!Word = Word
  /\ \A b, m, t : Mac!Reconciled(b, m, t) = Reconciled(b, m, t)
  /\ \A side : Mac!EditsOf(side) = EditsOf(side)
BY DEF Mac!HeadTree, HeadTree, Mac!Word, Word, Mac!EditsOf, EditsOf, Mac!Edited, Edited,
  Mac!Reconciled, Reconciled, Mac!Verdict, Verdict, Mac!Merged, Merged, Mac!Overlap, Overlap,
  Mac!OverlapAt, OverlapAt, Mac!At, At, Mac!NoWord, NoWord

\* A merge takes lines from its sides, whatever they were compared with.
LEMMA MergedOver ==
  ASSUME NEW W, NEW from, NEW mine \in TextsOver(W), NEW theirs \in TextsOver(W)
  PROVE  Merged(from, mine, theirs) \in TextsOver(W)
BY DEF Merged, TextsOver

LEMMA ReconciledOver ==
  ASSUME NEW W, NEW from, NEW mine \in SidesOver(W), NEW theirs \in SidesOver(W)
  PROVE  /\ Reconciled(from, mine, theirs).stays \in SidesOver(W)
         /\ Reconciled(from, mine, theirs).copy \in SidesOver(W)
<1>1. CASE mine = theirs \/ theirs = from \/ mine = from \/ mine = Absent \/ theirs = Absent
  BY <1>1 DEF Reconciled, Verdict, SidesOver
<1>2. CASE ~(mine = theirs \/ theirs = from \/ mine = from \/ mine = Absent \/ theirs = Absent)
  <2>1. mine \in TextsOver(W) /\ theirs \in TextsOver(W)
    BY <1>2 DEF SidesOver
  <2>2. Merged(from, mine, theirs) \in TextsOver(W)
    BY <2>1, MergedOver
  <2>3. Reconciled(from, mine, theirs) =
          Verdict(Merged(from, mine, theirs),
                  IF Overlap(from, mine, theirs) THEN theirs ELSE Absent)
    BY <1>2 DEF Reconciled
  <2>. QED BY <2>1, <2>2, <2>3 DEF Verdict, SidesOver
<1>. QED BY <1>1, <1>2

\* What somebody makes of a note they read adds the one new word.
LEMMA EditsOver ==
  ASSUME NEW W, NEW side \in SidesOver(W), NEW after \in EditsOf(side)
  PROVE  after \in SidesOver(W \cup {Word})
<1>1. CASE side = Absent
  BY <1>1 DEF EditsOf, SidesOver, TextsOver
<1>2. CASE side # Absent
  <2>1. side \in TextsOver(W)
    BY <1>2 DEF SidesOver
  <2>2. after = Absent \/ \E l \in Lines : after = [side EXCEPT ![l] = Word]
    BY <1>2 DEF EditsOf, Edited
  <2>. QED BY <2>1, <2>2 DEF SidesOver, TextsOver
<1>. QED BY <1>1, <1>2

\* More words, more notes.
LEMMA OverGrows ==
  ASSUME NEW W, NEW V, W \subseteq V
  PROVE  /\ TextsOver(W) \subseteq TextsOver(V)
         /\ SidesOver(W) \subseteq SidesOver(V)
         /\ TreesOver(W) \subseteq TreesOver(V)
         /\ SetsOver(W) \subseteq SetsOver(V)
         /\ RowsOver(W) \subseteq RowsOver(V)
<1>1. TextsOver(W) \subseteq TextsOver(V)
  BY DEF TextsOver
<1>2. SidesOver(W) \subseteq SidesOver(V)
  BY <1>1 DEF SidesOver
<1>3. TreesOver(W) \subseteq TreesOver(V)
  BY <1>1, <1>2 DEF TreesOver
<1>4. SetsOver(W) \subseteq SetsOver(V)
  BY <1>1, <1>2 DEF SetsOver
<1>5. SettlesOver(W) \subseteq SettlesOver(V)
  BY <1>2, <1>4 DEF SettlesOver
<1>6. RowsOver(W) \subseteq RowsOver(V)
  BY <1>2, <1>5 DEF RowsOver
<1>. QED BY <1>1, <1>2, <1>3, <1>4, <1>6

-----------------------------------------------------------------------------
(* What the phone holds. *)

\* The rows wait in a queue; only a text has content.
RowShape == \A i \in DOMAIN rows : rows[i].op = "text" <=> rows[i].content # Absent

PassesOver(W) ==
  [pc : {"idle", "asked", "sent", "conflict", "committed"}, row : RowsOver(W), seen : SidesOver(W)]
WalksOver(W) == [listed : BOOLEAN, seen : SidesOver(W), stamped : BOOLEAN]

HostedOver(W) == hosted \in Seq(TreesOver(W)) /\ hosted # <<>>

PhoneOver(W) ==
  /\ mirror \in SidesOver(W)
  /\ rows \in Seq(RowsOver(W)) /\ RowShape
  /\ pass \in PassesOver(W)
  /\ walk \in WalksOver(W)
  /\ late \subseteq SetsOver(W)
  /\ rebasedOver \subseteq Lines \X Words

\* A pass that waits has the row it read at the front of the queue.
PhoneShape ==
  /\ Len(rows) <= MaxRows
  /\ pass.pc # "idle" => rows # <<>>
  /\ detours \subseteq Phone!Detours

LEMMA HeadTreeOver ==
  ASSUME NEW W, HostedOver(W)
  PROVE  /\ HeadTree \in TreesOver(W)
         /\ HeadTree.note \in SidesOver(W) /\ HeadTree.copies \subseteq TextsOver(W)
<1>1. Len(hosted) \in 1 .. Len(hosted)
  BY EmptySeq DEF HostedOver
<1>2. HeadTree \in TreesOver(W)
  BY <1>1 DEF HostedOver, HeadTree
<1>. QED BY <1>2 DEF TreesOver

\* A queue stays one with its front replaced or gone, or its end replaced or longer.
LEMMA QueueFacts ==
  ASSUME NEW R, NEW s \in Seq(R), NEW r \in R
  PROVE  /\ Append(s, r) \in Seq(R) /\ Len(Append(s, r)) = Len(s) + 1 /\ Append(s, r) # <<>>
         /\ \A i \in 1 .. Len(Append(s, r)) : Append(s, r)[i] = IF i = Len(s) + 1 THEN r ELSE s[i]
         /\ s # <<>> =>
              /\ s[1] \in R /\ s[Len(s)] \in R /\ 1 \in DOMAIN s /\ Len(s) \in DOMAIN s
              /\ Tail(s) \in Seq(R) /\ Len(Tail(s)) = Len(s) - 1
              /\ \A i \in DOMAIN Tail(s) : i + 1 \in DOMAIN s /\ Tail(s)[i] = s[i + 1]
              /\ \A k \in DOMAIN s :
                   /\ [s EXCEPT ![k] = r] \in Seq(R) /\ Len([s EXCEPT ![k] = r]) = Len(s)
                   /\ [s EXCEPT ![k] = r] # <<>>
                   /\ \A i \in DOMAIN s : [s EXCEPT ![k] = r][i] = IF i = k THEN r ELSE s[i]
                   /\ DOMAIN [s EXCEPT ![k] = r] = DOMAIN s
<1>1. Len(s) \in Nat /\ DOMAIN s = 1 .. Len(s) /\ s \in [1 .. Len(s) -> R]
  BY LenProperties
<1>2. Append(s, r) \in Seq(R) /\ Len(Append(s, r)) = Len(s) + 1 /\ Append(s, r) # <<>>
      /\ \A i \in 1 .. Len(Append(s, r)) : Append(s, r)[i] = IF i = Len(s) + 1 THEN r ELSE s[i]
  BY <1>1, AppendProperties, EmptySeq
<1>3. ASSUME s # <<>> PROVE 1 \in DOMAIN s /\ Len(s) \in DOMAIN s
  BY <1>1, <1>3, EmptySeq
<1>4. ASSUME s # <<>>
      PROVE  /\ Tail(s) \in Seq(R) /\ Len(Tail(s)) = Len(s) - 1
             /\ \A i \in DOMAIN Tail(s) : i + 1 \in DOMAIN s /\ Tail(s)[i] = s[i + 1]
  <2>1. Tail(s) \in Seq(R) /\ Len(Tail(s)) = Len(s) - 1
        /\ \A i \in 1 .. Len(Tail(s)) : Tail(s)[i] = s[i + 1]
    BY <1>4, HeadTailProperties
  <2>2. DOMAIN Tail(s) = 1 .. Len(Tail(s))
    BY <2>1, LenProperties
  <2>. QED BY <1>1, <2>1, <2>2
<1>5. ASSUME s # <<>>, NEW k \in DOMAIN s
      PROVE  /\ [s EXCEPT ![k] = r] \in Seq(R) /\ Len([s EXCEPT ![k] = r]) = Len(s)
             /\ [s EXCEPT ![k] = r] # <<>>
             /\ \A i \in DOMAIN s : [s EXCEPT ![k] = r][i] = IF i = k THEN r ELSE s[i]
             /\ DOMAIN [s EXCEPT ![k] = r] = DOMAIN s
  <2>1. [s EXCEPT ![k] = r] \in Seq(R) /\ Len([s EXCEPT ![k] = r]) = Len(s)
        /\ \A i \in 1 .. Len(s) : [s EXCEPT ![k] = r][i] = IF i = k THEN r ELSE s[i]
    BY <1>1, <1>5, ExceptSeq
  <2>2. [s EXCEPT ![k] = r] # <<>>
    BY <1>1, <1>3, <1>5, <2>1, EmptySeq
  <2>. QED BY <1>1, <2>1, <2>2
<1>. QED BY <1>1, <1>2, <1>3, <1>4, <1>5

\* What may stand at the front after a step, without disturbing the rest.
LEMMA FrontReplaced ==
  ASSUME NEW W, PhoneOver(W), PhoneShape, rows # <<>>,
         NEW r \in RowsOver(W), r.op = "text" <=> r.content # Absent,
         rows' = Phone!WithFirst(r)
  PROVE  /\ rows' \in Seq(RowsOver(W)) /\ RowShape'
         /\ Len(rows') <= MaxRows /\ rows' # <<>>
<1>1. rows \in Seq(RowsOver(W)) /\ RowShape /\ Len(rows) <= MaxRows
  BY DEF PhoneOver, PhoneShape
<1>2. rows' = [rows EXCEPT ![1] = r]
  BY DEF Phone!WithFirst
<1>3. 1 \in DOMAIN rows
  BY <1>1, QueueFacts
<1>4. /\ rows' \in Seq(RowsOver(W)) /\ Len(rows') = Len(rows) /\ rows' # <<>>
      /\ \A i \in DOMAIN rows : rows'[i] = IF i = 1 THEN r ELSE rows[i]
      /\ DOMAIN rows' = DOMAIN rows
  BY <1>1, <1>2, <1>3, QueueFacts
<1>. QED BY <1>1, <1>4 DEF RowShape

LEMMA FrontGone ==
  ASSUME NEW W, PhoneOver(W), PhoneShape, rows # <<>>, rows' = Tail(rows)
  PROVE  /\ rows' \in Seq(RowsOver(W)) /\ RowShape' /\ Len(rows') <= MaxRows
<1>1. rows \in Seq(RowsOver(W)) /\ RowShape /\ Len(rows) <= MaxRows /\ Len(rows) \in Nat
  BY LenProperties DEF PhoneOver, PhoneShape
<1>2. PICK r \in RowsOver(W) : r = rows[1]
  BY <1>1, QueueFacts, EmptySeq, LenProperties
<1>3. /\ rows' \in Seq(RowsOver(W)) /\ Len(rows') = Len(rows) - 1
      /\ \A i \in DOMAIN rows' : i + 1 \in DOMAIN rows /\ rows'[i] = rows[i + 1]
  BY <1>1, <1>2, QueueFacts
<1>4. Len(rows') <= MaxRows
  BY <1>1, <1>3, MaxRowsAssumption
<1>. QED BY <1>1, <1>3, <1>4 DEF RowShape

\* What a row makes: its first set, its remainder, the verdict on it, and the set it sends.
LEMMA RowFacts ==
  ASSUME NEW W \in SUBSET Words, NEW row \in RowsOver(W), row.op = "text" <=> row.content # Absent
  PROVE  /\ Phone!Pinned(row) \in RowsOver(W)
         /\ Phone!Pinned(row).op = "text" <=> Phone!Pinned(row).content # Absent
         /\ \A mine, landed \in SidesOver(W) : row.op = "text" =>
              /\ Phone!Remainder(row, mine, landed) \in RowsOver(W)
              /\ Phone!Remainder(row, mine, landed).op = "text"
              /\ Phone!Remainder(row, mine, landed).content # Absent
              /\ Phone!RebasedOver(row, mine, landed) \subseteq Lines \X Words
         /\ \A settle \in SettlesOver(W) :
              /\ [row EXCEPT !.settle = settle] \in RowsOver(W)
              /\ [row EXCEPT !.settle = settle].op = "text"
                   <=> [row EXCEPT !.settle = settle].content # Absent
<1>0. Absent \notin TextsOver(W) /\ Absent \in SidesOver(W)
  BY TextsAreNotAbsent DEF SidesOver
<1>1. /\ row.op \in {"text", "remove"} /\ row.base \in SidesOver(W) /\ row.content \in SidesOver(W)
      /\ row.settle \in SettlesOver(W) /\ row.settle.set \in SetsOver(W)
  BY DEF RowsOver, SettlesOver
<1>2. \A settle \in SettlesOver(W) :
        /\ [row EXCEPT !.settle = settle] \in RowsOver(W)
        /\ [row EXCEPT !.settle = settle].op = row.op
        /\ [row EXCEPT !.settle = settle].content = row.content
  BY DEF RowsOver
<1>3. \A b, t \in SidesOver(W) : Phone!ChangeSet(b, t, {}) \in SetsOver(W)
  BY DEF Phone!ChangeSet, SetsOver
<1>4. Phone!FirstSet(row) \in SettlesOver(W) /\ Phone!NoSettle \in SettlesOver(W)
  BY <1>0, <1>1, <1>3 DEF Phone!FirstSet, Phone!Settle, Phone!NoSettle, Phone!NoSet, SettlesOver
<1>6. ASSUME NEW mine \in SidesOver(W), NEW landed \in SidesOver(W), row.op = "text"
      PROVE  /\ Phone!Remainder(row, mine, landed) \in RowsOver(W)
             /\ Phone!Remainder(row, mine, landed).op = "text"
             /\ Phone!Remainder(row, mine, landed).content # Absent
             /\ Phone!RebasedOver(row, mine, landed) \subseteq Lines \X Words
  <2>1. CASE landed = Absent
    BY <1>2, <1>4, <1>6, <2>1 DEF Phone!Remainder, Phone!RebasedOver
  <2>2. CASE landed # Absent
    <3>1. landed \in TextsOver(W) /\ row.content \in TextsOver(W)
      BY <1>1, <1>6, <2>2 DEF SidesOver
    <3>2. Phone!Merged(mine, row.content, landed) \in TextsOver(W)
      BY <3>1, MergedOver, PhoneNotions
    <3>3. Phone!Remainder(row, mine, landed) =
            Phone!TextRow(landed, Phone!Merged(mine, row.content, landed))
      BY <2>2 DEF Phone!Remainder
    <3>4. \A c \in TextsOver(W) : /\ Phone!TextRow(landed, c) \in RowsOver(W)
                                  /\ Phone!TextRow(landed, c).op = "text"
                                  /\ Phone!TextRow(landed, c).content # Absent
      BY <1>0, <1>4 DEF Phone!TextRow, Phone!Row, RowsOver, SidesOver
    <3>5. \A l \in Lines : landed[l] \in Words
      BY <3>1 DEF TextsOver
    <3>. QED BY <2>2, <3>2, <3>3, <3>4, <3>5 DEF Phone!RebasedOver
  <2>. QED BY <2>1, <2>2
<1>7. /\ Phone!Pinned(row) \in RowsOver(W)
      /\ Phone!Pinned(row).op = "text" <=> Phone!Pinned(row).content # Absent
  BY <1>2, <1>4 DEF Phone!Pinned
<1>8. \A settle \in SettlesOver(W) :
        [row EXCEPT !.settle = settle].op = "text" <=> [row EXCEPT !.settle = settle].content # Absent
  BY <1>2
<1>. QED BY <1>2, <1>6, <1>7, <1>8

LEMMA SentOver ==
  ASSUME NEW W, NEW row \in RowsOver(W)
  PROVE  /\ Phone!SetOf(row) \in SetsOver(W) /\ Phone!SetOf(row).text \in SidesOver(W)
         /\ Phone!MineOf(row) \in SidesOver(W) /\ row.content \in SidesOver(W)
<1>1. /\ row.base \in SidesOver(W) /\ row.content \in SidesOver(W)
      /\ row.settle.set \in SetsOver(W) /\ row.settle.mine \in SidesOver(W)
  BY DEF RowsOver, SettlesOver
<1>2. Phone!ChangeSet(row.base, Absent, {}) \in SetsOver(W)
  BY <1>1 DEF Phone!ChangeSet, SetsOver, SidesOver
<1>3. Phone!SetOf(row) \in SetsOver(W)
  BY <1>1, <1>2 DEF Phone!SetOf
<1>. QED BY <1>1, <1>3 DEF Phone!MineOf, SetsOver

LEMMA ResolutionOver ==
  ASSUME NEW W, NEW row \in RowsOver(W), NEW theirs \in SidesOver(W)
  PROVE  /\ Phone!Resolution(row, theirs) \in SettlesOver(W)
         /\ Phone!VerdictOn(row, theirs).stays \in SidesOver(W)
<1>1. row.base \in SidesOver(W) /\ row.content \in SidesOver(W)
  BY DEF RowsOver
<1>2. /\ Phone!VerdictOn(row, theirs).stays \in SidesOver(W)
      /\ Phone!VerdictOn(row, theirs).copy \in SidesOver(W)
  BY <1>1, ReconciledOver, PhoneNotions DEF Phone!VerdictOn
<1>3. {Phone!VerdictOn(row, theirs).copy} \ {Absent} \subseteq TextsOver(W)
  BY <1>2 DEF SidesOver
<1>4. Phone!ChangeSet(theirs, Phone!VerdictOn(row, theirs).stays,
                      {Phone!VerdictOn(row, theirs).copy} \ {Absent}) \in SetsOver(W)
  BY <1>2, <1>3 DEF Phone!ChangeSet, SetsOver
<1>5. (Phone!VerdictOn(row, theirs).copy # Absent
        \/ Phone!KeptEdit(row.base, row.content, theirs)) \in BOOLEAN
  OBVIOUS
<1>. QED BY <1>1, <1>2, <1>4, <1>5 DEF Phone!Resolution, Phone!Settle, SettlesOver

\* A set that lands leaves a tree drawn from the words it was drawn from.
LEMMA CommitKeeps ==
  ASSUME NEW W, HostedOver(W), NEW set \in SetsOver(W), Phone!CommitChanges(set)
  PROVE  HostedOver(W)' /\ Len(hosted') \in {Len(hosted), Len(hosted) + 1}
<1>1. Phone!Applied(set) \in TreesOver(W)
  BY HeadTreeOver, PhoneNotions DEF Phone!Applied, Phone!Tree, SetsOver, TreesOver
<1>2. hosted' = hosted \/ hosted' = Append(hosted, Phone!Applied(set))
  BY DEF Phone!CommitChanges
<1>3. Len(hosted) \in Nat
  BY LenProperties DEF HostedOver
<1>4. CASE hosted' = hosted
  BY <1>4 DEF HostedOver
<1>5. CASE hosted' = Append(hosted, Phone!Applied(set))
  BY <1>1, <1>5, QueueFacts DEF HostedOver
<1>. QED BY <1>2, <1>4, <1>5

LEMMA PhoneGrows ==
  ASSUME NEW W, NEW V, W \subseteq V, PhoneOver(W)
  PROVE  PhoneOver(V)
<1>1. /\ SidesOver(W) \subseteq SidesOver(V) /\ SetsOver(W) \subseteq SetsOver(V)
      /\ RowsOver(W) \subseteq RowsOver(V)
  BY OverGrows
<1>2. Seq(RowsOver(W)) \subseteq Seq(RowsOver(V))
  BY <1>1
<1>3. PassesOver(W) \subseteq PassesOver(V) /\ WalksOver(W) \subseteq WalksOver(V)
  BY <1>1 DEF PassesOver, WalksOver
<1>. QED BY <1>1, <1>2, <1>3 DEF PhoneOver

LEMMA PhoneWritesKeeps ==
  ASSUME NEW W \in SUBSET Words, NEW V \in SUBSET Words, W \subseteq V, Word \in V,
         PhoneOver(W), PhoneShape, Phone!Writes
  PROVE  PhoneOver(V)' /\ PhoneShape' /\ hosted' = hosted
<1>1. PICK after \in EditsOf(Phone!Shown) :
        /\ rows' = Phone!Enqueued(after) /\ Len(rows') <= MaxRows
        /\ UNCHANGED <<hosted, mirror, pass, walk, late, detours, rebasedOver>>
  BY PhoneNotions DEF Phone!Writes
<1>2. PhoneOver(V)
  BY PhoneGrows
<1>3. rows \in Seq(RowsOver(V)) /\ RowShape /\ mirror \in SidesOver(V) /\ Len(rows) \in Nat
      /\ DOMAIN rows = 1 .. Len(rows)
  BY <1>2, LenProperties DEF PhoneOver
<1>4. rows # <<>> => rows[Len(rows)] \in RowsOver(V) /\ Len(rows) \in DOMAIN rows
  BY <1>3, EmptySeq
<1>5. Phone!Shown \in SidesOver(V)
  BY <1>3, <1>4 DEF Phone!Shown, RowsOver
<1>6. after \in SidesOver(V)
  <2>1. V \cup {Word} = V
    OBVIOUS
  <2>. QED BY <1>5, <2>1, EditsOver
<1>7. /\ Phone!NoSettle \in SettlesOver(V)
      /\ Phone!RemoveRow(Phone!Shown) \in RowsOver(V)
      /\ Phone!TextRow(Phone!Shown, after) \in RowsOver(V)
      /\ Phone!RemoveRow(Phone!Shown).op # "text" /\ Phone!RemoveRow(Phone!Shown).content = Absent
      /\ Phone!TextRow(Phone!Shown, after).op = "text"
      /\ Phone!TextRow(Phone!Shown, after).content = after
  <2>1. Phone!NoSettle \in SettlesOver(V)
    BY DEF Phone!NoSettle, Phone!Settle, Phone!NoSet, Phone!ChangeSet, SettlesOver, SetsOver, SidesOver
  <2>. QED BY <2>1, <1>5, <1>6 DEF Phone!RemoveRow, Phone!TextRow, Phone!Row, RowsOver, SidesOver
<1>8. rows' \in Seq(RowsOver(V)) /\ RowShape' /\ rows' # <<>>
  <2>1. CASE after # Absent /\ rows # <<>> /\ rows[Len(rows)].op = "text"
    <3>0. PICK last \in RowsOver(V) : last = rows[Len(rows)]
      BY <1>4, <2>1
    <3>1. PICK r \in RowsOver(V) :
            /\ r = [last EXCEPT !.content = after]
            /\ r.op = "text" /\ r.content # Absent
      <4>1. [last EXCEPT !.content = after] \in RowsOver(V)
        BY <1>6 DEF RowsOver
      <4>2. /\ [last EXCEPT !.content = after].op = "text"
            /\ [last EXCEPT !.content = after].content # Absent
        BY <2>1, <3>0 DEF RowsOver
      <4>. QED BY <4>1, <4>2
    <3>2. rows' = [rows EXCEPT ![Len(rows)] = r]
      BY <1>1, <2>1, <3>0, <3>1 DEF Phone!Enqueued, Phone!WithLast
    <3>3. /\ rows' \in Seq(RowsOver(V)) /\ rows' # <<>> /\ DOMAIN rows' = DOMAIN rows
          /\ \A i \in DOMAIN rows : rows'[i] = IF i = Len(rows) THEN r ELSE rows[i]
      BY <1>3, <1>4, <2>1, <3>2, QueueFacts
    <3>. QED BY <1>3, <3>1, <3>3 DEF RowShape
  <2>2. CASE ~(after # Absent /\ rows # <<>> /\ rows[Len(rows)].op = "text")
    <3>1. PICK r \in RowsOver(V) :
            /\ r = IF after = Absent THEN Phone!RemoveRow(Phone!Shown)
                   ELSE Phone!TextRow(Phone!Shown, after)
            /\ r.op = "text" <=> r.content # Absent
      BY <1>7
    <3>2. rows' = Append(rows, r)
      BY <1>1, <2>2, <3>1 DEF Phone!Enqueued
    <3>3. /\ rows' \in Seq(RowsOver(V)) /\ rows' # <<>> /\ Len(rows') = Len(rows) + 1
          /\ \A i \in 1 .. Len(rows') : rows'[i] = IF i = Len(rows) + 1 THEN r ELSE rows[i]
      BY <1>3, <3>2, QueueFacts
    <3>4. DOMAIN rows' = 1 .. Len(rows')
      BY <3>3, LenProperties
    <3>5. \A i \in DOMAIN rows' : i = Len(rows) + 1 \/ i \in DOMAIN rows
      BY <1>3, <3>3, <3>4
    <3>. QED BY <1>3, <3>1, <3>3, <3>4, <3>5 DEF RowShape
  <2>. QED BY <2>1, <2>2
<1>. QED BY <1>1, <1>2, <1>8 DEF PhoneOver, PhoneShape

\* The steps that settle a row: the mirror takes what landed, and the row goes or starts anew.
LEMMA SettleRowKeeps ==
  ASSUME NEW W \in SUBSET Words, PhoneOver(W), PhoneShape, pass.pc # "idle",
         NEW mine \in SidesOver(W), NEW landed \in SidesOver(W), Phone!SettleRow(mine, landed),
         detours' \subseteq Phone!Detours
  PROVE  PhoneOver(W)' /\ PhoneShape' /\ hosted' = hosted
<1>1. /\ rows # <<>> /\ rows \in Seq(RowsOver(W)) /\ RowShape
      /\ walk \in WalksOver(W) /\ rebasedOver \subseteq Lines \X Words
  BY DEF PhoneOver, PhoneShape
<1>2. /\ mirror' = landed /\ walk' = Phone!Stamped /\ pass' = Phone!Resting
      /\ UNCHANGED <<hosted, late>>
  BY DEF Phone!SettleRow, Phone!vault
<1>3. walk' \in WalksOver(W)
  BY <1>1, <1>2 DEF Phone!Stamped, WalksOver
<1>4. Phone!Resting \in PassesOver(W) /\ Phone!Resting.pc = "idle"
  BY DEF Phone!Resting, Phone!Waits, Phone!NoRow, Phone!RemoveRow, Phone!Row, Phone!NoSettle,
    Phone!Settle, Phone!NoSet, Phone!ChangeSet, PassesOver, RowsOver, SettlesOver, SetsOver, SidesOver
<1>5. 1 \in DOMAIN rows
  BY <1>1, EmptySeq, LenProperties
<1>6. PICK first \in RowsOver(W) : first = Phone!Foremost /\ (first.op = "text" <=> first.content # Absent)
  BY <1>1, <1>5 DEF Phone!Foremost, RowShape
<1>7. rows' \in Seq(RowsOver(W)) /\ RowShape' /\ Len(rows') <= MaxRows
      /\ rebasedOver' \subseteq Lines \X Words
  <2>1. CASE /\ first.op = "text"
             /\ rows' = Phone!WithFirst(Phone!Remainder(first, mine, landed))
             /\ rebasedOver' = rebasedOver \cup Phone!RebasedOver(first, mine, landed)
    <3>1. /\ Phone!Remainder(first, mine, landed) \in RowsOver(W)
          /\ Phone!Remainder(first, mine, landed).op = "text"
          /\ Phone!Remainder(first, mine, landed).content # Absent
          /\ Phone!RebasedOver(first, mine, landed) \subseteq Lines \X Words
      BY <1>6, <2>1, RowFacts
    <3>2. rows' \in Seq(RowsOver(W)) /\ RowShape' /\ Len(rows') <= MaxRows
      BY <1>1, <2>1, <3>1, FrontReplaced
    <3>. QED BY <1>1, <2>1, <3>1, <3>2
  <2>2. CASE rows' = Tail(rows) /\ rebasedOver' = rebasedOver
    BY <1>1, <2>2, FrontGone
  <2>. QED BY <1>6, <2>1, <2>2 DEF Phone!SettleRow
<1>8. late \subseteq SetsOver(W)
  BY DEF PhoneOver
<1>. QED BY <1>2, <1>3, <1>4, <1>7, <1>8 DEF PhoneOver, PhoneShape

LEMMA PhoneStepKeeps ==
  ASSUME NEW W \in SUBSET Words, PhoneOver(W), HostedOver(W), PhoneShape,
         Phone!Pass \/ Phone!List \/ Phone!ApplyTree \/ Phone!GivesUp \/ Phone!RunsLate
  PROVE  /\ PhoneOver(W)' /\ HostedOver(W)' /\ PhoneShape'
         /\ Len(hosted') \in {Len(hosted), Len(hosted) + 1}
<1>0. /\ mirror \in SidesOver(W) /\ rows \in Seq(RowsOver(W)) /\ RowShape
      /\ pass \in PassesOver(W) /\ walk \in WalksOver(W) /\ late \subseteq SetsOver(W)
      /\ rebasedOver \subseteq Lines \X Words
      /\ Len(rows) <= MaxRows /\ (pass.pc # "idle" => rows # <<>>) /\ detours \subseteq Phone!Detours
      /\ Absent \in SidesOver(W)
  BY DEF PhoneOver, PhoneShape, SidesOver
<1>1. /\ pass.pc \in {"idle", "asked", "sent", "conflict", "committed"}
      /\ pass.row \in RowsOver(W) /\ pass.seen \in SidesOver(W)
      /\ HeadTree.note \in SidesOver(W)
  BY <1>0, HeadTreeOver DEF PassesOver
<1>2. \A pc \in {"idle", "asked", "sent", "conflict", "committed"} : \A row \in RowsOver(W) :
        \A seen \in SidesOver(W) :
          Phone!Waits(pc, row, seen) \in PassesOver(W) /\ Phone!Waits(pc, row, seen).pc = pc
  BY DEF Phone!Waits, PassesOver
<1>3. Phone!NoRow \in RowsOver(W)
  BY DEF Phone!NoRow, Phone!RemoveRow, Phone!Row, Phone!NoSettle,
    Phone!Settle, Phone!NoSet, Phone!ChangeSet, RowsOver, SettlesOver, SetsOver, SidesOver
<1>4. Phone!Resting \in PassesOver(W) /\ Phone!Resting.pc = "idle"
  BY <1>0, <1>2, <1>3 DEF Phone!Resting
<1>5. HostedOver(W) /\ hosted' = hosted => HostedOver(W)'
  BY DEF HostedOver
<1>6. rows # <<>> => /\ Phone!Foremost \in RowsOver(W)
                     /\ Phone!Foremost.op = "text" <=> Phone!Foremost.content # Absent
  <2>1. rows # <<>> => 1 \in DOMAIN rows
    BY <1>0, EmptySeq, LenProperties
  <2>. QED BY <1>0, <2>1 DEF Phone!Foremost, RowShape
<1>7. rows # <<>> => /\ Phone!Pinned(Phone!Foremost) \in RowsOver(W)
                     /\ Phone!Pinned(Phone!Foremost).op = "text"
                          <=> Phone!Pinned(Phone!Foremost).content # Absent
  <2>1. \A row \in RowsOver(W) : (row.op = "text" <=> row.content # Absent) =>
          /\ Phone!Pinned(row) \in RowsOver(W)
          /\ Phone!Pinned(row).op = "text" <=> Phone!Pinned(row).content # Absent
    BY RowFacts
  <2>. QED BY <1>6, <2>1
<1>8. Len(hosted) \in Nat
  BY LenProperties DEF HostedOver
\* A step that only moves the pass, or makes the front row anew and sends it.
<1>9. ASSUME NEW pc \in {"idle", "asked", "sent", "conflict", "committed"}, NEW row \in RowsOver(W),
             NEW seen \in SidesOver(W), rows # <<>>,
             pass' = Phone!Waits(pc, row, seen),
             UNCHANGED <<mirror, walk, late, detours, rebasedOver>>,
             \/ UNCHANGED rows
             \/ /\ rows' \in Seq(RowsOver(W)) /\ RowShape'
                /\ Len(rows') <= MaxRows /\ rows' # <<>>
      PROVE  PhoneOver(W)' /\ PhoneShape'
  <2>1. pass' \in PassesOver(W)
    BY <1>2, <1>9
  <2>2. CASE UNCHANGED rows
    <3>1. RowShape'
      BY <1>0, <2>2 DEF RowShape
    <3>. QED BY <1>0, <1>9, <2>1, <2>2, <3>1 DEF PhoneOver, PhoneShape
  <2>3. CASE /\ rows' \in Seq(RowsOver(W)) /\ RowShape'
             /\ Len(rows') <= MaxRows /\ rows' # <<>>
    BY <1>0, <1>9, <2>1, <2>3 DEF PhoneOver, PhoneShape
  <2>. QED BY <1>9, <2>2, <2>3
<1>10. ASSUME rows # <<>>, rows' = Phone!WithFirst(Phone!Pinned(Phone!Foremost))
       PROVE  /\ rows' \in Seq(RowsOver(W)) /\ RowShape'
              /\ Len(rows') <= MaxRows /\ rows' # <<>>
  BY <1>7, <1>10, FrontReplaced
<1>11. CASE Phone!SendPinned
  <2>1. /\ rows # <<>> /\ rows' = Phone!WithFirst(Phone!Pinned(Phone!Foremost))
        /\ pass' = Phone!Waits("sent", Phone!Pinned(Phone!Foremost), Absent)
        /\ UNCHANGED <<hosted, mirror, walk, late, detours, rebasedOver>>
    BY <1>11 DEF Phone!SendPinned, Phone!vault
  <2>. QED BY <1>0, <1>5, <1>7, <1>8, <1>9, <1>10, <2>1
<1>12. CASE Phone!AskHead
  <2>1. /\ rows # <<>> /\ UNCHANGED rows
        /\ pass' = Phone!Waits("asked", Phone!Foremost, HeadTree.note)
        /\ UNCHANGED <<hosted, mirror, walk, late, detours, rebasedOver>>
    BY <1>12, PhoneNotions DEF Phone!AskHead, Phone!vault
  <2>. QED BY <1>1, <1>5, <1>6, <1>8, <1>9, <2>1
<1>13. CASE Phone!Repin
  <2>1. /\ rows # <<>>
        /\ UNCHANGED <<hosted, mirror, walk, late, detours, rebasedOver>>
    BY <1>0, <1>13 DEF Phone!Repin, Phone!vault, Phone!PassAt
  <2>2. \/ /\ rows' = Phone!WithFirst(Phone!Pinned(Phone!Foremost))
           /\ pass' = Phone!Waits("sent", Phone!Pinned(Phone!Foremost), Absent)
        \/ UNCHANGED rows /\ pass' = Phone!Waits("sent", pass.row, Absent)
    BY <1>13 DEF Phone!Repin
  <2>3. CASE /\ rows' = Phone!WithFirst(Phone!Pinned(Phone!Foremost))
             /\ pass' = Phone!Waits("sent", Phone!Pinned(Phone!Foremost), Absent)
    BY <1>0, <1>5, <1>7, <1>8, <1>9, <1>10, <2>1, <2>3
  <2>4. CASE UNCHANGED rows /\ pass' = Phone!Waits("sent", pass.row, Absent)
    BY <1>0, <1>1, <1>5, <1>8, <1>9, <2>1, <2>4
  <2>. QED BY <2>2, <2>3, <2>4
<1>14. CASE Phone!Resend
  <2>1. /\ rows # <<>> /\ UNCHANGED rows
        /\ pass' = Phone!Waits("sent", Phone!Foremost, Absent)
        /\ UNCHANGED <<hosted, mirror, walk, late, detours, rebasedOver>>
    BY <1>14 DEF Phone!Resend, Phone!vault
  <2>. QED BY <1>0, <1>5, <1>6, <1>8, <1>9, <2>1
<1>15. CASE Phone!VaultRuns
  <2>1. /\ rows # <<>> /\ UNCHANGED rows
        /\ UNCHANGED <<mirror, walk, late, detours, rebasedOver>>
        /\ Phone!CommitChanges(Phone!SetOf(pass.row))
    BY <1>0, <1>15 DEF Phone!VaultRuns, Phone!PassAt
  <2>2. PICK pc \in {"conflict", "committed"} : pass' = Phone!Waits(pc, pass.row, HeadTree.note)
    BY <1>15, PhoneNotions DEF Phone!VaultRuns
  <2>3. PhoneOver(W)' /\ PhoneShape'
    BY <1>1, <1>9, <2>1, <2>2
  <2>4. PICK set \in SetsOver(W) : set = Phone!SetOf(pass.row)
    BY <1>1, SentOver
  <2>5. HostedOver(W)' /\ Len(hosted') \in {Len(hosted), Len(hosted) + 1}
    BY <2>1, <2>4, CommitKeeps
  <2>. QED BY <2>3, <2>5
<1>16. ASSUME pass.pc # "idle", NEW mine \in SidesOver(W), NEW landed \in SidesOver(W),
              Phone!SettleRow(mine, landed), detours' \subseteq Phone!Detours
       PROVE  PhoneOver(W)' /\ PhoneShape' /\ hosted' = hosted
  BY <1>16, SettleRowKeeps
<1>17. CASE Phone!Landed
  <2>1. /\ pass.pc # "idle" /\ detours' = detours
        /\ Phone!SettleRow(Phone!MineOf(pass.row), Phone!SetOf(pass.row).text)
    BY <1>17 DEF Phone!Landed, Phone!PassAt
  <2>2. Phone!MineOf(pass.row) \in SidesOver(W) /\ Phone!SetOf(pass.row).text \in SidesOver(W)
    BY <1>1, SentOver
  <2>. QED BY <1>0, <1>5, <1>8, <1>16, <2>1, <2>2
<1>18. CASE Phone!ResolvedLocally
  <2>1. pass.pc # "idle" /\ Phone!SettleRow(pass.row.content, pass.seen)
    BY <1>18 DEF Phone!ResolvedLocally, Phone!PassAt
  <2>3. detours' \subseteq Phone!Detours
    BY <1>0, <1>18 DEF Phone!ResolvedLocally, Phone!Takes, Phone!Detours
  <2>2. pass.row.content \in SidesOver(W)
    BY <1>1, SentOver
  <2>. QED BY <1>1, <1>5, <1>8, <1>16, <2>1, <2>2, <2>3
<1>19. CASE Phone!ResolvedToSend
  <2>1. /\ rows # <<>> /\ pass' = Phone!Resting
        /\ UNCHANGED <<hosted, mirror, walk, late, detours, rebasedOver>>
    BY <1>0, <1>19 DEF Phone!ResolvedToSend, Phone!PassAt, Phone!vault
  <2>2. PICK settle \in SettlesOver(W) :
          rows' = Phone!WithFirst([Phone!Foremost EXCEPT !.settle = settle])
    BY <1>1, <1>19, ResolutionOver DEF Phone!ResolvedToSend
  <2>3. \A row \in RowsOver(W) : (row.op = "text" <=> row.content # Absent) =>
          /\ [row EXCEPT !.settle = settle] \in RowsOver(W)
          /\ [row EXCEPT !.settle = settle].op = "text"
               <=> [row EXCEPT !.settle = settle].content # Absent
    BY RowFacts
  <2>4. /\ [Phone!Foremost EXCEPT !.settle = settle] \in RowsOver(W)
        /\ [Phone!Foremost EXCEPT !.settle = settle].op = "text"
             <=> [Phone!Foremost EXCEPT !.settle = settle].content # Absent
    BY <1>6, <2>1, <2>3
  <2>5. /\ rows' \in Seq(RowsOver(W)) /\ RowShape'
        /\ Len(rows') <= MaxRows /\ rows' # <<>>
    BY <2>1, <2>2, <2>4, FrontReplaced
  <2>. QED BY <1>0, <1>3, <1>5, <1>8, <1>9, <2>1, <2>5 DEF Phone!Resting
<1>20. CASE Phone!List
  <2>1. /\ walk' = [listed |-> TRUE, seen |-> HeadTree.note, stamped |-> FALSE]
        /\ UNCHANGED <<hosted, mirror, rows, pass, late, detours, rebasedOver>>
    BY <1>20, PhoneNotions DEF Phone!List, Phone!vault, Phone!queue
  <2>2. walk' \in WalksOver(W)
    BY <1>1, <2>1 DEF WalksOver
  <2>3. RowShape'
    BY <1>0, <2>1 DEF RowShape
  <2>. QED BY <1>0, <1>5, <1>8, <2>1, <2>2, <2>3 DEF PhoneOver, PhoneShape
<1>21. CASE Phone!ApplyTree
  <2>1. /\ mirror' \in {mirror, walk.seen} /\ walk' = Phone!NoWalk
        /\ UNCHANGED <<hosted, rows, pass, late, detours, rebasedOver>>
    BY <1>21 DEF Phone!ApplyTree, Phone!vault, Phone!queue
  <2>2. walk' \in WalksOver(W) /\ mirror' \in SidesOver(W)
    BY <1>0, <2>1 DEF WalksOver, Phone!NoWalk
  <2>3. RowShape'
    BY <1>0, <2>1 DEF RowShape
  <2>. QED BY <1>0, <1>5, <1>8, <2>1, <2>2, <2>3 DEF PhoneOver, PhoneShape
<1>22. CASE Phone!GivesUp
  <2>1. /\ pass' = Phone!Resting
        /\ late' \in {late, late \cup {Phone!SetOf(pass.row)}}
        /\ UNCHANGED <<hosted, rows, mirror, walk, detours, rebasedOver>>
    BY <1>22 DEF Phone!GivesUp, Phone!vault
  <2>2. late' \subseteq SetsOver(W)
    BY <1>0, <1>1, <2>1, SentOver
  <2>3. RowShape'
    BY <1>0, <2>1 DEF RowShape
  <2>. QED BY <1>0, <1>4, <1>5, <1>8, <2>1, <2>2, <2>3 DEF PhoneOver, PhoneShape
<1>23. CASE Phone!RunsLate
  <2>1. PICK set \in SetsOver(W) :
          /\ Phone!CommitChanges(set) /\ late' = late \ {set} /\ Phone!Takes("ranLate")
          /\ UNCHANGED <<mirror, rows, pass, walk, rebasedOver>>
    BY <1>0, <1>23 DEF Phone!RunsLate, Phone!queue
  <2>2. HostedOver(W)' /\ Len(hosted') \in {Len(hosted), Len(hosted) + 1}
    BY <2>1, CommitKeeps
  <2>3. RowShape'
    BY <1>0, <2>1 DEF RowShape
  <2>4. detours' \subseteq Phone!Detours
    BY <1>0, <2>1 DEF Phone!Takes, Phone!Detours
  <2>. QED BY <1>0, <2>1, <2>2, <2>3, <2>4 DEF PhoneOver, PhoneShape
<1>. QED BY <1>11, <1>12, <1>13, <1>14, <1>15, <1>17, <1>18, <1>19, <1>20, <1>21, <1>22, <1>23
       DEF Phone!Pass

-----------------------------------------------------------------------------
(* What the Mac holds. *)

Pcs == {"idle", "gate", "fetches", "fetched", "integrates", "pushes", "ended", "refused"}
Outcomes == {"none", "unreachable", "stalled"}
Engines == [pc : Pcs, forced : BOOLEAN, outcome : Outcomes, stopped : BOOLEAN]
Turns == [phase : {"none", "holds", "writes"}, since : Nat]

\* Past its first commit a pass finds no integration cut by a crash.
MacShape ==
  /\ midway => engine.pc \in {"idle", "gate", "integrates", "refused"}
  /\ up \in BOOLEAN /\ midway \in BOOLEAN
  /\ base \in 1 .. Len(hosted) /\ tracking \in 1 .. Len(hosted) /\ owed \in 1 .. Len(hosted)
  /\ turn \in Turns
  /\ engine \in Engines
  /\ requested \in [force : BOOLEAN, again : BOOLEAN]

\* A commit in the middle of an integration would be git's markers: the working tree is none then.
WorkOver(W) == midway \/ work \in TreesOver(W)

\* Where a pass stands, and nobody joined it since it began, it has what was hosted when it was
\* asked for: with the fetch in hand, and under HEAD from the push on.  A pass nobody asked for is
\* owed the first commit alone.
PassFresh ==
  engine.pc # "idle" /\ ~requested.again =>
    /\ ~engine.forced => owed = 1
    /\ engine.pc \in {"fetched", "integrates"} => tracking >= owed
    /\ engine.pc = "pushes" => base >= owed
    /\ engine.pc = "ended" /\ ~engine.stopped /\ engine.outcome = "none" => base >= owed

\* Whoever has a pass run again has it reach the network.
AgainIsForced == requested.again => requested.force

Fresh == PassFresh /\ AgainIsForced

LEMMA EngineFacts ==
  ASSUME engine \in Engines
  PROVE  /\ \A pc \in Pcs : Mac!Goes(pc) =>
              engine' = Mac!Engine(pc, engine.forced, engine.outcome, engine.stopped)
         /\ \A o \in Outcomes : Mac!Ends(o) =>
              engine' = Mac!Engine("ended", engine.forced, o, engine.stopped)
         /\ engine' = [engine EXCEPT !.pc = "fetched", !.outcome = "none"] =>
              engine' = Mac!Engine("fetched", engine.forced, "none", engine.stopped)
         /\ engine' = [engine EXCEPT !.pc = "ended", !.stopped = TRUE] =>
              engine' = Mac!Engine("ended", engine.forced, engine.outcome, TRUE)
         /\ \A pc \in Pcs, forced \in BOOLEAN, o \in Outcomes, stopped \in BOOLEAN :
              /\ Mac!Engine(pc, forced, o, stopped) \in Engines
              /\ Mac!Engine(pc, forced, o, stopped).pc = pc
              /\ Mac!Engine(pc, forced, o, stopped).forced = forced
              /\ Mac!Engine(pc, forced, o, stopped).outcome = o
              /\ Mac!Engine(pc, forced, o, stopped).stopped = stopped
<1>1. PICK p \in Pcs, f \in BOOLEAN, o \in Outcomes, s \in BOOLEAN :
        engine = [pc |-> p, forced |-> f, outcome |-> o, stopped |-> s]
  BY DEF Engines
<1>2. \A pc \in Pcs : Mac!Goes(pc) =>
        engine' = Mac!Engine(pc, engine.forced, engine.outcome, engine.stopped)
  BY <1>1 DEF Mac!Goes, Mac!Engine
<1>3. \A q \in Outcomes : Mac!Ends(q) =>
        engine' = Mac!Engine("ended", engine.forced, q, engine.stopped)
  BY <1>1 DEF Mac!Ends, Mac!Engine
<1>4. engine' = [engine EXCEPT !.pc = "fetched", !.outcome = "none"] =>
        engine' = Mac!Engine("fetched", engine.forced, "none", engine.stopped)
  BY <1>1 DEF Mac!Engine
<1>5. engine' = [engine EXCEPT !.pc = "ended", !.stopped = TRUE] =>
        engine' = Mac!Engine("ended", engine.forced, engine.outcome, TRUE)
  BY <1>1 DEF Mac!Engine
<1>6. \A pc \in Pcs, forced \in BOOLEAN, q \in Outcomes, stopped \in BOOLEAN :
        /\ Mac!Engine(pc, forced, q, stopped) \in Engines
        /\ Mac!Engine(pc, forced, q, stopped).pc = pc
        /\ Mac!Engine(pc, forced, q, stopped).forced = forced
        /\ Mac!Engine(pc, forced, q, stopped).outcome = q
        /\ Mac!Engine(pc, forced, q, stopped).stopped = stopped
  BY DEF Mac!Engine, Engines
<1>. QED BY <1>2, <1>3, <1>4, <1>5, <1>6

\* A commit takes the working tree, or gives up what a crash left of an integration.
LEMMA CommitTakes ==
  ASSUME NEW W, head \in TreesOver(W), WorkOver(W), midway \in BOOLEAN, Mac!Commit
  PROVE  head' \in TreesOver(W) /\ WorkOver(W)' /\ midway' \in BOOLEAN
BY DEF Mac!Commit, WorkOver

LEMMA SettledOver ==
  ASSUME NEW W, NEW mine \in TreesOver(W), NEW theirs \in TreesOver(W)
  PROVE  Mac!Settled(mine, theirs) \in TreesOver(W)
<1> DEFINE v == Mac!Reconciled(hosted[base].note, mine.note, theirs.note)
<1>1. /\ mine.note \in SidesOver(W) /\ theirs.note \in SidesOver(W)
      /\ mine.copies \subseteq TextsOver(W) /\ theirs.copies \subseteq TextsOver(W)
  BY DEF TreesOver
<1>2. v.stays \in SidesOver(W) /\ v.copy \in SidesOver(W)
  BY <1>1, ReconciledOver, MacNotions
<1>3. {v.copy} \ {Absent} \subseteq TextsOver(W)
  BY <1>2 DEF SidesOver
<1>4. Mac!Settled(mine, theirs) =
        [note |-> v.stays, copies |-> mine.copies \cup theirs.copies \cup ({v.copy} \ {Absent})]
  BY DEF Mac!Settled, Mac!Tree
<1>. HIDE DEF v
<1>. QED BY <1>1, <1>2, <1>3, <1>4 DEF TreesOver

\* The steps that ask, end or repeat a pass, and those of the network that failed: the trees stay.
QuietSteps ==
  \/ Mac!Asks \/ Mac!Ticks \/ Mac!Refuses \/ Mac!Fetches \/ Mac!FetchFails \/ Mac!StopsForHold
  \/ Mac!LosesRace \/ Mac!Repeats \/ Mac!Answers \/ Mac!Boots

LEMMA QuietStepKeeps ==
  ASSUME MacShape, Fresh, QuietSteps
  PROVE  /\ MacShape' /\ Fresh'
         /\ UNCHANGED <<hosted, wrote, turn, work, head, midway>>
<1>0. /\ up \in BOOLEAN /\ midway \in BOOLEAN
      /\ base \in 1 .. Len(hosted) /\ tracking \in 1 .. Len(hosted) /\ owed \in 1 .. Len(hosted)
      /\ turn \in Turns /\ engine \in Engines
      /\ requested \in [force : BOOLEAN, again : BOOLEAN]
      /\ engine.pc \in Pcs /\ engine.forced \in BOOLEAN /\ engine.outcome \in Outcomes
      /\ engine.stopped \in BOOLEAN
      /\ requested.force \in BOOLEAN /\ requested.again \in BOOLEAN
      /\ midway => engine.pc \in {"idle", "gate", "integrates", "refused"}
  BY DEF MacShape, Engines
<1>1. UNCHANGED <<hosted, wrote, turn, work, head, midway>>
  BY DEF QuietSteps, Mac!Asks, Mac!Ticks, Mac!Refuses, Mac!Fetches, Mac!FetchFails, Mac!StopsForHold,
    Mac!LosesRace, Mac!Repeats, Mac!Answers, Mac!Boots, Mac!vault, Mac!tree
<1>2. Len(hosted) \in 1 .. Len(hosted) /\ 1 \in 1 .. Len(hosted)
  BY <1>0
\* What a step does to the pass, with the rest of the shape standing.
<1>3. ASSUME NEW p \in Pcs, NEW f \in BOOLEAN, NEW o \in Outcomes, NEW s \in BOOLEAN,
             engine' = Mac!Engine(p, f, o, s)
      PROVE  /\ engine' \in Engines /\ engine'.pc = p /\ engine'.forced = f
             /\ engine'.outcome = o /\ engine'.stopped = s
  BY <1>0, <1>3, EngineFacts
<1>4. ASSUME engine' \in Engines, up' \in BOOLEAN, base' = base,
             tracking' \in 1 .. Len(hosted), owed' \in 1 .. Len(hosted),
             requested' \in [force : BOOLEAN, again : BOOLEAN],
             midway => engine'.pc \in {"idle", "gate", "integrates", "refused"}
      PROVE  MacShape'
  BY <1>0, <1>1, <1>4 DEF MacShape
<1>5. /\ Mac!Joined \in [force : BOOLEAN, again : BOOLEAN]
      /\ Mac!Joined.again /\ Mac!Joined.force
      /\ Mac!NothingAsked \in [force : BOOLEAN, again : BOOLEAN]
      /\ ~Mac!NothingAsked.again
  BY DEF Mac!Joined, Mac!NothingAsked
<1>6. ASSUME NEW f \in BOOLEAN, Mac!Begins(f), f \/ owed' = 1
      PROVE  /\ Fresh' /\ engine' \in Engines /\ engine'.pc = "gate"
             /\ requested' \in [force : BOOLEAN, again : BOOLEAN]
  <2>1. /\ engine' = Mac!Engine("gate", f, engine.outcome, FALSE)
        /\ requested' = Mac!NothingAsked
    BY <1>6 DEF Mac!Begins
  <2>2. /\ engine' \in Engines /\ engine'.pc = "gate" /\ engine'.forced = f
    BY <1>0, <1>3, <2>1 DEF Pcs
  <2>. QED BY <1>5, <1>6, <2>1, <2>2 DEF Fresh, PassFresh, AgainIsForced
<1>7. CASE Mac!Asks
  <2>1. /\ owed' = Len(hosted)
        /\ UNCHANGED <<up, base, tracking>>
        /\ \/ Mac!Begins(TRUE)
           \/ requested' = Mac!Joined /\ UNCHANGED engine
    BY <1>7 DEF Mac!Asks
  <2>2. CASE Mac!Begins(TRUE)
    BY <1>0, <1>1, <1>2, <1>4, <1>6, <2>1, <2>2
  <2>3. CASE requested' = Mac!Joined /\ UNCHANGED engine
    <3>1. Fresh'
      BY <1>5, <2>3 DEF Fresh, PassFresh, AgainIsForced
    <3>. QED BY <1>0, <1>1, <1>2, <1>4, <1>5, <2>1, <2>3, <3>1
  <2>. QED BY <2>1, <2>2, <2>3
<1>8. CASE Mac!Ticks
  <2>1. /\ owed' = 1 /\ Mac!Begins(FALSE) /\ UNCHANGED <<up, base, tracking>>
    BY <1>8 DEF Mac!Ticks
  <2>. QED BY <1>0, <1>1, <1>2, <1>4, <1>6, <2>1
<1>9. CASE Mac!Boots
  <2>1. /\ owed' = Len(hosted) /\ Mac!Begins(TRUE) /\ up' = TRUE /\ UNCHANGED <<base, tracking>>
    BY <1>9 DEF Mac!Boots
  <2>. QED BY <1>0, <1>1, <1>2, <1>4, <1>6, <2>1
<1>10. CASE Mac!Repeats
  <2>1. /\ requested.again /\ Mac!Begins(requested.force) /\ UNCHANGED <<up, base, tracking, owed>>
    BY <1>10 DEF Mac!Repeats
  <2>2. requested.force
    BY <2>1 DEF Fresh, AgainIsForced
  <2>. QED BY <1>0, <1>1, <1>2, <1>4, <1>6, <2>1, <2>2
<1>11. CASE Mac!Refuses
  <2>1. /\ engine' = Mac!Engine("refused", engine.forced, engine.outcome, engine.stopped)
        /\ engine.pc = "gate"
        /\ UNCHANGED <<up, base, tracking, requested, owed>>
    BY <1>0, <1>11, EngineFacts DEF Mac!Refuses, Mac!Stands, Pcs
  <2>2. /\ engine' \in Engines /\ engine'.pc = "refused" /\ engine'.forced = engine.forced
    BY <1>0, <1>3, <2>1 DEF Pcs
  <2>3. Fresh'
    BY <2>1, <2>2 DEF Fresh, PassFresh, AgainIsForced
  <2>. QED BY <1>0, <1>1, <1>4, <2>1, <2>2, <2>3
<1>12. CASE Mac!Fetches
  <2>1. /\ engine' = Mac!Engine("fetched", engine.forced, "none", engine.stopped)
        /\ engine.pc = "fetches" /\ tracking' = Len(hosted)
        /\ UNCHANGED <<up, base, requested, owed>>
    BY <1>0, <1>12, EngineFacts DEF Mac!Fetches, Mac!Stands
  <2>2. /\ engine' \in Engines /\ engine'.pc = "fetched" /\ engine'.forced = engine.forced
    BY <1>0, <1>3, <2>1 DEF Pcs, Outcomes
  <2>3. Fresh'
    BY <1>0, <2>1, <2>2 DEF Fresh, PassFresh, AgainIsForced
  <2>. QED BY <1>0, <1>1, <1>2, <1>4, <2>1, <2>2, <2>3
<1>13. CASE Mac!FetchFails
  <2>1. /\ engine' = Mac!Engine("ended", engine.forced, "unreachable", engine.stopped)
        /\ engine.pc = "fetches"
        /\ UNCHANGED <<up, base, tracking, requested, owed>>
    BY <1>0, <1>13, EngineFacts DEF Mac!FetchFails, Mac!Stands, Outcomes
  <2>2. /\ engine' \in Engines /\ engine'.pc = "ended" /\ engine'.forced = engine.forced
        /\ engine'.outcome = "unreachable"
    BY <1>0, <1>3, <2>1 DEF Pcs, Outcomes
  <2>3. Fresh'
    BY <2>1, <2>2 DEF Fresh, PassFresh, AgainIsForced
  <2>. QED BY <1>0, <1>1, <1>4, <2>1, <2>2, <2>3
<1>14. CASE Mac!StopsForHold
  <2>1. /\ engine' = Mac!Engine("ended", engine.forced, engine.outcome, TRUE)
        /\ engine.pc = "fetched"
        /\ UNCHANGED <<up, base, tracking, requested, owed>>
    BY <1>0, <1>14, EngineFacts DEF Mac!StopsForHold, Mac!Stands
  <2>2. /\ engine' \in Engines /\ engine'.pc = "ended" /\ engine'.forced = engine.forced
        /\ engine'.stopped = TRUE
    BY <1>0, <1>3, <2>1 DEF Pcs
  <2>3. Fresh'
    BY <2>1, <2>2 DEF Fresh, PassFresh, AgainIsForced
  <2>. QED BY <1>0, <1>1, <1>4, <2>1, <2>2, <2>3
<1>15. CASE Mac!LosesRace
  <2>1. /\ engine' = Mac!Engine("ended", engine.forced, "none", engine.stopped)
        /\ engine.pc = "pushes"
        /\ UNCHANGED <<up, base, tracking, requested, owed>>
    BY <1>0, <1>15, EngineFacts DEF Mac!LosesRace, Mac!Stands, Outcomes
  <2>2. /\ engine' \in Engines /\ engine'.pc = "ended" /\ engine'.forced = engine.forced
    BY <1>0, <1>3, <2>1 DEF Pcs, Outcomes
  <2>3. Fresh'
    BY <2>1, <2>2 DEF Fresh, PassFresh, AgainIsForced
  <2>. QED BY <1>0, <1>1, <1>4, <2>1, <2>2, <2>3
<1>16. CASE Mac!Answers
  <2>1. /\ engine' = Mac!Engine("idle", FALSE, engine.outcome, FALSE)
        /\ UNCHANGED <<up, base, tracking, requested, owed>>
    BY <1>16 DEF Mac!Answers, Mac!NoSync
  <2>2. /\ engine' \in Engines /\ engine'.pc = "idle"
    BY <1>0, <1>3, <2>1 DEF Pcs
  <2>3. Fresh'
    BY <2>1, <2>2 DEF Fresh, PassFresh, AgainIsForced
  <2>. QED BY <1>0, <1>1, <1>4, <2>1, <2>2, <2>3
<1>. QED BY <1>7, <1>8, <1>9, <1>10, <1>11, <1>12, <1>13, <1>14, <1>15, <1>16 DEF QuietSteps

\* The steps that commit, integrate or push.  A step that commits the working tree does so with no
\* hold out, when it is drawn from the same words as HEAD.
TreeSteps ==
  \/ Mac!Flush \/ Mac!Prepares \/ Mac!Integrates
  \/ Mac!IntegrationLands \/ Mac!IntegrationFails \/ Mac!Pushes

LEMMA TreeStepKeeps ==
  ASSUME NEW W, NEW V, W \subseteq V,
         MacShape, Fresh, HostedOver(W), head \in TreesOver(W), WorkOver(V),
         turn.phase = "none" => V = W, TreeSteps
  PROVE  /\ MacShape' /\ Fresh' /\ UNCHANGED <<wrote, turn>>
         /\ HostedOver(W)' /\ head' \in TreesOver(W) /\ WorkOver(V)'
<1>0. /\ up \in BOOLEAN /\ midway \in BOOLEAN
      /\ base \in 1 .. Len(hosted) /\ tracking \in 1 .. Len(hosted) /\ owed \in 1 .. Len(hosted)
      /\ turn \in Turns /\ engine \in Engines
      /\ requested \in [force : BOOLEAN, again : BOOLEAN]
      /\ engine.pc \in Pcs /\ engine.forced \in BOOLEAN /\ engine.outcome \in Outcomes
      /\ engine.stopped \in BOOLEAN
      /\ midway => engine.pc \in {"idle", "gate", "integrates", "refused"}
  BY DEF MacShape, Engines
<1>1. /\ hosted \in Seq(TreesOver(W)) /\ hosted # <<>> /\ Len(hosted) \in Nat
      /\ \A i \in 1 .. Len(hosted) : hosted[i] \in TreesOver(W)
  BY LenProperties DEF HostedOver
<1>2. TreesOver(W) \subseteq TreesOver(V)
  BY OverGrows
<1>3. UNCHANGED <<wrote, turn>>
  BY DEF TreeSteps, Mac!Flush, Mac!Prepares, Mac!Integrates, Mac!Begun, Mac!IntegrationLands,
    Mac!IntegrationFails, Mac!Pushes, Mac!vault
<1>4. ASSUME engine' \in Engines, up' = up, midway' \in BOOLEAN,
             base' \in 1 .. Len(hosted'), tracking' \in 1 .. Len(hosted'), owed' \in 1 .. Len(hosted'),
             requested' = requested,
             midway' => engine'.pc \in {"idle", "gate", "integrates", "refused"}
      PROVE  MacShape'
  BY <1>0, <1>3, <1>4 DEF MacShape
<1>5. ASSUME NEW p \in Pcs, NEW f \in BOOLEAN, NEW o \in Outcomes, NEW s \in BOOLEAN,
             engine' = Mac!Engine(p, f, o, s)
      PROVE  /\ engine' \in Engines /\ engine'.pc = p /\ engine'.forced = f
             /\ engine'.outcome = o /\ engine'.stopped = s
  BY <1>0, <1>5, EngineFacts
<1>6. ASSUME hosted' = hosted PROVE HostedOver(W)'
  BY <1>1, <1>6 DEF HostedOver
<1>7. CASE Mac!Flush
  <2>1. /\ turn.phase = "none" /\ Mac!Commit /\ ~midway'
        /\ UNCHANGED <<hosted, up, base, tracking, engine, requested, owed>>
    BY <1>0, <1>7 DEF Mac!Flush, Mac!Commit, Mac!Held, Mac!vault, Turns
  <2>2. head' \in TreesOver(W) /\ WorkOver(V)' /\ midway' \in BOOLEAN
    BY <1>0, <2>1, CommitTakes
  <2>3. Fresh'
    BY <2>1 DEF Fresh, PassFresh, AgainIsForced
  <2>. QED BY <1>0, <1>3, <1>4, <1>6, <2>1, <2>2, <2>3
<1>8. CASE Mac!Prepares
  <2>1. /\ turn.phase = "none" /\ Mac!Commit /\ engine.pc = "gate" /\ ~midway'
        /\ UNCHANGED <<hosted, up, base, tracking, requested, owed>>
    BY <1>0, <1>8 DEF Mac!Prepares, Mac!Commit, Mac!Held, Mac!Stands, Mac!vault, Turns
  <2>2. head' \in TreesOver(W) /\ WorkOver(V)' /\ midway' \in BOOLEAN
    BY <1>0, <2>1, CommitTakes
  <2>3. PICK p \in {"fetches", "ended"} :
          /\ engine' = Mac!Engine(p, engine.forced, engine.outcome, engine.stopped)
          /\ p = "ended" => ~engine.forced
    <3>1. Mac!Goes("fetches") \/ (Mac!Excused /\ Mac!Goes("ended"))
      BY <1>8 DEF Mac!Prepares
    <3>. QED BY <1>0, <3>1, EngineFacts DEF Mac!Excused, Pcs
  <2>4. engine' \in Engines /\ engine'.pc = p /\ engine'.forced = engine.forced
    BY <1>0, <1>5, <2>3 DEF Pcs
  <2>5. Fresh'
    BY <1>0, <2>1, <2>3, <2>4 DEF Fresh, PassFresh, AgainIsForced
  <2>. QED BY <1>0, <1>3, <1>4, <1>6, <2>1, <2>2, <2>4, <2>5
<1>9. CASE Mac!Integrates
  <2>1. /\ turn.phase = "none" /\ engine.pc = "fetched"
        /\ head' = work /\ midway' = (tracking > base)
        /\ work' = IF tracking > base THEN Mac!Torn ELSE work
        /\ UNCHANGED <<hosted, up, base, tracking, requested, owed>>
    BY <1>0, <1>9 DEF Mac!Integrates, Mac!Begun, Mac!Held, Mac!Stands, Mac!vault, Turns
  <2>2. /\ ~midway /\ V = W /\ work \in TreesOver(W)
    BY <1>0, <2>1 DEF WorkOver
  <2>3. head' \in TreesOver(W) /\ WorkOver(V)' /\ midway' \in BOOLEAN
    <3>1. CASE tracking > base
      <4>1. midway' = TRUE
        BY <2>1, <3>1
      <4>. QED BY <2>1, <2>2, <4>1 DEF WorkOver
    <3>2. CASE ~(tracking > base)
      <4>1. midway' = FALSE /\ work' = work
        BY <1>0, <1>1, <2>1, <3>2
      <4>. QED BY <2>1, <2>2, <4>1 DEF WorkOver
    <3>. QED BY <3>1, <3>2
  <2>4. PICK p \in {"integrates", "ended", "pushes"} :
          /\ engine' = Mac!Engine(p, engine.forced, engine.outcome, engine.stopped)
          /\ p = "integrates" <=> tracking > base
    <3>1. Mac!Goes(IF tracking > base THEN "integrates" ELSE IF Mac!InSync THEN "ended" ELSE "pushes")
      BY <1>9 DEF Mac!Integrates, Mac!Begun
    <3>. QED BY <1>0, <3>1, EngineFacts DEF Pcs
  <2>5. engine' \in Engines /\ engine'.pc = p /\ engine'.forced = engine.forced
    BY <1>0, <1>5, <2>4 DEF Pcs
  <2>6. Fresh'
    BY <1>0, <2>1, <2>4, <2>5 DEF Fresh, PassFresh, AgainIsForced
  <2>7. MacShape'
    BY <1>0, <1>4, <2>1, <2>3, <2>4, <2>5
  <2>. QED BY <1>3, <1>6, <2>1, <2>3, <2>6, <2>7
<1>10. CASE Mac!IntegrationLands
  <2>1. /\ engine.pc = "integrates"
        /\ head' = Mac!Settled(head, hosted[tracking]) /\ work' = head' /\ midway' = FALSE
        /\ base' = tracking
        /\ UNCHANGED <<hosted, up, tracking, requested, owed>>
    BY <1>10 DEF Mac!IntegrationLands, Mac!Stands, Mac!vault
  <2>2. head' \in TreesOver(W) /\ WorkOver(V)'
    BY <1>0, <1>1, <1>2, <2>1, SettledOver DEF WorkOver
  <2>3. PICK p \in {"ended", "pushes"} :
          engine' = Mac!Engine(p, engine.forced, engine.outcome, engine.stopped)
    <3>1. Mac!Goes(IF head' = hosted[tracking] THEN "ended" ELSE "pushes")
      BY <1>10 DEF Mac!IntegrationLands
    <3>. QED BY <1>0, <3>1, EngineFacts DEF Pcs
  <2>4. engine' \in Engines /\ engine'.pc = p /\ engine'.forced = engine.forced
    BY <1>0, <1>5, <2>3 DEF Pcs
  <2>5. Fresh'
    BY <1>0, <2>1, <2>3, <2>4 DEF Fresh, PassFresh, AgainIsForced
  <2>. QED BY <1>0, <1>3, <1>4, <1>6, <2>1, <2>2, <2>4, <2>5
<1>11. CASE Mac!IntegrationFails
  <2>1. /\ engine.pc = "integrates" /\ work' = head /\ head' = head /\ midway' = FALSE
        /\ engine' = Mac!Engine("ended", engine.forced, "stalled", engine.stopped)
        /\ UNCHANGED <<hosted, up, base, tracking, requested, owed>>
    BY <1>0, <1>11, EngineFacts DEF Mac!IntegrationFails, Mac!Stands, Mac!vault, Outcomes
  <2>2. head' \in TreesOver(W) /\ WorkOver(V)'
    BY <1>2, <2>1 DEF WorkOver
  <2>3. /\ engine' \in Engines /\ engine'.pc = "ended" /\ engine'.forced = engine.forced
        /\ engine'.outcome = "stalled"
    BY <1>0, <1>5, <2>1 DEF Pcs, Outcomes
  <2>4. Fresh'
    BY <1>0, <2>1, <2>3 DEF Fresh, PassFresh, AgainIsForced
  <2>. QED BY <1>0, <1>3, <1>4, <1>6, <2>1, <2>2, <2>3, <2>4
<1>12. CASE Mac!Pushes
  <2>1. /\ engine.pc = "pushes" /\ hosted' = Append(hosted, head) /\ base' = Len(hosted')
        /\ UNCHANGED <<up, work, head, midway, requested, owed>>
        /\ tracking' = base' \/ UNCHANGED tracking
    BY <1>12 DEF Mac!Pushes, Mac!Stands, Mac!tree
  <2>2. PICK o \in {"none", "unreachable"} :
          engine' = Mac!Engine("ended", engine.forced, o, engine.stopped)
    <3>1. Mac!Ends("none") \/ Mac!Ends("unreachable")
      BY <1>12 DEF Mac!Pushes
    <3>. QED BY <1>0, <3>1, EngineFacts DEF Outcomes
  <2>3. /\ engine' \in Engines /\ engine'.pc = "ended" /\ engine'.forced = engine.forced
    BY <1>0, <1>5, <2>2 DEF Pcs, Outcomes
  <2>4. /\ hosted' \in Seq(TreesOver(W)) /\ hosted' # <<>> /\ Len(hosted') = Len(hosted) + 1
    BY <1>1, <2>1, QueueFacts
  <2>5. Fresh'
    BY <1>0, <1>1, <2>1, <2>3, <2>4 DEF Fresh, PassFresh, AgainIsForced
  <2>6. /\ base' \in 1 .. Len(hosted') /\ tracking' \in 1 .. Len(hosted')
        /\ owed' \in 1 .. Len(hosted')
    BY <1>0, <1>1, <2>1, <2>4
  <2>7. MacShape'
    BY <1>0, <1>4, <2>1, <2>3, <2>6
  <2>8. head' \in TreesOver(W) /\ WorkOver(V)'
    BY <2>1 DEF WorkOver
  <2>. QED BY <1>3, <2>4, <2>5, <2>7, <2>8 DEF HostedOver
<1>. QED BY <1>7, <1>8, <1>9, <1>10, <1>11, <1>12 DEF TreeSteps

-----------------------------------------------------------------------------
(* Who wrote what. *)

Deeds == [by : {"first", "phone", "user", "agent"}, on : SUBSET Lines]

\* While a turn writes, the words that may leave the working tree: those from before it, and those
\* of the others since.
Allowed ==
  {w \in 1 .. Len(wrote) : turn.phase = "writes" => w < turn.since \/ wrote[w].by # "agent"}

WroteShape == wrote \in Seq(Deeds) /\ left \in [Kinds -> Nat]

LEMMA SpendsFacts ==
  ASSUME left \in [Kinds -> Nat], NEW what \in Kinds, Phone!Spends(what) \/ Mac!Spends(what)
  PROVE  left' \in [Kinds -> Nat]
<1>1. left[what] \in Nat /\ left[what] > 0 /\ left' = [left EXCEPT ![what] = left[what] - 1]
  BY DEF Phone!Spends, Mac!Spends
<1>2. left[what] - 1 \in Nat
  BY <1>1
<1>. QED BY <1>1, <1>2

LEMMA DeedFacts ==
  ASSUME WroteShape, NEW who \in {"phone", "user", "agent"}, NEW side, NEW after,
         Phone!Edits(who, side, after) \/ Mac!Edits(who, side, after)
  PROVE  /\ WroteShape'
         /\ Len(wrote) \in Nat /\ Len(wrote') = Len(wrote) + 1 /\ Word = Len(wrote) + 1
         /\ \A w \in 1 .. Len(wrote) : wrote'[w] = wrote[w]
         /\ wrote'[Word].by = who
<1>1. PICK on \in SUBSET Lines : wrote' = Append(wrote, [by |-> who, on |-> on])
  BY DEF Phone!Edits, Mac!Edits
<1>2. [by |-> who, on |-> on] \in Deeds /\ wrote \in Seq(Deeds) /\ Len(wrote) \in Nat
  BY LenProperties DEF Deeds, WroteShape
<1>3. /\ wrote' \in Seq(Deeds) /\ Len(wrote') = Len(wrote) + 1
      /\ \A i \in 1 .. Len(wrote') : wrote'[i] = IF i = Len(wrote) + 1 THEN [by |-> who, on |-> on]
                                                ELSE wrote[i]
  BY <1>1, <1>2, QueueFacts
<1>4. left' \in [Kinds -> Nat]
  <2>1. who \in Kinds /\ left \in [Kinds -> Nat]
    BY DEF Kinds, WroteShape
  <2>. QED BY <2>1, SpendsFacts DEF Phone!Edits, Mac!Edits
<1>5. wrote'[Word].by = who /\ Word = Len(wrote) + 1
  BY <1>2, <1>3 DEF Word
<1>. QED BY <1>2, <1>3, <1>4, <1>5 DEF WroteShape

\* Every step but an edit leaves what was written, and may spend one of its turns to act.
LEMMA OtherSteps ==
  ASSUME WroteShape,
         \/ (Phone!Pass \/ Phone!List \/ Phone!ApplyTree \/ Phone!GivesUp \/ Phone!RunsLate)
         \/ TreeSteps \/ QuietSteps
         \/ Mac!TurnHolds \/ Mac!TurnReady \/ Mac!TurnEnds \/ Mac!Dies
  PROVE  wrote' = wrote /\ left' \in [Kinds -> Nat] /\ WroteShape'
<1>0. wrote \in Seq(Deeds) /\ left \in [Kinds -> Nat]
  BY DEF WroteShape
<1>1. /\ wrote' = wrote
      /\ \/ left' = left
         \/ \E what \in Kinds : Phone!Spends(what) \/ Mac!Spends(what)
  <2>1. CASE Phone!Pass
    BY <2>1 DEF Phone!Pass, Phone!SendPinned, Phone!AskHead, Phone!Repin, Phone!Resend,
      Phone!VaultRuns, Phone!Landed, Phone!ResolvedLocally, Phone!SettleRow, Phone!ResolvedToSend,
      Phone!vault
  <2>2. CASE Phone!List \/ Phone!ApplyTree \/ Phone!GivesUp \/ Phone!RunsLate
    BY <2>2 DEF Phone!List, Phone!ApplyTree, Phone!GivesUp, Phone!RunsLate, Phone!vault, Kinds
  <2>3. CASE TreeSteps
    BY <2>3 DEF TreeSteps, Mac!Flush, Mac!Prepares, Mac!Integrates, Mac!Begun,
      Mac!IntegrationLands, Mac!IntegrationFails, Mac!Pushes, Mac!vault, Kinds
  <2>4. CASE QuietSteps
    BY <2>4 DEF QuietSteps, Mac!Asks, Mac!Ticks, Mac!Refuses, Mac!Fetches, Mac!FetchFails,
      Mac!StopsForHold, Mac!LosesRace, Mac!Repeats, Mac!Answers, Mac!Boots, Mac!vault, Kinds
  <2>5. CASE Mac!TurnHolds \/ Mac!TurnReady \/ Mac!TurnEnds \/ Mac!Dies
    BY <2>5 DEF Mac!TurnHolds, Mac!TurnReady, Mac!TurnEnds, Mac!Dies, Mac!vault, Kinds
  <2>. QED BY <2>1, <2>2, <2>3, <2>4, <2>5
<1>2. left' \in [Kinds -> Nat]
  BY <1>0, <1>1, SpendsFacts
<1>. QED BY <1>0, <1>1, <1>2 DEF WroteShape

LEMMA AllowedFacts ==
  ASSUME wrote \in Seq(Deeds)
  PROVE  /\ Len(wrote) \in Nat
         /\ Allowed \subseteq 1 .. Len(wrote) /\ 1 .. Len(wrote) \subseteq Words
         /\ turn.phase # "writes" => Allowed = 1 .. Len(wrote)
         /\ wrote' = wrote /\ turn' = turn => Allowed' = Allowed
         /\ wrote' = wrote /\ turn'.phase # "writes" => Allowed' = 1 .. Len(wrote)
         /\ wrote' = wrote /\ turn'.since = Len(wrote) + 1 => Allowed' = 1 .. Len(wrote)
<1>1. Len(wrote) \in Nat
  BY LenProperties
<1>. QED BY <1>1 DEF Allowed, Words

LEMMA AllowedGrows ==
  ASSUME WroteShape, NEW who \in {"phone", "user", "agent"}, NEW side, NEW after,
         Phone!Edits(who, side, after) \/ Mac!Edits(who, side, after), turn' = turn
  PROVE  /\ Allowed \subseteq Allowed' /\ Allowed' \in SUBSET Words
         /\ who # "agent" => Word \in Allowed'
         /\ 1 .. Len(wrote') = 1 .. Len(wrote) \cup {Word}
         /\ turn.phase # "writes" => Allowed' = 1 .. Len(wrote')
<1>1. /\ Len(wrote) \in Nat /\ Len(wrote') = Len(wrote) + 1 /\ Word = Len(wrote) + 1
      /\ \A w \in 1 .. Len(wrote) : wrote'[w] = wrote[w]
      /\ wrote'[Word].by = who
  BY DeedFacts
<1>2. \A w \in 1 .. Len(wrote) : w \in Allowed => w \in Allowed'
  BY <1>1 DEF Allowed
<1>3. who # "agent" => Word \in Allowed'
  BY <1>1 DEF Allowed
<1>. QED BY <1>1, <1>2, <1>3 DEF Allowed, Words

-----------------------------------------------------------------------------
(* The invariant. *)

\* What the devices and the vault store, but for the working tree.
Stored(W) == PhoneOver(W) /\ HostedOver(W) /\ head \in TreesOver(W)

IInv ==
  /\ MacShape /\ PhoneShape /\ Fresh /\ WroteShape
  /\ Stored(Allowed)
  /\ WorkOver(1 .. Len(wrote))

LEMMA StoredGrows ==
  ASSUME NEW W, NEW V, W \subseteq V, Stored(W)
  PROVE  Stored(V)
<1>1. TreesOver(W) \subseteq TreesOver(V)
  BY OverGrows
<1>2. Seq(TreesOver(W)) \subseteq Seq(TreesOver(V))
  BY <1>1
<1>. QED BY <1>1, <1>2, PhoneGrows DEF Stored, HostedOver

LEMMA InitHolds == Init => IInv
<1>. SUFFICES ASSUME Init PROVE IInv
  OBVIOUS
<1>1. /\ hosted = <<Tree([l \in Lines |-> 1], {})>>
      /\ wrote = <<[by |-> "first", on |-> Lines]>>
      /\ left \in Scenes /\ Phone!Init /\ Mac!Init
  BY DEF Init
<1>2. /\ [by |-> "first", on |-> Lines] \in Deeds
      /\ wrote \in Seq(Deeds) /\ Len(wrote) = 1 /\ Len(hosted) = 1
      /\ Tree([l \in Lines |-> 1], {}) \in TreesOver({1})
      /\ hosted \in Seq(TreesOver({1})) /\ hosted # <<>> /\ HeadTree \in TreesOver({1})
  <2>1. [by |-> "first", on |-> Lines] \in Deeds
    BY DEF Deeds
  <2>2. Tree([l \in Lines |-> 1], {}) \in TreesOver({1})
    BY DEF Tree, TreesOver, SidesOver, TextsOver
  <2>. QED BY <1>1, <2>1, <2>2 DEF HeadTree
<1>3. /\ up = TRUE /\ work = HeadTree /\ head = HeadTree /\ midway = FALSE
      /\ base = 1 /\ tracking = 1 /\ owed = 1
      /\ turn = [phase |-> "none", since |-> 0]
      /\ engine = Mac!Engine("idle", FALSE, "none", FALSE)
      /\ requested = [force |-> FALSE, again |-> FALSE]
  <2>1. /\ up = TRUE /\ work = HeadTree /\ head = HeadTree /\ midway = FALSE
        /\ base = 1 /\ tracking = 1 /\ owed = 1
    BY <1>1, <1>2, MacNotions DEF Mac!Init
  <2>2. turn = [phase |-> "none", since |-> 0]
    BY <1>1 DEF Mac!Init, Mac!NoTurn, Mac!Turn
  <2>3. engine = Mac!Engine("idle", FALSE, "none", FALSE)
    BY <1>1 DEF Mac!Init, Mac!NoSync
  <2>4. requested = [force |-> FALSE, again |-> FALSE]
    BY <1>1 DEF Mac!Init, Mac!NothingAsked
  <2>. QED BY <2>1, <2>2, <2>3, <2>4
<1>4. MacShape /\ Fresh
  <2>1. engine \in Engines /\ engine.pc = "idle"
    BY <1>3 DEF Engines, Pcs, Outcomes, Mac!Engine
  <2>2. /\ requested \in [force : BOOLEAN, again : BOOLEAN] /\ ~requested.again
        /\ turn \in Turns
    BY <1>3 DEF Turns
  <2>3. Fresh
    BY <2>1, <2>2 DEF Fresh, PassFresh, AgainIsForced
  <2>4. up \in BOOLEAN /\ midway \in BOOLEAN /\ ~midway
    BY <1>3
  <2>5. base \in 1 .. Len(hosted) /\ tracking \in 1 .. Len(hosted) /\ owed \in 1 .. Len(hosted)
    BY <1>2, <1>3
  <2>. QED BY <2>1, <2>2, <2>3, <2>4, <2>5 DEF MacShape
<1>5. Allowed = {1} /\ 1 .. Len(wrote) = {1}
  BY <1>2, <1>3 DEF Allowed
<1>6. WorkOver(1 .. Len(wrote)) /\ head \in TreesOver(Allowed) /\ HostedOver(Allowed)
  BY <1>2, <1>3, <1>5 DEF WorkOver, HostedOver
<1>7. /\ mirror = HeadTree.note /\ rows = <<>> /\ pass = Phone!Resting /\ walk = Phone!NoWalk
      /\ late = {} /\ detours = {} /\ rebasedOver = {}
  BY <1>1, PhoneNotions DEF Phone!Init
<1>8. PhoneOver(Allowed)
  <2>1. HeadTree.note \in SidesOver(Allowed) /\ Absent \in SidesOver(Allowed)
    BY <1>2, <1>5 DEF TreesOver, SidesOver
  <2>2. Phone!Resting \in PassesOver(Allowed) /\ Phone!NoWalk \in WalksOver(Allowed)
    BY <2>1 DEF Phone!Resting, Phone!Waits, Phone!NoRow, Phone!RemoveRow, Phone!Row,
      Phone!NoSettle, Phone!Settle, Phone!NoSet, Phone!ChangeSet, Phone!NoWalk, WalksOver,
      PassesOver, RowsOver, SettlesOver, SetsOver
  <2>3. rows \in Seq(RowsOver(Allowed)) /\ DOMAIN rows = {}
    BY <1>7
  <2>. QED BY <1>7, <2>1, <2>2, <2>3 DEF PhoneOver, RowShape
<1>9. PhoneShape
  <2>1. Len(rows) = 0 /\ pass.pc = "idle"
    BY <1>7 DEF Phone!Resting, Phone!Waits
  <2>2. Len(rows) <= MaxRows
    BY <2>1, MaxRowsAssumption
  <2>3. detours \subseteq Phone!Detours
    BY <1>7
  <2>. QED BY <2>1, <2>2, <2>3 DEF PhoneShape
<1>10. WroteShape
  BY <1>1, <1>2, ScenesAssumption DEF WroteShape
<1>. QED BY <1>4, <1>6, <1>8, <1>9, <1>10 DEF IInv, Stored

\* An edit on the phone.
LEMMA PhoneWritesStep == IInv /\ Phone!Writes /\ UNCHANGED ofMac => IInv'
<1>. SUFFICES ASSUME IInv, Phone!Writes, UNCHANGED ofMac PROVE IInv'
  OBVIOUS
<1>1. UNCHANGED <<up, work, head, base, tracking, midway, turn, engine, requested, owed>>
  BY DEF ofMac
<1>2. PICK side, after : Phone!Edits("phone", side, after)
  BY DEF Phone!Writes
<1>3. /\ MacShape /\ PhoneShape /\ Fresh /\ WroteShape /\ Stored(Allowed)
      /\ WorkOver(1 .. Len(wrote))
  BY DEF IInv
<1>4. PICK W \in SUBSET Words, V \in SUBSET Words : W = Allowed /\ V = Allowed'
  BY <1>1, <1>2, <1>3, AllowedGrows, AllowedFacts DEF WroteShape
<1>5. W \subseteq V /\ Word \in V /\ 1 .. Len(wrote) \subseteq 1 .. Len(wrote')
  BY <1>1, <1>2, <1>3, <1>4, AllowedGrows
<1>6. PhoneOver(V)' /\ PhoneShape' /\ hosted' = hosted
  BY <1>3, <1>4, <1>5, PhoneWritesKeeps DEF Stored
<1>7. HostedOver(V) /\ head \in TreesOver(V)
  BY <1>3, <1>4, <1>5, StoredGrows DEF Stored
<1>8. HostedOver(V)' /\ head' \in TreesOver(V)
  BY <1>1, <1>6, <1>7 DEF HostedOver
<1>9. Stored(V)'
  BY <1>6, <1>8 DEF Stored
<1>10. Stored(Allowed)'
  BY <1>4, <1>9 DEF Stored
<1>11. WorkOver(1 .. Len(wrote))'
  <2>1. TreesOver(1 .. Len(wrote)) \subseteq TreesOver(1 .. Len(wrote'))
    BY <1>5, OverGrows
  <2>. QED BY <1>1, <1>3, <2>1 DEF WorkOver
<1>12. WroteShape'
  BY <1>2, <1>3, DeedFacts
<1>13. MacShape' /\ Fresh'
  BY <1>1, <1>3, <1>6 DEF MacShape, Fresh, PassFresh, AgainIsForced
<1>. QED BY <1>6, <1>10, <1>11, <1>12, <1>13 DEF IInv

\* The phone's pass and refresh, and a set that arrives late.
LEMMA PhoneOtherStep ==
  /\ IInv /\ UNCHANGED ofMac
  /\ Phone!Pass \/ Phone!List \/ Phone!ApplyTree \/ Phone!GivesUp \/ Phone!RunsLate
  => IInv'
<1>. SUFFICES ASSUME IInv, UNCHANGED ofMac,
                     Phone!Pass \/ Phone!List \/ Phone!ApplyTree \/ Phone!GivesUp \/ Phone!RunsLate
              PROVE  IInv'
  OBVIOUS
<1>1. UNCHANGED <<up, work, head, base, tracking, midway, turn, engine, requested, owed>>
  BY DEF ofMac
<1>2. /\ MacShape /\ PhoneShape /\ Fresh /\ WroteShape /\ Stored(Allowed)
      /\ WorkOver(1 .. Len(wrote))
  BY DEF IInv
<1>3. wrote' = wrote /\ WroteShape'
  BY <1>2, OtherSteps
<1>4. PICK W \in SUBSET Words : W = Allowed
  BY <1>2, AllowedFacts DEF WroteShape
<1>5. Allowed' = W
  BY <1>1, <1>2, <1>3, <1>4, AllowedFacts DEF WroteShape
<1>6. /\ PhoneOver(W)' /\ HostedOver(W)' /\ PhoneShape'
      /\ Len(hosted') \in {Len(hosted), Len(hosted) + 1}
  BY <1>2, <1>4, PhoneStepKeeps DEF Stored
<1>7. head' \in TreesOver(W)
  BY <1>1, <1>2, <1>4 DEF Stored
<1>8. Stored(Allowed)'
  BY <1>5, <1>6, <1>7 DEF Stored
<1>9. MacShape'
  <2>1. Len(hosted) \in Nat
    BY <1>2, LenProperties DEF Stored, HostedOver
  <2>2. 1 .. Len(hosted) \subseteq 1 .. Len(hosted')
    BY <1>6, <2>1
  <2>. QED BY <1>1, <1>2, <2>2 DEF MacShape
<1>10. Fresh' /\ WorkOver(1 .. Len(wrote))'
  BY <1>1, <1>2, <1>3 DEF Fresh, PassFresh, AgainIsForced, WorkOver
<1>. QED BY <1>3, <1>6, <1>8, <1>9, <1>10 DEF IInv

LEMMA PhoneStands ==
  ASSUME NEW W, PhoneOver(W), PhoneShape, UNCHANGED ofPhone
  PROVE  PhoneOver(W)' /\ PhoneShape'
<1>1. UNCHANGED <<mirror, rows, pass, walk, late, detours, rebasedOver>>
  BY DEF ofPhone
<1>. QED BY <1>1 DEF PhoneOver, PhoneShape, RowShape

\* The Mac's passes.
LEMMA MacPassStep == IInv /\ UNCHANGED ofPhone /\ (TreeSteps \/ QuietSteps) => IInv'
<1>. SUFFICES ASSUME IInv, UNCHANGED ofPhone, TreeSteps \/ QuietSteps
              PROVE  IInv'
  OBVIOUS
<1>1. /\ MacShape /\ PhoneShape /\ Fresh /\ WroteShape /\ Stored(Allowed)
      /\ WorkOver(1 .. Len(wrote))
  BY DEF IInv
<1>2. wrote' = wrote /\ WroteShape'
  BY <1>1, OtherSteps
<1>3. PICK W \in SUBSET Words, V \in SUBSET Words : W = Allowed /\ V = 1 .. Len(wrote)
  BY <1>1, AllowedFacts DEF WroteShape
<1>4. W \subseteq V /\ (turn.phase = "none" => V = W)
  BY <1>1, <1>3, AllowedFacts DEF WroteShape
<1>5. HostedOver(W) /\ head \in TreesOver(W) /\ WorkOver(V) /\ PhoneOver(W)
  BY <1>1, <1>3 DEF Stored
<1>6. /\ MacShape' /\ Fresh' /\ turn' = turn
      /\ HostedOver(W)' /\ head' \in TreesOver(W) /\ WorkOver(V)'
  <2>1. CASE TreeSteps
    BY <1>1, <1>4, <1>5, <2>1, TreeStepKeeps
  <2>2. CASE QuietSteps
    <3>1. /\ MacShape' /\ Fresh'
          /\ UNCHANGED <<hosted, wrote, turn, work, head, midway>>
      BY <1>1, <2>2, QuietStepKeeps
    <3>. QED BY <1>5, <3>1 DEF HostedOver, WorkOver
  <2>. QED BY <2>1, <2>2
<1>7. Allowed' = W /\ 1 .. Len(wrote') = V
  BY <1>1, <1>2, <1>3, <1>6, AllowedFacts DEF WroteShape
<1>8. PhoneOver(W)' /\ PhoneShape'
  BY <1>1, <1>5, PhoneStands
<1>9. Stored(Allowed)' /\ WorkOver(1 .. Len(wrote))'
  BY <1>6, <1>7, <1>8 DEF Stored, WorkOver
<1>. QED BY <1>2, <1>6, <1>8, <1>9 DEF IInv

\* An edit in the Mac's working tree, of a person or of a turn.
LEMMA MacWritesStep == IInv /\ UNCHANGED ofPhone /\ (Mac!UserWrites \/ Mac!AgentWrites) => IInv'
<1>. SUFFICES ASSUME IInv, UNCHANGED ofPhone, Mac!UserWrites \/ Mac!AgentWrites
              PROVE  IInv'
  OBVIOUS
<1>1. PICK who \in {"user", "agent"} : Mac!Writes(who) /\ (who = "agent" => turn.phase = "writes")
  BY DEF Mac!UserWrites, Mac!AgentWrites
<1>2. PICK after \in EditsOf(work.note) :
        /\ Mac!Edits(who, work.note, after) /\ work' = [work EXCEPT !.note = after]
        /\ UNCHANGED <<hosted, up, head, midway, base, tracking, turn, engine, requested, owed>>
  BY <1>1, MacNotions DEF Mac!Writes
<1>3. /\ MacShape /\ PhoneShape /\ Fresh /\ WroteShape /\ Stored(Allowed)
      /\ WorkOver(1 .. Len(wrote))
  BY DEF IInv
<1>4. /\ Allowed \subseteq Allowed' /\ Allowed' \in SUBSET Words
      /\ 1 .. Len(wrote') = 1 .. Len(wrote) \cup {Word}
  BY <1>2, <1>3, AllowedGrows
<1>5. PICK V \in SUBSET Words : V = Allowed'
  BY <1>4
<1>6. Stored(V)
  BY <1>3, <1>4, <1>5, StoredGrows
<1>7. PhoneOver(V)' /\ PhoneShape'
  BY <1>3, <1>6, PhoneStands DEF Stored
<1>8. Stored(Allowed)'
  BY <1>2, <1>5, <1>6, <1>7 DEF Stored, HostedOver
<1>9. WorkOver(1 .. Len(wrote))'
  <2>0. SUFFICES ASSUME ~midway PROVE WorkOver(1 .. Len(wrote))'
    BY <1>2 DEF WorkOver
  <2>1. work \in TreesOver(1 .. Len(wrote))
    BY <1>3, <2>0 DEF WorkOver
  <2>2. after \in SidesOver(1 .. Len(wrote'))
    BY <1>4, <2>1, EditsOver DEF TreesOver
  <2>3. work \in TreesOver(1 .. Len(wrote'))
    BY <1>4, <2>1, OverGrows
  <2>4. work' \in TreesOver(1 .. Len(wrote'))
    BY <1>2, <2>2, <2>3 DEF TreesOver
  <2>. QED BY <2>4 DEF WorkOver
<1>10. WroteShape'
  BY <1>2, <1>3, DeedFacts
<1>11. MacShape' /\ Fresh'
  BY <1>2, <1>3 DEF MacShape, Fresh, PassFresh, AgainIsForced
<1>. QED BY <1>7, <1>8, <1>9, <1>10, <1>11 DEF IInv

\* A turn takes its hold, begins and ends; the process dies.
LEMMA MacTurnStep ==
  /\ IInv /\ UNCHANGED ofPhone
  /\ Mac!TurnHolds \/ Mac!TurnReady \/ Mac!TurnEnds \/ Mac!Dies
  => IInv'
<1>. SUFFICES ASSUME IInv, UNCHANGED ofPhone,
                     Mac!TurnHolds \/ Mac!TurnReady \/ Mac!TurnEnds \/ Mac!Dies
              PROVE  IInv'
  OBVIOUS
<1>1. /\ MacShape /\ PhoneShape /\ Fresh /\ WroteShape /\ Stored(Allowed)
      /\ WorkOver(1 .. Len(wrote))
  BY DEF IInv
<1>2. wrote' = wrote /\ WroteShape' /\ wrote \in Seq(Deeds) /\ Len(wrote) \in Nat
  BY <1>1, OtherSteps, AllowedFacts DEF WroteShape
<1>3. PICK V \in SUBSET Words : V = 1 .. Len(wrote)
  BY <1>2, AllowedFacts
<1>4. Allowed \subseteq V
  BY <1>2, <1>3, AllowedFacts
<1>5. Stored(V) /\ WorkOver(V)
  BY <1>1, <1>3, <1>4, StoredGrows
<1>6. UNCHANGED <<hosted, base, tracking, owed>>
  BY DEF Mac!TurnHolds, Mac!TurnReady, Mac!TurnEnds, Mac!Dies, Mac!vault
<1>7. /\ up' \in BOOLEAN /\ turn' \in Turns /\ engine' \in Engines
      /\ requested' \in [force : BOOLEAN, again : BOOLEAN]
      /\ turn'.phase # "writes" \/ turn'.since = Len(wrote) + 1
      /\ \/ engine' = engine /\ requested' = requested
         \/ engine'.pc = "idle" /\ ~requested'.again
  <2>1. /\ up \in BOOLEAN /\ engine \in Engines /\ requested \in [force : BOOLEAN, again : BOOLEAN]
        /\ engine.pc \in Pcs
    BY <1>1 DEF MacShape, Engines
  <2>2. /\ Mac!NoTurn \in Turns /\ Mac!NoTurn.phase = "none"
        /\ Mac!Turn("holds", 0) \in Turns /\ Mac!Turn("holds", 0).phase = "holds"
        /\ Mac!Turn("writes", Len(wrote) + 1) \in Turns
        /\ Mac!Turn("writes", Len(wrote) + 1).since = Len(wrote) + 1
        /\ Mac!NoSync("none") \in Engines /\ Mac!NoSync("none").pc = "idle"
        /\ Mac!NothingAsked \in [force : BOOLEAN, again : BOOLEAN] /\ ~Mac!NothingAsked.again
    BY <1>2 DEF Mac!NoTurn, Mac!Turn, Turns, Mac!NoSync, Mac!Engine, Engines, Pcs, Outcomes,
      Mac!NothingAsked
  <2>3. CASE Mac!TurnHolds
    BY <2>1, <2>2, <2>3 DEF Mac!TurnHolds
  <2>4. CASE Mac!TurnReady
    BY <2>1, <2>2, <2>4 DEF Mac!TurnReady, Mac!Word
  <2>5. CASE Mac!TurnEnds
    BY <2>1, <2>2, <2>5 DEF Mac!TurnEnds
  <2>6. CASE Mac!Dies
    BY <2>1, <2>2, <2>6 DEF Mac!Dies
  <2>. QED BY <2>3, <2>4, <2>5, <2>6
<1>8. /\ head' \in TreesOver(V) /\ WorkOver(V)' /\ midway' \in BOOLEAN
      /\ midway' => midway
      /\ midway' => engine'.pc \in {"idle", "gate", "integrates", "refused"}
  <2>1. midway \in BOOLEAN /\ (midway => engine.pc \in {"idle", "gate", "integrates", "refused"})
        /\ head \in TreesOver(V)
    BY <1>1, <1>5 DEF MacShape, Stored
  <2>2. CASE UNCHANGED Mac!tree
    BY <1>5, <1>7, <2>1, <2>2 DEF WorkOver, Mac!tree
  <2>3. CASE Mac!Commit
    <3>1. head' \in TreesOver(V) /\ WorkOver(V)'
      BY <1>5, <2>1, <2>3, CommitTakes
    <3>2. midway' = FALSE
      BY <2>1, <2>3 DEF Mac!Commit
    <3>. QED BY <3>1, <3>2
  <2>. QED BY <2>2, <2>3 DEF Mac!TurnHolds, Mac!TurnReady, Mac!TurnEnds, Mac!Dies
<1>9. Allowed' = V
  BY <1>2, <1>3, <1>7, AllowedFacts
<1>10. PhoneOver(V)' /\ PhoneShape'
  BY <1>1, <1>5, PhoneStands DEF Stored
<1>11. Stored(Allowed)' /\ WorkOver(1 .. Len(wrote))'
  BY <1>2, <1>3, <1>5, <1>6, <1>8, <1>9, <1>10 DEF Stored, HostedOver, WorkOver
<1>12. MacShape'
  BY <1>1, <1>6, <1>7, <1>8 DEF MacShape
<1>13. Fresh'
  BY <1>1, <1>6, <1>7 DEF Fresh, PassFresh, AgainIsForced
<1>. QED BY <1>2, <1>10, <1>11, <1>12, <1>13 DEF IInv

LEMMA StutterHolds == IInv /\ UNCHANGED vars => IInv'
<1>. SUFFICES ASSUME IInv, UNCHANGED vars PROVE IInv'
  OBVIOUS
<1>1. /\ UNCHANGED <<hosted, wrote, left>> /\ UNCHANGED ofPhone
      /\ UNCHANGED <<up, work, head, base, tracking, midway, turn, engine, requested, owed>>
  BY DEF vars, ofMac
<1>2. /\ MacShape /\ PhoneShape /\ Fresh /\ WroteShape /\ Stored(Allowed)
      /\ WorkOver(1 .. Len(wrote))
  BY DEF IInv
<1>3. PICK W : W = Allowed
  OBVIOUS
<1>4. Allowed' = W
  BY <1>1, <1>3 DEF Allowed
<1>5. PhoneOver(W)' /\ PhoneShape'
  BY <1>1, <1>2, <1>3, PhoneStands DEF Stored
<1>6. Stored(Allowed)'
  BY <1>1, <1>2, <1>3, <1>4, <1>5 DEF Stored, HostedOver
<1>7. MacShape' /\ Fresh' /\ WroteShape' /\ WorkOver(1 .. Len(wrote))'
  BY <1>1, <1>2 DEF MacShape, Fresh, PassFresh, AgainIsForced, WroteShape, WorkOver
<1>. QED BY <1>5, <1>6, <1>7 DEF IInv

LEMMA StepHolds == IInv /\ [Next]_vars => IInv'
<1>. SUFFICES ASSUME IInv, [Next]_vars PROVE IInv'
  OBVIOUS
<1>1. CASE PhoneSteps
  BY <1>1, PhoneWritesStep, PhoneOtherStep DEF PhoneSteps, Phone!Next
<1>2. CASE MacSteps
  <2>1. Mac!Next /\ UNCHANGED ofPhone
    BY <1>2 DEF MacSteps
  <2>. QED BY <2>1, MacPassStep, MacWritesStep, MacTurnStep
         DEF Mac!Next, Mac!TurnSteps, Mac!Pass, TreeSteps, QuietSteps
<1>3. CASE UNCHANGED vars
  BY <1>3, StutterHolds
<1>. QED BY <1>1, <1>2, <1>3 DEF Next

LEMMA InvariantHolds == Spec => []IInv
BY InitHolds, StepHolds, PTL DEF Spec

-----------------------------------------------------------------------------
(* What an integration leaves in the working tree. *)

\* A running integration holds the lock, so nobody writes over what it leaves there; over what a cut
\* one left, people and agents may.  What an abort takes is words of theirs.
Litter ==
  /\ engine.pc = "integrates" => midway /\ work = Mac!Torn
  /\ midway => work \in Mac!TornTrees
  /\ discarded \subseteq Lines \X Words

\* What was written over a torn note is its words, but for the blanks that are left.
Scraps(note) == {pair \in Mac!Pairs(note) : pair[2] # Mac!NoWord}

LEMMA TornFacts ==
  /\ Mac!Torn \in Mac!TornTrees
  /\ Mac!TornTrees = [note : [Lines -> Nat] \cup {Absent}, copies : {{}}]
  /\ \A t \in Mac!TornTrees : Scraps(t.note) \subseteq Lines \X Words
<1>1. Mac!Torn = [note |-> [l \in Lines |-> 0], copies |-> {}]
  BY DEF Mac!Torn, Mac!Tree, Mac!NoWord
<1>2. Mac!TornTrees = [note : [Lines -> Nat] \cup {Absent}, copies : {{}}]
  <2>1. Mac!Words \cup {Mac!NoWord} = Nat
    BY DEF Mac!Words, Mac!NoWord
  <2>. QED BY <2>1 DEF Mac!TornTrees
<1>3. Mac!Torn \in Mac!TornTrees
  BY <1>1, <1>2
<1>4. ASSUME NEW t \in Mac!TornTrees, NEW pair \in Scraps(t.note) PROVE pair \in Lines \X Words
  <2>1. t.note \in [Lines -> Nat] /\ pair \in {<<l, t.note[l]>> : l \in Lines} /\ pair[2] # 0
    BY <1>2, <1>4 DEF Scraps, Mac!Pairs, Mac!NoWord
  <2>2. PICK l \in Lines : pair = <<l, t.note[l]>>
    BY <2>1
  <2>. QED BY <2>1, <2>2 DEF Words
<1>. QED BY <1>2, <1>3, <1>4

\* Whatever stood midway, a commit leaves nothing of it.
LEMMA CommitClears ==
  ASSUME Litter, midway \in BOOLEAN, Mac!Commit
  PROVE  midway' = FALSE /\ discarded' \subseteq Lines \X Words
<1>1. CASE midway
  BY <1>1, TornFacts DEF Mac!Commit, Litter, Scraps
<1>2. CASE ~midway
  BY <1>2 DEF Mac!Commit, Litter
<1>. QED BY <1>1, <1>2

LEMMA LitterHolds == IInv /\ Litter /\ [Next]_vars => Litter'
<1>. SUFFICES ASSUME IInv, Litter, [Next]_vars PROVE Litter'
  OBVIOUS
<1>1. engine \in Engines /\ midway \in BOOLEAN
  BY DEF IInv, MacShape
<1>2. /\ engine.forced \in BOOLEAN /\ engine.outcome \in Outcomes /\ engine.stopped \in BOOLEAN
      /\ requested.force \in BOOLEAN
  BY <1>1 DEF IInv, MacShape, Engines
<1>3. ASSUME UNCHANGED Mac!tree, engine' = engine \/ engine'.pc # "integrates" PROVE Litter'
  BY <1>3 DEF Litter, Mac!tree
<1>4. ASSUME midway' = FALSE, discarded' \subseteq Lines \X Words, engine'.pc # "integrates"
      PROVE  Litter'
  BY <1>4 DEF Litter
\* Where a pass may go but to an integration.
<1>5. ASSUME NEW pc \in Pcs, NEW f \in BOOLEAN, NEW o \in Outcomes, NEW s \in BOOLEAN,
             engine' = Mac!Engine(pc, f, o, s), pc # "integrates"
      PROVE  engine'.pc # "integrates"
  BY <1>1, <1>5, EngineFacts
<1>6. ASSUME NEW pc \in Pcs, Mac!Goes(pc), pc # "integrates" PROVE engine'.pc # "integrates"
  BY <1>1, <1>2, <1>5, <1>6, EngineFacts
<1>7. ASSUME NEW o \in Outcomes, Mac!Ends(o) PROVE engine'.pc # "integrates"
  BY <1>1, <1>2, <1>5, <1>7, EngineFacts DEF Pcs
<1>8. ASSUME NEW f \in BOOLEAN, Mac!Begins(f) PROVE engine'.pc # "integrates"
  BY <1>2, <1>5, <1>8 DEF Mac!Begins, Pcs
<1>9. CASE UNCHANGED ofMac
  BY <1>3, <1>9 DEF ofMac, Mac!tree
<1>10. CASE Mac!UserWrites \/ Mac!AgentWrites
  <2>1. PICK who \in {"user", "agent"} : Mac!Writes(who)
    BY <1>10 DEF Mac!UserWrites, Mac!AgentWrites
  <2>2. PICK after \in EditsOf(work.note) :
          /\ Mac!Edits(who, work.note, after) /\ work' = [work EXCEPT !.note = after]
          /\ engine.pc # "integrates" /\ UNCHANGED <<midway, engine, discarded>>
    BY <2>1, MacNotions DEF Mac!Writes, Mac!LockFree
  <2>3. ASSUME midway PROVE work' \in Mac!TornTrees
    <3>1. work \in [note : [Lines -> Nat] \cup {Absent}, copies : {{}}]
      BY <2>3, TornFacts DEF Litter
    <3>2. Word \in Nat
      BY LenProperties DEF IInv, WroteShape, Word
    <3>3. after \in [Lines -> Nat] \cup {Absent}
      <4>1. CASE work.note = Absent
        BY <3>2, <4>1 DEF EditsOf
      <4>2. CASE work.note # Absent
        <5>1. work.note \in [Lines -> Nat]
          BY <3>1, <4>2
        <5>2. after = Absent \/ \E l \in Lines : after = [work.note EXCEPT ![l] = Word]
          BY <4>2 DEF EditsOf, Edited
        <5>. QED BY <3>2, <5>1, <5>2
      <4>. QED BY <4>1, <4>2
    <3>. QED BY <2>2, <3>1, <3>3, TornFacts
  <2>. QED BY <2>2, <2>3 DEF Litter
<1>11. CASE Mac!TurnHolds \/ Mac!Dies
  BY <1>3, <1>11 DEF Mac!TurnHolds, Mac!Dies, Mac!NoSync, Mac!Engine
<1>12. CASE Mac!Flush \/ Mac!TurnReady \/ Mac!TurnEnds
  BY <1>1, <1>4, <1>12, CommitClears DEF Mac!Flush, Mac!TurnReady, Mac!TurnEnds, Mac!LockFree
<1>13. CASE Mac!Prepares
  <2>1. engine'.pc # "integrates"
    BY <1>6, <1>13 DEF Mac!Prepares, Pcs
  <2>. QED BY <1>1, <1>4, <1>13, <2>1, CommitClears DEF Mac!Prepares
<1>14. CASE Mac!Asks \/ Mac!Ticks \/ Mac!Boots \/ Mac!Repeats
  BY <1>2, <1>3, <1>8, <1>14 DEF Mac!Asks, Mac!Ticks, Mac!Boots, Mac!Repeats, Mac!tree
<1>15. CASE Mac!Refuses
  BY <1>3, <1>6, <1>15 DEF Mac!Refuses, Pcs
<1>16. CASE Mac!FetchFails \/ Mac!Pushes \/ Mac!LosesRace
  BY <1>3, <1>7, <1>16 DEF Mac!FetchFails, Mac!Pushes, Mac!LosesRace, Outcomes
<1>17. CASE Mac!Fetches
  BY <1>1, <1>2, <1>3, <1>5, <1>17, EngineFacts DEF Mac!Fetches, Pcs, Outcomes
<1>18. CASE Mac!StopsForHold
  BY <1>1, <1>2, <1>3, <1>5, <1>18, EngineFacts DEF Mac!StopsForHold, Pcs, Outcomes
<1>19. CASE Mac!Integrates
  <2>1. /\ midway' = (tracking > base) /\ discarded' = discarded
        /\ work' = IF tracking > base THEN Mac!Torn ELSE work
    BY <1>19 DEF Mac!Integrates, Mac!Begun
  <2>2. CASE tracking > base
    BY <2>1, <2>2, TornFacts DEF Litter
  <2>3. CASE ~(tracking > base)
    <3>1. engine'.pc # "integrates"
      BY <1>6, <1>19, <2>3 DEF Mac!Integrates, Mac!Begun, Pcs
    <3>. QED BY <1>4, <2>1, <2>3, <3>1 DEF Litter
  <2>. QED BY <2>2, <2>3
<1>20. CASE Mac!IntegrationLands
  <2>1. engine'.pc # "integrates"
    BY <1>6, <1>20 DEF Mac!IntegrationLands, Pcs
  <2>. QED BY <1>4, <1>20, <2>1 DEF Mac!IntegrationLands, Litter
<1>21. CASE Mac!IntegrationFails
  <2>1. engine'.pc # "integrates"
    BY <1>7, <1>21 DEF Mac!IntegrationFails, Outcomes
  <2>. QED BY <1>4, <1>21, <2>1 DEF Mac!IntegrationFails, Litter
<1>22. CASE Mac!Answers
  BY <1>3, <1>22 DEF Mac!Answers, Mac!NoSync, Mac!Engine
<1>23. CASE UNCHANGED vars
  BY <1>9, <1>23 DEF vars
<1>. QED BY <1>9, <1>10, <1>11, <1>12, <1>13, <1>14, <1>15, <1>16, <1>17, <1>18, <1>19, <1>20,
         <1>21, <1>22, <1>23
       DEF Next, PhoneSteps, MacSteps, Mac!Next, Mac!TurnSteps, Mac!Pass

LEMMA LitterAtFirst == Init => Litter
BY DEF Init, Mac!Init, Litter, Mac!NoSync, Mac!Engine

LEMMA NothingLitters == Spec => []Litter
BY LitterAtFirst, LitterHolds, InvariantHolds, PTL DEF Spec

-----------------------------------------------------------------------------
(* What follows. *)

LEMMA HeldOver ==
  ASSUME NEW W, NEW t \in TreesOver(W), NEW pair \in HeldBy(t)
  PROVE  pair[2] \in W
<1>1. PICK side \in SidesOver(W) : pair \in Pairs(side)
  BY DEF HeldBy, TreesOver, SidesOver
<1>2. side \in TextsOver(W) /\ pair \in {<<l, side[l]>> : l \in Lines}
  BY <1>1 DEF Pairs, SidesOver
<1>. QED BY <1>2 DEF TextsOver

LEMMA TypeFollows == IInv /\ Litter => TypeOK
<1>. SUFFICES ASSUME IInv, Litter PROVE TypeOK
  OBVIOUS
<1>1. /\ MacShape /\ PhoneShape /\ Fresh /\ WroteShape /\ Stored(Allowed)
      /\ WorkOver(1 .. Len(wrote))
  BY DEF IInv
<1>2. Stored(Words) /\ WorkOver(Words)
  <2>1. Allowed \subseteq Words /\ 1 .. Len(wrote) \subseteq Words
    BY <1>1, AllowedFacts DEF WroteShape
  <2>2. TreesOver(1 .. Len(wrote)) \subseteq TreesOver(Words)
    BY <2>1, OverGrows
  <2>. QED BY <1>1, <2>1, <2>2, StoredGrows DEF WorkOver
<1>3. /\ TextsOver(Words) = Text /\ SidesOver(Words) = Sides /\ TreesOver(Words) = Trees
      /\ Phone!Sides = Sides /\ Mac!Trees = Trees /\ Phone!Words = Words
  BY DEF TextsOver, SidesOver, TreesOver, Text, Sides, Trees, Words, Phone!Sides, Phone!Text,
    Phone!Words, Mac!Trees, Mac!Sides, Mac!Text, Mac!Words
<1>4. SetsOver(Words) = Phone!ChangeSets /\ RowsOver(Words) = Phone!Rows
  <2>1. SetsOver(Words) = Phone!ChangeSets
    BY <1>3 DEF SetsOver, Phone!ChangeSets, Phone!Text, Phone!Words, Text, Words
  <2>. QED BY <1>3, <2>1 DEF RowsOver, SettlesOver, Phone!Rows
<1>5. \A i \in DOMAIN hosted : hosted[i] \in Trees
  BY <1>2, <1>3 DEF Stored, HostedOver
<1>6. left \in [Kinds -> Nat]
  BY <1>1 DEF WroteShape
<1>7. Phone!TypeOK
  BY <1>1, <1>2, <1>3, <1>4 DEF Phone!TypeOK, Stored, PhoneOver, PhoneShape, RowShape, PassesOver,
    WalksOver
<1>8. Mac!TypeOK
  <2>1. DOMAIN hosted = 1 .. Len(hosted)
    BY <1>2, LenProperties DEF Stored, HostedOver
  <2>2. work \in IF midway THEN Mac!TornTrees ELSE Mac!Trees
    BY <1>2, <1>3 DEF WorkOver, Litter
  <2>3. discarded \subseteq Lines \X Mac!Words
    BY DEF Litter, Words, Mac!Words
  <2>. QED BY <1>1, <1>2, <1>3, <2>1, <2>2, <2>3 DEF Mac!TypeOK, MacShape, Stored, Turns, Engines,
         Pcs, Outcomes
<1>. QED BY <1>5, <1>6, <1>7, <1>8 DEF TypeOK

\* Every variable has its type in every reachable state, whatever the lines and however often each
\* acts; a note is made of words somebody wrote, never of what git leaves in a note it is
\* integrating, also where the engine died there (git-engine.ts:287).
THEOREM TypeCorrect == Spec => []TypeOK
BY InvariantHolds, NothingLitters, TypeFollows, PTL

\* While a turn writes, neither HEAD nor the hosted vault holds a word of it, whoever saved, pulled
\* or pushed meanwhile (agents/agent-commits.ts:1, git-engine.ts integrateFetched).
THEOREM TurnsKeepTheirWrites == Spec => []TurnsOwnWrites
<1>1. IInv => TurnsOwnWrites
  <2>. SUFFICES ASSUME IInv, turn.phase = "writes", NEW pair \in HeldBy(head) \cup HeldBy(HeadTree)
                PROVE  pair[2] < turn.since \/ wrote[pair[2]].by # "agent"
    BY DEF TurnsOwnWrites
  <2>1. head \in TreesOver(Allowed) /\ HeadTree \in TreesOver(Allowed)
    BY HeadTreeOver DEF IInv, Stored
  <2>2. pair[2] \in Allowed
    BY <2>1, HeldOver
  <2>. QED BY <2>2 DEF Allowed
<1>. QED BY <1>1, InvariantHolds, PTL

\* Whoever is answered by a pass that ran to its end, with no hold met and nothing failed, has every
\* commit that was hosted when they asked, however many joined it and wherever it was; a pass that
\* met a hold is not among them (git-engine.ts, requestSync).
THEOREM AnswersAreFresh == Spec => SyncIsFresh
<1>1. IInv /\ Mac!Answers /\ engine.pc = "ended" /\ ~engine.stopped /\ engine.outcome = "none"
      => base >= owed
  BY DEF IInv, Fresh, PassFresh, Mac!Answers, Mac!Stands
<1>2. IInv /\ [Next]_vars =>
        [Mac!Answers /\ engine.pc = "ended" /\ ~engine.stopped /\ engine.outcome = "none"
           => base >= owed]_vars
  BY <1>1
<1>. QED BY <1>2, InvariantHolds, PTL DEF Spec, SyncIsFresh

-----------------------------------------------------------------------------
(* What a verdict and a merge keep of a note's words. *)

LEMMA PairsFacts ==
  ASSUME NEW side
  PROVE  /\ Pairs(Absent) = {}
         /\ side # Absent => \A l \in Lines : <<l, side[l]>> \in Pairs(side)
         /\ \A pair \in Pairs(side) : side # Absent /\ pair[1] \in Lines /\ pair = <<pair[1], side[pair[1]]>>
<1>1. /\ Pairs(Absent) = {}
      /\ side # Absent => \A l \in Lines : <<l, side[l]>> \in Pairs(side)
  BY DEF Pairs
<1>2. ASSUME NEW pair \in Pairs(side)
      PROVE  side # Absent /\ pair[1] \in Lines /\ pair = <<pair[1], side[pair[1]]>>
  <2>1. side # Absent /\ pair \in {<<l, side[l]>> : l \in Lines}
    BY <1>2 DEF Pairs
  <2>2. PICK l \in Lines : pair = <<l, side[l]>>
    BY <2>1
  <2>. QED BY <2>1, <2>2
<1>. QED BY <1>1, <1>2

\* A line of mine is where the verdict leaves the note, or stood in what both started from.
LEMMA MineIsKept ==
  ASSUME NEW from \in SidesOver(Words), NEW mine \in SidesOver(Words), NEW theirs \in SidesOver(Words)
  PROVE  Pairs(mine) \subseteq Pairs(Reconciled(from, mine, theirs).stays) \cup Pairs(from)
<1> DEFINE v == Reconciled(from, mine, theirs)
<1>1. CASE mine = theirs \/ theirs = from
  BY <1>1 DEF Reconciled, Verdict
<1>2. CASE ~(mine = theirs \/ theirs = from) /\ mine \in {from, Absent}
  BY <1>2, PairsFacts
<1>3. CASE ~(mine = theirs \/ theirs = from) /\ mine \notin {from, Absent} /\ theirs = Absent
  BY <1>3 DEF Reconciled, Verdict
<1>4. CASE ~(mine = theirs \/ theirs = from) /\ mine \notin {from, Absent} /\ theirs # Absent
  <2>1. v.stays = Merged(from, mine, theirs)
    BY <1>4 DEF Reconciled, Verdict
  <2>2. mine \in TextsOver(Words) /\ theirs \in TextsOver(Words) /\ v.stays # Absent
    BY <1>4, <2>1, MergedOver, TextsAreNotAbsent DEF SidesOver
  <2>3. ASSUME NEW l \in Lines PROVE <<l, mine[l]>> \in Pairs(v.stays) \cup Pairs(from)
    <3>1. CASE mine[l] # At(from, l)
      BY <2>1, <2>2, <3>1, PairsFacts DEF Merged
    <3>2. CASE mine[l] = At(from, l)
      <4>1. from # Absent
        BY <2>2, <3>2 DEF At, NoWord, TextsOver, Words
      <4>. QED BY <3>2, <4>1, PairsFacts DEF At
    <3>. QED BY <3>1, <3>2
  <2>. QED BY <2>3, PairsFacts
<1>. QED BY <1>1, <1>2, <1>3, <1>4

\* A line of theirs is at the path or in the copy, unless it is one mine had read and replaced.
LEMMA TheirsAreKept ==
  ASSUME NEW from \in SidesOver(Words), NEW mine \in SidesOver(Words), NEW theirs \in SidesOver(Words)
  PROVE  LET v == Reconciled(from, mine, theirs)
         IN  Pairs(theirs) \subseteq Pairs(v.stays) \cup Pairs(v.copy) \cup (Pairs(from) \ Pairs(mine))
<1> DEFINE v == Reconciled(from, mine, theirs)
<1>1. CASE mine = theirs \/ theirs = from
  BY <1>1 DEF Reconciled, Verdict
<1>2. CASE ~(mine = theirs \/ theirs = from) /\ mine \in {from, Absent}
  BY <1>2 DEF Reconciled, Verdict
<1>3. CASE ~(mine = theirs \/ theirs = from) /\ mine \notin {from, Absent} /\ theirs = Absent
  BY <1>3, PairsFacts
<1>4. CASE ~(mine = theirs \/ theirs = from) /\ mine \notin {from, Absent} /\ theirs # Absent
  <2>1. /\ v.stays = Merged(from, mine, theirs)
        /\ v.copy = IF Overlap(from, mine, theirs) THEN theirs ELSE Absent
    BY <1>4 DEF Reconciled, Verdict
  <2>2. mine \in TextsOver(Words) /\ theirs \in TextsOver(Words) /\ v.stays # Absent /\ mine # Absent
    BY <1>4, <2>1, MergedOver, TextsAreNotAbsent DEF SidesOver
  <2>3. CASE Overlap(from, mine, theirs)
    BY <2>1, <2>3
  <2>4. CASE ~Overlap(from, mine, theirs)
    <3>1. ASSUME NEW l \in Lines
          PROVE <<l, theirs[l]>> \in Pairs(v.stays) \cup (Pairs(from) \ Pairs(mine))
      <4>1. CASE mine[l] = At(from, l) \/ mine[l] = theirs[l]
        <5>1. v.stays[l] = theirs[l]
          BY <2>1, <4>1 DEF Merged
        <5>. QED BY <2>2, <5>1, PairsFacts
      <4>2. CASE mine[l] # At(from, l) /\ mine[l] # theirs[l]
        <5>1. theirs[l] = At(from, l)
          BY <2>4, <4>2 DEF Overlap, OverlapAt
        <5>2. from # Absent
          BY <2>2, <5>1 DEF At, NoWord, TextsOver, Words
        <5>3. <<l, theirs[l]>> \in Pairs(from)
          BY <5>1, <5>2, PairsFacts DEF At
        <5>4. <<l, theirs[l]>> \notin Pairs(mine)
          BY <4>2, PairsFacts
        <5>. QED BY <5>3, <5>4
      <4>. QED BY <4>1, <4>2
    <3>. QED BY <3>1, PairsFacts
  <2>. QED BY <2>3, <2>4
<1>. QED BY <1>1, <1>2, <1>3, <1>4

\* A verdict makes no words.
LEMMA VerdictMakesNone ==
  ASSUME NEW from \in SidesOver(Words), NEW mine \in SidesOver(Words), NEW theirs \in SidesOver(Words)
  PROVE  LET v == Reconciled(from, mine, theirs)
         IN  Pairs(v.stays) \subseteq Pairs(mine) \cup Pairs(theirs) /\ v.copy \in {theirs, Absent}
<1> DEFINE v == Reconciled(from, mine, theirs)
<1>1. v.stays \in {mine, theirs} \/ (mine # Absent /\ theirs # Absent /\ v.stays = Merged(from, mine, theirs))
  BY DEF Reconciled, Verdict
<1>2. v.copy \in {theirs, Absent}
  BY DEF Reconciled, Verdict
<1>3. ASSUME mine # Absent, theirs # Absent, v.stays = Merged(from, mine, theirs)
      PROVE  Pairs(v.stays) \subseteq Pairs(mine) \cup Pairs(theirs)
  <2>1. \A l \in Lines : v.stays[l] \in {mine[l], theirs[l]}
    BY <1>3 DEF Merged
  <2>. QED BY <1>3, <2>1, PairsFacts
<1>. QED BY <1>1, <1>2, <1>3

\* What a text becomes when it is laid over what landed: mine is what was sent of it.
LEMMA RebaseKeeps ==
  ASSUME NEW mine \in SidesOver(Words), NEW content \in TextsOver(Words), NEW landed \in TextsOver(Words)
  PROVE  LET m == Merged(mine, content, landed)
         IN  /\ Pairs(content) \subseteq Pairs(m) \cup Pairs(mine)
             /\ Pairs(landed) \subseteq
                  Pairs(m) \cup (Pairs(mine) \ Pairs(content))
                  \cup {<<l, landed[l]>> : l \in {k \in Lines : OverlapAt(mine, content, landed, k)}}
<1> DEFINE m == Merged(mine, content, landed)
<1>1. m # Absent /\ content # Absent /\ \A l \in Lines : landed[l] # NoWord /\ content[l] # NoWord
  BY MergedOver, TextsAreNotAbsent DEF TextsOver, NoWord, Words
<1>2. ASSUME NEW l \in Lines, content[l] = At(mine, l)
      PROVE  <<l, content[l]>> \in Pairs(mine) /\ m[l] = landed[l]
  <2>1. mine # Absent
    BY <1>1, <1>2 DEF At
  <2>. QED BY <1>2, <2>1, PairsFacts DEF At, Merged
<1>3. ASSUME NEW l \in Lines, content[l] # At(mine, l)
      PROVE  m[l] = content[l]
  BY <1>3 DEF Merged
<1>4. Pairs(content) \subseteq Pairs(m) \cup Pairs(mine)
  BY <1>1, <1>2, <1>3, PairsFacts
<1>5. ASSUME NEW l \in Lines, content[l] # At(mine, l), ~OverlapAt(mine, content, landed, l)
      PROVE  <<l, landed[l]>> \in Pairs(m) \cup (Pairs(mine) \ Pairs(content))
  <2>1. CASE landed[l] = content[l]
    BY <1>1, <1>3, <1>5, <2>1, PairsFacts
  <2>2. CASE landed[l] # content[l]
    <3>1. landed[l] = At(mine, l)
      BY <1>5, <2>2 DEF OverlapAt
    <3>2. <<l, landed[l]>> \in Pairs(mine)
      BY <1>1, <3>1, PairsFacts DEF At
    <3>. QED BY <2>2, <3>2, PairsFacts
  <2>. QED BY <2>1, <2>2
<1>6. ASSUME NEW l \in Lines
      PROVE  <<l, landed[l]>> \in Pairs(m) \cup (Pairs(mine) \ Pairs(content))
               \cup {<<k, landed[k]>> : k \in {k \in Lines : OverlapAt(mine, content, landed, k)}}
  BY <1>1, <1>2, <1>5, PairsFacts
<1>. QED BY <1>4, <1>6, PairsFacts

-----------------------------------------------------------------------------
(* What every device keeps of what it knew. *)

\* The words that may go: somebody who had read them replaced them, or a later edit on the phone was
\* laid over them.
Spent == superseded \cup rebasedOver
AtHead == HeldBy(HeadTree)
OfSet(set) == Pairs(set.text) \cup UNION {Pairs(copy) : copy \in set.copies}

\* A set puts back what it takes, a row what it was written over, and a settle what it answers.
SetKeeps(set, spent) == Pairs(set.base) \subseteq OfSet(set) \cup spent

SettleKeeps(settle, content, there, spent) ==
  /\ SetKeeps(settle.set, spent)
  /\ Pairs(settle.mine) \subseteq Pairs(content) \cup spent
  /\ OfSet(settle.set) \subseteq Pairs(content) \cup there \cup spent
  /\ Pairs(settle.mine) \subseteq OfSet(settle.set) \cup there \cup spent

RowKeeps(row, there, spent) ==
  /\ Pairs(row.base) \subseteq Pairs(row.content) \cup spent
  /\ row.op = "text" => Pairs(row.base) \subseteq there \cup spent
  /\ SettleKeeps(row.settle, row.content, there, spent)

RowsKeep == \A i \in DOMAIN rows : RowKeeps(rows[i], AtHead, Spent)

\* The pass has the front row as it read it, and a text is pinned before it is asked about or sent.
PassKeeps ==
  /\ RowKeeps(pass.row, AtHead, Spent)
  /\ pass.pc # "idle" =>
       /\ pass.row.op = rows[1].op /\ pass.row.base = rows[1].base
       /\ pass.row.settle = rows[1].settle
       /\ Pairs(pass.row.content) \subseteq Pairs(rows[1].content) \cup Spent
       /\ pass.row.op = "text" => pass.row.settle # Phone!NoSettle
  /\ pass.pc = "committed" => OfSet(Phone!SetOf(pass.row)) \subseteq AtHead \cup Spent

KnownKeeps ==
  /\ Pairs(mirror) \subseteq AtHead \cup Spent
  /\ Pairs(walk.seen) \subseteq AtHead \cup Spent
  /\ Pairs(pass.seen) \subseteq AtHead \cup Spent
  /\ \A set \in late : SetKeeps(set, Spent)

HostedKeeps == \A i \in 1 .. Len(hosted) : HeldBy(hosted[i]) \subseteq AtHead \cup Spent

MacKeeps ==
  /\ ~midway => HeldBy(head) \subseteq HeldBy(work) \cup Spent
  /\ HeldBy(hosted[base]) \subseteq HeldBy(head) \cup Spent

OnMac == HeldBy(head) \cup HeldBy(work)
Contents == UNION {Pairs(rows[i].content) : i \in DOMAIN rows}
Somewhere == AtHead \cup OnMac \cup Contents

Live == \A i \in DOMAIN wrote : \A l \in wrote[i].on : <<l, i>> \in Somewhere \cup Spent \cup discarded

\* What stands at the lines of a torn note that nobody wrote over.
Blanks == {<<l, Mac!NoWord>> : l \in Lines}

PhoneKeeps == RowsKeep /\ PassKeeps /\ KnownKeeps
NothingGoes == PhoneKeeps /\ HostedKeeps /\ MacKeeps /\ Live

LEMMA EverywhereTyped ==
  IInv => /\ Stored(Words) /\ MacShape /\ PhoneShape /\ WroteShape /\ RowShape
          /\ midway \/ work \in TreesOver(Words)
          /\ Len(hosted) \in Nat /\ DOMAIN hosted = 1 .. Len(hosted)
          /\ \A i \in 1 .. Len(hosted) : hosted[i] \in TreesOver(Words)
<1>. SUFFICES ASSUME IInv
     PROVE  /\ Stored(Words) /\ MacShape /\ PhoneShape /\ WroteShape /\ RowShape
            /\ midway \/ work \in TreesOver(Words)
            /\ Len(hosted) \in Nat /\ DOMAIN hosted = 1 .. Len(hosted)
            /\ \A i \in 1 .. Len(hosted) : hosted[i] \in TreesOver(Words)
  OBVIOUS
<1>1. /\ MacShape /\ PhoneShape /\ WroteShape /\ Stored(Allowed)
      /\ WorkOver(1 .. Len(wrote))
  BY DEF IInv
<1>2. Allowed \subseteq Words /\ 1 .. Len(wrote) \subseteq Words
  BY <1>1, AllowedFacts DEF WroteShape
<1>3. TreesOver(1 .. Len(wrote)) \subseteq TreesOver(Words)
  BY <1>2, OverGrows
<1>4. Stored(Words)
  BY <1>1, <1>2, StoredGrows
<1>5. /\ Len(hosted) \in Nat /\ DOMAIN hosted = 1 .. Len(hosted)
      /\ \A i \in 1 .. Len(hosted) : hosted[i] \in TreesOver(Words)
  BY <1>4, LenProperties DEF Stored, HostedOver
<1>. QED BY <1>1, <1>3, <1>4, <1>5 DEF WorkOver, Stored, PhoneOver

\* What the head holds is only replaced by what keeps it, and what is spent stays so.
Grew == AtHead \subseteq AtHead' \cup Spent' /\ Spent \subseteq Spent'

LEMMA RowGrows ==
  ASSUME NEW row, NEW there, NEW spent, NEW there2, NEW spent2,
         there \subseteq there2 \cup spent2, spent \subseteq spent2, RowKeeps(row, there, spent)
  PROVE  RowKeeps(row, there2, spent2)
BY DEF RowKeeps, SettleKeeps, SetKeeps

\* Over a text that holds what the row had, the row still keeps what it was written over.
LEMMA RowWritten ==
  ASSUME NEW W, NEW row \in RowsOver(W), NEW there, NEW spent, NEW spent2, NEW after,
         spent \subseteq spent2, Pairs(row.content) \subseteq Pairs(after) \cup spent2,
         RowKeeps(row, there, spent)
  PROVE  RowKeeps([row EXCEPT !.content = after], there, spent2)
<1> DEFINE r == [row EXCEPT !.content = after]
<1>1. r.op = row.op /\ r.base = row.base /\ r.settle = row.settle /\ r.content = after
  BY DEF RowsOver
<1>. HIDE DEF r
<1>. QED BY <1>1 DEF RowKeeps, SettleKeeps, SetKeeps

LEMMA PinnedFields ==
  ASSUME NEW W, NEW row \in RowsOver(W)
  PROVE  /\ Phone!Pinned(row).op = row.op /\ Phone!Pinned(row).base = row.base
         /\ Phone!Pinned(row).content = row.content
         /\ Phone!Pinned(row).settle = Phone!FirstSet(row)
BY DEF Phone!Pinned, RowsOver

LEMMA PinnedKeeps ==
  ASSUME NEW W \in SUBSET Words, NEW row \in RowsOver(W), NEW there, NEW spent,
         RowKeeps(row, there, spent)
  PROVE  /\ RowKeeps(Phone!Pinned(row), there, spent)
         /\ row.content # Absent => Phone!Pinned(row).settle # Phone!NoSettle
<1>1. /\ Phone!FirstSet(row).set.base = row.base /\ Phone!FirstSet(row).set.text = row.content
      /\ Phone!FirstSet(row).set.copies = {} /\ Phone!FirstSet(row).mine = row.content
      /\ Phone!NoSettle.mine = Absent
  BY DEF Phone!FirstSet, Phone!Settle, Phone!ChangeSet, Phone!NoSettle
<1>2. OfSet(Phone!FirstSet(row).set) = Pairs(row.content)
  BY <1>1 DEF OfSet
<1>3. SettleKeeps(Phone!FirstSet(row), row.content, there, spent)
  BY <1>1, <1>2 DEF SettleKeeps, SetKeeps, RowKeeps
<1>. QED BY <1>1, <1>3, PinnedFields DEF RowKeeps

\* A row without a settle, as an edit starts it.
LEMMA FreshKeeps ==
  ASSUME NEW W, NEW row \in RowsOver(W), NEW there, NEW spent, row.settle = Phone!NoSettle,
         Pairs(row.base) \subseteq Pairs(row.content) \cup spent,
         row.op = "text" => Pairs(row.base) \subseteq there \cup spent
  PROVE  RowKeeps(row, there, spent)
<1>1. /\ row.settle.set.base = Absent /\ row.settle.set.text = Absent
      /\ row.settle.set.copies = {} /\ row.settle.mine = Absent
  BY DEF Phone!NoSettle, Phone!Settle, Phone!NoSet, Phone!ChangeSet
<1>2. OfSet(row.settle.set) = {} /\ Pairs(row.settle.mine) = {} /\ Pairs(row.settle.set.base) = {}
  BY <1>1, PairsFacts DEF OfSet
<1>. QED BY <1>2 DEF RowKeeps, SettleKeeps, SetKeeps

\* What a row sends keeps what it takes.
LEMMA SentKeeps ==
  ASSUME NEW W, NEW row \in RowsOver(W), NEW there, NEW spent, RowKeeps(row, there, spent),
         row.op = "text" => row.settle # Phone!NoSettle,
         row.op # "text" => Pairs(row.content) \subseteq spent
  PROVE  SetKeeps(Phone!SetOf(row), spent)
<1>1. CASE row.settle # Phone!NoSettle
  BY <1>1 DEF Phone!SetOf, RowKeeps, SettleKeeps
<1>2. CASE row.settle = Phone!NoSettle
  <2>1. Phone!SetOf(row).base = row.base
    BY <1>2 DEF Phone!SetOf, Phone!ChangeSet
  <2>2. Pairs(row.base) \subseteq spent
    BY <1>2 DEF RowKeeps
  <2>. QED BY <2>1, <2>2 DEF SetKeeps
<1>. QED BY <1>1, <1>2

\* The verdict's set keeps what it found, and what the row wrote.
LEMMA ResolutionKeeps ==
  ASSUME NEW row \in RowsOver(Words), NEW theirs \in SidesOver(Words), NEW content,
         NEW there, NEW spent, RowKeeps(row, there, spent),
         Pairs(row.content) \subseteq Pairs(content) \cup spent,
         Pairs(theirs) \subseteq there \cup spent,
         row.op # "text" => Pairs(row.content) \subseteq spent
  PROVE  SettleKeeps(Phone!Resolution(row, theirs), content, there, spent)
<1> DEFINE v == Reconciled(row.base, row.content, theirs)
           r == Phone!Resolution(row, theirs)
<1>1. row.base \in SidesOver(Words) /\ row.content \in SidesOver(Words)
  BY DEF RowsOver
<1>2. /\ Pairs(row.content) \subseteq Pairs(v.stays) \cup Pairs(row.base)
      /\ Pairs(theirs) \subseteq Pairs(v.stays) \cup Pairs(v.copy)
                                 \cup (Pairs(row.base) \ Pairs(row.content))
      /\ Pairs(v.stays) \subseteq Pairs(row.content) \cup Pairs(theirs)
      /\ v.copy \in {theirs, Absent}
  BY <1>1, MineIsKept, TheirsAreKept, VerdictMakesNone
<1>3. Phone!VerdictOn(row, theirs) = v
  BY PhoneNotions DEF Phone!VerdictOn
<1>. HIDE DEF v
<1>4. /\ r.set.base = theirs /\ r.set.text = v.stays /\ r.set.copies = {v.copy} \ {Absent}
      /\ r.mine = row.content
  BY <1>3 DEF Phone!Resolution, Phone!Settle, Phone!ChangeSet
<1>. HIDE DEF r
<1>5. OfSet(r.set) = Pairs(v.stays) \cup Pairs(v.copy)
  BY <1>4, PairsFacts DEF OfSet
<1>6. /\ Pairs(row.base) \subseteq Pairs(row.content) \cup spent
      /\ row.op = "text" => Pairs(row.base) \subseteq there \cup spent
  BY DEF RowKeeps
<1>7. Pairs(v.copy) \subseteq Pairs(theirs)
  BY <1>2, PairsFacts
<1>8. SetKeeps(r.set, spent)
  BY <1>2, <1>4, <1>5, <1>6 DEF SetKeeps
<1>9. OfSet(r.set) \subseteq Pairs(content) \cup there \cup spent
  BY <1>2, <1>5, <1>7
<1>10. Pairs(row.content) \subseteq OfSet(r.set) \cup there \cup spent
  BY <1>2, <1>5, <1>6, row.op = "text" \/ row.op # "text"
<1>11. SettleKeeps(r, content, there, spent)
  BY <1>4, <1>8, <1>9, <1>10 DEF SettleKeeps
<1>. QED BY <1>11 DEF r

\* A set that lands keeps all the head held, but what it was made to replace.
LEMMA Landing ==
  ASSUME IInv, HostedKeeps, NEW set \in SetsOver(Words), SetKeeps(set, Spent),
         Phone!CommitChanges(set), Spent' = Spent
  PROVE  /\ Grew /\ HostedKeeps'
         /\ ~Phone!Conflicts(set) => OfSet(set) \subseteq AtHead'
         /\ \A i \in 1 .. Len(hosted) : hosted'[i] = hosted[i]
<1> DEFINE new == Phone!Applied(set)
<1>1. /\ hosted \in Seq(TreesOver(Words)) /\ hosted # <<>> /\ Len(hosted) \in Nat
      /\ HeadTree \in TreesOver(Words)
  BY EverywhereTyped, HeadTreeOver DEF Stored, HostedOver
<1>2. /\ new \in TreesOver(Words) /\ new.note = set.text
      /\ new.copies = HeadTree.copies \cup set.copies
  BY <1>1, PhoneNotions DEF Phone!Applied, Phone!Tree, SetsOver, TreesOver
<1>3. HeldBy(new) = OfSet(set) \cup UNION {Pairs(copy) : copy \in HeadTree.copies}
  BY <1>2 DEF HeldBy, OfSet
<1>4. AtHead = Pairs(HeadTree.note) \cup UNION {Pairs(copy) : copy \in HeadTree.copies}
  BY DEF AtHead, HeldBy
<1>5. ~Phone!Conflicts(set) <=> HeadTree.note \in {set.base, set.text}
  BY PhoneNotions DEF Phone!Conflicts
<1>6. CASE hosted' = hosted
  <2>1. AtHead' = AtHead
    BY <1>6 DEF AtHead, HeadTree
  <2>2. ~Phone!Conflicts(set) => new = HeadTree
    BY <1>1, <1>6, PhoneNotions, QueueFacts, <1>2 DEF Phone!CommitChanges
  <2>3. ~Phone!Conflicts(set) => OfSet(set) \subseteq AtHead'
    BY <1>3, <2>1, <2>2 DEF AtHead
  <2>. QED BY <1>6, <2>1, <2>3 DEF Grew, HostedKeeps
<1>7. CASE hosted' # hosted
  <2>1. ~Phone!Conflicts(set) /\ hosted' = Append(hosted, new)
    BY <1>7 DEF Phone!CommitChanges
  <2>. HIDE DEF new
  <2>2. /\ Len(hosted') = Len(hosted) + 1 /\ hosted'[Len(hosted) + 1] = new
        /\ \A i \in 1 .. Len(hosted) : hosted'[i] = hosted[i]
    BY <1>1, <1>2, <2>1, QueueFacts
  <2>3. AtHead' = HeldBy(new)
    BY <2>2 DEF AtHead, HeadTree
  <2>4. Pairs(HeadTree.note) \subseteq OfSet(set) \cup Spent
    BY <1>5, <2>1 DEF SetKeeps, OfSet
  <2>5. Grew
    BY <1>3, <1>4, <2>3, <2>4 DEF Grew
  <2>6. HostedKeeps'
    <3>1. \A i \in 1 .. Len(hosted) : HeldBy(hosted'[i]) \subseteq AtHead' \cup Spent'
      BY <2>2, <2>5 DEF HostedKeeps, Grew
    <3>2. HeldBy(hosted'[Len(hosted')]) \subseteq AtHead'
      BY <2>2, <2>3
    <3>3. \A i \in 1 .. Len(hosted') : i \in 1 .. Len(hosted) \/ i = Len(hosted')
      BY <1>1, <2>2
    <3>. QED BY <3>1, <3>2, <3>3 DEF HostedKeeps
  <2>. QED BY <1>3, <2>2, <2>3, <2>5, <2>6
<1>. QED BY <1>6, <1>7

\* A step that leaves the vault.
LEMMA VaultStands ==
  ASSUME hosted' = hosted, Spent \subseteq Spent', HostedKeeps
  PROVE  Grew /\ AtHead' = AtHead /\ HostedKeeps'
<1>1. AtHead' = AtHead
  BY DEF AtHead, HeadTree
<1>. QED BY <1>1 DEF Grew, HostedKeeps

LEMMA LiveStays ==
  ASSUME IInv, Live, wrote' = wrote, Spent \subseteq Spent', discarded \subseteq discarded',
         Somewhere \subseteq Somewhere' \cup Spent' \cup discarded' \cup Blanks
  PROVE  Live'
<1>1. \A i \in DOMAIN wrote : i # 0
  BY LenProperties DEF IInv, WroteShape
<1>2. \A i \in DOMAIN wrote : \A l : <<l, i>> \notin Blanks
  BY <1>1 DEF Blanks, Mac!NoWord
<1>. QED BY <1>2 DEF Live

\* What stands on the Mac, and where, while the phone moves its words on.
LEMMA MacStands ==
  ASSUME IInv, MacKeeps, Live, UNCHANGED ofMac, wrote' = wrote, Grew,
         \A i \in 1 .. Len(hosted) : hosted'[i] = hosted[i],
         Contents \subseteq AtHead' \cup Contents' \cup Spent'
  PROVE  MacKeeps' /\ Live'
<1>1. UNCHANGED <<work, head, base, midway, discarded>>
  BY DEF ofMac
<1>2. base \in 1 .. Len(hosted)
  BY DEF IInv, MacShape
<1>3. MacKeeps'
  BY <1>1, <1>2 DEF MacKeeps, Grew
<1>4. OnMac' = OnMac
  BY <1>1 DEF OnMac
<1>5. Somewhere \subseteq Somewhere' \cup Spent'
  BY <1>4 DEF Somewhere, Grew
<1>. QED BY <1>1, <1>3, <1>5, LiveStays DEF Grew

LEMMA KnownGrows ==
  ASSUME KnownKeeps, Grew, UNCHANGED <<mirror, walk, pass, late>>
  PROVE  KnownKeeps'
BY DEF KnownKeeps, Grew, SetKeeps

LEMMA RowsGrow ==
  ASSUME RowsKeep, Grew,
         \A i \in DOMAIN rows' :
           RowKeeps(rows'[i], AtHead', Spent') \/ \E j \in DOMAIN rows : rows'[i] = rows[j]
  PROVE  RowsKeep'
<1>1. \A j \in DOMAIN rows : RowKeeps(rows[j], AtHead', Spent')
  BY RowGrows DEF RowsKeep, Grew
<1>. QED BY <1>1 DEF RowsKeep

LEMMA PassGrows ==
  ASSUME PassKeeps, Grew, pass' = pass, pass.pc # "idle" => rows'[1] = rows[1]
  PROVE  PassKeeps'
<1>1. RowKeeps(pass.row, AtHead', Spent')
  BY RowGrows DEF PassKeeps, Grew
<1>. QED BY <1>1 DEF PassKeeps, Grew

\* The phone's notes while somebody else acts.
LEMMA PhoneKeepsOn ==
  ASSUME PhoneKeeps, Grew, UNCHANGED ofPhone
  PROVE  PhoneKeeps' /\ Contents' = Contents
<1>1. UNCHANGED <<mirror, rows, pass, walk, late>>
  BY DEF ofPhone
<1>2. RowsKeep'
  BY <1>1, RowsGrow DEF PhoneKeeps
<1>3. PassKeeps' /\ KnownKeeps'
  BY <1>1, PassGrows, KnownGrows DEF PhoneKeeps
<1>. QED BY <1>1, <1>2, <1>3 DEF PhoneKeeps, Contents

-----------------------------------------------------------------------------
(* The phone's pass. *)

LEMMA FrontFacts ==
  ASSUME IInv, rows # <<>>
  PROVE  /\ rows \in Seq(RowsOver(Words)) /\ Len(rows) \in Nat /\ DOMAIN rows = 1 .. Len(rows)
         /\ 1 \in DOMAIN rows /\ Phone!Foremost = rows[1] /\ rows[1] \in RowsOver(Words)
         /\ rows[1].op = "text" <=> rows[1].content # Absent
         /\ Len(rows) \in DOMAIN rows /\ rows[Len(rows)] \in RowsOver(Words)
         /\ rows[Len(rows)].op = "text" <=> rows[Len(rows)].content # Absent
<1>1. rows \in Seq(RowsOver(Words)) /\ RowShape
  BY EverywhereTyped DEF Stored, PhoneOver
<1>2. Len(rows) \in Nat /\ DOMAIN rows = 1 .. Len(rows) /\ Len(rows) # 0
  BY <1>1, LenProperties, EmptySeq
<1>. QED BY <1>1, <1>2 DEF Phone!Foremost, RowShape

\* The front row made anew, and the others as they were.
LEMMA FrontMade ==
  ASSUME IInv, rows # <<>>, NEW r \in RowsOver(Words), rows' = Phone!WithFirst(r)
  PROVE  /\ DOMAIN rows' = DOMAIN rows /\ rows'[1] = r
         /\ \A i \in DOMAIN rows : i # 1 => rows'[i] = rows[i]
         /\ RowsKeep /\ Grew /\ RowKeeps(r, AtHead', Spent') => RowsKeep'
         /\ Contents \subseteq Contents' \cup Pairs(rows[1].content)
<1>1. /\ rows \in Seq(RowsOver(Words)) /\ 1 \in DOMAIN rows
      /\ rows' = [rows EXCEPT ![1] = r]
  BY FrontFacts DEF Phone!WithFirst
<1>2. /\ DOMAIN rows' = DOMAIN rows
      /\ \A i \in DOMAIN rows : rows'[i] = IF i = 1 THEN r ELSE rows[i]
  BY <1>1, QueueFacts
<1>3. RowsKeep /\ Grew /\ RowKeeps(r, AtHead', Spent') => RowsKeep'
  BY <1>2, RowsGrow
<1>4. Contents \subseteq Contents' \cup Pairs(rows[1].content)
  BY <1>2 DEF Contents
<1>. QED BY <1>1, <1>2, <1>3, <1>4

LEMMA FrontDropped ==
  ASSUME IInv, rows # <<>>, rows' = Tail(rows)
  PROVE  /\ RowsKeep /\ Grew => RowsKeep'
         /\ Contents \subseteq Contents' \cup Pairs(rows[1].content)
<1>1. rows \in Seq(RowsOver(Words)) /\ Len(rows) \in Nat /\ DOMAIN rows = 1 .. Len(rows)
      /\ rows[1] \in RowsOver(Words)
  BY FrontFacts
<1>2. /\ rows' \in Seq(RowsOver(Words)) /\ Len(rows') = Len(rows) - 1
      /\ \A i \in DOMAIN rows' : i + 1 \in DOMAIN rows /\ rows'[i] = rows[i + 1]
  BY <1>1, QueueFacts
<1>3. RowsKeep /\ Grew => RowsKeep'
  BY <1>2, RowsGrow
<1>4. ASSUME NEW i \in DOMAIN rows, i # 1
      PROVE  i - 1 \in DOMAIN rows' /\ rows'[i - 1] = rows[i]
  <2>1. i - 1 \in 1 .. Len(rows')
    BY <1>1, <1>2, <1>4
  <2>2. i - 1 \in DOMAIN rows'
    BY <1>2, <2>1, LenProperties
  <2>3. (i - 1) + 1 = i
    BY <1>1
  <2>. QED BY <1>2, <2>2, <2>3
<1>5. Contents \subseteq Contents' \cup Pairs(rows[1].content)
  BY <1>4 DEF Contents
<1>. QED BY <1>3, <1>5

\* What a step of the phone that writes nothing new has to show.
KeepsOn ==
  /\ PhoneKeeps' /\ Grew /\ HostedKeeps'
  /\ \A i \in 1 .. Len(hosted) : hosted'[i] = hosted[i]
  /\ Contents \subseteq AtHead' \cup Contents' \cup Spent'

LEMMA RestingFacts ==
  /\ Phone!NoRow \in RowsOver(Words) /\ Phone!Resting = Phone!Waits("idle", Phone!NoRow, Absent)
  /\ \A there, spent : RowKeeps(Phone!NoRow, there, spent)
<1>1. /\ Phone!NoRow \in RowsOver(Words) /\ Phone!NoRow.settle = Phone!NoSettle
      /\ Phone!NoRow.base = Absent /\ Phone!NoRow.op # "text"
  BY DEF Phone!NoRow, Phone!RemoveRow, Phone!Row, Phone!NoSettle,
    Phone!Settle, Phone!NoSet, Phone!ChangeSet, RowsOver, SettlesOver, SetsOver, SidesOver
<1>2. Pairs(Absent) = {}
  BY PairsFacts
<1>3. ASSUME NEW there, NEW spent PROVE RowKeeps(Phone!NoRow, there, spent)
  BY <1>1, <1>2, FreshKeeps
<1>. QED BY <1>1, <1>3 DEF Phone!Resting

\* The pass goes on, and knows no more than the head or what it had.
LEMMA PassAnew ==
  ASSUME KnownKeeps, Grew, RowsKeep', UNCHANGED <<mirror, walk, late>>,
         NEW pc, NEW row, NEW seen, pass' = Phone!Waits(pc, row, seen),
         Pairs(seen) \subseteq AtHead' \cup Spent', RowKeeps(row, AtHead', Spent'),
         pc # "idle" =>
           /\ row.op = rows'[1].op /\ row.base = rows'[1].base /\ row.settle = rows'[1].settle
           /\ Pairs(row.content) \subseteq Pairs(rows'[1].content) \cup Spent'
           /\ row.op = "text" => row.settle # Phone!NoSettle,
         pc = "committed" => OfSet(Phone!SetOf(row)) \subseteq AtHead' \cup Spent'
  PROVE  PhoneKeeps'
<1>1. pass'.pc = pc /\ pass'.row = row /\ pass'.seen = seen
  BY DEF Phone!Waits
<1>2. PassKeeps'
  BY <1>1 DEF PassKeeps
<1>3. KnownKeeps'
  BY <1>1 DEF KnownKeeps, Grew, SetKeeps
<1>. QED BY <1>2, <1>3 DEF PhoneKeeps

\* The facts a waiting pass has at hand.
LEMMA PassFacts ==
  ASSUME IInv, PhoneKeeps, pass.pc # "idle"
  PROVE  /\ rows # <<>> /\ rows[1] \in RowsOver(Words)
         /\ rows[1].op = "text" <=> rows[1].content # Absent
         /\ pass.row \in RowsOver(Words) /\ pass.seen \in SidesOver(Words)
         /\ RowKeeps(pass.row, AtHead, Spent) /\ RowKeeps(rows[1], AtHead, Spent)
         /\ pass.row.op = rows[1].op /\ pass.row.base = rows[1].base
         /\ pass.row.settle = rows[1].settle
         /\ Pairs(pass.row.content) \subseteq Pairs(rows[1].content) \cup Spent
         /\ pass.row.op = "text" => pass.row.settle # Phone!NoSettle
         /\ pass.row.op # "text" => Pairs(pass.row.content) \subseteq Spent
<1>1. rows # <<>>
  BY DEF IInv, PhoneShape
<1>2. pass \in PassesOver(Words)
  BY EverywhereTyped DEF Stored, PhoneOver
<1>3. /\ 1 \in DOMAIN rows /\ rows[1] \in RowsOver(Words)
      /\ rows[1].op = "text" <=> rows[1].content # Absent
  BY <1>1, FrontFacts
<1>4. pass.row \in RowsOver(Words) /\ pass.seen \in SidesOver(Words)
  BY <1>2 DEF PassesOver
<1>. QED BY <1>1, <1>3, <1>4, PairsFacts DEF PhoneKeeps, PassKeeps, RowsKeep

LEMMA VaultUntouched ==
  ASSUME HostedKeeps, UNCHANGED <<hosted, superseded, rebasedOver>>
  PROVE  /\ Grew /\ AtHead' = AtHead /\ Spent' = Spent /\ HostedKeeps'
         /\ \A i \in 1 .. Len(hosted) : hosted'[i] = hosted[i]
BY VaultStands DEF Spent

LEMMA HeadAtHead == Pairs(HeadTree.note) \subseteq AtHead
BY DEF AtHead, HeldBy

\* The front row is pinned and sent.
LEMMA PinnedStep ==
  ASSUME IInv, PhoneKeeps, HostedKeeps, rows # <<>>,
         rows' = Phone!WithFirst(Phone!Pinned(rows[1])),
         pass' = Phone!Waits("sent", Phone!Pinned(rows[1]), Absent),
         UNCHANGED <<hosted, superseded, mirror, walk, late, rebasedOver>>
  PROVE  KeepsOn
<1>1. /\ rows[1] \in RowsOver(Words) /\ 1 \in DOMAIN rows
      /\ rows[1].op = "text" <=> rows[1].content # Absent
  BY FrontFacts
<1>2. PICK r : r = Phone!Pinned(rows[1])
  OBVIOUS
<1>3. /\ r.op = rows[1].op /\ r.base = rows[1].base /\ r.content = rows[1].content
  BY <1>1, <1>2, PinnedFields
<1>4. r \in RowsOver(Words)
  BY <1>1, <1>2, RowFacts
<1>5. Grew /\ AtHead' = AtHead /\ Spent' = Spent /\ HostedKeeps'
      /\ \A i \in 1 .. Len(hosted) : hosted'[i] = hosted[i]
  BY VaultUntouched
<1>6. RowKeeps(r, AtHead', Spent') /\ (r.op = "text" => r.settle # Phone!NoSettle)
  <2>1. RowKeeps(rows[1], AtHead, Spent)
    BY <1>1 DEF PhoneKeeps, RowsKeep
  <2>. QED BY <1>1, <1>2, <1>3, <1>5, <2>1, PinnedKeeps
<1>7. /\ DOMAIN rows' = DOMAIN rows /\ rows'[1] = r /\ RowsKeep'
      /\ Contents \subseteq Contents' \cup Pairs(rows[1].content)
  BY <1>2, <1>4, <1>5, <1>6, FrontMade DEF PhoneKeeps
<1>8. PhoneKeeps'
  <2>1. Pairs(Absent) = {}
    BY PairsFacts
  <2>. QED BY <1>2, <1>5, <1>6, <1>7, <2>1, PassAnew DEF PhoneKeeps
<1>9. Pairs(rows[1].content) \subseteq Contents'
  BY <1>1, <1>3, <1>7 DEF Contents
<1>. QED BY <1>5, <1>7, <1>8, <1>9 DEF KeepsOn

\* The pass goes on with the row it has, and the rows stand.
LEMMA SentStep ==
  ASSUME IInv, PhoneKeeps, HostedKeeps, rows # <<>>,
         NEW pc \in {"asked", "sent"}, NEW row, NEW seen,
         (row = pass.row /\ pass.pc # "idle") \/ row = rows[1],
         row.op = "text" => row.settle # Phone!NoSettle,
         Pairs(seen) \subseteq AtHead \cup Spent,
         pass' = Phone!Waits(pc, row, seen),
         UNCHANGED <<hosted, superseded, rows, mirror, walk, late, rebasedOver>>
  PROVE  KeepsOn
<1>1. Grew /\ AtHead' = AtHead /\ Spent' = Spent /\ HostedKeeps'
      /\ \A i \in 1 .. Len(hosted) : hosted'[i] = hosted[i]
  BY VaultUntouched
<1>2. RowsKeep'
  BY <1>1, RowsGrow DEF PhoneKeeps
<1>3. RowKeeps(row, AtHead, Spent)
      /\ row.op = rows[1].op /\ row.base = rows[1].base /\ row.settle = rows[1].settle
      /\ Pairs(row.content) \subseteq Pairs(rows[1].content) \cup Spent
  <2>1. RowKeeps(rows[1], AtHead, Spent)
    BY FrontFacts DEF PhoneKeeps, RowsKeep
  <2>. QED BY <2>1, PassFacts
<1>4. PhoneKeeps'
  BY <1>1, <1>2, <1>3, PassAnew DEF PhoneKeeps
<1>. QED BY <1>1, <1>4 DEF KeepsOn, Contents

\* A set runs, and its answer is on the way.
LEMMA VaultRunsStep ==
  ASSUME IInv, PhoneKeeps, HostedKeeps, Phone!VaultRuns
  PROVE  KeepsOn
<1> DEFINE set == Phone!SetOf(pass.row)
<1>1. /\ pass.pc # "idle" /\ Phone!CommitChanges(set)
      /\ UNCHANGED <<superseded, rows, mirror, walk, late, rebasedOver>>
      /\ \/ Phone!Conflicts(set) /\ pass' = Phone!Waits("conflict", pass.row, HeadTree.note)
         \/ ~Phone!Conflicts(set) /\ pass' = Phone!Waits("committed", pass.row, HeadTree.note)
  BY PhoneNotions DEF Phone!VaultRuns, Phone!PassAt
<1>2. /\ rows # <<>> /\ pass.row \in RowsOver(Words)
      /\ RowKeeps(pass.row, AtHead, Spent)
      /\ pass.row.op = rows[1].op /\ pass.row.base = rows[1].base
      /\ pass.row.settle = rows[1].settle
      /\ Pairs(pass.row.content) \subseteq Pairs(rows[1].content) \cup Spent
      /\ pass.row.op = "text" => pass.row.settle # Phone!NoSettle
      /\ pass.row.op # "text" => Pairs(pass.row.content) \subseteq Spent
  BY <1>1, PassFacts
<1>3. set \in SetsOver(Words) /\ SetKeeps(set, Spent)
  BY <1>2, SentOver, SentKeeps
<1>4. Spent' = Spent
  BY <1>1 DEF Spent
<1>. HIDE DEF set
<1>5. /\ Grew /\ HostedKeeps'
      /\ ~Phone!Conflicts(set) => OfSet(set) \subseteq AtHead'
      /\ \A i \in 1 .. Len(hosted) : hosted'[i] = hosted[i]
  BY <1>1, <1>3, <1>4, Landing
<1>6. RowsKeep'
  BY <1>1, <1>5, RowsGrow DEF PhoneKeeps
<1>7. RowKeeps(pass.row, AtHead', Spent')
  BY <1>2, <1>5, RowGrows DEF Grew
<1>8. Pairs(HeadTree.note) \subseteq AtHead' \cup Spent'
  BY <1>5, HeadAtHead DEF Grew
<1>9. PICK pc \in {"conflict", "committed"} :
        /\ pass' = Phone!Waits(pc, pass.row, HeadTree.note)
        /\ pc = "committed" => OfSet(set) \subseteq AtHead' \cup Spent'
  BY <1>1, <1>5
<1>10. PhoneKeeps'
  BY <1>1, <1>2, <1>4, <1>5, <1>6, <1>7, <1>8, <1>9, PassAnew DEF set, PhoneKeeps
<1>11. Contents' = Contents
  BY <1>1 DEF Contents
<1>. QED BY <1>5, <1>10, <1>11 DEF KeepsOn

\* The verdict's set is kept on the row.
LEMMA ResolvedToSendStep ==
  ASSUME IInv, PhoneKeeps, HostedKeeps, Phone!ResolvedToSend
  PROVE  KeepsOn
<1> DEFINE settle == Phone!Resolution(pass.row, pass.seen)
           r == [rows[1] EXCEPT !.settle = settle]
<1>1. /\ pass.pc # "idle" /\ pass' = Phone!Resting
      /\ rows' = Phone!WithFirst(r)
      /\ UNCHANGED <<hosted, superseded, mirror, walk, late, rebasedOver>>
  BY DEF Phone!ResolvedToSend, Phone!PassAt, Phone!vault, Phone!Foremost
<1>2. /\ rows # <<>> /\ rows[1] \in RowsOver(Words)
      /\ rows[1].op = "text" <=> rows[1].content # Absent
      /\ pass.row \in RowsOver(Words) /\ pass.seen \in SidesOver(Words)
      /\ RowKeeps(pass.row, AtHead, Spent) /\ RowKeeps(rows[1], AtHead, Spent)
      /\ pass.row.op = rows[1].op
      /\ Pairs(pass.row.content) \subseteq Pairs(rows[1].content) \cup Spent
      /\ pass.row.op # "text" => Pairs(pass.row.content) \subseteq Spent
  BY <1>1, PassFacts
<1>3. Grew /\ AtHead' = AtHead /\ Spent' = Spent /\ HostedKeeps'
      /\ \A i \in 1 .. Len(hosted) : hosted'[i] = hosted[i]
  BY <1>1, VaultUntouched
<1>4. settle \in SettlesOver(Words) /\ SettleKeeps(settle, rows[1].content, AtHead, Spent)
  <2>1. Pairs(pass.seen) \subseteq AtHead \cup Spent
    BY DEF PhoneKeeps, KnownKeeps
  <2>. QED BY <1>2, <2>1, ResolutionOver, ResolutionKeeps
<1>. HIDE DEF settle
<1>5. /\ r \in RowsOver(Words) /\ r.op = rows[1].op /\ r.base = rows[1].base
      /\ r.content = rows[1].content /\ r.settle = settle
  BY <1>2, <1>4 DEF RowsOver
<1>. HIDE DEF r
<1>6. RowKeeps(r, AtHead', Spent')
  BY <1>2, <1>3, <1>4, <1>5 DEF RowKeeps
<1>7. /\ DOMAIN rows' = DOMAIN rows /\ rows'[1] = r /\ RowsKeep'
      /\ Contents \subseteq Contents' \cup Pairs(rows[1].content)
  BY <1>1, <1>2, <1>3, <1>5, <1>6, FrontMade DEF PhoneKeeps
<1>8. PhoneKeeps'
  BY <1>1, <1>3, <1>7, RestingFacts, PairsFacts, PassAnew DEF PhoneKeeps
<1>9. Pairs(rows[1].content) \subseteq Contents'
  BY <1>2, <1>5, <1>7, FrontFacts DEF Contents
<1>. QED BY <1>3, <1>7, <1>8, <1>9 DEF KeepsOn

\* A row settles: its text is where the head has it, and what was written since goes on as an edit of
\* what landed.
LEMMA SettleRowStep ==
  ASSUME IInv, PhoneKeeps, HostedKeeps, pass.pc # "idle",
         NEW mine \in SidesOver(Words), NEW landed \in SidesOver(Words), Phone!SettleRow(mine, landed),
         Pairs(landed) \subseteq AtHead \cup Spent, Pairs(mine) \subseteq AtHead \cup Spent,
         Pairs(mine) \subseteq Pairs(rows[1].content) \cup Spent
  PROVE  KeepsOn
<1>1. /\ rows # <<>> /\ rows[1] \in RowsOver(Words) /\ Phone!Foremost = rows[1]
      /\ rows[1].op = "text" <=> rows[1].content # Absent
      /\ RowKeeps(rows[1], AtHead, Spent) /\ 1 \in DOMAIN rows
  BY PassFacts, FrontFacts
<1>2. /\ mirror' = landed /\ walk' = Phone!Stamped /\ pass' = Phone!Resting
      /\ UNCHANGED <<hosted, superseded, late>>
      /\ \/ /\ rows[1].op = "text" /\ rows[1].content # mine
            /\ rows' = Phone!WithFirst(Phone!Remainder(rows[1], mine, landed))
            /\ rebasedOver' = rebasedOver \cup Phone!RebasedOver(rows[1], mine, landed)
         \/ /\ rows[1].op = "text" => rows[1].content = mine
            /\ rows' = Tail(rows) /\ UNCHANGED rebasedOver
  BY <1>1 DEF Phone!SettleRow, Phone!vault
<1>3. Spent \subseteq Spent'
  BY <1>2 DEF Spent
<1>4. Grew /\ AtHead' = AtHead /\ HostedKeeps'
      /\ \A i \in 1 .. Len(hosted) : hosted'[i] = hosted[i]
  BY <1>2, <1>3, VaultStands
<1>5. RowsKeep' /\ Contents \subseteq AtHead' \cup Contents' \cup Spent'
  <2>1. CASE rows' = Tail(rows) /\ (rows[1].op = "text" => rows[1].content = mine)
    <3>1. RowsKeep' /\ Contents \subseteq Contents' \cup Pairs(rows[1].content)
      BY <1>1, <1>4, <2>1, FrontDropped DEF PhoneKeeps
    <3>2. Pairs(rows[1].content) \subseteq AtHead \cup Spent
      BY <1>1, <2>1, PairsFacts
    <3>. QED BY <1>3, <1>4, <3>1, <3>2
  <2>2. CASE /\ rows[1].op = "text" /\ rows[1].content # mine
             /\ rows' = Phone!WithFirst(Phone!Remainder(rows[1], mine, landed))
             /\ rebasedOver' = rebasedOver \cup Phone!RebasedOver(rows[1], mine, landed)
    <3>1. PICK r \in RowsOver(Words) : r = Phone!Remainder(rows[1], mine, landed)
      BY <1>1, <2>2, RowFacts
    <3>2. ASSUME RowKeeps(r, AtHead', Spent'),
                 Pairs(rows[1].content) \subseteq Pairs(r.content) \cup AtHead \cup Spent
          PROVE  RowsKeep' /\ Contents \subseteq AtHead' \cup Contents' \cup Spent'
      <4>1. /\ DOMAIN rows' = DOMAIN rows /\ rows'[1] = r /\ RowsKeep'
            /\ Contents \subseteq Contents' \cup Pairs(rows[1].content)
        BY <1>1, <1>4, <2>2, <3>1, <3>2, FrontMade DEF PhoneKeeps
      <4>2. Pairs(r.content) \subseteq Contents'
        BY <1>1, <4>1 DEF Contents
      <4>. QED BY <1>3, <1>4, <3>2, <4>1, <4>2
    <3>3. CASE landed = Absent
      <4>1. /\ r.op = rows[1].op /\ r.base = rows[1].base /\ r.content = rows[1].content
            /\ r.settle = Phone!NoSettle
        BY <1>1, <3>1, <3>3 DEF Phone!Remainder, RowsOver
      <4>2. RowKeeps(r, AtHead', Spent')
        BY <1>1, <1>3, <1>4, <4>1, FreshKeeps DEF RowKeeps
      <4>. QED BY <3>2, <4>1, <4>2
    <3>4. CASE landed # Absent
      <4> DEFINE m == Merged(mine, rows[1].content, landed)
      <4>1. landed \in TextsOver(Words) /\ rows[1].content \in TextsOver(Words)
        BY <1>1, <2>2, <3>4 DEF SidesOver, RowsOver
      <4>2. r.op = "text" /\ r.base = landed /\ r.content = m /\ r.settle = Phone!NoSettle
        BY <3>1, <3>4, PhoneNotions DEF Phone!Remainder, Phone!TextRow, Phone!Row
      <4>3. Phone!RebasedOver(rows[1], mine, landed) =
              {<<l, landed[l]>> : l \in {k \in Lines : OverlapAt(mine, rows[1].content, landed, k)}}
        BY <3>4 DEF Phone!RebasedOver, Phone!OverlapAt, OverlapAt, Phone!At, At, Phone!NoWord, NoWord
      <4>4. /\ Pairs(rows[1].content) \subseteq Pairs(m) \cup Pairs(mine)
            /\ Pairs(landed) \subseteq Pairs(m) \cup (Pairs(mine) \ Pairs(rows[1].content))
                 \cup Phone!RebasedOver(rows[1], mine, landed)
        BY <4>1, <4>3, RebaseKeeps
      <4>. HIDE DEF m
      <4>5. Pairs(landed) \subseteq Pairs(m) \cup Spent'
        BY <1>2, <2>2, <1>3, <4>4 DEF Spent
      <4>6. RowKeeps(r, AtHead', Spent')
        BY <1>3, <1>4, <4>2, <4>5, FreshKeeps
      <4>. QED BY <3>2, <4>2, <4>4, <4>6
    <3>. QED BY <3>3, <3>4
  <2>. QED BY <1>2, <2>1, <2>2
<1>6. KnownKeeps'
  <2>1. walk'.seen = walk.seen
    <3>1. walk \in WalksOver(Words)
      BY EverywhereTyped DEF Stored, PhoneOver
    <3>. QED BY <1>2, <3>1 DEF Phone!Stamped, WalksOver
  <2>2. pass'.seen = Absent
    BY <1>2, RestingFacts DEF Phone!Waits
  <2>. QED BY <1>2, <1>3, <1>4, <2>1, <2>2, PairsFacts DEF PhoneKeeps, KnownKeeps, SetKeeps
<1>7. PassKeeps'
  <2>1. pass'.pc = "idle" /\ pass'.row = Phone!NoRow
    BY <1>2, RestingFacts DEF Phone!Waits
  <2>. QED BY <2>1, RestingFacts DEF PassKeeps
<1>. QED BY <1>4, <1>5, <1>6, <1>7 DEF KeepsOn, PhoneKeeps

LEMMA LandedStep ==
  ASSUME IInv, PhoneKeeps, HostedKeeps, Phone!Landed
  PROVE  KeepsOn
<1> DEFINE set == Phone!SetOf(pass.row)
<1>1. pass.pc = "committed" /\ Phone!SettleRow(pass.row.settle.mine, set.text)
  BY DEF Phone!Landed, Phone!PassAt, Phone!MineOf
<1>2. /\ pass.row \in RowsOver(Words) /\ pass.row.settle = rows[1].settle
      /\ RowKeeps(pass.row, AtHead, Spent) /\ RowKeeps(rows[1], AtHead, Spent)
  BY <1>1, PassFacts
<1>3. pass.row.settle.mine \in SidesOver(Words) /\ set.text \in SidesOver(Words)
  BY <1>2, SentOver DEF Phone!MineOf
<1>4. OfSet(set) \subseteq AtHead \cup Spent
  BY <1>1 DEF PhoneKeeps, PassKeeps
<1>5. Pairs(set.text) \subseteq AtHead \cup Spent
  BY <1>4 DEF OfSet
<1>6. Pairs(pass.row.settle.mine) \subseteq AtHead \cup Spent
  <2>1. CASE pass.row.settle = Phone!NoSettle
    BY <2>1, PairsFacts DEF Phone!NoSettle, Phone!Settle
  <2>2. CASE pass.row.settle # Phone!NoSettle
    BY <1>2, <1>4, <2>2 DEF Phone!SetOf, RowKeeps, SettleKeeps
  <2>. QED BY <2>1, <2>2
<1>7. Pairs(pass.row.settle.mine) \subseteq Pairs(rows[1].content) \cup Spent
  BY <1>2 DEF RowKeeps, SettleKeeps
<1>. HIDE DEF set
<1>. QED BY <1>1, <1>3, <1>5, <1>6, <1>7, SettleRowStep

LEMMA ResolvedLocallyStep ==
  ASSUME IInv, PhoneKeeps, HostedKeeps, Phone!ResolvedLocally
  PROVE  KeepsOn
<1>1. /\ pass.pc # "idle" /\ Phone!SettleRow(pass.row.content, pass.seen)
      /\ Reconciled(pass.row.base, pass.row.content, pass.seen).stays = pass.seen
  BY PhoneNotions DEF Phone!ResolvedLocally, Phone!PassAt, Phone!VerdictOn
<1>2. /\ pass.row \in RowsOver(Words) /\ pass.seen \in SidesOver(Words)
      /\ RowKeeps(pass.row, AtHead, Spent)
      /\ Pairs(pass.row.content) \subseteq Pairs(rows[1].content) \cup Spent
      /\ pass.row.op # "text" => Pairs(pass.row.content) \subseteq Spent
  BY <1>1, PassFacts
<1>3. pass.row.content \in SidesOver(Words) /\ pass.row.base \in SidesOver(Words)
  BY <1>2 DEF RowsOver
<1>4. Pairs(pass.seen) \subseteq AtHead \cup Spent
  BY DEF PhoneKeeps, KnownKeeps
<1>5. Pairs(pass.row.content) \subseteq AtHead \cup Spent
  <2>1. CASE pass.row.op = "text"
    <3>1. Pairs(pass.row.content) \subseteq Pairs(pass.seen) \cup Pairs(pass.row.base)
      BY <1>1, <1>2, <1>3, MineIsKept
    <3>2. Pairs(pass.row.base) \subseteq AtHead \cup Spent
      BY <1>2, <2>1 DEF RowKeeps
    <3>. QED BY <1>4, <3>1, <3>2
  <2>2. CASE pass.row.op # "text"
    BY <1>2, <2>2
  <2>. QED BY <2>1, <2>2
<1>. QED BY <1>1, <1>2, <1>3, <1>4, <1>5, SettleRowStep

LEMMA SendingStep ==
  ASSUME IInv, PhoneKeeps, HostedKeeps,
         Phone!SendPinned \/ Phone!AskHead \/ Phone!Repin \/ Phone!Resend
  PROVE  KeepsOn
<1>1. UNCHANGED <<hosted, superseded, mirror, walk, late, rebasedOver>>
  BY DEF Phone!SendPinned, Phone!AskHead, Phone!Repin, Phone!Resend, Phone!vault
<1>2. rows # <<>>
  BY PassFacts DEF Phone!SendPinned, Phone!AskHead, Phone!Repin, Phone!Resend, Phone!PassAt
<1>3. Phone!Foremost = rows[1] /\ Pairs(Absent) = {} /\ rows[1].op \in {"text", "remove"}
  BY <1>2, FrontFacts, PairsFacts DEF RowsOver
<1>4. CASE Phone!SendPinned
  BY <1>1, <1>2, <1>3, <1>4, PinnedStep DEF Phone!SendPinned
<1>5. CASE Phone!AskHead
  <2>1. /\ rows[1].op = "text" /\ rows[1].settle # Phone!NoSettle /\ UNCHANGED rows
        /\ pass' = Phone!Waits("asked", rows[1], HeadTree.note)
    BY <1>3, <1>5, PhoneNotions DEF Phone!AskHead, Phone!WrittenPast, Phone!PinnedPut
  <2>. QED BY <1>1, <1>2, <2>1, HeadAtHead, SentStep
<1>6. CASE Phone!Repin
  <2>1. pass.pc = "asked"
    BY <1>6 DEF Phone!Repin, Phone!PassAt
  <2>2. CASE /\ rows' = Phone!WithFirst(Phone!Pinned(rows[1]))
             /\ pass' = Phone!Waits("sent", Phone!Pinned(rows[1]), Absent)
    BY <1>1, <1>2, <2>2, PinnedStep
  <2>3. CASE pass' = Phone!Waits("sent", pass.row, Absent) /\ UNCHANGED rows
    <3>1. pass.row.op = "text" => pass.row.settle # Phone!NoSettle
      BY <2>1, PassFacts
    <3>. QED BY <1>1, <1>2, <1>3, <2>1, <2>3, <3>1, SentStep
  <2>. QED BY <1>3, <1>6, <2>2, <2>3 DEF Phone!Repin
<1>7. CASE Phone!Resend
  <2>1. /\ rows[1].op = "text" => rows[1].settle # Phone!NoSettle
        /\ UNCHANGED rows /\ pass' = Phone!Waits("sent", rows[1], Absent)
    BY <1>3, <1>7 DEF Phone!Resend
  <2>. QED BY <1>1, <1>2, <1>3, <2>1, SentStep
<1>. QED BY <1>4, <1>5, <1>6, <1>7

LEMMA RefreshStep ==
  ASSUME IInv, PhoneKeeps, HostedKeeps, Phone!List \/ Phone!ApplyTree
  PROVE  KeepsOn
<1>1. UNCHANGED <<hosted, superseded, rows, pass, late, rebasedOver>>
  BY DEF Phone!List, Phone!ApplyTree, Phone!vault, Phone!queue
<1>2. Grew /\ AtHead' = AtHead /\ Spent' = Spent /\ HostedKeeps'
      /\ \A i \in 1 .. Len(hosted) : hosted'[i] = hosted[i]
  BY <1>1, VaultUntouched
<1>3. mirror' \in {mirror, walk.seen} /\ walk'.seen \in {walk.seen, HeadTree.note, Absent}
  BY PhoneNotions DEF Phone!List, Phone!ApplyTree, Phone!NoWalk
<1>4. KnownKeeps'
  BY <1>1, <1>2, <1>3, HeadAtHead, PairsFacts DEF PhoneKeeps, KnownKeeps
<1>5. RowsKeep' /\ PassKeeps'
  BY <1>1, <1>2, RowsGrow, PassGrows DEF PhoneKeeps
<1>. QED BY <1>1, <1>2, <1>4, <1>5 DEF KeepsOn, PhoneKeeps, Contents

LEMMA GivesUpStep ==
  ASSUME IInv, PhoneKeeps, HostedKeeps, Phone!GivesUp
  PROVE  KeepsOn
<1>1. /\ pass.pc # "idle" /\ pass' = Phone!Resting
      /\ late' \in {late, late \cup {Phone!SetOf(pass.row)}}
      /\ UNCHANGED <<hosted, superseded, rows, mirror, walk, rebasedOver>>
  BY DEF Phone!GivesUp, Phone!vault, Phone!PassAt
<1>2. Grew /\ AtHead' = AtHead /\ Spent' = Spent /\ HostedKeeps'
      /\ \A i \in 1 .. Len(hosted) : hosted'[i] = hosted[i]
  BY <1>1, VaultUntouched
<1>3. SetKeeps(Phone!SetOf(pass.row), Spent)
  BY <1>1, PassFacts, SentKeeps
<1>4. pass'.pc = "idle" /\ pass'.row = Phone!NoRow /\ pass'.seen = Absent
  BY <1>1, RestingFacts DEF Phone!Waits
<1>5. KnownKeeps'
  BY <1>1, <1>2, <1>3, <1>4, PairsFacts DEF PhoneKeeps, KnownKeeps
<1>6. PassKeeps'
  BY <1>4, RestingFacts DEF PassKeeps
<1>7. RowsKeep'
  BY <1>1, <1>2, RowsGrow DEF PhoneKeeps
<1>. QED BY <1>1, <1>2, <1>5, <1>6, <1>7 DEF KeepsOn, PhoneKeeps, Contents

LEMMA RunsLateStep ==
  ASSUME IInv, PhoneKeeps, HostedKeeps, Phone!RunsLate
  PROVE  KeepsOn
<1>1. PICK set \in late :
        /\ Phone!CommitChanges(set) /\ late' = late \ {set}
        /\ UNCHANGED <<superseded, mirror, rows, pass, walk, rebasedOver>>
  BY DEF Phone!RunsLate, Phone!queue
<1>2. set \in SetsOver(Words) /\ SetKeeps(set, Spent)
  BY EverywhereTyped DEF Stored, PhoneOver, PhoneKeeps, KnownKeeps
<1>3. Spent' = Spent
  BY <1>1 DEF Spent
<1>4. Grew /\ HostedKeeps' /\ \A i \in 1 .. Len(hosted) : hosted'[i] = hosted[i]
  BY <1>1, <1>2, <1>3, Landing
<1>5. RowsKeep' /\ PassKeeps'
  BY <1>1, <1>4, RowsGrow, PassGrows DEF PhoneKeeps
<1>6. KnownKeeps'
  BY <1>1, <1>3, <1>4 DEF PhoneKeeps, KnownKeeps, Grew
<1>. QED BY <1>1, <1>4, <1>5, <1>6 DEF KeepsOn, PhoneKeeps, Contents

\* Every step of the phone but an edit.
LEMMA PhoneOtherKeeps ==
  ASSUME IInv, NothingGoes, UNCHANGED ofMac,
         Phone!Pass \/ Phone!List \/ Phone!ApplyTree \/ Phone!GivesUp \/ Phone!RunsLate
  PROVE  NothingGoes'
<1>1. PhoneKeeps /\ HostedKeeps /\ MacKeeps /\ Live
  BY DEF NothingGoes
<1>2. KeepsOn
  BY <1>1, SendingStep, VaultRunsStep, LandedStep, ResolvedLocallyStep, ResolvedToSendStep,
    RefreshStep, GivesUpStep, RunsLateStep DEF Phone!Pass
<1>3. wrote' = wrote
  BY OtherSteps DEF IInv
<1>4. MacKeeps' /\ Live'
  BY <1>1, <1>2, <1>3, MacStands DEF KeepsOn
<1>. QED BY <1>2, <1>4 DEF KeepsOn, NothingGoes

-----------------------------------------------------------------------------
(* Edits. *)

\* An edit's word is in what its writer makes of the note, which supersedes what it replaces.
LEMMA EditKeeps ==
  ASSUME WroteShape, Live, NEW who \in {"phone", "user", "agent"}, NEW side, NEW after,
         Phone!Edits(who, side, after) \/ Mac!Edits(who, side, after),
         UNCHANGED <<rebasedOver, discarded>>
  PROVE  /\ Spent' = Spent \cup (Pairs(side) \ Pairs(after))
         /\ /\ Somewhere \subseteq Somewhere' \cup Spent'
            /\ Pairs(after) \subseteq Somewhere'
            => Live'
<1>1. /\ superseded' = superseded \cup (Pairs(side) \ Pairs(after))
      /\ wrote' = Append(wrote, [by |-> who, on |-> {l \in Lines : At(after, l) = Word}])
  BY DEF Phone!Edits, Mac!Edits, Phone!Pairs, Mac!Pairs, Pairs, Phone!At, Mac!At, At, Phone!Word,
    Mac!Word, Word, Phone!NoWord, Mac!NoWord, NoWord
<1>2. Spent' = Spent \cup (Pairs(side) \ Pairs(after))
  BY <1>1 DEF Spent
<1>3. ASSUME Somewhere \subseteq Somewhere' \cup Spent', Pairs(after) \subseteq Somewhere'
      PROVE  Live'
  <2> DEFINE deed == [by |-> who, on |-> {l \in Lines : At(after, l) = Word}]
  <2>1. deed \in Deeds /\ wrote \in Seq(Deeds) /\ Len(wrote) \in Nat /\ DOMAIN wrote = 1 .. Len(wrote)
    BY LenProperties DEF Deeds, WroteShape
  <2>2. /\ wrote' \in Seq(Deeds) /\ Len(wrote') = Len(wrote) + 1
        /\ \A i \in 1 .. Len(wrote') : wrote'[i] = IF i = Len(wrote) + 1 THEN deed ELSE wrote[i]
    BY <1>1, <2>1, QueueFacts
  <2>3. DOMAIN wrote' = 1 .. Len(wrote')
    BY <2>2, LenProperties
  <2>4. ASSUME NEW i \in DOMAIN wrote', NEW l \in wrote'[i].on
        PROVE  <<l, i>> \in Somewhere' \cup Spent' \cup discarded'
    <3>1. CASE i = Len(wrote) + 1
      <4>1. l \in Lines /\ At(after, l) = Word /\ i = Word
        BY <2>2, <2>3, <2>4, <3>1 DEF Word
      <4>2. after # Absent
        BY <2>1, <4>1 DEF At, NoWord, Word
      <4>. QED BY <1>3, <4>1, <4>2, PairsFacts DEF At
    <3>2. CASE i # Len(wrote) + 1
      <4>1. i \in DOMAIN wrote /\ l \in wrote[i].on
        BY <2>1, <2>2, <2>3, <2>4, <3>2
      <4>. QED BY <1>2, <1>3, <4>1 DEF Live
    <3>. QED BY <3>1, <3>2
  <2>. QED BY <2>4 DEF Live
<1>. QED BY <1>2, <1>3

\* What the phone shows is the last row's, or the mirror's.
LEMMA ShownKept ==
  ASSUME IInv, PhoneKeeps
  PROVE  /\ Phone!Shown \in SidesOver(Words)
         /\ rows = <<>> \/ Phone!Shown = Absent => Pairs(Phone!Shown) \subseteq AtHead \cup Spent
         /\ rows # <<>> => Phone!Shown = rows[Len(rows)].content
<1>1. mirror \in SidesOver(Words) /\ Pairs(mirror) \subseteq AtHead \cup Spent
  BY EverywhereTyped DEF Stored, PhoneOver, PhoneKeeps, KnownKeeps
<1>2. rows # <<>> => rows[Len(rows)].content \in SidesOver(Words)
  BY FrontFacts DEF RowsOver
<1>. QED BY <1>1, <1>2, PairsFacts DEF Phone!Shown

LEMMA PhoneWritesKeepsWords ==
  ASSUME IInv, NothingGoes, UNCHANGED ofMac, Phone!Writes
  PROVE  NothingGoes'
<1>1. PhoneKeeps /\ HostedKeeps /\ MacKeeps /\ Live
  BY DEF NothingGoes
<1>2. PICK after \in EditsOf(Phone!Shown) :
        /\ Phone!Edits("phone", Phone!Shown, after) /\ rows' = Phone!Enqueued(after)
        /\ UNCHANGED <<hosted, mirror, pass, walk, late, rebasedOver>>
  BY PhoneNotions DEF Phone!Writes
<1>3. WroteShape /\ Len(wrote) \in Nat /\ discarded' = discarded
  BY LenProperties DEF IInv, WroteShape, ofMac
<1>4. Spent' = Spent \cup (Pairs(Phone!Shown) \ Pairs(after))
  BY <1>1, <1>2, <1>3, EditKeeps
<1>5. Grew /\ AtHead' = AtHead /\ HostedKeeps'
  BY <1>1, <1>2, <1>4, VaultStands
<1>6. Pairs(Phone!Shown) \subseteq Pairs(after) \cup Spent'
  BY <1>4
<1>7. after \in SidesOver(Words)
  <2>1. Words \cup {Word} = Words
    BY <1>3 DEF Word, Words
  <2>2. Phone!Shown \in SidesOver(Words)
    BY <1>1, ShownKept
  <2>. QED BY <2>1, <2>2, EditsOver
\* Each row is one of the old ones, or the last with the new text; the front's change is the person's.
<1>8. /\ RowsKeep' /\ rows' # <<>> /\ Contents \subseteq Contents' \cup Spent'
      /\ Pairs(after) \subseteq Contents'
      /\ rows # <<>> =>
           /\ rows'[1].op = rows[1].op /\ rows'[1].base = rows[1].base
           /\ rows'[1].settle = rows[1].settle
           /\ Pairs(rows[1].content) \subseteq Pairs(rows'[1].content) \cup Spent'
  <2>1. CASE after # Absent /\ rows # <<>> /\ rows[Len(rows)].op = "text"
    <3>1. /\ rows \in Seq(RowsOver(Words)) /\ Len(rows) \in DOMAIN rows /\ 1 \in DOMAIN rows
          /\ rows[Len(rows)] \in RowsOver(Words) /\ Phone!Shown = rows[Len(rows)].content
      BY <1>1, <2>1, FrontFacts, ShownKept
    <3>2. PICK last \in RowsOver(Words) : last = rows[Len(rows)]
      BY <3>1
    <3>3. PICK r : r = [last EXCEPT !.content = after]
      OBVIOUS
    <3>4. /\ r \in RowsOver(Words) /\ r.op = last.op /\ r.base = last.base
          /\ r.settle = last.settle /\ r.content = after
      BY <1>7, <3>3 DEF RowsOver
    <3>5. /\ rows' # <<>> /\ DOMAIN rows' = DOMAIN rows
          /\ \A i \in DOMAIN rows : rows'[i] = IF i = Len(rows) THEN r ELSE rows[i]
      <4>1. rows' = [rows EXCEPT ![Len(rows)] = r]
        BY <1>2, <2>1, <3>2, <3>3 DEF Phone!Enqueued, Phone!WithLast
      <4>. QED BY <2>1, <3>1, <3>4, <4>1, QueueFacts
    <3>6. RowKeeps(r, AtHead', Spent')
      <4>1. RowKeeps(last, AtHead, Spent)
        BY <1>1, <3>1, <3>2 DEF PhoneKeeps, RowsKeep
      <4>2. Pairs(last.content) \subseteq Pairs(after) \cup Spent' /\ Spent \subseteq Spent'
        BY <1>4, <1>6, <3>1, <3>2
      <4>. QED BY <1>5, <3>3, <4>1, <4>2, RowWritten
    <3>7. RowsKeep'
      BY <1>1, <1>5, <3>5, <3>6, RowsGrow DEF PhoneKeeps
    <3>8. Contents \subseteq Contents' \cup Spent' /\ Pairs(after) \subseteq Contents'
      <4>1. Pairs(after) \subseteq Contents'
        BY <3>1, <3>4, <3>5 DEF Contents
      <4>2. \A i \in DOMAIN rows : Pairs(rows[i].content) \subseteq Contents' \cup Spent'
        BY <1>6, <3>1, <3>5, <4>1 DEF Contents
      <4>. QED BY <4>1, <4>2 DEF Contents
    <3>. QED BY <1>6, <3>1, <3>2, <3>4, <3>5, <3>7, <3>8
  <2>2. CASE ~(after # Absent /\ rows # <<>> /\ rows[Len(rows)].op = "text")
    <3>1. PICK r : r = IF after = Absent THEN Phone!RemoveRow(Phone!Shown)
                       ELSE Phone!TextRow(Phone!Shown, after)
      OBVIOUS
    <3>2. /\ r \in RowsOver(Words) /\ r.base = Phone!Shown /\ r.content = after
          /\ r.settle = Phone!NoSettle /\ (r.op = "text" <=> after # Absent)
      <4>1. Phone!NoSettle \in SettlesOver(Words) /\ Absent \in SidesOver(Words)
        BY DEF Phone!NoSettle, Phone!Settle, Phone!NoSet, Phone!ChangeSet, SettlesOver, SetsOver,
          SidesOver
      <4>2. Phone!Shown \in SidesOver(Words)
        BY <1>1, ShownKept
      <4>. QED BY <1>7, <3>1, <4>1, <4>2 DEF Phone!RemoveRow, Phone!TextRow, Phone!Row, RowsOver
    <3>3. rows \in Seq(RowsOver(Words)) /\ Len(rows) \in Nat /\ DOMAIN rows = 1 .. Len(rows)
      BY EverywhereTyped, LenProperties DEF Stored, PhoneOver
    <3>4. /\ rows' # <<>> /\ DOMAIN rows' = 1 .. Len(rows) + 1
          /\ \A i \in 1 .. Len(rows) + 1 : rows'[i] = IF i = Len(rows) + 1 THEN r ELSE rows[i]
      <4>1. rows' = Append(rows, r)
        BY <1>2, <2>2, <3>1 DEF Phone!Enqueued
      <4>2. rows' \in Seq(RowsOver(Words)) /\ Len(rows') = Len(rows) + 1 /\ rows' # <<>>
            /\ \A i \in 1 .. Len(rows') : rows'[i] = IF i = Len(rows) + 1 THEN r ELSE rows[i]
        BY <3>2, <3>3, <4>1, QueueFacts
      <4>. QED BY <4>2, LenProperties
    <3>5. RowKeeps(r, AtHead', Spent')
      <4>1. after # Absent => Pairs(Phone!Shown) \subseteq AtHead \cup Spent
        <5>1. after # Absent /\ rows # <<>> => Phone!Shown = Absent
          BY <1>1, <2>2, FrontFacts, ShownKept
        <5>. QED BY <1>1, <5>1, ShownKept
      <4>. QED BY <1>4, <1>5, <1>6, <3>2, <4>1, FreshKeeps
    <3>6. \A i \in DOMAIN rows' : i = Len(rows) + 1 \/ i \in DOMAIN rows
      BY <3>3, <3>4
    <3>7. RowsKeep'
      BY <1>1, <1>5, <3>4, <3>5, <3>6, RowsGrow DEF PhoneKeeps
    <3>8. /\ Len(rows) + 1 \in DOMAIN rows' /\ rows'[Len(rows) + 1] = r
          /\ \A i \in DOMAIN rows : i \in DOMAIN rows' /\ rows'[i] = rows[i]
      BY <3>3, <3>4
    <3>9. Contents \subseteq Contents' /\ Pairs(after) \subseteq Contents'
      BY <3>2, <3>8 DEF Contents
    <3>. QED BY <3>4, <3>7, <3>8, <3>9, FrontFacts
  <2>. QED BY <2>1, <2>2
<1>9. PassKeeps'
  <2>1. RowKeeps(pass.row, AtHead', Spent')
    BY <1>1, <1>5, RowGrows DEF PhoneKeeps, PassKeeps, Grew
  <2>2. pass.pc # "idle" => rows # <<>>
    BY DEF IInv, PhoneShape
  <2>. QED BY <1>1, <1>2, <1>5, <1>8, <2>1, <2>2 DEF PhoneKeeps, PassKeeps, Grew
<1>10. KnownKeeps'
  BY <1>1, <1>2, <1>5, KnownGrows DEF PhoneKeeps
<1>11. MacKeeps' /\ OnMac' = OnMac
  <2>1. UNCHANGED <<work, head, base, midway, discarded>>
    BY DEF ofMac
  <2>. QED BY <1>1, <1>2, <1>5, <2>1 DEF MacKeeps, OnMac, Grew
<1>12. Live'
  BY <1>1, <1>2, <1>3, <1>5, <1>8, <1>11, EditKeeps DEF Somewhere, Grew
<1>. QED BY <1>5, <1>8, <1>9, <1>10, <1>11, <1>12 DEF NothingGoes, PhoneKeeps

\* An edit in the Mac's working tree.
LEMMA MacWritesKeepsWords ==
  ASSUME IInv, Litter, NothingGoes, UNCHANGED ofPhone, Mac!UserWrites \/ Mac!AgentWrites
  PROVE  NothingGoes'
<1>1. PhoneKeeps /\ HostedKeeps /\ MacKeeps /\ Live
  BY DEF NothingGoes
<1>2. PICK who \in {"user", "agent"} : Mac!Writes(who)
  BY DEF Mac!UserWrites, Mac!AgentWrites
<1>3. PICK after : /\ Mac!Edits(who, work.note, after) /\ work' = [work EXCEPT !.note = after]
                   /\ UNCHANGED <<hosted, head, midway, base, discarded>>
  BY <1>2 DEF Mac!Writes
<1>4. UNCHANGED <<rebasedOver, discarded>> /\ WroteShape
  BY <1>3 DEF ofPhone, IInv
<1>5. Spent' = Spent \cup (Pairs(work.note) \ Pairs(after))
  BY <1>1, <1>3, <1>4, EditKeeps
<1>6. work'.note = after /\ work'.copies = work.copies
  <2>1. CASE midway
    BY <1>3, <2>1, TornFacts DEF Litter
  <2>2. CASE ~midway
    <3>1. work \in TreesOver(Words)
      BY <2>2, EverywhereTyped
    <3>. QED BY <1>3, <3>1 DEF TreesOver
  <2>. QED BY <2>1, <2>2
<1>7. HeldBy(work) \subseteq HeldBy(work') \cup Spent' /\ Pairs(after) \subseteq HeldBy(work')
  BY <1>5, <1>6 DEF HeldBy
<1>8. Grew /\ AtHead' = AtHead /\ HostedKeeps'
  BY <1>1, <1>3, <1>5, VaultStands
<1>9. PhoneKeeps' /\ Contents' = Contents
  BY <1>1, <1>8, PhoneKeepsOn
<1>10. MacKeeps'
  BY <1>1, <1>3, <1>7, <1>8 DEF MacKeeps, Grew
<1>11. Somewhere \subseteq Somewhere' \cup Spent' /\ Pairs(after) \subseteq Somewhere'
  BY <1>3, <1>7, <1>8, <1>9 DEF Somewhere, OnMac
<1>12. Live'
  BY <1>1, <1>3, <1>4, <1>11, EditKeeps
<1>. QED BY <1>8, <1>9, <1>10, <1>12 DEF NothingGoes

-----------------------------------------------------------------------------
(* The Mac. *)

\* A step of the Mac that keeps what stood on it, and the phone's notes with it.
LEMMA MacKeepsOn ==
  ASSUME IInv, NothingGoes, UNCHANGED ofPhone, wrote' = wrote, superseded' = superseded,
         Grew, HostedKeeps', MacKeeps', discarded \subseteq discarded',
         OnMac \subseteq AtHead' \cup OnMac' \cup Spent' \cup discarded' \cup Blanks
  PROVE  NothingGoes'
<1>1. PhoneKeeps /\ HostedKeeps /\ MacKeeps /\ Live
  BY DEF NothingGoes
<1>2. PhoneKeeps' /\ Contents' = Contents
  BY <1>1, PhoneKeepsOn
<1>3. Somewhere \subseteq Somewhere' \cup Spent' \cup discarded' \cup Blanks
  BY <1>2 DEF Somewhere, Grew
<1>. QED BY <1>1, <1>2, <1>3, LiveStays DEF NothingGoes, Grew

\* What was written over a torn note is the words an abort takes, and blanks.
LEMMA TornHolds ==
  ASSUME Litter, midway
  PROVE  /\ HeldBy(work) \subseteq Scraps(work.note) \cup Blanks
         /\ work = Mac!Torn => HeldBy(work) \subseteq Blanks
<1>1. work \in [note : [Lines -> Nat] \cup {Absent}, copies : {{}}]
  BY TornFacts DEF Litter
<1>2. HeldBy(work) = Pairs(work.note)
  BY <1>1 DEF HeldBy
<1>3. ASSUME NEW pair \in Pairs(work.note) PROVE pair \in Scraps(work.note) \cup Blanks
  <2>1. PICK l \in Lines : pair = <<l, work.note[l]>>
    BY <1>3 DEF Pairs
  <2>2. CASE work.note[l] = Mac!NoWord
    BY <2>1, <2>2 DEF Blanks
  <2>3. CASE work.note[l] # Mac!NoWord
    BY <1>3, <2>1, <2>3 DEF Scraps, Pairs, Mac!Pairs
  <2>. QED BY <2>2, <2>3
<1>4. ASSUME work = Mac!Torn PROVE Pairs(work.note) \subseteq Blanks
  BY <1>4 DEF Mac!Torn, Mac!Tree, Pairs, Blanks
<1>. QED BY <1>2, <1>3, <1>4

\* A commit of the working tree, or an abort of what a crash left there.
LEMMA CommitKeepsWords ==
  ASSUME IInv, Litter, NothingGoes, UNCHANGED ofPhone, UNCHANGED <<hosted, wrote, superseded, base>>, Mac!Commit
  PROVE  NothingGoes'
<1>1. HostedKeeps /\ MacKeeps
  BY DEF NothingGoes
<1>2. Spent' = Spent
  BY DEF Spent, ofPhone
<1>3. Grew /\ AtHead' = AtHead /\ HostedKeeps'
  BY <1>1, <1>2, VaultStands
<1>4. MacKeeps'
  BY <1>1, <1>2 DEF MacKeeps, Mac!Commit
<1>5. /\ discarded \subseteq discarded'
      /\ OnMac \subseteq OnMac' \cup Spent' \cup discarded' \cup Blanks
  <2>1. CASE midway
    <3>1. work' = head /\ head' = head /\ discarded' = discarded \cup Scraps(work.note)
      BY <2>1 DEF Mac!Commit, Scraps
    <3>. QED BY <2>1, <3>1, TornHolds DEF OnMac
  <2>2. CASE ~midway
    <3>1. head' = work /\ work' = work /\ discarded' = discarded
      BY <2>2 DEF Mac!Commit
    <3>2. HeldBy(head) \subseteq HeldBy(work) \cup Spent
      BY <1>1, <2>2 DEF MacKeeps
    <3>. QED BY <1>2, <3>1, <3>2 DEF OnMac
  <2>. QED BY <2>1, <2>2
<1>. QED BY <1>3, <1>4, <1>5, MacKeepsOn

\* A step that leaves the trees.
LEMMA TreesStand ==
  ASSUME IInv, NothingGoes, UNCHANGED ofPhone,
         UNCHANGED <<hosted, wrote, superseded, base, head, work, midway, discarded>>
  PROVE  NothingGoes'
<1>1. HostedKeeps /\ MacKeeps
  BY DEF NothingGoes
<1>2. Spent' = Spent
  BY DEF Spent, ofPhone
<1>3. Grew /\ AtHead' = AtHead /\ HostedKeeps'
  BY <1>1, <1>2, VaultStands
<1>4. MacKeeps' /\ OnMac' = OnMac
  BY <1>1, <1>2 DEF MacKeeps, OnMac
<1>. QED BY <1>3, <1>4, MacKeepsOn

\* An integration takes what the fetched commit added, and keeps what HEAD had: a line it drops was
\* one of the commit both came from, and the other side had replaced it.
LEMMA SettledKeeps ==
  ASSUME IInv, NothingGoes
  PROVE  /\ HeldBy(head) \subseteq HeldBy(Mac!Settled(head, hosted[tracking])) \cup AtHead \cup Spent
         /\ HeldBy(hosted[tracking]) \subseteq HeldBy(Mac!Settled(head, hosted[tracking])) \cup Spent
<1> DEFINE from == hosted[base]
           theirs == hosted[tracking]
           v == Reconciled(from.note, head.note, theirs.note)
           t == Mac!Settled(head, theirs)
<1>1. from \in TreesOver(Words) /\ theirs \in TreesOver(Words) /\ head \in TreesOver(Words)
      /\ HeldBy(from) \subseteq AtHead \cup Spent
  BY EverywhereTyped DEF MacShape, Stored, NothingGoes, HostedKeeps
<1>2. HeldBy(from) \subseteq HeldBy(head) \cup Spent
  BY DEF NothingGoes, MacKeeps
<1>3. t.note = v.stays /\ t.copies = head.copies \cup theirs.copies \cup ({v.copy} \ {Absent})
  BY MacNotions DEF Mac!Settled, Mac!Tree
<1>4. /\ Pairs(head.note) \subseteq Pairs(v.stays) \cup Pairs(from.note)
      /\ Pairs(theirs.note) \subseteq Pairs(v.stays) \cup Pairs(v.copy)
                                      \cup (Pairs(from.note) \ Pairs(head.note))
  BY <1>1, MineIsKept, TheirsAreKept DEF TreesOver
<1>. HIDE DEF t, v, from, theirs
<1>5. /\ Pairs(v.stays) \subseteq HeldBy(t) /\ Pairs(v.copy) \subseteq HeldBy(t)
      /\ UNION {Pairs(copy) : copy \in head.copies} \subseteq HeldBy(t)
      /\ UNION {Pairs(copy) : copy \in theirs.copies} \subseteq HeldBy(t)
  BY <1>3, PairsFacts DEF HeldBy
<1>6. Pairs(from.note) \subseteq HeldBy(from)
  BY DEF HeldBy
<1>7. HeldBy(head) \subseteq HeldBy(t) \cup AtHead \cup Spent
  BY <1>1, <1>4, <1>5, <1>6 DEF HeldBy
<1>8. Pairs(from.note) \ Pairs(head.note) \subseteq HeldBy(t) \cup Spent
  BY <1>2, <1>5, <1>6 DEF HeldBy
<1>9. HeldBy(theirs) \subseteq HeldBy(t) \cup Spent
  BY <1>4, <1>5, <1>8 DEF HeldBy
<1>. QED BY <1>7, <1>9 DEF t, theirs

\* The pass takes the working tree into HEAD, and git's markers over it where it integrates.
LEMMA IntegratesKeepsWords ==
  ASSUME IInv, NothingGoes, UNCHANGED ofPhone, Mac!Integrates
  PROVE  NothingGoes'
<1>1. HostedKeeps /\ MacKeeps
  BY DEF NothingGoes
<1>2. /\ engine.pc = "fetched" /\ ~midway
      /\ head' = work /\ (midway' \/ work' = work)
      /\ UNCHANGED <<hosted, wrote, superseded, base, discarded>>
  <2>1. /\ engine.pc = "fetched" /\ head' = work /\ midway' = (tracking > base)
        /\ work' = IF tracking > base THEN Mac!Torn ELSE work
        /\ UNCHANGED <<hosted, wrote, superseded, base, discarded>>
    BY DEF Mac!Integrates, Mac!Begun, Mac!Stands, Mac!vault
  <2>2. ~midway
    BY <2>1 DEF IInv, MacShape
  <2>3. CASE tracking > base
    BY <2>1, <2>2, <2>3
  <2>4. CASE ~(tracking > base)
    BY <2>1, <2>2, <2>4
  <2>. QED BY <2>3, <2>4
<1>3. Spent' = Spent
  BY <1>2 DEF Spent, ofPhone
<1>4. Grew /\ AtHead' = AtHead /\ HostedKeeps'
  BY <1>1, <1>2, <1>3, VaultStands
<1>5. MacKeeps' /\ OnMac \subseteq OnMac' \cup Spent'
  BY <1>1, <1>2, <1>3 DEF MacKeeps, OnMac
<1>. QED BY <1>2, <1>4, <1>5, MacKeepsOn

\* The integration stands: HEAD has what it had, or the vault has it, and all of the fetched commit.
LEMMA IntegrationLandsKeepsWords ==
  ASSUME IInv, Litter, NothingGoes, UNCHANGED ofPhone, Mac!IntegrationLands
  PROVE  NothingGoes'
<1>1. HostedKeeps /\ MacKeeps
  BY DEF NothingGoes
<1>2. /\ midway /\ ~midway'
      /\ head' = Mac!Settled(head, hosted[tracking]) /\ work' = head'
      /\ base' = tracking
      /\ UNCHANGED <<hosted, wrote, superseded, discarded>>
  BY DEF Mac!IntegrationLands, Mac!Stands, Mac!vault, Litter
<1>3. Spent' = Spent
  BY <1>2 DEF Spent, ofPhone
<1>4. Grew /\ AtHead' = AtHead /\ HostedKeeps'
  BY <1>1, <1>2, <1>3, VaultStands
<1>5. /\ HeldBy(head) \subseteq HeldBy(head') \cup AtHead \cup Spent
      /\ HeldBy(hosted[tracking]) \subseteq HeldBy(head') \cup Spent
  BY <1>2, SettledKeeps
<1>6. HeldBy(work) \subseteq Blanks
  BY <1>2, TornHolds DEF Litter, Mac!IntegrationLands, Mac!Stands
<1>7. MacKeeps' /\ OnMac \subseteq AtHead' \cup OnMac' \cup Spent' \cup Blanks
  BY <1>2, <1>3, <1>4, <1>5, <1>6 DEF MacKeeps, OnMac
<1>. QED BY <1>2, <1>4, <1>7, MacKeepsOn

\* What was begun is aborted.
LEMMA IntegrationFailsKeepsWords ==
  ASSUME IInv, Litter, NothingGoes, UNCHANGED ofPhone, Mac!IntegrationFails
  PROVE  NothingGoes'
<1>1. HostedKeeps /\ MacKeeps
  BY DEF NothingGoes
<1>2. /\ midway /\ ~midway' /\ work' = head
      /\ UNCHANGED <<hosted, wrote, superseded, head, base, discarded>>
  BY DEF Mac!IntegrationFails, Mac!Stands, Mac!vault, Litter
<1>3. Spent' = Spent
  BY <1>2 DEF Spent, ofPhone
<1>4. Grew /\ AtHead' = AtHead /\ HostedKeeps'
  BY <1>1, <1>2, <1>3, VaultStands
<1>5. HeldBy(work) \subseteq Blanks
  BY <1>2, TornHolds DEF Litter, Mac!IntegrationFails, Mac!Stands
<1>6. MacKeeps' /\ OnMac \subseteq OnMac' \cup Spent' \cup Blanks
  BY <1>1, <1>2, <1>3, <1>5 DEF MacKeeps, OnMac
<1>. QED BY <1>2, <1>4, <1>6, MacKeepsOn

\* A push lands on the head that HEAD descends from, of which it kept everything.
LEMMA PushesKeepsWords ==
  ASSUME IInv, NothingGoes, UNCHANGED ofPhone, Mac!Pushes
  PROVE  NothingGoes'
<1>1. HostedKeeps /\ MacKeeps
  BY DEF NothingGoes
<1>2. /\ Len(hosted) = base /\ hosted' = Append(hosted, head) /\ base' = Len(hosted')
      /\ UNCHANGED <<wrote, superseded, work, head, midway, discarded>>
  BY DEF Mac!Pushes, Mac!tree
<1>3. /\ hosted \in Seq(TreesOver(Words)) /\ head \in TreesOver(Words) /\ Len(hosted) \in Nat
  BY EverywhereTyped DEF Stored, HostedOver
<1>4. /\ Len(hosted') = Len(hosted) + 1 /\ hosted'[Len(hosted) + 1] = head
      /\ \A i \in 1 .. Len(hosted) : hosted'[i] = hosted[i]
  BY <1>2, <1>3, QueueFacts
<1>5. Spent' = Spent
  BY <1>2 DEF Spent, ofPhone
<1>6. AtHead' = HeldBy(head)
  BY <1>4 DEF AtHead, HeadTree
<1>7. AtHead \subseteq HeldBy(head) \cup Spent
  BY <1>1, <1>2 DEF MacKeeps, AtHead, HeadTree
<1>8. Grew
  BY <1>5, <1>6, <1>7 DEF Grew
<1>9. HostedKeeps'
  <2>1. \A i \in 1 .. Len(hosted) : HeldBy(hosted'[i]) \subseteq AtHead' \cup Spent'
    BY <1>1, <1>4, <1>8 DEF HostedKeeps, Grew
  <2>2. HeldBy(hosted'[Len(hosted')]) \subseteq AtHead'
    BY <1>4, <1>6
  <2>3. \A i \in 1 .. Len(hosted') : i \in 1 .. Len(hosted) \/ i = Len(hosted')
    BY <1>3, <1>4
  <2>. QED BY <2>1, <2>2, <2>3 DEF HostedKeeps
<1>10. MacKeeps' /\ OnMac' = OnMac
  <2>1. hosted'[base'] = head'
    BY <1>2, <1>4
  <2>. QED BY <1>1, <1>2, <1>5, <2>1 DEF MacKeeps, OnMac
<1>. QED BY <1>2, <1>8, <1>9, <1>10, MacKeepsOn

LEMMA MacStepKeepsWords ==
  ASSUME IInv, Litter, NothingGoes, UNCHANGED ofPhone, Mac!Next
  PROVE  NothingGoes'
<1>1. CASE Mac!UserWrites \/ Mac!AgentWrites
  BY <1>1, MacWritesKeepsWords
<1>2. CASE Mac!Flush \/ Mac!Prepares \/ Mac!TurnReady \/ Mac!TurnEnds
  <2>1. Mac!Commit /\ UNCHANGED <<hosted, wrote, superseded, base>>
    BY <1>2 DEF Mac!Flush, Mac!Prepares, Mac!TurnReady, Mac!TurnEnds, Mac!vault
  <2>. QED BY <2>1, CommitKeepsWords
<1>3. CASE QuietSteps \/ Mac!TurnHolds \/ Mac!Dies
  <2>1. UNCHANGED <<hosted, wrote, superseded, base, head, work, midway, discarded>>
    BY <1>3 DEF QuietSteps, Mac!Asks, Mac!Ticks, Mac!Refuses, Mac!Fetches, Mac!FetchFails,
      Mac!StopsForHold, Mac!LosesRace, Mac!Repeats, Mac!Answers, Mac!Boots, Mac!TurnHolds, Mac!Dies,
      Mac!vault, Mac!tree
  <2>. QED BY <2>1, TreesStand
<1>. QED BY <1>1, <1>2, <1>3, IntegratesKeepsWords, IntegrationLandsKeepsWords,
       IntegrationFailsKeepsWords, PushesKeepsWords
       DEF Mac!Next, Mac!TurnSteps, Mac!Pass, QuietSteps

LEMMA StepKeepsWords == IInv /\ Litter /\ NothingGoes /\ [Next]_vars => NothingGoes'
<1>. SUFFICES ASSUME IInv, Litter, NothingGoes, [Next]_vars PROVE NothingGoes'
  OBVIOUS
<1>1. CASE PhoneSteps
  BY <1>1, PhoneWritesKeepsWords, PhoneOtherKeeps DEF PhoneSteps, Phone!Next
<1>2. CASE MacSteps
  BY <1>2, MacStepKeepsWords DEF MacSteps
<1>3. CASE UNCHANGED vars
  <2>1. /\ UNCHANGED ofPhone
        /\ UNCHANGED <<hosted, wrote, superseded, base, head, work, midway, discarded>>
    BY <1>3 DEF vars, ofMac
  <2>. QED BY <2>1, TreesStand
<1>. QED BY <1>1, <1>2, <1>3 DEF Next

\* One note, which everybody has.
LEMMA NothingGoesAtFirst == Init => NothingGoes
<1>. SUFFICES ASSUME Init PROVE NothingGoes
  OBVIOUS
<1> DEFINE note == [l \in Lines |-> 1]
           first == Tree(note, {})
<1>1. /\ hosted = <<first>> /\ wrote = <<[by |-> "first", on |-> Lines]>> /\ superseded = {}
      /\ Phone!Init /\ Mac!Init
  BY DEF Init
<1>2. Len(hosted) = 1 /\ hosted[1] = first /\ HeadTree = first /\ first.note = note /\ first.copies = {}
  BY <1>1 DEF HeadTree, Tree
<1>. HIDE DEF note, first
<1>3. /\ mirror = note /\ rows = <<>> /\ pass = Phone!Resting /\ walk = Phone!NoWalk
      /\ late = {} /\ rebasedOver = {}
      /\ work = first /\ head = first /\ midway = FALSE /\ base = 1
  BY <1>1, <1>2, PhoneNotions, MacNotions DEF Phone!Init, Mac!Init
<1>4. Spent = {} /\ HeldBy(first) = Pairs(note) /\ AtHead = Pairs(note)
  BY <1>1, <1>2, <1>3 DEF Spent, HeldBy, AtHead
<1>6. RowsKeep
  BY <1>3 DEF RowsKeep
<1>7. PassKeeps
  <2>1. /\ pass.row.op = "remove" /\ pass.row.base = Absent
        /\ pass.row.settle = Phone!NoSettle /\ pass.pc = "idle"
    BY <1>3 DEF Phone!Resting, Phone!Waits, Phone!NoRow, Phone!RemoveRow, Phone!Row
  <2>2. /\ pass.row.settle.set.base = Absent /\ pass.row.settle.set.text = Absent
        /\ pass.row.settle.set.copies = {} /\ pass.row.settle.mine = Absent
    BY <2>1 DEF Phone!NoSettle, Phone!Settle, Phone!NoSet, Phone!ChangeSet
  <2>. QED BY <2>1, <2>2, PairsFacts DEF PassKeeps, RowKeeps, SettleKeeps, SetKeeps, OfSet
<1>8. KnownKeeps
  <2>1. pass.seen = Absent /\ walk.seen = Absent
    BY <1>3 DEF Phone!Resting, Phone!Waits, Phone!NoWalk
  <2>. QED BY <1>3, <1>4, <2>1, PairsFacts DEF KnownKeeps
<1>9. HostedKeeps /\ MacKeeps
  BY <1>2, <1>3, <1>4 DEF HostedKeeps, MacKeeps
<1>10. Live
  <2>1. DOMAIN wrote = {1} /\ wrote[1].on = Lines
    BY <1>1
  <2>2. ASSUME NEW l \in Lines PROVE <<l, 1>> \in AtHead
    <3>1. note \in Text
      BY DEF note, Text, Words
    <3>2. note # Absent /\ note[l] = 1
      BY <3>1, AbsentAssumption DEF note
    <3>. QED BY <1>4, <3>2, PairsFacts
  <2>. QED BY <2>1, <2>2 DEF Live, Somewhere
<1>. QED BY <1>6, <1>7, <1>8, <1>9, <1>10 DEF NothingGoes, PhoneKeeps

LEMMA WordsAreKept == Spec => []NothingGoes
BY StepKeepsWords, NothingGoesAtFirst, InvariantHolds, NothingLitters, PTL DEF Spec

\* Whatever a person or an agent wrote is in the note, in a copy beside it, or on its way there, until
\* somebody who had read it replaced it, an edit on the phone was laid over what a landed merge
\* brought, or it was written over an integration that a death had cut and went when the next commit
\* aborted that: across the phone's pinned sets, verdicts and remainders (vault-outbox.ts,
\* outbox-reconcile.ts) and the Mac's commits, integrations and deaths (git-engine.ts), however often
\* each happens.
THEOREM NothingIsLost == Spec => []NothingLost
<1>1. NothingGoes => NothingLost
  <2>. SUFFICES ASSUME NothingGoes, NEW i \in DOMAIN wrote, NEW l \in wrote[i].on
                PROVE  <<l, i>> \in Found \cup superseded \cup rebasedOver \cup discarded
    BY DEF NothingLost
  <2>1. <<l, i>> \in Somewhere \cup Spent \cup discarded
    BY DEF NothingGoes, Live
  <2>2. \A j \in DOMAIN rows : Pairs(rows[j].content) \subseteq OfRow(rows[j])
    BY DEF OfRow
  <2>3. Contents \subseteq UNION {OfRow(rows[j]) : j \in DOMAIN rows}
    BY <2>2 DEF Contents
  <2>. QED BY <2>1, <2>3 DEF Somewhere, Spent, Found, AtHead, OnMac
<1>. QED BY <1>1, WordsAreKept, PTL

-----------------------------------------------------------------------------
(* Whose words are whose. *)

\* The phone's words, and those of the first commit.
Own == {w \in 1 .. Len(wrote) : ~Foreign(w)}
Homely(side) == side \in TextsOver(Own)

AllWords == 1 .. Len(wrote)

\* What the Mac changed of its note it changed with a word that is nowhere else: in HEAD with one
\* that neither the vault nor the phone has, in the working tree with one that HEAD has not either.
Elsewhere(W) == /\ Own \subseteq W /\ W \subseteq AllWords
                /\ PhoneOver(W) /\ HostedOver(W)
NewIn(side, W) == \E l \in Lines : side[l] \notin W
HeadApart(W) == head.note \in {Absent, hosted[base].note} \/ NewIn(head.note, W)
WorkApart(H) == midway \/ work.note \in {Absent, head.note} \/ NewIn(work.note, H)

Apart ==
  \E W, H \in SUBSET AllWords :
    /\ Elsewhere(W) /\ W \subseteq H /\ head \in TreesOver(H)
    /\ HeadApart(W) /\ WorkApart(H)

LEMMA AllTyped ==
  IInv => /\ wrote \in Seq(Deeds) /\ Len(wrote) \in Nat /\ AllWords \subseteq Words
          /\ Stored(AllWords) /\ WorkOver(AllWords)
          /\ Own \subseteq AllWords /\ Own \subseteq Words
<1>. SUFFICES ASSUME IInv
     PROVE  /\ wrote \in Seq(Deeds) /\ Len(wrote) \in Nat /\ AllWords \subseteq Words
            /\ Stored(AllWords) /\ WorkOver(AllWords)
            /\ Own \subseteq AllWords /\ Own \subseteq Words
  OBVIOUS
<1>1. wrote \in Seq(Deeds) /\ Stored(Allowed) /\ WorkOver(1 .. Len(wrote))
  BY DEF IInv, WroteShape
<1>2. Len(wrote) \in Nat /\ Allowed \subseteq AllWords /\ AllWords \subseteq Words
  BY <1>1, AllowedFacts DEF AllWords
<1>. QED BY <1>1, <1>2, StoredGrows DEF AllWords, Own

\* An edit adds one word, of who made it; any other step adds none.
LEMMA OwnOfEdit ==
  ASSUME IInv, NEW who \in {"phone", "user", "agent"}, NEW side, NEW after,
         Phone!Edits(who, side, after) \/ Mac!Edits(who, side, after)
  PROVE  /\ AllWords' = AllWords \cup {Word} /\ Word \notin AllWords
         /\ Own' = IF who = "phone" THEN Own \cup {Word} ELSE Own
         /\ \A w \in AllWords : wrote'[w] = wrote[w]
<1>1. WroteShape
  BY DEF IInv
<1>2. /\ Len(wrote) \in Nat /\ Len(wrote') = Len(wrote) + 1 /\ Word = Len(wrote) + 1
      /\ \A w \in 1 .. Len(wrote) : wrote'[w] = wrote[w]
      /\ wrote'[Word].by = who
  BY <1>1, DeedFacts
<1>3. AllWords' = AllWords \cup {Word} /\ Word \notin AllWords
  BY <1>2 DEF AllWords
<1>4. \A w : w \in AllWords' <=> w \in AllWords \/ w = Word
  BY <1>3
<1>5. \A w \in AllWords : wrote'[w].by = wrote[w].by
  BY <1>2 DEF AllWords
<1>6. \A w : w \in Own' <=> w \in AllWords' /\ wrote'[w].by \in {"phone", "first"}
  BY DEF Own, Foreign, AllWords
<1>7. \A w : w \in Own <=> w \in AllWords /\ wrote[w].by \in {"phone", "first"}
  BY DEF Own, Foreign, AllWords
<1>8. \A w : w \in Own' <=> w \in Own \/ (w = Word /\ who = "phone")
  BY <1>2, <1>3, <1>4, <1>5, <1>6, <1>7
<1>9. ASSUME who = "phone" PROVE Own' = Own \cup {Word}
  <2>1. \A w : w \in Own' <=> w \in Own \cup {Word}
    BY <1>8, <1>9
  <2>. QED BY <2>1
<1>10. ASSUME who # "phone" PROVE Own' = Own
  <2>1. \A w : w \in Own' <=> w \in Own
    BY <1>8, <1>10
  <2>. QED BY <2>1
<1>. QED BY <1>2, <1>3, <1>9, <1>10 DEF AllWords

LEMMA OwnStands == wrote' = wrote => Own' = Own /\ AllWords' = AllWords
BY DEF Own, Foreign, AllWords

-----------------------------------------------------------------------------
(* What the Mac pushes. *)

\* The phone's steps.
LEMMA PhoneApart == IInv /\ Apart /\ Phone!Next /\ UNCHANGED ofMac => Apart'
<1>. SUFFICES ASSUME IInv, Apart, Phone!Next, UNCHANGED ofMac PROVE Apart'
  OBVIOUS
<1>1. UNCHANGED <<work, head, base, midway>>
  BY DEF ofMac
<1>2. PICK W \in SUBSET AllWords, H \in SUBSET AllWords :
        /\ Elsewhere(W) /\ W \subseteq H /\ head \in TreesOver(H)
        /\ HeadApart(W) /\ WorkApart(H)
  BY DEF Apart
<1>3. /\ AllWords \subseteq Words /\ PhoneShape /\ WroteShape /\ MacShape
      /\ head \in TreesOver(AllWords) /\ WorkOver(AllWords)
  BY AllTyped DEF Stored, IInv
<1>4. PhoneOver(W) /\ HostedOver(W) /\ Own \subseteq W /\ W \subseteq AllWords /\ W \in SUBSET Words
  BY <1>2, <1>3 DEF Elsewhere
<1>5. CASE Phone!Writes
  <2>1. PICK side, after : Phone!Edits("phone", side, after)
    BY <1>5 DEF Phone!Writes
  <2>2. /\ AllWords' = AllWords \cup {Word} /\ Word \notin AllWords
        /\ Own' = Own \cup {Word}
    BY <2>1, OwnOfEdit
  <2>3. PICK V \in SUBSET Words : V = W \cup {Word}
    <3>1. Word \in Words
      BY AllTyped DEF Word, Words
    <3>. QED BY <1>4, <3>1
  <2>4. PICK K : K = H \cup {Word}
    OBVIOUS
  <2>5. PhoneOver(V)' /\ hosted' = hosted
    BY <1>3, <1>4, <1>5, <2>3, PhoneWritesKeeps
  <2>6. HostedOver(V)'
    <3>1. TreesOver(W) \subseteq TreesOver(V)
      BY <2>3, OverGrows
    <3>2. Seq(TreesOver(W)) \subseteq Seq(TreesOver(V))
      BY <3>1
    <3>. QED BY <1>4, <2>5, <3>2 DEF HostedOver
  <2>7. head' \in TreesOver(K)
    BY <1>1, <1>2, <2>4, OverGrows
  <2>8. HeadApart(V)'
    <3>1. head.note \in SidesOver(AllWords)
      BY <1>3 DEF TreesOver
    <3>2. ASSUME head.note # Absent, NewIn(head.note, W) PROVE NewIn(head.note, V)
      BY <2>2, <2>3, <3>1, <3>2 DEF NewIn, SidesOver, TextsOver
    <3>. QED BY <1>1, <1>2, <2>5, <3>2 DEF HeadApart, NewIn
  <2>9. WorkApart(K)'
    <3>1. ASSUME ~midway, work.note # Absent, NewIn(work.note, H) PROVE NewIn(work.note, K)
      <4>1. work.note \in SidesOver(AllWords)
        BY <1>3, <3>1 DEF WorkOver, TreesOver
      <4>. QED BY <2>2, <2>4, <3>1, <4>1 DEF NewIn, SidesOver, TextsOver
    <3>. QED BY <1>1, <1>2, <3>1 DEF WorkApart, NewIn
  <2>10. Elsewhere(V)' /\ V \subseteq K /\ V \in SUBSET AllWords' /\ K \in SUBSET AllWords'
    BY <1>2, <1>4, <2>2, <2>3, <2>4, <2>5, <2>6 DEF Elsewhere
  <2>. QED BY <2>7, <2>8, <2>9, <2>10 DEF Apart
<1>6. CASE Phone!Pass \/ Phone!List \/ Phone!ApplyTree \/ Phone!GivesUp \/ Phone!RunsLate
  <2>1. wrote' = wrote
    BY <1>3, <1>6, OtherSteps
  <2>2. PhoneOver(W)' /\ HostedOver(W)'
    BY <1>3, <1>4, <1>6, PhoneStepKeeps
  <2>3. hosted'[base] = hosted[base]
    <3>1. base \in 1 .. Len(hosted) /\ hosted \in Seq(TreesOver(W)) /\ late \subseteq SetsOver(W)
          /\ pass.row \in RowsOver(W)
      BY <1>3, <1>4 DEF MacShape, HostedOver, PhoneOver, PassesOver
    <3>2. hosted' = hosted \/ \E set \in SetsOver(W) : Phone!CommitChanges(set)
      <4>1. Phone!SetOf(pass.row) \in SetsOver(W)
        BY <3>1, SentOver
      <4>. QED BY <1>6, <3>1, <4>1
             DEF Phone!Pass, Phone!SendPinned, Phone!AskHead, Phone!Repin, Phone!Resend,
             Phone!VaultRuns, Phone!Landed, Phone!ResolvedLocally, Phone!SettleRow,
             Phone!ResolvedToSend, Phone!List, Phone!ApplyTree, Phone!GivesUp, Phone!RunsLate,
             Phone!vault
    <3>3. ASSUME NEW set \in SetsOver(W), Phone!CommitChanges(set)
          PROVE  hosted'[base] = hosted[base]
      <4>1. Phone!Applied(set) \in TreesOver(W)
        BY <1>4, HeadTreeOver, PhoneNotions DEF Phone!Applied, Phone!Tree, SetsOver, TreesOver
      <4>2. hosted' = hosted \/ hosted' = Append(hosted, Phone!Applied(set))
        BY <3>3 DEF Phone!CommitChanges
      <4>. QED BY <3>1, <4>1, <4>2, AppendProperties, LenProperties
    <3>. QED BY <3>2, <3>3
  <2>4. HeadApart(W)' /\ WorkApart(H)'
    BY <1>1, <1>2, <2>3 DEF HeadApart, WorkApart, NewIn
  <2>5. Elsewhere(W)' /\ AllWords' = AllWords
    BY <1>4, <2>1, <2>2, OwnStands DEF Elsewhere
  <2>. QED BY <1>1, <1>2, <2>4, <2>5 DEF Apart
<1>. QED BY <1>5, <1>6 DEF Phone!Next

\* What an integration leaves of HEAD's note: the fetched one's, nothing, or the Mac's new word.
LEMMA SettledApart ==
  ASSUME NEW W \in SUBSET Words, NEW mine, NEW theirs, hosted[base] \in TreesOver(W),
         mine.note \in SidesOver(Words),
         mine.note \in {Absent, hosted[base].note} \/ NewIn(mine.note, W)
  PROVE  LET t == Mac!Settled(mine, theirs)
         IN  t.note \in {Absent, theirs.note} \/ NewIn(t.note, W)
<1> DEFINE from == hosted[base].note
           v == Reconciled(from, mine.note, theirs.note)
<1>1. Mac!Settled(mine, theirs).note = v.stays /\ from \in SidesOver(W)
  BY MacNotions DEF Mac!Settled, Mac!Tree, TreesOver
<1>2. CASE mine.note \in {Absent, from} \/ theirs.note \in {Absent, from} \/ mine.note = theirs.note
  BY <1>1, <1>2 DEF Reconciled, Verdict
<1>3. CASE ~(mine.note \in {Absent, from} \/ theirs.note \in {Absent, from} \/ mine.note = theirs.note)
  <2>1. PICK l \in Lines : mine.note[l] \notin W
    BY <1>3 DEF NewIn
  <2>2. v.stays = Merged(from, mine.note, theirs.note)
    BY <1>3 DEF Reconciled, Verdict
  <2>3. v.stays[l] \in {mine.note[l], theirs.note[l]} /\ (mine.note[l] # At(from, l) => v.stays[l] = mine.note[l])
    BY <2>2 DEF Merged
  <2>4. from # Absent => At(from, l) \in W
    BY <1>1 DEF At, SidesOver, TextsOver
  <2>5. CASE from # Absent
    BY <1>1, <2>1, <2>3, <2>4, <2>5 DEF NewIn
  <2>6. CASE from = Absent
    <3>1. mine.note[l] # NoWord
      BY <1>3 DEF SidesOver, TextsOver, Words, NoWord
    <3>. QED BY <1>1, <2>1, <2>3, <2>6, <3>1 DEF NewIn, At
  <2>. QED BY <2>5, <2>6
<1>. QED BY <1>2, <1>3

\* A commit of the working tree makes HEAD's note the tree's.
LEMMA HeadTaken ==
  ASSUME NEW W, NEW H, W \subseteq H, ~midway, HeadApart(W), WorkApart(H)
  PROVE  work.note \in {Absent, hosted[base].note} \/ NewIn(work.note, W)
BY DEF HeadApart, WorkApart, NewIn

\* A step of the Mac but an edit or a push: the vault stays, and so does what is known outside.
LEMMA MacApartKept ==
  ASSUME IInv, Apart, UNCHANGED ofPhone, wrote' = wrote, hosted' = hosted,
         \/ UNCHANGED <<work, head, midway, base>>
         \/ Mac!Commit /\ base' = base
         \/ Mac!Integrates \/ Mac!IntegrationLands \/ Mac!IntegrationFails
  PROVE  Apart'
<1>1. PICK W \in SUBSET AllWords, H \in SUBSET AllWords :
        /\ Elsewhere(W) /\ W \subseteq H /\ head \in TreesOver(H)
        /\ HeadApart(W) /\ WorkApart(H)
  BY DEF Apart
<1>2. AllWords \subseteq Words /\ MacShape /\ WorkOver(AllWords) /\ PhoneShape
      /\ midway \in BOOLEAN
  BY AllTyped DEF IInv, MacShape
<1>3. /\ PhoneOver(W) /\ HostedOver(W) /\ W \subseteq AllWords
      /\ hosted \in Seq(TreesOver(W)) /\ hosted[base] \in TreesOver(W) /\ hosted[tracking] \in TreesOver(W)
  <2>1. hosted \in Seq(TreesOver(W)) /\ base \in 1 .. Len(hosted) /\ tracking \in 1 .. Len(hosted)
    BY <1>1, <1>2 DEF Elsewhere, HostedOver, MacShape
  <2>. QED BY <1>1, <2>1, LenProperties DEF Elsewhere
<1>4. Elsewhere(W)' /\ AllWords' = AllWords
  <2>1. PhoneOver(W)'
    BY <1>2, <1>3, PhoneStands
  <2>2. HostedOver(W)'
    BY <1>3 DEF HostedOver
  <2>. QED BY <1>1, <2>1, <2>2, OwnStands DEF Elsewhere
<1>5. ASSUME head' = work, ~midway, midway' \/ work' = work, base' = base
      PROVE  Apart'
  <2>1. work \in TreesOver(AllWords)
    BY <1>2, <1>5 DEF WorkOver
  <2>2. HeadApart(W)'
    BY <1>1, <1>5, HeadTaken DEF HeadApart, NewIn
  <2>3. WorkApart(AllWords)'
    BY <1>5 DEF WorkApart
  <2>4. PICK K \in SUBSET AllWords : K = AllWords
    OBVIOUS
  <2>. QED BY <1>1, <1>4, <1>5, <2>1, <2>2, <2>3, <2>4 DEF Apart
<1>6. ASSUME head' = head, work' = head, base' = base
      PROVE  Apart'
  <2>1. HeadApart(W)' /\ WorkApart(H)'
    BY <1>1, <1>6 DEF HeadApart, WorkApart, NewIn
  <2>. QED BY <1>1, <1>4, <1>6, <2>1 DEF Apart
<1>7. CASE UNCHANGED <<work, head, midway, base>>
  <2>1. HeadApart(W)' /\ WorkApart(H)'
    BY <1>1, <1>7 DEF HeadApart, WorkApart, NewIn
  <2>. QED BY <1>1, <1>4, <1>7, <2>1 DEF Apart
<1>8. CASE Mac!Commit /\ base' = base
  BY <1>2, <1>5, <1>6, <1>8 DEF Mac!Commit
<1>9. CASE Mac!Integrates
  <2>1. /\ engine.pc = "fetched" /\ head' = work /\ midway' = (tracking > base)
        /\ work' = (IF tracking > base THEN Mac!Torn ELSE work) /\ base' = base
    BY <1>9 DEF Mac!Integrates, Mac!Begun, Mac!Stands
  <2>2. ~midway
    BY <1>2, <2>1 DEF MacShape
  <2>3. CASE tracking > base
    BY <1>5, <2>1, <2>2, <2>3
  <2>4. CASE ~(tracking > base)
    BY <1>5, <2>1, <2>2, <2>4
  <2>. QED BY <2>3, <2>4
<1>10. CASE Mac!IntegrationFails
  BY <1>6, <1>10 DEF Mac!IntegrationFails
<1>11. CASE Mac!IntegrationLands
  <2>1. /\ head' = Mac!Settled(head, hosted[tracking]) /\ work' = head' /\ midway' = FALSE
        /\ base' = tracking
    BY <1>11 DEF Mac!IntegrationLands
  <2>2. head' \in TreesOver(H)
    <3>1. hosted[tracking] \in TreesOver(H)
      BY <1>1, <1>3, OverGrows
    <3>. QED BY <1>1, <2>1, <3>1, SettledOver
  <2>3. HeadApart(W)'
    <3>1. W \in SUBSET Words /\ hosted'[base'] = hosted[tracking]
      BY <1>2, <1>3, <2>1
    <3>2. head.note \in SidesOver(Words)
      BY EverywhereTyped DEF Stored, TreesOver
    <3>3. head'.note \in {Absent, hosted[tracking].note} \/ NewIn(head'.note, W)
      BY <1>1, <1>3, <2>1, <3>1, <3>2, SettledApart DEF HeadApart
    <3>. QED BY <3>1, <3>3 DEF HeadApart, NewIn
  <2>4. WorkApart(H)'
    BY <2>1 DEF WorkApart
  <2>. QED BY <1>1, <1>4, <2>2, <2>3, <2>4 DEF Apart
<1>. QED BY <1>7, <1>8, <1>9, <1>10, <1>11

\* A push makes HEAD's words known.
LEMMA PushApart ==
  ASSUME IInv, Apart, UNCHANGED ofPhone, Mac!Pushes
  PROVE  Apart'
<1>1. PICK W \in SUBSET AllWords, H \in SUBSET AllWords :
        /\ Elsewhere(W) /\ W \subseteq H /\ head \in TreesOver(H)
        /\ HeadApart(W) /\ WorkApart(H)
  BY DEF Apart
<1>2. /\ hosted' = Append(hosted, head) /\ base' = Len(hosted')
      /\ UNCHANGED <<wrote, work, head, midway>>
  BY DEF Mac!Pushes, Mac!tree
<1>3. HostedOver(H) /\ PhoneOver(H) /\ PhoneShape
  <2>1. TreesOver(W) \subseteq TreesOver(H)
    BY <1>1, OverGrows
  <2>2. Seq(TreesOver(W)) \subseteq Seq(TreesOver(H))
    BY <2>1
  <2>3. HostedOver(H)
    BY <1>1, <2>2 DEF Elsewhere, HostedOver
  <2>. QED BY <1>1, <2>3, PhoneGrows DEF Elsewhere, IInv
<1>4. /\ hosted' \in Seq(TreesOver(H)) /\ hosted' # <<>> /\ hosted'[base'] = head
  <2>1. hosted \in Seq(TreesOver(H)) /\ Len(hosted) \in Nat
    BY <1>3, LenProperties DEF HostedOver
  <2>2. /\ hosted' \in Seq(TreesOver(H)) /\ hosted' # <<>> /\ Len(hosted') = Len(hosted) + 1
        /\ \A i \in 1 .. Len(hosted') : hosted'[i] = IF i = Len(hosted) + 1 THEN head ELSE hosted[i]
    BY <1>1, <1>2, <2>1, QueueFacts
  <2>. QED BY <1>2, <2>1, <2>2
<1>5. PhoneOver(H)'
  BY <1>3, PhoneStands
<1>6. Elsewhere(H)' /\ AllWords' = AllWords
  BY <1>1, <1>2, <1>4, <1>5, OwnStands DEF Elsewhere, HostedOver
<1>7. HeadApart(H)' /\ WorkApart(H)'
  BY <1>1, <1>2, <1>4 DEF HeadApart, WorkApart, NewIn
<1>. QED BY <1>1, <1>2, <1>6, <1>7 DEF Apart

LEMMA MacWritesApart ==
  ASSUME IInv, Apart, UNCHANGED ofPhone, Mac!UserWrites \/ Mac!AgentWrites
  PROVE  Apart'
<1>1. PICK W \in SUBSET AllWords, H \in SUBSET AllWords :
        /\ Elsewhere(W) /\ W \subseteq H /\ head \in TreesOver(H)
        /\ HeadApart(W) /\ WorkApart(H)
  BY DEF Apart
<1>2. PICK who \in {"user", "agent"} : Mac!Writes(who)
  BY DEF Mac!UserWrites, Mac!AgentWrites
<1>3. PICK after \in EditsOf(work.note) :
        /\ Mac!Edits(who, work.note, after) /\ work' = [work EXCEPT !.note = after]
        /\ UNCHANGED <<hosted, head, midway, base>>
  BY <1>2, MacNotions DEF Mac!Writes
<1>4. AllWords' = AllWords \cup {Word} /\ Word \notin AllWords /\ Own' = Own
  BY <1>3, OwnOfEdit
<1>5. ~midway => work'.note = after
  BY <1>3, AllTyped DEF WorkOver, TreesOver
<1>6. ~midway => after = Absent \/ NewIn(after, H)
  <2>0. SUFFICES ASSUME ~midway PROVE after = Absent \/ NewIn(after, H)
    OBVIOUS
  <2>1. work.note \in SidesOver(AllWords)
    BY <2>0, AllTyped DEF WorkOver, TreesOver
  <2>2. after = Absent \/ \E l \in Lines : after[l] = Word
    BY <2>1, LinesAssumption DEF EditsOf, Edited, SidesOver, TextsOver
  <2>. QED BY <1>4, <2>2 DEF NewIn
<1>7. PhoneOver(W)' /\ HostedOver(W)'
  BY <1>1, <1>3, PhoneStands DEF Elsewhere, HostedOver, IInv
<1>8. Elsewhere(W)'
  BY <1>1, <1>4, <1>7 DEF Elsewhere
<1>9. HeadApart(W)' /\ WorkApart(H)'
  BY <1>1, <1>3, <1>5, <1>6 DEF HeadApart, WorkApart, NewIn
<1>. QED BY <1>1, <1>3, <1>4, <1>8, <1>9 DEF Apart

LEMMA MacStepApart ==
  ASSUME IInv, Apart, UNCHANGED ofPhone, Mac!Next
  PROVE  Apart'
<1>1. CASE Mac!Flush \/ Mac!Prepares \/ Mac!TurnReady \/ Mac!TurnEnds
  <2>1. Mac!Commit /\ UNCHANGED <<hosted, wrote, base>>
    BY <1>1 DEF Mac!Flush, Mac!Prepares, Mac!TurnReady, Mac!TurnEnds, Mac!vault
  <2>. QED BY <2>1, MacApartKept
<1>2. CASE QuietSteps \/ Mac!TurnHolds \/ Mac!Dies
  <2>1. UNCHANGED <<hosted, wrote, base, head, work, midway>>
    BY <1>2 DEF QuietSteps, Mac!Asks, Mac!Ticks, Mac!Refuses, Mac!Fetches, Mac!FetchFails,
      Mac!StopsForHold, Mac!LosesRace, Mac!Repeats, Mac!Answers, Mac!Boots, Mac!TurnHolds, Mac!Dies,
      Mac!vault, Mac!tree
  <2>. QED BY <2>1, MacApartKept
<1>3. CASE Mac!Integrates \/ Mac!IntegrationLands \/ Mac!IntegrationFails
  <2>1. UNCHANGED <<hosted, wrote>>
    BY <1>3 DEF Mac!Integrates, Mac!Begun, Mac!IntegrationLands, Mac!IntegrationFails, Mac!vault
  <2>. QED BY <1>3, <2>1, MacApartKept
<1>. QED BY <1>1, <1>2, <1>3, PushApart, MacWritesApart
       DEF Mac!Next, Mac!TurnSteps, Mac!Pass, QuietSteps

LEMMA ApartHolds == IInv /\ Apart /\ [Next]_vars => Apart'
<1>. SUFFICES ASSUME IInv, Apart, [Next]_vars PROVE Apart'
  OBVIOUS
<1>1. CASE PhoneSteps
  BY <1>1, PhoneApart DEF PhoneSteps
<1>2. CASE MacSteps
  BY <1>2, MacStepApart DEF MacSteps
<1>3. CASE UNCHANGED vars
  <2>1. UNCHANGED ofPhone /\ UNCHANGED <<hosted, wrote, work, head, midway, base>>
    BY <1>3 DEF vars, ofMac
  <2>. QED BY <2>1, MacApartKept
<1>. QED BY <1>1, <1>2, <1>3 DEF Next

LEMMA ApartAtFirst == Init => Apart
<1>. SUFFICES ASSUME Init PROVE Apart
  OBVIOUS
<1>1. IInv
  BY InitHolds
<1>2. /\ Own \subseteq AllWords /\ PhoneOver(AllWords) /\ HostedOver(AllWords)
      /\ head \in TreesOver(AllWords)
  BY <1>1, AllTyped DEF Stored
<1>3. hosted[base] = head /\ work = head
  <2>1. Len(hosted) = 1 /\ HeadTree = hosted[1]
    BY DEF Init, HeadTree
  <2>. QED BY <2>1, MacNotions DEF Init, Mac!Init
<1>4. PICK W \in SUBSET AllWords : W = AllWords
  OBVIOUS
<1>. QED BY <1>2, <1>3, <1>4 DEF Apart, Elsewhere, HeadApart, WorkApart

\* Where a push changes the hosted note, it takes it away or puts a word of the Mac's there.
LEMMA PushedNote ==
  ASSUME IInv, Apart, Mac!Next
  PROVE  /\ Own' = Own
         /\ HeadTree'.note \in {Absent, HeadTree.note} \/ ~Homely(HeadTree'.note)
<1>1. PICK W \in SUBSET AllWords : Own \subseteq W /\ HeadApart(W)
  BY DEF Apart, Elsewhere
<1>2. CASE Mac!UserWrites \/ Mac!AgentWrites
  <2>1. PICK who \in {"user", "agent"} : Mac!Writes(who)
    BY <1>2 DEF Mac!UserWrites, Mac!AgentWrites
  <2>2. PICK after : Mac!Edits(who, work.note, after) /\ hosted' = hosted
    BY <2>1 DEF Mac!Writes
  <2>3. Own' = Own
    BY <2>2, OwnOfEdit
  <2>. QED BY <2>2, <2>3 DEF HeadTree
<1>3. CASE Mac!Pushes
  <2>1. /\ Len(hosted) = base /\ hosted' = Append(hosted, head) /\ wrote' = wrote
    BY <1>3 DEF Mac!Pushes
  <2>2. hosted \in Seq(TreesOver(Words)) /\ head \in TreesOver(Words) /\ Len(hosted) \in Nat
    BY EverywhereTyped DEF Stored, HostedOver
  <2>3. HeadTree' = head /\ HeadTree = hosted[base]
    <3>1. Len(hosted') = Len(hosted) + 1 /\ hosted'[Len(hosted) + 1] = head
      BY <2>1, <2>2, QueueFacts
    <3>. QED BY <2>1, <3>1 DEF HeadTree
  <2>4. NewIn(head.note, W) => ~Homely(head.note)
    BY <1>1 DEF NewIn, Homely, TextsOver
  <2>. QED BY <1>1, <2>1, <2>3, <2>4, OwnStands DEF HeadApart
<1>4. CASE ~(Mac!UserWrites \/ Mac!AgentWrites \/ Mac!Pushes)
  <2>1. /\ TreeSteps \/ QuietSteps \/ Mac!TurnHolds \/ Mac!TurnReady \/ Mac!TurnEnds \/ Mac!Dies
        /\ ~Mac!Pushes
    BY <1>4 DEF Mac!Next, Mac!TurnSteps, Mac!Pass, TreeSteps, QuietSteps
  <2>2. wrote' = wrote
    BY <2>1, OtherSteps DEF IInv
  <2>3. hosted' = hosted
    <3>1. CASE QuietSteps
      BY <3>1, QuietStepKeeps DEF IInv
    <3>2. CASE TreeSteps
      BY <2>1, <3>2 DEF TreeSteps, Mac!Flush, Mac!Prepares, Mac!Integrates, Mac!Begun,
        Mac!IntegrationLands, Mac!IntegrationFails, Mac!vault
    <3>. QED BY <2>1, <3>1, <3>2
           DEF Mac!TurnHolds, Mac!TurnReady, Mac!TurnEnds, Mac!Dies, Mac!vault
  <2>. QED BY <2>2, <2>3, OwnStands DEF HeadTree
<1>. QED BY <1>2, <1>3, <1>4

-----------------------------------------------------------------------------
(* What the phone's rows expect of the head. *)

\* A text behind another row starts from nothing, for only a remove stands before it; and a remove
\* sends a delete.
Alternates ==
  \A i \in DOMAIN rows :
    /\ i > 1 => rows[i].op # rows[i - 1].op
    /\ i > 1 /\ rows[i].op = "text" => rows[i].base = Absent
    /\ rows[i].op = "remove" => rows[i].settle.set.text = Absent

\* The head is asked about a first set alone, and a remove has no content to settle.
PassReads ==
  /\ pass.pc = "asked" => pass.row.op = "text" /\ pass.row.settle.set.base = pass.row.base
  /\ pass.row.op = "remove" => pass.row.content = Absent

LEMMA FirstAlternates ==
  ASSUME IInv, Alternates, rows # <<>>, NEW r \in RowsOver(Words), rows' = Phone!WithFirst(r),
         r.op = rows[1].op, r.op = "remove" => r.settle.set.text = Absent
  PROVE  Alternates'
<1>1. /\ DOMAIN rows' = DOMAIN rows /\ rows'[1] = r
      /\ \A i \in DOMAIN rows : i # 1 => rows'[i] = rows[i]
      /\ DOMAIN rows = 1 .. Len(rows) /\ Len(rows) \in Nat
  BY FrontMade, FrontFacts
<1>2. \A i \in DOMAIN rows : rows'[i].op = rows[i].op
  BY <1>1
<1>3. \A i \in DOMAIN rows : i > 1 => i - 1 \in DOMAIN rows /\ i # 1
  BY <1>1
<1>. QED BY <1>1, <1>2, <1>3 DEF Alternates

LEMMA TailAlternates ==
  ASSUME IInv, Alternates, rows # <<>>, rows' = Tail(rows)
  PROVE  Alternates'
<1>1. /\ rows \in Seq(RowsOver(Words)) /\ Len(rows) \in Nat /\ DOMAIN rows = 1 .. Len(rows)
      /\ rows[1] \in RowsOver(Words)
  BY FrontFacts
<1>2. /\ rows' \in Seq(RowsOver(Words)) /\ Len(rows') = Len(rows) - 1
      /\ \A i \in DOMAIN rows' : i + 1 \in DOMAIN rows /\ rows'[i] = rows[i + 1]
  BY <1>1, QueueFacts
<1>3. DOMAIN rows' = 1 .. Len(rows')
  BY <1>2, LenProperties
<1>4. ASSUME NEW i \in DOMAIN rows'
      PROVE  /\ i > 1 => rows'[i].op # rows'[i - 1].op
             /\ i > 1 /\ rows'[i].op = "text" => rows'[i].base = Absent
             /\ rows'[i].op = "remove" => rows'[i].settle.set.text = Absent
  <2>1. i \in Nat /\ i + 1 \in DOMAIN rows /\ i + 1 > 1 /\ (i + 1) - 1 = i
    BY <1>1, <1>2, <1>3, <1>4
  <2>2. i > 1 => i - 1 \in DOMAIN rows' /\ (i - 1) + 1 = i
    BY <1>1, <1>2, <1>3, <1>4, <2>1
  <2>3. i > 1 => rows'[i - 1] = rows[i]
    BY <1>2, <2>2
  <2>. QED BY <1>2, <1>4, <2>1, <2>3 DEF Alternates
<1>. QED BY <1>4 DEF Alternates

\* A verdict on a remove that sends something sends the delete again.
LEMMA RemoveResolves ==
  ASSUME NEW row, NEW theirs, row.content = Absent,
         Phone!VerdictOn(row, theirs).stays # theirs
  PROVE  /\ Phone!Resolution(row, theirs).set.text = Absent
         /\ Phone!Resolution(row, theirs).set.copies = {}
<1>1. Reconciled(row.base, Absent, theirs).stays # theirs
  BY PhoneNotions DEF Phone!VerdictOn
<1>2. Absent = theirs \/ theirs = row.base
  BY <1>1 DEF Reconciled, Verdict
<1>3. Phone!VerdictOn(row, theirs).stays = Absent /\ Phone!VerdictOn(row, theirs).copy = Absent
  BY <1>2, PhoneNotions DEF Phone!VerdictOn, Reconciled, Verdict
<1>. QED BY <1>3 DEF Phone!Resolution, Phone!Settle, Phone!ChangeSet

LEMMA EnqueuedAlternates ==
  ASSUME IInv, Alternates, Phone!Writes
  PROVE  Alternates'
<1>1. PICK after \in EditsOf(Phone!Shown) : rows' = Phone!Enqueued(after)
  BY PhoneNotions DEF Phone!Writes
<1>2. /\ rows \in Seq(RowsOver(Words)) /\ Len(rows) \in Nat /\ DOMAIN rows = 1 .. Len(rows)
      /\ PhoneOver(Words)
  BY EverywhereTyped, LenProperties DEF Stored, PhoneOver
<1>3. CASE after # Absent /\ rows # <<>> /\ rows[Len(rows)].op = "text"
  <2>1. Len(rows) \in DOMAIN rows /\ rows[Len(rows)] \in RowsOver(Words)
    BY <1>3, FrontFacts
  <2>2. PICK last \in RowsOver(Words) : last = rows[Len(rows)]
    BY <2>1
  <2>3. PICK r : r = [last EXCEPT !.content = after]
    OBVIOUS
  <2>4. /\ r.op = last.op /\ r.base = last.base /\ r.settle = last.settle
    BY <2>3 DEF RowsOver
  <2>5. rows' = [rows EXCEPT ![Len(rows)] = r]
    BY <1>1, <1>3, <2>2, <2>3 DEF Phone!Enqueued, Phone!WithLast
  <2>6. \A i \in DOMAIN rows : rows'[i].op = rows[i].op /\ rows'[i].base = rows[i].base
                               /\ rows'[i].settle = rows[i].settle
    BY <1>2, <2>1, <2>2, <2>4, <2>5
  <2>7. DOMAIN rows' = DOMAIN rows
    BY <2>5
  <2>8. \A i \in DOMAIN rows : i > 1 => i - 1 \in DOMAIN rows
    BY <1>2
  <2>. QED BY <2>6, <2>7, <2>8 DEF Alternates
<1>4. CASE ~(after # Absent /\ rows # <<>> /\ rows[Len(rows)].op = "text")
  <2>1. PICK r : r = IF after = Absent THEN Phone!RemoveRow(Phone!Shown)
                     ELSE Phone!TextRow(Phone!Shown, after)
    OBVIOUS
  <2>2. /\ r.op = (IF after = Absent THEN "remove" ELSE "text") /\ r.base = Phone!Shown
        /\ r.settle.set.text = Absent
    BY <2>1 DEF Phone!RemoveRow, Phone!TextRow, Phone!Row, Phone!NoSettle, Phone!Settle,
      Phone!NoSet, Phone!ChangeSet
  <2>3. rows' = Append(rows, r)
    BY <1>1, <1>4, <2>1 DEF Phone!Enqueued
  <2>4. /\ DOMAIN rows' = 1 .. Len(rows) + 1 /\ rows'[Len(rows) + 1] = r
        /\ \A i \in 1 .. Len(rows) : rows'[i] = rows[i]
    BY <1>2, <2>3
  \* Over a remove the phone shows nothing, and nothing can be taken away.
  <2>5. ASSUME rows # <<>>
        PROVE  /\ Len(rows) \in DOMAIN rows /\ r.op # rows[Len(rows)].op
               /\ r.op = "text" => r.base = Absent
    <3>1. /\ Phone!Shown = rows[Len(rows)].content /\ Len(rows) \in DOMAIN rows
          /\ rows[Len(rows)].op \in {"text", "remove"}
          /\ rows[Len(rows)].op = "text" <=> rows[Len(rows)].content # Absent
      BY <2>5, FrontFacts DEF Phone!Shown, RowsOver
    <3>2. Phone!Shown = Absent => after # Absent
      <4>1. [l \in Lines |-> Word] \in Text
        BY EverywhereTyped, LenProperties DEF Text, Words, Word, WroteShape
      <4>. QED BY <4>1, AbsentAssumption DEF EditsOf
    <3>. QED BY <1>4, <2>2, <2>5, <3>1, <3>2
  <2>6. ASSUME NEW i \in DOMAIN rows'
        PROVE  /\ i > 1 => rows'[i].op # rows'[i - 1].op
               /\ i > 1 /\ rows'[i].op = "text" => rows'[i].base = Absent
               /\ rows'[i].op = "remove" => rows'[i].settle.set.text = Absent
    <3>1. CASE i = Len(rows) + 1
      <4>1. i > 1 => rows # <<>> /\ i - 1 = Len(rows) /\ Len(rows) \in 1 .. Len(rows)
        BY <1>2, <3>1
      <4>. QED BY <2>2, <2>4, <2>5, <3>1, <4>1
    <3>2. CASE i # Len(rows) + 1
      <4>1. i \in 1 .. Len(rows) /\ (i > 1 => i - 1 \in 1 .. Len(rows))
        BY <1>2, <2>4, <2>6, <3>2
      <4>. QED BY <1>2, <2>4, <4>1 DEF Alternates
    <3>. QED BY <3>1, <3>2
  <2>. QED BY <2>6 DEF Alternates
<1>. QED BY <1>3, <1>4

LEMMA PassReadsOn ==
  ASSUME IInv, PassReads, Phone!Next
  PROVE  PassReads'
<1>1. CASE Phone!Writes \/ Phone!List \/ Phone!ApplyTree \/ Phone!RunsLate
  <2>1. pass' = pass
    BY <1>1 DEF Phone!Writes, Phone!List, Phone!ApplyTree, Phone!RunsLate, Phone!queue
  <2>. QED BY <2>1 DEF PassReads
<1>2. rows # <<>> => /\ Phone!Foremost \in RowsOver(Words) /\ Phone!Foremost.op \in {"text", "remove"}
                     /\ Phone!Foremost.op = "text" <=> Phone!Foremost.content # Absent
  BY FrontFacts DEF RowsOver
<1>3. CASE Phone!AskHead
  <2>1. /\ Phone!Foremost.op = "text" /\ Phone!Foremost.settle.set.base = Phone!Foremost.base
        /\ pass' = Phone!Waits("asked", Phone!Foremost, HeadTree.note)
    BY <1>3, PhoneNotions DEF Phone!AskHead, Phone!WrittenPast, Phone!PinnedPut, Phone!ChangeSet
  <2>. QED BY <2>1 DEF PassReads, Phone!Waits
<1>4. ASSUME NEW pc \in {"idle", "sent", "conflict", "committed"}, NEW row, NEW seen,
             pass' = Phone!Waits(pc, row, seen), row.op = "remove" => row.content = Absent
      PROVE  PassReads'
  BY <1>4 DEF PassReads, Phone!Waits
<1>5. CASE Phone!SendPinned \/ (Phone!Repin /\ pass'.row # pass.row)
  <2>1. pass' = Phone!Waits("sent", Phone!Pinned(Phone!Foremost), Absent) /\ rows # <<>>
    BY <1>5 DEF Phone!SendPinned, Phone!Repin, Phone!Waits, Phone!PassAt, IInv, PhoneShape
  <2>2. /\ Phone!Pinned(Phone!Foremost).op = Phone!Foremost.op
        /\ Phone!Pinned(Phone!Foremost).content = Phone!Foremost.content
    BY <1>2, <2>1, PinnedFields
  <2>. QED BY <1>2, <1>4, <2>1, <2>2
<1>6. CASE Phone!Repin /\ pass'.row = pass.row
  <2>1. pass'.pc = "sent" /\ pass'.row = pass.row
    BY <1>6 DEF Phone!Repin, Phone!Waits
  <2>. QED BY <2>1 DEF PassReads
<1>7. CASE Phone!Resend
  <2>1. pass' = Phone!Waits("sent", Phone!Foremost, Absent) /\ rows # <<>>
    BY <1>7 DEF Phone!Resend
  <2>. QED BY <1>2, <1>4, <2>1
<1>8. CASE Phone!VaultRuns
  <2>1. \E pc \in {"conflict", "committed"} : pass' = Phone!Waits(pc, pass.row, HeadTree.note)
    BY <1>8, PhoneNotions DEF Phone!VaultRuns
  <2>. QED BY <1>4, <2>1 DEF PassReads
<1>9. CASE Phone!Landed \/ Phone!ResolvedLocally \/ Phone!ResolvedToSend \/ Phone!GivesUp
  <2>1. pass' = Phone!Resting
    BY <1>9 DEF Phone!Landed, Phone!ResolvedLocally, Phone!ResolvedToSend, Phone!GivesUp,
      Phone!SettleRow
  <2>2. Phone!NoRow.content = Absent
    BY DEF Phone!NoRow, Phone!RemoveRow, Phone!Row
  <2>. QED BY <1>4, <2>1, <2>2 DEF Phone!Resting
<1>. QED BY <1>1, <1>3, <1>5, <1>6, <1>7, <1>8, <1>9 DEF Phone!Next, Phone!Pass

\* The rows whose text is the phone's answer to a note it knew: any but one written anew over
\* nothing, once a delete gave way to a version it did not know.
Counts(row) == row.op = "text" /\ (row.base # Absent \/ "gaveWay" \notin detours)

\* What a row takes the hosted note for, where no other device has changed it.
Expects(row) ==
  IF row.settle = Phone!NoSettle THEN {row.base} ELSE {row.settle.set.base, row.settle.set.text}

\* A hosted note of the phone's words alone is one the phone knows of.
KnowsHead ==
  Homely(HeadTree.note) =>
    /\ rows = <<>> => /\ HeadTree.note = mirror
                      /\ walk.listed /\ ~walk.stamped => walk.seen = HeadTree.note
    /\ rows # <<>> /\ Counts(rows[1]) => HeadTree.note \in Expects(rows[1])
    /\ pass.pc \in {"asked", "conflict"} => pass.seen = HeadTree.note
    /\ pass.pc = "committed" => HeadTree.note = Phone!SetOf(pass.row).text

\* So what a set of such a row meets, where it conflicts, has a word of another device.
MeetsForeign == pass.pc = "conflict" /\ Counts(pass.row) => ~Homely(pass.seen)

RowForeign(row) ==
  \A copy \in row.settle.set.copies :
    (\E l \in Lines : Foreign(copy[l])) \/ (row.base = Absent /\ "gaveWay" \in detours)
CopiesForeign == \A i \in DOMAIN rows : RowForeign(rows[i])

OnWay == KnowsHead /\ MeetsForeign /\ CopiesForeign

LEMMA HomelyIsNote == IInv => \A side : Homely(side) => side # Absent
BY AllTyped, TextsAreNotAbsent DEF Homely

\* The head row made anew: what the others' copies hold stays.
LEMMA FirstForeign ==
  ASSUME IInv, CopiesForeign, rows # <<>>, NEW r \in RowsOver(Words), rows' = Phone!WithFirst(r),
         wrote' = wrote, detours \subseteq detours', RowForeign(r)'
  PROVE  CopiesForeign'
<1>1. /\ DOMAIN rows' = DOMAIN rows /\ rows'[1] = r
      /\ \A i \in DOMAIN rows : i # 1 => rows'[i] = rows[i]
  BY FrontMade
<1>2. \A w : Foreign(w)' <=> Foreign(w)
  BY DEF Foreign
<1>3. ASSUME NEW i \in DOMAIN rows, i # 1 PROVE RowForeign(rows[i])'
  <2>1. RowForeign(rows[i])
    BY DEF CopiesForeign
  <2>. QED BY <1>1, <1>3, <2>1 DEF RowForeign, Foreign
<1>4. RowForeign(rows[1])'
  BY <1>1 DEF RowForeign
<1>. QED BY <1>1, <1>3, <1>4 DEF CopiesForeign

LEMMA TailForeign ==
  ASSUME IInv, CopiesForeign, rows # <<>>, rows' = Tail(rows), wrote' = wrote, detours \subseteq detours'
  PROVE  CopiesForeign'
<1>1. rows \in Seq(RowsOver(Words)) /\ rows[1] \in RowsOver(Words)
  BY FrontFacts
<1>2. \A i \in DOMAIN rows' : i + 1 \in DOMAIN rows /\ rows'[i] = rows[i + 1]
  BY <1>1, QueueFacts
<1>3. ASSUME NEW i \in DOMAIN rows' PROVE RowForeign(rows[i])'
  <2>1. i + 1 \in DOMAIN rows /\ rows'[i] = rows[i + 1] /\ RowForeign(rows[i + 1])
    BY <1>2 DEF CopiesForeign
  <2>. QED BY <2>1 DEF RowForeign, Foreign
<1>. QED BY <1>3 DEF CopiesForeign

\* The steps that ask about the head, or send the front row.
LEMMA SendingOnWay ==
  ASSUME IInv, PassKeeps, PassReads, Alternates, OnWay,
         Phone!SendPinned \/ Phone!AskHead \/ Phone!Repin \/ Phone!Resend
  PROVE  OnWay' /\ Alternates'
<1>1. UNCHANGED <<hosted, wrote, mirror, walk, detours>>
  BY DEF Phone!SendPinned, Phone!AskHead, Phone!Repin, Phone!Resend, Phone!vault
<1>2. Own' = Own /\ HeadTree' = HeadTree
  BY <1>1, OwnStands DEF HeadTree
<1>3. rows # <<>>
  BY DEF IInv, PhoneShape, Phone!SendPinned, Phone!AskHead, Phone!Repin, Phone!Resend, Phone!PassAt
<1>4. /\ rows[1] \in RowsOver(Words) /\ Phone!Foremost = rows[1]
      /\ rows[1].op = "text" <=> rows[1].content # Absent
  BY <1>3, FrontFacts
<1>5. pass'.pc = "sent" \/ (pass'.pc = "asked" /\ pass'.seen = HeadTree.note)
  BY PhoneNotions DEF Phone!SendPinned, Phone!AskHead, Phone!Repin, Phone!Resend, Phone!Waits
<1>6. \/ UNCHANGED rows
      \/ /\ rows' = Phone!WithFirst(Phone!Pinned(rows[1]))
         /\ rows[1].op = "text"
         /\ Homely(HeadTree.note) /\ Counts(rows[1]) => HeadTree.note = rows[1].base
  <2>1. CASE Phone!SendPinned
    <3>1. /\ rows' = Phone!WithFirst(Phone!Pinned(rows[1])) /\ rows[1].op = "text"
          /\ rows[1].settle = Phone!NoSettle
      BY <1>4, <2>1 DEF Phone!SendPinned
    <3>2. Homely(HeadTree.note) /\ Counts(rows[1]) => HeadTree.note = rows[1].base
      BY <1>3, <3>1 DEF OnWay, KnowsHead, Expects
    <3>. QED BY <3>1, <3>2
  <2>2. CASE Phone!Repin /\ rows' # rows
    <3>1. /\ pass.pc = "asked" /\ pass.seen = pass.row.settle.set.base
          /\ rows' = Phone!WithFirst(Phone!Pinned(rows[1]))
      BY <1>4, <2>2 DEF Phone!Repin, Phone!PassAt
    <3>2. rows[1].op = "text" /\ pass.seen = rows[1].base
      BY <3>1 DEF PassReads, PassKeeps
    <3>3. Homely(HeadTree.note) => pass.seen = HeadTree.note
      BY <3>1 DEF OnWay, KnowsHead
    <3>. QED BY <3>1, <3>2, <3>3
  <2>. QED BY <2>1, <2>2 DEF Phone!AskHead, Phone!Resend
<1>7. CASE UNCHANGED rows
  <2>1. KnowsHead'
    BY <1>1, <1>2, <1>3, <1>5, <1>7 DEF OnWay, KnowsHead, Homely, Counts, Expects
  <2>2. MeetsForeign' /\ CopiesForeign' /\ Alternates'
    BY <1>1, <1>5, <1>7 DEF OnWay, MeetsForeign, CopiesForeign, RowForeign, Foreign, Alternates
  <2>. QED BY <2>1, <2>2 DEF OnWay
<1>8. CASE /\ rows' = Phone!WithFirst(Phone!Pinned(rows[1]))
           /\ rows[1].op = "text"
           /\ Homely(HeadTree.note) /\ Counts(rows[1]) => HeadTree.note = rows[1].base
  <2>1. PICK r \in RowsOver(Words) : r = Phone!Pinned(rows[1])
    BY <1>4, RowFacts
  <2>2. /\ r.op = "text" /\ r.base = rows[1].base
        /\ r.settle.set.base = rows[1].base /\ r.settle.set.copies = {}
    <3>1. r.op = rows[1].op /\ r.base = rows[1].base /\ r.settle = Phone!FirstSet(rows[1])
      BY <1>4, <2>1, PinnedFields
    <3>2. /\ Phone!FirstSet(rows[1]).set.base = rows[1].base
          /\ Phone!FirstSet(rows[1]).set.copies = {}
      BY DEF Phone!FirstSet, Phone!Settle, Phone!ChangeSet
    <3>. QED BY <1>8, <3>1, <3>2
  <2>3. rows'[1] = r /\ rows' # <<>> /\ Alternates'
    <3>1. rows'[1] = r /\ DOMAIN rows' = DOMAIN rows /\ 1 \in DOMAIN rows
      BY <1>3, <1>8, <2>1, FrontMade, FrontFacts
    <3>2. Alternates'
      BY <1>3, <1>8, <2>1, <2>2, FirstAlternates
    <3>. QED BY <3>1, <3>2
  <2>4. Homely(HeadTree.note)' /\ Counts(r)' => HeadTree'.note \in Expects(r)
    <3>1. Counts(r)' => Counts(rows[1])
      BY <1>1, <1>8, <2>2 DEF Counts
    <3>2. Homely(HeadTree.note)' => Homely(HeadTree.note)
      BY <1>2 DEF Homely
    <3>3. r.settle # Phone!NoSettle \/ Expects(r) = {r.base}
      BY DEF Expects
    <3>4. Homely(HeadTree.note) /\ Counts(rows[1]) => HeadTree.note \in Expects(r)
      BY <1>8, <2>2 DEF Expects
    <3>. QED BY <1>2, <3>1, <3>2, <3>4
  <2>5. KnowsHead'
    <3>1. Counts(rows[1])' => Counts(r)'
      BY <2>3 DEF Counts
    <3>2. Expects(rows[1])' = Expects(r)
      BY <2>3 DEF Expects
    <3>. QED BY <1>2, <1>5, <2>3, <2>4, <3>1, <3>2 DEF KnowsHead
  <2>6. CopiesForeign'
    <3>1. RowForeign(r)'
      BY <2>2 DEF RowForeign
    <3>. QED BY <1>1, <1>3, <1>8, <2>1, <3>1, FirstForeign DEF OnWay
  <2>7. MeetsForeign'
    BY <1>5 DEF MeetsForeign
  <2>. QED BY <2>3, <2>5, <2>6, <2>7 DEF OnWay
<1>. QED BY <1>6, <1>7, <1>8

\* The set runs: it is what the row expects there, or meets another device's words.
LEMMA VaultRunsOnWay ==
  ASSUME IInv, PassKeeps, OnWay, Phone!VaultRuns
  PROVE  OnWay'
<1> DEFINE set == Phone!SetOf(pass.row)
<1>1. /\ pass.pc = "sent" /\ Phone!CommitChanges(set)
      /\ pass' = Phone!Waits(IF Phone!Conflicts(set) THEN "conflict" ELSE "committed",
                             pass.row, HeadTree.note)
      /\ UNCHANGED <<wrote, rows, mirror, walk, detours>>
  BY PhoneNotions DEF Phone!VaultRuns, Phone!PassAt
<1>2. /\ pass'.row = pass.row /\ pass'.seen = HeadTree.note
      /\ pass'.pc = IF Phone!Conflicts(set) THEN "conflict" ELSE "committed"
  BY <1>1 DEF Phone!Waits
<1>3. Own' = Own /\ rows # <<>>
  BY <1>1, OwnStands DEF IInv, PhoneShape
<1>4. Phone!Conflicts(set) <=> HeadTree.note \notin {set.base, set.text}
  BY PhoneNotions DEF Phone!Conflicts
<1>5. HeadTree'.note = IF Phone!Conflicts(set) THEN HeadTree.note ELSE set.text
  <2>1. CASE Phone!Conflicts(set)
    BY <1>1, <2>1 DEF Phone!CommitChanges, HeadTree
  <2>2. CASE ~Phone!Conflicts(set) /\ Phone!Applied(set) = Phone!HeadTree
    <3>1. HeadTree' = HeadTree
      BY <1>1, <2>2 DEF Phone!CommitChanges, HeadTree
    <3>. QED BY <2>2, <3>1, PhoneNotions DEF Phone!Applied, Phone!Tree
  <2>3. CASE ~Phone!Conflicts(set) /\ Phone!Applied(set) # Phone!HeadTree
    <3>1. set \in SetsOver(Words) /\ HostedOver(Words) /\ hosted \in Seq(TreesOver(Words))
      BY EverywhereTyped, SentOver DEF Stored, PhoneOver, PassesOver, HostedOver
    <3>2. Phone!Applied(set) \in TreesOver(Words) /\ Phone!Applied(set).note = set.text
      BY <3>1, HeadTreeOver, PhoneNotions DEF Phone!Applied, Phone!Tree, SetsOver, TreesOver
    <3>3. hosted' = Append(hosted, Phone!Applied(set))
      BY <1>1, <2>3 DEF Phone!CommitChanges
    <3>4. HeadTree' = Phone!Applied(set)
      BY <3>1, <3>2, <3>3, AppendProperties DEF HeadTree
    <3>. QED BY <2>3, <3>2, <3>4
  <2>. QED BY <2>1, <2>2, <2>3
\* A text was pinned before it was sent: its set is the front row's.
<1>6. Counts(rows[1]) => set = rows[1].settle.set /\ Expects(rows[1]) = {set.base, set.text}
  BY <1>1 DEF PassKeeps, Counts, Expects, Phone!SetOf
<1>7. Homely(HeadTree.note) /\ Counts(rows[1]) => ~Phone!Conflicts(set)
  BY <1>3, <1>4, <1>6 DEF OnWay, KnowsHead
<1>. HIDE DEF set
<1>8. MeetsForeign'
  <2>1. Counts(pass.row)' => Counts(rows[1])
    BY <1>1, <1>2 DEF Counts, PassKeeps
  <2>. QED BY <1>2, <1>3, <1>7, <2>1 DEF MeetsForeign, Homely
<1>9. KnowsHead'
  <2>1. Counts(rows[1])' => Counts(rows[1])
    BY <1>1 DEF Counts
  <2>2. Expects(rows[1])' = Expects(rows[1])
    BY <1>1 DEF Expects
  <2>3. ASSUME Homely(HeadTree.note)'
        PROVE  /\ Counts(rows[1])' => HeadTree'.note \in Expects(rows[1])'
               /\ pass'.pc \in {"asked", "conflict"} => pass'.seen = HeadTree'.note
               /\ pass'.pc = "committed" => HeadTree'.note = Phone!SetOf(pass'.row).text
    <3>1. CASE Phone!Conflicts(set)
      <4>1. Homely(HeadTree.note)
        BY <1>3, <1>5, <2>3, <3>1 DEF Homely
      <4>. QED BY <1>2, <1>5, <1>7, <2>1, <3>1, <4>1
    <3>2. CASE ~Phone!Conflicts(set)
      BY <1>2, <1>5, <1>6, <2>1, <2>2, <3>2 DEF set
    <3>. QED BY <3>1, <3>2
  <2>. QED BY <1>1, <1>3, <2>3 DEF KnowsHead
<1>10. CopiesForeign'
  BY <1>1 DEF OnWay, CopiesForeign, RowForeign, Foreign
<1>. QED BY <1>8, <1>9, <1>10 DEF OnWay

\* A row settles: what is hosted, if it is of the phone's words, is what the mirror takes.
LEMMA SettleRowOnWay ==
  ASSUME IInv, Alternates, OnWay, pass.pc # "idle",
         NEW mine \in SidesOver(Words), NEW landed \in SidesOver(Words), Phone!SettleRow(mine, landed),
         detours \subseteq detours',
         Homely(HeadTree.note) => HeadTree.note = landed,
         rows[1].op = "remove" => landed = Absent \/ "gaveWay" \in detours'
  PROVE  OnWay' /\ Alternates'
<1>1. /\ mirror' = landed /\ walk' = Phone!Stamped /\ pass' = Phone!Resting
      /\ UNCHANGED <<hosted, wrote>>
  BY DEF Phone!SettleRow, Phone!vault
<1>2. /\ Own' = Own /\ HeadTree' = HeadTree /\ rows # <<>> /\ pass'.pc = "idle"
      /\ walk'.listed => walk'.stamped
  <2>1. walk'.listed => walk'.stamped
    <3>1. walk \in WalksOver(Words)
      BY EverywhereTyped DEF Stored, PhoneOver
    <3>. QED BY <1>1, <3>1 DEF Phone!Stamped, WalksOver
  <2>. QED BY <1>1, <2>1, OwnStands DEF HeadTree, IInv, PhoneShape, Phone!Resting, Phone!Waits
<1>3. /\ rows[1] \in RowsOver(Words) /\ Phone!Foremost = rows[1]
      /\ rows[1].op = "text" <=> rows[1].content # Absent
      /\ rows \in Seq(RowsOver(Words)) /\ Len(rows) \in Nat /\ DOMAIN rows = 1 .. Len(rows)
  BY <1>2, FrontFacts
<1>4. MeetsForeign'
  BY <1>2 DEF MeetsForeign
<1>5. ASSUME Homely(HeadTree.note)' PROVE HeadTree'.note = landed /\ landed # Absent
  BY <1>2, <1>5, HomelyIsNote DEF Homely
<1>6. CASE rows' = Tail(rows)
  <2>1. Alternates' /\ CopiesForeign'
    BY <1>1, <1>2, <1>6, TailAlternates, TailForeign DEF OnWay
  <2>2. ASSUME Homely(HeadTree.note)', rows' # <<>> PROVE ~Counts(rows[1])'
    <3>1. /\ rows' \in Seq(RowsOver(Words))
          /\ \A i \in DOMAIN rows' : i + 1 \in DOMAIN rows /\ rows'[i] = rows[i + 1]
      BY <1>2, <1>3, <1>6, QueueFacts
    <3>2. 1 \in DOMAIN rows'
      BY <2>2, <3>1, LenProperties, EmptySeq
    <3>3. 2 \in DOMAIN rows /\ rows'[1] = rows[2]
      BY <3>1, <3>2
    <3>4. rows[2].op = "text" => rows[2].base = Absent /\ rows[1].op = "remove"
      <4>1. 2 > 1 /\ 2 - 1 = 1
        OBVIOUS
      <4>2. rows[2].op # rows[1].op /\ (rows[2].op = "text" => rows[2].base = Absent)
        BY <3>3, <4>1 DEF Alternates
      <4>. QED BY <1>3, <4>2 DEF RowsOver
    <3>. QED BY <1>5, <2>2, <3>3, <3>4 DEF Counts
  <2>3. KnowsHead'
    BY <1>1, <1>2, <1>5, <2>2 DEF KnowsHead
  <2>. QED BY <1>4, <2>1, <2>3 DEF OnWay
<1>7. CASE rows[1].op = "text" /\ rows' = Phone!WithFirst(Phone!Remainder(rows[1], mine, landed))
  <2>1. PICK r \in RowsOver(Words) : r = Phone!Remainder(rows[1], mine, landed)
    BY <1>3, <1>7, RowFacts
  <2>2. /\ r.op = "text" /\ r.settle = Phone!NoSettle
        /\ landed # Absent => r.base = landed
    <3>1. CASE landed = Absent
      BY <1>3, <1>7, <2>1, <3>1 DEF Phone!Remainder, RowsOver
    <3>2. CASE landed # Absent
      BY <2>1, <3>2 DEF Phone!Remainder, Phone!TextRow, Phone!Row
    <3>. QED BY <3>1, <3>2
  <2>3. r.settle.set.copies = {}
    BY <2>2 DEF Phone!NoSettle, Phone!Settle, Phone!NoSet, Phone!ChangeSet
  <2>4. rows'[1] = r /\ rows' # <<>>
    <3>1. rows'[1] = r /\ DOMAIN rows' = DOMAIN rows /\ 1 \in DOMAIN rows
      BY <1>2, <1>7, <2>1, FrontMade, FrontFacts
    <3>. QED BY <3>1
  <2>5. Alternates' /\ CopiesForeign'
    <3>1. RowForeign(r)'
      BY <2>3 DEF RowForeign
    <3>2. Alternates'
      BY <1>2, <1>7, <2>1, <2>2, FirstAlternates
    <3>. QED BY <1>1, <1>2, <1>7, <2>1, <3>1, <3>2, FirstForeign DEF OnWay
  <2>6. KnowsHead'
    <3>1. Homely(HeadTree.note)' => HeadTree'.note \in Expects(rows[1])'
      BY <1>5, <2>2, <2>4 DEF Expects
    <3>. QED BY <1>2, <2>4, <3>1 DEF KnowsHead
  <2>. QED BY <1>4, <2>5, <2>6 DEF OnWay
<1>. QED BY <1>3, <1>6, <1>7 DEF Phone!SettleRow

LEMMA LandedOnWay ==
  ASSUME IInv, PassKeeps, Alternates, OnWay, Phone!Landed
  PROVE  OnWay' /\ Alternates'
<1>1. /\ pass.pc = "committed" /\ detours' = detours
      /\ Phone!SettleRow(Phone!MineOf(pass.row), Phone!SetOf(pass.row).text)
  BY DEF Phone!Landed, Phone!PassAt
<1>2. pass.row \in RowsOver(Words) /\ rows # <<>>
  BY <1>1, EverywhereTyped DEF Stored, PhoneOver, PassesOver, PhoneShape
<1>3. Phone!MineOf(pass.row) \in SidesOver(Words) /\ Phone!SetOf(pass.row).text \in SidesOver(Words)
  BY <1>2, SentOver
<1>4. Homely(HeadTree.note) => HeadTree.note = Phone!SetOf(pass.row).text
  BY <1>1 DEF OnWay, KnowsHead
<1>5. rows[1].op = "remove" => Phone!SetOf(pass.row).text = Absent
  <2>1. 1 \in DOMAIN rows /\ pass.row.settle = rows[1].settle
    BY <1>1, <1>2, FrontFacts DEF PassKeeps
  <2>2. rows[1].op = "remove" => pass.row.settle.set.text = Absent
    BY <2>1 DEF Alternates
  <2>. QED BY <2>2 DEF Phone!SetOf, Phone!ChangeSet
<1>. QED BY <1>1, <1>3, <1>4, <1>5, SettleRowOnWay

LEMMA ResolvedLocallyOnWay ==
  ASSUME IInv, PassKeeps, Alternates, OnWay, Phone!ResolvedLocally
  PROVE  OnWay' /\ Alternates'
<1>1. /\ pass.pc = "conflict" /\ Phone!SettleRow(pass.row.content, pass.seen)
      /\ IF pass.row.op = "remove" THEN Phone!Takes("gaveWay") ELSE UNCHANGED detours
  BY DEF Phone!ResolvedLocally, Phone!PassAt
<1>2. pass.row.content \in SidesOver(Words) /\ pass.seen \in SidesOver(Words)
  BY EverywhereTyped, SentOver DEF Stored, PhoneOver, PassesOver
<1>3. /\ detours \subseteq detours'
      /\ rows[1].op = "remove" => "gaveWay" \in detours'
  BY <1>1 DEF Phone!Takes, PassKeeps
<1>4. Homely(HeadTree.note) => HeadTree.note = pass.seen
  BY <1>1 DEF OnWay, KnowsHead
<1>. QED BY <1>1, <1>2, <1>3, <1>4, SettleRowOnWay

\* What a verdict copies is the version it met.
LEMMA ResolvedToSendOnWay ==
  ASSUME IInv, PassKeeps, PassReads, Alternates, OnWay, Phone!ResolvedToSend
  PROVE  OnWay' /\ Alternates'
<1> DEFINE v == Phone!VerdictOn(pass.row, pass.seen)
           settle == Phone!Resolution(pass.row, pass.seen)
<1>1. /\ pass.pc = "conflict" /\ v.stays # pass.seen
      /\ rows' = Phone!WithFirst([Phone!Foremost EXCEPT !.settle = settle])
      /\ pass' = Phone!Resting
      /\ UNCHANGED <<hosted, wrote, mirror, walk, detours>>
  BY DEF Phone!ResolvedToSend, Phone!PassAt, Phone!vault
<1>2. /\ Own' = Own /\ HeadTree' = HeadTree /\ rows # <<>> /\ pass'.pc = "idle"
  BY <1>1, OwnStands DEF HeadTree, IInv, PhoneShape, Phone!Resting, Phone!Waits
<1>3. /\ rows[1] \in RowsOver(Words) /\ Phone!Foremost = rows[1] /\ pass.row \in RowsOver(Words)
      /\ rows[1].op \in {"text", "remove"} /\ (pass.row.op = "remove" => pass.row.content = Absent)
      /\ pass.seen \in SidesOver(AllWords) /\ pass.seen \in SidesOver(Words)
      /\ pass.row.op = rows[1].op /\ pass.row.base = rows[1].base
  <2>1. rows[1] \in RowsOver(Words) /\ Phone!Foremost = rows[1]
    BY <1>2, FrontFacts
  <2>2. pass.row \in RowsOver(Words) /\ pass.seen \in SidesOver(Words)
    BY EverywhereTyped DEF Stored, PhoneOver, PassesOver
  <2>3. pass.seen \in SidesOver(AllWords)
    BY AllTyped DEF Stored, PhoneOver, PassesOver
  <2>. QED BY <1>1, <2>1, <2>2, <2>3 DEF PassKeeps, PassReads, RowsOver
<1>4. settle \in SettlesOver(Words)
  BY <1>3, ResolutionOver
<1>5. /\ settle.set.base = pass.seen /\ settle.set.text = v.stays
      /\ settle.set.copies = {v.copy} \ {Absent}
  BY DEF Phone!Resolution, Phone!Settle, Phone!ChangeSet
<1>6. pass.row.content = Absent => settle.set.text = Absent /\ settle.set.copies = {}
  BY <1>1, RemoveResolves
<1>7. v.copy \in {pass.seen, Absent}
  BY <1>3, VerdictMakesNone, PhoneNotions DEF Phone!VerdictOn, RowsOver
<1>. HIDE DEF v, settle
<1>8. PICK r \in RowsOver(Words) : r = [rows[1] EXCEPT !.settle = settle]
  BY <1>3, <1>4 DEF RowsOver
<1>9. r.op = rows[1].op /\ r.base = rows[1].base /\ r.settle = settle
  BY <1>3, <1>8 DEF RowsOver
<1>10. rows' = Phone!WithFirst(r) /\ rows'[1] = r /\ rows' # <<>>
  <2>1. rows' = Phone!WithFirst(r)
    BY <1>1, <1>3, <1>8
  <2>2. rows'[1] = r /\ DOMAIN rows' = DOMAIN rows /\ 1 \in DOMAIN rows
    BY <1>2, <2>1, FrontMade, FrontFacts
  <2>. QED BY <2>1, <2>2
<1>11. Alternates'
  BY <1>2, <1>3, <1>6, <1>9, <1>10, FirstAlternates
<1>12. RowForeign(r)'
  <2>1. SUFFICES ASSUME NEW copy \in settle.set.copies
                 PROVE  (\E l \in Lines : Foreign(copy[l])') \/ (r.base = Absent /\ "gaveWay" \in detours')
    BY <1>9 DEF RowForeign
  <2>2. copy = pass.seen /\ copy # Absent /\ pass.row.op = "text"
    BY <1>3, <1>5, <1>6, <1>7
  <2>3. CASE Counts(pass.row)
    <3>1. ~Homely(pass.seen)
      BY <1>1, <2>3 DEF OnWay, MeetsForeign
    <3>2. copy \in TextsOver(AllWords)
      BY <1>3, <2>2 DEF SidesOver
    <3>3. \E l \in Lines : Foreign(copy[l])
      BY <2>2, <3>1, <3>2 DEF Homely, Own, AllWords, TextsOver
    <3>. QED BY <1>1, <3>3 DEF Foreign
  <2>4. CASE ~Counts(pass.row)
    BY <1>1, <1>3, <1>9, <2>2, <2>4 DEF Counts
  <2>. QED BY <2>3, <2>4
<1>13. CopiesForeign'
  BY <1>1, <1>2, <1>10, <1>12, FirstForeign DEF OnWay
<1>14. KnowsHead'
  <2>1. Homely(HeadTree.note) => HeadTree.note = settle.set.base
    BY <1>1, <1>5 DEF OnWay, KnowsHead
  <2>2. settle # Phone!NoSettle \/ Expects(r) = {r.base}
    BY <1>9 DEF Expects
  <2>3. settle = Phone!NoSettle => r.settle.set.base = Absent
    BY <1>9 DEF Phone!NoSettle, Phone!Settle, Phone!NoSet, Phone!ChangeSet
  <2>4. Homely(HeadTree.note) => HeadTree.note \in Expects(r)
    BY <1>9, <2>1, <2>3, HomelyIsNote DEF Expects
  <2>5. Homely(HeadTree.note)' => HeadTree'.note \in Expects(rows[1])'
    BY <1>2, <1>10, <2>4 DEF Homely, Expects
  <2>. QED BY <1>2, <1>10, <2>5 DEF KnowsHead
<1>15. MeetsForeign'
  BY <1>2 DEF MeetsForeign
<1>. QED BY <1>11, <1>13, <1>14, <1>15 DEF OnWay

\* What another device wrote of a copy stays its own, whoever writes next.
LEMMA RowForeignStands ==
  ASSUME IInv, NEW row \in RowsOver(AllWords), RowForeign(row),
         \A w \in AllWords : wrote'[w] = wrote[w], detours \subseteq detours'
  PROVE  RowForeign(row)'
<1>. SUFFICES ASSUME NEW copy \in row.settle.set.copies
     PROVE  (\E l \in Lines : Foreign(copy[l])') \/ (row.base = Absent /\ "gaveWay" \in detours')
  BY DEF RowForeign
<1>1. copy \in TextsOver(AllWords)
  BY DEF RowsOver, SettlesOver, SetsOver
<1>2. \A l \in Lines : copy[l] \in AllWords
  BY <1>1 DEF TextsOver
<1>3. \A l \in Lines : Foreign(copy[l]) => Foreign(copy[l])'
  BY <1>2 DEF Foreign
<1>. QED BY <1>3 DEF RowForeign

LEMMA CopiesForeignStand ==
  ASSUME IInv, CopiesForeign, rows' = rows, detours \subseteq detours',
         \A w \in AllWords : wrote'[w] = wrote[w]
  PROVE  CopiesForeign'
<1>1. ASSUME NEW i \in DOMAIN rows PROVE RowForeign(rows[i])'
  <2>1. rows \in Seq(RowsOver(AllWords)) /\ DOMAIN rows = 1 .. Len(rows)
    BY AllTyped, LenProperties DEF Stored, PhoneOver
  <2>2. PICK row \in RowsOver(AllWords) : row = rows[i]
    BY <1>1, <2>1
  <2>3. RowForeign(row)
    BY <1>1, <2>2 DEF CopiesForeign
  <2>4. RowForeign(row)'
    BY <2>3, RowForeignStands
  <2>. QED BY <2>2, <2>4 DEF RowForeign
<1>. QED BY <1>1 DEF CopiesForeign

\* The steps that leave the rows alone: a listing, what a refresh makes of it, and a pass that
\* gives up.
LEMMA ListingOnWay ==
  ASSUME IInv, OnWay, Phone!List \/ Phone!ApplyTree \/ Phone!GivesUp
  PROVE  OnWay'
<1>1. UNCHANGED <<hosted, wrote, rows, detours>>
  BY DEF Phone!List, Phone!ApplyTree, Phone!GivesUp, Phone!vault, Phone!queue
<1>2. Own' = Own /\ HeadTree' = HeadTree
  BY <1>1, OwnStands DEF HeadTree
<1>3. pass' = pass \/ pass'.pc = "idle"
  BY DEF Phone!List, Phone!ApplyTree, Phone!GivesUp, Phone!queue, Phone!Resting, Phone!Waits
<1>4. ASSUME Homely(HeadTree.note), rows = <<>>
      PROVE  mirror' = HeadTree.note /\ (walk'.listed /\ ~walk'.stamped => walk'.seen = HeadTree.note)
  BY <1>4, PhoneNotions DEF OnWay, KnowsHead, Phone!List, Phone!ApplyTree, Phone!GivesUp, Phone!NoWalk
<1>5. KnowsHead'
  <2>1. Homely(HeadTree.note)' => Homely(HeadTree.note)
    BY <1>2 DEF Homely
  <2>2. ASSUME Homely(HeadTree.note), rows # <<>>, Counts(rows[1])
        PROVE  HeadTree.note \in Expects(rows[1])
    BY <2>2 DEF OnWay, KnowsHead
  <2>3. ASSUME Homely(HeadTree.note)
        PROVE  /\ pass'.pc \in {"asked", "conflict"} => pass'.seen = HeadTree.note
               /\ pass'.pc = "committed" => HeadTree.note = Phone!SetOf(pass'.row).text
    BY <1>3, <2>3 DEF OnWay, KnowsHead
  <2>. QED BY <1>1, <1>2, <1>4, <2>1, <2>2, <2>3 DEF KnowsHead, Counts, Expects
<1>6. MeetsForeign'
  BY <1>1, <1>2, <1>3 DEF OnWay, MeetsForeign, Counts, Homely
<1>7. CopiesForeign'
  BY <1>1, CopiesForeignStand DEF OnWay
<1>. QED BY <1>5, <1>6, <1>7 DEF OnWay

\* The person writes: the front row is as it was, or starts from the mirror.
LEMMA WritesOnWay ==
  ASSUME IInv, OnWay, Phone!Writes
  PROVE  OnWay'
<1>1. PICK after \in EditsOf(Phone!Shown) :
        /\ Phone!Edits("phone", Phone!Shown, after) /\ rows' = Phone!Enqueued(after)
        /\ UNCHANGED <<hosted, mirror, pass, walk, detours>>
  BY PhoneNotions DEF Phone!Writes
<1>2. /\ Own' = Own \cup {Word} /\ Word \notin AllWords
      /\ \A w \in AllWords : wrote'[w] = wrote[w]
  BY <1>1, OwnOfEdit
<1>3. /\ rows \in Seq(RowsOver(AllWords)) /\ Len(rows) \in Nat /\ DOMAIN rows = 1 .. Len(rows)
      /\ pass.seen \in SidesOver(AllWords) /\ HeadTree.note \in SidesOver(AllWords)
  BY AllTyped, HeadTreeOver, LenProperties DEF Stored, PhoneOver, PassesOver
<1>4. HeadTree' = HeadTree
  BY <1>1 DEF HeadTree
<1>5. (Homely(HeadTree.note)' => Homely(HeadTree.note)) /\ (Homely(pass.seen)' => Homely(pass.seen))
  <2>1. ASSUME NEW side \in SidesOver(AllWords), side \in TextsOver(Own \cup {Word})
        PROVE  side \in TextsOver(Own)
    <3>1. side \in TextsOver(AllWords)
      <4>1. Own \cup {Word} \in SUBSET Words
        BY AllTyped DEF Word, Words
      <4>2. side # Absent
        BY <2>1, <4>1, TextsAreNotAbsent
      <4>. QED BY <2>1, <4>2 DEF SidesOver
    <3>. QED BY <1>2, <2>1, <3>1 DEF TextsOver
  <2>. QED BY <1>1, <1>2, <1>3, <1>4, <2>1 DEF Homely
\* The rows that were there keep what they send, and a new one sends nothing yet.
<1>6. /\ rows' # <<>> /\ DOMAIN rows \subseteq DOMAIN rows'
      /\ \A i \in DOMAIN rows : rows'[i].op = rows[i].op /\ rows'[i].base = rows[i].base
                                /\ rows'[i].settle = rows[i].settle
      /\ \A i \in DOMAIN rows' \ DOMAIN rows : rows'[i].settle = Phone!NoSettle
      /\ rows = <<>> => rows'[1].settle = Phone!NoSettle /\ rows'[1].base = mirror
  <2>1. CASE after # Absent /\ rows # <<>> /\ rows[Len(rows)].op = "text"
    <3>1. PICK last \in RowsOver(AllWords) : last = rows[Len(rows)] /\ Len(rows) \in DOMAIN rows
      BY <1>3, <2>1, EmptySeq
    <3>2. PICK r : r = [last EXCEPT !.content = after]
      OBVIOUS
    <3>3. r.op = last.op /\ r.base = last.base /\ r.settle = last.settle
      BY <3>2 DEF RowsOver
    <3>4. rows' = [rows EXCEPT ![Len(rows)] = r]
      BY <1>1, <2>1, <3>1, <3>2 DEF Phone!Enqueued, Phone!WithLast
    <3>5. /\ DOMAIN rows' = DOMAIN rows
          /\ \A i \in DOMAIN rows : rows'[i] = IF i = Len(rows) THEN r ELSE rows[i]
      BY <3>1, <3>4
    <3>6. rows' # <<>>
      <4>1. DOMAIN <<>> = {}
        OBVIOUS
      <4>. QED BY <3>1, <3>5, <4>1
    <3>. QED BY <2>1, <3>1, <3>3, <3>5, <3>6
  <2>2. CASE ~(after # Absent /\ rows # <<>> /\ rows[Len(rows)].op = "text")
    <3>1. PICK r : r = IF after = Absent THEN Phone!RemoveRow(Phone!Shown)
                       ELSE Phone!TextRow(Phone!Shown, after)
      OBVIOUS
    <3>2. r.base = Phone!Shown /\ r.settle = Phone!NoSettle
      BY <3>1 DEF Phone!RemoveRow, Phone!TextRow, Phone!Row
    <3>3. rows' = Append(rows, r)
      BY <1>1, <2>2, <3>1 DEF Phone!Enqueued
    <3>4. /\ DOMAIN rows' = 1 .. Len(rows) + 1 /\ rows'[Len(rows) + 1] = r
          /\ \A i \in 1 .. Len(rows) : rows'[i] = rows[i]
      BY <1>3, <3>3
    <3>5. rows = <<>> => rows'[1] = r /\ r.base = mirror
      BY <3>2, <3>4 DEF Phone!Shown
    <3>6. rows' # <<>>
      <4>1. DOMAIN <<>> = {}
        OBVIOUS
      <4>. QED BY <1>3, <3>4, <4>1
    <3>7. \A i \in DOMAIN rows' \ DOMAIN rows : rows'[i] = r
      BY <1>3, <3>4
    <3>. QED BY <1>3, <3>2, <3>4, <3>5, <3>6, <3>7
  <2>. QED BY <2>1, <2>2
<1>7. KnowsHead'
  <2>1. CASE rows = <<>>
    <3>1. Homely(HeadTree.note) => HeadTree.note = rows'[1].base
      BY <1>6, <2>1 DEF OnWay, KnowsHead
    <3>2. Expects(rows[1])' = {rows'[1].base}
      BY <1>6, <2>1 DEF Expects
    <3>. QED BY <1>1, <1>4, <1>5, <1>6, <3>1, <3>2 DEF OnWay, KnowsHead
  <2>2. CASE rows # <<>>
    <3>1. 1 \in DOMAIN rows
      BY <2>2, FrontFacts
    <3>2. Expects(rows[1])' = Expects(rows[1]) /\ (Counts(rows[1])' => Counts(rows[1]))
      BY <1>1, <1>6, <3>1 DEF Expects, Counts
    <3>. QED BY <1>1, <1>4, <1>5, <1>6, <2>2, <3>2 DEF OnWay, KnowsHead
  <2>. QED BY <2>1, <2>2
<1>8. MeetsForeign'
  <2>1. Counts(pass.row)' => Counts(pass.row)
    BY <1>1 DEF Counts
  <2>. QED BY <1>1, <1>5, <2>1 DEF OnWay, MeetsForeign
<1>9. CopiesForeign'
  <2>1. ASSUME NEW i \in DOMAIN rows' PROVE RowForeign(rows[i])'
    <3>1. CASE i \in DOMAIN rows
      <4>1. PICK row \in RowsOver(AllWords) : row = rows[i]
        BY <1>3, <3>1
      <4>2. RowForeign(row)
        BY <3>1, <4>1 DEF OnWay, CopiesForeign
      <4>3. RowForeign(row)'
        BY <1>1, <1>2, <4>2, RowForeignStands
      <4>4. rows'[i].settle = row.settle /\ rows'[i].base = row.base
        BY <1>6, <3>1, <4>1
      <4>. QED BY <4>3, <4>4 DEF RowForeign
    <3>2. CASE i \notin DOMAIN rows
      <4>1. rows'[i].settle = Phone!NoSettle
        BY <1>6, <2>1, <3>2
      <4>2. rows'[i].settle.set.copies = {}
        BY <4>1 DEF Phone!NoSettle, Phone!Settle, Phone!NoSet, Phone!ChangeSet
      <4>. QED BY <4>2 DEF RowForeign
    <3>. QED BY <3>1, <3>2
  <2>. QED BY <2>1 DEF CopiesForeign
<1>. QED BY <1>7, <1>8, <1>9 DEF OnWay

\* The Mac's steps: where the hosted note is still of the phone's words, it is the one it was.
LEMMA MacOnWay ==
  ASSUME IInv, Apart, OnWay, UNCHANGED ofPhone, Mac!Next
  PROVE  OnWay'
<1>1. UNCHANGED <<mirror, rows, pass, walk, detours>>
  BY DEF ofPhone
<1>2. Own' = Own /\ (HeadTree'.note \in {Absent, HeadTree.note} \/ ~Homely(HeadTree'.note))
  BY PushedNote
<1>3. Homely(HeadTree.note)' => HeadTree'.note = HeadTree.note /\ Homely(HeadTree.note)
  <2>1. Homely(HeadTree.note)' => Homely(HeadTree'.note)
    BY <1>2 DEF Homely
  <2>2. Homely(HeadTree'.note) => HeadTree'.note # Absent
    BY HomelyIsNote
  <2>. QED BY <1>2, <2>1, <2>2
<1>4. \A w \in AllWords : wrote'[w] = wrote[w]
  <2>1. CASE Mac!UserWrites \/ Mac!AgentWrites
    <3>1. PICK who \in {"user", "agent"} : Mac!Writes(who)
      BY <2>1 DEF Mac!UserWrites, Mac!AgentWrites
    <3>2. PICK after : Mac!Edits(who, work.note, after)
      BY <3>1 DEF Mac!Writes
    <3>. QED BY <3>2, OwnOfEdit
  <2>2. CASE Mac!Pushes
    BY <2>2 DEF Mac!Pushes
  <2>3. CASE ~(Mac!UserWrites \/ Mac!AgentWrites \/ Mac!Pushes)
    <3>1. /\ TreeSteps \/ QuietSteps \/ Mac!TurnHolds \/ Mac!TurnReady \/ Mac!TurnEnds \/ Mac!Dies
      BY <2>3 DEF Mac!Next, Mac!TurnSteps, Mac!Pass, TreeSteps, QuietSteps
    <3>. QED BY <3>1, OtherSteps DEF IInv
  <2>. QED BY <2>1, <2>2, <2>3
<1>5. KnowsHead'
  <2>1. Counts(rows[1])' = Counts(rows[1]) /\ Expects(rows[1])' = Expects(rows[1])
    BY <1>1 DEF Counts, Expects
  <2>. QED BY <1>1, <1>3, <2>1 DEF OnWay, KnowsHead
<1>6. MeetsForeign'
  BY <1>1, <1>2 DEF OnWay, MeetsForeign, Counts, Homely
<1>7. CopiesForeign'
  BY <1>1, <1>4, CopiesForeignStand DEF OnWay
<1>. QED BY <1>5, <1>6, <1>7 DEF OnWay

-----------------------------------------------------------------------------
\* While no set the pass gave up on has landed.
OnCourse == PassReads /\ ("ranLate" \notin detours => Alternates /\ OnWay)

LEMMA OnCourseAtFirst == Init => OnCourse
<1>. SUFFICES ASSUME Init PROVE OnCourse
  OBVIOUS
<1>1. /\ rows = <<>> /\ pass = Phone!Resting /\ walk = Phone!NoWalk /\ mirror = HeadTree.note
  BY PhoneNotions DEF Init, Phone!Init
<1>2. pass.pc = "idle" /\ pass.row.content = Absent /\ ~walk.listed
  BY <1>1 DEF Phone!Resting, Phone!Waits, Phone!NoRow, Phone!RemoveRow, Phone!Row, Phone!NoWalk
<1>3. DOMAIN rows = {}
  BY <1>1
<1>. QED BY <1>1, <1>2, <1>3 DEF OnCourse, Alternates, PassReads, OnWay, KnowsHead, MeetsForeign,
       CopiesForeign

LEMMA OnCourseHolds == IInv /\ PassKeeps /\ Apart /\ OnCourse /\ [Next]_vars => OnCourse'
<1>. SUFFICES ASSUME IInv, PassKeeps, Apart, OnCourse, [Next]_vars PROVE OnCourse'
  OBVIOUS
<1>0. PassReads /\ ("ranLate" \notin detours => Alternates /\ OnWay)
  BY DEF OnCourse
<1>1. CASE PhoneSteps
  <2>0. Phone!Next
    BY <1>1 DEF PhoneSteps
  <2>1. PassReads'
    BY <1>0, <2>0, PassReadsOn
  <2>2. CASE Phone!Writes
    <3>1. detours' = detours
      BY <2>2 DEF Phone!Writes
    <3>. QED BY <1>0, <2>1, <2>2, <3>1, EnqueuedAlternates, WritesOnWay DEF OnCourse
  <2>3. CASE Phone!List \/ Phone!ApplyTree \/ Phone!GivesUp \/ Phone!VaultRuns
    <3>1. rows' = rows /\ detours' = detours
      BY <2>3 DEF Phone!List, Phone!ApplyTree, Phone!GivesUp, Phone!VaultRuns, Phone!queue
    <3>2. Alternates => Alternates'
      BY <3>1 DEF Alternates
    <3>. QED BY <1>0, <2>1, <2>3, <3>1, <3>2, ListingOnWay, VaultRunsOnWay DEF OnCourse
  <2>4. CASE Phone!RunsLate
    <3>1. "ranLate" \in detours'
      BY <2>4 DEF Phone!RunsLate, Phone!Takes
    <3>. QED BY <2>1, <3>1 DEF OnCourse
  <2>5. CASE Phone!SendPinned \/ Phone!AskHead \/ Phone!Repin \/ Phone!Resend
    <3>1. detours' = detours
      BY <2>5 DEF Phone!SendPinned, Phone!AskHead, Phone!Repin, Phone!Resend
    <3>. QED BY <1>0, <2>1, <2>5, <3>1, SendingOnWay DEF OnCourse
  <2>6. CASE Phone!Landed \/ Phone!ResolvedLocally \/ Phone!ResolvedToSend
    <3>1. detours \subseteq detours'
      BY <2>6 DEF Phone!Landed, Phone!ResolvedLocally, Phone!ResolvedToSend, Phone!Takes
    <3>. QED BY <1>0, <2>1, <2>6, <3>1, LandedOnWay, ResolvedLocallyOnWay, ResolvedToSendOnWay
         DEF OnCourse
  <2>. QED BY <2>0, <2>2, <2>3, <2>4, <2>5, <2>6 DEF Phone!Next, Phone!Pass
<1>2. CASE MacSteps
  <2>1. UNCHANGED <<rows, pass, detours>> /\ UNCHANGED ofPhone /\ Mac!Next
    BY <1>2 DEF MacSteps, ofPhone
  <2>2. PassReads' /\ (Alternates => Alternates')
    BY <1>0, <2>1 DEF Alternates, PassReads
  <2>. QED BY <1>0, <2>1, <2>2, MacOnWay DEF OnCourse
<1>3. CASE UNCHANGED vars
  <2>1. UNCHANGED <<hosted, wrote, mirror, rows, pass, walk, detours>>
    BY <1>3 DEF vars, ofPhone
  <2>2. Own' = Own /\ HeadTree' = HeadTree
    BY <2>1, OwnStands DEF HeadTree
  <2>. QED BY <1>0, <2>1, <2>2 DEF OnCourse, Alternates, PassReads, OnWay, KnowsHead, MeetsForeign,
         CopiesForeign, RowForeign, Foreign, Counts, Expects, Homely
<1>. QED BY <1>1, <1>2, <1>3 DEF Next

\* As long as no request the phone had given up on has run late, every copy it leaves beside the note
\* holds a word of another device, unless the note was written again behind a delete that gave way:
\* asking about the head before a set written past goes out again keeps its own text from meeting
\* itself (vault-outbox.ts, repinUnlanded).
THEOREM NoCopyOfItsOwn == Spec => []NoSelfCopy
<1>1. OnCourse => NoSelfCopy
  BY DEF OnCourse, OnWay, CopiesForeign, RowForeign, NoSelfCopy, CopiesAreForeign
<1>2. NothingGoes => PassKeeps
  BY DEF NothingGoes, PhoneKeeps
<1>3. IInv /\ NothingGoes /\ Apart /\ OnCourse /\ [Next]_vars => Apart' /\ OnCourse'
  BY <1>2, ApartHolds, OnCourseHolds
<1>. QED BY <1>1, <1>3, ApartAtFirst, OnCourseAtFirst, InvariantHolds, WordsAreKept, PTL DEF Spec
=============================================================================
