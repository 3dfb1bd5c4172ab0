---------------------------- MODULE HostedVault ----------------------------
(***************************************************************************)
(* The account's hosted vault, as the two ways into it see it: the commit  *)
(* endpoint of the phones (apps/web/src/worker/vault/plan-change-set.ts,   *)
(* commit-changes.ts) and a Mac's push.  Both land on the head they were   *)
(* made for or not at all, so the history is a line.                       *)
(***************************************************************************)
EXTENDS Notes, Sequences

VARIABLES
  hosted,     \* the trees the branch held, oldest first; a commit is named by its position
  wrote,      \* history: what people and agents did, oldest first; a word is named by its position
  superseded, \* history: the words, each at its line, that somebody replaced who had read them
  left        \* bound: how often each may still act, see VaultSync

vault == <<hosted, wrote, superseded>>

HeadTree == hosted[Len(hosted)]

\* A change set: put text, or delete where text is Absent, at a path that holds base; and the
\* copies that go in with it.  Names of copies are free names, so their puts never conflict.
ChangeSet(base, text, copies) == [base |-> base, text |-> text, copies |-> copies]
ChangeSets == [base : Sides, text : Sides, copies : SUBSET Text]
NoSet == ChangeSet(Absent, Absent, {})

\* classifyPut, classifyDelete: what the path holds already satisfies the change, what it held is
\* changed, and anything else conflicts.
Conflicts(set) == HeadTree.note \notin {set.base, set.text}

Applied(set) == Tree(set.text, HeadTree.copies \cup set.copies)

\* commitChanges: all of a set that does not conflict, in one commit unless the head holds it.
CommitChanges(set) ==
  hosted' = IF Conflicts(set) \/ Applied(set) = HeadTree
            THEN hosted ELSE Append(hosted, Applied(set))

\* A word that is new, and what somebody may make of the note they read: one line changed, the note
\* deleted, or a note where there was none.
Word == Len(wrote) + 1
EditsOf(side) ==
  IF side = Absent THEN {[l \in Lines |-> Word]}
  ELSE {Absent} \cup {Edited(side, l, Word) : l \in Lines}

Spends(what) == left[what] > 0 /\ left' = [left EXCEPT ![what] = @ - 1]

\* They replace what they read there.
Edits(who, side, after) ==
  /\ Spends(who)
  /\ wrote' = Append(wrote, [by |-> who, on |-> {l \in Lines : At(after, l) = Word}])
  /\ superseded' = superseded \cup (Pairs(side) \ Pairs(after))
=============================================================================
