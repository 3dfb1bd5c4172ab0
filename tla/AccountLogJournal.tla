-------------------------- MODULE AccountLogJournal --------------------------
(* AccountLog as the AccountJournal it implements. *)
EXTENDS AccountLog

RowAt(k) == CHOOSE r \in rows : r.seq = k

\* The rows in the order of their seqs, without the seqs.
Log == [k \in 1 .. lastSeq |->
          [device |-> RowAt(k).device, pos |-> RowAt(k).pos, event |-> RowAt(k).event]]

Journal == INSTANCE AccountJournal WITH log <- Log, closed <- purged

\* However pushes were repeated, reordered or delayed, and whatever they were refused for, a
\* reader of the log sees a journal: each device's events in its own order, none rewritten, all
\* gone when the account is deleted and none after.
ImplementsJournal == Journal!Spec
=============================================================================
