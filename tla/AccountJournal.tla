---------------------------- MODULE AccountJournal ----------------------------
(***************************************************************************)
(* What the account's thread log promises, without seqs, tables or         *)
(* batches: a journal that each device appends to in the order of its own  *)
(* positions, that nobody rewrites, and that is closed, empty, once.       *)
(* AccountLog implements it.                                               *)
(***************************************************************************)
EXTENDS Naturals, Sequences

CONSTANTS Devices, Positions, Bodies

VARIABLES
  log,    \* the events of the account, in the order every device reads them
  closed  \* the account was deleted

Record == [device : Devices, pos : Positions, event : Bodies]

Init == log = <<>> /\ closed = FALSE

\* A device adds what it numbered after everything the journal holds of it.
Write(d) ==
  LET old == log
      new == log'
  IN  /\ ~closed
      /\ Len(new) > Len(old)
      /\ \A k \in 1 .. Len(old) : new[k] = old[k]
      /\ \A k \in Len(old) + 1 .. Len(new) :
           /\ new[k] \in Record
           /\ new[k].device = d
           /\ \A j \in 1 .. k - 1 : new[j].device = d => new[j].pos < new[k].pos
      /\ UNCHANGED closed

Close ==
  /\ ~closed
  /\ closed' = TRUE
  /\ log' = <<>>

Next == Close \/ \E d \in Devices : Write(d)

Spec == Init /\ [][Next]_<<log, closed>>
=============================================================================
