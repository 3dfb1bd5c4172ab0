----------------------------- MODULE MCAccountLog -----------------------------
(* A small instance of AccountLog, and the journal it implements. *)
EXTENDS AccountLogJournal, TLC

\* Devices and bodies are interchangeable.
Symmetry == Permutations(Devices) \union Permutations(Bodies)
=============================================================================
