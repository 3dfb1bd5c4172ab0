----------------------------- MODULE MCThreadSync -----------------------------
(* Small instances of ThreadSync: the installs are interchangeable. *)
EXTENDS ThreadSync, TLC

Symmetry == Permutations(Installs)
=============================================================================
