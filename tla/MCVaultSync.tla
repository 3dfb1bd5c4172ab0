---------------------------- MODULE MCVaultSync ----------------------------
EXTENDS VaultSync, TLC

\* How often each may act, in the order of Kinds.
Scene(phone, lost, user, turns, agent, ask, fails, dies) ==
  [phone |-> phone, lost |-> lost, user |-> user, turn |-> turns, agent |-> agent,
   ask |-> ask, fails |-> fails, dies |-> dies]

MCScenes ==
  { Scene(2, 1, 1, 0, 0, 0, 0, 0),  \* the phone writes on past a lost answer and another device
    Scene(1, 0, 1, 0, 0, 1, 1, 1),  \* passes that are joined, fail and are cut by a crash
    Scene(1, 0, 1, 1, 1, 0, 0, 0),  \* a turn beside a person, and a pass
    Scene(1, 0, 0, 2, 1, 0, 0, 1) } \* turns, one of them cut

Symmetry == Permutations(Lines)
=============================================================================
