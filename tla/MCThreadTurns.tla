--------------------------- MODULE MCThreadTurns ---------------------------
(* One message typed here, one a phone sent, and a turn another device may start: two in line are
   enough for one to be overtaken. *)
EXTENDS ThreadTurns
=============================================================================
