--------------------------- MODULE MCDispatchInbox ---------------------------
(* A phone and two Macs for TLC: a turn, and three answers to what one Mac asks: one that is      *)
(* offered, one no later build can read, and one its approval does not offer.                     *)
EXTENDS DispatchInbox

CONSTANTS phone, mac, other

MCDevices   == {phone, mac, other}
asked       == [name |-> "asked", from |-> mac]
MCApprovals == {asked}

Ask(name, kind) == [name |-> name, kind |-> kind, from |-> phone, approval |-> asked,
                    offered |-> name # "always", readable |-> name # "deny"]
MCRequests == {Ask("turn", "turn")} \union {Ask(n, "answer") : n \in {"allow", "deny", "always"}}
=============================================================================
