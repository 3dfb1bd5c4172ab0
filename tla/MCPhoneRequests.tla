--------------------------- MODULE MCPhoneRequests ---------------------------
(* A phone and its Macs for TLC: a turn and a capture that either of two Macs may take, or a turn *)
(* and an answer to what the one Mac asks in it, once or twice.                                   *)
EXTENDS PhoneRequests

CONSTANTS mac, other

TwoMacs == {mac, other}
OneMac  == {mac}

asked    == [name |-> "asked", from |-> mac]
Asked    == {asked}
TwoAsked == {asked, [name |-> "asked again", from |-> mac]}

Asking(name, kind) == [name |-> name, kind |-> kind, from |-> phone, approval |-> asked,
                       offered |-> TRUE, readable |-> TRUE]
ATurn          == {Asking("turn", "turn")}
TurnAndAnswer  == ATurn \union {Asking("yes", "answer")}
TurnAndCapture == ATurn \union {Asking("capture", "capture")}
=============================================================================
