---------------------------- MODULE MessageLine ----------------------------
(***************************************************************************)
(* What a thread promises the person who writes to it: the messages stand  *)
(* in one line, each becomes a turn's request exactly once and in the      *)
(* order it joined, one turn at a time, and none does once the thread is   *)
(* archived.  ThreadTurns implements it.                                   *)
(***************************************************************************)
EXTENDS Naturals, Sequences

CONSTANT Messages

VARIABLES
  waiting, \* the messages in line
  sent,    \* the messages that became a turn's request, in that order
  busy,    \* a turn is preparing, running or stopping
  closed   \* the thread is archived

vars == <<waiting, sent, busy, closed>>

SeenIn(s) == {s[i] : i \in DOMAIN s}

Init == waiting = <<>> /\ sent = <<>> /\ busy = FALSE /\ closed = FALSE

New(m) == ~closed /\ m \notin SeenIn(waiting) /\ m \notin SeenIn(sent)

\* A message joins the line.
Join(m) ==
  /\ New(m)
  /\ waiting' = Append(waiting, m)
  /\ UNCHANGED <<sent, busy, closed>>

\* The head of the line becomes a turn's request.
Advance ==
  /\ ~closed /\ ~busy /\ waiting # <<>>
  /\ sent' = Append(sent, Head(waiting))
  /\ waiting' = Tail(waiting)
  /\ busy' = TRUE
  /\ UNCHANGED closed

\* A message that finds nobody in line and no turn becomes a request at once.
PassThrough(m) ==
  /\ New(m) /\ ~busy /\ waiting = <<>>
  /\ sent' = Append(sent, m)
  /\ busy' = TRUE
  /\ UNCHANGED <<waiting, closed>>

\* A turn runs that no message in this line asked for: another device started it.
Occupy ==
  /\ ~closed /\ busy' = TRUE
  /\ UNCHANGED <<waiting, sent, closed>>

Vacate ==
  /\ busy' = FALSE
  /\ UNCHANGED <<waiting, sent, closed>>

Close ==
  /\ closed' = TRUE
  /\ UNCHANGED <<waiting, sent, busy>>

Next ==
  \/ \E m \in Messages : Join(m) \/ PassThrough(m)
  \/ Advance \/ Occupy \/ Vacate \/ Close

Spec == Init /\ [][Next]_vars
=============================================================================
