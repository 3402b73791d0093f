----------------------------- MODULE Transport -----------------------------
(***************************************************************************)
(* What a transport promises the controller: class Transport of            *)
(* readerboard/transport/base.py, with the count of reopens the controller *)
(* reads beside it.  A link that was down comes up only through            *)
(* ensure_open, which says so; one replaced under a write is counted.  So  *)
(* a controller that believes ensure_open and watches the count never      *)
(* misses a new connection.                                                *)
(***************************************************************************)
EXTENDS Naturals

VARIABLES
  link,      \* "up", "dead" (open, and nobody knows it is gone) or "down"
  reopens    \* how many times a write has reopened the link

transportVars == <<link, reopens>>

Init == link = "down" /\ reopens = 0

\* ensure_open opens it.
Open == link = "down" /\ link' = "up" /\ UNCHANGED reopens

\* The connection goes, and nothing says so.
Die == link = "up" /\ link' = "dead" /\ UNCHANGED reopens

\* A write finds it gone and puts a new connection in its place, which may
\* itself have died by the time the write has counted it.
Reopen == link = "dead" /\ link' \in {"up", "dead"} /\ reopens' = reopens + 1

\* A write or a read finds it gone and it stays down, a new connection having
\* failed too or not.
Drop == link = "dead" /\ link' = "down" /\ reopens' \in {reopens, reopens + 1}

\* close.
Close == link' = "down" /\ UNCHANGED reopens

Next == Open \/ Die \/ Reopen \/ Drop \/ Close

Spec == Init /\ [][Next]_transportVars
=============================================================================
