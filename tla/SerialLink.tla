----------------------------- MODULE SerialLink -----------------------------
(***************************************************************************)
(* The link to the sign: class SerialTransport of                          *)
(* readerboard/transport/serial_link.py, whose calls run in threads of     *)
(* their own.  A write looks at is_open before it takes the threading lock *)
(* and does the rest with it held; the reconnect loop's ensure_open holds  *)
(* it for the length of a connect.  The controller sends one thing at a    *)
(* time, so a second writer is the thread of a task that was cancelled.    *)
(***************************************************************************)
EXTENDS Naturals

CONSTANTS
  Writers,       \* threads in write
  Opener,        \* the reconnect loop's thread, in ensure_open
  Nobody,        \* the holder of a free lock
  BackoffInitial, BackoffMax,
  MaxReopens     \* bound on the times a write reopens the link

ASSUME LinkAssumption ==
  /\ Opener \notin Writers
  /\ Nobody \notin Writers \cup {Opener}
  /\ BackoffInitial \in Nat \ {0}
  /\ BackoffMax \in Nat
  /\ BackoffInitial <= BackoffMax
  /\ MaxReopens \in Nat

VARIABLES
  port,        \* _port: "down" for None, or open and "up" or "dead"
  lock,        \* who holds _lock
  pc,          \* where each thread is
  reopens,     \* _reopens
  retryDelay,  \* _retry_delay
  wait,        \* how far off _retry_after is
  reachable,   \* the adapter answers a connect
  closed       \* stop has closed the link and ended the reconnect loop

backoff == <<retryDelay, wait>>
linkVars == <<port, lock, pc, reopens, retryDelay, wait, reachable, closed>>

Threads == Writers \cup {Opener}
Opening == {"reopening", "opening"}

LinkTypeOK ==
  /\ port \in {"down", "up", "dead"}
  /\ lock \in Threads \cup {Nobody}
  /\ pc \in [Threads -> {"idle", "checked", "sending", "counting", "resending"}
                        \cup Opening]
  /\ reopens \in Nat
  /\ retryDelay \in BackoffInitial .. BackoffMax
  /\ wait \in 0 .. BackoffMax
  /\ reachable \in BOOLEAN
  /\ closed \in BOOLEAN

LinkInit ==
  /\ port = "down"
  /\ lock = Nobody
  /\ pc = [t \in Threads |-> "idle"]
  /\ reopens = 0
  /\ retryDelay = BackoffInitial
  /\ wait = 0
  /\ reachable \in BOOLEAN
  /\ closed = FALSE

Lesser(m, n) == IF m < n THEN m ELSE n

-----------------------------------------------------------------------------
(* What the calls have in common.                                          *)

Goes(t, to) == pc' = [pc EXCEPT ![t] = to]
Leaves(t) == Goes(t, "idle") /\ lock' = Nobody

RecordFailure ==
  /\ wait' = Lesser(BackoffMax, retryDelay)
  /\ retryDelay' = Lesser(BackoffMax, retryDelay * 2)

\* _open_locked opens the port, or records why not.
Opens ==
  /\ reachable
  /\ port' = "up"
  /\ retryDelay' = BackoffInitial
  /\ wait' = 0

CannotOpen ==
  /\ ~reachable
  /\ port' = "down"
  /\ RecordFailure

-----------------------------------------------------------------------------
(* write.  A link that reads as down is refused at once, before the lock   *)
(* is asked for, and again once it has been taken.                         *)

Check(w) ==
  /\ pc[w] = "idle" /\ port # "down"
  /\ Goes(w, "checked")
  /\ UNCHANGED <<port, lock, reopens, backoff, reachable, closed>>

Take(w) ==
  /\ pc[w] = "checked" /\ lock = Nobody
  /\ IF port = "down"
       THEN Goes(w, "idle") /\ UNCHANGED lock
       ELSE Goes(w, "sending") /\ lock' = w
  /\ UNCHANGED <<port, reopens, backoff, reachable, closed>>

\* The bytes go, perhaps only as far as the buffer of a dead connection.
SendReturns(w) ==
  /\ pc[w] = "sending"
  /\ Leaves(w)
  /\ UNCHANGED <<port, reopens, backoff, reachable, closed>>

\* Or the write fails, and the port is closed, to be opened again.
SendFails(w) ==
  /\ pc[w] = "sending" /\ port = "dead" /\ reopens < MaxReopens
  /\ port' = "down"
  /\ Goes(w, "reopening")
  /\ UNCHANGED <<lock, reopens, backoff, reachable, closed>>

\* A mistake to refute: the reopened link is not counted.
ReopenUncounted(w) ==
  /\ pc[w] = "reopening"
  /\ \/ Opens /\ Goes(w, "resending") /\ UNCHANGED lock
     \/ CannotOpen /\ Leaves(w)
  /\ UNCHANGED <<reopens, reachable, closed>>

\* Another: the open is tried again for as long as it fails.
ReopenUntilItWorks(w) ==
  /\ pc[w] = "reopening"
  /\ \/ Opens /\ Goes(w, "counting")
     \/ CannotOpen /\ UNCHANGED pc
  /\ UNCHANGED <<lock, reopens, reachable, closed>>

Reopen(w) ==
  /\ pc[w] = "reopening"
  /\ \/ Opens /\ Goes(w, "counting") /\ UNCHANGED lock
     \/ CannotOpen /\ Leaves(w)
  /\ UNCHANGED <<reopens, reachable, closed>>

Count(w) ==
  /\ pc[w] = "counting"
  /\ reopens' = reopens + 1
  /\ Goes(w, "resending")
  /\ UNCHANGED <<port, lock, backoff, reachable, closed>>

Resend(w) ==
  /\ pc[w] = "resending"
  /\ Leaves(w)
  /\ UNCHANGED <<port, reopens, backoff, reachable, closed>>

ResendFails(w) ==
  /\ pc[w] = "resending" /\ port = "dead"
  /\ port' = "down"
  /\ RecordFailure
  /\ Leaves(w)
  /\ UNCHANGED <<reopens, reachable, closed>>

-----------------------------------------------------------------------------
(* ensure_open, which the reconnect loop calls when it finds the link down *)
(* and which looks again once it has the lock; and it keeps to the backoff.*)

\* A mistake to refute: the loop does not survive its first failure.
AskUntilItFails ==
  /\ pc[Opener] = "idle" /\ port = "down" /\ ~closed
  /\ retryDelay = BackoffInitial
  /\ Goes(Opener, "checked")
  /\ UNCHANGED <<port, lock, reopens, backoff, reachable, closed>>

Ask ==
  /\ pc[Opener] = "idle" /\ port = "down" /\ ~closed
  /\ Goes(Opener, "checked")
  /\ UNCHANGED <<port, lock, reopens, backoff, reachable, closed>>

\* A mistake to refute: what it saw before it had the lock is believed.
EnsureOpenUnlooked ==
  /\ pc[Opener] = "checked" /\ lock = Nobody
  /\ IF wait > 0
       THEN Goes(Opener, "idle") /\ UNCHANGED lock
       ELSE Goes(Opener, "opening") /\ lock' = Opener
  /\ UNCHANGED <<port, reopens, backoff, reachable, closed>>

EnsureOpen ==
  /\ pc[Opener] = "checked" /\ lock = Nobody
  /\ IF port # "down" \/ wait > 0
       THEN Goes(Opener, "idle") /\ UNCHANGED lock
       ELSE Goes(Opener, "opening") /\ lock' = Opener
  /\ UNCHANGED <<port, reopens, backoff, reachable, closed>>

Open ==
  /\ pc[Opener] = "opening"
  /\ Opens \/ CannotOpen
  /\ Leaves(Opener)
  /\ UNCHANGED <<reopens, reachable, closed>>

-----------------------------------------------------------------------------
(* read_available, when it fails: one that returns changes nothing.  And   *)
(* close, which stop calls once it has ended the reconnect loop; a thread  *)
(* that loop had started runs on.                                          *)

ReadFails ==
  /\ lock = Nobody /\ port = "dead"
  /\ port' = "down"
  /\ RecordFailure
  /\ UNCHANGED <<lock, pc, reopens, reachable, closed>>

Close ==
  /\ lock = Nobody
  /\ port' = "down"
  /\ closed' = TRUE
  /\ UNCHANGED <<lock, pc, reopens, backoff, reachable>>

-----------------------------------------------------------------------------
(* The world: time passes, a connection dies without a word, the adapter   *)
(* goes away and comes back.                                               *)

Tick ==
  /\ wait > 0
  /\ wait' = wait - 1
  /\ UNCHANGED <<port, lock, pc, reopens, retryDelay, reachable, closed>>

Dies == IF port = "up" THEN "dead" ELSE port

ConnectionDies ==
  /\ port = "up"
  /\ port' = Dies
  /\ UNCHANGED <<lock, pc, reopens, backoff, reachable, closed>>

AdapterGoes ==
  /\ reachable
  /\ reachable' = FALSE
  /\ port' = Dies
  /\ UNCHANGED <<lock, pc, reopens, backoff, closed>>

AdapterReturns ==
  /\ ~reachable
  /\ reachable' = TRUE
  /\ UNCHANGED <<port, lock, pc, reopens, backoff, closed>>

-----------------------------------------------------------------------------
Write(w) ==
  \/ Take(w) \/ SendReturns(w) \/ SendFails(w)
  \/ Reopen(w) \/ Count(w) \/ Resend(w) \/ ResendFails(w)

LinkNext ==
  \/ \E w \in Writers : Check(w) \/ Write(w)
  \/ Ask \/ EnsureOpen \/ Open
  \/ ReadFails \/ Close
  \/ Tick \/ ConnectionDies \/ AdapterGoes \/ AdapterReturns

LinkSpec == LinkInit /\ [][LinkNext]_linkVars

(* The reconnect loop looks at the link for as long as the service runs,   *)
(* a thread that has the lock goes on, and time passes.  A thread waiting  *)
(* for the lock gets it some time, though nobody promises it is next.      *)
Fairness ==
  /\ WF_linkVars(Ask) /\ SF_linkVars(EnsureOpen) /\ WF_linkVars(Open)
  /\ \A w \in Writers :
       /\ SF_linkVars(Take(w))
       /\ WF_linkVars(SendReturns(w) \/ SendFails(w) \/ Reopen(w) \/ Count(w)
                  \/ Resend(w) \/ ResendFails(w))
  /\ WF_linkVars(Tick)

FairSpec == LinkSpec /\ Fairness

-----------------------------------------------------------------------------
(* A port is open and at rest only with its backoff reset, and a port is   *)
(* opened only where there is none: no connection is replaced while it is  *)
(* open, which would leak it and lose count of it (_ensure_open_locked     *)
(* looks again under the lock, _open_locked, _record_failure).             *)
LinkInv ==
  /\ port # "down" /\ lock = Nobody => wait = 0 /\ retryDelay = BackoffInitial
  /\ \A t \in Threads : pc[t] \in Opening => port = "down" /\ lock = t
  /\ wait <= BackoffMax /\ retryDelay <= BackoffMax

(* The lock is held by exactly the thread that is at work on the port, and *)
(* a connection that is not counted yet is one a writer is about to count. *)
LockInv ==
  /\ \A t \in Threads : lock = t <=> pc[t] \notin {"idle", "checked"}
  /\ pc[Opener] \in {"idle", "checked", "opening"}
  /\ \A w \in Writers : pc[w] # "opening"
  /\ \A w \in Writers :
       pc[w] \in {"counting", "sending", "resending"} =>
         port # "down" /\ wait = 0 /\ retryDelay = BackoffInitial

SerialLinkInv == LinkTypeOK /\ LockInv /\ LinkInv

(* What a controller sees is the abstract Transport: a port closed under a *)
(* write that will open it again still counts as the dead link it was,     *)
(* until the new connection has been counted (write, _reopens).            *)
MidReopen == \E w \in Writers : pc[w] \in {"reopening", "counting"}

linkSeen == IF MidReopen THEN "dead" ELSE port

Promised == INSTANCE Transport WITH link <- linkSeen

IsATransport == Promised!Spec

(* However often the adapter has gone away and come back, once it answers  *)
(* for good the link is never left down while the service runs: the        *)
(* backoff runs out, and the loop's one task goes on asking                *)
(* (_reconnect_loop, seconds_until_retry, _record_failure).                *)
LinkComesBack ==
  <>[]reachable /\ []~closed => []<>(port # "down")

(* A write that has found the link open is sent or refused in the end,     *)
(* whatever else has the lock meanwhile (write, close).                    *)
EveryWriteEnds == \A w \in Writers : pc[w] = "checked" ~> pc[w] = "idle"
=============================================================================
