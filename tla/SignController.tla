--------------------------- MODULE SignController ---------------------------
(***************************************************************************)
(* The one thing that talks to the sign: class SignController of           *)
(* readerboard/sign/controller.py.  Tasks of one event loop send to the    *)
(* sign in turn, behind an asyncio lock; each send runs in a worker thread *)
(* that a cancelled task leaves behind, still running; and the controller  *)
(* remembers what it put in each file, so as not to send it again.         *)
(*                                                                         *)
(* The run sequence is one more file here: set_run_sequence keeps, forgets *)
(* and compares _run_sequence exactly as _send_if_changed does an entry of *)
(* _file_contents.  The link is the Transport that SerialLink is shown to  *)
(* implement: whatever it does here is a step of that module.              *)
(***************************************************************************)
EXTENDS Naturals

CONSTANTS
  Tasks,      \* callers: requests, loops and reconnect hooks
  Files,      \* the sign's files, the run sequence among them
  Contents,   \* what a file may be given to hold
  Orphans,    \* worker threads that may be left behind at one time
  MaxReopens  \* bound on the times a write reopens the link

\* A file's contents when nothing is known, or nothing there; no file at all.
CONSTANTS Unknown, Blank, NoFile, Nobody

ASSUME ControllerAssumption ==
  /\ Unknown \notin Contents
  /\ Blank \notin Contents
  /\ NoFile \notin Files
  /\ Nobody \notin Tasks
  /\ MaxReopens \in Nat

VARIABLES
  cache,     \* _file_contents and _run_sequence
  holder,    \* who holds _lock
  pc, job,   \* where each task is, and what it is sending
  orphans,   \* writes whose task was cancelled, still to happen
  link,      \* "up", "dead" (open, and nobody knows it is gone) or "down"
  reopens,   \* the transport's count of links reopened under a write
  seen,      \* _seen_reopens
  opened,    \* ensure_open has opened the link, _connect has not resumed
  wanted,    \* _repair_wanted
  sign,      \* what the sign's files really hold
  deaf,      \* the sign is in a reset or a tone and hears nothing
  doubt,     \* why a file may not hold what was last sent to it
  lost,      \* a send vanished, and no repair has been given it since
  cancelled  \* some task has been cancelled in the middle of a send

Net == INSTANCE Transport

linkVars == <<link, reopens, opened>>
vars == <<cache, holder, pc, job, orphans, link, reopens, seen, opened, wanted,
          sign, deaf, doubt, lost, cancelled>>

-----------------------------------------------------------------------------
\* A send is of a changed file, of a file whatever it is believed to hold, or
\* of a special function, which no file holds and which may leave the sign deaf.
Kinds == {"changed", "forced", "special"}
Job == [kind : Kinds, file : Files \cup {NoFile},
        contents : Contents \cup {Unknown}]
NoJob == [kind |-> "special", file |-> NoFile, contents |-> Unknown]

\* A write left behind, and whether a later write of its file was accepted.
Orphan == [busy : BOOLEAN, file : Files \cup {NoFile},
           contents : Contents \cup {Unknown}, superseded : BOOLEAN]
NoOrphan == [busy |-> FALSE, file |-> NoFile, contents |-> Unknown,
             superseded |-> FALSE]

Doubts == {"none", "swallowed", "wiped", "overtaken", "interrupted", "deaf"}
InFlight == {"writing", "written", "refused", "pausing"}

TypeOK ==
  /\ cache \in [Files -> Contents \cup {Unknown}]
  /\ holder \in Tasks \cup {Nobody}
  /\ pc \in [Tasks -> {"idle", "waiting"} \cup InFlight]
  /\ job \in [Tasks -> Job]
  /\ orphans \in [Orphans -> Orphan]
  /\ link \in {"up", "dead", "down"}
  /\ reopens \in 0 .. MaxReopens
  /\ seen \in 0 .. MaxReopens
  /\ opened \in BOOLEAN
  /\ wanted \in BOOLEAN
  /\ sign \in [Files -> Contents \cup {Blank}]
  /\ deaf \in BOOLEAN
  /\ doubt \in [Files -> Doubts]
  /\ lost \in BOOLEAN
  /\ cancelled \in BOOLEAN

Init ==
  /\ cache = [f \in Files |-> Unknown]
  /\ holder = Nobody
  /\ pc = [t \in Tasks |-> "idle"]
  /\ job = [t \in Tasks |-> NoJob]
  /\ orphans = [o \in Orphans |-> NoOrphan]
  /\ link = "down"
  /\ reopens = 0
  /\ seen = 0
  /\ opened = FALSE
  /\ wanted = FALSE
  /\ sign = [f \in Files |-> Blank]
  /\ deaf = FALSE
  /\ doubt = [f \in Files |-> "none"]
  /\ lost = FALSE
  /\ cancelled = FALSE

Forgotten == [f \in Files |-> Unknown]
Sending(f) == \E t \in Tasks : pc[t] # "idle" /\ job[t].file = f

-----------------------------------------------------------------------------
(* A task asks.  What a file holds is unknown from before its write is     *)
(* sent until the send has finished.  The callers' own locks see to it     *)
(* that no file is being written by two of them.  Contents the cache       *)
(* already has are suppressed, which changes nothing.                      *)

\* A mistake to refute: the entry is kept while the write is out.
AskKeepingTheEntry(t, f, c) ==
  /\ pc[t] = "idle" /\ ~Sending(f)
  /\ cache[f] # c
  /\ pc' = [pc EXCEPT ![t] = "waiting"]
  /\ job' = [job EXCEPT ![t] = [kind |-> "changed", file |-> f, contents |-> c]]
  /\ UNCHANGED <<cache, holder, orphans, linkVars, seen, wanted, sign, deaf,
                 doubt, lost, cancelled>>

SendIfChanged(t, f, c) ==
  /\ pc[t] = "idle" /\ ~Sending(f)
  /\ cache[f] # c
  /\ cache' = [cache EXCEPT ![f] = Unknown]
  /\ pc' = [pc EXCEPT ![t] = "waiting"]
  /\ job' = [job EXCEPT ![t] = [kind |-> "changed", file |-> f, contents |-> c]]
  /\ UNCHANGED <<holder, orphans, linkVars, seen, wanted, sign, deaf, doubt,
                 lost, cancelled>>

SendForced(t, f, c) ==
  /\ pc[t] = "idle" /\ ~Sending(f)
  /\ pc' = [pc EXCEPT ![t] = "waiting"]
  /\ job' = [job EXCEPT ![t] = [kind |-> "forced", file |-> f, contents |-> c]]
  /\ UNCHANGED <<cache, holder, orphans, linkVars, seen, wanted, sign, deaf,
                 doubt, lost, cancelled>>

SendSpecial(t) ==
  /\ pc[t] = "idle"
  /\ pc' = [pc EXCEPT ![t] = "waiting"]
  /\ job' = [job EXCEPT ![t] = NoJob]
  /\ UNCHANGED <<cache, holder, orphans, linkVars, seen, wanted, sign, deaf,
                 doubt, lost, cancelled>>

\* The lock is taken and the write handed to a worker thread.
TakeLock(t) ==
  /\ pc[t] = "waiting" /\ holder = Nobody
  /\ holder' = t
  /\ pc' = [pc EXCEPT ![t] = "writing"]
  /\ UNCHANGED <<cache, job, orphans, linkVars, seen, wanted, sign, deaf,
                 doubt, lost, cancelled>>

-----------------------------------------------------------------------------
(* A worker thread writes.  On a link that is down it is refused at once.  *)
(* On one that is up the bytes arrive, unless the sign is deaf.  On one    *)
(* that is dead they vanish without a word, or the write fails, the link   *)
(* is opened again and they are sent once more.                            *)

\* The sign takes the transmission: d is the doubt left about its file.
Arrives(f, c, d) ==
  /\ IF f = NoFile
       THEN /\ deaf' \in {deaf, TRUE}
            /\ UNCHANGED <<sign, doubt>>
       ELSE /\ sign' = IF deaf THEN sign ELSE [sign EXCEPT ![f] = c]
            /\ doubt' = [doubt EXCEPT ![f] = IF deaf THEN "deaf" ELSE d]
            /\ UNCHANGED deaf
  /\ UNCHANGED lost

\* It goes into the send buffer of a connection that no longer exists.
Vanishes(f) ==
  /\ doubt' = IF f = NoFile THEN doubt ELSE [doubt EXCEPT ![f] = "swallowed"]
  /\ lost' = TRUE
  /\ UNCHANGED <<sign, deaf>>

\* What write accepts, and what becomes of it.
Accepted(f, c, d) ==
  \/ /\ link = "up"
     /\ Arrives(f, c, d)
     /\ UNCHANGED linkVars
  \/ /\ link = "dead"
     /\ Vanishes(f)
     /\ UNCHANGED linkVars
  \/ /\ Net!Reopen /\ reopens < MaxReopens
     /\ \/ link' = "up" /\ Arrives(f, c, d)
        \/ link' = "dead" /\ Vanishes(f)
     /\ UNCHANGED opened

\* What write refuses: the link is down, or could not be opened again, or was
\* and failed again; or some other thread has it closed, to open it again.
Refused(others) ==
  /\ \/ link = "down" /\ UNCHANGED <<link, reopens>>
     \/ link = "dead" /\ others /\ UNCHANGED <<link, reopens>>
     \/ Net!Drop /\ reopens' <= MaxReopens
  /\ UNCHANGED <<opened, sign, deaf, doubt, lost>>

\* An accepted write is later than every write of its file still out there.
Superseding(f) ==
  [o \in Orphans |->
     IF f # NoFile /\ orphans[o].file = f
       THEN [orphans[o] EXCEPT !.superseded = TRUE]
       ELSE orphans[o]]

WorkerWrites(t) ==
  /\ pc[t] = "writing"
  /\ \/ /\ Accepted(job[t].file, job[t].contents, "none")
        /\ pc' = [pc EXCEPT ![t] = "written"]
        /\ orphans' = Superseding(job[t].file)
     \/ /\ Refused(\E o \in Orphans : orphans[o].busy)
        /\ pc' = [pc EXCEPT ![t] = "refused"]
        /\ UNCHANGED orphans
  /\ UNCHANGED <<cache, holder, job, seen, wanted, cancelled>>

OrphanWrites(o) ==
  /\ orphans[o].busy
  /\ \/ Accepted(orphans[o].file, orphans[o].contents,
                 IF orphans[o].superseded THEN "overtaken" ELSE "none")
     \/ Refused(\/ \E p \in Orphans \ {o} : orphans[p].busy
               \/ \E t \in Tasks : pc[t] = "writing")
  /\ orphans' = [orphans EXCEPT ![o] = NoOrphan]
  /\ UNCHANGED <<cache, holder, pc, job, seen, wanted, cancelled>>

-----------------------------------------------------------------------------
(* The task goes on.                                                       *)

\* A mistake to refute: a reopen is counted as seen, and no repair is asked for.
ResumeForgettingOnly(t) ==
  /\ pc[t] = "written"
  /\ pc' = [pc EXCEPT ![t] = "pausing"]
  /\ seen' = reopens
  /\ cache' = IF reopens = seen THEN cache ELSE Forgotten
  /\ UNCHANGED <<wanted, holder, job, orphans, linkVars, sign, deaf, doubt,
                 lost, cancelled>>

\* The write was accepted: notice a reopen, then pause with the lock held.
\* forget_sign_contents leaves this write's own entry to be recorded later.
Resume(t) ==
  /\ pc[t] = "written"
  /\ pc' = [pc EXCEPT ![t] = "pausing"]
  /\ IF reopens = seen
       THEN UNCHANGED <<cache, seen, wanted>>
       ELSE /\ seen' = reopens
            /\ cache' = Forgotten
            /\ wanted' = TRUE
  /\ UNCHANGED <<holder, job, orphans, linkVars, sign, deaf, doubt, lost,
                 cancelled>>

\* The write was refused: nothing is believed any more, and the task fails.
Fail(t) ==
  /\ pc[t] = "refused"
  /\ pc' = [pc EXCEPT ![t] = "idle"]
  /\ job' = [job EXCEPT ![t] = NoJob]
  /\ holder' = Nobody
  /\ cache' = Forgotten
  /\ UNCHANGED <<orphans, linkVars, seen, wanted, sign, deaf, doubt, lost,
                 cancelled>>

\* A mistake to refute: a reset is not sat out with the lock held.
RecordUnsettled(t) ==
  /\ pc[t] = "pausing"
  /\ pc' = [pc EXCEPT ![t] = "idle"]
  /\ job' = [job EXCEPT ![t] = NoJob]
  /\ holder' = Nobody
  /\ cache' = IF job[t].file = NoFile
                THEN cache
                ELSE [cache EXCEPT ![job[t].file] = job[t].contents]
  /\ UNCHANGED <<orphans, linkVars, seen, wanted, sign, deaf, doubt, lost,
                 cancelled>>

\* The pause between packets is over, or the longer one after a reset or a
\* tone, which outlasts the sign's deafness.  What was sent is recorded.
Record(t) ==
  /\ pc[t] = "pausing"
  /\ job[t].file = NoFile => ~deaf
  /\ pc' = [pc EXCEPT ![t] = "idle"]
  /\ job' = [job EXCEPT ![t] = NoJob]
  /\ holder' = Nobody
  /\ cache' = IF job[t].file = NoFile
                THEN cache
                ELSE [cache EXCEPT ![job[t].file] = job[t].contents]
  /\ UNCHANGED <<orphans, linkVars, seen, wanted, sign, deaf, doubt, lost,
                 cancelled>>

-----------------------------------------------------------------------------
(* A task is cancelled: by its client going away, by stop().  While it     *)
(* waits for the lock nothing has been sent.  From then until it resumes   *)
(* the worker thread carries on without it, if it had started, and nothing *)
(* is believed any more.  In the pause the lock is let go of, and what was *)
(* sent goes unrecorded.                                                   *)

Drops(t) ==
  /\ pc' = [pc EXCEPT ![t] = "idle"]
  /\ job' = [job EXCEPT ![t] = NoJob]

CancelWaiting(t) ==
  /\ pc[t] = "waiting"
  /\ Drops(t)
  /\ UNCHANGED <<cache, holder, orphans, linkVars, seen, wanted, sign, deaf,
                 doubt, lost, cancelled>>

\* A mistake to refute: a cancelled write is left out of the except clause.
CancelBelieving(t) ==
  /\ pc[t] \in {"writing", "written", "refused"}
  /\ Drops(t)
  /\ holder' = Nobody
  /\ \/ UNCHANGED orphans
     \/ /\ pc[t] = "writing"
        /\ \E o \in Orphans :
             /\ ~orphans[o].busy
             /\ orphans' = [orphans EXCEPT ![o] =
                  [busy |-> TRUE, file |-> job[t].file,
                   contents |-> job[t].contents, superseded |-> FALSE]]
  /\ cancelled' = TRUE
  /\ UNCHANGED <<cache, linkVars, seen, wanted, sign, deaf, doubt, lost>>

CancelWriting(t) ==
  /\ pc[t] \in {"writing", "written", "refused"}
  /\ Drops(t)
  /\ holder' = Nobody
  /\ cache' = Forgotten
  /\ \/ UNCHANGED orphans
     \/ /\ pc[t] = "writing"
        /\ \E o \in Orphans :
             /\ ~orphans[o].busy
             /\ orphans' = [orphans EXCEPT ![o] =
                  [busy |-> TRUE, file |-> job[t].file,
                   contents |-> job[t].contents, superseded |-> FALSE]]
  /\ cancelled' = TRUE
  /\ UNCHANGED <<linkVars, seen, wanted, sign, deaf, doubt, lost>>

\* Only a forced write leaves an entry behind, of what the file held before.
CancelPausing(t) ==
  /\ pc[t] = "pausing"
  /\ Drops(t)
  /\ holder' = Nobody
  /\ doubt' = IF job[t].kind = "forced" /\ doubt[job[t].file] = "none"
                THEN [doubt EXCEPT ![job[t].file] = "interrupted"]
                ELSE doubt
  /\ cancelled' = TRUE
  /\ UNCHANGED <<cache, orphans, linkVars, seen, wanted, sign, deaf, lost>>

-----------------------------------------------------------------------------
(* The reconnect loop, in two steps: ensure_open in its thread, and what   *)
(* _connect does when that has returned.  There are two ways out of it: it *)
(* runs the hooks, or it leaves what is lost to a repair under way.  That  *)
(* repeats the hooks it has finished; the one it is in is trusted to go on *)
(* down the new connection, though a write of its own may have vanished.   *)
(* `lost` is over either way: it has been given to somebody.               *)

EnsureOpen ==
  /\ ~opened
  /\ Net!Open
  /\ opened' = TRUE
  /\ UNCHANGED <<cache, holder, pc, job, orphans, seen, wanted, sign, deaf,
                 doubt, lost, cancelled>>

\* A mistake to refute: what the sign held is believed across a reconnect.
ConnectBelieving ==
  /\ opened
  /\ opened' = FALSE
  /\ seen' = reopens
  /\ lost' = FALSE
  /\ UNCHANGED <<cache, holder, pc, job, orphans, link, reopens, wanted, sign,
                 deaf, doubt, cancelled>>

Connect ==
  /\ opened
  /\ opened' = FALSE
  /\ cache' = Forgotten
  /\ seen' = reopens
  /\ lost' = FALSE
  /\ UNCHANGED <<holder, pc, job, orphans, link, reopens, wanted, sign, deaf,
                 doubt, cancelled>>

\* The repair task takes up what a reopen asked for and begins a round.
BeginRepair ==
  /\ wanted
  /\ wanted' = FALSE
  /\ lost' = FALSE
  /\ UNCHANGED <<cache, holder, pc, job, orphans, linkVars, seen, sign, deaf,
                 doubt, cancelled>>

\* forget_sign_contents, as the registry's refresh and reboot call it.
Forget ==
  /\ cache # Forgotten
  /\ cache' = Forgotten
  /\ UNCHANGED <<holder, pc, job, orphans, linkVars, seen, wanted, sign, deaf,
                 doubt, lost, cancelled>>

\* A read finds the connection gone.  It holds the lock, unless it is the
\* thread of a task that was cancelled, and forgets nothing.
ReadFails ==
  /\ (holder = Nobody /\ UNCHANGED cancelled) \/ cancelled' = TRUE
  /\ Net!Drop /\ UNCHANGED reopens
  /\ UNCHANGED <<cache, holder, pc, job, orphans, seen, opened, wanted, sign,
                 deaf, doubt, lost>>

-----------------------------------------------------------------------------
(* The world: a connection dies without a word, the sign is power cycled   *)
(* behind a link that stays up, and it finishes a reset or a tone.         *)

ConnectionDies ==
  /\ Net!Die
  /\ UNCHANGED <<cache, holder, pc, job, orphans, seen, opened, wanted, sign,
                 deaf, doubt, lost, cancelled>>

PowerCycle ==
  /\ sign' = [f \in Files |-> Blank]
  /\ doubt' = [f \in Files |-> "wiped"]
  /\ UNCHANGED <<cache, holder, pc, job, orphans, linkVars, seen, wanted, deaf,
                 lost, cancelled>>

SignListens ==
  /\ deaf
  /\ deaf' = FALSE
  /\ UNCHANGED <<cache, holder, pc, job, orphans, linkVars, seen, wanted, sign,
                 doubt, lost, cancelled>>

-----------------------------------------------------------------------------
Ask(t) ==
  \/ \E f \in Files, c \in Contents :
       SendIfChanged(t, f, c) \/ SendForced(t, f, c)
  \/ SendSpecial(t)

Continue(t) ==
  TakeLock(t) \/ WorkerWrites(t) \/ Resume(t) \/ Fail(t) \/ Record(t)

Cancel(t) == CancelWaiting(t) \/ CancelWriting(t) \/ CancelPausing(t)

Next ==
  \/ \E t \in Tasks : Ask(t) \/ Continue(t) \/ Cancel(t)
  \/ \E o \in Orphans : OrphanWrites(o)
  \/ EnsureOpen \/ Connect \/ BeginRepair \/ Forget \/ ReadFails
  \/ ConnectionDies \/ PowerCycle \/ SignListens

Spec == Init /\ [][Next]_vars

-----------------------------------------------------------------------------
(* An entry of the cache is what the sign's file holds, so that the write  *)
(* it suppresses really is redundant, unless something the controller      *)
(* cannot see has come between: the sign lost power, the bytes went down a *)
(* connection that had died, or a write outlived its task.  A file whose   *)
(* write is out is left to that write (_send_if_changed, _send_locked).    *)
CacheHonest ==
  \A f \in Files :
    ~Sending(f) /\ cache[f] # Unknown /\ cache[f] # sign[f] => doubt[f] # "none"

\* A connection that has gone may still be believed in: nothing has noticed.
LossUnnoticed == link # "up" \/ reopens # seen \/ opened

(* A send that vanished down a dead connection is never forgotten about:   *)
(* until it has been given to a repair, one that begins after it or one    *)
(* that a reconnect finds under way and trusts, either the death has not   *)
(* been noticed yet or a repair is owed (_notice_a_reopen, _connect,       *)
(* _repair_after_reopen).                                                  *)
LossIsRepaired == lost => LossUnnoticed \/ wanted

(* Once the death of a connection has been noticed nothing it swallowed is *)
(* believed to be on the sign (_notice_a_reopen, _connect), until a task is *)
(* cancelled in the middle of a send: that may leave a thread behind.      *)
SwallowedIsForgotten ==
  ~cancelled =>
    \A f \in Files :
      doubt[f] = "swallowed" /\ cache[f] # Unknown => LossUnnoticed

(* Nothing is sent to a sign that is sitting out a reset or a tone: the    *)
(* settle is taken with the lock held (send_special), until a task is      *)
(* cancelled in the middle of one.                                         *)
DeafSignIsLeftAlone == ~cancelled => \A f \in Files : doubt[f] # "deaf"

(* What the module's docstring says of the lock: "The lock is held across  *)
(* the thread hop, so ordering is preserved."  No entry is belied by an    *)
(* older write of its file arriving after it.                              *)
OrderingIsPreserved ==
  \A f \in Files :
    ~Sending(f) /\ cache[f] # Unknown /\ cache[f] # sign[f]
      => doubt[f] # "overtaken"

\* The sign is deaf, and the task that made it so is sitting that out.
SatOut ==
  \E t \in Tasks : pc[t] \in {"written", "pausing"} /\ job[t].file = NoFile

(* What send_special says of the settle: "the send and the wait are one    *)
(* uninterruptible step", so a sign that is deaf is one whose lock is held *)
(* by the task that is sitting that out.                                   *)
SettleIsUninterruptible == deaf => SatOut

-----------------------------------------------------------------------------
(* What makes those properties inductive.                                  *)

\* The lock is held by exactly the task that is between taking it and
\* letting go of it, and no two tasks are writing one file.
LockInv ==
  /\ \A t \in Tasks : pc[t] \in InFlight <=> holder = t
  /\ \A t, u \in Tasks :
       t # u /\ pc[t] # "idle" /\ pc[u] # "idle" /\ job[t].file = job[u].file
         => job[t].file = NoFile

JobInv ==
  /\ \A t \in Tasks :
       /\ job[t].kind = "special" <=> job[t].file = NoFile
       /\ job[t].file # NoFile => job[t].contents \in Contents
       /\ pc[t] = "idle" => job[t].file = NoFile
  /\ \A o \in Orphans :
       orphans[o].file # NoFile =>
         orphans[o].busy /\ orphans[o].contents \in Contents

\* An entry is gone while its file is being written, and no older write of a
\* file outlives an entry without being marked as overtaken.
EntryInv ==
  /\ \A t \in Tasks :
       pc[t] # "idle" /\ job[t].kind = "changed" => cache[job[t].file] = Unknown
  /\ \A f \in Files, o \in Orphans :
       cache[f] # Unknown /\ orphans[o].file = f => orphans[o].superseded

\* What a task is about to record is what its file holds.
AcceptedInv ==
  \A t \in Tasks :
    pc[t] \in {"written", "pausing"} /\ job[t].file # NoFile =>
      /\ sign[job[t].file] = job[t].contents \/ doubt[job[t].file] # "none"
      /\ \A o \in Orphans :
           orphans[o].file = job[t].file => orphans[o].superseded

\* The one entry that may be wrong for no reason is that of a forced write
\* which has arrived and is not recorded yet.
HonestInv ==
  \A f \in Files :
    cache[f] # Unknown /\ cache[f] # sign[f] /\ doubt[f] = "none" =>
      \E t \in Tasks :
        /\ job[t].kind = "forced" /\ job[t].file = f
        /\ pc[t] \in {"written", "pausing"}

ReopenInv == seen <= reopens /\ LossIsRepaired

\* Before any cancellation there are no orphans, a task that sent something into
\* a dead connection finds it still dead when it records it, and only a task
\* holding the lock has made the sign deaf.
UncancelledInv ==
  ~cancelled =>
    /\ \A o \in Orphans : ~orphans[o].busy
    /\ \A t \in Tasks :
         /\ pc[t] \in {"written", "pausing"} /\ job[t].file # NoFile
         /\ doubt[job[t].file] = "swallowed"
         => link = "dead"
    /\ SettleIsUninterruptible

(* The cache, the lock, the repairs owed and what each task and each orphan*)
(* is in the middle of agree (SignController._send_locked, _connect).      *)
ControllerInv ==
  /\ TypeOK /\ LockInv /\ JobInv /\ EntryInv /\ AcceptedInv /\ HonestInv
  /\ ReopenInv /\ UncancelledInv /\ SwallowedIsForgotten /\ DeafSignIsLeftAlone
=============================================================================
