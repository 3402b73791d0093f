---------------------------- MODULE AlertService ----------------------------
(***************************************************************************)
(* Taking the whole sign over and giving it back: class AlertService of    *)
(* readerboard/services/alerts.py.  The sign's priority file suppresses    *)
(* every other file for as long as it holds a message, so it may be left   *)
(* neither with an alert nobody recorded nor without the one that is       *)
(* recorded; and no picture is written while it holds one.                 *)
(*                                                                         *)
(* Tasks take the registry's lock, where they render through it, and then  *)
(* this service's own.  A send to the priority file is a step of the       *)
(* worker thread between two of the task's: it lands, it fails, or it is   *)
(* swallowed by a connection that has died and returns as if it had landed.*)
(* One that finds its connection gone opens another, and a repair is owed  *)
(* for what went down the old one.  The thread of a cancelled task is      *)
(* taken to finish before the next send: what happens otherwise is in      *)
(* SignController.  Icons, and what the registry does with its own lock,   *)
(* are no more here than that a picture is drawn and the drawing may fail. *)
(***************************************************************************)
EXTENDS Naturals

CONSTANTS
  Callers,     \* requests: raise, release, a registry operation that draws
  Sweeper,     \* the loop that releases an alert at its deadline
  Refresher,   \* the loop, and the hook, that put the sign right again
  Texts,       \* alerts that fit the sign
  Empty,       \* one with no text, which an older version may have stored
  Misfit,      \* one that no longer fits, stored likewise
  Leftovers,   \* which of those two a state file may hold
  Troubles,    \* of "crash", "power", "reboot", "save", "forget"
  Free,        \* the priority file's contents when the sign is given back
  Unknown, Nobody

ASSUME AlertAssumption ==
  /\ Sweeper # Refresher /\ {Sweeper, Refresher} \cap Callers = {}
  /\ Nobody \notin Callers \cup {Sweeper, Refresher}
  /\ Empty # Misfit /\ {Empty, Misfit} \cap Texts = {}
  /\ Leftovers \subseteq {Empty, Misfit}
  /\ Free \notin Texts \cup {Empty, Misfit}
  /\ Unknown \notin Texts \cup {Free}

VARIABLES
  file,       \* what the sign's priority file really holds
  cache,      \* what the controller believes it holds
  record,     \* _state.alert
  disk,       \* the alert in the state file
  flag,       \* _sign_may_not_match
  registry,   \* who holds the registry's lock
  lock,       \* who holds _lock
  op, pc,     \* what each task is doing, and how far it has got
  stage,      \* how far its send has got
  want,       \* the alert a task raises, and whether it brings a picture
  up,         \* startup is over
  link,       \* the link to the sign: up, dead and nobody knows, or down
  owed,       \* it has come back, and the refresh that asks for is to come
  doubt       \* why the file may not hold what was last accepted for it

vars == <<file, cache, record, disk, flag, registry, lock, op, pc, stage, want,
          up, link, owed, doubt>>
line == <<link, owed>>
alert == <<record, disk, flag>>

Tasks == Callers \cup {Sweeper, Refresher}

\* An alert and its deadline, which it may not have, or may be past.
Alert == [text : Texts \cup Leftovers \cup {Free},
          deadline : {"never", "ahead", "past"}]
NoAlert == [text |-> Free, deadline |-> "never"]
Stored == {a \in Alert : a.text = Free => a = NoAlert}

Want == [text : Texts \cup {Free}, pictures : BOOLEAN]
NoWant == [text |-> Free, pictures |-> FALSE]

Ops == {"none", "raise", "draw", "release", "sweep", "reassert", "refresh",
        "restore"}
Sends == {"handing", "showing", "restoring", "releasing", "clearing"}

\* Nothing has been accepted since the start; nothing is in doubt; the sign
\* has lost its memory; a dead connection has swallowed what was accepted; or
\* something went wrong that nobody is going to look into.
Doubts == {"start", "none", "wiped", "swallowed", "missed"}

TypeOK ==
  /\ file \in Texts \cup {Free}
  /\ cache \in Texts \cup {Free, Unknown}
  /\ record \in Stored /\ disk \in Stored
  /\ flag \in BOOLEAN /\ up \in BOOLEAN /\ owed \in BOOLEAN
  /\ link \in {"up", "dead", "down"} /\ doubt \in Doubts
  /\ registry \in Tasks \cup {Nobody} /\ lock \in Tasks \cup {Nobody}
  /\ op \in [Tasks -> Ops]
  /\ pc \in [Tasks -> {"idle", "queued", "rendering", "deciding", "drawing",
                       "pushing"} \cup Sends]
  /\ stage \in [Tasks -> {"none", "asked", "skipped", "accepted"}]
  /\ want \in [Tasks -> Want]

Init ==
  /\ file \in Texts \cup {Free}
  /\ cache = Unknown
  /\ disk \in Stored /\ record = disk
  /\ flag = FALSE
  /\ registry = Nobody /\ lock = Nobody
  /\ op = [t \in Tasks |-> "none"]
  /\ pc = [t \in Tasks |-> "idle"]
  /\ stage = [t \in Tasks |-> "none"]
  /\ want = [t \in Tasks |-> NoWant]
  /\ up = FALSE
  /\ link \in {"up", "dead", "down"}
  /\ owed = FALSE
  /\ doubt = "start"

\* A mistake to refute: the comparison with the clock is the wrong way round.
NotYetExpired(a) == a.deadline = "ahead"

Expired(a) == a.deadline = "past"

\* store.save writes the record out, or raises.
Saved(a) == {a} \cup {d \in {disk} : "save" \in Troubles}

-----------------------------------------------------------------------------
(* Sends.  A task that begins one decides whether it is suppressed: the    *)
(* controller forgets the entry of a file before it sends to it, unless    *)
(* the write is forced.                                                    *)

Contents(t) ==
  IF pc[t] = "showing" THEN want[t].text
  ELSE IF pc[t] = "restoring" THEN record.text
  ELSE Free

Begins(t, at, contents, force) ==
  /\ pc' = [pc EXCEPT ![t] = at]
  /\ stage' = [stage EXCEPT ![t] =
                 IF ~force /\ cache = contents THEN "skipped" ELSE "asked"]
  /\ cache' = IF force \/ cache = contents THEN cache ELSE Unknown
  /\ UNCHANGED <<file, registry, lock, op, want, up, line, doubt>>

\* The send is over, and what was sent is recorded, unless it was suppressed.
Sent(t, at) ==
  /\ pc[t] = at /\ stage[t] \in {"accepted", "skipped"}
  /\ cache' = IF stage[t] = "accepted" THEN Contents(t) ELSE cache
  /\ UNCHANGED <<file, line, doubt>>

\* A mistake to refute: an operation's end leaves the registry locked.
LeavesTheRegistryLocked(t) ==
  /\ pc' = [pc EXCEPT ![t] = "idle"]
  /\ op' = [op EXCEPT ![t] = "none"]
  /\ stage' = [stage EXCEPT ![t] = "none"]
  /\ want' = [want EXCEPT ![t] = NoWant]
  /\ lock' = IF lock = t THEN Nobody ELSE lock
  /\ up' = (up \/ op[t] = "restore")
  /\ UNCHANGED registry

\* The operation is over, with whatever outcome, and its locks are let go of;
\* but a refresh has the rest of what is registered to push.
Leaves(t) ==
  /\ pc' = [pc EXCEPT ![t] = IF op[t] = "refresh" THEN "pushing" ELSE "idle"]
  /\ op' = [op EXCEPT ![t] = "none"]
  /\ stage' = [stage EXCEPT ![t] = "none"]
  /\ want' = [want EXCEPT ![t] = NoWant]
  /\ lock' = IF lock = t THEN Nobody ELSE lock
  /\ registry' = IF registry = t /\ op[t] # "refresh" THEN Nobody ELSE registry
  /\ up' = (up \/ op[t] = "restore")

\* _put_back, which an alert that has expired, is empty or does not fit
\* declines, and which is always forced.
PutsBack(t) ==
  \/ /\ record.text \in Texts /\ ~Expired(record)
     /\ flag' = TRUE
     /\ pc' = [pc EXCEPT ![t] = "restoring"]
     /\ stage' = [stage EXCEPT ![t] = "asked"]
     /\ UNCHANGED <<record, disk, registry, lock, op, want, up>>
  \/ /\ record.text = Empty \/ Expired(record)
     /\ record' = NoAlert /\ disk' \in Saved(NoAlert)
     /\ Leaves(t) /\ UNCHANGED flag
  \/ /\ record = NoAlert \/ (record.text = Misfit /\ ~Expired(record))
     /\ Leaves(t) /\ UNCHANGED alert

\* What a failure or a cancellation sets going: an alert that was lifted for
\* a picture is put back, and one more of either on the way leaves it off.
Unwinds(t) ==
  IF pc[t] = "drawing" \/ (pc[t] = "showing" /\ want[t].pictures)
    THEN PutsBack(t)
    ELSE Leaves(t) /\ UNCHANGED alert

-----------------------------------------------------------------------------
(* A task asks, and takes the locks it needs.                              *)

Asks(t, o, w) ==
  /\ pc[t] = "idle"
  /\ pc' = [pc EXCEPT ![t] = "queued"]
  /\ op' = [op EXCEPT ![t] = o]
  /\ want' = [want EXCEPT ![t] = w]
  /\ UNCHANGED <<alert, registry, lock, stage, up, link>>

RaiseAlert(t) ==
  /\ up
  /\ \E x \in Texts, p \in BOOLEAN :
       Asks(t, "raise", [text |-> x, pictures |-> p])
  /\ UNCHANGED <<file, cache, owed, doubt>>

Release(t) ==
  up /\ Asks(t, "release", NoWant) /\ UNCHANGED <<file, cache, owed, doubt>>

\* A registry operation writes a picture, under lifted.
Draw(t) == Asks(t, "draw", NoWant) /\ UNCHANGED <<file, cache, owed, doubt>>

\* The deadline is looked at without the lock, and release waits for it.
Sweep ==
  /\ up /\ record # NoAlert /\ Expired(record)
  /\ Asks(Sweeper, "sweep", NoWant)
  /\ UNCHANGED <<file, cache, owed, doubt>>

\* A refresh without a picture to draw has forgotten what the sign holds and
\* pushed the rest; or the sign says it kept its pictures, which it is not
\* asked when a repair is owed, and only the flag asks for the alert.
Reassert ==
  /\ up /\ registry = Nobody
  /\ Asks(Refresher, "reassert", NoWant)
  /\ \/ cache' = Unknown /\ owed' = FALSE
     \/ flag /\ ~owed /\ UNCHANGED <<cache, owed>>
  /\ UNCHANGED <<file, doubt>>

\* A refresh with pictures hands the sign back for them itself.
Refresh ==
  /\ up /\ registry = Nobody /\ pc[Refresher] = "idle"
  /\ registry' = Refresher
  /\ pc' = [pc EXCEPT ![Refresher] = "rendering"]
  /\ op' = [op EXCEPT ![Refresher] = "refresh"]
  /\ cache' = Unknown /\ owed' = FALSE
  /\ UNCHANGED <<file, alert, lock, stage, want, up, link, doubt>>

EndRefresh ==
  /\ pc[Refresher] = "pushing"
  /\ pc' = [pc EXCEPT ![Refresher] = "idle"]
  /\ registry' = Nobody
  /\ UNCHANGED <<file, cache, alert, lock, op, stage, want, up, line, doubt>>

\* A send that has been accepted holds the controller's lock to its end.
LineIsFree == \A t \in Tasks : stage[t] # "accepted"

\* A reboot clears the sign's memory, unless that is swallowed, and puts back
\* what is registered; the alert is still to come.
Reboot(t) ==
  /\ "reboot" \in Troubles
  /\ up /\ registry = Nobody /\ LineIsFree /\ link # "down"
  /\ Asks(t, "reassert", NoWant)
  /\ cache' = Unknown
  /\ file' = IF link = "up" THEN Free ELSE file
  /\ doubt' = IF link = "up" THEN "wiped" ELSE doubt
  /\ UNCHANGED owed

\* restore, which startup makes with nothing else running; unless the
\* registry's own has failed first, on a sign that cannot be reached.
Restore ==
  /\ ~up /\ registry = Nobody
  /\ Asks(Refresher, "restore", NoWant)
  /\ UNCHANGED <<file, cache, owed, doubt>>

Missed == IF doubt = "start" THEN "missed" ELSE doubt

StartWithoutRestoring ==
  /\ ~up /\ link # "up" /\ \A t \in Tasks : pc[t] = "idle"
  /\ up' = TRUE
  /\ doubt' = Missed
  /\ UNCHANGED <<file, cache, alert, registry, lock, op, pc, stage, want, line>>

TakeRegistry(t) ==
  /\ pc[t] = "queued" /\ op[t] \in {"raise", "draw", "reassert", "restore"}
  /\ registry = Nobody
  /\ registry' = t
  /\ pc' = [pc EXCEPT ![t] = "rendering"]
  /\ UNCHANGED <<file, cache, alert, lock, op, stage, want, up, line, doubt>>

TakeLock(t) ==
  /\ \/ pc[t] = "rendering"
     \/ pc[t] = "queued" /\ op[t] \in {"release", "sweep"}
  /\ lock = Nobody
  /\ lock' = t
  /\ pc' = [pc EXCEPT ![t] = "deciding"]
  /\ UNCHANGED <<file, cache, alert, registry, op, stage, want, up, line,
                 doubt>>

-----------------------------------------------------------------------------
(* With its locks, a task decides.  The flag is set before anything is     *)
(* sent, and what is sent is forced if it was set already.                 *)

\* raise_alert refuses: an alert is up, or this one is too long.
Refuse(t) ==
  /\ pc[t] = "deciding" /\ op[t] = "raise"
  /\ Leaves(t)
  /\ UNCHANGED <<file, cache, alert, line, doubt>>

\* A mistake to refute: the release is never forced.
HandBackUnforced(t) ==
  /\ pc[t] = "deciding"
  /\ op[t] \in {"draw", "refresh"} \/ (op[t] = "raise" /\ want[t].pictures)
  /\ flag' = (flag \/ record # NoAlert)
  /\ Begins(t, "handing", Free, FALSE)
  /\ UNCHANGED <<record, disk>>

\* Another: nothing owns up to the alert's being off the sign.
HandBackUnflagged(t) ==
  /\ pc[t] = "deciding"
  /\ op[t] \in {"draw", "refresh"} \/ (op[t] = "raise" /\ want[t].pictures)
  /\ Begins(t, "handing", Free, flag)
  /\ UNCHANGED alert

\* lifted, and raise_alert with a picture: the sign is handed back first.
HandBack(t) ==
  /\ pc[t] = "deciding"
  /\ op[t] \in {"draw", "refresh"} \/ (op[t] = "raise" /\ want[t].pictures)
  /\ flag' = (flag \/ record # NoAlert)
  /\ Begins(t, "handing", Free, flag)
  /\ UNCHANGED <<record, disk>>

\* Write the alert that is raised: at once, or after its pictures.
Show(t) ==
  /\ op[t] = "raise"
  /\ pc[t] = IF want[t].pictures THEN "drawing" ELSE "deciding"
  /\ flag' = TRUE
  /\ Begins(t, "showing", want[t].text, flag)
  /\ UNCHANGED <<record, disk>>

\* A mistake to refute: the release is forced, and nothing owns up to it.
GiveBackUnflagged(t) ==
  /\ pc[t] = "deciding" /\ op[t] \in {"release", "sweep"}
  /\ Begins(t, "releasing", Free, TRUE)
  /\ UNCHANGED alert

\* release, sweep, and what restore and reassert do with an alert that the
\* sign cannot hold.
GiveBack(t) ==
  /\ pc[t] = "deciding"
  /\ \/ op[t] \in {"release", "sweep"}
     \/ op[t] = "reassert" /\ record.text = Empty
     \/ op[t] = "restore" /\ record # NoAlert
        /\ (record.text \in {Empty, Misfit} \/ Expired(record))
  /\ flag' = TRUE
  /\ Begins(t, "releasing", Free, flag)
  /\ UNCHANGED <<record, disk>>

\* Nothing is recorded, and something may be on the sign.
Clear(t) ==
  /\ pc[t] = "deciding" /\ record = NoAlert
  /\ op[t] = "restore" \/ (op[t] = "reassert" /\ flag)
  /\ Begins(t, "clearing", Free, op[t] = "reassert")
  /\ UNCHANGED alert

\* A mistake to refute: it is forced, and nothing owns up to its being out.
PutOnUnflagged(t) ==
  /\ pc[t] = "deciding" /\ record.text \in Texts
  /\ op[t] = "reassert" \/ (op[t] = "restore" /\ ~Expired(record))
  /\ Begins(t, "restoring", record.text, flag \/ op[t] = "reassert")
  /\ UNCHANGED alert

\* The recorded alert is written again.
PutOn(t) ==
  /\ pc[t] = "deciding" /\ record.text \in Texts
  /\ op[t] = "reassert" \/ (op[t] = "restore" /\ ~Expired(record))
  /\ flag' = TRUE
  /\ Begins(t, "restoring", record.text, flag \/ op[t] = "reassert")
  /\ UNCHANGED <<record, disk>>

\* A re-assert with nothing to write.
LeaveAlone(t) ==
  /\ pc[t] = "deciding" /\ op[t] = "reassert"
  /\ record.text = Misfit \/ (record = NoAlert /\ ~flag)
  /\ Leaves(t)
  /\ UNCHANGED <<file, cache, alert, line, doubt>>

-----------------------------------------------------------------------------
(* The send lands, or vanishes, and the task goes on.                      *)

Land(t) ==
  /\ stage[t] = "asked" /\ link = "up"
  /\ file' = Contents(t)
  /\ doubt' = "none"
  /\ stage' = [stage EXCEPT ![t] = "accepted"]
  /\ UNCHANGED <<cache, alert, registry, lock, op, pc, want, up, line>>

\* A connection that has died takes the write and drops it.
Vanish(t) ==
  /\ stage[t] = "asked" /\ link = "dead"
  /\ doubt' = "swallowed"
  /\ stage' = [stage EXCEPT ![t] = "accepted"]
  /\ UNCHANGED <<file, cache, alert, registry, lock, op, pc, want, up, line>>

\* The write fails, opens the link again and is sent again, down a connection
\* that may have died in its turn; the controller notices (_notice_a_reopen).
Reopen(t) ==
  /\ stage[t] = "asked" /\ link = "dead"
  /\ link' \in {"up", "dead"} /\ owed' = TRUE
  /\ file' = IF link' = "up" THEN Contents(t) ELSE file
  /\ doubt' = IF link' = "up" THEN "none" ELSE "swallowed"
  /\ cache' = Unknown
  /\ stage' = [stage EXCEPT ![t] = "accepted"]
  /\ UNCHANGED <<alert, registry, lock, op, pc, want, up>>

Handed(t) ==
  /\ Sent(t, "handing")
  /\ pc' = [pc EXCEPT ![t] = "drawing"]
  /\ stage' = [stage EXCEPT ![t] = "none"]
  /\ UNCHANGED <<alert, registry, lock, op, want, up>>

\* The alert is up, and is recorded and saved.
Raised(t) ==
  /\ Sent(t, "showing")
  /\ flag' = FALSE
  /\ \E d \in {"never", "ahead"} :
       record' = [text |-> want[t].text, deadline |-> d]
  /\ disk' \in Saved(record')
  /\ Leaves(t)

Restored(t) ==
  /\ Sent(t, "restoring")
  /\ flag' = FALSE
  /\ Leaves(t)
  /\ UNCHANGED <<record, disk>>

\* The sign has been given back, which is recorded.  A save that fails
\* leaves the flag set.
Released(t) ==
  /\ Sent(t, "releasing")
  /\ record' = NoAlert
  /\ \/ disk' = NoAlert /\ flag' = FALSE
     \/ "save" \in Troubles /\ UNCHANGED <<disk, flag>>
  /\ Leaves(t)

Cleared(t) ==
  /\ Sent(t, "clearing")
  /\ flag' = (flag /\ op[t] = "restore")
  /\ Leaves(t)
  /\ UNCHANGED <<record, disk>>

\* The pictures a registry operation brought are drawn.
Drawn(t) ==
  /\ pc[t] = "drawing" /\ op[t] \in {"draw", "refresh"}
  /\ PutsBack(t)
  /\ UNCHANGED <<file, cache, line, doubt>>

-----------------------------------------------------------------------------
(* Failure, and cancellation by a caller that goes away.  A send that was  *)
(* out may yet land, and the controller forgets what it believed; one that *)
(* has been accepted goes unrecorded.                                      *)

\* What a failed send or drawing does to the line; a refresh that fails is
\* still owed, and a restore that fails is not tried again.
Breaks(t) ==
  /\ stage[t] = "asked" \/ pc[t] = "drawing"
  /\ link # "up" /\ link' = "down"
  /\ cache' = Unknown
  /\ owed' = (owed \/ op[t] = "refresh")
  /\ doubt' = IF op[t] = "restore" THEN Missed ELSE doubt
  /\ UNCHANGED file

\* A mistake to refute: a failed alert is not put back, nor owned up to.
FailLeaving(t) ==
  /\ Breaks(t)
  /\ Leaves(t)
  /\ flag' = FALSE
  /\ UNCHANGED <<record, disk>>

Fail(t) == Breaks(t) /\ Unwinds(t)

\* What becomes of a send that nobody waits for any more.
LandsUnseen(t) ==
  /\ stage[t] = "asked" /\ link # "down"
  /\ link' = "up" /\ owed' = (owed \/ link = "dead")
  /\ file' = Contents(t) /\ doubt' = "none"

Cancel(t) ==
  /\ t \in Callers /\ up
  /\ \/ pc[t] \in {"queued", "rendering", "drawing"}
     \/ stage[t] \in {"asked", "accepted"}
  /\ LandsUnseen(t) \/ UNCHANGED <<file, doubt, line>>
  /\ cache' \in IF stage[t] = "asked" THEN {Unknown} ELSE {cache, Unknown}
  /\ Unwinds(t)

-----------------------------------------------------------------------------
(* The world.  A process that stops keeps only the state file; the sign    *)
(* keeps what it holds, unless its own power goes; the controller forgets  *)
(* for reasons of its own; deadlines pass.                                 *)

Crash ==
  /\ "crash" \in Troubles
  /\ cache' = Unknown
  /\ record' = disk
  /\ flag' = FALSE
  /\ registry' = Nobody /\ lock' = Nobody
  /\ op' = [t \in Tasks |-> "none"]
  /\ pc' = [t \in Tasks |-> "idle"]
  /\ stage' = [t \in Tasks |-> "none"]
  /\ want' = [t \in Tasks |-> NoWant]
  /\ up' = FALSE
  /\ owed' = FALSE
  /\ doubt' = "start"
  /\ UNCHANGED <<file, disk, link>>

PowerCycle ==
  /\ "power" \in Troubles
  /\ file' = Free
  /\ doubt' = "wiped"
  /\ UNCHANGED <<cache, alert, registry, lock, op, pc, stage, want, up, line>>

Forget ==
  /\ "forget" \in Troubles
  /\ cache' = Unknown
  /\ UNCHANGED <<file, alert, registry, lock, op, pc, stage, want, up, line,
                 doubt>>

\* The adapter goes, and the connection with it, which nobody is told.
ConnectionDies ==
  /\ link = "up" /\ link' = "dead"
  /\ UNCHANGED <<file, cache, alert, registry, lock, op, pc, stage, want, up,
                 owed, doubt>>

\* Somebody else's write or read finds out, and takes the link down; a write
\* opens it again, if it can.
OthersFindOut ==
  /\ link = "dead" /\ LineIsFree
  /\ \/ link' = "down" /\ cache' \in {cache, Unknown} /\ UNCHANGED owed
     \/ link' = "up" /\ cache' = Unknown /\ owed' = TRUE
  /\ UNCHANGED <<file, alert, registry, lock, op, pc, stage, want, up, doubt>>

\* The loop opens the link and calls the hooks, if there are any yet; but it
\* leaves what was swallowed to a repair that is under way (_connect).
Reconnect ==
  /\ link = "down" /\ link' = "up"
  /\ cache' = Unknown
  /\ \/ up /\ owed' = TRUE /\ UNCHANGED doubt
     \/ /\ up => pc[Refresher] # "idle"
        /\ doubt' = IF doubt = "swallowed" /\ ~owed THEN "missed" ELSE doubt
        /\ UNCHANGED owed
  /\ UNCHANGED <<file, alert, registry, lock, op, pc, stage, want, up>>

Past(a) == IF a.deadline = "ahead" THEN [a EXCEPT !.deadline = "past"] ELSE a

Expire ==
  /\ record' \in {record, Past(record)} /\ disk' \in {disk, Past(disk)}
  /\ record = disk => record' = disk'
  /\ UNCHANGED <<file, cache, flag, registry, lock, op, pc, stage, want, up,
                 line, doubt>>

-----------------------------------------------------------------------------
Decide(t) ==
  \/ HandBack(t) \/ Show(t) \/ GiveBack(t)
  \/ Clear(t) \/ PutOn(t) \/ LeaveAlone(t)

Finish(t) ==
  \/ Handed(t) \/ Raised(t) \/ Restored(t)
  \/ Released(t) \/ Cleared(t) \/ Drawn(t)

Next ==
  \/ \E t \in Callers :
       RaiseAlert(t) \/ Release(t) \/ Draw(t) \/ Reboot(t) \/ Cancel(t)
  \/ Sweep \/ Reassert \/ Refresh \/ EndRefresh
  \/ Restore \/ StartWithoutRestoring
  \/ \E t \in Tasks :
       \/ TakeRegistry(t) \/ TakeLock(t) \/ Refuse(t) \/ Decide(t)
       \/ Land(t) \/ Vanish(t) \/ Reopen(t) \/ Finish(t) \/ Fail(t)
  \/ Crash \/ PowerCycle \/ Forget \/ Expire
  \/ ConnectionDies \/ OthersFindOut \/ Reconnect

Spec == Init /\ [][Next]_vars

\* What makes a refresh re-assert, whatever the sign would answer.
RefreshIsDue == owed \/ flag

(* A task that can go on does, a lock is first come first served, and the  *)
(* loops come round again.                                                 *)
Fairness ==
  /\ \A t \in Tasks \ {Sweeper} : SF_vars(TakeRegistry(t))
  /\ \A t \in Tasks :
       /\ SF_vars(TakeLock(t))
       /\ WF_vars(\/ Decide(t) \/ Finish(t) \/ Land(t) \/ Vanish(t) \/ Reopen(t)
                 \/ Fail(t))
  /\ WF_vars(Sweep) /\ WF_vars(EndRefresh)
  /\ SF_vars(RefreshIsDue /\ (Reassert \/ Refresh))
  /\ WF_vars(Restore \/ StartWithoutRestoring)

FairSpec == Spec /\ Fairness

-----------------------------------------------------------------------------
\* The refresher has begun on what was owed, and has not come to the alert.
Repairing ==
  /\ op[Refresher] \in {"reassert", "refresh"}
  /\ pc[Refresher] \in {"queued", "rendering", "deciding"}

(* Out of doubt, the sign shows the alert that is recorded, or none if     *)
(* none is, through any failure and any cancellation (sign_may_not_match). *)
(* If a dead connection swallowed the alert, the repair is owed as soon as *)
(* there is another (_notice_a_reopen, _after_reconnect); and a start that *)
(* got through has written the file, whatever an earlier one left in it.   *)
SignMatchesRecord ==
  /\ ~flag /\ doubt = "none" => file = record.text
  /\ ~flag /\ doubt = "swallowed" /\ link = "up" /\ record.text \in Texts =>
       owed \/ Repairing
  /\ up => doubt # "start"

(* While pictures are being drawn the sign is not held by an alert, not    *)
(* even by one that nobody recorded (lifted, raise_alert); unless a dead   *)
(* connection swallowed the hand-back, and then they are to be drawn again,*)
(* bar what a reconnect leaves to a repair under way (_connect).           *)
PictureHasTheSign ==
  \A t \in Tasks : pc[t] = "drawing" =>
    \/ file = Free
    \/ doubt = "swallowed" /\ (link = "up" => owed)
    \/ doubt = "missed"

\* What is believed is so, or nobody can know yet that it is not.
BeliefStands ==
  \/ cache = file
  \/ doubt = "wiped"
  \/ doubt = "swallowed" /\ link # "up"

(* Out of doubt, what the controller believes of the file is what it       *)
(* holds, so a write left to the suppression is safely left to it          *)
(* (lifted, _release_locked and _write force theirs otherwise); bar a sign *)
(* that lost power unnoticed, and a connection that died unnoticed.        *)
CacheIsRightOutOfDoubt ==
  ~flag /\ cache # Unknown => BeliefStands

(* While the service runs and its link works, the sign comes to show what  *)
(* is recorded, again and again, whatever was interrupted or swallowed on  *)
(* the way (_refresh_and_reassert, reassert); bar an alert it can no longer*)
(* hold, a sign that has lost its memory and answers that it has not, and a*)
(* release that was swallowed (see SwallowedIsPutRight).                   *)
SignIsPutRight ==
  <>[](up /\ link = "up" /\ doubt \notin {"missed", "wiped"}) =>
    []<>(\/ file = record.text
         \/ record.text = Misfit
         \/ record = NoAlert /\ doubt = "swallowed")

(* What _notice_a_reopen says of a reopened link, that what may have been  *)
(* lost down the old one gets the repair that a reconnect gives, for which *)
(* "the hooks pushed everything again", and _after_reconnect, that its     *)
(* refresh "re-pushes everything without asking": with the link working    *)
(* the sign comes to show what is recorded, if that is no alert as well.   *)
SwallowedIsPutRight ==
  <>[](up /\ link = "up" /\ doubt \notin {"missed", "wiped"}) =>
    []<>(file = record.text)

(* An alert whose deadline has passed is released (sweep).                 *)
ExpiredIsReleased ==
  <>[](up /\ link = "up") => []<>(record.deadline # "past")

(* Every operation ends: two locks taken in one order, and let go of on    *)
(* every way out (raise_alert, lifted, reassert, release).                 *)
EveryOperationEnds == \A t \in Tasks : []<>(pc[t] = "idle")

(* What sweep's docstring says: "Release the alert if its deadline has     *)
(* passed."  The alert a sweep releases is one past its deadline.          *)
SweepReleasesTheExpired ==
  [][pc[Sweeper] = "releasing" /\ record # NoAlert /\ record' = NoAlert
       => record.deadline = "past"]_vars

(* What restore says of a sign holding an alert nobody recorded, that its  *)
(* release "guarantees the rotation is visible", and create_app of a sign  *)
(* that is unreachable at startup, that what is put back then "happens     *)
(* again on the next reconnect": with the service up, its link working and *)
(* no alert recorded, the sign is given back some time.                    *)
TakeoverIsReleased ==
  <>[](up /\ link = "up" /\ record = NoAlert) => []<>(file = Free)

-----------------------------------------------------------------------------
(* What makes those invariants inductive.                                  *)

\* One task at a time is past taking the lock, and only it sends.
LockInv ==
  \A t \in Tasks :
    /\ lock = t <=> pc[t] \in {"deciding", "drawing"} \cup Sends
    /\ stage[t] = "none" <=> pc[t] \notin Sends
    /\ op[t] = "raise" => want[t].text \in Texts
    /\ op[t] = "refresh" => pc[t] \notin {"idle", "queued"}
    /\ pc[t] = "pushing" => op[t] = "none"
    /\ op[t] \in {"release", "sweep"} =>
         pc[t] \in {"idle", "queued", "deciding", "releasing"}
    /\ pc[t] \in {"handing", "drawing"} =>
         op[t] \in {"raise", "draw", "refresh"}
    /\ pc[t] \notin {"idle", "queued"} /\ op[t] \notin {"release", "sweep"} =>
         registry = t

\* What each send is for, that the flag is up while it is out, and what is
\* believed of the file meanwhile.
SendInv ==
  \A t \in Tasks :
    /\ pc[t] = "showing" => op[t] = "raise" /\ flag
    /\ pc[t] = "restoring" => record.text \in Texts /\ flag
    /\ pc[t] = "releasing" => flag
    /\ pc[t] \in {"handing", "drawing"} /\ ~flag => record = NoAlert
    /\ pc[t] = "clearing" =>
         record = NoAlert /\ (op[t] = "restore" \/ stage[t] # "skipped")
    /\ stage[t] = "asked" /\ ~flag => cache = Unknown
    /\ stage[t] = "skipped" => cache \in {Contents(t), Unknown}

\* What a dead connection swallowed is not believed once there is another, and
\* nothing is before something has been accepted.
LineInv ==
  /\ doubt = "swallowed" /\ link = "up" => cache = Unknown
  /\ doubt = "start" => cache = Unknown /\ ~up

\* A send that was accepted has landed, unless the line is still dead; one
\* that was rightly suppressed is what the file holds.
FileInv ==
  /\ doubt = "wiped" => file = Free
  /\ \A t \in Tasks :
       /\ stage[t] = "accepted" =>
            \/ doubt = "none" /\ file = Contents(t)
            \/ doubt = "wiped"
            \/ doubt = "swallowed" /\ link = "dead"
       /\ stage[t] = "skipped" =>
            /\ doubt # "start"
            /\ (pc[t] = "clearing" => ~flag) =>
                 /\ doubt = "none" => file = Contents(t)
                 /\ cache # Unknown => BeliefStands
            /\ doubt = "swallowed" /\ link = "up" /\ registry = t => owed

(* Who holds the alerts' lock, what it is in the middle of sending and what*)
(* the sign holds agree with the record, or the flag is up (AlertService). *)
AlertInv ==
  /\ TypeOK /\ LockInv /\ SendInv /\ LineInv /\ FileInv
  /\ SignMatchesRecord /\ PictureHasTheSign /\ CacheIsRightOutOfDoubt
=============================================================================
