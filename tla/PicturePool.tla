----------------------------- MODULE PicturePool -----------------------------
(***************************************************************************)
(* The icons that messages call, and the few picture files there are for   *)
(* them: the picture half of class SlotRegistry, and raise_alert of class  *)
(* AlertService where it draws (readerboard/services/registry.py and       *)
(* alerts.py).  A message is given a file for each icon it calls before it *)
(* is rendered, since its bytes call the file and not the icon.  A file is *)
(* kept after its last caller goes, until another icon wants it; and what  *)
(* a message took, and what was given up for it, goes back if the message  *)
(* does not reach the sign.                                                *)
(*                                                                         *)
(* The registry's lock is held from the claim to the last send; a step is  *)
(* one send, or what is done between two.  Claiming is one step, because   *)
(* nothing in it waits.  A caller is a slot or the alert, and a message is *)
(* the icons it calls: one that calls none is as good as no message.       *)
(* Losses that no send reports, and the sign's losing its memory, are in   *)
(* SlotRegistry.                                                           *)
(***************************************************************************)
EXTENDS Naturals, Sequences, FiniteSets, SequencesExt

CONSTANTS
  Slots,      \* messages in the rotation, or hidden
  Alert,      \* the one that takes the sign over
  Nobody,
  Icons,      \* icons, each in one tint
  FileCount,  \* picture_count
  Messages,   \* sequences of the icons a message may call
  MaxFaults   \* how often a send fails or a request is cancelled, at most

Callers == Slots \cup {Alert}
Files == 1 .. FileCount
NoFile == 0
Blank == "blank"

ASSUME PicturePoolAssumption ==
  /\ FileCount \in Nat \ {0} /\ MaxFaults \in Nat
  /\ Alert \notin Slots /\ Nobody \notin Callers /\ Blank \notin Icons
  /\ IsFiniteSet(Slots) /\ IsFiniteSet(Icons)
  /\ <<>> \in Messages /\ Messages \subseteq Seq(Icons)

VARIABLES
  pictures,  \* _state.pictures, in the order they were claimed
  held,      \* Layout.pictures: the file that is assigned to each icon
  message,   \* what is recorded for each caller
  drawn,     \* the bitmap in each file of the sign
  shown,     \* the files a caller's text on the sign calls, and for what
  written,   \* the files the controller believes it knows
  dirty,     \* _dirty
  doubt,     \* _sign_may_not_match
  owed,      \* the link has failed, and its reconnect hook has yet to run
  lost,      \* icons given up because they could not be drawn again
  op,        \* the operation that holds the lock
  faults

vars == <<pictures, held, message, drawn, shown, written, dirty, doubt, owed,
          lost, op, faults>>
pool == <<pictures, held, lost>>
sign == <<drawn, shown, written, doubt>>

Picture == [icon : Icons, file : Files]

\* How far an operation is, what it is for, what it took and what it has yet
\* to draw or to write.
Idle == [at |-> "none", who |-> Nobody, text |-> <<>>, claimed |-> {},
         evicted |-> <<>>, todo |-> <<>>, texts |-> {}]

Init ==
  /\ pictures = <<>> /\ held = [i \in Icons |-> NoFile]
  /\ message = [c \in Callers |-> <<>>]
  /\ drawn = [f \in Files |-> Blank] /\ shown = [c \in Callers |-> <<>>]
  /\ written = {} /\ lost = {}
  /\ dirty = FALSE /\ doubt = FALSE /\ owed = FALSE
  /\ op = Idle /\ faults = 0

-----------------------------------------------------------------------------
(* Claims.                                                                 *)

Recorded(ps) == {p.icon : p \in ToSet(ps)}

\* The record less some icons, in the order that is left.
Without(ps, gone) ==
  LET kept[n \in 0 .. Len(ps)] ==
        IF n = 0 THEN <<>>
        ELSE IF ps[n].icon \in gone THEN kept[n - 1]
        ELSE Append(kept[n - 1], ps[n])
  IN kept[Len(ps)]

IconsOf(ps) == [n \in 1 .. Len(ps) |-> ps[n].icon]
FileIn(ps, i) == (CHOOSE p \in ToSet(ps) : p.icon = i).file

\* _render_message, leniently: a call to an icon with no file is left out.
Rendered(m, ps) ==
  [i \in ToSet(m) \cap Recorded(ps) |-> FileIn(ps, i)]

\* A mistake to refute: the message on its way out is asked as well.
InUseByAnyone(i, replacing) == \E c \in Callers : i \in ToSet(message[c])

\* Another: the alert is not asked.
InUseBySlots(i, replacing) ==
  \E c \in Slots \ {replacing} : i \in ToSet(message[c])

InUse(i, replacing) ==
  \E c \in Callers \ {replacing} : i \in ToSet(message[c])

Unassigned(h) == Files \ {h[i] : i \in Icons}

\* What a claim has come to: the pool, and what it took and could not take.
Claim == [pictures |-> pictures, held |-> held,
          claimed |-> <<>>, evicted |-> <<>>, refused |-> {}]

\* The one claimed longest ago that nothing calls is given up.
Evicted(s, keeping, replacing) ==
  LET idle == {n \in DOMAIN s.pictures :
                 /\ s.pictures[n].icon \notin keeping
                 /\ ~InUse(s.pictures[n].icon, replacing)}
      p == s.pictures[Min(idle)]
  IN IF idle = {} THEN s
     ELSE [s EXCEPT !.pictures = Without(@, {p.icon}), !.held[p.icon] = NoFile,
                    !.evicted = Append(@, p)]

Claimed(s, i, keeping, replacing) ==
  LET room == IF Unassigned(s.held) # {} THEN s
              ELSE Evicted(s, keeping, replacing)
      file == Min(Unassigned(room.held))
  IN IF i \in Recorded(s.pictures) THEN s
     ELSE IF Unassigned(room.held) = {} THEN [s EXCEPT !.refused = @ \cup {i}]
     ELSE [room EXCEPT
             !.pictures = Append(@, [icon |-> i, file |-> file]),
             !.held[i] = file, !.claimed = Append(@, i)]

\* One after another, as long as none is refused or for as many as there are.
ClaimAll(wanted, replacing, lenient) ==
  LET after[n \in 0 .. Len(wanted)] ==
        IF n = 0 THEN Claim
        ELSE LET s == after[n - 1]
             IN IF s.refused # {} /\ ~lenient THEN s
                ELSE Claimed(s, wanted[n], ToSet(wanted), replacing)
  IN after[Len(wanted)]

\* _claim_pictures: all that the message calls, or what stopped it.
ClaimsOf(c, m) == ClaimAll(m, c, FALSE)

\* What the messages call, slot by slot, and the alert's last.
Wanted ==
  LET upTo[n \in 0 .. Cardinality(Slots)] ==
        IF n = 0 THEN <<>> ELSE upTo[n - 1] \o message[SetToSeq(Slots)[n]]
  IN upTo[Cardinality(Slots)] \o message[Alert]

\* _reclaim_pictures: what can be had, for every message there is.
Reclaimed == ClaimAll(Wanted, Nobody, TRUE)

Restored(s) == Without(s.pictures, s.claimed) \o s.evicted

\* What was given up comes back, into the files it paid for.
UndoPool(s) ==
  /\ pictures' = Restored(s)
  /\ held' = [i \in Icons |->
                IF i \in Recorded(s.evicted) THEN FileIn(s.evicted, i)
                ELSE IF i \in s.claimed THEN NoFile ELSE s.held[i]]

\* A mistake to refute: nothing owns up to the bitmap that may be in a file
\* that is given back.
UndoUnowned(s) == UndoPool(s) /\ dirty' = dirty

\* _undo_claims.
Undo(s) == UndoPool(s) /\ dirty' = (dirty \/ s.evicted # <<>>)

Took == [pictures |-> pictures, held |-> held,
         claimed |-> op.claimed, evicted |-> op.evicted]

\* A fault is the link's, and the controller forgets the sign, or a caller's.
\* The send that was out may have landed.
Faulty(file) ==
  /\ faults < MaxFaults /\ faults' = faults + 1
  /\ \/ written' = {} /\ owed' = TRUE
     \/ written' = written \ {file} /\ UNCHANGED owed

-----------------------------------------------------------------------------
(* upsert and raise_alert.  The claim comes first, and either the message  *)
(* is refused, or what it claimed is drawn with the sign handed back.      *)

Begin(c, m) ==
  /\ op = Idle
  /\ LET s == ClaimsOf(c, m) IN
       \/ /\ s.refused = {}
          /\ pictures' = s.pictures /\ held' = s.held
          /\ op' = [Idle EXCEPT !.at = "claimed", !.who = c, !.text = m,
                                !.claimed = ToSet(s.claimed),
                                !.evicted = s.evicted, !.todo = s.claimed]
          /\ UNCHANGED dirty
       \/ /\ s.refused # {}
          /\ Undo([s EXCEPT !.claimed = ToSet(@)])
          /\ UNCHANGED op
  /\ UNCHANGED <<message, sign, lost, owed, faults>>

\* It is too long, or there is no slot for it, or an alert is up already; or
\* the alert could not be taken off the sign.
Refuse ==
  /\ op.at = "claimed"
  /\ Undo(Took)
  /\ op' = Idle
  /\ \/ UNCHANGED <<sign, owed, faults>>
     \/ /\ op.claimed # {} /\ Faulty(NoFile)
        /\ doubt' = (doubt \/ message[Alert] # <<>>)
        /\ shown' \in {shown, [shown EXCEPT ![Alert] = <<>>]}
        /\ UNCHANGED drawn
  /\ UNCHANGED <<message, lost>>

HandBack ==
  /\ op.at = "claimed" /\ op.claimed # {}
  /\ shown' = [shown EXCEPT ![Alert] = <<>>]
  /\ doubt' = (doubt \/ message[Alert] # <<>>)
  /\ op' = [op EXCEPT !.at = "draw"]
  /\ UNCHANGED <<pool, message, drawn, written, dirty, owed, faults>>

NothingToDraw ==
  /\ op.at = "claimed" /\ op.claimed = {}
  /\ op' = [op EXCEPT !.at = "write"]
  /\ UNCHANGED <<pool, message, sign, dirty, owed, faults>>

\* _write_picture, of whatever has to be drawn next.
Draw ==
  /\ op.at \in {"draw", "rewrite", "revert"} /\ op.todo # <<>>
  /\ LET i == Head(op.todo)
         f == FileIn(pictures, i)
     IN /\ drawn' = [drawn EXCEPT ![f] = i]
        /\ written' = written \cup {f}
  /\ op' = [op EXCEPT !.todo = Tail(@)]
  /\ UNCHANGED <<pool, message, shown, doubt, dirty, owed, faults>>

\* The alert goes back on the sign, where it was handed back; unless it has
\* expired meanwhile, and is forgotten.
PutBack ==
  /\ op.todo = <<>>
  /\ op.at \in {"rewrite", "revert"} \/ (op.at = "draw" /\ op.who \in Slots)
  /\ \/ /\ shown' = [shown EXCEPT ![Alert] =
                       Rendered(message[Alert], pictures)]
        /\ doubt' = (doubt /\ message[Alert] = <<>>)
        /\ UNCHANGED message
     \/ /\ message' = [message EXCEPT ![Alert] = <<>>]
        /\ UNCHANGED <<shown, doubt>>
  /\ op' = IF op.at = "revert" THEN Idle
           ELSE [op EXCEPT !.at = IF @ = "draw" THEN "write" ELSE "texts"]
  /\ UNCHANGED <<pool, drawn, written, dirty, owed, faults>>

Write ==
  /\ op.todo = <<>>
  /\ op.at = "write" \/ (op.at = "draw" /\ op.who = Alert)
  /\ message' = [message EXCEPT ![op.who] = op.text]
  /\ shown' = [shown EXCEPT ![op.who] = Rendered(op.text, pictures)]
  /\ doubt' = (doubt /\ op.who # Alert)
  /\ lost' = lost \ op.claimed
  /\ op' = Idle
  /\ UNCHANGED <<pictures, held, drawn, written, dirty, owed, faults>>

\* What a drawing that failed may have left in its file all the same.
MayHaveDrawn ==
  IF op.todo = <<>> THEN Faulty(NoFile) /\ UNCHANGED drawn
  ELSE LET i == Head(op.todo)
           f == FileIn(pictures, i)
       IN Faulty(f) /\ drawn' \in {drawn, [drawn EXCEPT ![f] = i]}

\* While a slot's pictures are drawn the alert is off the sign: it is put
\* back, quietly, before the claims are given back; or that fails as well.
FailDrawing ==
  /\ op.at = "draw" /\ op.who \in Slots
  /\ MayHaveDrawn
  /\ \/ /\ shown' = [shown EXCEPT ![Alert] =
                       Rendered(message[Alert], pictures)]
        /\ doubt' = (doubt /\ message[Alert] = <<>>)
     \/ UNCHANGED <<shown, doubt>>
  /\ Undo(Took)
  /\ op' = Idle
  /\ UNCHANGED <<message, lost>>

FailWriting ==
  /\ op.at = "write" /\ op.who \in Slots
  /\ Faulty(NoFile)
  /\ shown' \in
       {shown, [shown EXCEPT ![op.who] = Rendered(op.text, pictures)]}
  /\ UndoPool(Took)
  /\ dirty' = TRUE
  /\ op' = Idle
  /\ UNCHANGED <<message, drawn, doubt, lost>>

\* An alert that was to replace another has what it took given back, and what
\* was given up for it drawn again, before that other is put back.
FailAlert ==
  /\ op.at \in {"draw", "write"} /\ op.who = Alert
  /\ MayHaveDrawn
  /\ \/ UNCHANGED shown
     \/ /\ op.todo = <<>>
        /\ shown' = [shown EXCEPT ![Alert] = Rendered(op.text, pictures)]
  /\ doubt' = TRUE
  /\ Undo(Took)
  /\ \/ /\ op.at = "draw"
        /\ op' = [Idle EXCEPT !.at = "revert", !.who = Alert,
                              !.todo = IconsOf(op.evicted)]
     \/ /\ op.at = "write" \/ message[Alert] = <<>>
        /\ op' = Idle
  /\ UNCHANGED <<message, lost>>

\* A bitmap cannot be drawn again, and its file is given up.
GiveUp ==
  /\ op.at = "revert" /\ op.todo # <<>>
  /\ MayHaveDrawn
  /\ LET i == Head(op.todo) IN
       /\ pictures' = Without(pictures, {i})
       /\ held' = [held EXCEPT ![i] = NoFile]
       /\ lost' = lost \cup {i}
  /\ dirty' = TRUE
  /\ op' = [op EXCEPT !.todo = Tail(@)]
  /\ UNCHANGED <<message, shown, doubt>>

\* The caller goes away while a failure is being put right, or the old alert
\* cannot be put back.
LeaveReverting ==
  /\ op.at = "revert"
  /\ MayHaveDrawn
  /\ op' = Idle
  /\ UNCHANGED <<pool, message, shown, doubt, dirty>>

-----------------------------------------------------------------------------
(* What else happens to the messages.                                      *)

\* remove, clear and sweep; what could not be sent leaves the text there, and
\* a request that is cancelled leaves it so without a word.
Takeoff(k) ==
  /\ op = Idle
  /\ message' = [message EXCEPT ![k] = <<>>]
  /\ \/ /\ shown' = [shown EXCEPT ![k] = <<>>]
        /\ UNCHANGED <<written, dirty, owed, faults>>
     \/ Faulty(NoFile) /\ dirty' \in {dirty, TRUE} /\ UNCHANGED shown
  /\ UNCHANGED <<pool, drawn, doubt, op>>

\* set_active: the text is written again, or blanked.
SetActive(k) ==
  /\ op = Idle
  /\ shown' \in {[shown EXCEPT ![k] = Rendered(message[k], pictures)],
                 [shown EXCEPT ![k] = <<>>]}
  /\ UNCHANGED <<pool, message, drawn, written, dirty, doubt, owed, op,
                 faults>>

\* release does not take the registry's lock, and so comes between the steps
\* of whatever does, but for those that hold the alert service's.
ReleaseAlert ==
  /\ \/ op.at \in {"none", "claimed", "texts"}
     \/ op.at = "write" /\ op.who \in Slots
  /\ \/ /\ message' = [message EXCEPT ![Alert] = <<>>]
        /\ shown' = [shown EXCEPT ![Alert] = <<>>]
        /\ doubt' = FALSE
        /\ UNCHANGED <<written, owed, faults>>
     \/ /\ Faulty(NoFile)
        /\ doubt' = TRUE
        /\ shown' \in {shown, [shown EXCEPT ![Alert] = <<>>]}
        /\ UNCHANGED message
  /\ UNCHANGED <<pool, drawn, dirty, op>>

Reassert ==
  /\ op = Idle
  /\ shown' = [shown EXCEPT ![Alert] = Rendered(message[Alert], pictures)]
  /\ doubt' = FALSE
  /\ UNCHANGED <<pool, message, drawn, written, dirty, owed, op, faults>>

-----------------------------------------------------------------------------
(* The refresh, which asks the sign about one picture if it may, and a     *)
(* reboot, which erases the sign; both write everything again.             *)

FilesOf(ps) == {p.file : p \in ToSet(ps)}

\* When _sign_still_holds_its_pictures asks: a sign that then says yes is
\* left alone, and nothing changes.
Settled == ~dirty /\ FilesOf(pictures) \subseteq written

Rewrite(erase) ==
  /\ op = Idle
  /\ LET s == Reclaimed IN
       /\ pictures' = s.pictures /\ held' = s.held
       /\ lost' = lost \ ToSet(s.claimed)
       /\ op' = [Idle EXCEPT
                   !.at = IF s.pictures = <<>> THEN "texts" ELSE "rewrite",
                   !.texts = Slots, !.todo = IconsOf(s.pictures)]
       /\ shown' = [c \in Callers |->
                      IF erase \/ (c = Alert /\ s.pictures # <<>>)
                        THEN <<>> ELSE shown[c]]
  /\ written' = {}
  /\ drawn' = IF erase THEN [f \in Files |-> Blank] ELSE drawn
  /\ doubt' = (doubt \/ message[Alert] # <<>>)
  /\ UNCHANGED <<message, dirty, owed, faults>>

Refresh == Rewrite(FALSE)
Reboot == Rewrite(TRUE)

Repush ==
  /\ op.at = "texts"
  /\ \E k \in op.texts :
       /\ shown' = [shown EXCEPT ![k] = Rendered(message[k], pictures)]
       /\ op' = IF op.texts = {k} THEN Idle
                ELSE [op EXCEPT !.texts = @ \ {k}]
       /\ dirty' = (dirty /\ op.texts # {k})
  /\ UNCHANGED <<pool, message, drawn, written, doubt, owed, faults>>

\* What a refresh could not write it leaves; the record of what is owed stays.
FailRewrite ==
  /\ op.at \in {"rewrite", "texts"}
  /\ MayHaveDrawn
  /\ \/ /\ shown' = [shown EXCEPT ![Alert] =
                       Rendered(message[Alert], pictures)]
        /\ doubt' = (doubt /\ message[Alert] = <<>>)
     \/ UNCHANGED <<shown, doubt>>
  /\ op' = Idle
  /\ UNCHANGED <<pool, message, dirty>>

\* repush_at_next_refresh, of the hook that runs when the link is back.
Reconnected ==
  /\ op = Idle /\ owed
  /\ owed' = FALSE /\ dirty' = TRUE
  /\ UNCHANGED <<pool, message, sign, op, faults>>

Next ==
  \/ \E c \in Callers, m \in Messages : Begin(c, m)
  \/ Refuse \/ HandBack \/ NothingToDraw \/ Draw \/ PutBack \/ Write
  \/ FailDrawing \/ FailWriting \/ FailAlert \/ GiveUp \/ LeaveReverting
  \/ \E k \in Slots : Takeoff(k) \/ SetActive(k)
  \/ ReleaseAlert \/ Reassert
  \/ Refresh \/ Reboot \/ Repush \/ FailRewrite \/ Reconnected

Spec == Init /\ [][Next]_vars

-----------------------------------------------------------------------------
TypeOK ==
  /\ pictures \in Seq(Picture) /\ held \in [Icons -> Files \cup {NoFile}]
  /\ message \in [Callers -> Messages]
  /\ drawn \in [Files -> Icons \cup {Blank}] /\ written \subseteq Files
  /\ DOMAIN shown = Callers
  /\ dirty \in BOOLEAN /\ doubt \in BOOLEAN /\ owed \in BOOLEAN
  /\ lost \subseteq Icons /\ DOMAIN op = DOMAIN Idle
  /\ faults \in 0 .. MaxFaults

\* The record and the pool name the same files, one for each icon.
RecordIsThePool ==
  /\ \A i \in Icons :
       held[i] = IF i \in Recorded(pictures) THEN FileIn(pictures, i)
                 ELSE NoFile
  /\ Cardinality(FilesOf(pictures)) = Len(pictures)

(* An icon that a recorded message calls, hidden or not, keeps its file,   *)
(* whatever was refused, failed or was cancelled around it, unless it was  *)
(* given up because it could not be drawn again (_icon_in_use, _Claims,    *)
(* _undo_claims, and revert in SlotRegistry.rendering).                    *)
CalledIconsAreKept ==
  \A c \in Callers \ {op.who} :
    ToSet(message[c]) \subseteq Recorded(pictures) \cup lost

(* Whatever was refused, failed or was cancelled, each file holds one icon *)
(* in the record and in the pool alike, and those that are called stay.    *)
PicturePoolInv == TypeOK /\ RecordIsThePool /\ CalledIconsAreKept

(* No message draws another's icon once nothing is known to be wrong, and  *)
(* every picture file has been written since the sign was last in doubt:   *)
(* what makes it safe for a refresh to ask about one picture and leave the *)
(* rest alone (_sign_still_holds_its_pictures), and for a message to go    *)
(* out without drawing an icon that has its file already (_claim_picture). *)
OwnIconsOnly ==
  op = Idle /\ Settled /\ ~owed =>
    \A c \in Callers : (c = Alert => ~doubt) =>
      \A i \in DOMAIN shown[c] \cap ToSet(message[c]) :
        drawn[shown[c][i]] = i

(* A message is refused for want of a file only where it and the others    *)
(* that are recorded ask between them for more icons than there are files, *)
(* as class PicturePoolFull says, and not for what an earlier message, a   *)
(* refusal or a failure has left behind.                                   *)
RefusalIsHonest ==
  op = Idle =>
    \A c \in Callers, m \in Messages :
      ClaimsOf(c, m).refused # {} =>
        Cardinality(ToSet(m) \cup
          UNION {ToSet(message[d]) : d \in Callers \ {c}}) > FileCount
=============================================================================
