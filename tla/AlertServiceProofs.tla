------------------------- MODULE AlertServiceProofs -------------------------
(***************************************************************************)
(* AlertService's invariants, for any callers, any alerts and any mixture  *)
(* of the troubles it is modelled with.  AlertInv is inductive: its parts  *)
(* are the types, who holds the locks, what a send that is out is for, what*)
(* a dead connection leaves to be repaired, and what a send that has been  *)
(* accepted leaves on the sign.                                            *)
(***************************************************************************)
EXTENDS AlertService, TLAPS

LEMMA AlertInit == Init => AlertInv
<1> SUFFICES ASSUME Init PROVE AlertInv
  OBVIOUS
<1> USE AlertAssumption DEF Init, Sends
<1>1. TypeOK
  BY DEF TypeOK, Stored, Alert, NoAlert, Want, NoWant, Ops, Doubts
<1>2. LockInv /\ SendInv /\ LineInv
  BY DEF LockInv, SendInv, LineInv, Tasks
<1>3. FileInv
  BY DEF FileInv
<1>4. SignMatchesRecord /\ PictureHasTheSign /\ CacheIsRightOutOfDoubt
  BY DEF SignMatchesRecord, PictureHasTheSign, CacheIsRightOutOfDoubt
<1>5. QED
  BY <1>1, <1>2, <1>3, <1>4 DEF AlertInv

(* What a task has out is an alert that fits the sign, or nothing.         *)
LEMMA ContentsType ==
  ASSUME TypeOK, LockInv, SendInv, NEW t \in Tasks
  PROVE  Contents(t) \in Texts \cup {Free}
  BY DEF TypeOK, LockInv, SendInv, Contents

(* No alert is the one alert stored without a text; one whose deadline     *)
(* passes is otherwise what it was.                                        *)
LEMMA NoAlertStored ==
  /\ NoAlert \in Stored /\ NoAlert.text = Free /\ NoWant \in Want
  /\ Nobody \notin Tasks /\ Refresher \in Tasks
  /\ \A a \in Stored :
       /\ a.text \in Texts \cup Leftovers \cup {Free}
       /\ a.text = Free <=> a = NoAlert
       /\ Past(a) \in Stored /\ Past(a).text = a.text
  BY AlertAssumption DEF NoAlert, Stored, Alert, NoWant, Want, Tasks, Past

(* At most one task has anything out, or is drawing: the one with the lock.*)
LEMMA OneSends ==
  ASSUME TypeOK, LockInv, NEW t \in Tasks,
         pc[t] \in Sends \cup {"deciding", "drawing"},
         NEW u \in Tasks \ {t}
  PROVE  /\ stage[u] = "none"
         /\ pc[u] \notin Sends \cup {"deciding", "drawing"}
  BY AlertAssumption DEF TypeOK, LockInv, Sends

(* An operation that ends lets go of whatever it holds, and nothing else.  *)
LEMMA LeavesEffect ==
  ASSUME TypeOK, LockInv, NEW t \in Tasks, Leaves(t)
  PROVE  /\ op' \in [Tasks -> Ops]
         /\ pc' \in [Tasks -> {"idle", "queued", "rendering", "deciding",
                               "drawing", "pushing"} \cup Sends]
         /\ stage' \in [Tasks -> {"none", "asked", "skipped", "accepted"}]
         /\ want' \in [Tasks -> Want]
         /\ registry' \in Tasks \cup {Nobody} /\ lock' \in Tasks \cup {Nobody}
         /\ up' \in BOOLEAN /\ up' = (up \/ op[t] = "restore")
         /\ pc'[t] \in {"idle", "pushing"}
         /\ stage'[t] = "none" /\ op'[t] = "none"
         /\ lock' = IF lock = t THEN Nobody ELSE lock
         /\ pc'[t] = "pushing" => registry = t /\ registry' = t
         /\ registry' # registry =>
              registry = t /\ registry' = Nobody /\ pc'[t] = "idle"
         /\ \A u \in Tasks \ {t} :
              /\ pc'[u] = pc[u] /\ stage'[u] = stage[u] /\ op'[u] = op[u]
              /\ want'[u] = want[u]
<1> USE AlertAssumption, NoAlertStored DEF TypeOK, Leaves, Sends, Ops
<1>1. /\ op' \in [Tasks -> Ops]
      /\ pc' \in [Tasks -> {"idle", "queued", "rendering", "deciding",
                            "drawing", "pushing"} \cup Sends]
      /\ stage' \in [Tasks -> {"none", "asked", "skipped", "accepted"}]
      /\ want' \in [Tasks -> Want]
      /\ registry' \in Tasks \cup {Nobody} /\ lock' \in Tasks \cup {Nobody}
      /\ up' \in BOOLEAN /\ up' = (up \/ op[t] = "restore")
  OBVIOUS
<1>2. /\ pc'[t] \in {"idle", "pushing"}
      /\ pc'[t] = "pushing" <=> op[t] = "refresh"
  OBVIOUS
<1>3. pc'[t] = "pushing" => registry = t /\ registry' = t
  BY <1>2 DEF LockInv
<1>4. QED
  BY <1>1, <1>2, <1>3

(* Putting an alert back is a send that is owed to the flag; declining it  *)
(* is an end, and drops at most an alert that had no business on the sign. *)
LEMMA PutsBackEffect ==
  ASSUME TypeOK, LockInv, NEW t \in Tasks, PutsBack(t)
  PROVE  \/ /\ record.text \in Texts /\ flag' = TRUE
            /\ pc' = [pc EXCEPT ![t] = "restoring"]
            /\ stage' = [stage EXCEPT ![t] = "asked"]
            /\ UNCHANGED <<record, disk, registry, lock, op, want, up>>
         \/ /\ record # NoAlert /\ record' = NoAlert
            /\ disk' \in {disk, NoAlert} /\ Leaves(t) /\ UNCHANGED flag
         \/ Leaves(t) /\ UNCHANGED alert
  BY AlertAssumption DEF PutsBack, Saved, Expired, NoAlert

(* What an interrupted task may find done to the line and the sign: nothing*)
(* more than that the link went down, or its own send landed after all.    *)
Unseen(t) ==
  /\ \/ /\ file' = file /\ doubt' \in {doubt, Missed}
        /\ \/ link' = link /\ owed' = owed
           \/ link' = "down" /\ owed' \in {owed, TRUE}
     \/ /\ stage[t] = "asked" /\ file' = Contents(t) /\ doubt' = "none"
        /\ link' = "up" /\ owed' \in {owed, TRUE}
  /\ cache' \in {cache, Unknown}
  /\ stage[t] = "asked" => cache' = Unknown

Holding == {"deciding", "drawing"} \cup Sends

(* An operation that ends, with its lock or without having come to it,     *)
(* leaves nothing out.                                                     *)
LEMMA LeavesKeeps ==
  ASSUME AlertInv, NEW t \in Tasks, Leaves(t),
         file' \in Texts \cup {Free}, cache' \in Texts \cup {Free, Unknown},
         record' \in Stored, disk' \in Stored, flag' \in BOOLEAN,
         link' \in {"up", "dead", "down"}, owed' \in BOOLEAN, doubt' \in Doubts,
         \/ pc[t] \in Holding
         \/ /\ UNCHANGED <<file, alert, line, doubt>>
            /\ cache' \in {cache, Unknown},
         doubt' = "wiped" => file' = Free
  PROVE  TypeOK' /\ LockInv' /\ SendInv' /\ FileInv' /\ PictureHasTheSign'
<1> USE AlertAssumption DEF AlertInv
<1>1. TypeOK'
  BY LeavesEffect DEF TypeOK
<1>2. LockInv'
  BY LeavesEffect, NoAlertStored DEF TypeOK, LockInv, Sends
<1>3. CASE pc[t] \in Holding
  <2>1. \A u \in Tasks : pc'[u] \notin Holding /\ stage'[u] = "none"
    BY <1>3, LeavesEffect, OneSends DEF Holding, Sends
  <2>2. SendInv'
    BY <2>1 DEF SendInv, Holding, Sends
  <2>3. FileInv' /\ PictureHasTheSign'
    BY <2>1 DEF FileInv, PictureHasTheSign, Holding
  <2>4. QED
    BY <1>1, <1>2, <2>2, <2>3
<1>4. CASE UNCHANGED <<file, alert, line, doubt>> /\ cache' \in {cache, Unknown}
  <2> USE <1>4, LeavesEffect DEF alert, line
  <2>1. \A u \in Tasks \ {t} : Contents(u)' = Contents(u)
    BY DEF Contents
  <2>2. SendInv'
    BY <2>1 DEF SendInv, Sends
  <2>3. FileInv'
    BY <2>1, NoAlertStored DEF FileInv, BeliefStands, TypeOK
  <2>4. PictureHasTheSign'
    BY DEF PictureHasTheSign
  <2>5. QED
    BY <1>1, <1>2, <2>2, <2>3, <2>4
<1>5. QED
  BY <1>3, <1>4

(* An operation that is interrupted, or that has drawn its pictures, keeps *)
(* the invariant: it ends, or the alert that was lifted is put back.       *)
LEMMA UnwindKeeps ==
  ASSUME AlertInv, NEW t \in Tasks, Unseen(t),
         t \in Callers \/ pc[t] \in Sends \cup {"drawing"},
         op[t] = "restore" => doubt' # "start",
         pc[t] \in Holding \/ UNCHANGED <<file, line, doubt>>,
         \/ Leaves(t) /\ UNCHANGED alert
         \/ PutsBack(t) /\ pc[t] \in {"drawing", "showing"}
  PROVE  AlertInv'
<1> USE AlertAssumption DEF AlertInv
<1>1. /\ file' \in Texts \cup {Free} /\ cache' \in Texts \cup {Free, Unknown}
      /\ link' \in {"up", "dead", "down"} /\ owed' \in BOOLEAN
      /\ doubt' \in Doubts
      /\ doubt' = "wiped" => file' = Free
      /\ doubt' = "start" => doubt = "start"
  BY ContentsType DEF Unseen, TypeOK, Missed, Doubts, FileInv
<1>2. /\ doubt' = "swallowed" /\ link' = "up" => cache' = Unknown
      /\ doubt' = "start" => cache' = Unknown
  <2>1. doubt' = "swallowed" /\ link' = "up" =>
          doubt = "swallowed" /\ link = "up"
    BY DEF Unseen, Missed
  <2>2. QED
    BY <2>1, <1>1 DEF LineInv, Unseen
<1>3. ASSUME Leaves(t), UNCHANGED flag, record' \in Stored, disk' \in Stored,
             UNCHANGED alert \/ (pc[t] \in Holding /\ flag)
      PROVE  AlertInv'
  <2>1. TypeOK' /\ LockInv' /\ SendInv' /\ FileInv' /\ PictureHasTheSign'
    <3>1. \/ pc[t] \in Holding
          \/ /\ UNCHANGED <<file, alert, line, doubt>>
             /\ cache' \in {cache, Unknown}
      BY <1>3 DEF Unseen
    <3>2. flag' \in BOOLEAN
      BY <1>3 DEF TypeOK
    <3>3. QED
      BY <1>1, <1>3, <3>1, <3>2, LeavesKeeps
  <2>2. up' => doubt' # "start"
    BY <1>1, <1>3, LeavesEffect DEF SignMatchesRecord
  <2>3. LineInv'
    BY <2>2, <1>2, <2>1 DEF LineInv, TypeOK
  <2>4. ~flag => UNCHANGED alert
    BY <1>3
  <2>5. SignMatchesRecord'
    <3>1. ~flag' /\ doubt' = "none" => file' = record'.text
      <4>1. CASE file' = file /\ doubt' \in {doubt, Missed}
        BY <4>1, <1>3, <2>4 DEF SignMatchesRecord, alert, Missed, TypeOK
      <4>2. CASE stage[t] = "asked" /\ file' = Contents(t)
        BY <4>2, <1>3, <2>4, NoAlertStored
        DEF LockInv, SendInv, Contents, alert, TypeOK, Sends
      <4>3. QED
        BY <4>1, <4>2 DEF Unseen
    <3>2. Repairing => Repairing'
      BY <1>3, LeavesEffect, NoAlertStored DEF Repairing, Sends
    <3>3. ASSUME ~flag', doubt' = "swallowed", link' = "up",
                 record'.text \in Texts
          PROVE  owed' \/ Repairing'
      <4>1. doubt = "swallowed" /\ link = "up" /\ owed' = owed
        BY <3>3 DEF Unseen, Missed, TypeOK
      <4>2. QED
        BY <4>1, <3>2, <3>3, <1>3, <2>4 DEF SignMatchesRecord, alert
    <3>4. QED
      BY <2>2, <3>1, <3>3 DEF SignMatchesRecord
  <2>6. CacheIsRightOutOfDoubt'
    BY <1>3, <2>4 DEF CacheIsRightOutOfDoubt, BeliefStands, Unseen, Missed
  <2>7. QED
    BY <2>1, <2>3, <2>5, <2>6
<1>4. ASSUME pc[t] \in {"drawing", "showing"}, record.text \in Texts,
             flag' = TRUE,
             pc' = [pc EXCEPT ![t] = "restoring"],
             stage' = [stage EXCEPT ![t] = "asked"],
             UNCHANGED <<record, disk, registry, lock, op, want, up>>
      PROVE  AlertInv'
  <2> USE <1>4
  <2>1. \A u \in Tasks \ {t} : pc'[u] \notin Holding /\ stage'[u] = "none"
    BY OneSends DEF Holding, Sends, TypeOK
  <2>2. pc'[t] = "restoring" /\ stage'[t] = "asked"
    BY DEF TypeOK
  <2>3. TypeOK'
    BY <1>1 DEF TypeOK, Sends
  <2>4. LockInv'
    BY <2>1, <2>2 DEF LockInv, TypeOK, Sends, Holding
  <2>5. SendInv' /\ FileInv' /\ PictureHasTheSign'
    BY <2>1, <2>2, <1>1 DEF SendInv, FileInv, PictureHasTheSign, Holding, Sends
  <2>6. up' => doubt' # "start"
    BY <1>1 DEF SignMatchesRecord
  <2>7. LineInv'
    BY <2>6, <1>2, <2>3 DEF LineInv, TypeOK
  <2>8. QED
    BY <2>3, <2>4, <2>5, <2>6, <2>7
    DEF SignMatchesRecord, CacheIsRightOutOfDoubt
<1>5. CASE Leaves(t) /\ UNCHANGED alert
  BY <1>5, <1>3 DEF alert, TypeOK
<1>6. CASE PutsBack(t) /\ pc[t] \in {"drawing", "showing"}
  <2>1. CASE record # NoAlert /\ record' = NoAlert /\ disk' \in {disk, NoAlert}
             /\ Leaves(t) /\ UNCHANGED flag
    <3>1. flag
      BY <1>6, <2>1 DEF SendInv
    <3>2. QED
      BY <1>3, <1>6, <2>1, <3>1, NoAlertStored DEF TypeOK, Holding, Sends
  <2>2. QED
    BY <1>4, <1>5, <1>6, <2>1, PutsBackEffect
<1>7. QED
  BY <1>5, <1>6

(* A task that asks changes nothing that is under way.                     *)
LEMMA AsksKeeps ==
  ASSUME AlertInv, NEW t \in Tasks, NEW o \in Ops \ {"none", "refresh"},
         NEW w \in Want, o = "raise" => w.text \in Texts, Asks(t, o, w),
         cache' \in {cache, Unknown},
         \/ UNCHANGED <<file, doubt>>
         \/ /\ LineIsFree /\ registry = Nobody
            /\ doubt' = "wiped" /\ file' = Free /\ cache' = Unknown,
         \/ UNCHANGED owed
         \/ /\ t = Refresher /\ o = "reassert"
            /\ registry = Nobody /\ owed' = FALSE
  PROVE  AlertInv'
<1> USE AlertAssumption, NoAlertStored DEF AlertInv, Asks, alert
<1>1. TypeOK'
  BY DEF TypeOK, Doubts, Sends
<1>2. /\ pc'[t] = "queued" /\ op'[t] = o /\ want'[t] = w /\ stage[t] = "none"
      /\ \A u \in Tasks \ {t} :
           pc'[u] = pc[u] /\ op'[u] = op[u] /\ want'[u] = want[u]
           /\ Contents(u)' = Contents(u)
  BY DEF TypeOK, Contents, LockInv, Sends
<1>3. LockInv'
  BY <1>2 DEF TypeOK, LockInv, Sends, Ops
<1>4. SendInv'
  BY <1>2 DEF SendInv, Sends
<1>5. LineInv'
  BY DEF LineInv
<1>6. FileInv'
  BY <1>2 DEF FileInv, BeliefStands, LineIsFree
<1>7. SignMatchesRecord'
  <2>1. Repairing => t # Refresher
    BY DEF Repairing
  <2>2. Repairing => Repairing'
    BY <1>2, <2>1 DEF Repairing
  <2>3. owed' # owed => Repairing'
    BY <1>2 DEF Repairing
  <2>4. QED
    BY <2>2, <2>3 DEF SignMatchesRecord, TypeOK
<1>8. PictureHasTheSign'
  <2>1. registry = Nobody => \A u \in Tasks : pc[u] # "drawing"
    BY DEF LockInv
  <2>2. QED
    BY <1>2, <2>1 DEF PictureHasTheSign, TypeOK
<1>9. CacheIsRightOutOfDoubt'
  BY DEF CacheIsRightOutOfDoubt, BeliefStands
<1>10. QED
  BY <1>1, <1>3, <1>4, <1>5, <1>6, <1>7, <1>8, <1>9

(* A send that is begun is owned up to by the flag where an alert is at    *)
(* stake, and is suppressed only when what it would write is there.        *)
Begun(t, at, c) ==
  /\ pc' = [pc EXCEPT ![t] = at]
  /\ \/ /\ stage' = [stage EXCEPT ![t] = "skipped"]
        /\ cache = c /\ cache' = c
        /\ ~flag \/ (at = "clearing" /\ flag')
        /\ at = "clearing" => op[t] = "restore"
     \/ /\ stage' = [stage EXCEPT ![t] = "asked"]
        /\ cache' = Unknown \/ (cache' = cache /\ flag')
  /\ UNCHANGED <<file, registry, lock, op, want, up, line, doubt>>

LEMMA BeginsKeeps ==
  ASSUME AlertInv, NEW t \in Tasks, pc[t] \in {"deciding", "drawing"},
         NEW at \in Sends, NEW c \in Texts \cup {Free},
         Begun(t, at, c), Contents(t)' = c,
         UNCHANGED <<record, disk>>, flag' \in BOOLEAN, flag => flag',
         ~flag' => at \in {"handing", "clearing"} /\ record = NoAlert,
         at = "handing" => op[t] \in {"raise", "draw", "refresh"},
         at # "releasing" => op[t] \notin {"release", "sweep"},
         at = "showing" => op[t] = "raise",
         at = "restoring" => record.text \in Texts,
         at = "clearing" =>
           record = NoAlert /\ op[t] \in {"restore", "reassert"}
  PROVE  AlertInv'
<1> USE AlertAssumption, NoAlertStored DEF AlertInv, Begun, line
<1>1. TypeOK'
  BY DEF TypeOK
<1>2. /\ pc'[t] = at /\ stage'[t] \in {"skipped", "asked"}
      /\ stage'[t] = "skipped" =>
           /\ cache = c /\ cache' = c /\ (~flag \/ (at = "clearing" /\ flag'))
           /\ at = "clearing" => op[t] = "restore"
      /\ stage'[t] = "asked" => cache' = Unknown \/ (cache' = cache /\ flag')
      /\ cache' \in {cache, Unknown}
  BY DEF TypeOK
<1>3. \A u \in Tasks \ {t} : /\ stage'[u] = "none" /\ stage[u] = "none"
                             /\ pc'[u] = pc[u] /\ pc[u] \notin Holding
  BY OneSends DEF TypeOK, Holding, Sends
<1>4. LockInv'
  BY <1>2, <1>3 DEF TypeOK, LockInv, Holding, Sends
<1>5. SendInv'
  BY <1>2, <1>3 DEF SendInv, Holding, Sends
<1>6. LineInv'
  BY <1>2 DEF LineInv
<1>7. FileInv'
  <2>1. ASSUME stage'[t] = "skipped"
        PROVE  /\ doubt # "start" /\ ~(doubt = "swallowed" /\ link = "up")
               /\ (at = "clearing" => ~flag') => ~flag /\ BeliefStands
    BY <1>2, <2>1 DEF LineInv, CacheIsRightOutOfDoubt
  <2>2. QED
    BY <1>2, <1>3, <2>1 DEF FileInv, BeliefStands
<1>8. SignMatchesRecord'
  BY DEF SignMatchesRecord, TypeOK
<1>9. PictureHasTheSign'
  BY <1>2, <1>3 DEF PictureHasTheSign, Holding, Sends
<1>10. CacheIsRightOutOfDoubt'
  BY <1>2 DEF CacheIsRightOutOfDoubt, BeliefStands, TypeOK
<1>11. QED
  BY <1>1, <1>4, <1>5, <1>6, <1>7, <1>8, <1>9, <1>10

(* What is known when a send is over.                                      *)
LEMMA SentFacts ==
  ASSUME AlertInv, NEW t \in Tasks, NEW at \in Sends, Sent(t, at)
  PROVE  /\ pc[t] = at /\ pc[t] \in Holding
         /\ cache' \in Texts \cup {Free, Unknown}
         /\ UNCHANGED <<file, doubt, link, owed>>
         /\ doubt # "start" /\ (doubt = "wiped" => file = Free)
         /\ doubt = "swallowed" /\ link = "up" =>
              cache' = Unknown /\ (registry = t => owed)
         /\ (at = "clearing" => ~flag \/ stage[t] # "skipped") =>
              /\ doubt = "none" => file = Contents(t)
              /\ cache' # Unknown => BeliefStands'
         /\ at = "handing" /\ doubt \notin {"swallowed", "missed"} =>
              file = Free
<1> USE AlertAssumption DEF AlertInv, Sent, line
<1>1. pc[t] = at /\ pc[t] \in Holding /\ Contents(t) \in Texts \cup {Free}
  BY ContentsType DEF Holding
<1>2. CASE stage[t] = "accepted"
  BY <1>1, <1>2 DEF FileInv, BeliefStands, TypeOK, Contents, Doubts
<1>3. CASE stage[t] = "skipped"
  <2>1. cache' = cache /\ UNCHANGED <<file, doubt, link, owed>>
    BY <1>3
  <2>2. /\ doubt # "start" /\ (doubt = "wiped" => file = Free)
        /\ doubt = "swallowed" /\ link = "up" =>
             cache' = Unknown /\ (registry = t => owed)
    BY <1>3, <2>1 DEF FileInv, LineInv
  <2>3. (at = "clearing" => ~flag) =>
          /\ doubt = "none" => file = Contents(t)
          /\ cache' # Unknown => BeliefStands'
    BY <1>1, <1>3, <2>1 DEF FileInv, BeliefStands
  <2>4. at = "handing" /\ doubt \notin {"swallowed", "missed"} => file = Free
    BY <1>1, <2>2, <2>3 DEF Contents, TypeOK, Doubts
  <2>5. QED
    BY <1>1, <1>3, <2>1, <2>2, <2>3, <2>4 DEF TypeOK
<1>4. QED
  BY <1>2, <1>3

(* A send that ends its operation: what it leaves recorded is on the sign. *)
LEMMA EndsKeeps ==
  ASSUME AlertInv, NEW t \in Tasks, NEW at \in Sends, Sent(t, at), Leaves(t),
         record' \in Stored, disk' \in Stored, flag' \in BOOLEAN,
         ~flag' => /\ record'.text = Contents(t)
                   /\ at = "clearing" => ~flag \/ stage[t] # "skipped"
                   /\ record'.text \in Texts => registry = t
  PROVE  AlertInv'
<1> USE AlertAssumption DEF AlertInv
<1>1. TypeOK' /\ LockInv' /\ SendInv' /\ FileInv' /\ PictureHasTheSign'
  <2>1. /\ file' \in Texts \cup {Free} /\ doubt' \in Doubts
        /\ link' \in {"up", "dead", "down"} /\ owed' \in BOOLEAN
    BY SentFacts DEF TypeOK
  <2>2. QED
    BY <2>1, SentFacts, LeavesKeeps
<1>2. LineInv' /\ SignMatchesRecord'
  BY SentFacts, LeavesEffect, <1>1 DEF LineInv, SignMatchesRecord
<1>3. CacheIsRightOutOfDoubt'
  BY SentFacts DEF CacheIsRightOutOfDoubt
<1>4. QED
  BY <1>1, <1>2, <1>3

(* A send that has been accepted is on the sign, or a dead connection has  *)
(* swallowed it.                                                           *)
LEMMA AcceptedKeeps ==
  ASSUME AlertInv, NEW t \in Tasks, stage[t] = "asked",
         stage' = [stage EXCEPT ![t] = "accepted"],
         \/ file' = Contents(t) /\ doubt' = "none"
         \/ file' = file /\ doubt' = "swallowed" /\ link' = "dead",
         link' \in {"up", "dead"}, owed' \in BOOLEAN,
         cache' \in {cache, Unknown},
         UNCHANGED <<record, disk, flag, registry, lock, op, pc, want, up>>
  PROVE  AlertInv'
<1> USE AlertAssumption, NoAlertStored DEF AlertInv
<1>1. Contents(t) \in Texts \cup {Free} /\ pc[t] \in Sends
  BY ContentsType DEF LockInv
<1>2. TypeOK'
  BY <1>1 DEF TypeOK, Doubts
<1>3. /\ stage'[t] = "accepted"
      /\ \A u \in Tasks \ {t} : /\ stage'[u] = "none"
                                /\ pc[u] \notin Holding
      /\ \A u \in Tasks : Contents(u)' = Contents(u)
  BY <1>1, OneSends DEF TypeOK, Holding, Sends, Contents
<1>4. LockInv'
  BY <1>1, <1>3 DEF LockInv, Holding
<1>5. SendInv'
  BY <1>1, <1>3 DEF SendInv
<1>6. LineInv' /\ FileInv'
  BY <1>3 DEF LineInv, FileInv
<1>7. PictureHasTheSign'
  BY <1>1, <1>3 DEF PictureHasTheSign, Holding, Sends
<1>8. ~flag => Contents(t) = record.text /\ cache = Unknown
  BY <1>1 DEF SendInv, Contents, Sends
<1>9. SignMatchesRecord' /\ CacheIsRightOutOfDoubt'
  BY <1>8 DEF SignMatchesRecord, CacheIsRightOutOfDoubt
<1>10. QED
  BY <1>2, <1>4, <1>5, <1>6, <1>7, <1>9

LEMMA AlertStep == AlertInv /\ [Next]_vars => AlertInv'
<1> SUFFICES ASSUME AlertInv, [Next]_vars PROVE AlertInv'
  OBVIOUS
<1> USE AlertAssumption DEF AlertInv
<1>1. ASSUME NEW t \in Callers,
               RaiseAlert(t) \/ Release(t) \/ Draw(t) \/ Reboot(t)
        PROVE  AlertInv'
  <2>1. t \in Tasks /\ NoWant \in Want
    BY NoAlertStored DEF Tasks
  <2>2. CASE RaiseAlert(t)
    <3>1. PICK x \in Texts, p \in BOOLEAN :
            Asks(t, "raise", [text |-> x, pictures |-> p])
      BY <2>2 DEF RaiseAlert
    <3>2. [text |-> x, pictures |-> p] \in Want /\ "raise" \in Ops
      BY DEF Want, Ops
    <3>3. UNCHANGED <<file, cache, owed, doubt>>
      BY <2>2 DEF RaiseAlert
    <3>4. QED
      BY <2>1, <3>1, <3>2, <3>3, AsksKeeps
  <2>3. CASE Release(t)
    BY <2>1, <2>3, AsksKeeps DEF Release, Ops
  <2>4. CASE Draw(t)
    BY <2>1, <2>4, AsksKeeps DEF Draw, Ops
  <2>5. CASE Reboot(t)
    BY <2>1, <2>5, AsksKeeps DEF Reboot, Ops
  <2>6. QED
    BY <1>1, <2>2, <2>3, <2>4, <2>5
<1>2. ASSUME Sweep \/ Reassert \/ Restore PROVE AlertInv'
  <2>1. Sweeper \in Tasks /\ Refresher \in Tasks /\ NoWant \in Want
    BY NoAlertStored DEF Tasks
  <2>2. CASE Sweep
    BY <2>1, <2>2, AsksKeeps DEF Sweep, Ops
  <2>3. CASE Reassert
    BY <2>1, <2>3, AsksKeeps DEF Reassert, Ops
  <2>4. CASE Restore
    BY <2>1, <2>4, AsksKeeps DEF Restore, Ops
  <2>5. QED
    BY <1>2, <2>2, <2>3, <2>4
<1>3. CASE Refresh
  <2> USE <1>3 DEF Refresh, alert, line
  <2>1. TypeOK'
    BY NoAlertStored DEF TypeOK, Ops
  <2>2. LockInv'
    BY NoAlertStored DEF LockInv, Sends, TypeOK
  <2>3. SendInv'
    BY NoAlertStored DEF SendInv, Contents, Sends
  <2>4. LineInv'
    BY NoAlertStored DEF LineInv
  <2>5. FileInv'
    BY NoAlertStored DEF FileInv, Contents, BeliefStands, TypeOK, LockInv, Sends
  <2>6. SignMatchesRecord'
    BY NoAlertStored DEF SignMatchesRecord, Repairing, TypeOK
  <2>7. PictureHasTheSign'
    BY NoAlertStored DEF PictureHasTheSign, LockInv
  <2>8. CacheIsRightOutOfDoubt'
    BY NoAlertStored DEF CacheIsRightOutOfDoubt, BeliefStands
  <2>9. QED
    BY <2>1, <2>2, <2>3, <2>4, <2>5, <2>6, <2>7, <2>8
<1>4. CASE EndRefresh
  <2> USE <1>4 DEF EndRefresh, alert, line
  <2>1. TypeOK'
    BY NoAlertStored DEF TypeOK
  <2>2. LockInv'
    BY NoAlertStored DEF LockInv, TypeOK, Sends
  <2>3. SendInv'
    BY NoAlertStored DEF SendInv, Contents, TypeOK, Sends
  <2>4. LineInv'
    BY NoAlertStored DEF LineInv
  <2>5. FileInv'
    BY NoAlertStored DEF FileInv, Contents, BeliefStands, LockInv, TypeOK
  <2>6. SignMatchesRecord'
    BY NoAlertStored DEF SignMatchesRecord, Repairing, TypeOK
  <2>7. PictureHasTheSign'
    BY NoAlertStored DEF PictureHasTheSign, TypeOK
  <2>8. CacheIsRightOutOfDoubt'
    BY NoAlertStored DEF CacheIsRightOutOfDoubt, BeliefStands
  <2>9. QED
    BY <2>1, <2>2, <2>3, <2>4, <2>5, <2>6, <2>7, <2>8
<1>5. CASE StartWithoutRestoring
  <2> USE <1>5 DEF StartWithoutRestoring, alert, line
  <2>1. TypeOK'
    BY DEF TypeOK, Doubts, Missed
  <2>2. LockInv'
    BY DEF LockInv
  <2>3. SendInv'
    BY DEF SendInv, Contents, Sends
  <2>4. LineInv'
    BY DEF LineInv, Missed, SignMatchesRecord
  <2>5. FileInv'
    BY DEF FileInv, Contents, LockInv, Sends, Missed
  <2>6. SignMatchesRecord'
    BY DEF SignMatchesRecord, Missed, Repairing
  <2>7. PictureHasTheSign'
    BY DEF PictureHasTheSign, Missed
  <2>8. CacheIsRightOutOfDoubt'
    BY DEF CacheIsRightOutOfDoubt, BeliefStands, Missed
  <2>9. QED
    BY <2>1, <2>2, <2>3, <2>4, <2>5, <2>6, <2>7, <2>8
<1>6. ASSUME NEW t \in Tasks, TakeRegistry(t) PROVE AlertInv'
  <2> USE <1>6 DEF TakeRegistry, alert, line
  <2>1. TypeOK'
    BY NoAlertStored DEF TypeOK
  <2>2. LockInv'
    BY NoAlertStored DEF LockInv, TypeOK, Sends
  <2>3. SendInv'
    BY NoAlertStored DEF SendInv, Contents, TypeOK, Sends
  <2>4. LineInv'
    BY NoAlertStored DEF LineInv
  <2>5. FileInv'
    BY NoAlertStored DEF FileInv, Contents, BeliefStands, LockInv, TypeOK, Sends
  <2>6. SignMatchesRecord'
    BY NoAlertStored DEF SignMatchesRecord, Repairing, TypeOK
  <2>7. PictureHasTheSign'
    BY NoAlertStored DEF PictureHasTheSign, TypeOK
  <2>8. CacheIsRightOutOfDoubt'
    BY NoAlertStored DEF CacheIsRightOutOfDoubt, BeliefStands
  <2>9. QED
    BY <2>1, <2>2, <2>3, <2>4, <2>5, <2>6, <2>7, <2>8
<1>7. ASSUME NEW t \in Tasks, TakeLock(t) PROVE AlertInv'
  <2> USE <1>7 DEF TakeLock, alert, line
  <2>1. TypeOK'
    BY NoAlertStored DEF TypeOK
  <2>2. LockInv'
    BY NoAlertStored DEF LockInv, TypeOK, Sends
  <2>3. SendInv'
    BY NoAlertStored DEF SendInv, Contents, TypeOK, Sends
  <2>4. LineInv'
    BY NoAlertStored DEF LineInv
  <2>5. FileInv'
    BY NoAlertStored DEF FileInv, Contents, BeliefStands, LockInv, TypeOK, Sends
  <2>6. SignMatchesRecord'
    BY NoAlertStored DEF SignMatchesRecord, Repairing, TypeOK
  <2>7. PictureHasTheSign'
    BY NoAlertStored DEF PictureHasTheSign, TypeOK
  <2>8. CacheIsRightOutOfDoubt'
    BY NoAlertStored DEF CacheIsRightOutOfDoubt, BeliefStands
  <2>9. QED
    BY <2>1, <2>2, <2>3, <2>4, <2>5, <2>6, <2>7, <2>8
<1>8. ASSUME NEW t \in Tasks, Refuse(t) \/ LeaveAlone(t) PROVE AlertInv'
  <2> USE <1>8
  <2>1. /\ Leaves(t) /\ UNCHANGED <<file, cache, alert, line, doubt>>
        /\ pc[t] = "deciding" /\ op[t] # "restore"
    BY DEF Refuse, LeaveAlone
  <2>2. TypeOK' /\ LockInv' /\ SendInv' /\ FileInv' /\ PictureHasTheSign'
    BY <2>1, LeavesKeeps DEF TypeOK, FileInv, Holding, alert, line
  <2>3. up' = up
    BY <2>1, LeavesEffect DEF TypeOK
  <2>4. record.text \in Texts => (Repairing => Repairing')
    BY <2>1, LeavesEffect, NoAlertStored
    DEF Repairing, Refuse, LeaveAlone
  <2>5. SignMatchesRecord' /\ LineInv' /\ CacheIsRightOutOfDoubt'
    BY <2>1, <2>3, <2>4
    DEF SignMatchesRecord, LineInv, CacheIsRightOutOfDoubt, BeliefStands, alert,
        line
  <2>6. QED
    BY <2>2, <2>5
<1>9. ASSUME NEW t \in Tasks, HandBack(t) PROVE AlertInv'
  <2>1. /\ pc[t] = "deciding" /\ op[t] \in {"raise", "draw", "refresh"}
        /\ Begun(t, "handing", Free) /\ Contents(t)' = Free
        /\ UNCHANGED <<record, disk>> /\ flag' \in BOOLEAN /\ (flag => flag')
        /\ ~flag' => record = NoAlert
    BY <1>9 DEF HandBack, Begins, Begun, Contents, TypeOK
  <2>2. QED
    BY <2>1, BeginsKeeps DEF TypeOK, Sends
<1>10. ASSUME NEW t \in Tasks, Show(t) PROVE AlertInv'
  <2>1. /\ pc[t] \in {"deciding", "drawing"} /\ op[t] = "raise"
        /\ Begun(t, "showing", want[t].text)
        /\ Contents(t)' = want[t].text /\ want[t].text \in Texts
        /\ UNCHANGED <<record, disk>> /\ flag' = TRUE
    BY <1>10 DEF Show, Begins, Begun, Contents, TypeOK, LockInv
  <2>2. QED
    BY <2>1, BeginsKeeps DEF TypeOK, Sends
<1>11. ASSUME NEW t \in Tasks, GiveBack(t) PROVE AlertInv'
  <2>1. /\ pc[t] = "deciding" /\ Begun(t, "releasing", Free)
        /\ Contents(t)' = Free /\ UNCHANGED <<record, disk>> /\ flag' = TRUE
    BY <1>11 DEF GiveBack, Begins, Begun, Contents, TypeOK
  <2>2. QED
    BY <2>1, BeginsKeeps DEF TypeOK, Sends
<1>12. ASSUME NEW t \in Tasks, Clear(t) PROVE AlertInv'
  <2>1. /\ pc[t] = "deciding" /\ record = NoAlert
        /\ op[t] \in {"restore", "reassert"}
        /\ Begun(t, "clearing", Free) /\ Contents(t)' = Free
        /\ UNCHANGED <<record, disk>> /\ flag' = flag
    BY <1>12 DEF Clear, Begins, Begun, Contents, TypeOK, alert
  <2>2. QED
    BY <2>1, BeginsKeeps DEF TypeOK, Sends
<1>13. ASSUME NEW t \in Tasks, PutOn(t) PROVE AlertInv'
  <2>1. /\ pc[t] = "deciding" /\ op[t] \in {"reassert", "restore"}
        /\ Begun(t, "restoring", record.text)
        /\ Contents(t)' = record.text /\ record.text \in Texts
        /\ UNCHANGED <<record, disk>> /\ flag' = TRUE
    BY <1>13 DEF PutOn, Begins, Begun, Contents, TypeOK
  <2>2. QED
    BY <2>1, BeginsKeeps DEF TypeOK, Sends
<1>14. ASSUME NEW t \in Tasks, Land(t) \/ Vanish(t) \/ Reopen(t) PROVE AlertInv'
  <2> USE DEF alert, line
  <2>1. CASE Land(t)
    BY <2>1, AcceptedKeeps DEF Land, TypeOK
  <2>2. CASE Vanish(t)
    BY <2>2, AcceptedKeeps DEF Vanish, TypeOK
  <2>3. CASE Reopen(t)
    BY <2>3, AcceptedKeeps DEF Reopen
  <2>4. QED
    BY <1>14, <2>1, <2>2, <2>3
<1>15. ASSUME NEW t \in Tasks, Handed(t) PROVE AlertInv'
  <2> USE DEF alert
  <2>1. /\ pc[t] = "handing" /\ Sent(t, "handing") /\ "handing" \in Sends
        /\ pc' = [pc EXCEPT ![t] = "drawing"]
        /\ stage' = [stage EXCEPT ![t] = "none"]
        /\ UNCHANGED <<record, disk, flag, registry, lock, op, want, up>>
    BY <1>15 DEF Handed, Sent, Sends
  <2>2. /\ cache' \in Texts \cup {Free, Unknown}
        /\ UNCHANGED <<file, doubt, link, owed>> /\ doubt # "start"
        /\ doubt = "swallowed" /\ link = "up" => cache' = Unknown /\ owed
        /\ cache' # Unknown => BeliefStands'
        /\ doubt \notin {"swallowed", "missed"} => file = Free
    BY <2>1, SentFacts DEF LockInv, Sends
  <2>3. \A u \in Tasks \ {t} : /\ stage'[u] = "none"
                                /\ pc'[u] = pc[u] /\ pc[u] \notin Holding
    BY <2>1, OneSends DEF TypeOK, Holding, Sends
  <2>4. pc'[t] = "drawing" /\ stage'[t] = "none"
    BY <2>1 DEF TypeOK
  <2>5. TypeOK'
    BY <2>1, <2>2 DEF TypeOK
  <2>6. LockInv'
    BY <2>1, <2>3, <2>4 DEF LockInv, Holding, Sends
  <2>7. SendInv'
    BY <2>1, <2>3, <2>4 DEF SendInv, Holding, Sends
  <2>8. FileInv'
    BY <2>2, <2>3, <2>4 DEF FileInv
  <2>9. SignMatchesRecord'
    <3>1. Repairing => Repairing'
      BY <2>1 DEF Repairing, TypeOK
    <3>2. QED
      BY <2>1, <2>2, <3>1 DEF SignMatchesRecord
  <2>10. PictureHasTheSign'
    BY <2>2, <2>3, <2>4 DEF PictureHasTheSign, Holding
  <2>11. LineInv' /\ CacheIsRightOutOfDoubt'
    BY <2>2 DEF LineInv, CacheIsRightOutOfDoubt
  <2>12. QED
    BY <2>5, <2>6, <2>7, <2>8, <2>9, <2>10, <2>11
<1>16. ASSUME NEW t \in Tasks, Raised(t) PROVE AlertInv'
  <2>1. PICK d \in {"never", "ahead"} :
          record' = [text |-> want[t].text, deadline |-> d]
    BY <1>16 DEF Raised
  <2>2. /\ Sent(t, "showing") /\ Leaves(t) /\ pc[t] = "showing"
        /\ flag' = FALSE /\ disk' \in {disk, record'}
    BY <1>16 DEF Raised, Sent, Saved
  <2>3. want[t].text \in Texts /\ registry = t /\ Contents(t) = want[t].text
    BY <2>2 DEF SendInv, LockInv, Contents
  <2>4. record' \in Stored /\ record'.text = want[t].text
    BY <2>1, <2>3 DEF Stored, Alert
  <2>5. disk' \in Stored
    BY <2>2, <2>4 DEF TypeOK
  <2>6. QED
    BY <2>2, <2>3, <2>4, <2>5, EndsKeeps DEF Sends
<1>17. ASSUME NEW t \in Tasks, Restored(t) PROVE AlertInv'
  <2>1. /\ Sent(t, "restoring") /\ Leaves(t) /\ pc[t] = "restoring"
        /\ flag' = FALSE /\ UNCHANGED <<record, disk>>
    BY <1>17 DEF Restored, Sent
  <2>2. registry = t /\ Contents(t) = record.text
    BY <2>1 DEF LockInv, Contents
  <2>3. QED
    BY <2>1, <2>2, EndsKeeps DEF Sends, TypeOK
<1>18. ASSUME NEW t \in Tasks, Released(t) PROVE AlertInv'
  <2>1. /\ Sent(t, "releasing") /\ Leaves(t) /\ pc[t] = "releasing"
        /\ record' = NoAlert /\ disk' \in {disk, NoAlert}
        /\ flag' \in {flag, FALSE}
    BY <1>18 DEF Released, Sent
  <2>2. record'.text = Free /\ Contents(t) = Free
    BY <2>1, NoAlertStored DEF Contents
  <2>3. QED
    BY <2>1, <2>2, EndsKeeps, NoAlertStored DEF Sends, TypeOK
<1>19. ASSUME NEW t \in Tasks, Cleared(t) PROVE AlertInv'
  <2>1. /\ Sent(t, "clearing") /\ Leaves(t) /\ pc[t] = "clearing"
        /\ flag' = (flag /\ op[t] = "restore") /\ UNCHANGED <<record, disk>>
    BY <1>19 DEF Cleared, Sent
  <2>2. record = NoAlert /\ (op[t] = "restore" \/ stage[t] # "skipped")
    BY <2>1 DEF SendInv
  <2>3. Contents(t) = Free
    BY <2>1 DEF Contents
  <2>4. QED
    BY <2>1, <2>2, <2>3, EndsKeeps, NoAlertStored DEF Sends, TypeOK
<1>20. ASSUME NEW t \in Tasks, Drawn(t) PROVE AlertInv'
  <2>1. /\ pc[t] = "drawing" /\ op[t] # "restore" /\ PutsBack(t)
        /\ UNCHANGED <<file, cache, line, doubt>>
    BY <1>20 DEF Drawn
  <2>2. stage[t] # "asked"
    BY <2>1 DEF LockInv, Sends
  <2>3. QED
    BY <2>1, <2>2, UnwindKeeps DEF Unseen, line, Holding
<1>21. ASSUME NEW t \in Tasks, Fail(t) PROVE AlertInv'
  <2>1. /\ stage[t] = "asked" \/ pc[t] = "drawing"
        /\ link' = "down" /\ cache' = Unknown /\ owed' \in {owed, TRUE}
        /\ file' = file /\ doubt' \in {doubt, Missed}
        /\ op[t] = "restore" => doubt' # "start"
        /\ Unwinds(t)
    BY <1>21 DEF Fail, Breaks, Missed, TypeOK
  <2>2. pc[t] \in Sends \cup {"drawing"}
    BY <2>1 DEF LockInv
  <2>3. QED
    BY <2>1, <2>2, UnwindKeeps DEF Unseen, Unwinds, Holding
<1>22. ASSUME NEW t \in Tasks, Cancel(t) PROVE AlertInv'
  <2>1. /\ t \in Callers /\ up /\ Unwinds(t)
        /\ LandsUnseen(t) \/ UNCHANGED <<file, doubt, line>>
        /\ cache' \in IF stage[t] = "asked" THEN {Unknown} ELSE {cache, Unknown}
    BY <1>22 DEF Cancel
  <2>2. doubt # "start"
    BY <2>1 DEF SignMatchesRecord
  <2>3. stage[t] = "asked" => pc[t] \in Holding
    BY DEF LockInv, Holding
  <2>4. CASE LandsUnseen(t)
    BY <2>1, <2>3, <2>4, UnwindKeeps DEF LandsUnseen, Unseen, Unwinds, TypeOK
  <2>5. CASE UNCHANGED <<file, doubt, line>>
    BY <2>1, <2>2, <2>5, UnwindKeeps DEF Unseen, Unwinds, line
  <2>6. QED
    BY <2>1, <2>4, <2>5
<1>23. CASE Crash
  <2> USE <1>23 DEF Crash, alert, line
  <2>1. TypeOK'
    BY NoAlertStored DEF TypeOK, Ops, Doubts
  <2>2. LockInv'
    BY NoAlertStored DEF LockInv, Sends
  <2>3. SendInv'
    BY NoAlertStored DEF SendInv, Contents, Sends
  <2>4. LineInv'
    BY NoAlertStored DEF LineInv
  <2>5. FileInv'
    BY NoAlertStored DEF FileInv, Contents
  <2>6. SignMatchesRecord'
    BY NoAlertStored DEF SignMatchesRecord
  <2>7. PictureHasTheSign'
    BY NoAlertStored DEF PictureHasTheSign
  <2>8. CacheIsRightOutOfDoubt'
    BY NoAlertStored DEF CacheIsRightOutOfDoubt
  <2>9. QED
    BY <2>1, <2>2, <2>3, <2>4, <2>5, <2>6, <2>7, <2>8
<1>24. CASE PowerCycle
  <2> USE <1>24 DEF PowerCycle, alert, line
  <2>1. TypeOK'
    BY NoAlertStored DEF TypeOK, Doubts
  <2>2. LockInv'
    BY NoAlertStored DEF LockInv
  <2>3. SendInv'
    BY NoAlertStored DEF SendInv, Contents
  <2>4. LineInv'
    BY NoAlertStored DEF LineInv
  <2>5. FileInv'
    BY NoAlertStored DEF FileInv, Contents, BeliefStands
  <2>6. SignMatchesRecord'
    BY NoAlertStored DEF SignMatchesRecord, Repairing
  <2>7. PictureHasTheSign'
    BY NoAlertStored DEF PictureHasTheSign
  <2>8. CacheIsRightOutOfDoubt'
    BY NoAlertStored DEF CacheIsRightOutOfDoubt, BeliefStands
  <2>9. QED
    BY <2>1, <2>2, <2>3, <2>4, <2>5, <2>6, <2>7, <2>8
<1>25. CASE Forget
  <2> USE <1>25 DEF Forget, alert, line
  <2>1. TypeOK'
    BY DEF TypeOK
  <2>2. LockInv'
    BY DEF LockInv
  <2>3. SendInv'
    BY DEF SendInv, Contents
  <2>4. LineInv'
    BY DEF LineInv
  <2>5. FileInv'
    BY DEF FileInv, Contents, BeliefStands
  <2>6. SignMatchesRecord'
    BY DEF SignMatchesRecord, Repairing
  <2>7. PictureHasTheSign'
    BY DEF PictureHasTheSign
  <2>8. CacheIsRightOutOfDoubt'
    BY DEF CacheIsRightOutOfDoubt, BeliefStands
  <2>9. QED
    BY <2>1, <2>2, <2>3, <2>4, <2>5, <2>6, <2>7, <2>8
<1>26. CASE ConnectionDies
  <2> USE <1>26 DEF ConnectionDies, alert, line
  <2>1. TypeOK'
    BY DEF TypeOK
  <2>2. LockInv'
    BY DEF LockInv
  <2>3. SendInv'
    BY DEF SendInv, Contents
  <2>4. LineInv'
    BY DEF LineInv
  <2>5. FileInv'
    BY DEF FileInv, Contents, BeliefStands
  <2>6. SignMatchesRecord'
    BY DEF SignMatchesRecord, Repairing
  <2>7. PictureHasTheSign'
    BY DEF PictureHasTheSign
  <2>8. CacheIsRightOutOfDoubt'
    BY DEF CacheIsRightOutOfDoubt, BeliefStands
  <2>9. QED
    BY <2>1, <2>2, <2>3, <2>4, <2>5, <2>6, <2>7, <2>8
<1>27. CASE OthersFindOut
  <2> USE <1>27 DEF OthersFindOut, alert, line
  <2>1. TypeOK'
    BY DEF TypeOK
  <2>2. LockInv'
    BY DEF LockInv
  <2>3. SendInv'
    BY DEF SendInv, Contents
  <2>4. LineInv'
    BY DEF LineInv
  <2>5. FileInv'
    BY DEF FileInv, Contents, BeliefStands, LineIsFree
  <2>6. SignMatchesRecord'
    BY DEF SignMatchesRecord, Repairing
  <2>7. PictureHasTheSign'
    BY DEF PictureHasTheSign
  <2>8. CacheIsRightOutOfDoubt'
    BY DEF CacheIsRightOutOfDoubt, BeliefStands
  <2>9. QED
    BY <2>1, <2>2, <2>3, <2>4, <2>5, <2>6, <2>7, <2>8
<1>28. CASE Reconnect
  <2> USE <1>28 DEF Reconnect, alert, line
  <2>1. TypeOK'
    BY DEF TypeOK, Doubts
  <2>2. LockInv'
    BY DEF LockInv
  <2>3. SendInv'
    BY DEF SendInv, Contents
  <2>4. LineInv'
    BY DEF LineInv
  <2>5. FileInv'
    BY DEF FileInv, Contents, BeliefStands
  <2>6. SignMatchesRecord'
    BY DEF SignMatchesRecord, Repairing
  <2>7. PictureHasTheSign'
    BY DEF PictureHasTheSign
  <2>8. CacheIsRightOutOfDoubt'
    BY DEF CacheIsRightOutOfDoubt, BeliefStands
  <2>9. QED
    BY <2>1, <2>2, <2>3, <2>4, <2>5, <2>6, <2>7, <2>8
<1>29. CASE Expire
  <2> USE <1>29 DEF Expire, line
  <2>1. /\ record' \in Stored /\ disk' \in Stored /\ record'.text = record.text
        /\ record = NoAlert => record' = NoAlert
    BY NoAlertStored DEF TypeOK, Past, NoAlert
  <2>2. TypeOK'
    BY <2>1 DEF TypeOK
  <2>3. LockInv'
    BY <2>1 DEF LockInv
  <2>4. SendInv'
    BY <2>1 DEF SendInv, Contents
  <2>5. LineInv'
    BY <2>1 DEF LineInv
  <2>6. FileInv'
    BY <2>1 DEF FileInv, Contents, BeliefStands
  <2>7. SignMatchesRecord'
    BY <2>1 DEF SignMatchesRecord, Repairing
  <2>8. PictureHasTheSign'
    BY <2>1 DEF PictureHasTheSign
  <2>9. CacheIsRightOutOfDoubt'
    BY <2>1 DEF CacheIsRightOutOfDoubt, BeliefStands
  <2>10. QED
    BY <2>2, <2>3, <2>4, <2>5, <2>6, <2>7, <2>8, <2>9
<1>30. CASE UNCHANGED vars
  <2> USE <1>30 DEF vars, alert, line
  <2>1. TypeOK'
    BY DEF TypeOK
  <2>2. LockInv'
    BY DEF LockInv
  <2>3. SendInv'
    BY DEF SendInv, Contents
  <2>4. LineInv'
    BY DEF LineInv
  <2>5. FileInv'
    BY DEF FileInv, Contents, BeliefStands
  <2>6. SignMatchesRecord'
    BY DEF SignMatchesRecord, Repairing
  <2>7. PictureHasTheSign'
    BY DEF PictureHasTheSign
  <2>8. CacheIsRightOutOfDoubt'
    BY DEF CacheIsRightOutOfDoubt, BeliefStands
  <2>9. QED
    BY <2>1, <2>2, <2>3, <2>4, <2>5, <2>6, <2>7, <2>8
<1>31. Callers \subseteq Tasks
  BY DEF Tasks
<1>32. QED
  BY <1>1, <1>2, <1>3, <1>4, <1>5, <1>6, <1>7, <1>8, <1>9, <1>10, <1>11,
     <1>12, <1>13, <1>14, <1>15, <1>16, <1>17, <1>18, <1>19, <1>20, <1>21,
     <1>22, <1>23, <1>24, <1>25, <1>26, <1>27, <1>28, <1>29, <1>30,
     <1>31
  DEF Next, Decide, Finish

(* Whoever raises, releases, sweeps, draws, refreshes or restores, and     *)
(* whatever fails, is cancelled, crashes or vanishes down a dead connection*)
(* meanwhile, the locks, the sends, the flag and the repairs that are owed *)
(* agree with the record and the sign.                                     *)
THEOREM AlertIsSound == Spec => []AlertInv
  BY AlertInit, AlertStep, PTL DEF Spec

(* Whatever fails, is cancelled or stops on the way, out of doubt the sign *)
(* shows the alert that is recorded, or none; and one that a connection    *)
(* swallowed is owed its repair once there is another (raise_alert,        *)
(* _release_locked, _put_back, reassert; _notice_a_reopen, _connect).      *)
THEOREM RecordIsShown == Spec => []SignMatchesRecord
<1>1. AlertInv => SignMatchesRecord
  BY DEF AlertInv
<1>2. QED
  BY AlertIsSound, <1>1, PTL

(* No picture is drawn on a sign that an alert holds, recorded or not, but *)
(* where a dead connection swallowed the hand-back, and then it is to be   *)
(* drawn again or a reconnect has left it out (lifted, raise_alert).       *)
THEOREM PicturesHaveTheSign == Spec => []PictureHasTheSign
<1>1. AlertInv => PictureHasTheSign
  BY DEF AlertInv
<1>2. QED
  BY AlertIsSound, <1>1, PTL

(* Out of doubt, a write of the priority file that is suppressed is one    *)
(* the sign does not need, unless its power or its connection went and     *)
(* nobody knows (send_if_changed, forced or not by the service).           *)
THEOREM SuppressionIsSafe == Spec => []CacheIsRightOutOfDoubt
<1>1. AlertInv => CacheIsRightOutOfDoubt
  BY DEF AlertInv
<1>2. QED
  BY AlertIsSound, <1>1, PTL

=============================================================================
