------------------------- MODULE SlotRegistryProofs -------------------------
(***************************************************************************)
(* SlotRegistry's record, its pools and its sign, for any slots, variables,*)
(* files and contents, and any number of faults.                           *)
(*                                                                         *)
(* RecordInv is inductive by itself: what an operation would take back is a*)
(* part of it, since a file is given back by whichever send fails.  SignInv*)
(* is inductive with it.  It says of the operation under way what the sign *)
(* will hold once the sends it has left are made (Will), so that a send    *)
(* that lands, or had landed already, changes nothing of what it says, and *)
(* one that does not leaves something that excuses the sign (Calm).        *)
(***************************************************************************)
EXTENDS SlotRegistry, TLAPS

LEMMA IdleRecord ==
  /\ Idle.kind = "idle" /\ Idle.drew = Absent
  /\ DOMAIN Idle = {"kind", "who", "was", "next", "drew", "todo"}
  BY DEF Idle

LEMMA RegistryInit == Init => RecordInv
<1> SUFFICES ASSUME Init PROVE RecordInv
  OBVIOUS
<1> USE RegistryAssumption, IdleRecord DEF Init
<1>1. TypeOK
  <2>1. DOMAIN cache = Files /\ DOMAIN sign = Files
    BY DEF Forgotten, Empty
  <2>2. op = Idle /\ faults \in 0 .. MaxFaults
    OBVIOUS
  <2>3. QED
    BY <2>1, <2>2 DEF TypeOK, Kinds
<1>2. FilesHeld /\ UndoIsSound /\ StringsHeldApart
  BY DEF FilesHeld, UndoIsSound, StringsHeldApart
<1>3. QED
  BY <1>1, <1>2 DEF RecordInv

(* A message shown or hidden, or a variable that shows something else,     *)
(* keeps its file.                                                         *)
LEMMA Records ==
  /\ \A s \in Slot : s # Absent /\ s.label \in Labels /\ s.label # NoFile
  /\ \A s \in Slot, a \in BOOLEAN :
       /\ [s EXCEPT !.active = a] \in Slot
       /\ [s EXCEPT !.active = a].label = s.label
  /\ \A v \in Variable : v # Absent /\ v.label \in Strings
  /\ \A v \in Variable, x \in Values :
       /\ [v EXCEPT !.value = x] \in Variable
       /\ [v EXCEPT !.value = x].label = v.label
  BY RegistryAssumption DEF Slot, Variable, Files

(* An operation begins with nothing but its plan.                          *)
LEMMA BeginsEffect ==
  ASSUME NEW kind, NEW who, NEW was, NEW todo,
         Begins(kind, who, was, todo)
  PROVE  /\ DOMAIN op' = DOMAIN Idle
         /\ op'.kind = kind /\ op'.who = who /\ op'.was = was
         /\ op'.drew = picture
         /\ UNCHANGED <<sign, frozen, link, owed, cancelled, faults>>
  BY IdleRecord DEF Begins, signVars

(* It goes on until its plan is done.                                      *)
LEMMA AdvancesEffect ==
  ASSUME TypeOK, NEW s, Advances(s)
  PROVE  /\ DOMAIN op' = DOMAIN Idle
         /\ \/ op' = Idle /\ op.kind # "drawing"
            \/ /\ op'.kind = op.kind /\ op'.who = op.who /\ op'.was = op.was
               /\ op'.next = op.next /\ op'.drew = op.drew
         /\ dirty' \in BOOLEAN /\ cancelled' \in BOOLEAN
<1> DEFINE rest == [i \in DOMAIN op.todo |-> op.todo[i] \ {s}]
<1>1. CASE Done(rest) /\ op.kind # "drawing"
  <2>1. op' = Idle /\ dirty' = (dirty /\ op.kind # "refresh")
        /\ cancelled' = (cancelled /\ op.kind # "refresh")
    BY <1>1 DEF Advances
  <2>2. QED
    BY <1>1, <2>1 DEF TypeOK
<1>2. CASE ~(Done(rest) /\ op.kind # "drawing")
  <2>1. op' = [op EXCEPT !.todo = rest] /\ UNCHANGED <<dirty, cancelled>>
    BY <1>2 DEF Advances
  <2> HIDE DEF rest
  <2>2. QED
    BY <2>1, IdleRecord DEF TypeOK
<1>3. QED
  BY <1>1, <1>2

(* What becomes of a send, and what is believed of it, are of files the    *)
(* sign has.                                                               *)
LEMMA GoesEffect ==
  ASSUME TypeOK, NEW s, Goes(s)
  PROVE  /\ DOMAIN sign' = Files
         /\ link' \in {"up", "dead", "down"} /\ owed' \in BOOLEAN
  BY DEF Goes, Lands, TypeOK, signVars

(* Taking back what was recorded leaves a record, and its pools with it.   *)
LEMMA UndoEffect ==
  ASSUME RecordInv, Undo
  PROVE  /\ slots' \in [Keys -> Slot \cup {Absent}]
         /\ held' \in [Keys -> Labels \cup {NoFile}]
         /\ variables' \in [Names -> Variable \cup {Absent}]
         /\ picture' \in Icons \cup {Absent} /\ dirty' \in BOOLEAN
         /\ \A k \in Keys :
              held'[k] = IF slots'[k] = Absent THEN NoFile ELSE slots'[k].label
         /\ \A j, k \in Keys : j # k /\ held'[j] = held'[k] => held'[j] = NoFile
         /\ \A n, p \in Names :
              n # p /\ variables'[n] # Absent /\ variables'[p] # Absent =>
                variables'[n].label # variables'[p].label
<1> USE RegistryAssumption, Records
    DEF RecordInv, TypeOK, FilesHeld, UndoIsSound, StringsHeldApart
<1>1. CASE op.kind \in {"drawing", "upsert"}
  <2>1. /\ slots' = [slots EXCEPT ![op.who] = op.was]
        /\ held' = IF op.was = Absent THEN [held EXCEPT ![op.who] = NoFile]
                ELSE held
        /\ picture' = op.drew /\ dirty' \in BOOLEAN
        /\ variables' = variables
    BY <1>1 DEF Undo, UndoTheRest, Released
  <2>2. QED
    BY <1>1, <2>1
<1>2. CASE op.kind = "show"
  <2>1. op.who \in Keys /\ slots[op.who] \in Slot
    BY <1>2 DEF Registered
  <2>2. PICK s \in Slot : /\ slots' = [slots EXCEPT ![op.who] = s]
                         /\ s.label = slots[op.who].label
    <3>1. /\ [slots[op.who] EXCEPT !.active = FALSE] \in Slot
          /\ [slots[op.who] EXCEPT !.active = FALSE].label = slots[op.who].label
      BY <2>1
    <3>2. slots' = [slots EXCEPT ![op.who] =
                                   [slots[op.who] EXCEPT !.active = FALSE]]
      BY <1>2 DEF Undo, UndoTheRest
    <3>3. QED
      BY <3>1, <3>2
  <2>3. UNCHANGED <<held, variables, picture, dirty>>
    BY <1>2 DEF Undo, UndoTheRest
  <2>4. QED
    BY <1>2, <2>1, <2>2, <2>3
<1>3. CASE op.kind = "put"
  <2>1. /\ variables' = [variables EXCEPT ![op.who] = op.was]
        /\ UNCHANGED <<slots, held, picture, dirty>>
    BY <1>3 DEF Undo, UndoTheRest
  <2>2. /\ op.who \in Names /\ op.was \in Variable \cup {Absent}
        /\ variables' \in [Names -> Variable \cup {Absent}]
    BY <1>3, <2>1
  <2>3. \A n, p \in Names :
          n # p /\ variables'[n] # Absent /\ variables'[p] # Absent =>
            variables'[n].label # variables'[p].label
    BY <1>3, <2>1, <2>2
  <2>4. \A k \in Keys :
          held[k] = IF slots[k] = Absent THEN NoFile ELSE slots[k].label
    BY <1>3
  <2>5. QED
    BY <2>1, <2>2, <2>3, <2>4
<1>4. QED
  BY <1>1, <1>2, <1>3 DEF Undo, UndoTheRest

LEMMA RegistryStep == RecordInv /\ [Next]_vars => RecordInv'
<1> SUFFICES ASSUME RecordInv, [Next]_vars PROVE RecordInv'
  OBVIOUS
<1> USE RegistryAssumption, IdleRecord, Records
    DEF RecordInv, record, signVars, Kinds
<1>1. ASSUME NEW k \in Keys, NEW m \in Texts, NEW a \in BOOLEAN,
             NEW i \in Icons \cup {picture}, Upsert(k, m, a, i)
      PROVE  RecordInv'
  <2>1. PICK l \in IF held[k] # NoFile THEN {held[k]} ELSE Labels \ Held :
          /\ held' = [held EXCEPT ![k] = l]
          /\ op' = [kind |-> "drawing", who |-> k, was |-> slots[k],
                    next |-> [label |-> l, text |-> m, active |-> a],
                    drew |-> picture,
                    todo |-> IF i # picture THEN << {Drawn(i)} >> ELSE <<>>]
    BY <1>1 DEF Upsert
  <2>2. /\ op.kind = "idle" /\ l \in Labels
        /\ \A j \in Keys \ {k} : held[j] # l
        /\ held[k] # NoFile => l = held[k]
    BY <1>1, <2>1 DEF Upsert, Held, TypeOK, FilesHeld
  <2>3. /\ DOMAIN op' = DOMAIN Idle /\ op'.kind = "drawing" /\ op'.who = k
        /\ op'.was = slots[k] /\ op'.drew = picture
        /\ op'.next \in Slot /\ op'.next.label = l
    BY <2>1, <2>2 DEF Slot
  <2>4. picture' \in Icons \cup {picture}
        /\ UNCHANGED <<slots, variables, dirty, cache, sign, link, owed, wiped,
                       cancelled, faults>>
    BY <1>1 DEF Upsert
  <2>5. held' = [held EXCEPT ![k] = l]
    BY <2>1
  <2>6. TypeOK'
    BY <2>2, <2>3, <2>4, <2>5 DEF TypeOK, UndoIsSound
  <2>7. FilesHeld'
    BY <2>2, <2>3, <2>4, <2>5 DEF TypeOK, FilesHeld, UndoIsSound
  <2>8. UndoIsSound'
    BY <2>2, <2>3, <2>4, <2>5 DEF TypeOK, FilesHeld, UndoIsSound
  <2>9. StringsHeldApart'
    BY <2>2, <2>3, <2>4, <2>5 DEF TypeOK, UndoIsSound, StringsHeldApart
  <2>10. QED
    BY <2>6, <2>7, <2>8, <2>9
<1>2. ASSUME NEW b \in BOOLEAN, Record(b)
      PROVE  RecordInv'
  <2>1. TypeOK'
    BY <1>2 DEF Record, TypeOK, UndoIsSound
  <2>2. FilesHeld'
    BY <1>2 DEF Record, TypeOK, FilesHeld, UndoIsSound
  <2>3. UndoIsSound'
    BY <1>2 DEF Record, TypeOK, FilesHeld, UndoIsSound
  <2>4. StringsHeldApart'
    BY <1>2 DEF Record, TypeOK, UndoIsSound, StringsHeldApart
  <2>5. QED
    BY <2>1, <2>2, <2>3, <2>4
<1>3. ASSUME NEW k \in Keys, Show(k) PROVE RecordInv'
  <2>1. op.kind = "idle" /\ slots[k] \in Slot
    BY <1>3 DEF Show, TypeOK
  <2>2. PICK s \in Slot : /\ slots' = [slots EXCEPT ![k] = s]
                         /\ s.label = slots[k].label
    <3>1. /\ [slots[k] EXCEPT !.active = TRUE] \in Slot
          /\ [slots[k] EXCEPT !.active = TRUE].label = slots[k].label
      BY <2>1
    <3>2. slots' = [slots EXCEPT ![k] = [slots[k] EXCEPT !.active = TRUE]]
      BY <1>3 DEF Show
    <3>3. QED
      BY <3>1, <3>2
  <2>3. /\ DOMAIN op' = DOMAIN Idle /\ op'.drew = picture
        /\ op'.kind = "show" /\ op'.who = k
        /\ UNCHANGED <<held, variables, picture, dirty, cache, wiped, sign,
                       link, owed, cancelled, faults>>
    BY <1>3, BeginsEffect DEF Show
  <2>4. TypeOK'
    BY <2>1, <2>2, <2>3 DEF TypeOK, UndoIsSound
  <2>5. FilesHeld'
    BY <2>1, <2>2, <2>3 DEF TypeOK, FilesHeld, UndoIsSound
  <2>6. UndoIsSound'
    BY <2>1, <2>2, <2>3 DEF TypeOK, FilesHeld, UndoIsSound, Registered
  <2>7. StringsHeldApart'
    BY <2>1, <2>2, <2>3 DEF TypeOK, UndoIsSound, StringsHeldApart
  <2>8. QED
    BY <2>4, <2>5, <2>6, <2>7
<1>4. ASSUME NEW k \in Keys, Hide(k) PROVE RecordInv'
  <2>1. op.kind = "idle" /\ slots[k] \in Slot
    BY <1>4 DEF Hide, TypeOK
  <2>2. PICK s \in Slot : /\ slots' = [slots EXCEPT ![k] = s]
                         /\ s.label = slots[k].label
    <3>1. /\ [slots[k] EXCEPT !.active = FALSE] \in Slot
          /\ [slots[k] EXCEPT !.active = FALSE].label = slots[k].label
      BY <2>1
    <3>2. slots' = [slots EXCEPT ![k] = [slots[k] EXCEPT !.active = FALSE]]
      BY <1>4 DEF Hide
    <3>3. QED
      BY <3>1, <3>2
  <2>3. /\ DOMAIN op' = DOMAIN Idle /\ op'.drew = picture
        /\ op'.kind = "remove"
        /\ UNCHANGED <<held, variables, picture, dirty, cache, wiped, sign,
                       link, owed, cancelled, faults>>
    BY <1>4, BeginsEffect DEF Hide
  <2>4. TypeOK'
    BY <2>1, <2>2, <2>3 DEF TypeOK, UndoIsSound
  <2>5. FilesHeld'
    BY <2>1, <2>2, <2>3 DEF TypeOK, FilesHeld, UndoIsSound
  <2>6. UndoIsSound'
    BY <2>1, <2>2, <2>3 DEF TypeOK, FilesHeld, UndoIsSound, Registered
  <2>7. StringsHeldApart'
    BY <2>1, <2>2, <2>3 DEF TypeOK, UndoIsSound, StringsHeldApart
  <2>8. QED
    BY <2>4, <2>5, <2>6, <2>7
<1>5. ASSUME NEW kind \in {"remove", "sweep"}, NEW gone, NEW hidden,
             Takes(kind, gone, hidden)
      PROVE  RecordInv'
  <2>1. /\ op.kind = "idle"
        /\ \A k \in hidden : k \in Keys => slots[k] \in Slot
    BY <1>5 DEF Takes, Registered, TypeOK
  <2>2. /\ slots' = [k \in Keys |->
                     IF k \in gone THEN Absent
                     ELSE IF k \in hidden
                       THEN [slots[k] EXCEPT !.active = FALSE]
                     ELSE slots[k]]
        /\ held' = [k \in Keys |-> IF k \in gone THEN NoFile ELSE held[k]]
    BY <1>5 DEF Takes
  <2>3. /\ slots' \in [Keys -> Slot \cup {Absent}]
        /\ \A k \in Keys :
             \/ slots'[k] = Absent /\ held'[k] = NoFile
             \/ slots[k] = Absent /\ slots'[k] = Absent /\ held'[k] = held[k]
             \/ /\ slots[k] # Absent /\ slots'[k] # Absent
                /\ slots'[k].label = slots[k].label /\ held'[k] = held[k]
    BY <2>1, <2>2 DEF TypeOK
  <2>4. held' \in [Keys -> Labels \cup {NoFile}]
    BY <2>2 DEF TypeOK
  <2>5. /\ DOMAIN op' = DOMAIN Idle /\ op'.kind = kind /\ op'.drew = picture
        /\ UNCHANGED <<variables, picture, dirty, cache, wiped, sign, link,
                       owed, cancelled, faults>>
    BY <1>5, BeginsEffect DEF Takes
  <2>6. TypeOK'
    BY <2>1, <2>3, <2>4, <2>5 DEF TypeOK, UndoIsSound
  <2>7. FilesHeld'
    BY <2>1, <2>3, <2>4, <2>5 DEF TypeOK, FilesHeld, UndoIsSound
  <2>8. UndoIsSound'
    BY <2>1, <2>3, <2>4, <2>5 DEF TypeOK, FilesHeld, UndoIsSound
  <2>9. StringsHeldApart'
    BY <2>1, <2>3, <2>4, <2>5 DEF TypeOK, UndoIsSound, StringsHeldApart
  <2>10. QED
    BY <2>6, <2>7, <2>8, <2>9
<1>6. ASSUME NEW n \in Names, NEW v \in Values, PutVariable(n, v)
      PROVE  RecordInv'
  <2>1. PICK l \in IF variables[n] # Absent THEN {variables[n].label}
                   ELSE Strings \ StringsHeld :
          variables' = [variables EXCEPT ![n] = [label |-> l, value |-> v]]
    BY <1>6 DEF PutVariable
  <2>2. /\ op.kind = "idle" /\ l \in Strings
        /\ \A p \in Names \ {n} :
             variables[p] # Absent => variables[p].label # l
        /\ variables[n] # Absent => variables[n].label = l
    BY <1>6, <2>1 DEF PutVariable, StringsHeld, TypeOK, StringsHeldApart
  <2>3. PICK w \in Variable : /\ w.label = l
                             /\ variables' = [variables EXCEPT ![n] = w]
    BY <2>1, <2>2 DEF Variable
  <2>4. /\ DOMAIN op' = DOMAIN Idle /\ op'.kind = "put" /\ op'.who = n
        /\ op'.was = variables[n] /\ op'.drew = picture
        /\ UNCHANGED <<slots, held, picture, dirty, cache, wiped, sign, link,
                       owed, cancelled, faults>>
    BY <1>6, BeginsEffect DEF PutVariable
  <2>5. TypeOK'
    BY <2>2, <2>3, <2>4 DEF TypeOK, UndoIsSound
  <2>6. FilesHeld'
    BY <2>2, <2>3, <2>4 DEF TypeOK, FilesHeld, UndoIsSound
  <2>7. UndoIsSound'
    BY <2>2, <2>3, <2>4 DEF TypeOK, FilesHeld, UndoIsSound
  <2>8. StringsHeldApart'
    BY <2>2, <2>3, <2>4 DEF TypeOK, UndoIsSound, StringsHeldApart
  <2>9. QED
    BY <2>5, <2>6, <2>7, <2>8
<1>7. ASSUME NEW n \in Names, RemoveVariable(n)
      PROVE  RecordInv'
  <2>1. TypeOK'
    BY <1>7, BeginsEffect DEF RemoveVariable, TypeOK, UndoIsSound
  <2>2. FilesHeld'
    BY <1>7, BeginsEffect DEF RemoveVariable, TypeOK, FilesHeld, UndoIsSound
  <2>3. UndoIsSound'
    BY <1>7, BeginsEffect DEF RemoveVariable, TypeOK, FilesHeld, UndoIsSound
  <2>4. StringsHeldApart'
    BY <1>7, BeginsEffect
    DEF RemoveVariable, TypeOK, UndoIsSound, StringsHeldApart
  <2>5. QED
    BY <2>1, <2>2, <2>3, <2>4
<1>8. ASSUME NEW M \in SUBSET Names, NEW stale \in [M -> Values],
         ExpireVariables(stale)
      PROVE  RecordInv'
  <2>1. TypeOK'
    BY <1>8, BeginsEffect DEF ExpireVariables, TypeOK, UndoIsSound
  <2>2. FilesHeld'
    BY <1>8, BeginsEffect DEF ExpireVariables, TypeOK, FilesHeld, UndoIsSound
  <2>3. UndoIsSound'
    BY <1>8, BeginsEffect DEF ExpireVariables, TypeOK, FilesHeld, UndoIsSound
  <2>4. StringsHeldApart'
    BY <1>8, BeginsEffect
    DEF ExpireVariables, TypeOK, UndoIsSound, StringsHeldApart
  <2>5. QED
    BY <2>1, <2>2, <2>3, <2>4
<1>9. ASSUME NEW s \in Due, Suppress(s)
      PROVE  RecordInv'
  <2>1. TypeOK'
    BY <1>9, AdvancesEffect DEF Suppress, TypeOK, UndoIsSound
  <2>2. FilesHeld'
    BY <1>9, AdvancesEffect DEF Suppress, TypeOK, FilesHeld, UndoIsSound
  <2>3. UndoIsSound'
    BY <1>9, AdvancesEffect DEF Suppress, TypeOK, FilesHeld, UndoIsSound
  <2>4. StringsHeldApart'
    BY <1>9, AdvancesEffect
    DEF Suppress, TypeOK, UndoIsSound, StringsHeldApart
  <2>5. QED
    BY <2>1, <2>2, <2>3, <2>4
<1>10. ASSUME NEW s \in Due, Send(s)
      PROVE  RecordInv'
  <2>1. TypeOK'
    BY <1>10, AdvancesEffect, GoesEffect
    DEF Send, Believed, TypeOK, UndoIsSound
  <2>2. FilesHeld'
    BY <1>10, AdvancesEffect, GoesEffect
    DEF Send, Believed, TypeOK, FilesHeld, UndoIsSound
  <2>3. UndoIsSound'
    BY <1>10, AdvancesEffect, GoesEffect
    DEF Send, Believed, TypeOK, FilesHeld, UndoIsSound
  <2>4. StringsHeldApart'
    BY <1>10, AdvancesEffect, GoesEffect
    DEF Send, Believed, TypeOK, UndoIsSound, StringsHeldApart
  <2>5. QED
    BY <2>1, <2>2, <2>3, <2>4
<1>11. ASSUME NEW s \in Due, Fail(s)
      PROVE  RecordInv'
  <2>1. TypeOK'
    <3>1. CASE Undo
      BY <1>11, <3>1, UndoEffect DEF Fail, Forgotten, TypeOK
    <3>2. CASE dirty' \in BOOLEAN /\ UNCHANGED record
      BY <1>11, <3>2 DEF Fail, Forgotten, TypeOK
    <3>3. QED
      BY <1>11, <3>1, <3>2 DEF Fail, TypeOK
  <2>2. FilesHeld'
    BY <1>11, UndoEffect DEF Fail, Forgotten, TypeOK, FilesHeld, UndoIsSound
  <2>3. UndoIsSound'
    BY <1>11, UndoEffect DEF Fail, Forgotten, TypeOK, FilesHeld, UndoIsSound
  <2>4. StringsHeldApart'
    BY <1>11, UndoEffect
    DEF Fail, Forgotten, TypeOK, UndoIsSound, StringsHeldApart
  <2>5. QED
    BY <2>1, <2>2, <2>3, <2>4
<1>12. ASSUME NEW s \in Due, Cancel(s)
      PROVE  RecordInv'
  <2>1. TypeOK'
    BY <1>12, UndoEffect, GoesEffect
    DEF Cancel, Forgotten, Believed, GoesWrong, TypeOK, UndoIsSound
  <2>2. FilesHeld'
    BY <1>12, UndoEffect, GoesEffect
    DEF Cancel, Forgotten, Believed, GoesWrong, TypeOK, FilesHeld, UndoIsSound
  <2>3. UndoIsSound'
    BY <1>12, UndoEffect, GoesEffect
    DEF Cancel, Forgotten, Believed, GoesWrong, TypeOK, FilesHeld, UndoIsSound
  <2>4. StringsHeldApart'
    BY <1>12, UndoEffect, GoesEffect
    DEF Cancel, Forgotten, Believed, GoesWrong, TypeOK, UndoIsSound,
        StringsHeldApart
  <2>5. QED
    BY <2>1, <2>2, <2>3, <2>4
<1>13. CASE RepushAtNextRefresh
  <2>1. TypeOK'
    BY <1>13 DEF RepushAtNextRefresh, Registered, TypeOK, UndoIsSound
  <2>2. FilesHeld'
    BY <1>13 DEF RepushAtNextRefresh, Registered, TypeOK, FilesHeld, UndoIsSound
  <2>3. UndoIsSound'
    BY <1>13 DEF RepushAtNextRefresh, Registered, TypeOK, FilesHeld, UndoIsSound
  <2>4. StringsHeldApart'
    BY <1>13 DEF RepushAtNextRefresh, Registered, TypeOK, UndoIsSound, StringsHeldApart
  <2>5. QED
    BY <2>1, <2>2, <2>3, <2>4
<1>14. CASE Refresh
  <2>1. /\ DOMAIN op' = DOMAIN Idle /\ op.kind = "idle" /\ op'.kind = "refresh"
        /\ op'.drew = picture /\ DOMAIN cache' = Files /\ wiped' = FALSE
        /\ UNCHANGED <<slots, held, variables, picture, dirty>>
        /\ UNCHANGED <<sign, link, owed, cancelled, faults>>
    BY <1>14, BeginsEffect DEF Refresh, Forgotten
  <2>2. TypeOK'
    BY <2>1 DEF TypeOK, UndoIsSound
  <2>3. FilesHeld'
    BY <2>1 DEF TypeOK, FilesHeld, UndoIsSound
  <2>4. UndoIsSound'
    BY <2>1 DEF TypeOK, FilesHeld, UndoIsSound
  <2>5. StringsHeldApart'
    BY <2>1 DEF TypeOK, UndoIsSound, StringsHeldApart
  <2>6. QED
    BY <2>2, <2>3, <2>4, <2>5
<1>15. CASE ConnectionDies
  BY <1>15
  DEF ConnectionDies, GoesWrong, TypeOK, FilesHeld, UndoIsSound,
      StringsHeldApart
<1>16. CASE ReadFails
  BY <1>16
  DEF ReadFails, TypeOK, FilesHeld, UndoIsSound, StringsHeldApart
<1>17. CASE Reconnect
  BY <1>17
  DEF Reconnect, Forgotten, TypeOK, FilesHeld, UndoIsSound, StringsHeldApart
<1>18. CASE PowerCycle
  BY <1>18
  DEF PowerCycle, GoesWrong, Empty, TypeOK, FilesHeld, UndoIsSound,
      StringsHeldApart
<1>19. CASE UNCHANGED vars
  BY <1>19
  DEF vars, TypeOK, FilesHeld, UndoIsSound, StringsHeldApart
<1>20. CASE Ask
  <2>1. ASSUME NEW k \in Keys, Remove(k) PROVE RecordInv'
    BY <1>5, <2>1 DEF Remove
  <2>2. CASE Clear
    BY <1>5, <2>2 DEF Clear
  <2>3. ASSUME NEW gone, NEW hidden, Sweep(gone, hidden) PROVE RecordInv'
    BY <1>5, <2>3 DEF Sweep
  <2>4. QED
    BY <1>1, <1>3, <1>4, <1>6, <1>7, <1>8, <1>20, <2>1, <2>2, <2>3 DEF Ask
<1>21. CASE Continue
  BY <1>2, <1>9, <1>10, <1>11, <1>21 DEF Continue
<1>22. QED
  BY <1>12, <1>13, <1>14, <1>15, <1>16, <1>17, <1>18, <1>19, <1>20, <1>21
  DEF Next

-----------------------------------------------------------------------------
(* The sign.  What is still to be sent, stage by stage, is all that stands *)
(* between it and the record.                                              *)

LEMMA FilesApart ==
  /\ \A l \in Labels : l \in Files /\ l \notin Strings /\ l # NoFile
                       /\ l # Sequence /\ l # Picture
  /\ \A f \in Strings : f \in Files /\ f # Sequence /\ f # Picture /\ f # NoFile
  /\ Sequence \in Files /\ Picture \in Files /\ Sequence # Picture
  BY RegistryAssumption DEF Files

LEMMA InLeft ==
  /\ \A s : s \in Left <=> \E i \in DOMAIN op.todo : s \in op.todo[i]
  /\ \A s : s \in Left' <=> \E i \in DOMAIN op'.todo : s \in op'.todo[i]
  BY DEF Left

(* A call is to a variable's file; so no text is blank, or unknown.        *)
LEMMA CallsAreFiles ==
  ASSUME TypeOK, NEW m \in Texts
  PROVE  /\ Call(m) \in Strings \cup {NoFile}
         /\ <<m, Call(m)>> # Blank /\ <<m, Call(m)>> # Unknown
<1>1. Call(m) \in Strings \cup {NoFile}
  BY RegistryAssumption, Records DEF Call, TypeOK
<1>2. QED
  BY <1>1, RegistryAssumption

LEMMA CallsAreKept ==
  ASSUME UNCHANGED variables
  PROVE  \A m : Call(m)' = Call(m) /\ Callable(m)' = Callable(m)
                /\ Readable(m)' = Readable(m)
  BY DEF Call, Callable, Readable

(* A registered message has a label and a text.                            *)
LEMMA RegisteredSlots ==
  ASSUME TypeOK, NEW k \in Registered(slots)
  PROVE  /\ k \in Keys /\ slots[k] # Absent
         /\ slots[k].label \in Labels /\ slots[k].text \in Texts
         /\ slots[k].active \in BOOLEAN
  BY RegistryAssumption DEF TypeOK, Registered, Slot

LEMMA TextsAreReadable ==
  ASSUME TypeOK, CallsExist, NEW k \in Registered(slots)
  PROVE  Readable(Text(slots[k]).contents)
  BY RegisteredSlots DEF CallsExist, Readable, Text

LEMMA PlayingIsLabels ==
  ASSUME TypeOK
  PROVE  Playing(slots) \in SUBSET Labels
  BY RegisteredSlots DEF Playing

-----------------------------------------------------------------------------
(* A send is taken off the plan.                                           *)

LEMMA LeftAfter ==
  ASSUME TypeOK, NEW s, Advances(s)
  PROVE  /\ \A t : t \in Left' <=> t \in Left /\ t # s
         /\ \A i \in DOMAIN op'.todo :
              i \in DOMAIN op.todo /\ op'.todo[i] = op.todo[i] \ {s}
         /\ \A i \in DOMAIN op.todo : \A t \in op.todo[i] :
              t # s => i \in DOMAIN op'.todo /\ t \in op'.todo[i]
<1> DEFINE rest == [i \in DOMAIN op.todo |-> op.todo[i] \ {s}]
<1>1. CASE Done(rest) /\ op.kind # "drawing"
  <2>1. op' = Idle
    BY <1>1 DEF Advances
  <2>2. op'.todo = <<>> /\ DOMAIN op'.todo = {}
    BY <2>1 DEF Idle
  <2>3. \A i \in DOMAIN op.todo : op.todo[i] \ {s} = {}
    BY <1>1 DEF Done
  <2>4. QED
    BY <2>2, <2>3, InLeft
<1>2. CASE ~(Done(rest) /\ op.kind # "drawing")
  <2>1. op' = [op EXCEPT !.todo = rest]
    BY <1>2 DEF Advances
  <2>2. op'.todo = rest
    BY <2>1, IdleRecord DEF TypeOK
  <2>3. QED
    BY <2>2, InLeft
<1>3. QED
  BY <1>1, <1>2

-----------------------------------------------------------------------------
(* A send arrives, or is one that had arrived already.                     *)

Landed(s) ==
  /\ \A f \in Files : sign'[f] = IF f = s.file THEN s.contents ELSE sign[f]
  /\ IF s.file # Sequence THEN frozen' = frozen
     ELSE IF s.contents # {} THEN frozen' = NoFile
     ELSE frozen' \in IF sign[Sequence] = {} THEN {frozen} ELSE sign[Sequence]

LEMMA DueIsLeft ==
  ASSUME NEW s \in Due
  PROVE  s \in Left /\ \E i \in DOMAIN op.todo : s \in op.todo[i] /\ Turn(i)
  BY InLeft DEF Due

LEMMA SuppressedHasLanded ==
  ASSUME SignInv, NEW s \in Left, Suppress(s), link = "up", ~wiped
  PROVE  Landed(s)
<1>1. s.file \in Files /\ s.contents # Unknown
  BY DEF SignInv, PlanIsSound
<1>2. sign[s.file] = s.contents
  BY <1>1 DEF SignInv, CacheIsTheSigns, Suppress, Suppressed
<1>3. sign' = sign /\ frozen' = frozen
  BY DEF Suppress, signVars
<1>4. QED
  BY <1>1, <1>2, <1>3 DEF SignInv, PlayingOrStuck, Landed

LEMMA GoneHasLanded ==
  ASSUME NEW s, Goes(s), link' = "up"
  PROVE  Landed(s)
  BY DEF Goes, Lands, Landed, signVars

(* What is left of a sound plan is one.                                    *)
LEMMA PlanGoesOn ==
  ASSUME TypeOK, SignInv, NEW s \in Left, Advances(s), UNCHANGED record
  PROVE  CallsExist' /\ PlanIsSound'
<1>1. UNCHANGED slots /\ UNCHANGED variables /\ Playing(slots)' = Playing(slots)
      /\ Registered(slots)' = Registered(slots)
  BY DEF record, Playing, Registered
<1>2. CallsExist'
  <2>1. CASE op' = Idle
    BY <1>1, <2>1, IdleRecord, CallsAreKept DEF SignInv, CallsExist
  <2>2. CASE op'.kind = op.kind /\ op'.who = op.who /\ op'.was = op.was
             /\ op'.next = op.next
    BY <1>1, <2>2, CallsAreKept DEF SignInv, CallsExist, Called
  <2>3. QED
    BY <2>1, <2>2, AdvancesEffect
<1>3. PlanIsSound'
  BY <1>1, LeftAfter, CallsAreKept DEF SignInv, PlanIsSound
<1>4. QED
  BY <1>2, <1>3

(* What a file will hold it still will.                                    *)
LEMMA WillAfter ==
  ASSUME TypeOK, PlanIsSound, NEW s \in Left, Advances(s), Landed(s),
         NEW f \in Files, NEW c, Will(f, c)
  PROVE  Will(f, c)'
<1>1. CASE s.file = f
  <2>1. ~Pending(f)'
    BY <1>1, LeftAfter DEF PlanIsSound, Pending
  <2>2. [file |-> f, contents |-> c] \in Left
    BY <1>1 DEF Will, Pending
  <2>3. [file |-> f, contents |-> c] = s
    BY <1>1, <2>2 DEF PlanIsSound
  <2>4. sign'[f] = c
    BY <1>1, <2>3 DEF Landed
  <2>5. QED
    BY <2>1, <2>4 DEF Will
<1>2. CASE s.file # f
  <2>1. Pending(f)' = Pending(f) /\ sign'[f] = sign[f]
    BY <1>2, LeftAfter DEF Pending, Landed
  <2>2. [file |-> f, contents |-> c] # s
    BY <1>2
  <2>3. QED
    BY <2>1, <2>2, LeftAfter DEF Will
<1>3. QED
  BY <1>1, <1>2

(* So the sign still will match, or matches.                               *)
LEMMA PromiseAfter ==
  ASSUME RecordInv, SignInv, Calm, NEW s \in Left, Advances(s), Landed(s),
         UNCHANGED record
  PROVE  WillMatch'
<1> USE DEF RecordInv, SignInv
<1>1. UNCHANGED slots /\ UNCHANGED variables /\ Playing(slots)' = Playing(slots)
      /\ Registered(slots)' = Registered(slots)
      /\ \A k : Text(slots[k])' = Text(slots[k])
  BY CallsAreKept DEF record, Playing, Registered, Text
<1>2. Will(Sequence, Playing(slots))'
  BY <1>1, WillAfter, FilesApart DEF WillMatch
<1>3. ASSUME NEW k \in Registered(slots), slots[k].active
      PROVE  Will(slots[k].label, Text(slots[k]).contents)'
  <2>1. Will(slots[k].label, Text(slots[k]).contents)
    BY <1>3 DEF WillMatch
  <2>2. slots[k].label \in Files
    BY RegisteredSlots, FilesApart
  <2> DEFINE f == slots[k].label
             c == Text(slots[k]).contents
  <2> HIDE DEF f, c
  <2>3. Will(f, c)'
    BY <2>1, <2>2, <1>1, WillAfter DEF f, c
  <2>4. QED
    BY <2>3, <1>1 DEF f, c
<1>4. ASSUME NEW n \in Names, variables[n] # Absent
      PROVE  Will(variables[n].label, variables[n].value)'
  <2>1. variables[n].label \in Files
    BY <1>4, Records, FilesApart DEF TypeOK
  <2>2. QED
    BY <1>1, <1>4, <2>1, WillAfter DEF WillMatch
<1>5. ASSUME NEW k \in Registered(slots), Playing(slots) = {},
             \/ frozen' = slots[k].label
             \/ Pending(Sequence)' /\ slots[k].label \in sign'[Sequence]
      PROVE  Will(slots[k].label, Blank)'
  <2>1. slots[k].label \in Labels /\ slots[k].label \in Files
        /\ slots[k].label # NoFile /\ slots[k].label # Sequence
    BY RegisteredSlots, FilesApart
  <2>2. \/ frozen = slots[k].label
        \/ Pending(Sequence) /\ slots[k].label \in sign[Sequence]
    <3>1. CASE s.file = Sequence
      <4>1. s.contents = {} /\ ~Pending(Sequence)'
        BY <3>1, <1>5, LeftAfter DEF PlanIsSound, Pending
      <4>2. Pending(Sequence)
        BY <3>1 DEF Pending
      <4>3. QED
        BY <1>5, <3>1, <4>1, <4>2 DEF Landed
    <3>2. CASE s.file # Sequence
      BY <1>5, <3>2, LeftAfter, FilesApart DEF Landed, Pending
    <3>3. QED
      BY <3>1, <3>2
  <2>3. Will(slots[k].label, Blank)
    BY <1>5, <2>2 DEF WillMatch
  <2>4. QED
    BY <1>1, <2>1, <2>3, WillAfter
<1>6. QED
  BY <1>1, <1>2, <1>3, <1>4, <1>5 DEF WillMatch

(* What is to be played is what is recorded: no file is read before it is  *)
(* filled, and none is emptied while it is read.                           *)
LEMMA TurnsAfter ==
  ASSUME RecordInv, SignInv, Calm, NEW s \in Due, Advances(s), Landed(s),
         UNCHANGED record, WillMatch', CallsExist', TypeOK'
  PROVE  TurnsAreReadable'
<1> USE DEF RecordInv, SignInv
<1>1. UNCHANGED slots /\ UNCHANGED variables /\ Playing(slots)' = Playing(slots)
      /\ Registered(slots)' = Registered(slots)
  BY DEF record, Playing, Registered
<1>2. PICK i \in DOMAIN op.todo : s \in op.todo[i] /\ Turn(i)
  BY DueIsLeft
<1>3. s \in Left /\ Playing(slots) \in SUBSET Labels
  BY DueIsLeft, PlayingIsLabels
<1>4. CASE op.kind = "refresh" /\ Settling'
  <2>1. op' = Idle /\ Calm'
    <3>1. op'.kind # "refresh"
      BY <1>4 DEF Settling
    <3>2. op' = Idle
      BY <1>4, <3>1, AdvancesEffect
    <3>3. QED
      BY <1>4, <3>2 DEF Settling, Excused, Calm
  <2>2. \A f : ~Pending(f)'
    BY <2>1, InLeft DEF Idle, Pending
  <2>3. sign'[Sequence] = Playing(slots)
    BY <1>1, <2>1, <2>2 DEF WillMatch, Will
  <2>4. ASSUME NEW l \in sign'[Sequence] PROVE Readable(sign[l])'
    <3>1. PICK k \in Registered(slots) : slots[k].active /\ slots[k].label = l
      BY <2>3, <2>4 DEF Playing
    <3>2. sign'[l] = Text(slots[k]).contents'
      BY <1>1, <2>1, <2>2, <3>1 DEF WillMatch, Will
    <3>3. Readable(Text(slots[k]).contents)
      BY <3>1, TextsAreReadable
    <3>4. Text(slots[k]).contents' = Text(slots[k]).contents
      BY <1>1, CallsAreKept DEF Text
    <3>5. QED
      BY <1>1, <3>2, <3>3, <3>4, CallsAreKept
  <2>5. DOMAIN op'.todo = {}
    BY <2>1 DEF Idle
  <2>6. QED
    BY <2>4, <2>5 DEF TurnsAreReadable
<1>5. CASE op.kind # "refresh" /\ Settling'
  <2>1. Settling
    <3>1. ~dirty /\ ~cancelled
      BY <1>5 DEF Calm
    <3>2. QED
      BY <1>5, <3>1 DEF Settling, Excused, Calm
  <2>2. CASE s.file = Sequence
    <3>1. sign'[Sequence] = Playing(slots)
      BY <1>3, <2>2, FilesApart DEF Landed, PlanIsSound
    <3>2. ASSUME NEW l \in sign'[Sequence] PROVE Readable(sign[l])'
      <4>1. PICK k \in Registered(slots) : slots[k].active /\ slots[k].label = l
        BY <3>1, <3>2 DEF Playing
      <4>2. l \in Files /\ l # Sequence
        BY <4>1, RegisteredSlots, FilesApart
      <4>3. ~Pending(l)
        BY <1>2, <2>2, <3>1, <3>2, InLeft DEF PlanIsSound, Pending, Turn
      <4>4. sign[l] = Text(slots[k]).contents
        BY <4>1, <4>3 DEF WillMatch, Will
      <4>5. sign'[l] = sign[l]
        BY <2>2, <4>2 DEF Landed
      <4>6. Readable(sign'[l])
        BY <4>1, <4>4, <4>5, TextsAreReadable
      <4>7. QED
        BY <1>1, <4>6, CallsAreKept DEF Readable
    <3>3. ASSUME NEW h \in DOMAIN op'.todo, NEW r \in op'.todo[h],
                 r.file \in sign'[Sequence]
          PROVE  FALSE
      BY <1>2, <2>2, <3>1, <3>3, LeftAfter DEF PlanIsSound, Turn
    <3>4. QED
      BY <3>2, <3>3 DEF TurnsAreReadable
  <2>3. CASE s.file # Sequence
    <3>1. sign'[Sequence] = sign[Sequence] /\ sign[Sequence] \in SUBSET Labels
      BY <2>3, FilesApart DEF Landed, PlayingOrStuck
    <3>2. ASSUME NEW l \in sign'[Sequence] PROVE Readable(sign'[l])
      <4>1. CASE l # s.file
        BY <2>1, <3>1, <3>2, <4>1, FilesApart DEF Landed, TurnsAreReadable
      <4>2. CASE l = s.file
        <5>1. s.contents # Blank
          BY <1>2, <2>1, <3>1, <3>2, <4>2 DEF TurnsAreReadable, Turn
        <5>2. QED
          BY <1>3, <3>1, <3>2, <4>2, <5>1, FilesApart DEF PlanIsSound, Landed
      <4>3. QED
        BY <4>1, <4>2
    <3>3. \A l \in sign'[Sequence] : Readable(sign[l])'
      BY <1>1, <3>2, CallsAreKept DEF Readable
    <3>4. ASSUME NEW h \in DOMAIN op'.todo, NEW r \in op'.todo[h],
                 r.file \in sign'[Sequence], r.contents = Blank
          PROVE  /\ r.file \notin Playing(slots)'
                 /\ \E j \in DOMAIN op'.todo :
                      j < h /\ \E t \in op'.todo[j] : t.file = Sequence
      <4>1. h \in DOMAIN op.todo /\ r \in op.todo[h]
        BY <3>4, LeftAfter
      <4>2. PICK j \in DOMAIN op.todo :
              j < h /\ \E t \in op.todo[j] : t.file = Sequence
        BY <2>1, <3>1, <3>4, <4>1 DEF TurnsAreReadable
      <4>3. r.file \notin Playing(slots)
        BY <2>1, <3>1, <3>4, <4>1 DEF TurnsAreReadable
      <4>4. QED
        BY <1>1, <2>3, <4>2, <4>3, LeftAfter
    <3>5. QED
      BY <3>3, <3>4 DEF TurnsAreReadable
  <2>4. QED
    BY <2>2, <2>3
<1>6. QED
  BY <1>4, <1>5 DEF TurnsAreReadable

LEMMA SuppressKeeps ==
  ASSUME RecordInv, SignInv, RecordInv', NEW s \in Due, Suppress(s)
  PROVE  SignInv'
<1>1. /\ s \in Left /\ Advances(s) /\ UNCHANGED record
      /\ UNCHANGED <<cache, sign, frozen, link, owed, wiped>>
  BY DueIsLeft DEF Suppress, signVars
<1>2. CallsExist' /\ PlanIsSound'
  BY <1>1, PlanGoesOn DEF RecordInv
<1>3. CacheIsTheSigns' /\ PlayingOrStuck'
  BY <1>1 DEF SignInv, CacheIsTheSigns, PlayingOrStuck
<1>4. CASE ~owed /\ ~wiped /\ link = "up"
  <2>1. Landed(s)
    BY <1>1, <1>4, SuppressedHasLanded
  <2>2. Calm' \/ Settling' => Calm
    <3>1. op'.kind = op.kind \/ op' = Idle
      BY AdvancesEffect, <1>1 DEF RecordInv
    <3>2. op.kind # "refresh" => dirty' = dirty /\ cancelled' = cancelled
      BY <1>1 DEF Advances, RecordInv, TypeOK
    <3>3. QED
      BY <1>4, <3>1, <3>2, IdleRecord DEF Calm, Settling, Excused
  <2>3. WillMatch'
    BY <1>1, <2>1, <2>2, PromiseAfter DEF WillMatch
  <2>4. TurnsAreReadable'
    BY <1>1, <1>2, <2>1, <2>2, <2>3, TurnsAfter DEF TurnsAreReadable, RecordInv
  <2>5. QED
    BY <1>2, <1>3, <2>3, <2>4 DEF SignInv
<1>5. CASE ~(~owed /\ ~wiped /\ link = "up")
  <2>1. ~Calm' /\ ~Settling'
    BY <1>1, <1>5 DEF Calm, Settling, Excused
  <2>2. QED
    BY <1>2, <1>3, <2>1 DEF SignInv, WillMatch, TurnsAreReadable
<1>6. QED
  BY <1>4, <1>5

LEMMA GoesKeepsPlaying ==
  ASSUME TypeOK, SignInv, NEW s \in Left, Goes(s)
  PROVE  PlayingOrStuck'
<1>1. CASE Lands(s)
  BY <1>1, FilesApart, PlayingIsLabels
  DEF Lands, SignInv, PlayingOrStuck, PlanIsSound
<1>2. CASE UNCHANGED signVars
  BY <1>2 DEF signVars, SignInv, PlayingOrStuck
<1>3. QED
  BY <1>1, <1>2 DEF Goes

(* What is believed after a send that may have gone is right of its file,  *)
(* if anything is, and of the others.                                      *)
LEMMA BelievedIsRight ==
  ASSUME TypeOK, SignInv, NEW s \in Left, Goes(s),
         NEW c \in {Unknown, s.contents}, cache' = Believed(s, c),
         UNCHANGED wiped
  PROVE  CacheIsTheSigns' /\ PlayingOrStuck'
<1>1. s.file \in Files
  BY DEF SignInv, PlanIsSound
<1>2. CacheIsTheSigns'
  <2>1. SUFFICES ASSUME link' = "up", ~wiped, NEW f \in Files
                 PROVE  cache'[f] \in {Unknown, sign'[f]}
    BY DEF CacheIsTheSigns
  <2>2. sign'[f] = IF f = s.file THEN s.contents ELSE sign[f]
    BY <2>1, GoneHasLanded DEF Landed
  <2>3. QED
    BY <2>1, <2>2 DEF Believed, SignInv, CacheIsTheSigns
<1>3. QED
  BY <1>2, GoesKeepsPlaying

LEMMA SendKeeps ==
  ASSUME RecordInv, SignInv, RecordInv', NEW s \in Due, Send(s)
  PROVE  SignInv'
<1>1. /\ s \in Left /\ Advances(s) /\ UNCHANGED record /\ UNCHANGED wiped
      /\ Goes(s) /\ cache' = Believed(s, s.contents)
  BY DueIsLeft DEF Send
<1>2. CallsExist' /\ PlanIsSound'
  BY <1>1, PlanGoesOn DEF RecordInv
<1>3. CacheIsTheSigns' /\ PlayingOrStuck'
  BY <1>1, BelievedIsRight DEF RecordInv
<1>4. CASE ~owed' /\ ~wiped /\ link' = "up"
  <2>1. Landed(s) /\ ~owed /\ link = "up"
    <3>1. Landed(s)
      BY <1>1, <1>4, GoneHasLanded
    <3>2. link = "up" /\ owed' = owed
      BY <1>1, <1>4 DEF Goes
    <3>3. QED
      BY <1>4, <3>1, <3>2
  <2>2. Calm' \/ Settling' => Calm
    <3>1. op'.kind = op.kind \/ op' = Idle
      BY AdvancesEffect, <1>1 DEF RecordInv
    <3>2. op.kind # "refresh" => dirty' = dirty /\ cancelled' = cancelled
      BY <1>1 DEF Advances, RecordInv, TypeOK
    <3>3. QED
      BY <1>4, <2>1, <3>1, <3>2, IdleRecord DEF Calm, Settling, Excused
  <2>3. WillMatch'
    BY <1>1, <2>1, <2>2, PromiseAfter DEF WillMatch
  <2>4. TurnsAreReadable'
    BY <1>1, <1>2, <2>1, <2>2, <2>3, TurnsAfter DEF TurnsAreReadable, RecordInv
  <2>5. QED
    BY <1>2, <1>3, <2>3, <2>4 DEF SignInv
<1>5. CASE ~(~owed' /\ ~wiped /\ link' = "up")
  <2>1. ~Calm' /\ ~Settling'
    BY <1>1, <1>5 DEF Calm, Settling, Excused
  <2>2. QED
    BY <1>2, <1>3, <2>1 DEF SignInv, WillMatch, TurnsAreReadable
<1>6. QED
  BY <1>4, <1>5

(* An operation taken back takes nothing from a message that is there; and *)
(* then there is nothing left of it to send.                               *)
LEMMA UndoKeepsCalls ==
  ASSUME RecordInv, SignInv, op' = Idle,
         Undo \/ (UNCHANGED slots /\ UNCHANGED variables)
  PROVE  CallsExist' /\ PlanIsSound'
<1> USE DEF RecordInv, SignInv
<1>1. PlanIsSound'
  BY InLeft DEF PlanIsSound, Idle
<1>2. op'.kind = "idle"
  BY IdleRecord
<1>3. SUFFICES ASSUME NEW k \in Registered(slots)'
               PROVE  Callable(slots[k].text)'
  BY <1>1, <1>2 DEF CallsExist
<1>4. CASE UNCHANGED slots /\ UNCHANGED variables
  BY <1>3, <1>4 DEF CallsExist, Registered, Callable
<1>5. CASE Undo /\ op.kind \in {"drawing", "upsert"}
  <2>1. slots' = [slots EXCEPT ![op.who] = op.was] /\ variables' = variables
    BY <1>5 DEF Undo, UndoTheRest
  <2>2. op.who \in Keys
    BY <1>5 DEF UndoIsSound
  <2>3. QED
    BY <1>3, <1>5, <2>1, <2>2 DEF CallsExist, Registered, Callable, TypeOK
<1>6. CASE Undo /\ op.kind = "show"
  <2>1. /\ slots' = [slots EXCEPT ![op.who] =
                                   [slots[op.who] EXCEPT !.active = FALSE]]
        /\ variables' = variables
    BY <1>6 DEF Undo, UndoTheRest
  <2>2. op.who \in Registered(slots) /\ op.who \in Keys
        /\ slots[op.who] \in Slot
    BY <1>6 DEF UndoIsSound, Registered, TypeOK
  <2>3. [slots[op.who] EXCEPT !.active = FALSE].text = slots[op.who].text
    BY <2>2 DEF Slot
  <2>4. k \in Registered(slots) /\ slots'[k].text = slots[k].text
    <3>1. CASE k = op.who
      BY <2>1, <2>2, <2>3, <3>1 DEF TypeOK
    <3>2. CASE k # op.who
      BY <1>3, <2>1, <3>2 DEF Registered, TypeOK
    <3>3. QED
      BY <3>1, <3>2
  <2>5. QED
    BY <2>1, <2>4 DEF CallsExist, Callable
<1>7. CASE Undo /\ op.kind = "put"
  <2>1. variables' = [variables EXCEPT ![op.who] = op.was] /\ slots' = slots
    BY <1>7 DEF Undo, UndoTheRest
  <2>2. QED
    BY <1>3, <1>7, <2>1 DEF CallsExist, Registered, Called, Callable, TypeOK
<1>8. QED
  BY <1>4, <1>5, <1>6, <1>7 DEF Undo, UndoTheRest

LEMMA FailKeeps ==
  ASSUME RecordInv, SignInv, NEW s \in Due, Fail(s)
  PROVE  SignInv'
<1>1. op' = Idle /\ link' = "down" /\ UNCHANGED <<sign, frozen>>
      /\ (Undo \/ (UNCHANGED slots /\ UNCHANGED variables))
  BY DEF Fail, signVars, record
<1>2. CallsExist' /\ PlanIsSound'
  BY <1>1, UndoKeepsCalls
<1>3. ~Calm' /\ ~Settling'
  BY <1>1 DEF Calm, Settling, Excused
<1>4. QED
  BY <1>1, <1>2, <1>3
  DEF SignInv, CacheIsTheSigns, PlayingOrStuck, WillMatch, TurnsAreReadable

LEMMA CancelKeeps ==
  ASSUME RecordInv, SignInv, NEW s \in Due, Cancel(s)
  PROVE  SignInv'
<1>1. /\ s \in Left /\ op' = Idle /\ cancelled' = TRUE /\ UNCHANGED wiped
      /\ Undo \/ (UNCHANGED slots /\ UNCHANGED variables)
  BY DueIsLeft DEF Cancel, record
<1>2. CallsExist' /\ PlanIsSound'
  BY <1>1, UndoKeepsCalls
<1>3. ~Calm' /\ ~Settling'
  BY <1>1, IdleRecord DEF Calm, Settling, Excused
<1>4. s.file \in Files /\ DOMAIN cache = Files
  BY <1>1 DEF SignInv, PlanIsSound, RecordInv, TypeOK
<1>5. CacheIsTheSigns' /\ PlayingOrStuck'
  <2>1. CASE cache' = [cache EXCEPT ![s.file] = Unknown]
             /\ UNCHANGED <<signVars, link, owed>>
    BY <1>1, <1>4, <2>1
    DEF signVars, SignInv, CacheIsTheSigns, PlayingOrStuck
  <2>2. CASE cache' = Forgotten /\ UNCHANGED <<signVars, link, owed>>
    BY <1>1, <2>2
    DEF Forgotten, signVars, SignInv, CacheIsTheSigns, PlayingOrStuck
  <2>3. CASE cache' = Forgotten /\ Goes(s)
    <3>1. CacheIsTheSigns'
      BY <2>3 DEF Forgotten, CacheIsTheSigns
    <3>2. PlayingOrStuck'
      BY <1>1, <2>3, GoesKeepsPlaying DEF RecordInv
    <3>3. QED
      BY <3>1, <3>2
  <2>4. CASE Goes(s) /\ cache' = Believed(s, Unknown)
    BY <1>1, <2>4, BelievedIsRight DEF RecordInv
  <2>5. QED
    BY <2>1, <2>2, <2>3, <2>4 DEF Cancel
<1>6. QED
  BY <1>2, <1>3, <1>5 DEF SignInv, WillMatch, TurnsAreReadable

(* The world.                                                              *)
LEMMA WorldKeeps ==
  ASSUME RecordInv, SignInv,
         \/ ConnectionDies \/ ReadFails \/ Reconnect \/ PowerCycle
         \/ RepushAtNextRefresh \/ UNCHANGED vars
  PROVE  SignInv'
<1>1. UNCHANGED record /\ UNCHANGED op
  BY DEF ConnectionDies, ReadFails, Reconnect, PowerCycle, RepushAtNextRefresh,
         vars
<1>2. /\ UNCHANGED slots /\ UNCHANGED variables /\ Left' = Left
      /\ Playing(slots)' = Playing(slots)
      /\ Registered(slots)' = Registered(slots)
  BY <1>1 DEF record, Playing, Registered, Left
<1>3. CallsExist' /\ PlanIsSound'
  BY <1>1, <1>2, CallsAreKept DEF SignInv, CallsExist, Called, PlanIsSound
<1>4. CacheIsTheSigns'
  BY DEF ConnectionDies, ReadFails, Reconnect, PowerCycle, RepushAtNextRefresh,
         vars, signVars, Forgotten, SignInv, CacheIsTheSigns
<1>5. PlayingOrStuck'
  BY FilesApart
  DEF ConnectionDies, ReadFails, Reconnect, PowerCycle, RepushAtNextRefresh,
      vars, signVars, Empty, SignInv, PlayingOrStuck
<1>6. (~Calm' /\ ~Settling') \/ UNCHANGED vars
  BY IdleRecord
  DEF ConnectionDies, ReadFails, Reconnect, PowerCycle, RepushAtNextRefresh,
      Calm, Settling, Excused
<1>7. CASE UNCHANGED vars
  <2>1. UNCHANGED <<sign, frozen, dirty, owed, wiped, link, cancelled>>
    BY <1>7 DEF vars, signVars
  <2>2. /\ \A f, c : Will(f, c)' = Will(f, c)
        /\ \A f : Pending(f)' = Pending(f)
        /\ \A s : Text(s)' = Text(s)
        /\ Calm' = Calm /\ Settling' = Settling
    BY <1>1, <1>2, <2>1, CallsAreKept
    DEF Will, Pending, Text, Calm, Settling, Excused
  <2>3. WillMatch'
    BY <1>2, <2>1, <2>2 DEF SignInv, WillMatch
  <2>4. TurnsAreReadable'
    BY <1>1, <1>2, <2>1, <2>2, CallsAreKept DEF SignInv, TurnsAreReadable
  <2>5. QED
    BY <1>3, <1>4, <1>5, <2>3, <2>4 DEF SignInv
<1>8. QED
  BY <1>3, <1>4, <1>5, <1>6, <1>7 DEF SignInv, WillMatch, TurnsAreReadable

-----------------------------------------------------------------------------
(* An operation on messages begins: what it changes of the record it sends,*)
(* and what it sends is of the record it changed.                          *)

\* The plan is of the new record: the run sequence, messages as they are
\* recorded, and files of messages that are gone, which are emptied.
PlansMessages(S) ==
  \A s \in Left' :
    \/ s = RunSequence(S)
    \/ \E k \in Registered(S) : s = Settled(S, S[k])
    \/ \E k \in Registered(slots) :
         S[k] = Absent /\ s = Emptied(slots[k].label)

\* What changes is sent.
PlansChanges(S) ==
  /\ \A k \in Registered(S) : S[k] = slots[k] \/ Settled(S, S[k]) \in Left'
  /\ Playing(S) = Playing(slots) \/ RunSequence(S) \in Left'

\* First what is to be played, then the sequence, then what was.
PlansInOrder(S) ==
  \A i, j \in DOMAIN op'.todo : \A s \in op'.todo[i], t \in op'.todo[j] :
    t.file = Sequence =>
      /\ s.file \in Playing(S) => i < j
      /\ s.file \in Playing(slots) \ Playing(S) => j < i

\* A message keeps its file, and takes none that another has.
KeepsFiles(S) ==
  \A j, k \in Keys :
    /\ S[k] # Absent /\ slots[j] # Absent /\ S[k].label = slots[j].label => j = k
    /\ S[k] # Absent /\ S[j] # Absent /\ S[k].label = S[j].label => j = k

\* Pending and Will, once it has begun.
PendingNext(f) == \E s \in Left' : s.file = f
WillNext(f, contents) ==
  IF PendingNext(f) THEN [file |-> f, contents |-> contents] \in Left'
  ELSE sign'[f] = contents

LEMMA MessagesBegin ==
  ASSUME RecordInv, SignInv, RecordInv', CallsExist',
         Done(op.todo), op.kind # "refresh", op'.kind # "refresh",
         UNCHANGED <<variables, cache, sign, frozen, link, owed, wiped, dirty,
                     cancelled>>,
         PlansMessages(slots'), PlansChanges(slots'), PlansInOrder(slots'),
         KeepsFiles(slots')
  PROVE  SignInv'
<1> DEFINE S == slots'
<1> USE DEF RecordInv, SignInv
<1>1. (\A s : s \notin Left) /\ (\A f : ~Pending(f))
      /\ \A f, c : Will(f, c) <=> sign[f] = c
  BY InLeft DEF Done, Pending, Will
<1>2. /\ Playing(slots)' = Playing(S) /\ Registered(slots)' = Registered(S)
      /\ Playing(S) \in SUBSET Labels /\ Playing(slots) \in SUBSET Labels
      /\ \A k \in Registered(S) :
           /\ k \in Keys /\ S[k] # Absent
           /\ S[k].label \in Labels /\ S[k].text \in Texts
           /\ S[k].active \in BOOLEAN
  <2>1. Playing(slots)' = Playing(S) /\ Registered(slots)' = Registered(S)
    BY DEF Playing, Registered
  <2>2. \A k \in Registered(S) :
           /\ k \in Keys /\ S[k] # Absent
           /\ S[k].label \in Labels /\ S[k].text \in Texts
           /\ S[k].active \in BOOLEAN
    BY RegistryAssumption DEF TypeOK, Registered, Slot
  <2>3. Playing(S) \in SUBSET Labels
    BY <2>2 DEF Playing
  <2>4. QED
    BY <2>1, <2>2, <2>3, PlayingIsLabels
<1>3. \A l \in Playing(S) :
        \E k \in Registered(S) : S[k].active /\ S[k].label = l
  BY DEF Playing
<1>4. \A k \in Registered(S) :
        /\ Text(S[k]).contents = <<S[k].text, Call(S[k].text)>>
        /\ Text(slots[k]).contents' = <<S[k].text, Call(S[k].text)>>
        /\ Readable(Text(S[k]).contents)
  <2>1. TAKE k \in Registered(S)
  <2>2. Callable(S[k].text)
    BY <1>2, CallsAreKept DEF CallsExist
  <2>3. Text(S[k]).contents = <<S[k].text, Call(S[k].text)>>
        /\ Text(slots[k]).contents' = <<S[k].text, Call(S[k].text)>>
    BY CallsAreKept DEF Text
  <2>4. QED
    BY <1>2, <2>2, <2>3 DEF Readable
<1>5. \A k \in Registered(S) :
        /\ Settled(S, S[k]).file = S[k].label
        /\ S[k].active => Settled(S, S[k]) = Text(S[k])
        /\ ~S[k].active /\ Playing(S) # {} => Settled(S, S[k]) = Text(S[k])
        /\ ~S[k].active /\ Playing(S) = {} =>
             Settled(S, S[k]) = Emptied(S[k].label)
        /\ S[k].active => S[k].label \in Playing(S)
  BY DEF Settled, Hidden, Text, Emptied, Playing
<1>6. /\ RunSequence(S).file = Sequence
      /\ RunSequence(S).contents = Playing(S)
      /\ \A l : Emptied(l).file = l /\ Emptied(l).contents = Blank
  BY DEF RunSequence, Emptied
<1> HIDE DEF S
<1>7. \A s \in Left' :
        /\ s.file \in Files /\ s.contents # Unknown
        /\ s.file \in Labels => s.contents = Blank \/ Readable(s.contents)
        /\ s.file = Sequence => s = RunSequence(S)
  <2>1. TAKE s \in Left'
  <2>2. CASE s = RunSequence(S)
    BY <1>2, <1>6, <2>2, FilesApart, RegistryAssumption
  <2>3. ASSUME NEW k \in Registered(S), s = Settled(S, S[k])
        PROVE  /\ s.file \in Files /\ s.contents # Unknown
               /\ s.file # Sequence
               /\ s.contents = Blank \/ Readable(s.contents)
    <3>1. s.file = S[k].label /\ s.file \in Files /\ s.file # Sequence
      BY <1>2, <1>5, <2>3, FilesApart
    <3>2. s.contents = Blank \/ s.contents = Text(S[k]).contents
      BY <1>2, <1>5, <1>6, <2>3
    <3>3. Text(S[k]).contents # Unknown /\ Blank # Unknown
      BY <1>2, <1>4, CallsAreFiles, RegistryAssumption
    <3>4. QED
      BY <1>4, <3>1, <3>2, <3>3
  <2>4. ASSUME NEW k \in Registered(slots), s = Emptied(slots[k].label)
        PROVE  /\ s.file \in Files /\ s.contents # Unknown
               /\ s.file # Sequence /\ s.contents = Blank
    BY <1>6, <2>4, RegisteredSlots, FilesApart, RegistryAssumption
  <2>5. QED
    BY <2>2, <2>3, <2>4 DEF PlansMessages, S
<1>8. \A s, t \in Left' : s.file = t.file => s = t
  <2>1. SUFFICES ASSUME NEW s \in Left', NEW t \in Left', s.file = t.file
                 PROVE  s = t
    OBVIOUS
  <2>2. CASE s.file = Sequence
    BY <1>7, <2>1, <2>2
  <2>3. CASE s.file # Sequence
    <3>1. \/ \E k \in Registered(S) : s = Settled(S, S[k])
          \/ \E k \in Registered(slots) :
               S[k] = Absent /\ s = Emptied(slots[k].label)
      BY <1>6, <2>3 DEF PlansMessages, S
    <3>2. \/ \E k \in Registered(S) : t = Settled(S, S[k])
          \/ \E k \in Registered(slots) :
               S[k] = Absent /\ t = Emptied(slots[k].label)
      BY <1>6, <2>1, <2>3 DEF PlansMessages, S
    <3>3. QED
      BY <1>2, <1>5, <1>6, <2>1, <3>1, <3>2, RegisteredSlots
      DEF KeepsFiles, S, FilesHeld, Registered
  <2>4. QED
    BY <2>2, <2>3
<1>9. PlanIsSound'
  <2>1. \A i, j \in DOMAIN op'.todo : \A s \in op'.todo[i], t \in op'.todo[j] :
          s.file \in Playing(S) /\ t.file = Sequence => i < j
    BY DEF PlansInOrder, S
  <2>2. \A s \in Left' : s.file = Sequence => s.contents = Playing(S)
    BY <1>6, <1>7
  <2>3. QED
    BY <1>2, <1>7, <1>8, <2>1, <2>2, CallsAreKept DEF PlanIsSound
\* A message that is emptied is not to be played.
<1>10. \A s \in Left' : s.file \in Labels /\ s.contents = Blank =>
         s.file \notin Playing(S)
  <2>1. SUFFICES ASSUME NEW s \in Left', s.contents = Blank,
                        NEW k \in Registered(S), S[k].active,
                        s.file = S[k].label
                 PROVE  FALSE
    BY <1>3
  <2>2. CASE \E j \in Registered(S) : s = Settled(S, S[j])
    <3>1. s = Settled(S, S[k])
      BY <1>2, <1>5, <2>1, <2>2 DEF KeepsFiles, S
    <3>2. s.contents = <<S[k].text, Call(S[k].text)>>
      BY <1>4, <1>5, <2>1, <3>1
    <3>3. QED
      BY <1>2, <2>1, <3>2, CallsAreFiles
  <2>3. CASE \E j \in Registered(slots) :
               S[j] = Absent /\ s = Emptied(slots[j].label)
    BY <1>2, <1>6, <2>1, <2>3, RegisteredSlots DEF KeepsFiles, S
  <2>4. CASE s = RunSequence(S)
    BY <1>2, <1>6, <2>1, <2>4, FilesApart
  <2>5. QED
    BY <2>2, <2>3, <2>4 DEF PlansMessages, S
<1>11. Calm' => Calm
  BY DEF Calm
<1>12. ASSUME Calm'
       PROVE  /\ sign[Sequence] = Playing(slots)
              /\ \A k \in Registered(slots) : slots[k].active =>
                   sign[slots[k].label] = Text(slots[k]).contents
              /\ \A n \in Names : variables[n] # Absent =>
                   sign[variables[n].label] = variables[n].value
              /\ \A k \in Registered(slots) :
                   Playing(slots) = {} /\ frozen = slots[k].label =>
                     sign[slots[k].label] = Blank
  BY <1>1, <1>11, <1>12 DEF WillMatch
\* What is sent will be there, and what is not sent is.
<1>13. /\ \A s \in Left' : WillNext(s.file, s.contents)
       /\ \A f, c : ~PendingNext(f) /\ sign[f] = c => WillNext(f, c)
  <2>1. \A s \in Left' : PendingNext(s.file)
    BY DEF PendingNext
  <2>2. \A s \in Left' : s = [file |-> s.file, contents |-> s.contents]
    BY DEF PlansMessages, RunSequence, Settled, Hidden, Text, Emptied
  <2>3. QED
    BY <2>1, <2>2 DEF WillNext
<1>14. ASSUME Calm' PROVE WillNext(Sequence, Playing(S))
  <2>1. CASE RunSequence(S) \in Left'
    BY <1>6, <1>13, <2>1
  <2>2. CASE RunSequence(S) \notin Left'
    <3>1. ~PendingNext(Sequence)
      BY <1>7, <2>2 DEF PendingNext
    <3>2. Playing(S) = Playing(slots)
      BY <2>2 DEF PlansChanges, S
    <3>3. QED
      BY <1>12, <1>13, <1>14, <3>1, <3>2
  <2>3. QED
    BY <2>1, <2>2
\* A message that did not change is sent as it is or not at all.
<1>15. \A k \in Registered(S) :
         \/ Settled(S, S[k]) \in Left'
         \/ S[k] = slots[k] /\ k \in Registered(slots) /\ ~PendingNext(S[k].label)
  <2>1. SUFFICES ASSUME NEW k \in Registered(S),
                        Settled(S, S[k]) \notin Left'
                 PROVE  /\ S[k] = slots[k] /\ k \in Registered(slots)
                        /\ ~PendingNext(S[k].label)
    OBVIOUS
  <2>2. S[k] = slots[k] /\ k \in Registered(slots)
    BY <1>2, <2>1 DEF PlansChanges, S, Registered
  <2>3. ASSUME NEW s \in Left', s.file = S[k].label PROVE FALSE
    <3>1. s.file # Sequence
      BY <1>2, <2>3, FilesApart
    <3>2. CASE \E j \in Registered(S) : s = Settled(S, S[j])
      BY <1>2, <1>5, <2>1, <2>3, <3>2 DEF KeepsFiles, S
    <3>3. CASE \E j \in Registered(slots) :
                 S[j] = Absent /\ s = Emptied(slots[j].label)
      BY <1>2, <1>6, <2>3, <3>3, RegisteredSlots DEF KeepsFiles, S
    <3>4. QED
      BY <1>6, <3>1, <3>2, <3>3 DEF PlansMessages, S
  <2>4. QED
    BY <2>2, <2>3 DEF PendingNext
<1>16. ASSUME Calm', NEW k \in Registered(S), S[k].active
       PROVE  WillNext(S[k].label, Text(S[k]).contents)
  <2>1. CASE Settled(S, S[k]) \in Left'
    <3>1. Settled(S, S[k]) = Text(S[k]) /\ Text(S[k]).file = S[k].label
      BY <1>5, <1>16
    <3>2. QED
      BY <1>13, <2>1, <3>1
  <2>2. CASE S[k] = slots[k] /\ k \in Registered(slots) /\ ~PendingNext(S[k].label)
    BY <1>12, <1>13, <1>16, <2>2
  <2>3. QED
    BY <1>15, <2>1, <2>2
<1>17. ASSUME Calm', NEW n \in Names, variables[n] # Absent
       PROVE  WillNext(variables[n].label, variables[n].value)
  <2>1. variables[n].label \in Strings
    BY <1>17, Records DEF TypeOK
  <2>2. ~PendingNext(variables[n].label)
    <3>1. ASSUME NEW s \in Left' PROVE s.file \in Labels \cup {Sequence}
      BY <1>2, <1>5, <1>6, RegisteredSlots DEF PlansMessages, S
    <3>2. QED
      BY <2>1, <3>1, FilesApart DEF PendingNext
  <2>3. QED
    BY <1>12, <1>13, <1>17, <2>2
<1>18. ASSUME Calm', NEW k \in Registered(S), Playing(S) = {},
              \/ frozen = S[k].label
              \/ S[k].label \in sign[Sequence]
       PROVE  WillNext(S[k].label, Blank)
  <2>1. ~S[k].active
    BY <1>5, <1>18
  <2>2. CASE Settled(S, S[k]) \in Left'
    <3>1. Settled(S, S[k]).file = S[k].label
          /\ Settled(S, S[k]).contents = Blank
      BY <1>5, <1>6, <1>18, <2>1
    <3>2. QED
      BY <1>13, <2>2, <3>1
  <2>3. CASE S[k] = slots[k] /\ k \in Registered(slots) /\ ~PendingNext(S[k].label)
    <3>1. S[k].label \notin Playing(slots)
      BY <1>2, <2>1, <2>3 DEF Playing, KeepsFiles, S, Registered
    <3>2. frozen = S[k].label /\ S[k].label # NoFile
      BY <1>2, <1>12, <1>18, <3>1, FilesApart
    <3>3. Playing(slots) = {}
      BY <1>12, <1>18, <3>2 DEF PlayingOrStuck
    <3>4. QED
      BY <1>12, <1>13, <1>18, <2>3, <3>2, <3>3
  <2>4. QED
    BY <1>15, <2>2, <2>3
<1>19. WillMatch'
  <2>1. SUFFICES ASSUME Calm' PROVE WillMatch'
    BY DEF WillMatch
  <2>2. \A k \in Registered(S) : S[k].active =>
          WillNext(S[k].label, <<S[k].text, Call(S[k].text)>>)
    BY <1>4, <1>16, <2>1
  <2>3. \A n \in Names : variables'[n] # Absent =>
          WillNext(variables[n].label, variables[n].value)
    BY <1>17, <2>1
  <2>4. \A k \in Registered(S) :
          /\ Playing(S) = {}
          /\ \/ frozen' = S[k].label
             \/ S[k].label \in sign'[Sequence]
          => WillNext(S[k].label, Blank)
    BY <1>18, <2>1
  <2>5. \A k \in Registered(S) :
          Text(slots[k]).contents' = <<S[k].text, Call(S[k].text)>>
    BY <1>4
  <2>6. QED
    BY <1>2, <1>14, <2>1, <2>2, <2>3, <2>4, <2>5
    DEF WillMatch, Will, Pending, WillNext, PendingNext, S
<1>20. TurnsAreReadable'
  <2>1. SUFFICES ASSUME Settling' PROVE TurnsAreReadable'
    BY DEF TurnsAreReadable
  <2>2. Settling /\ Calm'
    BY <2>1 DEF Settling, Excused, Calm
  <2>3. \A l \in sign'[Sequence] : Readable(sign[l])'
    BY <2>2, CallsAreKept DEF TurnsAreReadable, Readable
  <2>4. ASSUME NEW i \in DOMAIN op'.todo, NEW s \in op'.todo[i],
               s.file \in sign[Sequence], s.contents = Blank
        PROVE  /\ s.file \notin Playing(S)
               /\ \E j \in DOMAIN op'.todo :
                    j < i /\ \E t \in op'.todo[j] : t.file = Sequence
    <3>1. s \in Left' /\ s.file \in Playing(slots) /\ s.file \notin Playing(S)
      BY <1>2, <1>10, <1>12, <2>2, <2>4, InLeft
    <3>2. RunSequence(S) \in Left'
      BY <3>1 DEF PlansChanges, S
    <3>3. QED
      BY <1>6, <2>4, <3>1, <3>2, InLeft DEF PlansInOrder, S
  <2>5. QED
    BY <1>2, <2>3, <2>4 DEF TurnsAreReadable
<1>21. CacheIsTheSigns' /\ PlayingOrStuck'
  BY DEF CacheIsTheSigns, PlayingOrStuck
<1>22. QED
  BY <1>9, <1>19, <1>20, <1>21

(* An operation on variables begins, or the drawing of a picture: no       *)
(* message changes, nor does the file of a variable that one calls.        *)
LEMMA OthersBegin ==
  ASSUME RecordInv, SignInv, RecordInv', CallsExist',
         Done(op.todo), op.kind # "refresh", op'.kind # "refresh",
         UNCHANGED <<slots, cache, sign, frozen, link, owed, wiped, dirty,
                     cancelled>>,
         \A s \in Left' :
           /\ s.file \in Strings \cup {Picture} /\ s.contents # Unknown
           /\ s = [file |-> s.file, contents |-> s.contents],
         \A s, t \in Left' : s.file = t.file => s = t,
         \A n \in Names : variables'[n] # Absent =>
           \/ Shown(variables'[n]) \in Left'
           \/ variables'[n] = variables[n] /\ ~PendingNext(variables'[n].label),
         \A n \in Names : Called(n) =>
           /\ variables[n] # Absent /\ variables'[n] # Absent
           /\ variables'[n].label = variables[n].label
  PROVE  SignInv'
<1> USE DEF RecordInv, SignInv
<1>1. (\A s : s \notin Left) /\ (\A f : ~Pending(f))
      /\ \A f, c : Will(f, c) <=> sign[f] = c
  BY InLeft DEF Done, Pending, Will
<1>2. /\ Playing(slots)' = Playing(slots) /\ Registered(slots)' = Registered(slots)
      /\ Playing(slots) \in SUBSET Labels
  BY PlayingIsLabels DEF Playing, Registered
<1>3. /\ \A s \in Left' : s.file \in Files /\ s.file # Sequence
                          /\ s.file \notin Labels
      /\ ~PendingNext(Sequence) /\ \A l \in Labels : ~PendingNext(l)
  BY FilesApart, SMTT(30) DEF PendingNext
<1>4. ASSUME NEW k \in Registered(slots)
      PROVE  /\ Call(slots[k].text)' = Call(slots[k].text)
             /\ Text(slots[k]).contents' = Text(slots[k]).contents
             /\ Readable(Text(slots[k]).contents)'
  <2> DEFINE m == slots[k].text
  <2>1. m \in Texts /\ (Calls[m] = Nobody \/ Called(Calls[m]))
    BY RegisteredSlots DEF Called
  <2>2. Calls[m] = Nobody \/ Calls[m] \in Names
    BY <2>1, RegistryAssumption
  <2>3. Call(slots[k].text)' = Call(slots[k].text)
    BY <2>1, <2>2 DEF Call
  <2>4. Text(slots[k]).contents' = Text(slots[k]).contents
    BY <2>3 DEF Text
  <2>5. Callable(slots[k].text)'
    BY <1>2 DEF CallsExist
  <2>6. Text(slots[k]).contents' = <<slots[k].text, Call(slots[k].text)'>>
    BY DEF Text
  <2>7. QED
    BY <2>1, <2>3, <2>4, <2>5, <2>6 DEF Readable, Callable, Call, Text
<1>5. PlanIsSound'
  BY <1>3, InLeft DEF PlanIsSound
<1>6. Calm' => Calm
  BY DEF Calm
<1>7. WillMatch'
  <2>1. SUFFICES ASSUME Calm' PROVE WillMatch'
    BY DEF WillMatch
  <2>2. WillNext(Sequence, Playing(slots))
    BY <1>1, <1>3, <1>6, <2>1 DEF WillMatch, WillNext
  <2>3. \A k \in Registered(slots) : slots[k].active =>
          WillNext(slots[k].label, Text(slots[k]).contents)
    BY <1>1, <1>3, <1>6, <2>1, RegisteredSlots DEF WillMatch, WillNext
  <2>4. \A n \in Names : variables'[n] # Absent =>
          WillNext(variables'[n].label, variables'[n].value)
    <3>1. SUFFICES ASSUME NEW n \in Names, variables'[n] # Absent
                   PROVE  WillNext(variables'[n].label, variables'[n].value)
      OBVIOUS
    <3>2. CASE Shown(variables'[n]) \in Left'
      BY <3>2 DEF Shown, WillNext, PendingNext
    <3>3. CASE variables'[n] = variables[n]
               /\ ~PendingNext(variables'[n].label)
      BY <1>1, <1>6, <2>1, <3>1, <3>3 DEF WillMatch, WillNext
    <3>4. QED
      BY <3>1, <3>2, <3>3
  <2>5. \A k \in Registered(slots) :
          Playing(slots) = {} /\ frozen = slots[k].label =>
            WillNext(slots[k].label, Blank)
    BY <1>1, <1>3, <1>6, <2>1, RegisteredSlots DEF WillMatch, WillNext
  <2>6. \A k \in Registered(slots) :
          Text(slots[k]).contents' = Text(slots[k]).contents
    BY <1>4
  <2>7. QED
    BY <1>2, <1>3, <2>1, <2>2, <2>3, <2>4, <2>5, <2>6
    DEF WillMatch, Will, Pending, WillNext, PendingNext
<1>8. TurnsAreReadable'
  <2>1. SUFFICES ASSUME Settling' PROVE TurnsAreReadable'
    BY DEF TurnsAreReadable
  <2>2. Calm /\ sign[Sequence] = Playing(slots)
    <3>1. Calm
      BY <2>1 DEF Settling, Excused, Calm
    <3>2. QED
      BY <1>1, <3>1 DEF WillMatch
  <2>3. ASSUME NEW l \in sign[Sequence] PROVE Readable(sign[l])'
    <3>1. PICK k \in Registered(slots) : slots[k].active /\ slots[k].label = l
      BY <2>2, <2>3 DEF Playing
    <3>2. sign[l] = Text(slots[k]).contents
      BY <1>1, <2>2, <3>1 DEF WillMatch
    <3>3. sign'[l] = Text(slots[k]).contents' /\ Readable(Text(slots[k]).contents)'
      BY <1>4, <3>1, <3>2
    <3>4. QED
      BY <3>3 DEF Readable
  <2>4. QED
    BY <1>2, <1>3, <2>2, <2>3, InLeft DEF TurnsAreReadable
<1>9. CacheIsTheSigns' /\ PlayingOrStuck'
  BY DEF CacheIsTheSigns, PlayingOrStuck
<1>10. QED
  BY <1>5, <1>7, <1>8, <1>9

(* A refresh sends it all, and needs nothing to be so before.              *)
LEMMA RefreshKeeps ==
  ASSUME RecordInv, SignInv, Refresh
  PROVE  SignInv'
<1> USE DEF RecordInv, SignInv
<1>1. /\ op.kind = "idle" /\ op'.kind = "refresh" /\ op'.todo = Everything
      /\ UNCHANGED <<slots, variables, sign, frozen, link, owed>>
      /\ cache' = Forgotten
  BY IdleRecord, BeginsEffect DEF Refresh, Begins, record
<1>2. /\ Playing(slots)' = Playing(slots) /\ Registered(slots)' = Registered(slots)
      /\ Playing(slots) \in SUBSET Labels
      /\ \A k : Text(slots[k])' = Text(slots[k])
  BY <1>1, PlayingIsLabels, CallsAreKept DEF Playing, Registered, Text
<1>3. CallsExist'
  BY <1>1, <1>2, CallsAreKept DEF CallsExist
<1>4. /\ DOMAIN op'.todo = 1 .. 4
      /\ op'.todo[1] = {Drawn(i) : i \in {picture} \ {Absent}}
      /\ op'.todo[2] = {Shown(variables[n]) : n \in {m \in Names : variables[m] # Absent}}
      /\ op'.todo[3] = {Settled(slots, slots[k]) : k \in Registered(slots)}
      /\ op'.todo[4] = {RunSequence(slots)}
  BY <1>1 DEF Everything
<1>5. \A s : s \in Left' <=>
        \/ s = Drawn(picture) /\ picture # Absent
        \/ \E n \in Names : variables[n] # Absent /\ s = Shown(variables[n])
        \/ \E k \in Registered(slots) : s = Settled(slots, slots[k])
        \/ s = RunSequence(slots)
  BY <1>4, InLeft
<1>6. /\ picture # Absent =>
           Drawn(picture).file = Picture /\ Drawn(picture).contents # Unknown
      /\ \A n \in Names : variables[n] # Absent =>
           /\ Shown(variables[n]) =
                [file |-> variables[n].label, contents |-> variables[n].value]
           /\ Shown(variables[n]).file = variables[n].label
           /\ variables[n].label \in Strings
           /\ Shown(variables[n]).contents # Unknown
      /\ RunSequence(slots) = [file |-> Sequence, contents |-> Playing(slots)]
      /\ RunSequence(slots).file = Sequence
      /\ RunSequence(slots).contents = Playing(slots)
  <2>1. picture # Absent =>
          Drawn(picture).file = Picture /\ Drawn(picture).contents # Unknown
    BY RegistryAssumption DEF TypeOK, Drawn
  <2>2. ASSUME NEW n \in Names, variables[n] # Absent
        PROVE  variables[n].label \in Strings /\ variables[n].value # Unknown
    BY <2>2, RegistryAssumption DEF TypeOK, Variable
  <2>3. QED
    BY <2>1, <2>2 DEF Shown, RunSequence
<1>7. \A k \in Registered(slots) :
        /\ k \in Keys /\ slots[k].label \in Labels /\ slots[k] # Absent
        /\ Settled(slots, slots[k]).file = slots[k].label
  <2>1. TAKE k \in Registered(slots)
  <2>2. QED
    BY RegisteredSlots DEF Settled, Hidden, Text, Emptied
<1>8. \A k \in Registered(slots) :
        /\ Settled(slots, slots[k]).contents = Blank
           \/ Readable(Settled(slots, slots[k]).contents)
        /\ Settled(slots, slots[k]).contents # Unknown
        /\ slots[k].active => Settled(slots, slots[k]) =
             [file |-> slots[k].label, contents |-> Text(slots[k]).contents]
        /\ Playing(slots) = {} => Settled(slots, slots[k]) =
             [file |-> slots[k].label, contents |-> Blank]
  <2>1. TAKE k \in Registered(slots)
  <2>2. k \in Keys /\ slots[k].text \in Texts
    BY RegisteredSlots
  <2>3. slots[k].active => Playing(slots) # {}
    BY <2>2 DEF Playing
  <2>4. Text(slots[k]).contents = <<slots[k].text, Call(slots[k].text)>>
        /\ Text(slots[k]) = [file |-> slots[k].label,
                             contents |-> Text(slots[k]).contents]
    BY DEF Text
  <2>5. Readable(Text(slots[k]).contents) /\ Text(slots[k]).contents # Unknown
    BY <2>2, <2>4, CallsAreFiles, TextsAreReadable
  <2>6. CASE Settled(slots, slots[k]) = Text(slots[k]) /\ Playing(slots) # {}
    BY <2>4, <2>5, <2>6
  <2>7. CASE Settled(slots, slots[k]) = Emptied(slots[k].label)
             /\ ~slots[k].active
    BY <2>7, RegistryAssumption DEF Emptied
  <2>8. QED
    BY <2>3, <2>6, <2>7 DEF Settled, Hidden
\* Whose file a send is for tells what is sent.
<1>9. ASSUME NEW s \in Left'
      PROVE  \/ s.file = Picture /\ s = Drawn(picture) /\ picture # Absent
             \/ \E n \in Names : variables[n] # Absent /\ s = Shown(variables[n])
                                 /\ s.file = variables[n].label
             \/ \E k \in Registered(slots) : s = Settled(slots, slots[k])
                                             /\ s.file = slots[k].label
             \/ s.file = Sequence /\ s = RunSequence(slots)
  <2>1. CASE s = Drawn(picture) /\ picture # Absent
    BY <1>6, <2>1
  <2>2. CASE \E n \in Names : variables[n] # Absent /\ s = Shown(variables[n])
    BY <1>6, <2>2
  <2>3. CASE \E k \in Registered(slots) : s = Settled(slots, slots[k])
    BY <1>7, <2>3
  <2>4. CASE s = RunSequence(slots)
    BY <1>6, <2>4
  <2>5. QED
    BY <1>5, <1>9, <2>1, <2>2, <2>3, <2>4
<1>10. ASSUME NEW s \in Left'
      PROVE  /\ s.file = Picture => s = Drawn(picture)
             /\ s.file \in Strings => \E n \in Names :
                  variables[n] # Absent /\ s = Shown(variables[n])
                  /\ s.file = variables[n].label
             /\ s.file \in Labels => \E k \in Registered(slots) :
                  s = Settled(slots, slots[k]) /\ s.file = slots[k].label
             /\ s.file = Sequence => s = RunSequence(slots)
             /\ s.file \in Files
  <2>1. CASE s.file = Picture /\ s = Drawn(picture)
    BY <2>1, FilesApart
  <2>2. CASE s.file = Sequence /\ s = RunSequence(slots)
    BY <2>2, FilesApart
  <2>3. CASE \E n \in Names : variables[n] # Absent /\ s = Shown(variables[n])
                              /\ s.file = variables[n].label
    BY <1>6, <2>3, FilesApart
  <2>4. CASE \E k \in Registered(slots) : s = Settled(slots, slots[k])
                                          /\ s.file = slots[k].label
    BY <1>7, <2>4, FilesApart
  <2>5. QED
    BY <1>9, <2>1, <2>2, <2>3, <2>4
<1>11. \A s \in Left' :
        /\ s.file \in Files /\ s.contents # Unknown
        /\ s.file \in Labels => s.contents = Blank \/ Readable(s.contents)
        /\ s.file = Sequence => s.contents = Playing(slots)
  <2>1. TAKE s \in Left'
  <2>2. s.contents # Unknown
    <3>1. Playing(slots) # Unknown
      BY <1>2, RegistryAssumption
    <3>2. QED
      BY <1>6, <1>8, <1>9, <3>1
  <2>3. s.file \in Labels => s.contents = Blank \/ Readable(s.contents)
    BY <1>8, <1>10
  <2>4. QED
    BY <1>6, <1>10, <2>2, <2>3
<1>12. \A s, t \in Left' : s.file = t.file => s = t
  <2>1. \A j, k \in Registered(slots) : slots[j].label = slots[k].label => j = k
    <3>1. \A k \in Keys : slots[k] # Absent => held[k] = slots[k].label
      BY DEF FilesHeld
    <3>2. \A j, k \in Keys : j # k /\ held[j] = held[k] => held[j] = NoFile
      BY DEF FilesHeld
    <3>3. \A k \in Registered(slots) : held[k] = slots[k].label /\ held[k] # NoFile
      BY <1>7, <3>1, FilesApart
    <3>4. QED
      BY <1>7, <3>2, <3>3
  <2>2. \A n, p \in Names : variables[n] # Absent /\ variables[p] # Absent
          /\ variables[n].label = variables[p].label => n = p
    BY DEF StringsHeldApart
  <2>3. SUFFICES ASSUME NEW s \in Left', NEW t \in Left', s.file = t.file
                 PROVE  s = t
    OBVIOUS
  <2>4. CASE s.file = Picture
    BY <1>10, <2>3, <2>4
  <2>5. CASE s.file \in Strings
    <3>1. PICK n \in Names : variables[n] # Absent /\ s = Shown(variables[n])
                             /\ s.file = variables[n].label
      BY <1>10, <2>5
    <3>2. PICK p \in Names : variables[p] # Absent /\ t = Shown(variables[p])
                             /\ t.file = variables[p].label
      BY <1>10, <2>3, <2>5
    <3>3. QED
      BY <2>2, <2>3, <3>1, <3>2
  <2>6. CASE s.file \in Labels
    <3>1. PICK j \in Registered(slots) : s = Settled(slots, slots[j])
                                         /\ s.file = slots[j].label
      BY <1>10, <2>6
    <3>2. PICK k \in Registered(slots) : t = Settled(slots, slots[k])
                                         /\ t.file = slots[k].label
      BY <1>10, <2>3, <2>6
    <3>3. QED
      BY <2>1, <2>3, <3>1, <3>2
  <2>7. CASE s.file = Sequence
    BY <1>10, <2>3, <2>7
  <2>8. QED
    BY <1>10, <2>4, <2>5, <2>6, <2>7 DEF Files
<1>13. \A i, j \in DOMAIN op'.todo : \A s \in op'.todo[i], t \in op'.todo[j] :
         s.file \in Playing(slots) /\ t.file = Sequence => i < j
  <2>1. ASSUME NEW i \in DOMAIN op'.todo, NEW s \in op'.todo[i],
               s.file \in Playing(slots)
        PROVE  i < 4
    BY <1>2, <1>4, <1>6, <2>1, FilesApart
  <2>2. ASSUME NEW j \in DOMAIN op'.todo, NEW t \in op'.todo[j],
               t.file = Sequence
        PROVE  j = 4
    <3>1. t \in op'.todo[1] => t.file = Picture
      BY <1>4, <1>6
    <3>2. t \in op'.todo[2] => t.file \in Strings
      BY <1>4, <1>6
    <3>3. t \in op'.todo[3] => t.file \in Labels
      BY <1>4, <1>7
    <3>4. j \in 1 .. 4
      BY <1>4
    <3>5. QED
      BY <2>2, <3>1, <3>2, <3>3, <3>4, FilesApart
  <2>3. QED
    BY <2>1, <2>2
<1>14. PlanIsSound'
  BY <1>1, <1>2, <1>11, <1>12, <1>13, CallsAreKept DEF PlanIsSound
<1>15. WillMatch'
  <2>1. WillNext(Sequence, Playing(slots))
    BY <1>5, <1>6 DEF WillNext, PendingNext
  <2>2. \A k \in Registered(slots) : slots[k].active =>
          WillNext(slots[k].label, Text(slots[k]).contents)
    <3>1. \A k \in Registered(slots) : Settled(slots, slots[k]) \in Left'
      BY <1>5
    <3>2. \A l, c : [file |-> l, contents |-> c] \in Left' => WillNext(l, c)
      BY DEF WillNext, PendingNext
    <3>3. QED
      BY <1>8, <3>1, <3>2
  <2>3. \A n \in Names : variables[n] # Absent =>
          WillNext(variables[n].label, variables[n].value)
    BY <1>5, <1>6 DEF WillNext, PendingNext
  <2>4. \A k \in Registered(slots) : Playing(slots) = {} =>
          WillNext(slots[k].label, Blank)
    <3>1. \A k \in Registered(slots) : Settled(slots, slots[k]) \in Left'
      BY <1>5
    <3>2. \A l, c : [file |-> l, contents |-> c] \in Left' => WillNext(l, c)
      BY DEF WillNext, PendingNext
    <3>3. QED
      BY <1>8, <3>1, <3>2
  <2>5. QED
    BY <1>1, <1>2, <2>1, <2>2, <2>3, <2>4
    DEF WillMatch, Will, Pending, WillNext, PendingNext
<1>16. ~Settling'
  BY <1>1 DEF Settling
<1>17. CacheIsTheSigns' /\ PlayingOrStuck'
  BY <1>1 DEF Forgotten, CacheIsTheSigns, PlayingOrStuck
<1>18. QED
  BY <1>3, <1>14, <1>15, <1>16, <1>17 DEF TurnsAreReadable

-----------------------------------------------------------------------------
(* Each operation begins, its plan made.                                   *)

LEMMA IdleHasNoPlan ==
  ASSUME op = Idle
  PROVE  op.kind = "idle" /\ Done(op.todo)
  BY DEF Idle, Done

LEMMA BeginsPlan ==
  ASSUME NEW kind, NEW who, NEW was, NEW todo, Begins(kind, who, was, todo)
  PROVE  op'.kind = kind /\ op'.who = who /\ op'.was = was /\ op'.todo = todo
         /\ UNCHANGED <<sign, frozen, link, owed, cancelled>>
  BY DEF Begins, signVars

LEMMA OneStage ==
  ASSUME NEW A, op'.todo = <<A>>
  PROVE  \A s : s \in Left' <=> s \in A
  BY InLeft

LEMMA TwoStages ==
  ASSUME NEW A, NEW B, op'.todo = <<A, B>>
  PROVE  /\ \A s : s \in Left' <=> s \in A \/ s \in B
         /\ \A i \in DOMAIN op'.todo : \/ i = 1 /\ op'.todo[i] = A
                                       \/ i = 2 /\ op'.todo[i] = B
<1>1. /\ DOMAIN op'.todo = {1, 2}
      /\ op'.todo[1] = A /\ op'.todo[2] = B
  OBVIOUS
<1>2. QED
  BY <1>1, InLeft

LEMMA ThreeStages ==
  ASSUME NEW A, NEW B, NEW C, op'.todo = <<A, B, C>>
  PROVE  /\ \A s : s \in Left' <=> s \in A \/ s \in B \/ s \in C
         /\ \A i \in DOMAIN op'.todo : \/ i = 1 /\ op'.todo[i] = A
                                       \/ i = 2 /\ op'.todo[i] = B
                                       \/ i = 3 /\ op'.todo[i] = C
<1>1. /\ DOMAIN op'.todo = {1, 2, 3}
      /\ op'.todo[1] = A /\ op'.todo[2] = B /\ op'.todo[3] = C
  OBVIOUS
<1>2. \A s : s \in Left' <=> \E i \in {1, 2, 3} : s \in op'.todo[i]
  BY <1>1, InLeft
<1>3. QED
  BY <1>1, <1>2

(* A slot that keeps its file or gives it back meets no other on it.       *)
LEMMA FilesAreKept ==
  ASSUME RecordInv, RecordInv', \A k \in Keys : held'[k] \in {held[k], NoFile}
  PROVE  KeepsFiles(slots')
<1>1. /\ \A k \in Keys : slots[k] # Absent =>
           held[k] = slots[k].label /\ held[k] # NoFile
      /\ \A k \in Keys : slots'[k] # Absent =>
           held'[k] = slots'[k].label /\ held'[k] # NoFile
  BY RegistryAssumption, Records DEF RecordInv, TypeOK, FilesHeld
<1>2. /\ \A j, k \in Keys : j # k /\ held[j] = held[k] => held[j] = NoFile
      /\ \A j, k \in Keys : j # k /\ held'[j] = held'[k] => held'[j] = NoFile
  BY DEF RecordInv, FilesHeld
<1>3. QED
  BY <1>1, <1>2 DEF KeepsFiles

(* Messages that stay go on calling what they called.                      *)
LEMMA CallsStay ==
  ASSUME RecordInv, CallsExist,
         op'.kind \notin {"drawing", "upsert", "put"},
         \A k \in Registered(slots)' :
           k \in Registered(slots) /\ slots'[k].text = slots[k].text,
         \A n \in Names :
           Called(n) /\ variables[n] # Absent => variables'[n] # Absent
  PROVE  CallsExist'
<1>1. SUFFICES ASSUME NEW k \in Registered(slots)'
               PROVE  Callable(slots[k].text)'
  BY DEF CallsExist
<1>2. k \in Registered(slots) /\ slots'[k].text = slots[k].text
      /\ Callable(slots[k].text)
  BY <1>1 DEF CallsExist
<1>3. Calls[slots[k].text] \in Names \cup {Nobody}
  BY <1>2, RegisteredSlots, RegistryAssumption DEF RecordInv
<1>4. QED
  BY <1>2, <1>3 DEF Callable, Called

LEMMA ShowKeeps ==
  ASSUME RecordInv, SignInv, RecordInv', NEW k \in Keys, Show(k)
  PROVE  SignInv'
<1> DEFINE S == slots'
<1>1. /\ op.kind = "idle" /\ Done(op.todo) /\ op'.kind = "show"
      /\ op'.todo = << {Text(slots[k])}, {RunSequence(S)} >>
      /\ UNCHANGED <<held, variables, cache, sign, frozen, link, owed, wiped,
                     dirty, cancelled>>
  BY IdleHasNoPlan, BeginsPlan DEF Show
<1>2. /\ k \in Registered(slots) /\ k \in Registered(S)
      /\ S[k].active /\ S[k].label = slots[k].label /\ S[k].text = slots[k].text
      /\ \A j \in Keys : j # k => S[j] = slots[j]
  <2>1. slots[k] \in Slot
    BY DEF Show, RecordInv, TypeOK
  <2>2. S[k] = [slots[k] EXCEPT !.active = TRUE]
    BY DEF Show, RecordInv, TypeOK
  <2>3. S[k].active /\ S[k].label = slots[k].label /\ S[k].text = slots[k].text
        /\ S[k] # Absent
    BY <2>1, <2>2, Records DEF Slot
  <2>4. \A j \in Keys : j # k => S[j] = slots[j]
    BY DEF Show, RecordInv, TypeOK
  <2>5. QED
    BY <2>1, <2>3, <2>4, Records DEF Registered
<1>3. KeepsFiles(S)
  BY <1>1, FilesAreKept
<1>4. CallsExist'
  BY <1>1, <1>2, CallsStay DEF SignInv, Registered
<1> HIDE DEF S
<1>5. Settled(S, S[k]) = Text(slots[k])
  BY <1>2 DEF Settled, Text
<1>6. PlansMessages(S) /\ PlansChanges(S)
  BY <1>1, <1>2, <1>5, TwoStages
  DEF PlansMessages, PlansChanges, Registered
<1>7. PlansInOrder(S)
  <2>1. Text(slots[k]).file = slots[k].label /\ RunSequence(S).file = Sequence
        /\ slots[k].label # Sequence /\ slots[k].label \in Playing(S)
    BY <1>2, RegisteredSlots, FilesApart
    DEF RecordInv, Text, RunSequence, Playing
  <2>2. Playing(slots) \in SUBSET Labels /\ Sequence \notin Labels
        /\ Playing(S) \in SUBSET Labels
    <3>1. Playing(slots)' = Playing(S)
      BY DEF S, Playing, Registered
    <3>2. Playing(S) \in SUBSET Labels
      BY <1>2, RegisteredSlots DEF RecordInv, Playing, Registered
    <3>3. QED
      BY <3>2, PlayingIsLabels, FilesApart DEF RecordInv
  <2>3. QED
    BY <1>1, <2>1, <2>2, TwoStages DEF PlansInOrder
<1>8. QED
  BY <1>1, <1>3, <1>4, <1>6, <1>7, MessagesBegin DEF S

LEMMA HideKeeps ==
  ASSUME RecordInv, SignInv, RecordInv', NEW k \in Keys, Hide(k)
  PROVE  SignInv'
<1> DEFINE S == slots'
<1>1. /\ op.kind = "idle" /\ Done(op.todo) /\ op'.kind = "remove"
      /\ op'.todo = << {RunSequence(S)}, {Hidden(S, slots[k])} >>
      /\ UNCHANGED <<held, variables, cache, sign, frozen, link, owed, wiped,
                     dirty, cancelled>>
  BY IdleHasNoPlan, BeginsPlan DEF Hide
<1>2. /\ k \in Registered(slots) /\ k \in Registered(S)
      /\ ~S[k].active /\ S[k].label = slots[k].label /\ S[k].text = slots[k].text
      /\ \A j \in Keys : j # k => S[j] = slots[j]
  <2>1. slots[k] \in Slot
    BY DEF Hide, RecordInv, TypeOK
  <2>2. S[k] = [slots[k] EXCEPT !.active = FALSE]
    BY DEF Hide, RecordInv, TypeOK
  <2>3. ~S[k].active /\ S[k].label = slots[k].label /\ S[k].text = slots[k].text
        /\ S[k] # Absent
    BY <2>1, <2>2, Records DEF Slot
  <2>4. \A j \in Keys : j # k => S[j] = slots[j]
    BY DEF Hide, RecordInv, TypeOK
  <2>5. QED
    BY <2>1, <2>3, <2>4, Records DEF Registered
<1>3. KeepsFiles(S)
  BY <1>1, FilesAreKept
<1>4. CallsExist'
  BY <1>1, <1>2, CallsStay DEF SignInv, Registered
<1> HIDE DEF S
<1>5. Settled(S, S[k]) = Hidden(S, slots[k])
      /\ Hidden(S, slots[k]).file = slots[k].label
  BY <1>2 DEF Settled, Hidden, Text, Emptied
<1>6. PlansMessages(S) /\ PlansChanges(S)
  BY <1>1, <1>2, <1>5, TwoStages
  DEF PlansMessages, PlansChanges, Registered
<1>7. PlansInOrder(S)
  <2>1. RunSequence(S).file = Sequence /\ slots[k].label # Sequence
    BY <1>2, RegisteredSlots, FilesApart DEF RecordInv, RunSequence
  <2>2. slots[k].label \notin Playing(S)
    BY <1>2, <1>3 DEF Playing, KeepsFiles, Registered
  <2>3. Sequence \notin Playing(slots) /\ Sequence \notin Playing(S)
    BY <1>2, RegisteredSlots, FilesApart DEF RecordInv, Playing, Registered
  <2>4. QED
    BY <1>1, <1>5, <2>1, <2>2, <2>3, TwoStages DEF PlansInOrder
<1>8. QED
  BY <1>1, <1>3, <1>4, <1>6, <1>7, MessagesBegin DEF S

LEMMA TakesKeeps ==
  ASSUME RecordInv, SignInv, RecordInv', NEW kind \in {"remove", "sweep"},
         NEW gone, NEW hidden, Takes(kind, gone, hidden)
  PROVE  SignInv'
<1> DEFINE S == slots'
<1>1. /\ op.kind = "idle" /\ Done(op.todo) /\ op'.kind = kind
      /\ op'.todo = << {RunSequence(S)}, {Emptied(slots[k].label) : k \in gone},
                       {Hidden(S, slots[k]) : k \in hidden} >>
      /\ UNCHANGED <<variables, cache, sign, frozen, link, owed, wiped, dirty,
                     cancelled>>
      /\ \A k \in Keys : held'[k] \in {held[k], NoFile}
      /\ gone \subseteq Registered(slots) /\ hidden \subseteq Registered(slots)
      /\ gone \cap hidden = {}
  BY IdleHasNoPlan, BeginsPlan DEF Takes
<1>2. \A k \in Keys :
        /\ k \in gone => S[k] = Absent
        /\ k \in hidden =>
             /\ k \in Registered(S) /\ ~S[k].active
             /\ S[k].label = slots[k].label /\ S[k].text = slots[k].text
        /\ k \notin gone \cup hidden => S[k] = slots[k]
  <2>1. TAKE k \in Keys
  <2>2. ASSUME k \in hidden
        PROVE  /\ k \in Registered(S) /\ ~S[k].active
               /\ S[k].label = slots[k].label /\ S[k].text = slots[k].text
    <3>1. slots[k] \in Slot
      BY <1>1, <2>2, RegisteredSlots DEF RecordInv, TypeOK
    <3>2. S[k] = [slots[k] EXCEPT !.active = FALSE]
      BY <1>1, <2>2 DEF Takes
    <3>3. QED
      BY <3>1, <3>2, Records DEF Registered, Slot
  <2>3. QED
    BY <1>1, <2>2 DEF Takes
<1>3. KeepsFiles(S)
  BY <1>1, FilesAreKept
<1>4. CallsExist'
  BY <1>1, <1>2, CallsStay DEF SignInv, Registered
<1> HIDE DEF S
<1>5. \A k \in hidden : k \in Keys
        /\ Settled(S, S[k]) = Hidden(S, slots[k])
        /\ Hidden(S, slots[k]).file = slots[k].label
  BY <1>1, <1>2 DEF Settled, Hidden, Text, Emptied, Registered
<1>6. /\ \A s : s \in Left' <=> \/ s = RunSequence(S)
                                \/ \E k \in gone : s = Emptied(slots[k].label)
                                \/ \E k \in hidden : s = Hidden(S, slots[k])
      /\ \A i \in DOMAIN op'.todo : \A s \in op'.todo[i] :
           \/ i = 1 /\ s = RunSequence(S)
           \/ i = 2 /\ \E k \in gone : s = Emptied(slots[k].label)
           \/ i = 3 /\ \E k \in hidden : s = Hidden(S, slots[k])
  <2> DEFINE G == {Emptied(slots[k].label) : k \in gone}
             H == {Hidden(S, slots[k]) : k \in hidden}
  <2>1. /\ \A s : s \in G <=> \E k \in gone : s = Emptied(slots[k].label)
        /\ \A s : s \in H <=> \E k \in hidden : s = Hidden(S, slots[k])
    OBVIOUS
  <2>2. op'.todo = << {RunSequence(S)}, G, H >>
    BY <1>1
  <2> HIDE DEF G, H
  <2> DEFINE R == {RunSequence(S)}
  <2>3. \A s : s \in R <=> s = RunSequence(S)
    OBVIOUS
  <2> HIDE DEF R
  <2>4. /\ \A s : s \in Left' <=> s \in R \/ s \in G \/ s \in H
        /\ \A i \in DOMAIN op'.todo : \/ i = 1 /\ op'.todo[i] = R
                                      \/ i = 2 /\ op'.todo[i] = G
                                      \/ i = 3 /\ op'.todo[i] = H
    BY <2>2, ThreeStages DEF R
  <2>5. \A s : s \in Left' <=> \/ s = RunSequence(S)
                               \/ \E k \in gone : s = Emptied(slots[k].label)
                               \/ \E k \in hidden : s = Hidden(S, slots[k])
    BY <2>1, <2>3, <2>4
  <2>6. QED
    BY <2>1, <2>3, <2>4, <2>5
<1>7. PlansMessages(S)
  <2>1. SUFFICES ASSUME NEW s \in Left'
                 PROVE  \/ s = RunSequence(S)
                        \/ \E k \in Registered(S) : s = Settled(S, S[k])
                        \/ \E k \in Registered(slots) :
                             S[k] = Absent /\ s = Emptied(slots[k].label)
    BY DEF PlansMessages
  <2>2. \/ s = RunSequence(S)
        \/ \E k \in gone : s = Emptied(slots[k].label)
        \/ \E k \in hidden : s = Hidden(S, slots[k])
    BY <1>6, <2>1
  <2>3. CASE \E k \in gone : s = Emptied(slots[k].label)
    BY <1>1, <1>2, <2>3 DEF Registered
  <2>4. CASE \E k \in hidden : s = Hidden(S, slots[k])
    BY <1>2, <1>5, <2>4
  <2>5. QED
    BY <2>2, <2>3, <2>4
<1>8. PlansChanges(S)
  <2>1. RunSequence(S) \in Left'
    BY <1>6
  <2>2. ASSUME NEW k \in hidden PROVE Hidden(S, slots[k]) \in Left'
    BY <1>6, <2>2
  <2>3. \A k \in Registered(S) : k \in hidden \/ S[k] = slots[k]
    BY <1>2 DEF Registered
  <2>4. QED
    BY <1>5, <2>1, <2>3, <2>2 DEF PlansChanges
<1>9. PlansInOrder(S)
  <2>1. RunSequence(S).file = Sequence
        /\ \A l : Emptied(l).file = l
    BY DEF RunSequence, Emptied
  <2>2. \A k \in gone \cup hidden :
          slots[k].label \notin Playing(S) /\ slots[k].label # Sequence
    BY <1>1, <1>2, <1>3, RegisteredSlots, FilesApart
    DEF RecordInv, Playing, KeepsFiles, Registered
  <2>3. Sequence \notin Playing(slots) /\ Sequence \notin Playing(S)
    BY <1>2, RegisteredSlots, FilesApart DEF RecordInv, Playing, Registered
  <2>4. \A i \in DOMAIN op'.todo : \A s \in op'.todo[i] :
          \/ i = 1 /\ s.file = Sequence
          \/ i \in {2, 3} /\ s.file \notin Playing(S) /\ s.file # Sequence
    <3>1. TAKE i \in DOMAIN op'.todo
    <3>2. TAKE s \in op'.todo[i]
    <3>3. \/ i = 1 /\ s = RunSequence(S)
          \/ i = 2 /\ \E k \in gone : s = Emptied(slots[k].label)
          \/ i = 3 /\ \E k \in hidden : s = Hidden(S, slots[k])
      BY <1>6, <3>1, <3>2
    <3>4. QED
      BY <1>5, <2>1, <2>2, <3>3
  <2>5. QED
    BY <2>3, <2>4 DEF PlansInOrder
<1>10. QED
  BY <1>1, <1>3, <1>4, <1>7, <1>8, <1>9, MessagesBegin DEF S

(* What is called is there.                                                *)
LEMMA CalledAreThere ==
  ASSUME CallsExist, NEW n \in Names, Called(n)
  PROVE  variables[n] # Absent
<1>1. PICK k \in Registered(slots) : Calls[slots[k].text] = n
  BY DEF Called
<1>2. Callable(slots[k].text) /\ n # Nobody
  BY <1>1, RegistryAssumption DEF CallsExist
<1>3. QED
  BY <1>1, <1>2 DEF Callable

LEMMA RecordKeeps ==
  ASSUME RecordInv, SignInv, RecordInv', NEW b \in BOOLEAN, Record(b)
  PROVE  SignInv'
<1> DEFINE S == slots'
           k == op.who
<1>1. /\ op.kind = "drawing" /\ Done(op.todo) /\ op'.kind = "upsert"
      /\ op'.todo = Upserts(S, k, op.was, b)
      /\ op'.was = op.was /\ op'.next = op.next
      /\ S = [slots EXCEPT ![k] = op.next]
      /\ UNCHANGED <<held, variables, cache, sign, frozen, link, owed, wiped,
                     dirty, cancelled>>
  BY IdleRecord DEF Record, signVars, RecordInv, TypeOK
<1>2. /\ k \in Keys /\ k \in Registered(S) /\ S[k] = op.next
      /\ slots[k] = op.was /\ \A j \in Keys : j # k => S[j] = slots[j]
      /\ op.was # Absent => k \in Registered(slots) /\ op.was.label = S[k].label
      /\ op.was \in Slot \cup {Absent} /\ S[k] \in Slot
  BY <1>1, RegistryAssumption
  DEF RecordInv, TypeOK, UndoIsSound, Registered
<1>3. KeepsFiles(S)
  BY <1>1, FilesAreKept
<1>4. CallsExist'
  BY <1>1, <1>2, CallsAreKept DEF SignInv, CallsExist, Registered
<1> HIDE DEF S, k
<1>5. /\ Settled(S, S[k]).file = S[k].label /\ S[k].label \in Labels
      /\ RunSequence(S).file = Sequence /\ S[k].label # Sequence
      /\ Sequence \notin Playing(slots) /\ Sequence \notin Playing(S)
      /\ S[k].active \in BOOLEAN /\ (op.was # Absent => op.was.active \in BOOLEAN)
      /\ S[k].active <=> S[k].label \in Playing(S)
      /\ S[k].label \in Playing(slots) <=> op.was # Absent /\ op.was.active
  <2>1. /\ S[k].label \in Labels /\ S[k].active \in BOOLEAN
        /\ op.was # Absent => op.was.active \in BOOLEAN
    BY <1>2 DEF Slot
  <2>2. Settled(S, S[k]).file = S[k].label /\ RunSequence(S).file = Sequence
    BY DEF Settled, Hidden, Text, Emptied, RunSequence
  <2>3. Sequence \notin Playing(slots) /\ Sequence \notin Playing(S)
    BY <1>2, <2>1, RegisteredSlots, FilesApart
    DEF RecordInv, Playing, Registered
  <2>4. S[k].active <=> S[k].label \in Playing(S)
    BY <1>2, <1>3 DEF Playing, KeepsFiles, Registered
  <2>5. S[k].label \in Playing(slots) <=> op.was # Absent /\ op.was.active
    BY <1>2, <1>3 DEF Playing, KeepsFiles, Registered
  <2>6. QED
    BY <2>1, <2>2, <2>3, <2>4, <2>5, FilesApart
<1>6. CASE op.was # Absent /\ op.was.active /\ ~S[k].active
  <2>1. op'.todo = << {RunSequence(S)}, {Hidden(S, S[k])} >>
    BY <1>1, <1>6 DEF Upserts
  <2>2. Hidden(S, S[k]) = Settled(S, S[k])
    BY <1>6 DEF Settled
  <2>3. PlansMessages(S)
    BY <1>2, <2>1, <2>2, TwoStages DEF PlansMessages
  <2>4. PlansChanges(S)
    BY <1>2, <2>1, <2>2, TwoStages DEF PlansChanges, Registered
  <2>5. PlansInOrder(S)
    BY <1>5, <1>6, <2>1, <2>2, TwoStages DEF PlansInOrder
  <2>6. QED
    BY <1>1, <1>3, <1>4, <2>3, <2>4, <2>5, MessagesBegin DEF S
<1>7. CASE ~(op.was # Absent /\ op.was.active /\ ~S[k].active)
  <2>1. PICK Q \in SUBSET {RunSequence(S)} :
          /\ op'.todo = << {Settled(S, S[k])}, Q >>
          /\ op.was = Absent \/ op.was.active # S[k].active => RunSequence(S) \in Q
    <3> DEFINE Q == {RunSequence(S) : x \in IF op.was = Absent THEN {1}
                                    ELSE IF op.was.active # S[k].active \/ b
                                    THEN {1} ELSE {}}
    <3>1. op'.todo = << {Settled(S, S[k])}, Q >>
      BY <1>1, <1>7 DEF Upserts
    <3>2. Q \in SUBSET {RunSequence(S)}
      OBVIOUS
    <3>3. op.was = Absent \/ op.was.active # S[k].active => RunSequence(S) \in Q
      OBVIOUS
    <3>4. QED
      BY <3>1, <3>2, <3>3
  <2>2. PlansMessages(S)
    BY <1>2, <2>1, TwoStages DEF PlansMessages
  <2>3. PlansChanges(S)
    <3>1. Settled(S, S[k]) \in Left'
          /\ (op.was = Absent \/ op.was.active # S[k].active =>
                RunSequence(S) \in Left')
      BY <2>1, TwoStages
    <3>2. ASSUME op.was # Absent, op.was.active = S[k].active
          PROVE  Playing(S) = Playing(slots)
      BY <1>2, <3>2 DEF Playing, Registered
    <3>3. QED
      BY <1>2, <3>1, <3>2 DEF PlansChanges, Registered
  <2>4. PlansInOrder(S)
    BY <1>5, <1>7, <2>1, TwoStages DEF PlansInOrder
  <2>5. QED
    BY <1>1, <1>3, <1>4, <2>2, <2>3, <2>4, MessagesBegin DEF S
<1>8. QED
  BY <1>6, <1>7

LEMMA UpsertKeeps ==
  ASSUME RecordInv, SignInv, RecordInv', NEW k \in Keys, NEW m \in Texts,
         NEW a \in BOOLEAN, NEW i \in Icons \cup {picture}, Upsert(k, m, a, i)
  PROVE  SignInv'
<1>1. PICK l :
        op' = [kind |-> "drawing", who |-> k, was |-> slots[k],
               next |-> [label |-> l, text |-> m, active |-> a],
               drew |-> picture,
               todo |-> IF i # picture THEN << {Drawn(i)} >> ELSE <<>>]
  BY DEF Upsert
<1>2. /\ op.kind = "idle" /\ Done(op.todo)
      /\ op'.kind = "drawing" /\ op'.was = slots[k] /\ op'.next.text = m
      /\ op'.todo = IF i # picture THEN << {Drawn(i)} >> ELSE <<>>
      /\ Callable(m)
      /\ UNCHANGED <<slots, variables, cache, sign, frozen, link, owed, wiped,
                     dirty, cancelled>>
  BY <1>1, IdleHasNoPlan DEF Upsert, Callable, signVars
<1>3. CallsExist'
  BY <1>2, CallsAreKept DEF SignInv, CallsExist, Registered
<1>4. \A s \in Left' : i # picture /\ s = Drawn(i)
  <2>1. CASE i # picture
    BY <1>2, <2>1, OneStage
  <2>2. CASE i = picture
    BY <1>2, <2>2, InLeft
  <2>3. QED
    BY <2>1, <2>2
<1>5. \A s \in Left' :
        /\ s.file = Picture /\ s.contents # Unknown
        /\ s = [file |-> s.file, contents |-> s.contents]
  BY <1>4, RegistryAssumption DEF Drawn
<1>6. \A n \in Names : variables[n] # Absent => ~PendingNext(variables[n].label)
  BY <1>5, Records, FilesApart DEF PendingNext, RecordInv, TypeOK
<1>7. \A n \in Names : Called(n) => variables[n] # Absent
  BY CalledAreThere DEF SignInv
<1>8. QED
  BY <1>2, <1>3, <1>4, <1>5, <1>6, <1>7, OthersBegin, RegistryAssumption

(* Variables that are shown again, each in its own file.                   *)
LEMMA ShownApart ==
  ASSUME RecordInv'
  PROVE  /\ \A n \in Names : variables'[n] # Absent =>
              /\ Shown(variables'[n]).file \in Strings
              /\ Shown(variables'[n]).file = variables'[n].label
              /\ Shown(variables'[n]).contents # Unknown
              /\ Shown(variables'[n]) =
                   [file |-> Shown(variables'[n]).file,
                    contents |-> Shown(variables'[n]).contents]
         /\ \A n, p \in Names :
              variables'[n] # Absent /\ variables'[p] # Absent
              /\ variables'[n].label = variables'[p].label => n = p
<1>1. ASSUME NEW n \in Names, variables'[n] # Absent
      PROVE  variables'[n].label \in Strings /\ variables'[n].value # Unknown
  BY <1>1, RegistryAssumption DEF RecordInv, TypeOK, Variable
<1>2. \A n, p \in Names :
        variables'[n] # Absent /\ variables'[p] # Absent
        /\ variables'[n].label = variables'[p].label => n = p
  BY DEF RecordInv, StringsHeldApart
<1>3. QED
  BY <1>1, <1>2 DEF Shown

LEMMA ShowsKeep ==
  ASSUME RecordInv, SignInv, RecordInv', CallsExist', Done(op.todo),
         op.kind # "refresh", op'.kind # "refresh",
         UNCHANGED <<slots, cache, sign, frozen, link, owed, wiped, dirty,
                     cancelled>>,
         NEW N \in SUBSET Names, \A n \in N : variables'[n] # Absent,
         op'.todo = << {Shown(variables'[n]) : n \in N} >>,
         \A n \in Names \ N : variables'[n] = variables[n],
         \A n \in N : variables[n] # Absent =>
           variables'[n].label = variables[n].label
  PROVE  SignInv'
<1>1. \A s : s \in Left' <=> \E n \in N : s = Shown(variables'[n])
  BY OneStage
<1>2. \A n \in Names : variables'[n] # Absent =>
        \/ Shown(variables'[n]) \in Left'
        \/ variables'[n] = variables[n] /\ ~PendingNext(variables'[n].label)
  <2>1. SUFFICES ASSUME NEW n \in Names \ N, variables'[n] # Absent,
                        NEW s \in Left', s.file = variables'[n].label
                 PROVE  FALSE
    BY <1>1 DEF PendingNext
  <2>2. PICK p \in N : s = Shown(variables'[p])
    BY <1>1, <2>1
  <2>3. p \in Names /\ variables'[p] # Absent /\ p # n
    BY <2>1
  <2>4. s.file = variables'[p].label
    BY <2>2, <2>3, ShownApart
  <2>5. QED
    BY <2>1, <2>3, <2>4, ShownApart
<1>3. \A s \in Left' :
        /\ s.file \in Strings /\ s.contents # Unknown
        /\ s = [file |-> s.file, contents |-> s.contents]
  <2>1. SUFFICES ASSUME NEW n \in N
                 PROVE  /\ Shown(variables'[n]).file \in Strings
                        /\ Shown(variables'[n]).contents # Unknown
                        /\ Shown(variables'[n]) =
                             [file |-> Shown(variables'[n]).file,
                              contents |-> Shown(variables'[n]).contents]
    BY <1>1
  <2>2. QED
    BY <2>1, ShownApart
<1>4. \A s, t \in Left' : s.file = t.file => s = t
  <2>1. SUFFICES ASSUME NEW s \in Left', NEW t \in Left', s.file = t.file
                 PROVE  s = t
    OBVIOUS
  <2>2. PICK n \in N : s = Shown(variables'[n])
    BY <1>1
  <2>3. PICK p \in N : t = Shown(variables'[p])
    BY <1>1
  <2>4. n \in Names /\ variables'[n] # Absent /\ p \in Names /\ variables'[p] # Absent
    OBVIOUS
  <2>5. variables'[n].label = variables'[p].label
    BY <2>1, <2>2, <2>3, <2>4, ShownApart
  <2>6. QED
    BY <2>2, <2>3, <2>4, <2>5, ShownApart
<1>5. \A n \in Names : Called(n) => variables[n] # Absent
  BY CalledAreThere DEF SignInv
<1>6. \A n \in Names : Called(n) =>
        /\ variables[n] # Absent /\ variables'[n] # Absent
        /\ variables'[n].label = variables[n].label
  BY <1>5
<1>7. QED
  BY <1>2, <1>3, <1>4, <1>6, OthersBegin

LEMMA PutKeeps ==
  ASSUME RecordInv, SignInv, RecordInv', NEW n \in Names, NEW v \in Values,
         PutVariable(n, v)
  PROVE  SignInv'
<1>1. PICK l \in IF variables[n] # Absent THEN {variables[n].label}
                 ELSE Strings \ StringsHeld :
        variables' = [variables EXCEPT ![n] = [label |-> l, value |-> v]]
  BY DEF PutVariable
<1>2. /\ op.kind = "idle" /\ Done(op.todo) /\ op'.kind = "put"
      /\ op'.who = n /\ op'.was = variables[n]
      /\ op'.todo = << {Shown(variables'[n])} >>
      /\ UNCHANGED <<slots, cache, sign, frozen, link, owed, wiped, dirty,
                     cancelled>>
  BY IdleHasNoPlan, BeginsPlan DEF PutVariable
<1>3. /\ variables'[n] = [label |-> l, value |-> v] /\ variables'[n] # Absent
      /\ variables[n] # Absent => variables'[n].label = variables[n].label
      /\ \A p \in Names \ {n} : variables'[p] = variables[p]
  <2>1. l \in Strings
    BY <1>1, Records DEF RecordInv, TypeOK
  <2>2. [label |-> l, value |-> v] \in Variable
    BY <2>1 DEF Variable
  <2>3. QED
    BY <1>1, <2>2, Records DEF RecordInv, TypeOK
<1>4. CallsExist'
  <2>1. \A p : Called(p)' = Called(p)
    BY <1>2 DEF Called, Registered
  <2>2. \A k \in Registered(slots) : Callable(slots[k].text)
    BY DEF SignInv, CallsExist
  <2>3. \A m \in Texts : Callable(m) => Callable(m)'
    BY <1>3, RegistryAssumption DEF Callable
  <2>4. \A k \in Registered(slots)' : Callable(slots[k].text)'
    BY <1>2, <2>2, <2>3, RegisteredSlots DEF Registered, RecordInv
  <2>5. op'.was = Absent => ~Called(n)
    BY <1>2, CalledAreThere DEF SignInv
  <2>6. QED
    BY <1>2, <1>3, <2>1, <2>4, <2>5 DEF CallsExist
<1> DEFINE N == {n}
<1>5. /\ N \in SUBSET Names /\ op'.todo = << {Shown(variables'[p]) : p \in N} >>
      /\ \A p \in N : variables'[p] # Absent
      /\ \A p \in N : variables[p] # Absent =>
           variables'[p].label = variables[p].label
      /\ \A p \in Names \ N : variables'[p] = variables[p]
  BY <1>2, <1>3
<1> HIDE DEF N
<1>6. QED
  BY <1>2, <1>4, <1>5, ShowsKeep

LEMMA ExpireKeeps ==
  ASSUME RecordInv, SignInv, RecordInv', NEW M \in SUBSET Names,
         NEW stale \in [M -> Values], ExpireVariables(stale)
  PROVE  SignInv'
<1>1. /\ op.kind = "idle" /\ Done(op.todo) /\ op'.kind = "sweep"
      /\ op'.todo = << {Shown(variables'[n]) : n \in M} >>
      /\ UNCHANGED <<slots, cache, sign, frozen, link, owed, wiped, dirty,
                     cancelled>>
  BY IdleHasNoPlan, BeginsPlan DEF ExpireVariables
<1>2. /\ \A n \in M : variables[n] # Absent /\ variables'[n] # Absent
                      /\ variables'[n].label = variables[n].label
      /\ \A n \in Names \ M : variables'[n] = variables[n]
  BY Records DEF ExpireVariables, RecordInv, TypeOK
<1>3. CallsExist'
  <2>1. \A n \in Names :
          Called(n) /\ variables[n] # Absent => variables'[n] # Absent
    BY <1>2
  <2>2. QED
    BY <1>1, <2>1, CallsStay DEF SignInv, Registered
<1>4. QED
  BY <1>1, <1>2, <1>3, ShowsKeep

LEMMA RemoveVariableKeeps ==
  ASSUME RecordInv, SignInv, RecordInv', NEW n \in Names, RemoveVariable(n)
  PROVE  SignInv'
<1>1. /\ op.kind = "idle" /\ Done(op.todo) /\ op'.kind = "remove"
      /\ op'.todo = << {Emptied(variables[n].label)} >>
      /\ UNCHANGED <<slots, cache, sign, frozen, link, owed, wiped, dirty,
                     cancelled>>
      /\ variables[n] # Absent /\ ~Called(n)
  BY IdleHasNoPlan, BeginsPlan DEF RemoveVariable
<1>2. variables'[n] = Absent /\ \A p : p # n => variables'[p] = variables[p]
  BY DEF RemoveVariable, RecordInv, TypeOK
<1>3. CallsExist'
  BY <1>1, <1>2, CallsStay DEF SignInv, Registered
<1>4. \A s : s \in Left' <=> s = Emptied(variables[n].label)
  BY <1>1, OneStage
<1>5. /\ Emptied(variables[n].label) =
           [file |-> variables[n].label, contents |-> Blank]
      /\ variables[n].label \in Strings /\ Blank # Unknown
  BY <1>1, Records, RegistryAssumption DEF Emptied, RecordInv, TypeOK
<1>6. \A p \in Names : variables'[p] # Absent =>
        variables'[p] = variables[p] /\ ~PendingNext(variables'[p].label)
  BY <1>1, <1>2, <1>4, <1>5 DEF PendingNext, RecordInv, StringsHeldApart
<1>7. \A p \in Names : Called(p) => variables[p] # Absent /\ p # n
  BY <1>1, CalledAreThere DEF SignInv
<1>8. QED
  BY <1>1, <1>2, <1>3, <1>4, <1>5, <1>6, <1>7, OthersBegin

-----------------------------------------------------------------------------
LEMMA SignInit == Init => SignInv
<1> SUFFICES ASSUME Init PROVE SignInv
  OBVIOUS
<1> USE RegistryAssumption, IdleRecord DEF Init
<1>1. Registered(slots) = {} /\ Playing(slots) = {}
      /\ \A n \in Names : variables[n] = Absent
  BY DEF Registered, Playing
<1>2. \A s : s \notin Left
  BY InLeft DEF Idle
<1>3. sign[Sequence] = {} /\ frozen = NoFile /\ cache[Sequence] = {}
      /\ \A f \in Files : f # Sequence => cache[f] = Unknown
  BY FilesApart DEF Empty, Forgotten
<1>4. CallsExist /\ CacheIsTheSigns /\ PlayingOrStuck
  BY <1>1, <1>3 DEF CallsExist, CacheIsTheSigns, PlayingOrStuck
<1>5. PlanIsSound
  BY <1>2, InLeft DEF PlanIsSound
<1>6. WillMatch
  BY <1>1, <1>2, <1>3 DEF WillMatch, Will, Pending
<1>7. TurnsAreReadable
  BY <1>2, <1>3, InLeft DEF TurnsAreReadable
<1>8. QED
  BY <1>4, <1>5, <1>6, <1>7 DEF SignInv

LEMMA SignStep == RecordInv /\ SignInv /\ [Next]_vars => SignInv'
<1> SUFFICES ASSUME RecordInv, SignInv, [Next]_vars PROVE SignInv'
  OBVIOUS
<1>1. RecordInv'
  BY RegistryStep
<1>2. CASE Ask
  <2>1. ASSUME NEW k \in Keys, Remove(k) PROVE SignInv'
    BY <1>1, <2>1, TakesKeeps DEF Remove
  <2>2. CASE Clear
    BY <1>1, <2>2, TakesKeeps DEF Clear
  <2>3. ASSUME NEW gone, NEW hidden, Sweep(gone, hidden) PROVE SignInv'
    BY <1>1, <2>3, TakesKeeps DEF Sweep
  <2>4. ASSUME NEW n \in Names,
               (\E v \in Values : PutVariable(n, v)) \/ RemoveVariable(n)
        PROVE  SignInv'
    BY <1>1, <2>4, PutKeeps, RemoveVariableKeeps
  <2>5. ASSUME NEW k \in Keys, NEW m \in Texts, NEW a \in BOOLEAN,
               NEW i \in Icons \cup {picture}, Upsert(k, m, a, i)
        PROVE  SignInv'
    BY <1>1, <2>5, UpsertKeeps
  <2>6. ASSUME NEW k \in Keys, Show(k) \/ Hide(k) PROVE SignInv'
    BY <1>1, <2>6, ShowKeeps, HideKeeps
  <2>7. ASSUME NEW M \in SUBSET Names, NEW stale \in [M -> Values],
               ExpireVariables(stale)
        PROVE  SignInv'
    BY <1>1, <2>7, ExpireKeeps
  <2>8. QED
    BY <1>2, <2>1, <2>2, <2>3, <2>4, <2>5, <2>6, <2>7 DEF Ask
<1>3. CASE Continue
  <2>1. ASSUME NEW b \in BOOLEAN, Record(b) PROVE SignInv'
    BY <1>1, <2>1, RecordKeeps
  <2>2. ASSUME NEW s \in Due, Suppress(s) \/ Send(s) \/ Fail(s) PROVE SignInv'
    BY <1>1, <2>2, SuppressKeeps, SendKeeps, FailKeeps
  <2>3. QED
    BY <1>3, <2>1, <2>2 DEF Continue
<1>4. CASE Refresh
  BY <1>4, RefreshKeeps
<1>5. CASE \E s \in Due : Cancel(s)
  BY <1>5, CancelKeeps
<1>6. CASE \/ ConnectionDies \/ ReadFails \/ Reconnect \/ PowerCycle
           \/ RepushAtNextRefresh \/ UNCHANGED vars
  BY <1>6, WorldKeeps
<1>7. QED
  BY <1>2, <1>3, <1>4, <1>5, <1>6 DEF Next

(* However an operation ends, and whatever fails or is cancelled on the    *)
(* way, what it would go back to is a record, no file is held by two slots *)
(* and none is shared by two variables (upsert's and put_variable's        *)
(* handlers, set_active, _release_and_persist); and what is left of its    *)
(* plan is all that stands between the sign and that record, unless the    *)
(* registry is dirty, is owed a repair or could not know (_push, _refresh).*)
THEOREM RegistryIsSound == Spec => []RegistryInv
<1>1. Init => RegistryInv
  BY RegistryInit, SignInit DEF RegistryInv
<1>2. RegistryInv /\ [Next]_vars => RegistryInv'
  BY RegistryStep, SignStep DEF RegistryInv
<1>3. QED
  BY <1>1, <1>2, PTL DEF Spec

(* What GET /health reports as sign_in_sync is so, between operations, for *)
(* any number of messages, variables and faults (in_sync).                 *)
THEOREM SignIsInSync == Spec => []InSyncIsSo
<1>1. ASSUME RegistryInv PROVE InSyncIsSo
  <2> USE <1>1 DEF RegistryInv, SignInv
  <2>1. SUFFICES ASSUME op = Idle, Settling PROVE Matches
    BY DEF InSyncIsSo
  <2>2. \A s : s \notin Left
    BY <2>1, InLeft DEF Idle
  <2>3. Calm
    BY <2>1 DEF Settling, Excused, Calm
  <2>4. \A f, c : Will(f, c) <=> sign[f] = c
    BY <2>2 DEF Will, Pending
  <2>5. QED
    BY <2>3, <2>4 DEF WillMatch, Matches
<1>2. QED
  BY RegistryIsSound, <1>1, PTL

(* The sign is never sent to a file that is still being filled or has been *)
(* emptied already (upsert, set_active, remove, clear, _rewrite_all).      *)
THEOREM TurnsAreNotEmpty == Spec => []NoEmptyTurn
<1>1. ASSUME RegistryInv PROVE NoEmptyTurn
  <2> USE <1>1 DEF RegistryInv, RecordInv, SignInv
  <2>1. SUFFICES ASSUME Settling, NEW l \in sign[Sequence]
                 PROVE  sign[l] # Blank
    BY DEF NoEmptyTurn
  <2>2. PICK m \in Texts : sign[l] = <<m, Call(m)>>
    BY <2>1 DEF TurnsAreReadable, Readable
  <2>3. QED
    BY <2>2, CallsAreFiles
<1>2. QED
  BY RegistryIsSound, <1>1, PTL

(* A message on the sign never shows the value of another variable than    *)
(* the one it calls, though variables come and go and files are reused     *)
(* (remove_variable, _render_message).                                     *)
THEOREM CallsAreTheirOwn == Spec => []CallsShowTheirOwn
<1>1. ASSUME RegistryInv PROVE CallsShowTheirOwn
  <2> USE <1>1 DEF RegistryInv, RecordInv, SignInv
  <2>1. SUFFICES ASSUME Settling, NEW l \in sign[Sequence],
                        sign[l] # Blank, sign[l][2] # NoFile
                 PROVE  LET n == Calls[sign[l][1]] IN
                          variables[n] # Absent /\ variables[n].label = sign[l][2]
    BY DEF CallsShowTheirOwn
  <2>2. PICK m \in Texts : sign[l] = <<m, Call(m)>>
    BY <2>1 DEF TurnsAreReadable, Readable
  <2>3. sign[l][1] = m /\ sign[l][2] = Call(m)
    BY <2>2
  <2>4. QED
    BY <2>1, <2>3 DEF Call
<1>2. QED
  BY RegistryIsSound, <1>1, PTL

(* No file stays reserved for a slot that is not registered: every upsert  *)
(* that does not go through gives back the one it took.                    *)
THEOREM PoolsMatchTheRecord == Spec => []PoolMatchesRecord
<1>1. RegistryInv => PoolMatchesRecord
  BY DEF RegistryInv, RecordInv, FilesHeld, PoolMatchesRecord
<1>2. QED
  BY RegistryIsSound, <1>1, PTL
=============================================================================
