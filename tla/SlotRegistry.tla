---------------------------- MODULE SlotRegistry ----------------------------
(***************************************************************************)
(* The messages that share the sign, the variables they call and the run   *)
(* sequence: class SlotRegistry of readerboard/services/registry.py.  One  *)
(* asyncio lock is held from an operation's first look at the record to    *)
(* its last send, so an operation is a plan of sends: what it will send is *)
(* settled when it begins, and each send may be suppressed, may land, may  *)
(* vanish down a dead connection or may fail, and then the rest is not     *)
(* made and the operation sees to its record.                              *)
(*                                                                         *)
(* A message calls a variable by the label of that variable's file, which  *)
(* is in the message's bytes.  Messages are rotated in some order, which is*)
(* left out, though changing it sends the run sequence again; and so are   *)
(* deadlines: any message or variable may reach its own at any time.  The  *)
(* pool of pictures has one file, the one the refresh asks the sign about, *)
(* and which messages call an icon is left out: it may be given up, or     *)
(* wanted, at any time.                                                    *)
(***************************************************************************)
EXTENDS Naturals

CONSTANTS
  Keys, Labels,      \* slots, and the sign's TEXT files
  Names, Strings,    \* variables, and the sign's STRING files
  Texts,             \* messages
  Calls,             \* which variable each message calls, if any
  Values,            \* what a variable may show
  Icons,             \* what a picture may show
  Sequence, Picture, \* the run sequence and the picture, as files of the sign
  Blank, Unknown,    \* a file's contents when it is empty, or not known
  Absent, NoFile, Nobody,
  MaxFaults          \* how often a link dies, a sign loses its memory or a
                     \* request is cancelled, at most

Files == Labels \cup Strings \cup {Sequence, Picture}
Slot == [label : Labels, text : Texts, active : BOOLEAN]
Variable == [label : Strings, value : Values]

ASSUME RegistryAssumption ==
  /\ Calls \in [Texts -> Names \cup {Nobody}]
  /\ Nobody \notin Keys \cup Names
  /\ NoFile \notin Files /\ Absent \notin Slot \cup Variable
  /\ Labels \cap Strings = {}
  /\ {Sequence, Picture} \cap (Labels \cup Strings) = {} /\ Sequence # Picture
  /\ Blank \notin Texts \X (Strings \cup {NoFile})
  /\ Unknown \notin {Blank} \cup (Texts \X (Strings \cup {NoFile})) \cup Values
                    \cup Icons
  /\ \A L \in SUBSET Labels : Unknown # L
  /\ MaxFaults \in Nat

VARIABLES
  slots,      \* _state.slots
  held,       \* Layout.slots: the file each key has been given
  variables,  \* _state.variables, and Layout.variables with them
  picture,    \* the icon of _state.pictures, and its claim on the file
  dirty,      \* _dirty
  op,         \* the operation that holds _lock, and what it has yet to send
  cache,      \* what the controller believes each file holds
  sign,       \* what each file holds
  frozen,     \* the file whose message a sign with nothing to play is stuck on
  link,       \* "up", "dead" (open, and nobody knows it is gone) or "down"
  owed,       \* a link has come back, and its repair has yet to begin
  wiped,      \* the sign has lost its memory, and nothing has noticed
  cancelled,  \* a request has been cancelled in the middle of a send, and the
              \* sign has not been pushed everything again since
  faults      \* how many things have gone wrong

record == <<slots, held, variables, picture>>
signVars == <<sign, frozen>>
vars == <<record, dirty, op, cache, signVars, link, owed, wiped, cancelled,
          faults>>

-----------------------------------------------------------------------------
Idle == [kind |-> "idle", who |-> Nobody, was |-> Absent, next |-> Absent,
         drew |-> Absent, todo |-> <<>>]

Forgotten == [f \in Files |-> Unknown]
Empty == [[f \in Files |-> Blank] EXCEPT ![Sequence] = {}]

Held == {held[k] : k \in Keys}
StringsHeld == {variables[n].label : n \in {m \in Names : variables[m] # Absent}}

Init ==
  /\ slots = [k \in Keys |-> Absent]
  /\ held = [k \in Keys |-> NoFile]
  /\ variables = [n \in Names |-> Absent]
  /\ picture = Absent
  /\ dirty = FALSE
  /\ op = Idle
  /\ cache = [Forgotten EXCEPT ![Sequence] = {}]
  /\ sign = Empty
  /\ frozen = NoFile
  /\ link = "up"
  /\ owed = FALSE
  /\ wiped = FALSE
  /\ cancelled = FALSE
  /\ faults = 0

-----------------------------------------------------------------------------
(* What is sent.                                                           *)

\* The label a message's call is rendered to: none for a variable that is not
\* there, which only a message accepted earlier may call.
Call(m) ==
  IF Calls[m] = Nobody \/ variables[Calls[m]] = Absent
    THEN NoFile
    ELSE variables[Calls[m]].label

Text(s) == [file |-> s.label, contents |-> <<s.text, Call(s.text)>>]
Emptied(l) == [file |-> l, contents |-> Blank]
Shown(v) == [file |-> v.label, contents |-> v.value]
Drawn(i) == [file |-> Picture, contents |-> i]

Registered(S) == {k \in Keys : S[k] # Absent}
Playing(S) == {S[k].label : k \in {j \in Registered(S) : S[j].active}}
RunSequence(S) == [file |-> Sequence, contents |-> Playing(S)]

\* _hide keeps a hidden message in its file, unless nothing is playing.
Hidden(S, s) == IF Playing(S) # {} THEN Text(s) ELSE Emptied(s.label)
Settled(S, s) == IF s.active THEN Text(s) ELSE Hidden(S, s)

\* A plan is a sequence of stages; the sends of a stage go in some order.
Done(plan) == \A i \in DOMAIN plan : plan[i] = {}
Left == UNION {op.todo[i] : i \in DOMAIN op.todo}

\* What may be sent next.
Turn(i) == \A j \in DOMAIN op.todo : j < i => op.todo[j] = {}
Due == UNION {op.todo[i] : i \in {j \in DOMAIN op.todo : Turn(j)}}

\* _rewrite_all: pictures and variables, then messages, then what to play.
Everything ==
  << {Drawn(i) : i \in {picture} \ {Absent}},
     {Shown(variables[n]) : n \in {m \in Names : variables[m] # Absent}},
     {Settled(slots, slots[k]) : k \in Registered(slots)},
     {RunSequence(slots)} >>

\* A mistake to refute: the sequence names a file before it is written.
UpsertsNamedFirst(S, k, was, reordered) ==
  << {RunSequence(S)}, {Settled(S, S[k])} >>

\* What upsert sends when the record of k has become S[k].
Upserts(S, k, was, reordered) ==
  IF was # Absent /\ was.active /\ ~S[k].active
    THEN << {RunSequence(S)}, {Hidden(S, S[k])} >>
    ELSE << {Settled(S, S[k])},
            {RunSequence(S) : x \in IF was = Absent THEN {1}
                                    ELSE IF was.active # S[k].active \/ reordered
                                    THEN {1} ELSE {}} >>

-----------------------------------------------------------------------------
(* Operations begin.                                                       *)

Begins(kind, who, was, todo) ==
  /\ op' = [kind |-> kind, who |-> who, was |-> was, next |-> Absent,
            drew |-> picture, todo |-> todo]
  /\ UNCHANGED <<signVars, link, owed, cancelled, faults>>

\* A message is accepted if what it calls exists and there is a file for it.
\* An icon it calls that has no file takes the one there is, and is drawn
\* first: none is drawn if it calls none, or the one that is there.
Upsert(k, m, active, icon) ==
  /\ op = Idle
  /\ Calls[m] # Nobody => variables[Calls[m]] # Absent
  /\ \E l \in IF held[k] # NoFile THEN {held[k]} ELSE Labels \ Held :
       /\ held' = [held EXCEPT ![k] = l]
       /\ op' = [kind |-> "drawing", who |-> k, was |-> slots[k],
                 next |-> [label |-> l, text |-> m, active |-> active],
                 drew |-> picture,
                 todo |-> IF icon # picture THEN << {Drawn(icon)} >> ELSE <<>>]
  /\ picture' = icon
  /\ UNCHANGED <<slots, variables, dirty, cache, signVars, link, owed, wiped,
                 cancelled, faults>>

Record(reordered) ==
  /\ op.kind = "drawing" /\ Done(op.todo)
  /\ slots' = [slots EXCEPT ![op.who] = op.next]
  /\ op' = [op EXCEPT !.kind = "upsert",
                      !.todo = Upserts(slots', op.who, op.was, reordered)]
  /\ UNCHANGED <<held, variables, picture, dirty, cache, signVars, link, owed,
                 wiped, cancelled, faults>>

\* set_active, both ways.
Show(k) ==
  /\ op = Idle /\ slots[k] # Absent /\ ~slots[k].active
  /\ slots' = [slots EXCEPT ![k].active = TRUE]
  /\ Begins("show", k, Absent, << {Text(slots[k])}, {RunSequence(slots')} >>)
  /\ UNCHANGED <<held, variables, picture, dirty, cache, wiped>>

\* A mistake to refute: the file keeps its text whatever is playing.
HideKeeping(k) ==
  /\ op = Idle /\ slots[k] # Absent /\ slots[k].active
  /\ slots' = [slots EXCEPT ![k].active = FALSE]
  /\ Begins("remove", k, Absent, << {RunSequence(slots')}, {Text(slots[k])} >>)
  /\ UNCHANGED <<held, variables, picture, dirty, cache, wiped>>

Hide(k) ==
  /\ op = Idle /\ slots[k] # Absent /\ slots[k].active
  /\ slots' = [slots EXCEPT ![k].active = FALSE]
  /\ Begins("remove", k, Absent,
            << {RunSequence(slots')}, {Hidden(slots', slots[k])} >>)
  /\ UNCHANGED <<held, variables, picture, dirty, cache, wiped>>

\* remove one slot, clear them all, or sweep up those past their deadline, of
\* which some go and some are only taken off the display.
Takes(kind, gone, hidden) ==
  /\ op = Idle /\ gone \cup hidden # {}
  /\ gone \cup hidden \subseteq Registered(slots) /\ gone \cap hidden = {}
  /\ slots' = [k \in Keys |->
                 IF k \in gone THEN Absent
                 ELSE IF k \in hidden THEN [slots[k] EXCEPT !.active = FALSE]
                 ELSE slots[k]]
  /\ held' = [k \in Keys |-> IF k \in gone THEN NoFile ELSE held[k]]
  /\ Begins(kind, Nobody, Absent,
            << {RunSequence(slots')}, {Emptied(slots[k].label) : k \in gone},
               {Hidden(slots', slots[k]) : k \in hidden} >>)
  /\ UNCHANGED <<variables, picture, dirty, cache, wiped>>

Remove(k) == Takes("remove", {k}, {})
Clear == Takes("remove", Registered(slots), {})
Sweep(gone, hidden) == Takes("sweep", gone, hidden)

PutVariable(n, v) ==
  /\ op = Idle
  /\ \E l \in IF variables[n] # Absent THEN {variables[n].label}
              ELSE Strings \ StringsHeld :
       variables' = [variables EXCEPT ![n] = [label |-> l, value |-> v]]
  /\ Begins("put", n, variables[n], << {Shown(variables'[n])} >>)
  /\ UNCHANGED <<slots, held, picture, dirty, cache, wiped>>

Called(n) == \E k \in Registered(slots) : Calls[slots[k].text] = n

\* A mistake to refute: nobody is asked whether they call it.
RemoveVariableUnasked(n) ==
  /\ op = Idle /\ variables[n] # Absent
  /\ variables' = [variables EXCEPT ![n] = Absent]
  /\ Begins("remove", Nobody, Absent, << {Emptied(variables[n].label)} >>)
  /\ UNCHANGED <<slots, held, picture, dirty, cache, wiped>>

RemoveVariable(n) ==
  /\ op = Idle /\ variables[n] # Absent /\ ~Called(n)
  /\ variables' = [variables EXCEPT ![n] = Absent]
  /\ Begins("remove", Nobody, Absent, << {Emptied(variables[n].label)} >>)
  /\ UNCHANGED <<slots, held, picture, dirty, cache, wiped>>

\* The sweep's other half: variables past their deadline show something else.
ExpireVariables(stale) ==
  /\ op = Idle /\ DOMAIN stale # {}
  /\ \A n \in DOMAIN stale : variables[n] # Absent
  /\ variables' = [n \in Names |->
                     IF n \in DOMAIN stale
                       THEN [variables[n] EXCEPT !.value = stale[n]]
                       ELSE variables[n]]
  /\ Begins("sweep", Nobody, Absent,
            << {Shown(variables'[n]) : n \in DOMAIN stale} >>)
  /\ UNCHANGED <<slots, held, picture, dirty, cache, wiped>>

-----------------------------------------------------------------------------
(* The refresh, and what a link that has come back asks of it.             *)

RepushAtNextRefresh ==
  /\ op = Idle /\ owed
  /\ owed' = FALSE
  /\ dirty' = TRUE
  /\ UNCHANGED <<record, op, cache, signVars, link, wiped, cancelled, faults>>

\* The sign is asked about its picture where that could tell, and says that
\* there is one.
StillHolds ==
  /\ ~dirty /\ link = "up"
  /\ picture # Absent /\ cache[Picture] # Unknown /\ sign[Picture] # Blank

\* Everything is pushed again.  When StillHolds, a refresh whose question is
\* answered does nothing; but any question may go unanswered.
Refresh ==
  /\ op = Idle
  /\ cache' = Forgotten
  /\ wiped' = FALSE
  /\ Begins("refresh", Nobody, Absent, Everything)
  /\ UNCHANGED <<record, dirty>>

-----------------------------------------------------------------------------
(* An operation goes on.                                                   *)

Suppressed(s) == cache[s.file] = s.contents

\* The last send made, the operation is over, and a refresh has pushed it all.
Advances(s) ==
  LET rest == [i \in DOMAIN op.todo |-> op.todo[i] \ {s}]
  IN IF Done(rest) /\ op.kind # "drawing"
       THEN /\ op' = Idle
            /\ dirty' = (dirty /\ op.kind # "refresh")
            /\ cancelled' = (cancelled /\ op.kind # "refresh")
       ELSE op' = [op EXCEPT !.todo = rest] /\ UNCHANGED <<dirty, cancelled>>

\* A sign given nothing to play is stuck on a message it was playing.
Lands(s) ==
  /\ sign' = [f \in Files |-> IF f = s.file THEN s.contents ELSE sign[f]]
  /\ IF s.file # Sequence THEN UNCHANGED frozen
     ELSE IF s.contents # {} THEN frozen' = NoFile
     ELSE frozen' \in IF sign[Sequence] = {} THEN {frozen} ELSE sign[Sequence]

\* What becomes of a send: it lands, or vanishes down a dead connection, or
\* finds it dead and lands on the one it opens in its place.
Goes(s) ==
  \/ link = "up" /\ Lands(s) /\ UNCHANGED <<link, owed>>
  \/ link = "dead" /\ UNCHANGED <<signVars, link, owed>>
  \/ link = "dead" /\ link' = "up" /\ owed' = TRUE /\ Lands(s)

\* What is believed after it, of its own file and of the others.
Believed(s, contents) ==
  [f \in Files |-> IF f = s.file THEN contents
                   ELSE IF link' = link THEN cache[f] ELSE Unknown]

Suppress(s) ==
  /\ Suppressed(s)
  /\ Advances(s)
  /\ UNCHANGED <<record, cache, signVars, link, owed, wiped, faults>>

Send(s) ==
  /\ ~Suppressed(s)
  /\ Goes(s)
  /\ cache' = Believed(s, s.contents)
  /\ Advances(s)
  /\ UNCHANGED <<record, wiped, faults>>

\* What an operation does to its record when it cannot go on.  upsert gives
\* back the file of a slot that is not registered after all, and the one it
\* took for an icon: if another icon had it, the registry is dirty.
Released == IF op.was = Absent THEN [held EXCEPT ![op.who] = NoFile] ELSE held
Evicted == op.drew # Absent /\ op.drew # picture

UndoTheRest ==
  \/ /\ op.kind = "show"
     /\ slots' = [slots EXCEPT ![op.who].active = FALSE]
     /\ UNCHANGED <<held, variables, picture, dirty>>
  \/ /\ op.kind = "put"
     /\ variables' = [variables EXCEPT ![op.who] = op.was]
     /\ UNCHANGED <<slots, held, picture, dirty>>

\* A mistake to refute: a file is given back only once there is a record.
UndoKeepingTheFile ==
  \/ /\ op.kind = "drawing"
     /\ picture' = op.drew /\ dirty' = (dirty \/ Evicted)
     /\ UNCHANGED <<slots, held, variables>>
  \/ /\ op.kind = "upsert"
     /\ slots' = [slots EXCEPT ![op.who] = op.was]
     /\ held' = Released /\ picture' = op.drew /\ dirty' = TRUE
     /\ UNCHANGED variables
  \/ UndoTheRest

Undo ==
  \/ /\ op.kind \in {"drawing", "upsert"}
     /\ slots' = [slots EXCEPT ![op.who] = op.was]
     /\ held' = Released
     /\ picture' = op.drew
     /\ dirty' = (dirty \/ Evicted \/ op.kind = "upsert")
     /\ UNCHANGED variables
  \/ UndoTheRest

\* The sign cannot be reached.  What takes something off the sign stands.
Fail(s) ==
  /\ ~Suppressed(s) /\ link # "up"
  /\ link' = "down"
  /\ cache' = Forgotten
  /\ \/ Undo
     \/ op.kind \in {"remove", "sweep"} /\ dirty' = TRUE /\ UNCHANGED record
     \/ op.kind = "refresh" /\ UNCHANGED <<record, dirty>>
  /\ op' = Idle
  /\ UNCHANGED <<signVars, owed, wiped, cancelled, faults>>

GoesWrong == faults < MaxFaults /\ faults' = faults + 1

\* A request is cancelled: before its send has the controller's lock, in the
\* send, or in the pause after it.
Cancel(s) ==
  /\ ~Suppressed(s) /\ op.kind \notin {"sweep", "refresh"}
  /\ \/ cache' = [cache EXCEPT ![s.file] = Unknown]
        /\ UNCHANGED <<signVars, link, owed>>
     \/ cache' = Forgotten /\ UNCHANGED <<signVars, link, owed>>
     \/ cache' = Forgotten /\ Goes(s)
     \/ Goes(s) /\ cache' = Believed(s, Unknown)
  /\ Undo \/ (op.kind = "remove" /\ UNCHANGED <<record, dirty>>)
  /\ op' = Idle
  /\ cancelled' = TRUE
  /\ GoesWrong
  /\ UNCHANGED wiped

-----------------------------------------------------------------------------
(* The world.                                                              *)

\* A write or the reconnect loop opens the link again; a read may find it gone.
ConnectionDies ==
  /\ link = "up"
  /\ link' = "dead"
  /\ GoesWrong
  /\ UNCHANGED <<record, dirty, op, cache, signVars, owed, wiped, cancelled>>

ReadFails ==
  /\ link = "dead"
  /\ link' = "down"
  /\ UNCHANGED <<record, dirty, op, cache, signVars, owed, wiped, cancelled,
                 faults>>

Reconnect ==
  /\ link = "down"
  /\ link' = "up"
  /\ owed' = TRUE
  /\ cache' = Forgotten
  /\ UNCHANGED <<record, dirty, op, signVars, wiped, cancelled, faults>>

PowerCycle ==
  /\ sign' = Empty
  /\ frozen' = NoFile
  /\ wiped' = TRUE
  /\ GoesWrong
  /\ UNCHANGED <<record, dirty, op, cache, link, owed, cancelled>>

-----------------------------------------------------------------------------
Ask ==
  \/ \E k \in Keys :
       \/ \E m \in Texts, a \in BOOLEAN, i \in Icons \cup {picture} :
            Upsert(k, m, a, i)
       \/ Show(k) \/ Hide(k) \/ Remove(k)
  \/ Clear
  \/ \E gone, hidden \in SUBSET Keys : Sweep(gone, hidden)
  \/ \E n \in Names :
       (\E v \in Values : PutVariable(n, v)) \/ RemoveVariable(n)
  \/ \E N \in SUBSET Names : \E stale \in [N -> Values] : ExpireVariables(stale)

Continue ==
  \/ \E b \in BOOLEAN : Record(b)
  \/ \E s \in Due : Suppress(s) \/ Send(s) \/ Fail(s)

Next ==
  \/ Ask \/ Continue \/ RepushAtNextRefresh
  \/ Refresh
  \/ \E s \in Due : Cancel(s)
  \/ ConnectionDies \/ ReadFails \/ Reconnect \/ PowerCycle

Spec == Init /\ [][Next]_vars

-----------------------------------------------------------------------------
\* The sign plays what is registered and showing, each message and each
\* variable as it is recorded, and is stuck on no hidden message.
Matches ==
  /\ sign[Sequence] = Playing(slots)
  /\ \A k \in Registered(slots) :
       slots[k].active => sign[slots[k].label] = Text(slots[k]).contents
  /\ \A n \in Names :
       variables[n] # Absent => sign[variables[n].label] = variables[n].value
  /\ \A k \in Registered(slots) :
       Playing(slots) = {} /\ frozen = slots[k].label => sign[frozen] = Blank

\* What may excuse a sign that is not as it should be: somebody has owned up
\* to it, or is about to, or could not know.
Excused == dirty \/ owed \/ wiped \/ link # "up"

\* Nothing excuses it, and the sign is not being pushed everything again.
Settling == ~Excused /\ ~cancelled /\ op.kind # "refresh"

(* What GET /health reports as sign_in_sync is so (in_sync), but between a *)
(* request cancelled in the middle of a send and the next re-push.         *)
InSyncIsSo == op = Idle /\ Settling => Matches

(* What the API says of that report: "false when the sign may not match    *)
(* the service's record", a refused write that partly landed included.     *)
InSyncIsAlwaysSo == op = Idle /\ ~Excused => Matches

(* Nor is it stuck on a message that is no longer registered: what set_active *)
(* and remove could not take off, "the next refresh carries it out".        *)
NothingIsStuck ==
  op = Idle /\ ~Excused /\ ~cancelled /\ Playing(slots) = {} /\ frozen # NoFile
    => sign[frozen] = Blank

(* The sign is never sent to a file that is still being filled or has been *)
(* emptied already (upsert, set_active, remove, clear, _rewrite_all).      *)
NoEmptyTurn ==
  Settling => \A l \in sign[Sequence] : sign[l] # Blank

(* A message on the sign never shows the value of another variable than    *)
(* the one it calls, though variables come and go and files are reused     *)
(* (remove_variable, _render_message).                                     *)
CallsShowTheirOwn ==
  Settling =>
    \A l \in sign[Sequence] :
      sign[l] # Blank /\ sign[l][2] # NoFile =>
        LET n == Calls[sign[l][1]] IN
          variables[n] # Absent /\ variables[n].label = sign[l][2]

(* No file stays reserved for a slot that is not registered, whatever      *)
(* failed or was cancelled on the way (upsert's two handlers, remove).     *)
PoolMatchesRecord ==
  \A k \in Keys :
    IF slots[k] # Absent THEN held[k] = slots[k].label
    ELSE held[k] = NoFile \/ (op.kind = "drawing" /\ op.who = k)

(* A sign that still has its picture still has everything, which is what a *)
(* refresh that hears so relies on (_sign_still_holds_its_pictures).       *)
YesSpeaksForTheSign ==
  op = Idle /\ StillHolds /\ ~owed /\ ~cancelled => Matches

-----------------------------------------------------------------------------
Kinds == {"idle", "drawing", "upsert", "show", "remove", "sweep", "put", "refresh"}

TypeOK ==
  /\ slots \in [Keys -> Slot \cup {Absent}]
  /\ held \in [Keys -> Labels \cup {NoFile}]
  /\ variables \in [Names -> Variable \cup {Absent}]
  /\ picture \in Icons \cup {Absent}
  /\ dirty \in BOOLEAN /\ owed \in BOOLEAN
  /\ wiped \in BOOLEAN /\ cancelled \in BOOLEAN
  /\ DOMAIN op = DOMAIN Idle /\ op.kind \in Kinds
  /\ op.drew \in Icons \cup {Absent}
  /\ DOMAIN cache = Files /\ DOMAIN sign = Files
  /\ link \in {"up", "dead", "down"}
  /\ faults \in 0 .. MaxFaults

\* A file is held by the slot that is registered with it, or by the one that
\* is being registered, and by one slot.
FilesHeld ==
  /\ \A k \in Keys : slots[k] # Absent => held[k] = slots[k].label
  /\ \A j, k \in Keys : j # k /\ held[j] = held[k] => held[j] = NoFile
  /\ \A k \in Keys : slots[k] = Absent /\ held[k] # NoFile =>
       op.kind = "drawing" /\ op.who = k

\* What an upsert, a show or a put would go back to is a record.
UndoIsSound ==
  /\ op.kind \in {"drawing", "upsert"} =>
       /\ op.who \in Keys
       /\ op.next \in Slot /\ held[op.who] = op.next.label
       /\ op.was \in Slot \cup {Absent}
       /\ op.was # Absent => held[op.who] = op.was.label
       /\ slots[op.who] = IF op.kind = "drawing" THEN op.was ELSE op.next
  /\ op.kind = "show" => op.who \in Registered(slots)
  /\ op.kind = "put" =>
       /\ op.who \in Names /\ variables[op.who] # Absent
       /\ op.was \in Variable \cup {Absent}

\* Two variables never share a file either.
StringsHeldApart ==
  \A n, p \in Names :
    n # p /\ variables[n] # Absent /\ variables[p] # Absent =>
      /\ variables[n].label # variables[p].label
      /\ op.kind = "put" /\ op.who = n /\ op.was # Absent =>
           op.was.label # variables[p].label

\* What keeps the record and the pools together, whatever an operation may
\* still have to take back.
RecordInv == TypeOK /\ FilesHeld /\ UndoIsSound /\ StringsHeldApart

-----------------------------------------------------------------------------
(* The sign, and what is still on its way to it.                           *)

\* What a registered message calls is there, and stays when an operation is
\* taken back; and a variable keeps its file as long as it is there.
Callable(m) == Calls[m] = Nobody \/ variables[Calls[m]] # Absent

CallsExist ==
  /\ \A k \in Registered(slots) : Callable(slots[k].text)
  /\ op.kind \in {"drawing", "upsert"} =>
       /\ Callable(op.next.text)
       /\ op.was # Absent => Callable(op.was.text)
  /\ op.kind = "put" =>
       IF op.was = Absent THEN ~Called(op.who)
       ELSE op.was.label = variables[op.who].label

\* An entry of the cache is right unless something the registry cannot see, or
\* has yet to be told of, came between.
CacheIsTheSigns ==
  link = "up" /\ ~wiped => \A f \in Files : cache[f] \in {Unknown, sign[f]}

\* A sign with something to play is not stuck.
PlayingOrStuck ==
  /\ sign[Sequence] \in SUBSET Labels
  /\ sign[Sequence] # {} => frozen = NoFile

\* A message that may have its turn: its text, and a call to what it calls.
Readable(contents) == \E m \in Texts : Callable(m) /\ contents = <<m, Call(m)>>

\* A plan has one send for a file; it fills what is to be played before the
\* sequence that names it.
PlanIsSound ==
  /\ \A s \in Left :
       /\ s.file \in Files /\ s.contents # Unknown
       /\ s.file \in Labels => s.contents = Blank \/ Readable(s.contents)
       /\ s.file = Sequence => s.contents = Playing(slots)
  /\ \A s, t \in Left : s.file = t.file => s = t
  /\ \A i, j \in DOMAIN op.todo : \A s \in op.todo[i], t \in op.todo[j] :
       s.file \in Playing(slots) /\ t.file = Sequence => i < j

\* What a file holds once the operation under way has made its last send.
Pending(f) == \E s \in Left : s.file = f
Will(f, contents) ==
  IF Pending(f) THEN [file |-> f, contents |-> contents] \in Left
  ELSE sign[f] = contents

\* Nothing is in the way of the sends that are left; a refresh needs no more.
Calm ==
  /\ ~owed /\ ~wiped /\ link = "up"
  /\ op.kind = "refresh" \/ (~dirty /\ ~cancelled)

WillMatch ==
  Calm =>
    /\ Will(Sequence, Playing(slots))
    /\ \A k \in Registered(slots) :
         slots[k].active => Will(slots[k].label, Text(slots[k]).contents)
    /\ \A n \in Names :
         variables[n] # Absent => Will(variables[n].label, variables[n].value)
    /\ \A k \in Registered(slots) :
         /\ Playing(slots) = {}
         /\ \/ frozen = slots[k].label
            \/ Pending(Sequence) /\ slots[k].label \in sign[Sequence]
         => Will(slots[k].label, Blank)

\* What the sign plays can be read, and is emptied only once it is not played.
TurnsAreReadable ==
  Settling =>
    /\ \A l \in sign[Sequence] : Readable(sign[l])
    /\ \A i \in DOMAIN op.todo : \A s \in op.todo[i] :
         s.file \in sign[Sequence] /\ s.contents = Blank =>
           /\ s.file \notin Playing(slots)
           /\ \E j \in DOMAIN op.todo :
                j < i /\ \E t \in op.todo[j] : t.file = Sequence

SignInv ==
  /\ CallsExist /\ CacheIsTheSigns /\ PlayingOrStuck
  /\ PlanIsSound /\ WillMatch /\ TurnsAreReadable

(* The record and its pools hold together, whatever an operation may still *)
(* have to take back; and what the operation under way has yet to send is  *)
(* all that stands between the sign and the record, unless somebody has    *)
(* owned up to more (class SlotRegistry).                                  *)
RegistryInv == RecordInv /\ SignInv
=============================================================================
