----------------------------- MODULE ApiClient -----------------------------
(***************************************************************************)
(* The API client's window: one call in flight, the chain Load all sends   *)
(* from the completion of each set before, the forms a reply is read back  *)
(* into, and the check of what each address answers.  A dialog runs the    *)
(* event loop under the handler that opened it: the person can do nothing  *)
(* but answer it, while replies, descriptions and the chain's timer go on  *)
(* arriving.  The service at the other end may answer anything.            *)
(***************************************************************************)
EXTENDS ClientForms

CONSTANTS Boxes,      \* what the base URL box may hold
          Saved,      \* what it held when it was last used
          Addresses,  \* the services those can name
          AddressOf,  \* which box names which; some name none
          Slots,      \* slots a service may answer with
          Described,  \* surfaces a service may describe
          TypedKeys,  \* what the person may put in a key box
          TypedTexts, \* what the person may put in the message form's fields
          MaxSends,   \* bound: times the person presses a button that calls
          MaxEdits    \* bound: times the person edits a box

NoAddress == "no address"

\* What a service's schema lets a field of a slot say.
Says(f, value) ==
  \/ value = Null
  \/ f = "message" /\ value \in {"text"} \X STRING
  \/ f = "display_mode" /\ value \in {"text"} \X STRING /\ value[2] # ""
  \/ f = "order" /\ value \in {"int"} \X {0, 7, 60}
  \/ f = "active" /\ value \in {"bool"} \X BOOLEAN
  \/ f = "expires_at" /\ value \in {<<"past">>, <<"float", 7>>, <<"float", 60>>}

ASSUME ClientAssumption ==
  /\ NoAddress \notin Addresses
  /\ AddressOf \in [Boxes -> Addresses \cup {NoAddress}]
  /\ Saved \in Boxes
  /\ TypedKeys \subseteq PathTexts
  /\ TypedTexts \subseteq Fields \X STRING
  /\ \A t \in TypedTexts : Closed(t[1]) # {} => t[2] \in Closed(t[1])
  /\ \A s \in Slots :
       \A f \in DOMAIN s \cap (Fields \cup {"expires_at"}) : Says(f, s[f])
  /\ Nothing \notin Keys

VARIABLES
  box,       \* the text of the base URL box
  selected,  \* the form on screen
  key,       \* each form's path box
  body,      \* the message form's fields
  inflight,  \* Caller._reply: the call that is out, at most one
  stamped,   \* _started_at is when the call that is out was sent
  recorded,  \* calls in the history
  queued,    \* what Load all has left to send
  timers,    \* zero timers set and not fired
  dialogs,   \* the dialogs that are open, the last one on top
  fill,      \* _pending_fill: the key asked for
  keysFor,   \* _pending_keys: the form that asked
  loaded,    \* the sets in the store
  checked,   \* addresses the surface was asked of
  fetching,  \* the address a description is being fetched from
  verdicts,  \* what was found at each address
  (* History variables. *)
  made,      \* calls handed to the network
  left,      \* sets of a running chain neither sent nor given up
  typed,     \* the key the person last put in each form's path box
  meant,     \* what each field was last given, and by whom
  source,    \* whose slot is in the form, if nobody has edited since
  sends, edits

form == <<key, body, typed, meant, source>>
surface == <<checked, fetching, verdicts>>
chain == <<queued, timers, left>>
pending == <<fill, keysFor>>
call == <<inflight, stamped, made>>
vars == <<box, selected, recorded, dialogs, loaded, sends, edits,
          form, surface, chain, pending, call>>

NoCall == [op |-> Nothing]
Unread == [origin |-> NoAddress, key |-> Nothing]
Busy == inflight # NoCall
Here == AddressOf[box]
KeyForms == TakesKey

Init ==
  /\ box = Saved
  /\ selected = "put_slot"
  /\ key = [f \in KeyForms |-> Empty]
  /\ body = [f \in Fields |-> StartsAs(f)]
  /\ inflight = NoCall /\ stamped = TRUE /\ made = 0
  /\ recorded = 0
  /\ queued = <<>> /\ timers = 0 /\ left = {}
  /\ dialogs = <<>>
  /\ fill = Nothing /\ keysFor = Nothing
  /\ loaded = {}
  /\ checked = {} /\ fetching = NoAddress
  /\ verdicts = [a \in Addresses |-> "none"]
  /\ typed = [f \in KeyForms |-> Nothing]
  /\ meant = [f \in Fields |-> <<"typed", StartsAs(f)>>]
  /\ source = Unread
  /\ sends = 0 /\ edits = 0

-----------------------------------------------------------------------------
(* Sending.                                                                *)

\* _prepare: what stops a request being formed at all.
CanForm(op, text) ==
  Here # NoAddress /\ (op \in TakesKey => Strip(text).key # Nothing)

Request(op, text) ==
  [op |-> op, origin |-> Here,
   key |-> IF op \in TakesKey THEN Strip(text).key ELSE Nothing]

Open(dialog) == dialogs' = Append(dialogs, dialog)
Refusal(stop) == [kind |-> "refused", stop |-> stop]

\* The end of run: a second call would be ignored by Caller.send.
Goes(op, text) ==
  /\ stamped' = ~Busy
  /\ inflight' = IF Busy THEN inflight ELSE Request(op, text)
  /\ made' = IF Busy THEN made ELSE made + 1

\* run, of an operation that asks nothing first: sent, or refused by _prepare.
RunNow(op, text, stop) ==
  IF CanForm(op, text)
    THEN Goes(op, text) /\ UNCHANGED dialogs
    ELSE Open(Refusal(stop)) /\ UNCHANGED call

Presses == dialogs = <<>> /\ sends < MaxSends /\ sends' = sends + 1
Trimmed(f) == IF f \in KeyForms THEN [key EXCEPT ![f] = Strip(@)] ELSE key
TextFor(f) == IF f \in KeyForms THEN key[f] ELSE Empty

PressSend ==
  /\ Presses /\ ~Busy
  /\ key' = Trimmed(selected)
  /\ IF selected \in Destructive
       THEN Open([kind |-> "question", op |-> selected]) /\ UNCHANGED call
       ELSE RunNow(selected, TextFor(selected), FALSE)
  /\ UNCHANGED <<box, selected, recorded, loaded, edits, body, typed, meant,
                 source, surface, chain, pending>>

\* The Load button of one set.
PressLoad(op) ==
  /\ Presses /\ ~Busy
  /\ RunNow(op, Empty, FALSE)
  /\ UNCHANGED <<box, selected, recorded, loaded, edits, form, surface, chain,
                 pending>>

\* load_every_set: a second press in the middle of a chain is refused.
PressLoadAll ==
  /\ Presses /\ ~Busy
  /\ queued = <<>>
  /\ queued' = Tail(LoadAll)
  /\ left' = Sets \ {Head(LoadAll)}
  /\ RunNow(Head(LoadAll), Empty, TRUE)
  /\ UNCHANGED <<box, selected, recorded, loaded, edits, form, surface, timers,
                 pending>>

\* load_keys: the form that asked is remembered, once the call is on its way.
PressLoadKeys(op) ==
  /\ Presses /\ selected \in KeyForms
  /\ ~Busy
  /\ RunNow(op, Empty, FALSE)
  /\ keysFor' = IF CanForm(op, Empty) THEN selected ELSE keysFor
  /\ UNCHANGED <<box, selected, recorded, loaded, edits, form, surface, chain,
                 fill>>

\* load_from_sign: the key asked for is remembered with it.
PressLoadFromSign ==
  /\ Presses /\ selected = "put_slot" /\ ~Busy
  /\ RunNow("get_slot", key["put_slot"], FALSE)
  /\ fill' = IF CanForm("get_slot", key["put_slot"])
               THEN key["put_slot"].key ELSE fill
  /\ UNCHANGED <<box, selected, recorded, loaded, edits, form, surface, chain,
                 keysFor>>

\* A mistake to refute: taken off the queue before it is known to go.
SendNextQueuedPopping ==
  /\ timers > 0 /\ timers' = timers - 1
  /\ IF queued = <<>>
       THEN UNCHANGED <<queued, left, dialogs, call>>
       ELSE /\ queued' = Tail(queued)
            /\ IF Busy THEN UNCHANGED <<left, dialogs, call>>
               ELSE /\ RunNow(Head(queued), Empty, TRUE)
                    /\ left' = left \ {Head(queued)}
  /\ UNCHANGED <<box, selected, recorded, loaded, sends, edits, form, surface,
                 pending>>

\* _send_next_queued, from its timer: behind somebody's call the chain waits.
SendNextQueued ==
  /\ timers > 0 /\ timers' = timers - 1
  /\ IF queued = <<>> \/ Busy
       THEN UNCHANGED <<queued, left, dialogs, call>>
       ELSE /\ queued' = Tail(queued)
            /\ RunNow(Head(queued), Empty, TRUE)
            /\ left' = left \ {Head(queued)}
  /\ UNCHANGED <<box, selected, recorded, loaded, sends, edits, form, surface,
                 pending>>

-----------------------------------------------------------------------------
(* Checking the surface.                                                   *)

\* A mistake to refute: an abandoned fetch still counts as a check.
CheckSurfaceForgetfully(address) ==
  IF address \in checked THEN UNCHANGED <<checked, fetching>>
  ELSE checked' = checked \cup {address} /\ fetching' = address

\* _check_surface and fetch: the fetch under way is abandoned and released.
CheckSurface(address) ==
  IF address \in checked THEN UNCHANGED <<checked, fetching>>
  ELSE /\ checked' = (checked \cup {address}) \ {fetching}
       /\ fetching' = address

\* The fetch is over, and what it came to is said.
FetchEnds == fetching # NoAddress /\ fetching' = NoAddress

\* A description that could not be fetched: asked again at the next answer.
DescriptionFails ==
  /\ FetchEnds
  /\ checked' = checked \ {fetching}
  /\ verdicts' = [verdicts EXCEPT ![fetching] = "none"]
  /\ UNCHANGED <<box, selected, recorded, dialogs, loaded, sends, edits, form,
                 chain, pending, call>>

\* No description to be had, or one that cannot be read: said once.
DescriptionUnreadable ==
  /\ FetchEnds
  /\ verdicts' = [verdicts EXCEPT ![fetching] = "unchecked"]
  /\ UNCHANGED <<box, selected, recorded, dialogs, loaded, sends, edits, form,
                 checked, chain, pending, call>>

DescriptionArrives(document) ==
  /\ FetchEnds
  /\ LET same == Matches(Compare(document, Operations))
     IN /\ verdicts' = [verdicts EXCEPT ![fetching] =
                          IF same THEN "matches" ELSE "differs"]
        /\ IF same THEN UNCHANGED dialogs ELSE Open([kind |-> "skew"])
  /\ UNCHANGED <<box, selected, recorded, loaded, sends, edits, form, checked,
                 chain, pending, call>>

-----------------------------------------------------------------------------
(* Receiving.                                                              *)

Replies(op) ==
  {[status |-> 0, payload |-> Null], [status |-> 500, payload |-> <<"error">>],
   [status |-> 200, payload |-> <<"unreadable">>]}
  \cup {[status |-> 200, payload |-> p] :
          p \in CASE op \in {Modes, Icons} -> {<<"list", {{"name"}}>>, <<"list", {{}}>>}
                  [] op = Bitmaps -> {<<"list", {{"name", "rows", "inks"}}>>,
                                      <<"list", {{"name"}}>>}
                  [] op = "list_slots" -> {<<"list", ks>> : ks \in SUBSET Keys}
                  [] op = "get_slot" -> {<<"object", s>> : s \in Slots}
                  [] OTHER -> {Null}}

Ok(reply) == ~IsError(reply.status, reply.payload)

\* _absorb: whether the reply was one the client could use.
Usable(op, payload) ==
  /\ op \in {Modes, Icons} => ReadsAsSet(payload)
  /\ op = Bitmaps => ReadsAsBitmaps(payload)
Taken(op, reply) == Ok(reply) /\ Usable(op, reply.payload)

\* EnumStore: the sets that have been loaded, and the names in one.
Load(op) == loaded \cup ({op} \cap Sets)
Names(sets) == IF Modes \in sets THEN ModeNames ELSE {}

\* refresh_enumerations: every box that draws on a set is filled again.
Refreshed(op) ==
  IF op \in {Modes, Icons}
    THEN [body EXCEPT !["display_mode"] =
            FillCombo(@, Names(Load(op)), FALSE, Prefill("display_mode"))]
    ELSE body

\* A mistake to refute: an answer goes into the form whatever it holds now.
FillsRegardless(c, reply) ==
  fill # Nothing /\ c.op = "get_slot" /\ Ok(reply) /\ reply.payload[1] = "object"

\* The answer is from the service the box names, about the key the form holds.
Fills(c, reply) ==
  /\ fill # Nothing /\ c.op = "get_slot"
  /\ Ok(reply) /\ reply.payload[1] = "object"
  /\ c.origin = Here
  /\ key["put_slot"].key = fill

Filled(c, reply) ==
  IF ~Fills(c, reply) THEN UNCHANGED <<body, meant, source>>
  ELSE LET slot == reply.payload[2]
           read(f) == IF f = "ttl_seconds" THEN "expires_at" ELSE f
       IN /\ body' = FillFrom(slot, body)
          /\ meant' = [f \in Fields |-> IF read(f) \in DOMAIN slot
                                          THEN <<"read", slot[read(f)]>>
                                          ELSE meant[f]]
          /\ source' = [origin |-> c.origin, key |-> c.key]

OffersKeys(c, reply) ==
  /\ keysFor # Nothing /\ c.op = "list_slots"
  /\ Ok(reply) /\ reply.payload[1] = "list" /\ c.origin = Here

Offered(c, reply) ==
  IF OffersKeys(c, reply)
    THEN key' = [key EXCEPT ![keysFor] = OfferKeys(@, reply.payload[2])]
    ELSE UNCHANGED key

\* A mistake to refute: the chain goes on only from its own calls.
DrainedBySets(taken) ==
  IF queued = <<>> \/ inflight.op \notin Sets THEN UNCHANGED chain
  ELSE IF taken THEN timers' = timers + 1 /\ UNCHANGED <<queued, left>>
  ELSE queued' = <<>> /\ left' = {} /\ UNCHANGED timers

\* The drain at the end of _completed, after every call.
Drained(taken) ==
  IF queued = <<>> THEN UNCHANGED chain
  ELSE IF taken THEN timers' = timers + 1 /\ UNCHANGED <<queued, left>>
  ELSE queued' = <<>> /\ left' = {} /\ UNCHANGED timers

\* _completed from the check of the surface on, less what goes into a form.
Finished(op, origin, answered, taken) ==
  /\ IF answered THEN CheckSurface(origin) ELSE UNCHANGED <<checked, fetching>>
  /\ fill' = IF op = "get_slot" THEN Nothing ELSE fill
  /\ keysFor' = IF op = "list_slots" THEN Nothing ELSE keysFor
  /\ Drained(taken)

\* History.append.
Recorded == recorded' = recorded + 1

Arrives(reply) ==
  /\ Busy
  /\ inflight' = NoCall
  /\ Recorded
  /\ stamped' = TRUE
  /\ UNCHANGED <<box, selected, sends, edits, typed, verdicts, made>>

\* A reply with nothing to say in a dialog.
CompletedQuietly(reply) ==
  /\ Arrives(reply)
  /\ LET c == inflight
     IN /\ Taken(c.op, reply)
        /\ loaded' = Load(c.op)
        /\ IF c.op = "get_slot" THEN Filled(c, reply)
           ELSE body' = Refreshed(c.op) /\ UNCHANGED <<meant, source>>
        /\ Offered(c, reply)
        /\ Finished(c.op, c.origin, TRUE, TRUE)
  /\ UNCHANGED dialogs

\* A failure, or a set that does not read as one: said before the rest is done.
CompletedWithADialog(reply) ==
  /\ Arrives(reply)
  /\ ~Taken(inflight.op, reply)
  /\ Open([kind |-> "failed", op |-> inflight.op, origin |-> inflight.origin,
           answered |-> reply.status # 0])
  /\ UNCHANGED <<loaded, form, checked, fetching, chain, pending>>

-----------------------------------------------------------------------------
(* The person.                                                             *)

Top == dialogs[Len(dialogs)]
Asked(kind) == dialogs # <<>> /\ Top.kind = kind
Popped == SubSeq(dialogs, 1, Len(dialogs) - 1)
Closes(kind) == Asked(kind) /\ dialogs' = Popped

\* The question was asked after run had looked whether a call was out.
AnswerYes ==
  /\ Asked("question")
  /\ LET op == Top.op
     IN IF CanForm(op, Empty)
          THEN Goes(op, Empty) /\ dialogs' = Popped
          ELSE dialogs' = Append(Popped, Refusal(FALSE)) /\ UNCHANGED call
  /\ UNCHANGED <<box, selected, recorded, loaded, sends, edits, form, surface,
                 chain, pending>>

AnswerNo ==
  /\ Closes("question")
  /\ UNCHANGED <<box, selected, recorded, loaded, sends, edits, form, surface,
                 chain, pending, call>>

CloseRefusal ==
  /\ Closes("refused")
  /\ IF Top.stop THEN queued' = <<>> /\ left' = {} ELSE UNCHANGED <<queued, left>>
  /\ UNCHANGED <<box, selected, recorded, loaded, sends, edits, form, surface,
                 timers, pending, call>>

\* The rest of _completed, with nothing in the reply to take.
CloseFailure ==
  /\ Closes("failed")
  /\ Finished(Top.op, Top.origin, Top.answered, FALSE)
  /\ UNCHANGED <<box, selected, recorded, loaded, sends, edits, form, verdicts,
                 call>>

CloseSkew ==
  /\ Closes("skew")
  /\ UNCHANGED <<box, selected, recorded, loaded, sends, edits, form, surface,
                 chain, pending, call>>

Edits == dialogs = <<>> /\ edits < MaxEdits /\ edits' = edits + 1

EditBox(text) ==
  /\ Edits /\ box' = text
  /\ source' = Unread
  /\ UNCHANGED <<selected, recorded, dialogs, loaded, sends, key, body, typed,
                 meant, surface, chain, pending, call>>

Select(f) ==
  /\ Edits /\ selected' = f
  /\ UNCHANGED <<box, recorded, dialogs, loaded, sends, form, surface, chain,
                 pending, call>>

EditKey(text) ==
  /\ Edits /\ selected \in KeyForms
  /\ key' = [key EXCEPT ![selected] = text]
  /\ typed' = [typed EXCEPT ![selected] = text.key]
  /\ source' = IF selected = "put_slot" THEN Unread ELSE source
  /\ UNCHANGED <<box, selected, recorded, dialogs, loaded, sends, body, meant,
                 surface, chain, pending, call>>

EditField(f, text) ==
  /\ Edits /\ selected = "put_slot"
  /\ body' = [body EXCEPT ![f] = SetText(f, @, text)]
  /\ meant' = [meant EXCEPT ![f] = <<"typed", text>>]
  /\ UNCHANGED <<box, selected, recorded, dialogs, loaded, sends, key, typed,
                 source, surface, chain, pending, call>>

-----------------------------------------------------------------------------
Sending ==
  \/ PressSend \/ PressLoadAll \/ PressLoadFromSign
  \/ PressLoadKeys("list_slots")
  \/ \E op \in Sets : PressLoad(op)

Describing ==
  \/ DescriptionFails \/ DescriptionUnreadable
  \/ \E d \in Described : DescriptionArrives(d)

Completing ==
  \E reply \in Replies(inflight.op) :
    CompletedQuietly(reply) \/ CompletedWithADialog(reply)

Answering == AnswerYes \/ AnswerNo \/ CloseRefusal \/ CloseFailure \/ CloseSkew

Editing ==
  \/ \E text \in Boxes : EditBox(text)
  \/ \E f \in Forms : Select(f)
  \/ \E text \in TypedKeys : EditKey(text)
  \/ \E t \in TypedTexts : EditField(t[1], t[2])

Next == Sending \/ SendNextQueued \/ Describing \/ Completing \/ Answering \/ Editing

\* A call ends, at the latest by its timeout; a timer fires; a dialog is closed.
Fairness ==
  WF_vars(SendNextQueued) /\ WF_vars(Completing) /\ WF_vars(Answering)

Spec == Init /\ [][Next]_vars /\ Fairness

-----------------------------------------------------------------------------
Calls == [op : Operations, origin : Addresses, key : Keys \cup {Nothing}]

TypeOK ==
  /\ box \in Boxes /\ selected \in Forms
  /\ key \in [KeyForms -> PathTexts] /\ DOMAIN body = Fields
  /\ Busy => [op |-> inflight.op, origin |-> inflight.origin,
              key |-> inflight.key] \in Calls
  /\ stamped \in BOOLEAN
  /\ queued \in {SubSeq(LoadAll, i, Len(LoadAll)) : i \in 1..Len(LoadAll) + 1}
  /\ timers \in Nat /\ loaded \subseteq Sets
  /\ checked \subseteq Addresses /\ fetching \in Addresses \cup {NoAddress}
  /\ verdicts \in [Addresses -> {"none", "matches", "differs", "unchecked"}]

(* An address counts as checked only while it is being asked or its answer *)
(* is known, and the one being asked does count: an address whose fetch    *)
(* was abandoned or failed is asked again, and a known one never is.       *)
AddressesAreAccountedFor ==
  /\ TypeOK
  /\ \A a \in Addresses : a \in checked <=> (a = fetching \/ verdicts[a] # "none")
  /\ fetching # NoAddress => verdicts[fetching] = "none"

(* What a form would send is what the person or the sign put there: each   *)
(* field reads back as the value it was loaded from, no loading chooses a  *)
(* value, no list of keys a key, and a slot read from a sign is never left *)
(* in a form aimed at another service or another key.                      *)
FormsHoldWhatWasMeant ==
  /\ \A f \in Fields :
       IF meant[f][1] = "typed" THEN body[f] = meant[f][2]
       ELSE LET value == meant[f][2]
                sent == BuildBody(body)
            IN IF value \in {Null, <<"past">>}
                 THEN IF Required(f) THEN sent[f] = <<"text", "">>
                      ELSE f \notin DOMAIN sent
               ELSE f \in DOMAIN sent /\ sent[f] = value
  /\ \A f \in KeyForms : key[f].key \in {Nothing, typed[f]}
  /\ source # Unread =>
       source.origin = Here /\ key["put_slot"].key \in {Nothing, source.key}

(* Every set of a chain that has not been asked for is still queued, until *)
(* a failure gives the rest up, whatever call takes the gap between two;   *)
(* and what waits for an answer waits for the call that is out.            *)
NothingIsLostFromTheChain ==
  /\ left = {queued[i] : i \in DOMAIN queued}
  /\ made = recorded + IF Busy THEN 1 ELSE 0

(* A chain ends: all its sets have been asked for, or the rest given up.   *)
LoadAllEnds == (queued # <<>>) ~> (queued = <<>>)

(* What run says has gone out is what goes out: the time it takes down and *)
(* the answer it gives are about the call in flight.  TLC refutes it: a    *)
(* set of a chain goes out under the question a destructive call asks      *)
(* first, and that call is then dropped without a word.                    *)
WhatWasSentIsOut == stamped
=============================================================================
