-------------------------- MODULE ApiClientProofs --------------------------
(* What the window keeps straight, for any services, slots and keys, and   *)
(* for any number of presses, edits and answers.                           *)
EXTENDS ApiClient, SequenceTheorems, TLAPS

(* What the queue may hold: the last sets of the chain.                    *)
Rests == {SubSeq(LoadAll, i, Len(LoadAll)) : i \in 1..Len(LoadAll) + 1}

(* What each kind of dialog says of the call it is about.                  *)
Dialogs ==
  [kind : {"question"}, op : Destructive]
  \cup [kind : {"refused"}, stop : BOOLEAN]
  \cup [kind : {"failed"}, op : Operations, origin : Addresses,
         answered : BOOLEAN]
  \cup [kind : {"skew"}]

CallOK ==
  Busy => /\ inflight.op \in Operations /\ inflight.origin \in Addresses
          /\ inflight.key \in Keys \cup {Nothing}

(* TypeOK, and the types it leaves to the invariants.                      *)
Types ==
  /\ box \in Boxes /\ selected \in Forms
  /\ key \in [KeyForms -> PathTexts] /\ DOMAIN body = Fields
  /\ CallOK /\ stamped \in BOOLEAN
  /\ queued \in Rests /\ timers \in Nat /\ loaded \subseteq Sets
  /\ checked \subseteq Addresses /\ fetching \in Addresses \cup {NoAddress}
  /\ verdicts \in [Addresses -> {"none", "matches", "differs", "unchecked"}]
  /\ dialogs \in Seq(Dialogs)

-----------------------------------------------------------------------------
(* Operators.                                                              *)

(* Short sequences, by their elements.                                     *)
LEMMA ShortSequences ==
  ASSUME NEW S, NEW t \in Seq(S)
  PROVE  /\ Len(t) = 1 => t = <<t[1]>>
         /\ Len(t) = 2 => t = <<t[1], t[2]>>
         /\ Len(t) = 3 => t = <<t[1], t[2], t[3]>>
  <1>1. t = [i \in 1 .. Len(t) |-> t[i]]
    OBVIOUS
  <1>2. CASE Len(t) = 1
    <2>1. t = [i \in 1 .. 1 |-> t[i]]
      BY <1>1, <1>2
    <2>2. <<t[1]>> = [i \in 1 .. 1 |-> t[i]]
      OBVIOUS
    <2> QED
      BY <1>2, <2>1, <2>2
  <1>3. CASE Len(t) = 2
    <2>1. t = [i \in 1 .. 2 |-> t[i]]
      BY <1>1, <1>3
    <2>2. <<t[1], t[2]>> = [i \in 1 .. 2 |-> t[i]]
      OBVIOUS
    <2> QED
      BY <1>3, <2>1, <2>2
  <1>4. CASE Len(t) = 3
    <2>1. t = [i \in 1 .. 3 |-> t[i]]
      BY <1>1, <1>4
    <2>2. <<t[1], t[2], t[3]>> = [i \in 1 .. 3 |-> t[i]]
      OBVIOUS
    <2> QED
      BY <1>4, <2>1, <2>2
  <1> QED
    BY <1>2, <1>3, <1>4

LEMMA LoadAllIs ==
  /\ LoadAll = <<Modes, Icons, Bitmaps>>
  /\ Sets = {Modes, Icons, Bitmaps}
  <1>1. ASSUME NEW a, NEW b, NEW c PROVE <<a, b>> \o <<c>> = <<a, b, c>>
    <2> DEFINE S == {a, b, c}
               t == <<a, b>> \o <<c>>
    <2>1. <<a, b>> \in Seq(S) /\ <<c>> \in Seq(S)
      OBVIOUS
    <2>2. /\ t \in Seq(S) /\ Len(t) = 3
          /\ \A i \in 1 .. 3 : t[i] = IF i <= 2 THEN <<a, b>>[i] ELSE <<c>>[i - 2]
      BY <2>1, ConcatProperties
    <2>3. t[1] = a /\ t[2] = b /\ t[3] = c
      BY <2>2
    <2>4. t = <<t[1], t[2], t[3]>>
      BY <2>2, ShortSequences
    <2> QED
      BY <2>3, <2>4
  <1>2. LoadAll = <<Modes, Icons, Bitmaps>>
    BY <1>1 DEF LoadAll, Loaders, Drawers
  <1>3. DOMAIN LoadAll = {1, 2, 3}
    BY <1>2
  <1>4. LoadAll[1] = Modes /\ LoadAll[2] = Icons /\ LoadAll[3] = Bitmaps
    BY <1>2
  <1> QED
    BY <1>2, <1>3, <1>4 DEF Sets

LEMMA RestsAre ==
  Rests = {<<Modes, Icons, Bitmaps>>, <<Icons, Bitmaps>>, <<Bitmaps>>, <<>>}
  <1>1. Len(LoadAll) = 3
    BY LoadAllIs
  <1>2. 1..Len(LoadAll) + 1 = {1, 2, 3, 4}
    BY <1>1
  <1>3. /\ SubSeq(<<Modes, Icons, Bitmaps>>, 1, 3) = <<Modes, Icons, Bitmaps>>
        /\ SubSeq(<<Modes, Icons, Bitmaps>>, 2, 3) = <<Icons, Bitmaps>>
        /\ SubSeq(<<Modes, Icons, Bitmaps>>, 3, 3) = <<Bitmaps>>
        /\ SubSeq(<<Modes, Icons, Bitmaps>>, 4, 3) = <<>>
    <2> DEFINE t == <<Modes, Icons, Bitmaps>>
    <2>1. t \in Seq(Sets) /\ Len(t) = 3
      BY LoadAllIs
    <2>2. ASSUME NEW m \in 1 .. 4
          PROVE  /\ SubSeq(t, m, 3) \in Seq(Sets)
                 /\ Len(SubSeq(t, m, 3)) = 4 - m
                 /\ \A i \in 1 .. 4 - m : SubSeq(t, m, 3)[i] = t[m + i - 1]
      <3>1. \A i \in m .. 3 : t[i] \in Sets
        BY <2>1
      <3> QED
        BY <3>1, SubSeqProperties
    <2>3. SubSeq(t, 1, 3) = t
      BY <2>1, <2>2, SubSeqFull
    <2>4. SubSeq(t, 2, 3) = <<t[2], t[3]>>
      <3> DEFINE u == SubSeq(t, 2, 3)
      <3>1. u \in Seq(Sets) /\ Len(u) = 2 /\ u[1] = t[2] /\ u[2] = t[3]
        BY <2>2
      <3>2. u = <<u[1], u[2]>>
        BY <3>1, ShortSequences
      <3> QED
        BY <3>1, <3>2
    <2>5. SubSeq(t, 3, 3) = <<t[3]>>
      <3> DEFINE u == SubSeq(t, 3, 3)
      <3>1. u \in Seq(Sets) /\ Len(u) = 1 /\ u[1] = t[3]
        BY <2>2
      <3>2. u = <<u[1]>>
        BY <3>1, ShortSequences
      <3> QED
        BY <3>1, <3>2
    <2>6. SubSeq(t, 4, 3) = <<>>
      BY <2>1, <2>2
    <2> QED
      BY <2>3, <2>4, <2>5, <2>6
  <1> QED
    BY <1>1, <1>2, <1>3, LoadAllIs DEF Rests

(* Taking the next set leaves the others, and each only once.              *)
LEMMA TakingOne ==
  ASSUME NEW q \in Rests, q # <<>>
  PROVE  /\ Tail(q) \in Rests /\ Head(q) \in Sets
         /\ {Tail(q)[i] : i \in DOMAIN Tail(q)} =
              {q[i] : i \in DOMAIN q} \ {Head(q)}
  <1>1. CASE q = <<Modes, Icons, Bitmaps>>
    <2>1. Tail(q) = <<Icons, Bitmaps>> /\ Head(q) = Modes
      BY <1>1
    <2> QED
      BY <1>1, <2>1, RestsAre, LoadAllIs DEF Modes, Icons, Bitmaps
  <1>2. CASE q = <<Icons, Bitmaps>>
    <2>1. Tail(q) = <<Bitmaps>> /\ Head(q) = Icons
      BY <1>2
    <2> QED
      BY <1>2, <2>1, RestsAre, LoadAllIs DEF Modes, Icons, Bitmaps
  <1>3. CASE q = <<Bitmaps>>
    <2>1. Tail(q) = <<>> /\ Head(q) = Bitmaps
      BY <1>3
    <2> QED
      BY <1>3, <2>1, RestsAre, LoadAllIs DEF Modes, Icons, Bitmaps
  <1> QED
    BY <1>1, <1>2, <1>3, RestsAre

-----------------------------------------------------------------------------
(* Dialogs, and the calls they stand for.                                  *)

LEMMA TypesAreTypeOK == Types => TypeOK
  BY DEF Types, TypeOK, CallOK, Calls, Rests

LEMMA DialogsSay ==
  ASSUME NEW d \in Dialogs
  PROVE  /\ d.kind = "question" => d.op \in Destructive
         /\ d.kind = "failed" => d.op \in Operations /\ d.origin \in Addresses
  BY DEF Dialogs

LEMMA Opening ==
  ASSUME NEW ds \in Seq(Dialogs), NEW d \in Dialogs
  PROVE  /\ Append(ds, d) \in Seq(Dialogs)
         /\ Len(Append(ds, d)) = Len(ds) + 1
         /\ \A i \in 1 .. Len(ds) : Append(ds, d)[i] = ds[i]
         /\ Append(ds, d)[Len(ds) + 1] = d
  OBVIOUS

LEMMA Closing ==
  ASSUME dialogs \in Seq(Dialogs), dialogs # <<>>
  PROVE  /\ Len(dialogs) \in Nat \ {0}
         /\ Top \in Dialogs
         /\ Popped \in Seq(Dialogs)
         /\ Len(Popped) = Len(dialogs) - 1
         /\ \A i \in 1 .. Len(dialogs) - 1 : Popped[i] = dialogs[i]
  <1>1. Len(dialogs) \in Nat \ {0}
    OBVIOUS
  <1>2. \A i \in 1 .. Len(dialogs) : dialogs[i] \in Dialogs
    OBVIOUS
  <1>3. \A i \in 1 .. Len(dialogs) - 1 : dialogs[i] \in Dialogs
    BY <1>1, <1>2
  <1>4. /\ Popped \in Seq(Dialogs)
        /\ Len(Popped) = IF 1 <= Len(dialogs) - 1 THEN Len(dialogs) - 1 - 1 + 1 ELSE 0
        /\ \A i \in 1 .. Len(dialogs) - 1 - 1 + 1 : Popped[i] = dialogs[1 + i - 1]
    <2> DEFINE n == Len(dialogs) - 1
    <2>1. n \in Int /\ \A i \in 1 .. n : dialogs[i] \in Dialogs
      BY <1>1, <1>3
    <2> HIDE DEF n
    <2>2. /\ SubSeq(dialogs, 1, n) \in Seq(Dialogs)
          /\ Len(SubSeq(dialogs, 1, n)) = IF 1 <= n THEN n - 1 + 1 ELSE 0
          /\ \A i \in 1 .. n - 1 + 1 : SubSeq(dialogs, 1, n)[i] = dialogs[1 + i - 1]
      BY <2>1, SubSeqProperties
    <2> QED
      BY <2>2 DEF n, Popped
  <1>5. \A i \in 1 .. Len(dialogs) - 1 : Popped[i] = dialogs[i]
    BY <1>1, <1>4
  <1>6. Len(Popped) = Len(dialogs) - 1
    <2>1. \A n \in Nat \ {0} :
            (IF 1 <= n - 1 THEN n - 1 - 1 + 1 ELSE 0) = n - 1
      OBVIOUS
    <2> QED
      BY <1>1, <1>4, <2>1
  <1>7. Top \in Dialogs
    BY <1>1, <1>2 DEF Top
  <1> QED
    BY <1>1, <1>4, <1>5, <1>6, <1>7

LEMMA RefusalsAreDialogs ==
  ASSUME NEW stop \in BOOLEAN
  PROVE  Refusal(stop) \in Dialogs
  BY DEF Refusal, Dialogs

LEMMA RequestsAreCalls ==
  ASSUME box \in Boxes, NEW op \in Operations, NEW text \in PathTexts,
         CanForm(op, text)
  PROVE  LET r == Request(op, text)
         IN /\ r # NoCall
            /\ r.op = op /\ r.origin = Here /\ Here \in Addresses
            /\ r.key \in Keys \cup {Nothing}
            /\ op \in TakesKey => r.key = text.key
  <1>1. Here \in Addresses
    BY ClientAssumption DEF Here, CanForm
  <1>2. Strip(text).key = text.key /\ text.key \in Keys \cup {Nothing}
    BY DEF Strip, PathTexts
  <1>3. op # Nothing
    BY LoadAllIs
    DEF Operations, Forms, TakesKey, Destructive, Nothing, Modes, Icons, Bitmaps
  <1>4. NoCall.op = Nothing /\ Request(op, text).op = op
    BY DEF NoCall, Request
  <1> QED
    BY <1>1, <1>2, <1>3, <1>4 DEF Request

(* A call goes out only where none is, and it is one that can be made.     *)
LEMMA Going ==
  ASSUME Types, NEW op \in Operations, NEW text \in PathTexts,
         CanForm(op, text), Goes(op, text)
  PROVE  CallOK' /\ stamped' \in BOOLEAN /\ Busy'
  <1>1. CASE Busy
    BY <1>1 DEF Goes, CallOK, Busy, Types, NoCall
  <1>2. CASE ~Busy
    <2>1. inflight' = Request(op, text) /\ stamped' = TRUE
      BY <1>2 DEF Goes
    <2> QED
      BY <2>1, RequestsAreCalls DEF CallOK, Busy, Types, NoCall
  <1> QED
    BY <1>1, <1>2

LEMMA Running ==
  ASSUME Types, NEW op \in Operations, NEW text \in PathTexts,
         NEW stop \in BOOLEAN, RunNow(op, text, stop)
  PROVE  CallOK' /\ stamped' \in BOOLEAN /\ dialogs' \in Seq(Dialogs)
  <1>1. CASE CanForm(op, text)
    BY <1>1, Going DEF RunNow, Types
  <1>2. CASE ~CanForm(op, text)
    BY <1>2, Opening, RefusalsAreDialogs
    DEF RunNow, Open, call, Types, CallOK, Busy, NoCall
  <1> QED
    BY <1>1, <1>2

LEMMA TextsArePathTexts ==
  /\ Empty \in PathTexts
  /\ Types => \A f \in Forms : TextFor(f) \in PathTexts
  BY DEF Empty, PathTexts, Types, TextFor, KeyForms

-----------------------------------------------------------------------------
(* Types.                                                                  *)

LEMMA InitialTypes == Init => Types
  <1> SUFFICES ASSUME Init PROVE Types
    OBVIOUS
  <1>1. queued \in Rests /\ dialogs \in Seq(Dialogs)
    BY RestsAre DEF Init
  <1>2. "put_slot" \in Forms /\ DOMAIN body = Fields
    BY DEF Init, Forms, TakesKey
  <1> QED
    BY <1>1, <1>2, ClientAssumption, TextsArePathTexts
    DEF Init, Types, CallOK, Busy

LEMMA SendingKeepsTypes ==
  ASSUME Types, Sending
  PROVE  Types'
  <1> USE DEF Types
  <1>1. CASE PressSend
    <2>1. key' \in [KeyForms -> PathTexts]
      BY <1>1 DEF PressSend, Trimmed, Strip, PathTexts
    <2>2. selected \in Operations /\ TextFor(selected) \in PathTexts
      BY TextsArePathTexts DEF Operations
    <2>3. CallOK' /\ stamped' \in BOOLEAN /\ dialogs' \in Seq(Dialogs)
      <3>1. CASE selected \in Destructive
        <4>1. [kind |-> "question", op |-> selected] \in Dialogs
          BY <3>1 DEF Dialogs
        <4> QED
          BY <1>1, <3>1, <4>1, Opening
          DEF PressSend, Open, call, CallOK, Busy, NoCall
      <3>2. CASE selected \notin Destructive
        BY <1>1, <2>2, <3>2, Running DEF PressSend
      <3> QED
        BY <3>1, <3>2
    <2> QED
      BY <1>1, <2>1, <2>3 DEF PressSend, surface, chain
  <1>2. CASE PressLoadAll
    <2>1. Head(LoadAll) \in Operations
      BY LoadAllIs DEF Operations
    <2>2. queued' \in Rests
      <3>1. LoadAll \in Rests /\ LoadAll # <<>>
        BY LoadAllIs, RestsAre
      <3> QED
        BY <1>2, <3>1, TakingOne DEF PressLoadAll
    <2>3. CallOK' /\ stamped' \in BOOLEAN /\ dialogs' \in Seq(Dialogs)
      BY <1>2, <2>1, TextsArePathTexts, Running DEF PressLoadAll
    <2> QED
      BY <1>2, <2>2, <2>3 DEF PressLoadAll, form, surface
  <1>3. CASE PressLoadFromSign
    <2>1. "get_slot" \in Operations /\ key["put_slot"] \in PathTexts
      BY DEF Operations, Forms, TakesKey, KeyForms
    <2>2. CallOK' /\ stamped' \in BOOLEAN /\ dialogs' \in Seq(Dialogs)
      BY <1>3, <2>1, Running DEF PressLoadFromSign
    <2> QED
      BY <1>3, <2>2 DEF PressLoadFromSign, form, surface, chain
  <1>4. CASE PressLoadKeys("list_slots")
    <2>1. "list_slots" \in Operations
      BY DEF Operations, Forms
    <2>2. CallOK' /\ stamped' \in BOOLEAN /\ dialogs' \in Seq(Dialogs)
      BY <1>4, <2>1, TextsArePathTexts, Running DEF PressLoadKeys
    <2> QED
      BY <1>4, <2>2 DEF PressLoadKeys, form, surface, chain
  <1>5. ASSUME NEW op \in Sets, PressLoad(op)
        PROVE  Types'
    <2>1. op \in Operations
      BY DEF Operations
    <2>2. CallOK' /\ stamped' \in BOOLEAN /\ dialogs' \in Seq(Dialogs)
      BY <1>5, <2>1, TextsArePathTexts, Running DEF PressLoad
    <2> QED
      BY <1>5, <2>2 DEF PressLoad, form, surface, chain
  <1> QED
    BY <1>1, <1>2, <1>3, <1>4, <1>5 DEF Sending

LEMMA TheTimerKeepsTypes ==
  ASSUME Types, SendNextQueued
  PROVE  Types'
  <1> USE DEF Types
  <1>1. timers' \in Nat
    BY DEF SendNextQueued
  <1>2. CASE queued = <<>> \/ Busy
    BY <1>1, <1>2
    DEF SendNextQueued, form, surface, call, CallOK, Busy, NoCall
  <1>3. CASE queued # <<>> /\ ~Busy
    <2>1. queued' \in Rests /\ Head(queued) \in Operations
      BY <1>3, TakingOne DEF SendNextQueued, Operations
    <2>2. CallOK' /\ stamped' \in BOOLEAN /\ dialogs' \in Seq(Dialogs)
      BY <1>3, <2>1, TextsArePathTexts, Running DEF SendNextQueued
    <2> QED
      BY <1>1, <2>1, <2>2 DEF SendNextQueued, form, surface
  <1> QED
    BY <1>2, <1>3

LEMMA DescribingKeepsTypes ==
  ASSUME Types, Describing
  PROVE  Types'
  <1> USE DEF Types
  <1>0. [kind |-> "skew"] \in Dialogs
    BY DEF Dialogs
  <1>1. CASE DescriptionFails
    BY <1>1
    DEF DescriptionFails, FetchEnds, form, chain, call, CallOK, Busy, NoCall
  <1>2. CASE DescriptionUnreadable
    BY <1>2
    DEF DescriptionUnreadable, FetchEnds, form, chain, call, CallOK, Busy, NoCall
  <1>3. ASSUME NEW d \in Described, DescriptionArrives(d)
        PROVE  Types'
    <2>1. dialogs' \in Seq(Dialogs)
      BY <1>0, <1>3, Opening DEF DescriptionArrives, Open
    <2> QED
      BY <1>3, <2>1
      DEF DescriptionArrives, FetchEnds, form, chain, call, CallOK, Busy, NoCall
  <1> QED
    BY <1>1, <1>2, <1>3 DEF Describing

LEMMA CheckingKeepsTypes ==
  ASSUME Types, NEW a \in Addresses, CheckSurface(a)
  PROVE  /\ checked' \subseteq Addresses
         /\ fetching' \in Addresses \cup {NoAddress}
  BY DEF CheckSurface, Types

LEMMA DrainingKeepsTypes ==
  ASSUME Types, NEW taken \in BOOLEAN, Drained(taken)
  PROVE  queued' \in Rests /\ timers' \in Nat
  BY RestsAre DEF Drained, Types, chain

LEMMA CompletingKeepsTypes ==
  ASSUME Types, NEW reply \in Replies(inflight.op),
         CompletedQuietly(reply) \/ CompletedWithADialog(reply)
  PROVE  Types'
  <1> USE DEF Types
  <1>1. Arrives(reply)
    BY DEF CompletedQuietly, CompletedWithADialog
  <1>2. inflight.op \in Operations /\ inflight.origin \in Addresses
    BY <1>1 DEF Arrives, CallOK
  <1>3. CallOK' /\ stamped' \in BOOLEAN
    BY <1>1 DEF Arrives, CallOK, Busy, NoCall
  <1>4. CASE CompletedQuietly(reply)
    <2>1. loaded' \subseteq Sets
      BY <1>4 DEF CompletedQuietly, Load
    <2>2. DOMAIN body' = Fields
      <3>1. CASE inflight.op = "get_slot"
        BY <1>4, <3>1 DEF CompletedQuietly, Filled, FillFrom
      <3>2. CASE inflight.op # "get_slot"
        BY <1>4, <3>2 DEF CompletedQuietly, Refreshed
      <3> QED
        BY <3>1, <3>2
    <2>3. key' \in [KeyForms -> PathTexts]
      <3>1. \A text \in PathTexts : \A listed :
              OfferKeys(text, listed) \in PathTexts
        BY DEF OfferKeys, Strip, Empty, PathTexts
      <3>2. Offered(inflight, reply)
        BY <1>4 DEF CompletedQuietly
      <3>3. CASE OffersKeys(inflight, reply)
        BY <3>1, <3>2, <3>3 DEF Offered
      <3>4. CASE ~OffersKeys(inflight, reply)
        BY <3>2, <3>4 DEF Offered
      <3> QED
        BY <3>3, <3>4
    <2>4. /\ queued' \in Rests /\ timers' \in Nat
          /\ checked' \subseteq Addresses
          /\ fetching' \in Addresses \cup {NoAddress}
      BY <1>2, <1>4, CheckingKeepsTypes, DrainingKeepsTypes
      DEF CompletedQuietly, Finished
    <2> QED
      BY <1>1, <1>3, <1>4, <2>1, <2>2, <2>3, <2>4 DEF CompletedQuietly, Arrives
  <1>5. CASE CompletedWithADialog(reply)
    <2> DEFINE d == [kind |-> "failed", op |-> inflight.op,
                     origin |-> inflight.origin, answered |-> reply.status # 0]
    <2>1. d \in Dialogs
      BY <1>2 DEF Dialogs
    <2>2. dialogs' \in Seq(Dialogs)
      BY <1>5, <2>1, Opening DEF CompletedWithADialog, Open
    <2> QED
      BY <1>1, <1>3, <1>5, <2>2
      DEF CompletedWithADialog, Arrives, form, chain
  <1> QED
    BY <1>4, <1>5

LEMMA AnsweringKeepsTypes ==
  ASSUME Types, Answering
  PROVE  Types'
  <1> USE DEF Types
  <1>1. dialogs # <<>>
    BY DEF Answering, AnswerYes, AnswerNo, CloseRefusal, CloseFailure, CloseSkew,
           Closes, Asked
  <1>2. Popped \in Seq(Dialogs) /\ Top \in Dialogs
    BY <1>1, Closing
  <1>3. CASE AnswerYes
    <2>1. Top.op \in Operations
      BY <1>2, <1>3, DialogsSay DEF AnswerYes, Asked, Operations, Forms
    <2>2. CASE CanForm(Top.op, Empty)
      BY <1>2, <1>3, <2>1, <2>2, TextsArePathTexts, Going
      DEF AnswerYes, form, surface, chain
    <2>3. CASE ~CanForm(Top.op, Empty)
      <3>1. Append(Popped, Refusal(FALSE)) \in Seq(Dialogs)
        BY <1>2, Opening, RefusalsAreDialogs
      <3> QED
        BY <1>3, <2>3, <3>1
        DEF AnswerYes, form, surface, chain, call, CallOK, Busy, NoCall
    <2> QED
      BY <2>2, <2>3
  <1>4. CASE AnswerNo
    BY <1>2, <1>4
    DEF AnswerNo, Closes, form, surface, chain, call, CallOK, Busy, NoCall
  <1>5. CASE CloseRefusal
    BY <1>2, <1>5, RestsAre
    DEF CloseRefusal, Closes, form, surface, call, CallOK, Busy, NoCall
  <1>6. CASE CloseFailure
    <2>1. Top.origin \in Addresses
      BY <1>2, <1>6, DialogsSay DEF CloseFailure, Closes, Asked
    <2>2. /\ queued' \in Rests /\ timers' \in Nat
          /\ checked' \subseteq Addresses
          /\ fetching' \in Addresses \cup {NoAddress}
      BY <1>6, <2>1, CheckingKeepsTypes, DrainingKeepsTypes
      DEF CloseFailure, Finished
    <2> QED
      BY <1>2, <1>6, <2>2 DEF CloseFailure, Closes, form, call, CallOK, Busy, NoCall
  <1>7. CASE CloseSkew
    BY <1>2, <1>7
    DEF CloseSkew, Closes, form, surface, chain, call, CallOK, Busy, NoCall
  <1> QED
    BY <1>3, <1>4, <1>5, <1>6, <1>7 DEF Answering

LEMMA EditingKeepsTypes ==
  ASSUME Types, Editing
  PROVE  Types'
  <1> USE DEF Types, surface, chain, call, pending, CallOK, Busy, NoCall
  <1>1. ASSUME NEW text \in Boxes, EditBox(text)
        PROVE  Types'
    BY <1>1 DEF EditBox
  <1>2. ASSUME NEW f \in Forms, Select(f)
        PROVE  Types'
    BY <1>2 DEF Select, form
  <1>3. ASSUME NEW text \in TypedKeys, EditKey(text)
        PROVE  Types'
    BY <1>3, ClientAssumption DEF EditKey
  <1>4. ASSUME NEW t \in TypedTexts, EditField(t[1], t[2])
        PROVE  Types'
    BY <1>4 DEF EditField
  <1> QED
    BY <1>1, <1>2, <1>3, <1>4 DEF Editing

LEMMA NextKeepsTypes ==
  ASSUME Types, [Next]_vars
  PROVE  Types'
  <1>1. CASE Completing
    BY <1>1, CompletingKeepsTypes DEF Completing
  <1>2. CASE UNCHANGED vars
    BY <1>2 DEF vars, form, surface, chain, pending, call, Types, CallOK, Busy,
                NoCall
  <1> QED
    BY <1>1, <1>2, SendingKeepsTypes, TheTimerKeepsTypes, DescribingKeepsTypes,
       AnsweringKeepsTypes, EditingKeepsTypes DEF Next

-----------------------------------------------------------------------------
(* The surface of each address.                                            *)

(* AddressesAreAccountedFor, less the types.                               *)
Accounted ==
  /\ \A a \in Addresses : a \in checked <=> (a = fetching \/ verdicts[a] # "none")
  /\ fetching # NoAddress => verdicts[fetching] = "none"

LEMMA CheckingAccounts ==
  ASSUME Types, Accounted, NEW a \in Addresses, CheckSurface(a),
         UNCHANGED verdicts
  PROVE  Accounted'
  BY ClientAssumption DEF CheckSurface, Types, Accounted

LEMMA NextAccounts ==
  ASSUME Types, Accounted, [Next]_vars
  PROVE  Accounted'
  <1>1. CASE UNCHANGED surface
    BY <1>1 DEF surface, Accounted
  <1>2. CASE Sending
    <2>1. UNCHANGED surface
      BY <1>2 DEF Sending, PressSend, PressLoadAll, PressLoadFromSign,
                  PressLoadKeys, PressLoad
    <2> QED
      BY <1>1, <2>1
  <1>3. CASE SendNextQueued
    BY <1>1, <1>3 DEF SendNextQueued
  <1>4. CASE DescriptionFails
    BY <1>4, ClientAssumption
    DEF DescriptionFails, FetchEnds, Types, Accounted
  <1>5. CASE DescriptionUnreadable
    BY <1>5, ClientAssumption
    DEF DescriptionUnreadable, FetchEnds, Types, Accounted
  <1>6. ASSUME NEW d \in Described, DescriptionArrives(d)
        PROVE  Accounted'
    BY <1>6, ClientAssumption
    DEF DescriptionArrives, FetchEnds, Types, Accounted
  <1>7. ASSUME NEW reply \in Replies(inflight.op), CompletedQuietly(reply)
        PROVE  Accounted'
    <2>1. inflight.origin \in Addresses
      BY <1>7 DEF CompletedQuietly, Arrives, Types, CallOK
    <2> QED
      BY <1>7, <2>1, CheckingAccounts DEF CompletedQuietly, Finished, Arrives
  <1>8. ASSUME NEW reply \in Replies(inflight.op), CompletedWithADialog(reply)
        PROVE  Accounted'
    BY <1>8 DEF CompletedWithADialog, Arrives, Accounted
  <1>9. CASE CloseFailure
    <2>1. dialogs # <<>> /\ Top.kind = "failed"
      BY <1>9 DEF CloseFailure, Closes, Asked
    <2>2. Top.origin \in Addresses
      BY <2>1, Closing, DialogsSay DEF Types
    <2>3. CASE Top.answered
      BY <1>9, <2>2, <2>3, CheckingAccounts DEF CloseFailure, Finished
    <2>4. CASE ~Top.answered
      BY <1>9, <2>4 DEF CloseFailure, Finished, Accounted
    <2> QED
      BY <2>3, <2>4
  <1>10. CASE AnswerYes \/ AnswerNo \/ CloseRefusal \/ CloseSkew
    BY <1>1, <1>10 DEF AnswerYes, AnswerNo, CloseRefusal, CloseSkew
  <1>11. CASE Editing
    BY <1>1, <1>11 DEF Editing, EditBox, Select, EditKey, EditField
  <1>12. CASE UNCHANGED vars
    BY <1>1, <1>12 DEF vars
  <1> QED
    BY <1>2, <1>3, <1>4, <1>5, <1>6, <1>7, <1>8, <1>9, <1>10, <1>11, <1>12
    DEF Next, Describing, Completing, Answering

-----------------------------------------------------------------------------
(* The chain, and the history.                                             *)

ChainInv ==
  /\ NothingIsLostFromTheChain
  /\ recorded \in Nat /\ made \in Nat

LEMMA InitialChain == Init => ChainInv
  <1> SUFFICES ASSUME Init PROVE ChainInv
    OBVIOUS
  <1>1. {queued[i] : i \in DOMAIN queued} = {} /\ left = {}
    BY DEF Init
  <1> QED
    BY <1>1 DEF Init, ChainInv, NothingIsLostFromTheChain, Busy

\* A call handed over is one more to be recorded.
Counted == made = recorded + IF Busy THEN 1 ELSE 0

LEMMA GoingCounts ==
  ASSUME Types, ChainInv, NEW op \in Operations, NEW text \in PathTexts,
         CanForm(op, text), Goes(op, text), UNCHANGED recorded
  PROVE  Counted' /\ made' \in Nat
  <1>1. Busy'
    BY Going
  <1>2. CASE Busy
    BY <1>1, <1>2 DEF Goes, ChainInv, NothingIsLostFromTheChain, Counted
  <1>3. CASE ~Busy
    BY <1>1, <1>3 DEF Goes, ChainInv, NothingIsLostFromTheChain, Counted
  <1> QED
    BY <1>2, <1>3

LEMMA RunningCounts ==
  ASSUME Types, ChainInv, NEW op \in Operations, NEW text \in PathTexts,
         NEW stop, RunNow(op, text, stop), UNCHANGED recorded
  PROVE  Counted' /\ made' \in Nat
  <1>1. CASE CanForm(op, text)
    BY <1>1, GoingCounts DEF RunNow
  <1>2. CASE ~CanForm(op, text)
    BY <1>2 DEF RunNow, call, ChainInv, NothingIsLostFromTheChain, Counted,
                Busy, NoCall
  <1> QED
    BY <1>1, <1>2

\* The sets that are left, of a queue.
Queue(q) == {q[i] : i \in DOMAIN q}

LEMMA ChainFromItsParts ==
  ASSUME left' = Queue(queued'), Counted', made' \in Nat, recorded' \in Nat
  PROVE  ChainInv'
  BY DEF ChainInv, NothingIsLostFromTheChain, Queue, Counted

LEMMA ChainHasItsParts ==
  ASSUME ChainInv
  PROVE  left = Queue(queued) /\ Counted /\ made \in Nat /\ recorded \in Nat
  BY DEF ChainInv, NothingIsLostFromTheChain, Queue, Counted

LEMMA DrainingLosesNothing ==
  ASSUME ChainInv, NEW taken \in BOOLEAN, Drained(taken)
  PROVE  left' = Queue(queued')
  <1>1. Queue(<<>>) = {}
    BY DEF Queue
  <1> QED
    BY <1>1, ChainHasItsParts DEF Drained, chain

LEMMA NextLosesNothing ==
  ASSUME Types, ChainInv, [Next]_vars
  PROVE  ChainInv'
  <1> USE ChainHasItsParts
  <1>0. Queue(<<>>) = {}
    BY DEF Queue
  <1>1. ASSUME UNCHANGED <<queued, left, recorded>>, Counted', made' \in Nat
        PROVE  ChainInv'
    BY <1>1, ChainFromItsParts DEF Queue
  <1>2. ASSUME UNCHANGED <<queued, left, recorded>>, UNCHANGED call
        PROVE  ChainInv'
    BY <1>1, <1>2 DEF call, Counted, Busy, NoCall
  <1>3. CASE PressSend
    <2>1. selected \in Operations /\ TextFor(selected) \in PathTexts
      BY TextsArePathTexts DEF Operations, Types
    <2>2. UNCHANGED <<queued, left, recorded>>
      BY <1>3 DEF PressSend, chain
    <2> QED
      BY <1>1, <1>2, <1>3, <2>1, <2>2, RunningCounts DEF PressSend
  <1>4. CASE PressLoadAll
    <2>1. Head(LoadAll) \in Operations
      BY LoadAllIs DEF Operations
    <2>2. Counted' /\ made' \in Nat /\ UNCHANGED recorded
      BY <1>4, <2>1, TextsArePathTexts, RunningCounts DEF PressLoadAll
    <2>3. LoadAll \in Rests /\ LoadAll # <<>>
      BY LoadAllIs, RestsAre
    <2>4. Sets \ {Head(LoadAll)} = Queue(Tail(LoadAll))
      BY <2>3, TakingOne DEF Sets, Queue
    <2> QED
      BY <1>4, <2>2, <2>4, ChainFromItsParts DEF PressLoadAll
  <1>5. CASE PressLoadFromSign
    <2>1. "get_slot" \in Operations /\ key["put_slot"] \in PathTexts
      BY DEF Operations, Forms, TakesKey, KeyForms, Types
    <2> QED
      BY <1>1, <1>5, <2>1, RunningCounts DEF PressLoadFromSign, chain
  <1>6. CASE PressLoadKeys("list_slots")
    <2>1. "list_slots" \in Operations
      BY DEF Operations, Forms
    <2> QED
      BY <1>1, <1>6, <2>1, TextsArePathTexts, RunningCounts
      DEF PressLoadKeys, chain
  <1>7. ASSUME NEW op \in Sets, PressLoad(op)
        PROVE  ChainInv'
    <2>1. op \in Operations
      BY DEF Operations
    <2> QED
      BY <1>1, <1>7, <2>1, TextsArePathTexts, RunningCounts DEF PressLoad, chain
  <1>8. CASE SendNextQueued
    <2>1. CASE queued = <<>> \/ Busy
      BY <1>2, <1>8, <2>1 DEF SendNextQueued
    <2>2. CASE queued # <<>> /\ ~Busy
      <3>1. /\ Head(queued) \in Operations
            /\ Queue(Tail(queued)) = Queue(queued) \ {Head(queued)}
        BY <2>2, TakingOne DEF Operations, Types, Queue
      <3>2. Counted' /\ made' \in Nat /\ UNCHANGED recorded
        BY <1>8, <2>2, <3>1, TextsArePathTexts, RunningCounts
        DEF SendNextQueued
      <3> QED
        BY <1>8, <2>2, <3>1, <3>2, ChainFromItsParts DEF SendNextQueued
    <2> QED
      BY <2>1, <2>2
  <1>9. CASE Describing
    BY <1>2, <1>9
    DEF Describing, DescriptionFails, DescriptionUnreadable, DescriptionArrives,
        chain
  <1>10. ASSUME NEW reply \in Replies(inflight.op),
                CompletedQuietly(reply) \/ CompletedWithADialog(reply)
         PROVE  ChainInv'
    <2>1. Arrives(reply)
      BY <1>10 DEF CompletedQuietly, CompletedWithADialog
    <2>2. Counted' /\ made' \in Nat /\ recorded' \in Nat
      BY <2>1 DEF Arrives, Recorded, Counted, Busy, NoCall
    <2>3. left' = Queue(queued')
      BY <1>10, DrainingLosesNothing
      DEF CompletedQuietly, CompletedWithADialog, Finished, chain
    <2> QED
      BY <2>2, <2>3, ChainFromItsParts
  <1>11. CASE AnswerYes
    <2>1. dialogs # <<>> /\ Top.kind = "question"
      BY <1>11 DEF AnswerYes, Asked
    <2>2. Top.op \in Operations
      BY <2>1, Closing, DialogsSay DEF Types, Operations, Forms
    <2>3. CASE CanForm(Top.op, Empty)
      BY <1>1, <1>11, <2>2, <2>3, TextsArePathTexts, GoingCounts
      DEF AnswerYes, chain
    <2>4. CASE ~CanForm(Top.op, Empty)
      BY <1>2, <1>11, <2>4 DEF AnswerYes, chain
    <2> QED
      BY <2>3, <2>4
  <1>12. CASE CloseRefusal
    <2>1. left' = Queue(queued')
      BY <1>0, <1>12 DEF CloseRefusal
    <2> QED
      BY <1>12, <2>1, ChainFromItsParts
      DEF CloseRefusal, call, Counted, Busy, NoCall
  <1>13. CASE CloseFailure
    <2>1. left' = Queue(queued')
      BY <1>13, DrainingLosesNothing DEF CloseFailure, Finished
    <2> QED
      BY <1>13, <2>1, ChainFromItsParts
      DEF CloseFailure, call, Counted, Busy, NoCall
  <1>14. CASE AnswerNo \/ CloseSkew
    BY <1>2, <1>14 DEF AnswerNo, CloseSkew, chain
  <1>15. CASE Editing
    BY <1>2, <1>15 DEF Editing, EditBox, Select, EditKey, EditField, chain
  <1>16. CASE UNCHANGED vars
    BY <1>2, <1>16 DEF vars, chain
  <1> QED
    BY <1>3, <1>4, <1>5, <1>6, <1>7, <1>8, <1>9, <1>10, <1>11, <1>12, <1>13,
       <1>14, <1>15, <1>16
    DEF Next, Sending, Completing, Answering

-----------------------------------------------------------------------------
(* The key asked for.                                                      *)

\* A reading of a slot that failed is being told of.
Telling(ds) ==
  \E i \in 1 .. Len(ds) : ds[i].kind = "failed" /\ ds[i].op = "get_slot"

(* A key is asked for by the call that is out, or by the failure that is   *)
(* being told of; no other reading of a slot is mistaken for the answer.   *)
FillIsAsked ==
  fill # Nothing =>
    /\ (Busy /\ inflight.op = "get_slot") \/ Telling(dialogs)
    /\ Busy /\ inflight.op = "get_slot" => inflight.key = fill

LEMMA OpeningTells ==
  ASSUME Types, NEW d \in Dialogs, Telling(dialogs)
  PROVE  Telling(Append(dialogs, d))
  BY Opening DEF Types, Telling

LEMMA ClosingTells ==
  ASSUME Types, dialogs # <<>>, Telling(dialogs),
         ~(Top.kind = "failed" /\ Top.op = "get_slot")
  PROVE  Telling(Popped)
  <1>1. PICK i \in 1 .. Len(dialogs) :
               dialogs[i].kind = "failed" /\ dialogs[i].op = "get_slot"
    BY DEF Telling
  <1>2. /\ Len(dialogs) \in Nat \ {0} /\ Len(Popped) = Len(dialogs) - 1
        /\ \A j \in 1 .. Len(dialogs) - 1 : Popped[j] = dialogs[j]
    BY Closing DEF Types
  <1>3. i # Len(dialogs)
    BY <1>1 DEF Top
  <1>4. i \in 1 .. Len(dialogs) - 1
    BY <1>2, <1>3
  <1>5. i \in 1 .. Len(Popped) /\ Popped[i] = dialogs[i]
    BY <1>2, <1>4
  <1> QED
    BY <1>1, <1>5 DEF Telling

LEMMA SetsReadNoSlot ==
  \A op \in Sets \cup Destructive : op # "get_slot" /\ op \in Operations
  BY LoadAllIs DEF Modes, Icons, Bitmaps, Destructive, Operations, Forms

(* A call that reads no slot goes out beside the telling of one that did.  *)
LEMMA RunningAsksNothing ==
  ASSUME Types, FillIsAsked, NEW op \in Sets, NEW stop \in BOOLEAN,
         RunNow(op, Empty, stop), UNCHANGED fill
  PROVE  FillIsAsked'
  <1>1. op \in Operations /\ op # "get_slot"
    BY SetsReadNoSlot
  <1>2. CASE CanForm(op, Empty)
    <2>1. CASE Busy
      BY <1>2, <2>1 DEF RunNow, Goes, FillIsAsked, Busy, NoCall
    <2>2. CASE ~Busy
      <3>1. inflight'.op = op /\ UNCHANGED dialogs
        BY <1>1, <1>2, <2>2, TextsArePathTexts, RequestsAreCalls
        DEF RunNow, Goes, Types
      <3> QED
        BY <1>1, <2>2, <3>1 DEF FillIsAsked
    <2> QED
      BY <2>1, <2>2
  <1>3. CASE ~CanForm(op, Empty)
    BY <1>3, OpeningTells, RefusalsAreDialogs
    DEF RunNow, Open, call, FillIsAsked, Busy, NoCall
  <1> QED
    BY <1>2, <1>3

LEMMA NothingAskedAtAPress ==
  ASSUME Types, FillIsAsked, Presses, ~Busy
  PROVE  fill = Nothing
  <1>1. Len(dialogs) = 0
    BY DEF Presses
  <1> QED
    BY <1>1 DEF FillIsAsked, Telling

LEMMA NextAsks ==
  ASSUME Types, FillIsAsked, [Next]_vars
  PROVE  FillIsAsked'
  <1>1. ASSUME UNCHANGED <<fill, inflight, dialogs>>
        PROVE  FillIsAsked'
    BY <1>1 DEF FillIsAsked, Busy, NoCall
  <1>2. ASSUME fill' = Nothing
        PROVE  FillIsAsked'
    BY <1>2 DEF FillIsAsked
  <1>3. CASE PressSend \/ PressLoadAll \/ PressLoadKeys("list_slots")
    <2>1. fill' = fill /\ Presses /\ ~Busy
      BY <1>3 DEF PressSend, PressLoadAll, PressLoadKeys, pending
    <2> QED
      BY <1>2, <2>1, NothingAskedAtAPress
  <1>4. ASSUME NEW op \in Sets, PressLoad(op)
        PROVE  FillIsAsked'
    BY <1>2, <1>4, NothingAskedAtAPress DEF PressLoad, pending
  <1>5. CASE PressLoadFromSign
    <2> DEFINE text == key["put_slot"]
    <2>1. "get_slot" \in Operations /\ "get_slot" \in TakesKey /\ text \in PathTexts
      BY DEF Operations, Forms, TakesKey, KeyForms, Types
    <2>2. CASE CanForm("get_slot", text)
      <3>1. /\ Request("get_slot", text) # NoCall
            /\ Request("get_slot", text).op = "get_slot"
            /\ Request("get_slot", text).key = text.key
        BY <2>1, <2>2, RequestsAreCalls DEF Types
      <3>2. inflight' = Request("get_slot", text) /\ fill' = text.key
        BY <1>5, <2>2 DEF PressLoadFromSign, RunNow, Goes
      <3> QED
        BY <3>1, <3>2 DEF FillIsAsked, Busy, NoCall
    <2>3. CASE ~CanForm("get_slot", text)
      BY <1>2, <1>5, <2>3, NothingAskedAtAPress DEF PressLoadFromSign
    <2> QED
      BY <2>2, <2>3
  <1>6. CASE SendNextQueued
    <2>1. CASE queued = <<>> \/ Busy
      BY <1>1, <1>6, <2>1 DEF SendNextQueued, pending, call
    <2>2. CASE queued # <<>> /\ ~Busy
      <3>1. Head(queued) \in Sets
        BY <2>2, TakingOne DEF Types
      <3> QED
        BY <1>6, <2>2, <3>1, RunningAsksNothing DEF SendNextQueued, pending
    <2> QED
      BY <2>1, <2>2
  <1>7. CASE DescriptionFails \/ DescriptionUnreadable
    BY <1>1, <1>7 DEF DescriptionFails, DescriptionUnreadable, pending, call
  <1>8. ASSUME NEW d \in Described, DescriptionArrives(d)
        PROVE  FillIsAsked'
    <2>1. [kind |-> "skew"] \in Dialogs
      BY DEF Dialogs
    <2>2. UNCHANGED <<fill, inflight>>
      BY <1>8 DEF DescriptionArrives, pending, call
    <2>3. dialogs' = dialogs \/ dialogs' = Append(dialogs, [kind |-> "skew"])
      BY <1>8 DEF DescriptionArrives, Open
    <2>4. Telling(dialogs) => Telling(dialogs')
      BY <2>1, <2>3, OpeningTells
    <2> QED
      BY <2>2, <2>4 DEF FillIsAsked, Busy, NoCall
  <1>9. ASSUME NEW reply \in Replies(inflight.op), CompletedQuietly(reply)
        PROVE  FillIsAsked'
    <2>1. CASE inflight.op = "get_slot"
      BY <1>2, <1>9, <2>1 DEF CompletedQuietly, Finished
    <2>2. CASE inflight.op # "get_slot"
      BY <1>9, <2>2
      DEF CompletedQuietly, Finished, Arrives, FillIsAsked, Busy, NoCall
    <2> QED
      BY <2>1, <2>2
  <1>10. ASSUME NEW reply \in Replies(inflight.op), CompletedWithADialog(reply)
         PROVE  FillIsAsked'
    <2> DEFINE d == [kind |-> "failed", op |-> inflight.op,
                     origin |-> inflight.origin, answered |-> reply.status # 0]
    <2>1. d \in Dialogs
      BY <1>10 DEF Dialogs, CompletedWithADialog, Arrives, Types, CallOK
    <2>2. dialogs' = Append(dialogs, d) /\ UNCHANGED fill /\ ~Busy'
      BY <1>10 DEF CompletedWithADialog, Arrives, Open, pending, Busy, NoCall
    <2>3. inflight.op = "get_slot" => Telling(dialogs')
      <3>1. /\ Len(dialogs') = Len(dialogs) + 1
            /\ dialogs'[Len(dialogs) + 1] = d
            /\ Len(dialogs) \in Nat
        BY <2>1, <2>2, Opening DEF Types
      <3>2. Len(dialogs) + 1 \in 1 .. Len(dialogs')
        BY <3>1
      <3> QED
        BY <3>1, <3>2 DEF Telling
    <2>4. Telling(dialogs) => Telling(dialogs')
      BY <2>1, <2>2, OpeningTells
    <2> QED
      BY <2>2, <2>3, <2>4 DEF FillIsAsked
  <1>11. ASSUME dialogs # <<>>, dialogs' = Popped, UNCHANGED <<fill, inflight>>,
                ~(Top.kind = "failed" /\ Top.op = "get_slot")
         PROVE  FillIsAsked'
    BY <1>11, ClosingTells DEF FillIsAsked, Busy, NoCall
  <1>12. CASE AnswerNo \/ CloseRefusal \/ CloseSkew
    <2>1. /\ dialogs # <<>> /\ dialogs' = Popped /\ UNCHANGED <<fill, inflight>>
          /\ Top.kind # "failed"
      BY <1>12
      DEF AnswerNo, CloseRefusal, CloseSkew, Closes, Asked, pending, call
    <2> QED
      BY <1>11, <2>1
  <1>13. CASE CloseFailure
    <2>1. CASE Top.op = "get_slot"
      BY <1>2, <1>13, <2>1 DEF CloseFailure, Finished
    <2>2. CASE Top.op # "get_slot"
      BY <1>11, <1>13, <2>2 DEF CloseFailure, Closes, Asked, Finished, call
    <2> QED
      BY <2>1, <2>2
  <1>14. CASE AnswerYes
    <2>1. dialogs # <<>> /\ Top.kind = "question" /\ UNCHANGED fill
      BY <1>14 DEF AnswerYes, Asked, pending
    <2>2. Top.op \in Destructive
      BY <2>1, Closing, DialogsSay DEF Types
    <2>3. Telling(dialogs) => Telling(Popped)
      BY <2>1, ClosingTells
    <2>4. CASE CanForm(Top.op, Empty)
      <3>1. CASE Busy
        BY <1>14, <2>1, <2>3, <2>4, <3>1
        DEF AnswerYes, Goes, FillIsAsked, Busy, NoCall
      <3>2. CASE ~Busy
        <4>1. inflight'.op = Top.op /\ dialogs' = Popped
          BY <1>14, <2>2, <2>4, <3>2, TextsArePathTexts, RequestsAreCalls,
             SetsReadNoSlot DEF AnswerYes, Goes, Types
        <4> QED
          BY <2>1, <2>2, <2>3, <3>2, <4>1, SetsReadNoSlot DEF FillIsAsked
      <3> QED
        BY <3>1, <3>2
    <2>5. CASE ~CanForm(Top.op, Empty)
      <3>1. /\ dialogs' = Append(Popped, Refusal(FALSE)) /\ UNCHANGED inflight
        BY <1>14, <2>5 DEF AnswerYes, call
      <3>2. Telling(Popped) => Telling(dialogs')
        <4>1. Popped \in Seq(Dialogs) /\ Refusal(FALSE) \in Dialogs
          BY <2>1, Closing, RefusalsAreDialogs DEF Types
        <4>2. /\ Len(dialogs') = Len(Popped) + 1 /\ Len(Popped) \in Nat
              /\ \A i \in 1 .. Len(Popped) : dialogs'[i] = Popped[i]
          BY <3>1, <4>1, Opening
        <4>3. \A i \in 1 .. Len(Popped) : i \in 1 .. Len(dialogs')
          BY <4>2
        <4> QED
          BY <4>2, <4>3 DEF Telling
      <3> QED
        BY <2>1, <2>3, <3>1, <3>2 DEF FillIsAsked, Busy, NoCall
    <2> QED
      BY <2>4, <2>5
  <1>15. CASE Editing
    BY <1>1, <1>15
    DEF Editing, EditBox, Select, EditKey, EditField, pending, call
  <1>16. CASE UNCHANGED vars
    BY <1>1, <1>16 DEF vars, pending, call
  <1> QED
    BY <1>3, <1>4, <1>5, <1>6, <1>7, <1>8, <1>9, <1>10, <1>12, <1>13, <1>14,
       <1>15, <1>16
    DEF Next, Sending, Describing, Completing, Answering

-----------------------------------------------------------------------------
(* What the forms hold.                                                    *)

\* What a field is read from in a slot.
ReadFrom(f) == IF f = "ttl_seconds" THEN "expires_at" ELSE f

\* The text in a box against what was meant by it.
Holds(f, text, m) ==
  IF m[1] = "typed" THEN text = m[2]
  ELSE IF m[2] \in {Null, <<"past">>} THEN text = ""
  ELSE \/ text # "" /\ Coerce(Kind(f), text) = m[2]
       \/ text = "" /\ Required(f) /\ m[2] = <<"text", "">>

FormInv ==
  /\ DOMAIN meant = Fields /\ DOMAIN typed = KeyForms
  /\ \A f \in Fields : Holds(f, body[f], meant[f])
  /\ \A f \in KeyForms : key[f].key \in {Nothing, typed[f]}
  /\ source # Unread =>
       source.origin = Here /\ key["put_slot"].key \in {Nothing, source.key}

LEMMA FormsThatHoldAreMeant ==
  ASSUME Types, FormInv
  PROVE  FormsHoldWhatWasMeant
  <1>1. ASSUME NEW f \in Fields
        PROVE  IF meant[f][1] = "typed" THEN body[f] = meant[f][2]
               ELSE LET value == meant[f][2]
                        sent == BuildBody(body)
                    IN IF value \in {Null, <<"past">>}
                         THEN IF Required(f) THEN sent[f] = <<"text", "">>
                              ELSE f \notin DOMAIN sent
                       ELSE f \in DOMAIN sent /\ sent[f] = value
    <2>1. Holds(f, body[f], meant[f])
      BY DEF FormInv
    <2>2. /\ f \in DOMAIN BuildBody(body) <=> body[f] # "" \/ Required(f)
          /\ f \in DOMAIN BuildBody(body) =>
               BuildBody(body)[f] = IF body[f] = "" THEN <<"text", "">>
                                    ELSE Coerce(Kind(f), body[f])
      BY DEF BuildBody
    <2> QED
      BY <2>1, <2>2 DEF Holds
  <1> QED
    BY <1>1 DEF FormsHoldWhatWasMeant, FormInv

(* A number that is shown reads back as itself.                            *)
LEMMA NumbersReadBack ==
  ASSUME NEW n \in {0, 7, 60}
  PROVE  /\ TextOf(n) \in DOMAIN Numbers /\ Numbers[TextOf(n)] = n
         /\ TextOf(n) # ""
  <1>1. /\ DOMAIN Numbers = {"0", "7", "60"}
        /\ Numbers["0"] = 0 /\ Numbers["7"] = 7 /\ Numbers["60"] = 60
    BY DEF Numbers
  <1>2. \E t \in DOMAIN Numbers : Numbers[t] = n
    BY <1>1
  <1>3. TextOf(n) \in DOMAIN Numbers /\ Numbers[TextOf(n)] = n
    BY <1>2 DEF TextOf
  <1> QED
    BY <1>1, <1>3

LEMMA ReadValuesHold ==
  ASSUME NEW f, NEW text, NEW value
  PROVE  /\ value \in {Null, <<"past">>} =>
              (Holds(f, text, <<"read", value>>) <=> text = "")
         /\ value \notin {Null, <<"past">>} =>
              (Holds(f, text, <<"read", value>>) <=>
                 \/ text # "" /\ Coerce(Kind(f), text) = value
                 \/ text = "" /\ Required(f) /\ value = <<"text", "">>)
  <1>1. <<"read", value>>[1] = "read" /\ <<"read", value>>[2] = value
    OBVIOUS
  <1> QED
    BY <1>1 DEF Holds

LEMMA PairsSaySomething ==
  ASSUME NEW kind \in {"text", "int", "float", "bool"}, NEW S,
         NEW value \in {kind} \X S
  PROVE  /\ value[1] = kind /\ value[2] \in S /\ value = <<kind, value[2]>>
         /\ value \notin {Null, <<"past">>}
  <1>1. value[1] = kind /\ value[2] \in S /\ value = <<kind, value[2]>>
    OBVIOUS
  <1>2. Null[1] = "null" /\ <<"past">>[1] = "past"
    BY DEF Null
  <1> QED
    BY <1>1, <1>2

LEMMA TextsReadBack ==
  ASSUME NEW text
  PROVE  Coerce("text", text) = <<"text", text>>
  BY DEF Coerce

(* What a slot says of a field is what the box, filled from it, holds.     *)
LEMMA FillingHolds ==
  ASSUME NEW slot \in Slots, NEW old, NEW f \in Fields,
         ReadFrom(f) \in DOMAIN slot
  PROVE  Holds(f, FillFrom(slot, old)[f], <<"read", slot[ReadFrom(f)]>>)
  <1> DEFINE value == slot[ReadFrom(f)]
             text == FillFrom(slot, old)[f]
  <1>1. Says(ReadFrom(f), value)
    BY ClientAssumption DEF ReadFrom, Fields
  <1>2. ASSUME value = Null
        PROVE  text = ""
    <2>1. AsText(Null) = "" /\ Remaining(Null) = ""
      BY DEF AsText, Null, Remaining, SecondsUntil
    <2> QED
      BY <1>2, <2>1 DEF FillFrom, ReadFrom, SetText, Closed, Kind
  <1>3. CASE value = Null
    BY <1>2, <1>3, ReadValuesHold
  <1>4. CASE value # Null /\ f = "message"
    <2>1. value \in {"text"} \X STRING
      BY <1>1, <1>4 DEF Says, ReadFrom
    <2>2. text = value[2]
      BY <1>4, <2>1 DEF FillFrom, ReadFrom, SetText, Closed, Kind, AsText
    <2>3. value \notin {Null, <<"past">>} /\ value = <<"text", value[2]>>
      <3> HIDE DEF value
      <3> QED
        BY <2>1, PairsSaySomething
    <2>4. Kind(f) = "text" /\ Required(f)
      BY <1>4 DEF Kind, Required
    <2>5. Coerce(Kind(f), text) = value
      BY <2>2, <2>3, <2>4, TextsReadBack
    <2>6. text # "" \/ value = <<"text", "">>
      BY <2>2, <2>3
    <2> HIDE DEF value, text
    <2> QED
      BY <2>3, <2>4, <2>5, <2>6, ReadValuesHold DEF value, text
  <1>5. CASE value # Null /\ f = "display_mode"
    <2>1. value \in {"text"} \X STRING /\ value[2] # ""
      BY <1>1, <1>5 DEF Says, ReadFrom
    <2>2. text = value[2]
      BY <1>5, <2>1 DEF FillFrom, ReadFrom, SetText, Closed, Kind, AsText
    <2>3. value \notin {Null, <<"past">>} /\ value = <<"text", value[2]>>
      BY <2>1, PairsSaySomething
    <2>4. Kind(f) = "text"
      BY <1>5 DEF Kind
    <2>5. Coerce(Kind(f), text) = value /\ text # ""
      BY <2>1, <2>2, <2>3, <2>4, TextsReadBack
    <2> QED
      BY <2>3, <2>5, ReadValuesHold
  <1>6. CASE value # Null /\ f = "order"
    <2>1. value \in {"int"} \X {0, 7, 60}
      BY <1>1, <1>6 DEF Says, ReadFrom
    <2>2. text = TextOf(value[2])
      BY <1>6, <2>1 DEF FillFrom, ReadFrom, SetText, Closed, Kind, AsText
    <2>3. Coerce("int", text) = <<"int", value[2]>> /\ text # ""
      BY <2>1, <2>2, NumbersReadBack DEF Coerce
    <2>4. value \notin {Null, <<"past">>} /\ value = <<"int", value[2]>>
      <3> DEFINE S == {0, 7, 60}
      <3> HIDE DEF value, S
      <3>1. value \in {"int"} \X S
        BY <2>1 DEF S
      <3> QED
        BY <3>1, PairsSaySomething
    <2>5. Coerce(Kind(f), text) = value /\ text # ""
      BY <1>6, <2>3, <2>4 DEF Kind
    <2> QED
      BY <2>4, <2>5, ReadValuesHold
  <1>7. CASE value # Null /\ f = "active"
    <2>1. value \in {"bool"} \X BOOLEAN
      BY <1>1, <1>7 DEF Says, ReadFrom
    <2>2. text = IF value[2] THEN "true" ELSE "false"
      BY <1>7, <2>1 DEF FillFrom, ReadFrom, SetText, Closed, Kind, AsText
    <2>3. Coerce("bool", text) = <<"bool", value[2]>> /\ text # ""
      BY <2>1, <2>2 DEF Coerce
    <2>4. value \notin {Null, <<"past">>} /\ value = <<"bool", value[2]>>
      BY <2>1, PairsSaySomething
    <2>5. Coerce(Kind(f), text) = value /\ text # ""
      BY <1>7, <2>3, <2>4 DEF Kind
    <2> QED
      BY <2>4, <2>5, ReadValuesHold
  <1>8. CASE value # Null /\ f = "ttl_seconds"
    <2>1. value \in {<<"past">>, <<"float", 7>>, <<"float", 60>>}
      BY <1>1, <1>8 DEF Says, ReadFrom
    <2>2. text = Remaining(value)
      BY <1>8 DEF FillFrom, ReadFrom, SetText, Closed, Kind
    <2>3. CASE value = <<"past">>
      <3>1. Remaining(<<"past">>) = ""
        <4>1. <<"past">> # Null
          BY <1>8, <2>3
        <4>2. SecondsUntil(<<"past">>) = {-1}
          BY <4>1 DEF SecondsUntil
        <4>3. {n \in {-1} : n > 0} = {}
          OBVIOUS
        <4> QED
          BY <4>2, <4>3 DEF Remaining
      <3> QED
        BY <2>2, <2>3, <3>1, ReadValuesHold
    <2>4. CASE value # <<"past">>
      <3>1. value \in {"float"} \X {7, 60}
        BY <2>1, <2>4
      <3>2. PICK n \in {7, 60} : value = <<"float", n>>
        BY <3>1
      <3>3. SecondsUntil(value) = {n}
        BY <1>8, <2>4, <3>2 DEF SecondsUntil
      <3>4. {m \in SecondsUntil(value) : m > 0} = {n}
        BY <3>3
      <3>5. Remaining(value) = TextOf(n)
        BY <3>4 DEF Remaining
      <3>6. text = TextOf(n) /\ Numbers[TextOf(n)] = n /\ text # ""
            /\ TextOf(n) \in DOMAIN Numbers
        BY <2>2, <3>5, NumbersReadBack
      <3>7. Coerce("float", text) = value
        BY <3>2, <3>6 DEF Coerce
      <3>8. value \notin {Null, <<"past">>}
        BY <1>8, <2>4
      <3>9. Kind(f) = "float"
        BY <1>8 DEF Kind
      <3> HIDE DEF value, text
      <3>10. Holds(f, text, <<"read", value>>)
        BY <3>6, <3>7, <3>8, <3>9, ReadValuesHold
      <3> QED
        BY <3>10 DEF value, text
    <2> QED
      BY <2>3, <2>4
  <1> QED
    BY <1>3, <1>4, <1>5, <1>6, <1>7, <1>8 DEF Fields

LEMMA InitialForm == Init => FormInv
  <1> SUFFICES ASSUME Init PROVE FormInv
    OBVIOUS
  <1>1. ASSUME NEW f \in Fields
        PROVE  Holds(f, body[f], meant[f])
    <2>1. body[f] = StartsAs(f) /\ meant[f] = <<"typed", StartsAs(f)>>
      BY DEF Init
    <2> QED
      BY <2>1 DEF Holds
  <1>2. \A f \in KeyForms : key[f].key = Nothing
    BY DEF Init, Empty
  <1> QED
    BY <1>1, <1>2 DEF Init, FormInv

(* An answer that is read into the form is the one that was asked for.     *)
LEMMA AnswersHold ==
  ASSUME Types, FillIsAsked, FormInv,
         NEW reply \in Replies(inflight.op), CompletedQuietly(reply)
  PROVE  FormInv'
  <1>0. Busy /\ UNCHANGED <<box, typed>> /\ DOMAIN typed = KeyForms
    BY DEF CompletedQuietly, Arrives, FormInv
  <1>1. CASE inflight.op = "get_slot"
    <2>1. UNCHANGED key
      BY <1>1 DEF CompletedQuietly, Offered, OffersKeys
    <2>2. CASE ~Fills(inflight, reply)
      BY <1>0, <1>1, <2>1, <2>2 DEF CompletedQuietly, Filled, FormInv, Here
    <2>3. CASE Fills(inflight, reply)
      <3> DEFINE slot == reply.payload[2]
      <3>1. slot \in Slots
        <4>1. reply.payload[1] = "object" /\ ~IsError(reply.status, reply.payload)
          BY <2>3 DEF Fills, Ok
        <4>2. \/ reply.status = 0 \/ reply.status = 500
              \/ reply.payload = <<"unreadable">>
              \/ \E s \in Slots : reply.payload = <<"object", s>>
          BY <1>1 DEF Replies, Modes, Icons, Bitmaps
        <4>3. PICK s \in Slots : reply.payload = <<"object", s>>
          BY <4>1, <4>2 DEF IsError
        <4> QED
          BY <4>3
      <3>2. /\ body' = FillFrom(slot, body)
            /\ meant' = [f \in Fields |->
                           IF ReadFrom(f) \in DOMAIN slot
                             THEN <<"read", slot[ReadFrom(f)]>> ELSE meant[f]]
            /\ source' = [origin |-> inflight.origin, key |-> inflight.key]
        BY <1>1, <2>3 DEF CompletedQuietly, Filled, ReadFrom
      <3> HIDE DEF slot
      <3>3. ASSUME NEW f \in Fields
            PROVE  Holds(f, body'[f], meant'[f])
        <4>1. CASE ReadFrom(f) \in DOMAIN slot
          BY <3>1, <3>2, <4>1, FillingHolds
        <4>2. CASE ReadFrom(f) \notin DOMAIN slot
          <5>1. body'[f] = body[f] /\ meant'[f] = meant[f]
            BY <3>2, <4>2 DEF FillFrom, ReadFrom
          <5> QED
            BY <5>1 DEF FormInv
        <4> QED
          BY <4>1, <4>2
      <3>4. inflight.origin = Here /\ key["put_slot"].key = inflight.key
        BY <1>0, <1>1, <2>3 DEF Fills, FillIsAsked
      <3> QED
        BY <1>0, <2>1, <3>2, <3>3, <3>4 DEF FormInv, Here
    <2> QED
      BY <2>2, <2>3
  <1>2. CASE inflight.op # "get_slot"
    <2>1. body' = Refreshed(inflight.op) /\ UNCHANGED <<meant, source>>
      BY <1>2 DEF CompletedQuietly
    <2>2. \A f \in Fields : body'[f] = body[f]
      <3>1. \A text, names, prefill : FillCombo(text, names, FALSE, prefill) = text
        BY DEF FillCombo
      <3> QED
        BY <2>1, <3>1 DEF Refreshed, Types
    <2>3. \A f \in KeyForms : key'[f].key \in {Nothing, key[f].key}
      <3>1. \A text \in PathTexts : \A listed :
              OfferKeys(text, listed).key \in {Nothing, text.key}
        BY DEF OfferKeys, Strip, Empty, PathTexts
      <3>2. Offered(inflight, reply)
        BY DEF CompletedQuietly
      <3>3. CASE OffersKeys(inflight, reply)
        BY <3>1, <3>2, <3>3 DEF Offered, Types
      <3>4. CASE ~OffersKeys(inflight, reply)
        BY <3>2, <3>4 DEF Offered
      <3> QED
        BY <3>3, <3>4
    <2>4. "put_slot" \in KeyForms
      BY DEF KeyForms, TakesKey
    <2> QED
      BY <1>0, <2>1, <2>2, <2>3, <2>4 DEF FormInv, Here
  <1> QED
    BY <1>1, <1>2

LEMMA NextHolds ==
  ASSUME Types, FillIsAsked, FormInv, [Next]_vars
  PROVE  FormInv'
  <1>0. "put_slot" \in KeyForms
    BY DEF KeyForms, TakesKey
  <1>1. ASSUME UNCHANGED <<box, form>>
        PROVE  FormInv'
    BY <1>1 DEF form, FormInv, Here
  <1>2. CASE PressSend
    <2>1. \A f \in KeyForms : key'[f].key = key[f].key
      BY <1>2 DEF PressSend, Trimmed, Strip, Types, PathTexts
    <2>2. UNCHANGED <<box, body, typed, meant, source>>
      BY <1>2 DEF PressSend
    <2> QED
      BY <1>0, <2>1, <2>2 DEF FormInv, Here
  <1>3. CASE \/ PressLoadAll \/ PressLoadFromSign \/ PressLoadKeys("list_slots")
             \/ \E op \in Sets : PressLoad(op)
    BY <1>1, <1>3 DEF PressLoadAll, PressLoadFromSign, PressLoadKeys, PressLoad
  <1>4. CASE SendNextQueued \/ Describing
    BY <1>1, <1>4 DEF SendNextQueued, Describing, DescriptionFails,
                      DescriptionUnreadable, DescriptionArrives
  <1>5. CASE Completing
    <2>1. ASSUME NEW reply \in Replies(inflight.op), CompletedWithADialog(reply)
          PROVE  FormInv'
      BY <1>1, <2>1 DEF CompletedWithADialog, Arrives
    <2> QED
      BY <1>5, <2>1, AnswersHold DEF Completing
  <1>6. CASE Answering
    BY <1>1, <1>6 DEF Answering, AnswerYes, AnswerNo, CloseRefusal, CloseFailure,
                      CloseSkew
  <1>7. ASSUME NEW text \in Boxes, EditBox(text)
        PROVE  FormInv'
    BY <1>7 DEF EditBox, FormInv
  <1>8. ASSUME NEW f \in Forms, Select(f)
        PROVE  FormInv'
    BY <1>1, <1>8 DEF Select
  <1>9. ASSUME NEW text \in TypedKeys, EditKey(text)
        PROVE  FormInv'
    <2>1. /\ selected \in KeyForms
          /\ key' = [key EXCEPT ![selected] = text]
          /\ typed' = [typed EXCEPT ![selected] = text.key]
          /\ UNCHANGED <<box, body, meant>>
          /\ source' = IF selected = "put_slot" THEN Unread ELSE source
      BY <1>9 DEF EditKey
    <2>2. \A f \in KeyForms : key'[f].key \in {Nothing, typed'[f]}
      BY <2>1 DEF FormInv, Types
    <2>3. source' # Unread => key'["put_slot"] = key["put_slot"] /\ source' = source
      BY <1>0, <2>1 DEF Types
    <2> QED
      BY <2>1, <2>2, <2>3 DEF FormInv, Here
  <1>10. ASSUME NEW t \in TypedTexts, EditField(t[1], t[2])
         PROVE  FormInv'
    <2>1. t[1] \in Fields
      BY ClientAssumption
    <2>2. SetText(t[1], body[t[1]], t[2]) = t[2]
      BY ClientAssumption DEF SetText
    <2>3. /\ body' = [body EXCEPT ![t[1]] = t[2]]
          /\ meant' = [meant EXCEPT ![t[1]] = <<"typed", t[2]>>]
          /\ UNCHANGED <<box, key, typed, source>>
      BY <1>10, <2>2 DEF EditField
    <2>4. ASSUME NEW f \in Fields
          PROVE  Holds(f, body'[f], meant'[f])
      <3>1. CASE f = t[1]
        <4>1. body'[f] = t[2] /\ meant'[f] = <<"typed", t[2]>>
          BY <2>3, <3>1 DEF Types, FormInv
        <4> QED
          BY <4>1 DEF Holds
      <3>2. CASE f # t[1]
        BY <2>3, <3>2 DEF Types, FormInv
      <3> QED
        BY <3>1, <3>2
    <2> QED
      BY <2>3, <2>4 DEF FormInv, Here
  <1>11. CASE UNCHANGED vars
    BY <1>1, <1>11 DEF vars
  <1> QED
    BY <1>2, <1>3, <1>4, <1>5, <1>6, <1>7, <1>8, <1>9, <1>10, <1>11
    DEF Next, Sending, Editing

-----------------------------------------------------------------------------
(* The inductive invariant: the chain, the forms and the addresses each    *)
(* rest on the types, and the forms also on whose answer is waited for.    *)
ClientInv == Types /\ Accounted /\ ChainInv /\ FillIsAsked /\ FormInv

LEMMA InitialClient == Init => ClientInv
  <1>1. Init => Accounted /\ FillIsAsked
    BY ClientAssumption DEF Init, Accounted, FillIsAsked
  <1> QED
    BY <1>1, InitialTypes, InitialChain, InitialForm DEF ClientInv

LEMMA NextClient == ClientInv /\ [Next]_vars => ClientInv'
  BY NextKeepsTypes, NextAccounts, NextLosesNothing, NextAsks, NextHolds
  DEF ClientInv

(* What is out, queued, checked and filled in agree at every step, whatever *)
(* the service answers and whatever is pressed meanwhile (MainWindow).     *)
THEOREM ClientIsSound == Spec => []ClientInv
  BY InitialClient, NextClient, PTL DEF Spec

(* Whatever is answered, abandoned or fails, an address counts as checked  *)
(* exactly while it is being asked or its answer is known                  *)
(* (MainWindow._check_surface, DescriptionFetcher.fetch).                  *)
THEOREM AddressesAreChecked == Spec => []AddressesAreAccountedFor
  <1>1. ClientInv => AddressesAreAccountedFor
    BY TypesAreTypeOK DEF ClientInv, Accounted, AddressesAreAccountedFor
  <1> QED
    BY <1>1, ClientIsSound, PTL

(* No set of a chain is lost to whatever call comes between two, and no    *)
(* call goes unrecorded (MainWindow._send_next_queued, _completed).        *)
THEOREM ChainsLoseNothing == Spec => []NothingIsLostFromTheChain
  <1>1. ClientInv => NothingIsLostFromTheChain
    BY DEF ClientInv, ChainInv
  <1> QED
    BY <1>1, ClientIsSound, PTL

(* Every field reads back as the person or the sign meant it, no loading   *)
(* chooses a key, and a slot that was read stays with its service and key  *)
(* (OperationForm.fill_from, offer_keys, MainWindow._completed).           *)
THEOREM FormsAreAsMeant == Spec => []FormsHoldWhatWasMeant
  <1>1. ClientInv => FormsHoldWhatWasMeant
    BY FormsThatHoldAreMeant DEF ClientInv
  <1> QED
    BY <1>1, ClientIsSound, PTL
=============================================================================
