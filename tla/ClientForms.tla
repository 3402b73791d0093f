---------------------------- MODULE ClientForms ----------------------------
(***************************************************************************)
(* What the API client turns a form into and a reply back into: the        *)
(* operations of catalogue.py, the boxes of OperationForm, and the pure    *)
(* parts of request.py, enums.py, bitmaps.py, skew.py and format.py.  A    *)
(* JSON value is a pair of its kind and itself; a text is atomic, but for  *)
(* a path box, where the spaces around a key matter.                       *)
(***************************************************************************)
EXTENDS Integers, Sequences, FiniteSetsExt, Functions

CONSTANTS Keys,       \* keys a slot may have
          ModeNames   \* the names in the enumeration a field draws from

Nothing == "nothing"

-----------------------------------------------------------------------------
(* The catalogue.  An operation reads, lists, writes or gives up a slot,   *)
(* gives up every one, or loads a set; one set is drawn as well.           *)

Modes == "display_modes"
Icons == "icons"
Bitmaps == "icon_bitmaps"
Fields == {"message", "display_mode", "order", "ttl_seconds", "active"}

TakesKey == {"get_slot", "put_slot", "delete_slot"}
TakesBody == {"put_slot"}
Destructive == {"clear_slots"}
Loaders == <<Modes, Icons>>
Drawers == <<Bitmaps>>
LoadAll == Loaders \o Drawers
Sets == {LoadAll[i] : i \in DOMAIN LoadAll}
Forms == TakesKey \cup Destructive \cup {"list_slots"}
Operations == Forms \cup Sets

Kind(f) == CASE f = "order" -> "int"
             [] f = "ttl_seconds" -> "float"
             [] f = "active" -> "bool"
             [] OTHER -> "text"
Required(f) == f = "message"
Prefill(f) == CASE f = "order" -> "0"
                [] f = "display_mode" -> "HOLD"
                [] OTHER -> ""

\* A box of which only these texts can be chosen.
Closed(f) == IF Kind(f) = "bool" THEN {"", "true", "false"} ELSE {}

-----------------------------------------------------------------------------
(* Values and the texts that stand for them.                               *)

Null == <<"null">>
Numbers == [n \in {"0", "7", "60"} |-> CASE n = "0" -> 0 [] n = "7" -> 7 [] OTHER -> 60]
TextOf(n) == CHOOSE t \in DOMAIN Numbers : Numbers[t] = n

AsText(value) ==
  CASE value[1] = "null" -> ""
    [] value[1] = "bool" -> IF value[2] THEN "true" ELSE "false"
    [] value[1] \in {"int", "float"} -> TextOf(value[2])
    [] OTHER -> value[2]

Coerce(kind, text) ==
  IF kind = "bool" /\ text \in {"true", "false"} THEN <<"bool", text = "true">>
  ELSE IF kind \in {"int", "float"} /\ text \in DOMAIN Numbers
         THEN <<kind, Numbers[text]>>
  ELSE <<"text", text>>

\* build_body: an optional field nobody filled in is left out.
BuildBody(body) ==
  [f \in {g \in Fields : body[g] # "" \/ Required(g)} |->
     IF body[f] = "" THEN <<"text", "">> ELSE Coerce(Kind(f), body[f])]

-----------------------------------------------------------------------------
(* The boxes of a form.                                                    *)

PathTexts == [key : Keys \cup {Nothing}, padded : BOOLEAN]
Empty == [key |-> Nothing, padded |-> FALSE]
Strip(text) == [text EXCEPT !.padded = FALSE]

\* Qt drops, without a word, a choice that is not in a closed list.
SetText(f, old, text) ==
  IF Closed(f) # {} /\ text \notin Closed(f) THEN old ELSE text

FillCombo(current, names, initial, prefill) ==
  IF current # "" THEN current
  ELSE IF initial THEN prefill ELSE ""

StartsAs(f) ==
  IF f = "display_mode" THEN FillCombo("", {}, TRUE, Prefill(f)) ELSE Prefill(f)

\* seconds_until: none, or how many there are to go, which may be negative.
SecondsUntil(expires) ==
  IF expires = Null THEN {} ELSE IF expires = <<"past">> THEN {-1} ELSE {expires[2]}

\* What is put in the box: a deadline that is past is as good as none.
Remaining(expires) ==
  LET ahead == {n \in SecondsUntil(expires) : n > 0}
  IN IF ahead = {} THEN "" ELSE TextOf(CHOOSE n \in ahead : TRUE)

FillFrom(payload, body) ==
  [f \in Fields |->
     IF f = "ttl_seconds"
       THEN IF "expires_at" \in DOMAIN payload
              THEN SetText(f, body[f], Remaining(payload["expires_at"]))
              ELSE body[f]
     ELSE IF f \in DOMAIN payload THEN SetText(f, body[f], AsText(payload[f]))
     ELSE body[f]]

\* A key already typed is kept, trimmed, if the list has it; else the box is empty.
OfferKeys(text, listed) == IF text.key \in listed THEN Strip(text) ELSE Empty

-----------------------------------------------------------------------------
(* A reply, as the client reads it.                                        *)

ReadsAsSet(payload) == payload[1] = "list" /\ \A e \in payload[2] : "name" \in e
ReadsAsBitmaps(payload) ==
  /\ payload[1] = "list"
  /\ \A e \in payload[2] : {"name", "rows", "inks"} \subseteq e

\* 0 is no answer at all, and a body that does not parse is a failure too.
IsError(status, payload) == status = 0 \/ status >= 400 \/ payload[1] = "unreadable"

\* skew.compare: what the service describes against what the client can call.
Compare(described, catalogued) ==
  [unknown |-> catalogued \ described, uncallable |-> described \ catalogued]
Matches(skew) == skew.unknown = {} /\ skew.uncallable = {}
=============================================================================
