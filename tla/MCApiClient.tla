---------------------------- MODULE MCApiClient ----------------------------
(* Two services, one of them written two ways, and a box that names none.  *)
EXTENDS ApiClient, TLC

MCAddressOf ==
  [b \in Boxes |-> CASE b \in {"http://a", "http://a/"} -> "a"
                     [] b = "http://b" -> "b"
                     [] OTHER -> NoAddress]

Slot(message, mode, expires) ==
  [message |-> <<"text", message>>, display_mode |-> <<"text", mode>>,
   order |-> <<"int", 7>>, expires_at |-> expires]

MCSlots ==
  {Slot("hello", "ROTATE", <<"float", 60>>) @@
     [g \in {"active"} |-> <<"bool", TRUE>>],
   Slot("", "HOLD", <<"past">>)}

MCDescribed == {Operations, Operations \ {Bitmaps}}

MCTypedKeys ==
  {[key |-> "porch", padded |-> TRUE], [key |-> "hall", padded |-> FALSE]}

MCTypedTexts == {<<"display_mode", "">>, <<"active", "false">>}
=============================================================================
