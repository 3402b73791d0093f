----------------------------- MODULE SimDecode -----------------------------
(***************************************************************************)
(* What the sign simulator reads in a transmission: decode.py and spans.py *)
(* of tools/signsim/signsim.  A command is decoded together with the spans *)
(* its bytes fall into, which the window's hex view is drawn from.         *)
(***************************************************************************)
EXTENDS Frames

SpecialMode == 110          \* "n": the mode's name is in the next byte
Printable == 32 .. 126

Min2(a, b) == IF a < b THEN a ELSE b

\* s[from:to] and s[from:] of a Python sequence.
Slice(s, from, to) == SubSeq(s, from + 1, Min2(to, Len(s)))
After(s, from) == SubSeq(s, from + 1, Len(s))
First(s, else) == IF s = <<>> THEN else ELSE s[1]

\* What is in some places of a sequence, in order.
Chosen(s, places) ==
  LET upTo[n \in 0 .. Len(s)] ==
        IF n = 0 THEN <<>>
        ELSE IF n \in places THEN Append(upTo[n - 1], s[n])
        ELSE upTo[n - 1]
  IN upTo[Len(s)]

\* Pieces of p, one after the other, each with the place it begins at.
PlacedFrom(pieces, from) ==
  [i \in DOMAIN pieces |->
     [at |-> from + Len(FlattenSeq(SubSeq(pieces, 1, i - 1))), data |-> pieces[i]]]
NonEmpty(pieces) == Chosen(pieces, {i \in DOMAIN pieces : pieces[i] # <<>>})

-----------------------------------------------------------------------------
(* annotate: calls and mode changes take the bytes after them, a run of    *)
(* printable characters is one span, anything else is one of its own.      *)
(* Left out are the table of fixed sequences, a colour's say, and the range*)
(* of extended characters.  None of them begins with or holds the first    *)
(* byte of a call or a mode change, so no call is missed or invented: their*)
(* bytes are a span each here, or join the text after them.                *)

\* How many bytes the sequence that begins at i takes, or 0.
MatchAt(body, i) ==
  LET left == Len(body) - i + 1
      modeLength == IF left >= 3 /\ body[i + 2] = SpecialMode THEN 2 ELSE 1
  IN CASE body[i] = SOM /\ left >= 2 + modeLength -> 2 + modeLength
       [] body[i] \in {StringInsert, DotsInsert} /\ left >= 2 -> 2
       [] body[i] = AlphaDotsInsert /\ left >= 15 -> 15
       [] OTHER -> 0

\* Where the run of text that begins at i ends.
TextEnd(body, i) ==
  CHOOSE j \in i .. Len(body) :
    /\ \A k \in i .. j : body[k] \in Printable /\ MatchAt(body, k) = 0
    /\ j < Len(body) => body[j + 1] \notin Printable \/ MatchAt(body, j + 1) > 0

SpanLength(body, i) ==
  IF MatchAt(body, i) > 0 THEN MatchAt(body, i)
  ELSE IF body[i] \in Printable THEN TextEnd(body, i) - i + 1
  ELSE 1

\* The pieces body falls into.
Annotate(body) ==
  LET from[i \in 1 .. Len(body) + 1] ==
        IF i > Len(body) THEN <<>>
        ELSE <<SubSeq(body, i, i + SpanLength(body, i) - 1)>>
               \o from[i + SpanLength(body, i)]
  IN from[1]

\* The labels a message calls with the byte insert.
Calls(body, insert) ==
  {s[2] : s \in {t \in ToSet(Annotate(body)) : Len(t) = 2 /\ t[1] = insert}}

-----------------------------------------------------------------------------
(* Each decoder returns a command and the pieces its payload falls into.   *)
Read(command, pieces) == [command |-> command, pieces |-> pieces]
Unread(p, shown) == Read(Nothing, shown)

\* A write that stops inside its start of mode says nothing of its message.
ReadMessage(p) ==
  LET rest == After(p, 2)
      som == First(rest, -1) = SOM
      modeLength == IF Slice(rest, 2, 3) = <<SpecialMode>> THEN 2 ELSE 1
      position == IF som THEN Slice(rest, 1, 2) ELSE <<>>
      mode == IF som THEN Slice(rest, 2, 2 + modeLength) ELSE <<>>
      body == IF som THEN After(rest, 2 + modeLength) ELSE rest
  IN IF Len(p) < 2
       THEN Unread(p, <<p>>)
       ELSE Read([Nothing EXCEPT !.op = "text", !.label = p[2], !.som = som,
                    !.malformed = som /\ (position = <<>> \/ mode = <<>>),
                    !.position = position, !.mode = mode, !.body = body],
                 <<Slice(p, 0, 1), Slice(p, 1, 2), IF som THEN <<SOM>> ELSE <<>>,
                   position, mode>> \o Annotate(body))

ReadValue(p) ==
  IF Len(p) < 2
    THEN Unread(p, <<p>>)
    ELSE Read(Value(p[2], After(p, 2)),
              <<Slice(p, 0, 1), Slice(p, 1, 2)>> \o Annotate(After(p, 2)))

\* What stands between the carriage returns.
Split(body) ==
  LET ends == Chosen([i \in DOMAIN body |-> i], {i \in DOMAIN body : body[i] = CR})
      edge == <<0>> \o Append(ends, Len(body) + 1)
  IN [k \in 1 .. Len(ends) + 1 |-> SubSeq(body, edge[k] + 1, edge[k + 1] - 1)]

\* The rows of a picture; the last carriage return is optional.
Lines(body) == Front(Split(body)) \o NonEmpty(<<Last(Split(body))>>)

\* Two numbers of two digits: the second is not read where the first cannot be.
Geometry(size) ==
  IF ~IsDigits(size[1]) THEN <<0, 0>>
  ELSE <<Number(size[1]), IF IsDigits(size[2]) THEN Number(size[2]) ELSE 0>>

ReadPicture(p) ==
  LET size == Slice(p, 2, 4)
      body == After(p, 4)
      rows == Lines(body)
      closed(i) == i < Len(rows) \/ body[Len(body)] = CR
  IN IF Len(size) < 2
       THEN Unread(p, <<Slice(p, 0, 1), Slice(p, 1, 2), size>>)
       ELSE Read([Nothing EXCEPT !.op = "dots", !.label = p[2], !.rows = rows,
                    !.size = Geometry(size)],
                 <<Slice(p, 0, 1), Slice(p, 1, 2), Slice(size, 0, 1), Slice(size, 1, 2)>>
                   \o FlattenSeq([i \in DOMAIN rows |->
                        <<rows[i], IF closed(i) THEN <<CR>> ELSE <<>>>>]))

-----------------------------------------------------------------------------
(* The special functions: the file table, the run sequence, the clock.     *)
EntryLength == 5            \* FTPSIZEQQQQ: eleven characters, five units here

Entries(chunks) == Chosen(chunks, {i \in DOMAIN chunks : IsDigits(chunks[i][4])})
Decoded(chunk) ==
  Entry(chunk[1], chunk[2], chunk[3] = Locked, Number(chunk[4]),
        IF IsDigits(chunk[5]) THEN Number(chunk[5]) ELSE -1)

\* A mistake to refute: what is left after the last whole entry is dropped.
ReadConfigurationOfWholeEntries(parameter, head) ==
  LET count == Len(parameter) \div EntryLength
      chunks == [i \in 1 .. count |->
                   Slice(parameter, (i - 1) * EntryLength, i * EntryLength)]
      entries == Entries(chunks)
  IN IF parameter = <<>>
       THEN Read(Wipe, head)
       ELSE Read(Configuration([i \in DOMAIN entries |-> Decoded(entries[i])]),
                 head \o chunks)

ReadConfiguration(parameter, head) ==
  LET count == Len(parameter) \div EntryLength
      chunks == [i \in 1 .. count |->
                   Slice(parameter, (i - 1) * EntryLength, i * EntryLength)]
      entries == Entries(chunks)
  IN IF parameter = <<>>
       THEN Read(Wipe, head)
       ELSE Read(Configuration([i \in DOMAIN entries |-> Decoded(entries[i])]),
                 head \o Append(chunks, After(parameter, count * EntryLength)))

ReadSequence(parameter, head) ==
  Read(Sequence(After(parameter, 2)),
       head \o <<Slice(parameter, 0, 1), Slice(parameter, 1, 2), After(parameter, 2)>>)

\* A clock command that makes no sense is malformed, its fields placeholders.
ReadClock(op, parameter, sound, placeholder, read, head) ==
  Read([Clock(op, IF sound THEN read ELSE placeholder) EXCEPT !.malformed = ~sound],
       Append(head, parameter))

Numbers(s) == [i \in DOMAIN s |-> Number(s[i])]
AllDigits(s) == \A i \in DOMAIN s : IsDigits(s[i])

IsTime(parameter) ==
  /\ Len(parameter) = 2 /\ AllDigits(parameter)
  /\ Number(parameter[1]) \in 0 .. 23 /\ Number(parameter[2]) \in 0 .. 59
Formats == {<<83>>, <<77>>}     \* for twelve hours and for twenty-four
IsDay(parameter) ==
  Len(parameter) = 1 /\ AllDigits(parameter) /\ Number(parameter[1]) \in 1 .. 7

ReadSpecial(p) ==
  LET head == <<Slice(p, 0, 1), Slice(p, 1, 2)>>
      parameter == After(p, 2)
  IN IF Len(p) < 2 THEN Unread(p, <<p>>)
     ELSE CASE p[2] = SetMemory -> ReadConfiguration(parameter, head)
            [] p[2] = SetSequence -> ReadSequence(parameter, head)
            [] p[2] = SetTime ->
                 ReadClock("time", parameter, IsTime(parameter), <<0, 0>>,
                           Numbers(parameter), head)
            [] p[2] = SetDay ->
                 ReadClock("day", parameter, IsDay(parameter), <<0>>,
                           Numbers(parameter), head)
            [] p[2] = SetFormat ->
                 ReadClock("format", parameter, parameter \in Formats,
                           <<83>>, parameter, head)
            [] OTHER -> Unread(p, head \o Annotate(parameter))

\* A read, or a command listed but not modelled, changes nothing.
ReadOther(p) ==
  Unread(p, <<Slice(p, 0, 1), Slice(p, 1, 2)>> \o Annotate(After(p, 2)))

DecodePayload(p) ==
  CASE p = <<>> -> Unread(p, <<>>)
    [] First(p, -1) = WriteText -> ReadMessage(p)
    [] First(p, -1) = WriteString -> ReadValue(p)
    [] First(p, -1) = WriteDots -> ReadPicture(p)
    [] First(p, -1) = WriteSpecial -> ReadSpecial(p)
    [] OTHER -> ReadOther(p)

\* A whole frame: its framing, its payload, and its EOT where it has one.
Decode(raw, truncated) ==
  LET payload == Slice(raw, Len(Header), IF truncated THEN Len(raw) ELSE Len(raw) - 1)
      decoded == DecodePayload(payload)
      pieces == <<Slice(raw, 0, 1), Slice(raw, 1, 2), Slice(raw, 2, 4), Slice(raw, 4, 5)>>
                  \o decoded.pieces \o <<IF truncated THEN <<>> ELSE <<EOT>>>>
  IN [command |-> decoded.command, spans |-> PlacedFrom(NonEmpty(pieces), 0)]

=============================================================================
