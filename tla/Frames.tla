------------------------------- MODULE Frames -------------------------------
(***************************************************************************)
(* The transmissions the service builds: readerboard/protocol/frames.py.   *)
(* A transmission is a sequence of bytes, written as numbers, in which the *)
(* digits of one number (a size, a height, an hour) are one unit.          *)
(*                                                                         *)
(*   WAKEUP  SOH  sign type  address  STX  payload  EOT                    *)
(***************************************************************************)
EXTENDS Integers, Sequences, SequencesExt

CONSTANTS
  WakeupNulls,       \* how many nulls the service sends first
  PriorityCapacity,  \* PRIORITY_FILE_CAPACITY
  StringCapacity,    \* STRING_FILE_CAPACITY
  MaxRows,           \* DOTS_MAX_ROWS
  MaxColumns         \* DOTS_MAX_COLUMNS

ASSUME FramesAssumption ==
  /\ WakeupNulls \in Nat /\ StringCapacity \in Nat
  /\ PriorityCapacity \in Nat \ {0}
  /\ MaxRows \in 1 .. 255 /\ MaxColumns \in 1 .. 255

NUL == 0   SOH == 1   STX == 2   EOT == 4   CR == 13   SOM == 27
Header == <<SOH, 94, 48, 48, STX>>    \* a BetaBrite, every address

PriorityFile == 48
StringInsert == 16                    \* the next byte is a STRING's label
DotsInsert == 20                      \* the next byte is a picture's
AlphaDotsInsert == 31                 \* the next 14 name another sign's picture
ForbiddenForStrings == {48, 63}
PixelCodes == 48 .. 56

WriteText == 65   WriteSpecial == 69   WriteString == 71   WriteDots == 73
SetMemory == 36   SetSequence == 46
SetTime == 32     SetDay == 38         SetFormat == 39
Middle == 32                          \* TEXT_POS_MIDDLE
IgnoreTime == 83  Unlocked == 85       Locked == 76
TextFile == 65    StringFile == 66     DotsFile == 68

\* A number printed in digits, and the number they are read back as.
Digits(n) == 1000 + n
IsDigits(u) == u >= 1000
Number(u) == u - 1000

Packet(payload) == [i \in 1 .. WakeupNulls |-> NUL] \o Header \o payload \o <<EOT>>

-----------------------------------------------------------------------------
(* A command, as one who sends it means it and as one who reads it finds   *)
(* it: signsim's Command and its subclasses in one record.                 *)
Nothing ==
  [op |-> "unrecognised", malformed |-> FALSE, label |-> -1, som |-> FALSE,
   position |-> <<>>, mode |-> <<>>, body |-> <<>>, rows |-> <<>>,
   size |-> <<0, 0>>, entries |-> <<>>, labels |-> <<>>]

Message(l, mode, body) ==
  [Nothing EXCEPT !.op = "text", !.label = l, !.som = TRUE,
     !.position = <<Middle>>, !.mode = mode, !.body = body]
Release == [Nothing EXCEPT !.op = "text", !.label = PriorityFile]
Value(l, data) == [Nothing EXCEPT !.op = "string", !.label = l, !.body = data]
Picture(l, rows) ==
  [Nothing EXCEPT !.op = "dots", !.label = l, !.rows = rows,
     !.size = <<Len(rows), Len(rows[1])>>]
Configuration(es) == [Nothing EXCEPT !.op = "configure", !.entries = es]
Wipe == [Nothing EXCEPT !.op = "wipe"]
Sequence(ls) == [Nothing EXCEPT !.op = "sequence", !.labels = ls]
Clock(op, body) == [Nothing EXCEPT !.op = op, !.body = body]

\* One file of a memory configuration: class FileAllocation.
Entry(l, type, locked, capacity, schedule) ==
  [label |-> l, type |-> type, locked |-> locked,
   capacity |-> capacity, schedule |-> schedule]
Always == 65280                        \* FF00, read as digits
TextEntry(l, capacity) == Entry(l, TextFile, FALSE, capacity, Always)
StringEntry(l, capacity) == Entry(l, StringFile, TRUE, capacity, 0)
DotsEntry(l, rows, columns) == Entry(l, DotsFile, FALSE, rows * 256 + columns, 16384)

Rows(e) == e.capacity \div 256
Columns(e) == e.capacity % 256
PoolBytes(e) ==
  IF e.type = DotsFile THEN (Rows(e) * Columns(e) + 1) \div 2 ELSE e.capacity

\* What FileAllocation.__post_init__ lets through.
Allocatable(e) ==
  /\ e.label # PriorityFile
  /\ e.capacity \in 1 .. 65535
  /\ e.type = DotsFile => Rows(e) \in 1 .. MaxRows /\ Columns(e) \in 1 .. MaxColumns
  /\ e.type = StringFile =>
       /\ e.label \notin ForbiddenForStrings
       /\ e.locked /\ e.schedule = 0 /\ e.capacity <= StringCapacity

Encode(e) ==
  <<e.label, e.type, IF e.locked THEN Locked ELSE Unlocked,
    Digits(e.capacity), Digits(e.schedule)>>

-----------------------------------------------------------------------------
(* What the builders refuse to build (their ProtocolError), and the        *)
(* payload of what they do.                                                *)
Distinct(s) == \A i, j \in DOMAIN s : i # j => s[i] # s[j]

Buildable(c) ==
  CASE c.op = "text" -> c.label = PriorityFile => Len(c.body) <= PriorityCapacity
    [] c.op = "string" ->
         c.label \notin ForbiddenForStrings /\ Len(c.body) <= StringCapacity
    [] c.op = "dots" ->
         /\ c.size \in (1 .. MaxRows) \X (1 .. MaxColumns)
         /\ \A i \in DOMAIN c.rows :
              /\ Len(c.rows[i]) = c.size[2]
              /\ \A j \in DOMAIN c.rows[i] : c.rows[i][j] \in PixelCodes
    [] c.op = "configure" ->
         /\ c.entries # <<>>
         /\ \A i \in DOMAIN c.entries : Allocatable(c.entries[i])
         /\ Distinct([i \in DOMAIN c.entries |-> c.entries[i].label])
    [] c.op = "sequence" -> Distinct(c.labels)
    [] c.op = "time" -> c.body \in (0 .. 23) \X (0 .. 59)
    [] c.op = "day" -> c.body[1] \in 1 .. 7
    [] OTHER -> TRUE

\* A mistake to refute: the release sent with the formatting of a message.
PayloadWithFormatting(c) ==
  IF c = Release
    THEN <<WriteText, PriorityFile, SOM, Middle, 98>>
  ELSE IF c.op = "text"
    THEN <<WriteText, c.label, SOM>> \o c.position \o c.mode \o c.body
  ELSE <<WriteSpecial>>

Payload(c) ==
  CASE c = Release -> <<WriteText, PriorityFile>>
    [] c # Release /\ c.op = "text" ->
         <<WriteText, c.label, SOM>> \o c.position \o c.mode \o c.body
    [] c.op = "string" -> <<WriteString, c.label>> \o c.body
    [] c.op = "dots" ->
         <<WriteDots, c.label, Digits(c.size[1]), Digits(c.size[2])>>
           \o FlattenSeq([i \in DOMAIN c.rows |-> Append(c.rows[i], CR)])
    [] c.op = "configure" ->
         <<WriteSpecial, SetMemory>>
           \o FlattenSeq([i \in DOMAIN c.entries |-> Encode(c.entries[i])])
    [] c.op = "wipe" -> <<WriteSpecial, SetMemory>>
    [] c.op = "sequence" ->
         <<WriteSpecial, SetSequence, IgnoreTime, Unlocked>> \o c.labels
    [] c.op = "time" ->
         <<WriteSpecial, SetTime, Digits(c.body[1]), Digits(c.body[2])>>
    [] c.op = "day" -> <<WriteSpecial, SetDay, Digits(c.body[1])>>
    [] c.op = "format" -> <<WriteSpecial, SetFormat>> \o c.body

=============================================================================
