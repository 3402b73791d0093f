------------------------------ MODULE SimSign ------------------------------
(***************************************************************************)
(* The sign the simulator stands in for: SignState of model.py.  What it   *)
(* holds is a record; applying a command gives the record it holds then    *)
(* and the notes on what it did quietly, each a level and a reason.        *)
(***************************************************************************)
EXTENDS SimDecode

DefaultFile == 65           \* "A", which can be written before any file table
None == -1

\* SignState.reset, and how the simulator starts.
Blank ==
  [configured |-> FALSE, table |-> <<>>, files |-> <<>>, strings |-> <<>>,
   pictures |-> <<>>, sequence |-> <<>>, priority |-> <<>>,
   time |-> <<>>, day |-> <<>>, format |-> <<>>]

Labels(s) == {s.table[i].label : i \in DOMAIN s.table}
EntryOf(s, l) == CHOOSE e \in ToSet(s.table) : e.label = l
IsOfType(s, l, type) == l \in Labels(s) /\ EntryOf(s, l).type = type

\* The files the sign plays and a message may be written to.
Exists(s, l) == IF s.configured THEN IsOfType(s, l, TextFile) ELSE l = DefaultFile
Writable(s, l) == l = PriorityFile \/ Exists(s, l)

Playing(s) ==
  IF s.priority # <<>> THEN <<PriorityFile>>
  ELSE Chosen(s.sequence, {i \in DOMAIN s.sequence : Exists(s, s.sequence[i])})

\* What stands between a file's braces when a message that calls it is drawn.
Drawn(s, body) ==
  [i \in DOMAIN Annotate(body) |->
     LET piece == Annotate(body)[i]
     IN IF Len(piece) = 2 /\ piece[1] = StringInsert
          THEN IF IsOfType(s, piece[2], StringFile) /\ piece[2] \in DOMAIN s.strings
                 THEN s.strings[piece[2]] ELSE <<>>
        ELSE IF Len(piece) = 2 /\ piece[1] = DotsInsert
          THEN IF piece[2] \in DOMAIN s.pictures THEN piece ELSE <<>>
        ELSE piece]

Put(files, l, content) ==
  [k \in DOMAIN files \cup {l} |-> IF k = l THEN content ELSE files[k]]

Note(level, why) == [level |-> level, why |-> why]
Outcome(s, notes) == [sign |-> s, notes |-> notes]

-----------------------------------------------------------------------------
\* A mistake to refute: a picture that is allocated is taken to be there.
CheckCallsByType(s, body) ==
  {Note("warning", "no such file") :
     l \in {k \in Calls(body, DotsInsert) : s.configured /\ ~IsOfType(s, k, DotsFile)}}

\* Calls in a message that would draw nothing.
CheckCalls(s, body) ==
  IF ~s.configured THEN {}
  ELSE {Note("warning", "no such string") :
          l \in {k \in Calls(body, StringInsert) : ~IsOfType(s, k, StringFile)}}
       \cup {Note("warning", "no such picture") :
          l \in {k \in Calls(body, DotsInsert) : ~IsOfType(s, k, DotsFile)}}
       \cup {Note("warning", "blank picture") :
          l \in {k \in Calls(body, DotsInsert) :
                   IsOfType(s, k, DotsFile) /\ k \notin DOMAIN s.pictures}}

WritePriority(s, c) ==
  IF c.body = <<>>
    THEN Outcome([s EXCEPT !.priority = <<>>], {Note("info", "released")})
    ELSE Outcome([s EXCEPT !.priority = Slice(c.body, 0, PriorityCapacity)],
                {Note("info", "priority message up")}
                  \cup IF Len(c.body) > PriorityCapacity
                         THEN {Note("warning", "priority message cut")} ELSE {})

\* The first file of the table is given what is left of the pool.
Overflows(s, c) ==
  s.configured /\ Len(c.body) > EntryOf(s, c.label).capacity
IsFirst(s, l) == s.table # <<>> /\ s.table[1].label = l

\* A write with no start of mode keeps the mode the file had.
Stored(s, c) ==
  [body |-> c.body,
   mode |-> IF ~c.som /\ c.label \in DOMAIN s.files
              THEN s.files[c.label].mode ELSE c.mode,
   kept |-> IF Overflows(s, c) /\ ~IsFirst(s, c.label)
              THEN EntryOf(s, c.label).capacity ELSE Len(c.body)]

WriteTextFile(s, c) ==
  LET calls == CheckCalls(s, c.body)
      cut == IF ~Overflows(s, c) THEN {}
             ELSE IF IsFirst(s, c.label) THEN {Note("info", "probably fits")}
             ELSE {Note("warning", "message cut")}
      unseen == IF s.priority # <<>> THEN {Note("info", "under an alert")}
                ELSE IF c.body # <<>> /\ c.label \notin ToSet(s.sequence)
                  THEN {Note("info", "not in the sequence")} ELSE {}
  IN IF c.label = PriorityFile
       THEN LET done == WritePriority(s, c) IN Outcome(done.sign, done.notes \cup calls)
     ELSE IF ~Writable(s, c.label)
       THEN Outcome(s, calls \cup {Note("violation", "discarded")})
     ELSE Outcome([s EXCEPT !.files = Put(@, c.label, Stored(s, c))],
                 calls \cup cut \cup unseen)

\* A value too long for its file empties it.
WriteStringFile(s, c) ==
  IF ~IsOfType(s, c.label, StringFile)
    THEN Outcome(s, {Note("violation", "discarded")})
  ELSE IF Len(c.body) > EntryOf(s, c.label).capacity
    THEN Outcome([s EXCEPT !.strings = Put(@, c.label, <<>>)],
                {Note("warning", "string emptied")})
  ELSE Outcome([s EXCEPT !.strings = Put(@, c.label, c.body)], {})

Width(rows) == CHOOSE w \in {0} \cup {Len(rows[i]) : i \in DOMAIN rows} :
                 \A i \in DOMAIN rows : Len(rows[i]) <= w

WriteDotsFile(s, c) ==
  LET e == EntryOf(s, c.label)
  IN IF ~IsOfType(s, c.label, DotsFile)
       THEN Outcome(s, {Note("violation", "discarded")})
     ELSE Outcome([s EXCEPT !.pictures = Put(@, c.label, c.rows)],
                 IF Len(c.rows) > Rows(e) \/ Width(c.rows) > Columns(e)
                   THEN {Note("warning", "draws damaged")} ELSE {})

-----------------------------------------------------------------------------
\* A file named twice is allocated once, where it was named first.
Table(es) ==
  Chosen(es, {i \in DOMAIN es : \A j \in 1 .. i - 1 : es[j].label # es[i].label})

Erased(s) == [s EXCEPT !.files = <<>>, !.strings = <<>>, !.pictures = <<>>]

\* A mistake to refute: a new file table leaves values and pictures in place.
SetMemoryKeeping(s, c) ==
  Outcome([s EXCEPT !.files = <<>>, !.configured = TRUE, !.table = Table(c.entries)], {})

SetMemoryConfig(s, c) ==
  LET new == [Erased(s) EXCEPT !.configured = TRUE, !.table = Table(c.entries)]
      notes == IF DOMAIN s.files \cup DOMAIN s.strings \cup DOMAIN s.pictures # {}
                 THEN {Note("warning", "files erased")} ELSE {Note("info", "configured")}
      twice == IF Distinct([i \in DOMAIN c.entries |-> c.entries[i].label])
                 THEN {} ELSE {Note("violation", "allocated twice")}
      dangling == IF \A l \in ToSet(s.sequence) : Exists(new, l)
                    THEN {} ELSE {Note("warning", "sequence dangles")}
  IN Outcome(new, notes \cup twice \cup dangling)

ClearMemory(s) ==
  Outcome([Erased(s) EXCEPT !.configured = FALSE, !.table = <<>>],
         {Note("warning", "cleared")})

SetRunSequence(s, c) ==
  Outcome([s EXCEPT !.sequence = c.labels],
         (IF Distinct(c.labels) THEN {} ELSE {Note("violation", "named twice")})
         \cup (IF \A l \in ToSet(c.labels) : Exists(s, l)
                 THEN {} ELSE {Note("warning", "sequence dangles")}))

\* A mistake to refute: a malformed command is applied like any other.
MalformedIsIgnored(c) == FALSE

IsTooIncomplete(c) == c.malformed

Apply(s, c) ==
  IF IsTooIncomplete(c) THEN Outcome(s, {Note("violation", "too incomplete")})
  ELSE CASE c.op = "text" -> WriteTextFile(s, c)
         [] c.op = "string" -> WriteStringFile(s, c)
         [] c.op = "dots" -> WriteDotsFile(s, c)
         [] c.op = "configure" -> SetMemoryConfig(s, c)
         [] c.op = "wipe" -> ClearMemory(s)
         [] c.op = "sequence" -> SetRunSequence(s, c)
         [] c.op = "time" -> Outcome([s EXCEPT !.time = c.body], {Note("info", "clock")})
         [] c.op = "day" -> Outcome([s EXCEPT !.day = c.body], {Note("info", "day")})
         [] c.op = "format" ->
              Outcome([s EXCEPT !.format = c.body], {Note("info", "format")})
         [] OTHER -> Outcome(s, {})

=============================================================================
