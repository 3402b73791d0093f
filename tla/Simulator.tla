----------------------------- MODULE Simulator -----------------------------
(***************************************************************************)
(* The sign simulator with clients attached: the endpoint (server.py) that *)
(* gives each connection a scanner, the window (window.py) that applies    *)
(* what is found to the sign, and clients whose transmissions reach it in  *)
(* pieces, are broken off, and are not read while capture is paused.       *)
(***************************************************************************)
EXTENDS FrameScanner, SimSign

CONSTANTS
  Sockets,    \* the connections there may be
  Commands,   \* what clients send, and mean
  Crafted,    \* payloads written by hand, that no builder builds
  Breakable,  \* payloads whose transmission may stop short
  Slack,      \* how much may be in flight when the next frame is begun
  MaxFrames,  \* how many frames clients send, all told
  MaxSplit    \* a read may stop inside a frame while no more have been begun

\* What the builders can be asked for: the kinds of their arguments.
IsMode(mode) ==
  mode \in Seq(Nat) /\ mode # <<>> /\ Len(mode) = IF mode[1] = SpecialMode THEN 2 ELSE 1
Allocations ==
  [label : Nat, type : Nat, locked : BOOLEAN, capacity : Nat, schedule : Nat]
IsMeant(c) ==
  \/ c \in {Release, Wipe}
  \/ c.op = "text" /\ c = Message(c.label, c.mode, c.body)
       /\ c.label \in Nat /\ IsMode(c.mode) /\ c.body \in Seq(Nat)
  \/ c.op = "string" /\ c = Value(c.label, c.body)
       /\ c.label \in Nat /\ c.body \in Seq(Nat)
  \/ c.op = "dots" /\ c = Picture(c.label, c.rows)
       /\ c.label \in Nat /\ c.rows \in Seq(Seq(Nat))
  \/ c.op = "configure" /\ c = Configuration(c.entries) /\ c.entries \in Seq(Allocations)
  \/ c.op = "sequence" /\ c = Sequence(c.labels) /\ c.labels \in Seq(Nat)
  \/ c.op \in {"time", "day"} /\ c = Clock(c.op, c.body) /\ c.body \in Seq(Nat)
       /\ Len(c.body) = IF c.op = "time" THEN 2 ELSE 1
  \/ c = Clock("format", c.body) /\ c.body \in Formats

Payloads == {Payload(c) : c \in Commands} \cup Crafted

\* What a frame can carry and still be told from what surrounds it: nothing in it
\* ends it, and no SOH in it is followed by an STX as a header's is.
IsPlain(payload) ==
  \A i \in DOMAIN payload :
    payload[i] # EOT /\ ~(payload[i] = SOH /\ IsHeader(payload, i))

ASSUME SimulatorAssumption ==
  /\ Slack \in Nat /\ MaxFrames \in Nat /\ MaxSplit \in Nat
  /\ Crafted \cup Breakable \subseteq Seq(Nat)
  /\ \A c \in Commands : IsMeant(c) /\ Buildable(c) /\ Payload(c) \in Seq(Nat)
  /\ \A p \in Payloads \cup Breakable : IsPlain(p)
  /\ \A p \in Payloads : Len(Header) + Len(p) + 1 <= MaxFrame

VARIABLES
  sign,     \* MainWindow._state
  paused,   \* SignEndpoint._paused
  scanner,  \* SignEndpoint._scanners, NoScanner for a socket not attached
  flight,   \* bytes sent and not yet read
  due,      \* history: whole frames sent, to be found
  sent,     \* how many frames have been begun
  cut,      \* history: whether the connection has carried a frame cut short
  lossy,    \* history: whether bytes have been dropped since it was attached
  last      \* history: what the last read found, and what was due before it

vars == <<sign, paused, scanner, flight, due, sent, cut, lossy, last>>
connection == <<scanner, flight, due, sent, cut, lossy>>

NoScanner == [buffer |-> <<>>, nulls |-> -1, junk |-> 0]
Attached(k) == scanner[k] # NoScanner
Whole(found) == Chosen(found, {i \in DOMAIN found : ~found[i].truncated})
NothingFound ==
  [found |-> <<>>, due |-> <<>>, notes |-> {}, before |-> Blank,
   cut |-> FALSE, lossy |-> FALSE]

Init ==
  /\ sign = Blank /\ paused = FALSE /\ sent = 0
  /\ scanner = [k \in Sockets |-> NoScanner]
  /\ flight = [k \in Sockets |-> <<>>]
  /\ due = [k \in Sockets |-> <<>>]
  /\ cut = [k \in Sockets |-> FALSE]
  /\ lossy = [k \in Sockets |-> FALSE]
  /\ last = NothingFound

-----------------------------------------------------------------------------
(* The clients.                                                            *)
Begins(k) ==
  /\ Attached(k) /\ Len(flight[k]) <= Slack
  /\ sent < MaxFrames /\ sent' = sent + 1
  /\ last' = NothingFound
  /\ UNCHANGED <<sign, paused, scanner>>

\* A frame begun when nothing of an earlier one is left, and read whole, is due.
Clean(k) == ~lossy[k] \/ (~paused /\ flight[k] = <<>> /\ scanner[k].buffer = <<>>)

Send(k, payload) ==
  /\ Begins(k)
  /\ flight' = [flight EXCEPT ![k] = @ \o Packet(payload)]
  /\ lossy' = [lossy EXCEPT ![k] = ~Clean(k)]
  /\ due' = IF Clean(k)
              THEN [due EXCEPT ![k] = Append(@, Header \o payload \o <<EOT>>)]
              ELSE due
  /\ UNCHANGED cut

\* A frame that stops short, once its header is out, and is not taken up again.
SendCutShort(k, payload) ==
  /\ Begins(k) /\ ~cut[k]
  /\ \E n \in 0 .. Len(payload) :
       flight' = [flight EXCEPT ![k] =
                    @ \o SubSeq(Packet(payload), 1, WakeupNulls + Len(Header) + n)]
  /\ cut' = [cut EXCEPT ![k] = TRUE]
  /\ UNCHANGED <<due, lossy>>

-----------------------------------------------------------------------------
(* The endpoint and the window.                                            *)
Accept(k) ==
  /\ ~Attached(k)
  /\ scanner' = [scanner EXCEPT ![k] = Empty]
  /\ lossy' = [lossy EXCEPT ![k] = paused]
  /\ last' = NothingFound
  /\ UNCHANGED <<sign, paused, flight, due, sent, cut>>

\* The client goes: what was in flight goes with it, and so does its scanner.
DropClient(k) ==
  /\ Attached(k)
  /\ scanner' = [scanner EXCEPT ![k] = NoScanner]
  /\ flight' = [flight EXCEPT ![k] = <<>>]
  /\ due' = [due EXCEPT ![k] = <<>>]
  /\ cut' = [cut EXCEPT ![k] = FALSE]
  /\ lossy' = [lossy EXCEPT ![k] = FALSE]
  /\ last' = NothingFound
  /\ UNCHANGED <<sign, paused, sent>>

\* What is found is decoded and applied, one after the other.
Applied(s, found) ==
  LET after[n \in 0 .. Len(found)] ==
        IF n = 0 THEN Outcome(s, {})
        ELSE LET t == found[n]
             IN Apply(after[n - 1].sign, Decode(t.raw, t.truncated).command)
  IN after[Len(found)]

\* How much one read may take: a bound, at most two reads to a transmission.
Readable(k) ==
  {Len(flight[k])} \cup
    {n \in 1 .. Len(flight[k]) : scanner[k].buffer = <<>> /\ sent <= MaxSplit}

\* readyRead: some of what is in flight, read and decoded.
ReadSome(k) ==
  /\ Attached(k) /\ ~paused /\ flight[k] # <<>>
  /\ \E n \in Readable(k) :
       LET fed == Feed(scanner[k], SubSeq(flight[k], 1, n))
           done == Applied(sign, fed.found)
           whole == Whole(fed.found)
       IN /\ scanner' = [scanner EXCEPT ![k] = fed.scanner]
          /\ flight' = [flight EXCEPT ![k] = SubSeq(@, n + 1, Len(@))]
          /\ sign' = done.sign
          /\ due' = [due EXCEPT ![k] = SubSeq(@, 1 + Len(whole), Len(@))]
          /\ last' = IF fed.found = <<>> THEN NothingFound
                     ELSE [found |-> fed.found, due |-> due[k], notes |-> done.notes,
                           before |-> sign, cut |-> cut[k], lossy |-> lossy[k]]
  /\ UNCHANGED <<paused, sent, cut, lossy>>

\* readyRead while capture is paused: all there is, read and thrown away.
Discard(k) ==
  /\ Attached(k) /\ paused /\ flight[k] # <<>>
  /\ flight' = [flight EXCEPT ![k] = <<>>]
  /\ lossy' = [lossy EXCEPT ![k] = TRUE]
  /\ last' = NothingFound
  /\ UNCHANGED <<sign, paused, scanner, due, sent, cut>>

\* A mistake to refute: the scanners keep what they had when capture pauses.
PauseKeepingScanners ==
  /\ ~paused /\ paused' = TRUE
  /\ lossy' = [k \in Sockets |-> Attached(k)]
  /\ due' = [k \in Sockets |-> <<>>]
  /\ last' = NothingFound
  /\ UNCHANGED <<sign, scanner, flight, sent, cut>>

\* Scanners are reset on the way in, since what comes next is thrown away.
Pause ==
  /\ ~paused /\ paused' = TRUE
  /\ scanner' = [k \in Sockets |-> IF Attached(k) THEN Empty ELSE NoScanner]
  /\ lossy' = [k \in Sockets |-> Attached(k)]
  /\ due' = [k \in Sockets |-> <<>>]
  /\ last' = NothingFound
  /\ UNCHANGED <<sign, flight, sent, cut>>

Resume ==
  /\ paused /\ paused' = FALSE
  /\ last' = NothingFound
  /\ UNCHANGED <<sign, connection>>

ResetSign ==
  /\ sign' = Blank /\ last' = NothingFound
  /\ UNCHANGED <<paused, connection>>

Next ==
  \/ \E k \in Sockets :
       \/ \E p \in Payloads : Send(k, p)
       \/ \E p \in Breakable : SendCutShort(k, p)
       \/ Accept(k) \/ DropClient(k) \/ ReadSome(k) \/ Discard(k)
  \/ Pause \/ Resume \/ ResetSign

Spec == Init /\ [][Next]_vars

-----------------------------------------------------------------------------
TypeOK ==
  /\ paused \in BOOLEAN /\ sent \in 0 .. MaxFrames
  /\ \A k \in Sockets :
       /\ scanner[k].nulls \in Nat \/ ~Attached(k)
       /\ ~Attached(k) => flight[k] = <<>> /\ due[k] = <<>>
       /\ Attached(k) /\ paused => scanner[k] = Empty

\* A peer that never ends its frame does not grow the buffer without bound; only
\* a byte that may begin a header is waited for: _overlong.
EndlessFramesAreGivenUp ==
  \A k \in Sockets :
    LET buffer == scanner[k].buffer
    IN Len(buffer) > MaxFrame =>
         SOH \in ToSet(SubSeq(buffer, Len(buffer) - 3, Len(buffer)))

\* The endpoint's own state: what a scanner holds is bounded, and nothing of it
\* survives a pause or the client.
SimulatorInv == TypeOK /\ EndlessFramesAreGivenUp

\* However a stream is cut into reads, each frame sent whole is found whole and
\* in its turn, before and after a frame that was broken off: FrameScanner.
WholeFramesAreFound ==
  ~last.lossy =>
    IsPrefix([i \in DOMAIN Whole(last.found) |-> Whole(last.found)[i].raw], last.due)

\* A frame that has been read to its EOT is never held back for more to come:
\* the deadlock _next_header's comment is about.
NothingIsHeldBack ==
  \A k \in Sockets : Attached(k) /\ ~lossy[k] /\ flight[k] = <<>> => due[k] = <<>>

\* A transmission is reported as truncated only on a connection that carried a
\* truncated one; a pause or a split read invents none: set_paused and feed.
NoTruncationIsInvented ==
  \A i \in DOMAIN last.found : last.found[i].truncated => last.cut

\* What the service builds and what the simulator reads are the same command:
\* frames.py against decode.py, over the wire and the scanner.
CommandsReadAsMeant ==
  \A i \in DOMAIN last.found : \A c \in Commands :
    /\ ~last.found[i].truncated
    /\ last.found[i].raw = Header \o Payload(c) \o <<EOT>>
    => Decode(last.found[i].raw, FALSE).command = c

\* Every byte of a frame belongs to exactly one span, in its place, also in
\* frames cut short or that make no sense: the hex view's invariant.
SpansCoverTheFrame ==
  \A i \in DOMAIN last.found :
    LET t == last.found[i]
        spans == Decode(t.raw, t.truncated).spans
    IN /\ FlattenSeq([j \in DOMAIN spans |-> spans[j].data]) = t.raw
       /\ \A j \in DOMAIN spans :
            SubSeq(t.raw, spans[j].at + 1, spans[j].at + Len(spans[j].data)) = spans[j].data

\* The sign never holds in a file what its file table has no place for, through
\* rewritten tables, wipes and tables that give a label another type: model.py.
HeldWhereAllocated ==
  /\ \A l \in DOMAIN sign.files : Exists(sign, l)
  /\ \A l \in DOMAIN sign.strings :
       IsOfType(sign, l, StringFile) /\ Len(sign.strings[l]) <= EntryOf(sign, l).capacity
  /\ \A l \in DOMAIN sign.pictures : IsOfType(sign, l, DotsFile)

\* An alert ends through the bytes of an empty write to the priority file, its
\* label alone or a start of mode with nothing after it, and through nothing else
\* that arrives: no file table, wipe, clock setting or sequence, nor a write that
\* stops inside its start of mode (_write_priority, _set_memory_config).  They
\* may be a whole write or what arrived of a longer one: the window applies what
\* it has of a frame that was broken off, so an alert cut right behind its label
\* ends the one that is up, though a sign would have discarded it (see
\* CutShortChangesNothing).
Bytes(t) ==
  Slice(t.raw, Len(Header), IF t.truncated THEN Len(t.raw) ELSE Len(t.raw) - 1)
IsEmptyWrite(p) ==
  /\ Len(p) \in {2, 5, 6} /\ p[1] = WriteText /\ p[2] = PriorityFile
  /\ Len(p) > 2 => p[3] = SOM
  /\ Len(p) = 6 => p[5] = SpecialMode
AlertsEndByRelease ==
  last.before.priority # <<>> /\ Playing(sign) # <<PriorityFile>> =>
    \E i \in DOMAIN last.found : IsEmptyWrite(Bytes(last.found[i]))

\* Where the sign does not hold what it was sent, or a call in it draws nothing,
\* a note says so: the purpose of model.py ("a line saying what the sign just did
\* quietly").
Holds(s, c) ==
  CASE c.op = "text" ->
         /\ IF c.label = PriorityFile THEN s.priority = c.body
            ELSE /\ c.label \in DOMAIN s.files
                 /\ s.files[c.label].body = c.body
                 /\ s.files[c.label].kept = Len(c.body)
         /\ s.configured =>
              /\ \A i \in DOMAIN Annotate(c.body) :
                   Annotate(c.body)[i][1] = DotsInsert =>
                     Len(Annotate(c.body)[i]) = 1 \/ Drawn(s, c.body)[i] # <<>>
              /\ \A l \in Calls(c.body, StringInsert) : IsOfType(s, l, StringFile)
    [] c.op = "string" -> c.label \in DOMAIN s.strings /\ s.strings[c.label] = c.body
    [] c.op = "dots" -> c.label \in DOMAIN s.pictures /\ s.pictures[c.label] = c.rows
    [] OTHER -> TRUE
QuietLossesAreNoted ==
  Len(last.found) = 1 =>
    \/ Holds(sign, Decode(last.found[1].raw, last.found[1].truncated).command)
    \/ \E n \in last.notes : n.level \in {"warning", "violation"}

\* A frame broken off by the next changes nothing: framing.py says "the sign would
\* have discarded it".  TLC refutes it: the window applies what it has of it.
CutShortChangesNothing ==
  Len(last.found) = 1 /\ last.found[1].truncated => sign = last.before

=============================================================================
