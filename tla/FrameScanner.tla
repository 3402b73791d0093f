---------------------------- MODULE FrameScanner ----------------------------
(***************************************************************************)
(* Whole transmissions out of a stream that arrives in pieces: framing.py  *)
(* of tools/signsim/signsim.  A scanner is a record of what it has         *)
(* buffered and of what it has passed over since the last transmission;    *)
(* its methods are operators from a scanner to a scanner.                  *)
(***************************************************************************)
EXTENDS Frames

CONSTANTS
  ExpectedNulls,  \* EXPECTED_WAKEUP_NULLS
  MaxFrame        \* MAX_FRAME_BYTES: past this a frame is given up on

ASSUME ScannerAssumption ==
  ExpectedNulls \in Nat /\ MaxFrame \in Nat /\ MaxFrame >= Len(Header)

Empty == [buffer |-> <<>>, nulls |-> 0, junk |-> 0]

\* buffer.find(byte, from, until), positions counted from 1; 0 for none.
Places(buffer, byte, from, until) == {i \in from .. until : buffer[i] = byte}
Find(buffer, byte, from, until) ==
  LET places == Places(buffer, byte, from, until)
  IN IF places = {} THEN 0 ELSE Min(places)

\* n bytes at the front of the buffer are passed over: nulls, or junk.
Absorb(s, n) ==
  LET passed == SubSeq(s.buffer, 1, n)
      nulls == Cardinality({i \in 1 .. n : passed[i] = NUL})
  IN [buffer |-> SubSeq(s.buffer, n + 1, Len(s.buffer)),
      nulls |-> s.nulls + nulls, junk |-> s.junk + n - nulls]

IsHeader(buffer, i) == i + 4 <= Len(buffer) /\ buffer[i + 4] = STX

-----------------------------------------------------------------------------
(* From a header to the EOT, or to the next header.                        *)

\* A mistake to refute: every SOH is taken for the start of a transmission.
NextHeaderIsAnySOH(buffer, end) ==
  [at |-> Find(buffer, SOH, Len(Header) + 1, IF end > 0 THEN end - 1 ELSE Len(buffer)),
   waiting |-> FALSE]

\* A mistake to refute: a late candidate is waited for though the EOT is in.
NextHeaderAlwaysWaits(buffer, end) ==
  LET until == IF end > 0 THEN end - 1 ELSE Len(buffer)
      sohs == Places(buffer, SOH, Len(Header) + 1, until)
      headers == {i \in sohs : IsHeader(buffer, i)}
      late == {i \in sohs : i + 4 > Len(buffer)}
  IN [at |-> IF headers = {} THEN 0 ELSE Min(headers),
      waiting |-> headers = {} /\ late # {}]

\* The next real header, and whether more must be read to tell.
NextHeader(buffer, end) ==
  LET until == IF end > 0 THEN end - 1 ELSE Len(buffer)
      sohs == Places(buffer, SOH, Len(Header) + 1, until)
      headers == {i \in sohs : IsHeader(buffer, i)}
      late == {i \in sohs : i + 4 > Len(buffer)}
  IN [at |-> IF headers = {} THEN 0 ELSE Min(headers),
      waiting |-> headers = {} /\ late # {} /\ end = 0]

\* A transmission of the first n bytes, and the scanner without them.
Build(s, n, truncated) ==
  [scanner |-> [Empty EXCEPT !.buffer = SubSeq(s.buffer, n + 1, Len(s.buffer))],
   found |-> <<[raw |-> SubSeq(s.buffer, 1, n), truncated |-> truncated,
                complaints |->
                  (IF s.nulls < ExpectedNulls THEN {"nulls"} ELSE {})
                  \cup (IF s.junk > 0 THEN {"junk"} ELSE {})
                  \cup (IF s.buffer[2] # Header[2] THEN {"sign type"} ELSE {})
                  \cup (IF truncated THEN {"no EOT"} ELSE {})]>>]

Waits(s) == [scanner |-> s, found |-> <<>>]

\* A mistake to refute: a frame that never ends is never given up on.
OverlongNever(s) == Waits(s)

Overlong(s) ==
  IF Len(s.buffer) <= MaxFrame THEN Waits(s) ELSE Build(s, Len(s.buffer), TRUE)

ReadFrame(s) ==
  LET end == Find(s.buffer, EOT, Len(Header) + 1, Len(s.buffer))
      next == NextHeader(s.buffer, end)
      cut == next.at > 0 /\ (end = 0 \/ next.at < end)
  IN CASE next.waiting -> Waits(s)
       [] ~next.waiting /\ cut -> Build(s, next.at - 1, TRUE)
       [] ~next.waiting /\ ~cut /\ end = 0 -> Overlong(s)
       [] OTHER -> Build(s, end, FALSE)

-----------------------------------------------------------------------------
\* Where a header begins, or may: one that is not all there cannot be told yet.
Starts(buffer) ==
  {i \in DOMAIN buffer :
     buffer[i] = SOH /\ (IsHeader(buffer, i) \/ i + 4 > Len(buffer))}

\* What comes before a header is passed over, a bare SOH with the rest of it.
TakeOne(s) ==
  LET starts == Starts(s.buffer)
      at == Absorb(s, IF starts = {} THEN Len(s.buffer) ELSE Min(starts) - 1)
  IN IF Len(at.buffer) < Len(Header) THEN Waits(at) ELSE ReadFrame(at)

\* Everything the bytes so far make whole, in order: no transmission is shorter
\* than a header, and the last look finds none.
Scan(s) ==
  LET after[n \in 0 .. 1 + Len(s.buffer) \div Len(Header)] ==
        IF n = 0 THEN Waits(s)
        ELSE LET so == after[n - 1]
                 one == TakeOne(so.scanner)
             IN [scanner |-> one.scanner, found |-> so.found \o one.found]
  IN after[1 + Len(s.buffer) \div Len(Header)]

Feed(s, data) == Scan([s EXCEPT !.buffer = @ \o data])

=============================================================================
