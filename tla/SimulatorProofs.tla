--------------------------- MODULE SimulatorProofs ---------------------------
(* The sign simulator, for any clients, commands and payloads, and however *)
(* the stream is cut into reads.                                           *)
EXTENDS Simulator, FiniteSetTheorems, SequenceTheorems, TLAPS

-----------------------------------------------------------------------------
(* Counting from nothing to a number, without an operator to instantiate.  *)

LEMMA IntervalInduction ==
  ASSUME NEW N \in Nat, NEW T, 0 \in T,
         \A n \in 1 .. N : n - 1 \in T => n \in T
  PROVE  0 .. N \subseteq T
  <1> DEFINE S == 1 .. N
             Below(n) == 1 .. n
             Bad == {Below(n) : n \in (0 .. N) \ T}
             R == StrictSubsetOrdering(S)
  <1>1. SUFFICES ASSUME Bad # {} PROVE FALSE
    BY DEF Bad
  <1>2. IsFiniteSet(S)
    BY FS_Interval
  <1>3. IsWellFoundedOn(R, SUBSET S)
    BY <1>2, FS_StrictSubsetOrderingWellFounded, FS_FiniteSubsetsOfFinite
  <1>4. Bad \subseteq SUBSET S
    BY DEF Bad
  <1> HIDE DEF R, Bad
  <1>5. PICK X \in Bad : \A Y \in Bad : <<Y, X>> \notin R
    BY <1>1, <1>3, <1>4, WFMin
  <1> USE DEF Bad
  <1>6. PICK n \in (0 .. N) \ T : X = Below(n)
    BY <1>5
  <1>7. n \in 1 .. N /\ n - 1 \in (0 .. N) \ T
    BY <1>6
  <1>8. Below(n - 1) \in Bad
    BY <1>7
  <1>9. <<Below(n - 1), Below(n)>> \in R
    <2>1. Below(n - 1) \subseteq Below(n) /\ n \in Below(n) /\ n \notin Below(n - 1)
      BY <1>7
    <2>2. Below(n) \subseteq S
      BY <1>7
    <2> QED
      BY <2>1, <2>2 DEF R, StrictSubsetOrdering
  <1> QED
    BY <1>5, <1>6, <1>8, <1>9

\* What goes from one number to the next, and what is reached by it.
Steps(N, S) == [(1 .. N) \X S -> S]
IsRun(g, N, S, base, step) ==
  /\ g \in [0 .. N -> S] /\ g[0] = base
  /\ \A n \in 1 .. N : g[n] = step[<<n, g[n - 1]>>]

(* A function that is defined from one number to the next exists.          *)
LEMMA StepsCanBeTaken ==
  ASSUME NEW N \in Nat, NEW S, NEW base \in S, NEW step \in Steps(N, S)
  PROVE  \E g : IsRun(g, N, S, base, step)
  <1> USE DEF Steps, IsRun
  <1> DEFINE Made(g, n) ==
               /\ g \in [0 .. n -> S] /\ g[0] = base
               /\ \A k \in 1 .. n : g[k] = step[<<k, g[k - 1]>>]
             T == {n \in 0 .. N : \E g : Made(g, n)}
  <1>1. 0 \in T
    <2> DEFINE g == [k \in 0 .. 0 |-> base]
    <2>1. Made(g, 0)
      <3>1. 0 \in 0 .. 0 /\ 1 .. 0 = {}
        OBVIOUS
      <3> QED
        BY <3>1
    <2>2. \E h : Made(h, 0)
      BY <2>1
    <2> QED
      BY <2>2
  <1>2. \A n \in 1 .. N : n - 1 \in T => n \in T
    <2>0. SUFFICES ASSUME NEW n \in 1 .. N, n - 1 \in T
                   PROVE  n \in T
      OBVIOUS
    <2>1. PICK g : Made(g, n - 1)
      BY <2>0
    <2> DEFINE x == step[<<n, g[n - 1]>>]
               h == [k \in 0 .. n |-> IF k = n THEN x ELSE g[k]]
    <2>2. n - 1 \in 0 .. n - 1 /\ g[n - 1] \in S /\ x \in S
      BY <2>1
    <2>3. \A k \in 0 .. n - 1 : k \in 0 .. n /\ k # n
      BY <2>1
    <2> HIDE DEF x
    <2>4. h \in [0 .. n -> S] /\ \A k \in 0 .. n - 1 : h[k] = g[k]
      BY <2>1, <2>2, <2>3
    <2>5. h[n] = x
      BY <2>1
    <2>6. h[0] = base
      BY <2>1, <2>4
    <2>7. ASSUME NEW k \in 1 .. n
          PROVE  h[k] = step[<<k, h[k - 1]>>]
      <3>1. k - 1 \in 0 .. n - 1 /\ h[k - 1] = g[k - 1]
        BY <2>1, <2>4
      <3>2. CASE k = n
        BY <2>5, <3>1, <3>2 DEF x
      <3>3. CASE k # n
        <4>1. k \in 1 .. n - 1 /\ k \in 0 .. n - 1
          BY <2>1, <3>3
        <4> QED
          BY <2>1, <2>4, <3>1, <4>1
      <3> QED
        BY <3>2, <3>3
    <2>8. Made(h, n)
      <3> HIDE DEF h
      <3> QED
        BY <2>4, <2>6, <2>7
    <2>9. \E f : Made(f, n)
      BY <2>8
    <2> QED
      BY <2>9
  <1>3. 0 .. N \subseteq T
    <2> HIDE DEF T
    <2> QED
      BY <1>1, <1>2, IntervalInduction
  <1>4. N \in 0 .. N
    OBVIOUS
  <1>5. N \in T
    BY <1>3, <1>4
  <1> QED
    BY <1>5

LEMMA LeastIsThere ==
  ASSUME NEW S \in SUBSET Nat, S # {}
  PROVE  Min(S) \in S /\ \A y \in S : Min(S) <= y
  <1> SUFFICES \E x \in S : \A y \in S : x <= y
    BY DEF Min
  <1>1. SUFFICES ASSUME \A x \in S : \E y \in S : y < x
                 PROVE  FALSE
    OBVIOUS
  <1>2. PICK N \in S : TRUE
    OBVIOUS
  <1> DEFINE T == {n \in Nat : \A y \in S : n < y}
  <1>3. 0 \in T
    BY <1>1
  <1>4. \A n \in 1 .. N : n - 1 \in T => n \in T
    <2>1. SUFFICES ASSUME NEW n \in 1 .. N, n - 1 \in T, NEW y \in S, ~(n < y)
                   PROVE  FALSE
      OBVIOUS
    <2>2. n = y
      BY <2>1
    <2>3. PICK z \in S : z < y
      BY <1>1
    <2> QED
      BY <2>1, <2>2, <2>3
  <1>5. 0 .. N \subseteq T
    <2> HIDE DEF T
    <2> QED
      BY <1>2, <1>3, <1>4, IntervalInduction
  <1> QED
    BY <1>2, <1>5

-----------------------------------------------------------------------------
(* Sequences.                                                              *)

LEMMA Elements ==
  ASSUME NEW S, NEW s \in Seq(S)
  PROVE  /\ ToSet(s) = {s[i] : i \in 1 .. Len(s)} /\ ToSet(s) \subseteq S
         /\ DOMAIN s = 1 .. Len(s) /\ Len(s) \in Nat
  BY DEF ToSet

Chooses(s, places, upTo) ==
  upTo = [n \in 0 .. Len(s) |->
            IF n = 0 THEN <<>>
            ELSE IF n \in places THEN Append(upTo[n - 1], s[n])
            ELSE upTo[n - 1]]

LEMMA ChosenIs ==
  ASSUME NEW S, NEW s \in Seq(S), NEW places
  PROVE  \E upTo : Chooses(s, places, upTo) /\ Chosen(s, places) = upTo[Len(s)]
  <1> DEFINE N == Len(s)
             Q == Seq(S)
             step == [x \in (1 .. N) \X Q |->
                        IF x[1] \in places THEN Append(x[2], s[x[1]]) ELSE x[2]]
  <1>1. N \in Nat /\ <<>> \in Q /\ \A n \in 1 .. N : s[n] \in S
    OBVIOUS
  <1>2. \A n \in 1 .. N : \A q \in Q :
          /\ step[<<n, q>>] = IF n \in places THEN Append(q, s[n]) ELSE q
          /\ step[<<n, q>>] \in Q
    BY <1>1
  <1>3. step \in [(1 .. N) \X Q -> Q]
    BY <1>1
  <1>4. PICK g \in [0 .. N -> Q] :
               g[0] = <<>> /\ \A n \in 1 .. N : g[n] = step[<<n, g[n - 1]>>]
    <2>1. step \in Steps(N, Q)
      BY <1>3 DEF Steps
    <2>2. \E g : IsRun(g, N, Q, <<>>, step)
      <3> HIDE DEF step, Q, N
      <3> QED
        BY <1>1, <2>1, StepsCanBeTaken
    <2> HIDE DEF step, Q, N
    <2> QED
      BY <2>2 DEF IsRun
  <1>5. ASSUME NEW n \in 0 .. N
        PROVE  g[n] = IF n = 0 THEN <<>>
                      ELSE IF n \in places THEN Append(g[n - 1], s[n])
                      ELSE g[n - 1]
    <2>1. CASE n = 0
      BY <1>4, <2>1
    <2>2. CASE n # 0
      <3>1. n \in 1 .. N /\ n - 1 \in 0 .. N
        BY <1>1, <2>2
      <3> HIDE DEF step, Q, N
      <3>2. g[n - 1] \in Q
        BY <1>4, <3>1
      <3> QED
        BY <1>2, <1>4, <2>2, <3>1, <3>2
    <2> QED
      BY <2>1, <2>2
  <1>6. Chooses(s, places, g)
    BY <1>4, <1>5 DEF Chooses
  <1>7. Chosen(s, places) = (CHOOSE upTo : Chooses(s, places, upTo))[Len(s)]
    BY Zenon DEF Chosen, Chooses
  <1> QED
    BY <1>6, <1>7

(* What is chosen is what is in those places.                              *)
LEMMA ChosenAreThere ==
  ASSUME NEW S, NEW s \in Seq(S), NEW places
  PROVE  /\ Chosen(s, places) \in Seq(S)
         /\ \A i \in DOMAIN Chosen(s, places) :
              \E j \in places \cap DOMAIN s : Chosen(s, places)[i] = s[j]
  <1> DEFINE N == Len(s)
             Fine(q) == /\ q \in Seq(S)
                        /\ \A i \in 1 .. Len(q) :
                             \E j \in places \cap (1 .. N) : q[i] = s[j]
  <1>1. PICK g : Chooses(s, places, g) /\ Chosen(s, places) = g[N]
    BY ChosenIs
  <1> DEFINE T == {n \in 0 .. N : Fine(g[n])}
  <1>2. N \in Nat /\ \A n \in 1 .. N : n \in 0 .. N /\ n # 0
    OBVIOUS
  <1>3. /\ g[0] = <<>>
        /\ \A n \in 1 .. N :
             g[n] = IF n \in places THEN Append(g[n - 1], s[n]) ELSE g[n - 1]
    <2>1. \A n \in 0 .. N :
            g[n] = IF n = 0 THEN <<>>
                   ELSE IF n \in places THEN Append(g[n - 1], s[n])
                   ELSE g[n - 1]
      BY <1>1 DEF Chooses
    <2>2. 0 \in 0 .. N
      BY <1>2
    <2> HIDE DEF N
    <2> QED
      BY <1>2, <2>1, <2>2
  <1>4. 0 \in T
    <2>1. Fine(<<>>) /\ 0 \in 0 .. N
      BY <1>2
    <2> QED
      BY <1>3, <2>1
  <1>5. ASSUME NEW n \in 1 .. N, n - 1 \in T PROVE n \in T
    <2>1. Fine(g[n - 1]) /\ n \in 0 .. N
      BY <1>2, <1>5
    <2>2. CASE n \in places
      <3>1. g[n] = Append(g[n - 1], s[n]) /\ s[n] \in S
        <4>1. s[n] \in S
          OBVIOUS
        <4> HIDE DEF N, T, Fine
        <4> QED
          BY <1>3, <2>2, <4>1
      <3>2. ASSUME NEW q, Fine(q) PROVE Fine(Append(q, s[n]))
        BY <2>2, <3>1, <3>2
      <3>3. Fine(g[n])
        <4> HIDE DEF Fine
        <4> QED
          BY <2>1, <3>1, <3>2
      <3> QED
        BY <2>1, <3>3
    <2>3. CASE n \notin places
      <3>1. g[n] = g[n - 1]
        BY <1>3, <2>3
      <3> HIDE DEF Fine
      <3> QED
        BY <2>1, <3>1
    <2> QED
      BY <2>2, <2>3
  <1>6. 0 .. N \subseteq T
    <2> HIDE DEF T
    <2> QED
      BY <1>2, <1>4, <1>5, IntervalInduction
  <1>7. N \in T
    BY <1>2, <1>6
  <1>8. Fine(Chosen(s, places))
    BY <1>1, <1>7
  <1>9. DOMAIN s = 1 .. N
    OBVIOUS
  <1> QED
    BY <1>8, <1>9

-----------------------------------------------------------------------------
(* The scanner.                                                            *)
Scanners == [buffer : Seq(Nat), nulls : Nat, junk : Nat]

\* What a scanner makes of the stream: no transmission is shorter than a header,
\* and one that is whole ends with its EOT.
IsTransmission(t) ==
  /\ Len(t.raw) >= 5
  /\ ~t.truncated => Len(t.raw) >= 6 /\ t.raw[Len(t.raw)] = EOT
Complaints == {"nulls", "junk", "sign type", "no EOT"}
Transmissions ==
  {t \in [raw : Seq(Nat), truncated : BOOLEAN, complaints : SUBSET Complaints] :
     IsTransmission(t)}
Results == [scanner : Scanners, found : Seq(Transmissions)]

\* What may still wait in a buffer: less than the longest frame, or a byte near
\* its end that may begin a header.
GivenUp(buffer) ==
  Len(buffer) > MaxFrame =>
    SOH \in ToSet(SubSeq(buffer, Len(buffer) - 3, Len(buffer)))

(* The part of a sequence from one place to another.                       *)
LEMMA Part ==
  ASSUME NEW S, NEW s \in Seq(S), NEW m \in Nat, NEW n \in 0 .. Len(s)
  PROVE  LET q == SubSeq(s, m + 1, n)
         IN /\ q \in Seq(S)
            /\ Len(q) = IF m <= n THEN n - m ELSE 0
            /\ \A i \in 1 .. Len(q) : q[i] = s[m + i]
  <1>1. \A i \in m + 1 .. n : s[i] \in S
    OBVIOUS
  <1> QED
    BY <1>1, SubSeqProperties

(* Bytes that are passed over are counted, and the rest is kept.           *)
LEMMA AbsorbTyped ==
  ASSUME NEW s \in Scanners, NEW n \in 0 .. Len(s.buffer)
  PROVE  /\ Absorb(s, n) \in Scanners
         /\ Absorb(s, n).buffer = SubSeq(s.buffer, n + 1, Len(s.buffer))
         /\ n = 0 => Absorb(s, n) = s
  <1> DEFINE passed == SubSeq(s.buffer, 1, n)
             these == {i \in 1 .. n : passed[i] = NUL}
             nulls == Cardinality(these)
  <1>1. s.buffer \in Seq(Nat) /\ s.nulls \in Nat /\ s.junk \in Nat /\ n \in Nat
    BY DEF Scanners
  <1>2. nulls \in Nat /\ nulls <= n
    <2>0. /\ IsFiniteSet(1 .. n)
          /\ Cardinality(1 .. n) = IF 1 > n THEN 0 ELSE n - 1 + 1
      <3>1. 1 \in Int /\ n \in Int
        BY <1>1
      <3> QED
        BY <3>1, FS_Interval, Zenon
    <2>1. IsFiniteSet(1 .. n) /\ Cardinality(1 .. n) = n
      BY <1>1, <2>0
    <2>2. these \subseteq 1 .. n
      OBVIOUS
    <2> HIDE DEF these
    <2> QED
      BY <2>1, <2>2, FS_Subset, FS_CardinalityType
  <1>3. n = 0 => nulls = 0
    <2>1. n = 0 => these = {}
      BY <1>1
    <2> QED
      BY <2>1, FS_EmptySet
  <1>4. SubSeq(s.buffer, n + 1, Len(s.buffer)) \in Seq(Nat)
    BY <1>1, Part
  <1>5. n = 0 => SubSeq(s.buffer, n + 1, Len(s.buffer)) = s.buffer
    BY <1>1, SubSeqFull
  <1>6. Absorb(s, n) = [buffer |-> SubSeq(s.buffer, n + 1, Len(s.buffer)),
                        nulls |-> s.nulls + nulls, junk |-> s.junk + n - nulls]
    BY DEF Absorb
  <1>7. s = [buffer |-> s.buffer, nulls |-> s.nulls, junk |-> s.junk]
    BY DEF Scanners
  <1> HIDE DEF nulls
  <1>8. s.nulls + nulls \in Nat /\ s.junk + n - nulls \in Nat
    BY <1>1, <1>2
  <1>9. Absorb(s, n) \in Scanners
    BY <1>4, <1>6, <1>8 DEF Scanners
  <1>10. n = 0 => Absorb(s, n) = s
    BY <1>1, <1>3, <1>5, <1>6, <1>7
  <1> QED
    BY <1>6, <1>9, <1>10

(* A transmission takes its bytes from the front, and nothing stays counted. *)
LEMMA BuildTyped ==
  ASSUME NEW s \in Scanners, NEW n \in 5 .. Len(s.buffer), NEW truncated \in BOOLEAN,
         ~truncated => n >= 6 /\ s.buffer[n] = EOT
  PROVE  LET r == Build(s, n, truncated)
         IN /\ r \in Results /\ r.found # <<>>
            /\ Len(r.scanner.buffer) = Len(s.buffer) - n
  <1> DEFINE raw == SubSeq(s.buffer, 1, n)
             rest == SubSeq(s.buffer, n + 1, Len(s.buffer))
             complaints ==
               (IF s.nulls < ExpectedNulls THEN {"nulls"} ELSE {})
               \cup (IF s.junk > 0 THEN {"junk"} ELSE {})
               \cup (IF s.buffer[2] # Header[2] THEN {"sign type"} ELSE {})
               \cup (IF truncated THEN {"no EOT"} ELSE {})
             t == [raw |-> raw, truncated |-> truncated, complaints |-> complaints]
             after == [buffer |-> rest, nulls |-> 0, junk |-> 0]
  <1>1. s.buffer \in Seq(Nat)
    BY DEF Scanners
  <1>2. n \in Nat /\ n \in 0 .. Len(s.buffer) /\ n >= 5 /\ Len(s.buffer) \in Nat
    BY <1>1
  <1>3. raw \in Seq(Nat) /\ Len(raw) = n /\ \A i \in 1 .. n : raw[i] = s.buffer[i]
    BY <1>1, <1>2, Part
  <1>4. rest \in Seq(Nat) /\ Len(rest) = Len(s.buffer) - n
    BY <1>1, <1>2, Part
  <1>5. complaints \in SUBSET Complaints
    <2>1. /\ (IF s.nulls < ExpectedNulls THEN {"nulls"} ELSE {}) \subseteq Complaints
          /\ (IF s.junk > 0 THEN {"junk"} ELSE {}) \subseteq Complaints
          /\ (IF s.buffer[2] # Header[2] THEN {"sign type"} ELSE {}) \subseteq Complaints
          /\ (IF truncated THEN {"no EOT"} ELSE {}) \subseteq Complaints
      BY DEF Complaints
    <2> QED
      BY <2>1, Zenon
  <1>6. Build(s, n, truncated) = [scanner |-> after, found |-> <<t>>]
    <2>1. [Empty EXCEPT !.buffer = rest] = after
      <3> HIDE DEF rest
      <3> QED
        BY DEF Empty
    <2> QED
      BY <2>1, Zenon DEF Build
  <1>7. t \in Transmissions
    <2> HIDE DEF complaints, raw
    <2>1. t \in [raw : Seq(Nat), truncated : BOOLEAN, complaints : SUBSET Complaints]
      BY <1>3, <1>5
    <2>2. IsTransmission(t)
      BY <1>2, <1>3 DEF IsTransmission
    <2> QED
      BY <2>1, <2>2 DEF Transmissions
  <1>8. after \in Scanners
    BY <1>4 DEF Scanners
  <1> HIDE DEF t, after
  <1>9. Build(s, n, truncated) \in Results /\ <<t>> # <<>>
    BY <1>6, <1>7, <1>8 DEF Results
  <1>10. Build(s, n, truncated).scanner = after /\ Build(s, n, truncated).found = <<t>>
    BY <1>6
  <1>11. Len(after.buffer) = Len(s.buffer) - n
    BY <1>4 DEF after
  <1> QED
    BY <1>9, <1>10, <1>11, Zenon

LEMMA HeaderIsFive == Len(Header) = 5 /\ MaxFrame \in Nat /\ MaxFrame >= 5
  <1>1. Len(Header) = 5
    BY DEF Header
  <1> QED
    BY <1>1, ScannerAssumption

LEMMA FindFinds ==
  ASSUME NEW buffer, NEW byte, NEW from \in Nat, NEW until \in Nat
  PROVE  LET at == Find(buffer, byte, from, until)
         IN at = 0 \/ (at \in from .. until /\ buffer[at] = byte)
  <1> DEFINE places == Places(buffer, byte, from, until)
  <1>1. CASE places = {}
    BY <1>1 DEF Find
  <1>2. CASE places # {}
    <2>1. places \in SUBSET Nat
      BY DEF Places
    <2>2. Min(places) \in places
      <3> HIDE DEF places
      <3> QED
        BY <1>2, <2>1, LeastIsThere
    <2>3. Find(buffer, byte, from, until) = Min(places)
      BY <1>2 DEF Find
    <2> QED
      BY <2>2, <2>3 DEF Places
  <1> QED
    BY <1>1, <1>2

\* What NextHeader tells of a buffer whose EOT, if any, is at end.
LEMMA NextHeaderTells ==
  ASSUME NEW buffer \in Seq(Nat), NEW end \in 0 .. Len(buffer)
  PROVE  LET next == NextHeader(buffer, end)
         IN /\ next.at = 0 \/ next.at \in 6 .. Len(buffer)
            /\ next.waiting \in BOOLEAN
            /\ next.waiting => \E i \in 6 .. Len(buffer) :
                                 buffer[i] = SOH /\ i + 4 > Len(buffer)
  <1> DEFINE until == IF end > 0 THEN end - 1 ELSE Len(buffer)
             sohs == Places(buffer, SOH, Len(Header) + 1, until)
             headers == {i \in sohs : IsHeader(buffer, i)}
             late == {i \in sohs : i + 4 > Len(buffer)}
             at == IF headers = {} THEN 0 ELSE Min(headers)
             waiting == headers = {} /\ late # {} /\ end = 0
  <1>1. until \in 0 .. Len(buffer) /\ Len(buffer) \in Nat
    OBVIOUS
  <1> HIDE DEF until
  <1>2. sohs = {i \in 6 .. until : buffer[i] = SOH}
    BY HeaderIsFive DEF Places
  <1>3. at = 0 \/ at \in 6 .. Len(buffer)
    <2>1. CASE headers # {}
      <3>1. headers \in SUBSET Nat
        BY <1>1, <1>2
      <3>2. Min(headers) \in headers
        <4> HIDE DEF headers
        <4> QED
          BY <2>1, <3>1, LeastIsThere
      <3>3. Min(headers) \in sohs
        BY <3>2
      <3>4. Min(headers) \in 6 .. Len(buffer)
        <4> HIDE DEF headers, sohs
        <4> QED
          BY <1>1, <1>2, <3>3
      <3> HIDE DEF headers
      <3> QED
        BY <3>4
    <2> QED
      BY <2>1
  <1>4. waiting => \E i \in 6 .. Len(buffer) : buffer[i] = SOH /\ i + 4 > Len(buffer)
    <2> SUFFICES ASSUME late # {}
                 PROVE  \E i \in 6 .. Len(buffer) : buffer[i] = SOH /\ i + 4 > Len(buffer)
      OBVIOUS
    <2>1. PICK i \in sohs : i + 4 > Len(buffer)
      OBVIOUS
    <2> HIDE DEF sohs
    <2> QED
      BY <1>1, <1>2, <2>1
  <1>5. NextHeader(buffer, end) = [at |-> at, waiting |-> waiting]
    BY DEF NextHeader, until
  <1> HIDE DEF at, waiting
  <1>6. NextHeader(buffer, end).at = at /\ NextHeader(buffer, end).waiting = waiting
    BY <1>5
  <1>7. waiting \in BOOLEAN
    BY DEF waiting
  <1> QED
    BY <1>3, <1>4, <1>6, <1>7

LEMMA ReadFrameTyped ==
  ASSUME NEW s \in Scanners, Len(s.buffer) >= 5
  PROVE  LET r == ReadFrame(s)
         IN \/ /\ r \in Results /\ r.found # <<>>
               /\ Len(r.scanner.buffer) + 5 <= Len(s.buffer)
            \/ r = Waits(s) /\ GivenUp(s.buffer)
  <1> DEFINE r == ReadFrame(s)
             end == Find(s.buffer, EOT, Len(Header) + 1, Len(s.buffer))
             next == NextHeader(s.buffer, end)
             isCut == next.at > 0 /\ (end = 0 \/ next.at < end)
             N == Len(s.buffer)
             Good(b) == /\ b \in Results /\ b.found # <<>>
                        /\ Len(b.scanner.buffer) + 5 <= Len(s.buffer)
  <1>1. s.buffer \in Seq(Nat) /\ N \in Nat
    BY DEF Scanners
  <1>2. end = 0 \/ (end \in 6 .. N /\ s.buffer[end] = EOT)
    BY <1>1, HeaderIsFive, FindFinds
  <1>3. end \in 0 .. N
    BY <1>1, <1>2
  <1>4. /\ next.at = 0 \/ next.at \in 6 .. N
        /\ next.waiting \in BOOLEAN
        /\ next.waiting => \E i \in 6 .. N : s.buffer[i] = SOH /\ i + 4 > N
    BY <1>1, <1>3, NextHeaderTells
  <1> HIDE DEF end, next
  <1>5. r = CASE next.waiting -> Waits(s)
              [] ~next.waiting /\ isCut -> Build(s, next.at - 1, TRUE)
              [] ~next.waiting /\ ~isCut /\ end = 0 -> Overlong(s)
              [] OTHER -> Build(s, end, FALSE)
    BY DEF ReadFrame, end, next
  <1> HIDE DEF r
  <1>6. ASSUME NEW n \in 5 .. N, NEW truncated \in BOOLEAN,
               ~truncated => n >= 6 /\ s.buffer[n] = EOT
        PROVE  Good(Build(s, n, truncated))
    <2>1. LET b == Build(s, n, truncated)
          IN b \in Results /\ b.found # <<>> /\ Len(b.scanner.buffer) = N - n
      BY <1>6, BuildTyped
    <2>2. N - n + 5 <= N
      BY <1>1
    <2> QED
      BY <2>1, <2>2
  <1> HIDE DEF Good
  <1>7. CASE next.waiting
    <2>1. r = Waits(s)
      BY <1>4, <1>5, <1>7
    <2>2. PICK i \in 6 .. N : s.buffer[i] = SOH /\ i + 4 > N
      BY <1>4, <1>7
    <2>3. GivenUp(s.buffer)
      <3> DEFINE m == N - 4
                 end4 == SubSeq(s.buffer, m + 1, N)
      <3>1. m \in Nat /\ N \in 0 .. N /\ m <= N /\ N - m = 4 /\ m + 1 = N - 3
            /\ N \in 0 .. Len(s.buffer)
        BY <1>1, <2>2
      <3>2. i - m \in 1 .. 4 /\ m + (i - m) = i
        <4>1. i \in Nat /\ i + 4 > N /\ i <= N
          BY <1>1, <2>2
        <4>2. \A a, b \in Nat : a + 4 > b /\ a <= b => a - (b - 4) \in 1 .. 4
                                                     /\ (b - 4) + (a - (b - 4)) = a
          OBVIOUS
        <4> HIDE DEF N
        <4> QED
          BY <1>1, <4>1, <4>2
      <3> HIDE DEF m
      <3>3. end4 \in Seq(Nat) /\ Len(end4) = 4
            /\ \A j \in 1 .. Len(end4) : end4[j] = s.buffer[m + j]
        <4> HIDE DEF N
        <4>1. LET q == SubSeq(s.buffer, m + 1, N)
              IN /\ q \in Seq(Nat)
                 /\ Len(q) = IF m <= N THEN N - m ELSE 0
                 /\ \A j \in 1 .. Len(q) : q[j] = s.buffer[m + j]
          BY <1>1, <3>1, Part
        <4> QED
          BY <3>1, <4>1
      <3> HIDE DEF end4
      <3>4. end4[i - m] = SOH
        BY <2>2, <3>2, <3>3
      <3>5. SOH \in ToSet(end4)
        <4>1. ToSet(end4) = {end4[j] : j \in 1 .. Len(end4)}
          BY <3>3, Elements
        <4> QED
          BY <3>2, <3>3, <3>4, <4>1
      <3> QED
        BY <3>1, <3>5 DEF GivenUp, end4
    <2> QED
      BY <2>1, <2>3 DEF r
  <1>8. CASE ~next.waiting /\ isCut
    <2>1. r = Build(s, next.at - 1, TRUE)
      BY <1>5, <1>8
    <2>2. next.at - 1 \in 5 .. N
      BY <1>1, <1>4, <1>8
    <2>3. Good(r)
      BY <1>6, <2>1, <2>2
    <2> QED
      BY <2>3 DEF Good, r
  <1>9. CASE ~next.waiting /\ ~isCut /\ end = 0
    <2>1. r = Overlong(s)
      BY <1>5, <1>9
    <2>2. CASE N <= MaxFrame
      <3>1. r = Waits(s)
        BY <2>1, <2>2 DEF Overlong
      <3>2. GivenUp(s.buffer)
        BY <1>1, <2>2, HeaderIsFive DEF GivenUp
      <3> QED
        BY <3>1, <3>2 DEF r
    <2>3. CASE ~(N <= MaxFrame)
      <3>1. r = Build(s, N, TRUE)
        BY <2>1, <2>3 DEF Overlong
      <3>2. N \in 5 .. N
        BY <1>1, <2>3, HeaderIsFive
      <3>3. Good(r)
        BY <1>6, <3>1, <3>2
      <3> QED
        BY <3>3 DEF Good, r
    <2> QED
      BY <2>2, <2>3
  <1>10. CASE ~next.waiting /\ ~isCut /\ end # 0
    <2>1. r = Build(s, end, FALSE)
      BY <1>5, <1>10
    <2>2. end \in 5 .. N /\ end >= 6 /\ s.buffer[end] = EOT
      BY <1>1, <1>2, <1>10
    <2>3. Good(r)
      BY <1>6, <2>1, <2>2
    <2> QED
      BY <2>3 DEF Good, r
  <1> QED
    BY <1>4, <1>7, <1>8, <1>9, <1>10

\* A scanner that has found what there is to find.
Quiet(s) == TakeOne(s) = Waits(s) /\ GivenUp(s.buffer)

LEMMA StartsAreThere ==
  ASSUME NEW buffer \in Seq(Nat), Starts(buffer) # {}
  PROVE  /\ Min(Starts(buffer)) \in Starts(buffer)
         /\ Min(Starts(buffer)) \in 1 .. Len(buffer)
         /\ \A i \in Starts(buffer) : Min(Starts(buffer)) <= i
  <1>1. Starts(buffer) \subseteq 1 .. Len(buffer) /\ Starts(buffer) \in SUBSET Nat
    BY DEF Starts
  <1> QED
    BY <1>1, LeastIsThere

\* Once what comes before a header is passed over, nothing comes before it.
LEMMA NothingBeforeTheStart ==
  ASSUME NEW buffer \in Seq(Nat), Starts(buffer) # {}
  PROVE  LET m == Min(Starts(buffer))
             rest == SubSeq(buffer, m, Len(buffer))
         IN Starts(rest) # {} /\ Min(Starts(rest)) = 1
  <1> DEFINE m == Min(Starts(buffer))
             N == Len(buffer)
             rest == SubSeq(buffer, m, N)
  <1>1. m \in 1 .. N /\ N \in Nat
    BY StartsAreThere
  <1>2. m \in Starts(buffer)
    BY StartsAreThere
  <1> HIDE DEF m
  <1>3. buffer[m] = SOH /\ (IsHeader(buffer, m) \/ m + 4 > N)
    BY <1>2 DEF Starts
  <1>4. /\ rest \in Seq(Nat) /\ Len(rest) = N - m + 1
        /\ \A i \in 1 .. Len(rest) : rest[i] = buffer[m - 1 + i]
    <2>1. m - 1 \in Nat /\ N \in 0 .. Len(buffer) /\ (m - 1) + 1 = m
          /\ m - 1 <= N /\ N - (m - 1) = N - m + 1
      BY <1>1
    <2>2. LET q == SubSeq(buffer, (m - 1) + 1, N)
          IN /\ q \in Seq(Nat)
             /\ Len(q) = IF m - 1 <= N THEN N - (m - 1) ELSE 0
             /\ \A i \in 1 .. Len(q) : q[i] = buffer[(m - 1) + i]
      BY <2>1, Part, Zenon
    <2> HIDE DEF N
    <2> QED
      BY <2>1, <2>2
  <1> HIDE DEF N, rest
  <1>5. 1 \in 1 .. Len(rest) /\ rest[1] = SOH
    <2>1. Len(rest) \in Nat /\ Len(rest) >= 1 /\ m - 1 + 1 = m
      BY <1>1, <1>4
    <2> QED
      BY <1>3, <1>4, <2>1
  <1>6. IsHeader(rest, 1) \/ 1 + 4 > Len(rest)
    <2>1. CASE m + 4 > N
      BY <1>1, <1>4, <2>1
    <2>2. CASE ~(m + 4 > N)
      <3>1. m + 4 <= Len(buffer) /\ buffer[m + 4] = STX
        BY <1>3, <2>2 DEF IsHeader
      <3>2. 5 \in 1 .. Len(rest) /\ m - 1 + 5 = m + 4
        BY <1>1, <1>4, <3>1 DEF N
      <3>3. rest[5] = STX
        BY <1>4, <3>1, <3>2
      <3> QED
        BY <3>2, <3>3 DEF IsHeader
    <2> QED
      BY <2>1, <2>2
  <1>7. 1 \in Starts(rest)
    BY <1>4, <1>5, <1>6 DEF Starts
  <1>8. Min(Starts(rest)) \in 1 .. Len(rest) /\ Min(Starts(rest)) <= 1
    BY <1>4, <1>7, StartsAreThere
  <1>9. Min(Starts(rest)) = 1
    BY <1>8
  <1> QED
    BY <1>7, <1>9 DEF rest, m, N

(* One look: a transmission at least as long as a header, or quiet.        *)
LEMMA TakeOneTyped ==
  ASSUME NEW s \in Scanners
  PROVE  LET one == TakeOne(s)
         IN /\ one \in Results
            /\ \/ Len(one.scanner.buffer) + 5 <= Len(s.buffer)
               \/ one.found = <<>> /\ Quiet(one.scanner)
  <1> DEFINE starts == Starts(s.buffer)
             n == IF starts = {} THEN Len(s.buffer) ELSE Min(starts) - 1
             at == Absorb(s, n)
             one == TakeOne(s)
  <1>1. s.buffer \in Seq(Nat) /\ Len(s.buffer) \in Nat
    BY DEF Scanners
  <1>2. n \in 0 .. Len(s.buffer)
    <2>1. CASE starts = {}
      BY <1>1, <2>1
    <2>2. CASE starts # {}
      <3>1. Min(starts) \in 1 .. Len(s.buffer)
        BY <1>1, <2>2, StartsAreThere
      <3> QED
        BY <1>1, <2>2, <3>1
    <2> QED
      BY <2>1, <2>2
  <1>3. one = IF Len(at.buffer) < Len(Header) THEN Waits(at) ELSE ReadFrame(at)
    BY DEF TakeOne
  <1> HIDE DEF n
  <1>4. at \in Scanners /\ at.buffer = SubSeq(s.buffer, n + 1, Len(s.buffer))
    BY <1>2, AbsorbTyped
  <1>5. at.buffer \in Seq(Nat) /\ Len(at.buffer) \in Nat /\ Len(at.buffer) <= Len(s.buffer)
    <2>1. LET q == SubSeq(s.buffer, n + 1, Len(s.buffer))
          IN q \in Seq(Nat) /\ Len(q) = IF n <= Len(s.buffer) THEN Len(s.buffer) - n ELSE 0
      BY <1>1, <1>2, Part
    <2> HIDE DEF at
    <2> QED
      BY <1>1, <1>2, <1>4, <2>1
  \* Looking again passes over nothing more.
  <1>6. TakeOne(at) = IF Len(at.buffer) < Len(Header) THEN Waits(at) ELSE ReadFrame(at)
    <2>1. (IF Starts(at.buffer) = {} THEN Len(at.buffer) ELSE Min(Starts(at.buffer)) - 1) = 0
      <3>1. CASE starts = {}
        <4>1. n = Len(s.buffer)
          BY <3>1 DEF n
        <4>2. LET q == SubSeq(s.buffer, n + 1, Len(s.buffer))
              IN Len(q) = IF n <= Len(s.buffer) THEN Len(s.buffer) - n ELSE 0
          BY <1>1, <1>2, Part
        <4> HIDE DEF at
        <4>3. Len(at.buffer) = 0
          BY <1>1, <1>4, <4>1, <4>2
        <4>4. Starts(at.buffer) = {}
          BY <1>5, <4>3 DEF Starts
        <4> QED
          BY <4>3, <4>4
      <3>2. CASE starts # {}
        <4>1. Min(starts) \in 1 .. Len(s.buffer) /\ n = Min(starts) - 1
          BY <1>1, <3>2, StartsAreThere DEF n
        <4>2. n + 1 = Min(starts)
          BY <1>1, <4>1
        <4>3. at.buffer = SubSeq(s.buffer, Min(starts), Len(s.buffer))
          BY <1>4, <4>2
        <4>4. Starts(at.buffer) # {} /\ Min(Starts(at.buffer)) = 1
          BY <1>1, <3>2, <4>3, NothingBeforeTheStart
        <4> HIDE DEF at
        <4> QED
          BY <4>4
      <3> QED
        BY <3>1, <3>2
    <2>2. 0 \in 0 .. Len(at.buffer)
      BY <1>5
    <2> HIDE DEF at
    <2>3. Absorb(at, 0) = at
      BY <1>4, <2>2, AbsorbTyped
    <2> QED
      BY <2>1, <2>3 DEF TakeOne
  <1>7. one = TakeOne(at)
    BY <1>3, <1>6
  <1> HIDE DEF at, one
  <1>8. Waits(at) \in Results /\ Waits(at).found = <<>> /\ Waits(at).scanner = at
    BY <1>4, EmptySeq DEF Waits, Results
  <1>9. CASE Len(at.buffer) < Len(Header)
    <2>1. one = Waits(at)
      BY <1>3, <1>9
    <2>2. GivenUp(at.buffer)
      BY <1>5, <1>9, HeaderIsFive DEF GivenUp
    <2>3. Quiet(at)
      BY <1>7, <2>1, <2>2 DEF Quiet
    <2> QED
      BY <1>8, <2>1, <2>3 DEF one
  <1>10. CASE ~(Len(at.buffer) < Len(Header))
    <2>1. one = ReadFrame(at) /\ Len(at.buffer) >= 5
      BY <1>3, <1>5, <1>10, HeaderIsFive
    <2>2. CASE /\ one \in Results /\ one.found # <<>>
               /\ Len(one.scanner.buffer) + 5 <= Len(at.buffer)
      <3>1. one.scanner.buffer \in Seq(Nat)
        BY <2>2 DEF Results, Scanners
      <3>2. Len(one.scanner.buffer) + 5 <= Len(s.buffer)
        BY <1>1, <1>5, <2>2, <3>1
      <3> QED
        BY <2>2, <3>2 DEF one
    <2>3. CASE one = Waits(at) /\ GivenUp(at.buffer)
      <3>1. Quiet(at)
        BY <1>7, <2>3 DEF Quiet
      <3> QED
        BY <1>8, <2>3, <3>1 DEF one
    <2> QED
      BY <1>4, <2>1, <2>2, <2>3, ReadFrameTyped
  <1> QED
    BY <1>9, <1>10

LEMMA LooksAreEnough ==
  ASSUME NEW b \in Nat
  PROVE  LET N == 1 + b \div Len(Header)
         IN N \in Nat /\ N \in 0 .. N /\ b < 5 * N
  <1>1. \A n \in Nat : n \div 5 \in Nat /\ n < 5 * (1 + n \div 5)
    OBVIOUS
  <1>2. b \div Len(Header) = b \div 5
    BY HeaderIsFive
  <1> HIDE DEF Header
  <1>3. b \div 5 \in Nat /\ b < 5 * (1 + b \div 5)
    BY <1>1
  <1> QED
    BY <1>2, <1>3

\* One look more, after what has been found so far.
Look(so) ==
  [scanner |-> TakeOne(so.scanner).scanner,
   found |-> so.found \o TakeOne(so.scanner).found]
Looks(s, after) ==
  after = [n \in 0 .. 1 + Len(s.buffer) \div Len(Header) |->
             IF n = 0 THEN Waits(s) ELSE Look(after[n - 1])]

LEMMA LookTyped ==
  ASSUME NEW so \in Results
  PROVE  Look(so) \in Results
  <1>1. so.scanner \in Scanners /\ so.found \in Seq(Transmissions)
    BY DEF Results
  <1>2. TakeOne(so.scanner) \in Results
    BY <1>1, TakeOneTyped
  <1>3. /\ TakeOne(so.scanner).scanner \in Scanners
        /\ TakeOne(so.scanner).found \in Seq(Transmissions)
    BY <1>2 DEF Results
  <1>4. so.found \o TakeOne(so.scanner).found \in Seq(Transmissions)
    BY <1>1, <1>3, ConcatProperties
  <1> QED
    BY <1>3, <1>4 DEF Look, Results

LEMMA ScanIs ==
  ASSUME NEW s \in Scanners
  PROVE  \E after : /\ Looks(s, after)
                    /\ Scan(s) = after[1 + Len(s.buffer) \div Len(Header)]
  <1> DEFINE N == 1 + Len(s.buffer) \div Len(Header)
             step == [x \in (1 .. N) \X Results |-> Look(x[2])]
  <1>1. N \in Nat
    <2>1. Len(s.buffer) \in Nat
      BY DEF Scanners
    <2> QED
      BY <2>1, LooksAreEnough
  <1>2. Waits(s) \in Results
    BY EmptySeq DEF Waits, Results
  <1> HIDE DEF N
  <1>3. step \in Steps(N, Results)
    BY LookTyped DEF Steps
  <1>4. PICK g : IsRun(g, N, Results, Waits(s), step)
    <2> HIDE DEF step
    <2> QED
      BY <1>1, <1>2, <1>3, StepsCanBeTaken
  <1>5. /\ g \in [0 .. N -> Results] /\ g[0] = Waits(s)
        /\ \A n \in 1 .. N : g[n] = step[<<n, g[n - 1]>>]
    BY <1>4 DEF IsRun
  <1>6. ASSUME NEW n \in 0 .. N
        PROVE  g[n] = IF n = 0 THEN Waits(s) ELSE Look(g[n - 1])
    <2>1. CASE n = 0
      BY <1>5, <2>1
    <2>2. CASE n # 0
      <3>1. n \in 1 .. N /\ n - 1 \in 0 .. N
        BY <1>1, <2>2
      <3>2. g[n - 1] \in Results
        BY <1>5, <3>1
      <3>3. step[<<n, g[n - 1]>>] = Look(g[n - 1])
        BY <3>1, <3>2
      <3> HIDE DEF step
      <3> QED
        BY <1>5, <2>2, <3>1, <3>3
    <2> QED
      BY <2>1, <2>2
  <1>7. g = [n \in 0 .. N |-> IF n = 0 THEN Waits(s) ELSE Look(g[n - 1])]
    BY <1>5, <1>6
  <1>8. Looks(s, g)
    BY <1>7, Zenon DEF Looks, N
  <1>9. Scan(s) = (CHOOSE after : Looks(s, after))[N]
    BY Zenon DEF Scan, Looks, N, Look
  <1>10. Looks(s, CHOOSE after : Looks(s, after))
    BY <1>8, Zenon
  <1> QED
    BY <1>9, <1>10, Zenon DEF N

(* What has been read is looked through: the looks are enough.             *)
LEMMA ScanTyped ==
  ASSUME NEW s \in Scanners
  PROVE  Scan(s) \in Results /\ Quiet(Scan(s).scanner)
  <1> DEFINE B == Len(s.buffer)
             N == 1 + B \div Len(Header)
  <1>1. B \in Nat
    BY DEF Scanners
  <1>2. N \in Nat /\ N \in 0 .. N /\ B < 5 * N
    BY <1>1, LooksAreEnough
  <1>3. PICK g : Looks(s, g) /\ Scan(s) = g[N]
    BY ScanIs, Zenon
  <1> HIDE DEF N
  <1>4. g[0] = Waits(s) /\ \A n \in 1 .. N : g[n] = Look(g[n - 1])
    <2>1. \A n \in 0 .. N : g[n] = IF n = 0 THEN Waits(s) ELSE Look(g[n - 1])
      BY <1>3 DEF Looks, N
    <2>2. 0 \in 0 .. N /\ \A n \in 1 .. N : n \in 0 .. N /\ n # 0
      BY <1>2
    <2> QED
      BY <2>1, <2>2
  <1> DEFINE Left(q) == Len(q.scanner.buffer)
             Fine(n, q) == q \in Results /\ (Left(q) + 5 * n <= B \/ Quiet(q.scanner))
             T == {n \in 0 .. N : Fine(n, g[n])}
  <1>5. 0 \in T
    <2>1. Waits(s) \in Results /\ Left(Waits(s)) = B
      BY EmptySeq DEF Waits, Results
    <2>2. Fine(0, Waits(s)) /\ 0 \in 0 .. N
      BY <1>1, <1>2, <2>1
    <2> QED
      BY <1>4, <2>2
  <1>6. ASSUME NEW n \in 1 .. N, n - 1 \in T PROVE n \in T
    <2>0. n \in 0 .. N
      BY <1>2
    <2>1. Fine(n - 1, g[n - 1]) /\ n \in 0 .. N /\ g[n] = Look(g[n - 1])
      <3> HIDE DEF Fine
      <3> QED
        BY <1>4, <1>6, <2>0
    <2>2. ASSUME NEW so, Fine(n - 1, so) PROVE Fine(n, Look(so))
      <3> DEFINE one == TakeOne(so.scanner)
      <3>1. so.scanner \in Scanners /\ so \in Results
        BY <2>2 DEF Results
      <3>2. /\ one \in Results
            /\ \/ Len(one.scanner.buffer) + 5 <= Len(so.scanner.buffer)
               \/ one.found = <<>> /\ Quiet(one.scanner)
        BY <3>1, TakeOneTyped
      <3>3. Look(so) \in Results /\ Look(so).scanner = one.scanner
        BY <3>1, LookTyped DEF Look
      <3>4. /\ Len(one.scanner.buffer) \in Nat /\ Len(so.scanner.buffer) \in Nat
            /\ 5 * (n - 1) \in Nat /\ 5 * (n - 1) + 5 = 5 * n
        <4>1. one.scanner \in Scanners
          BY <3>2 DEF Results
        <4>2. one.scanner.buffer \in Seq(Nat) /\ so.scanner.buffer \in Seq(Nat)
          BY <3>1, <4>1 DEF Scanners
        <4>3. n \in Nat /\ n >= 1
          BY <1>2
        <4> QED
          BY <4>2, <4>3
      <3>5. CASE Quiet(so.scanner)
        <4>1. one.scanner = so.scanner
          BY <3>5 DEF Quiet, Waits
        <4> HIDE DEF one
        <4> QED
          BY <3>3, <3>5, <4>1
      <3>6. CASE ~Quiet(so.scanner) /\ ~Quiet(one.scanner)
        <4>1. Left(so) + 5 * (n - 1) <= B
          BY <2>2, <3>6
        <4>2. Left(Look(so)) = Len(one.scanner.buffer)
          BY <3>3
        <4>3. Len(one.scanner.buffer) + 5 <= Left(so)
          BY <3>2, <3>6
        <4> DEFINE l == Len(one.scanner.buffer)
                   k == Len(so.scanner.buffer)
                   m == 5 * (n - 1)
                   w == 5 * n
        <4>4. Left(Look(so)) + 5 * n <= B
          <5>1. w \in Nat
            BY <1>2
          <5>2. l \in Nat /\ k \in Nat /\ m \in Nat /\ m + 5 = w
            BY <3>4
          <5>3. k + m <= B /\ l + 5 <= k
            BY <4>1, <4>3
          <5> HIDE DEF B, l, k, m, w
          <5>4. l + w <= B
            BY <1>1, <5>1, <5>2, <5>3
          <5> QED
            BY <4>2, <5>4 DEF l, w
        <4> HIDE DEF one
        <4> QED
          BY <3>3, <4>4
      <3> QED
        BY <3>3, <3>5, <3>6
    <2> HIDE DEF Fine
    <2> QED
      BY <2>1, <2>2
  <1>7. 0 .. N \subseteq T
    <2> HIDE DEF T
    <2> QED
      BY <1>2, <1>5, <1>6, IntervalInduction
  <1>8. Fine(N, Scan(s))
    BY <1>2, <1>3, <1>7
  <1>9. Len(Scan(s).scanner.buffer) \in Nat
    BY <1>8 DEF Results, Scanners
  <1>10. ~(Left(Scan(s)) + 5 * N <= B)
    <2>1. \A l, n, b \in Nat : b < 5 * n => ~(l + 5 * n <= b)
      OBVIOUS
    <2> HIDE DEF B
    <2> QED
      BY <1>1, <1>2, <1>9, <2>1
  <1> QED
    BY <1>8, <1>10

LEMMA FeedTyped ==
  ASSUME NEW s \in Scanners, NEW data \in Seq(Nat)
  PROVE  /\ Feed(s, data) \in Results
         /\ Quiet(Feed(s, data).scanner)
  <1> DEFINE fed == [s EXCEPT !.buffer = @ \o data]
  <1>1. s.buffer \o data \in Seq(Nat)
    BY ConcatProperties DEF Scanners
  <1>2. fed \in Scanners
    BY <1>1 DEF Scanners
  <1> QED
    BY <1>2, ScanTyped DEF Feed

-----------------------------------------------------------------------------
(* What is read in a transmission.                                         *)
FileEntries ==
  [label : Nat, type : Nat, locked : BOOLEAN, capacity : Nat, schedule : Int]

\* What the sign counts on in a command that was decoded.
IsDecoded(c) ==
  /\ c.malformed \in BOOLEAN
  /\ c.op = "text" =>
       /\ c.body \in Seq(Nat)
       /\ c.malformed <=> c.som /\ (c.position = <<>> \/ c.mode = <<>>)
  /\ c.op = "string" => c.body \in Seq(Nat)
  /\ c.op = "configure" => c.entries \in Seq(FileEntries)

LEMMA SliceTyped ==
  ASSUME NEW S, NEW s \in Seq(S), NEW from \in Nat, NEW to \in Nat
  PROVE  /\ Slice(s, from, to) \in Seq(S)
         /\ Len(Slice(s, from, to)) = IF from <= Min2(to, Len(s))
                                        THEN Min2(to, Len(s)) - from ELSE 0
         /\ \A i \in 1 .. Len(Slice(s, from, to)) : Slice(s, from, to)[i] = s[from + i]
  <1>1. Min2(to, Len(s)) \in 0 .. Len(s)
    BY DEF Min2
  <1> QED
    BY <1>1, Part DEF Slice

LEMMA AfterTyped ==
  ASSUME NEW S, NEW s \in Seq(S), NEW from \in Nat
  PROVE  /\ After(s, from) \in Seq(S)
         /\ Len(After(s, from)) = IF from <= Len(s) THEN Len(s) - from ELSE 0
         /\ \A i \in 1 .. Len(After(s, from)) : After(s, from)[i] = s[from + i]
  <1>1. Len(s) \in 0 .. Len(s)
    OBVIOUS
  <1> QED
    BY <1>1, Part DEF After

LEMMA MessageFields ==
  ASSUME NEW l, NEW som, NEW bad, NEW position, NEW mode, NEW body
  PROVE  LET c == [Nothing EXCEPT !.op = "text", !.label = l, !.som = som,
                     !.malformed = bad, !.position = position, !.mode = mode,
                     !.body = body]
         IN /\ c.op = "text" /\ c.label = l /\ c.som = som /\ c.malformed = bad
            /\ c.position = position /\ c.mode = mode /\ c.body = body
  BY DEF Nothing

LEMMA ReadMessageDecodes ==
  ASSUME NEW p \in Seq(Nat)
  PROVE  IsDecoded(ReadMessage(p).command)
  <1> DEFINE rest == After(p, 2)
             som == First(rest, -1) = SOM
             modeLength == IF Slice(rest, 2, 3) = <<SpecialMode>> THEN 2 ELSE 1
             position == IF som THEN Slice(rest, 1, 2) ELSE <<>>
             mode == IF som THEN Slice(rest, 2, 2 + modeLength) ELSE <<>>
             body == IF som THEN After(rest, 2 + modeLength) ELSE rest
             bad == som /\ (position = <<>> \/ mode = <<>>)
             c == [Nothing EXCEPT !.op = "text", !.label = p[2], !.som = som,
                     !.malformed = bad, !.position = position, !.mode = mode,
                     !.body = body]
  <1>1. CASE Len(p) < 2
    <2>1. ReadMessage(p).command = Nothing
      BY <1>1 DEF ReadMessage, Unread, Read
    <2> QED
      BY <2>1 DEF IsDecoded, Nothing
  <1>2. CASE ~(Len(p) < 2)
    <2>1. ReadMessage(p).command = c
      BY <1>2, Zenon DEF ReadMessage, Read
    <2>2. rest \in Seq(Nat) /\ modeLength \in Nat /\ 2 + modeLength \in Nat
      BY AfterTyped
    <2> HIDE DEF rest, modeLength
    <2>3. body \in Seq(Nat)
      BY <2>2, AfterTyped
    <2> HIDE DEF position, mode, body
    <2>4. som \in BOOLEAN /\ bad \in BOOLEAN
      OBVIOUS
    <2>5. bad <=> som /\ (position = <<>> \/ mode = <<>>)
      OBVIOUS
    <2> HIDE DEF som, bad
    <2>6. /\ c.op = "text" /\ c.som = som /\ c.malformed = bad
          /\ c.position = position /\ c.mode = mode /\ c.body = body
      BY MessageFields
    <2> HIDE DEF c
    <2> QED
      BY <2>1, <2>3, <2>4, <2>5, <2>6 DEF IsDecoded
  <1> QED
    BY <1>1, <1>2

LEMMA ReadValueDecodes ==
  ASSUME NEW p \in Seq(Nat)
  PROVE  IsDecoded(ReadValue(p).command)
  <1>1. CASE Len(p) < 2
    <2>1. ReadValue(p).command = Nothing
      BY <1>1 DEF ReadValue, Unread, Read
    <2> QED
      BY <2>1 DEF IsDecoded, Nothing
  <1>2. CASE ~(Len(p) < 2)
    <2> DEFINE c == Value(p[2], After(p, 2))
    <2>1. ReadValue(p).command = c
      BY <1>2 DEF ReadValue, Read
    <2>2. After(p, 2) \in Seq(Nat)
      BY AfterTyped
    <2>3. c.op = "string" /\ c.body = After(p, 2) /\ c.malformed = FALSE
      BY DEF Value, Nothing
    <2> HIDE DEF c
    <2> QED
      BY <2>1, <2>2, <2>3 DEF IsDecoded
  <1> QED
    BY <1>1, <1>2

LEMMA ReadPictureDecodes ==
  ASSUME NEW p
  PROVE  IsDecoded(ReadPicture(p).command)
  <1> DEFINE size == Slice(p, 2, 4)
             rows == Lines(After(p, 4))
             c == [Nothing EXCEPT !.op = "dots", !.label = p[2], !.rows = rows,
                     !.size = Geometry(size)]
  <1>1. CASE Len(size) < 2
    <2>1. ReadPicture(p).command = Nothing
      BY <1>1 DEF ReadPicture, Unread, Read
    <2> QED
      BY <2>1 DEF IsDecoded, Nothing
  <1>2. CASE ~(Len(size) < 2)
    <2>1. ReadPicture(p).command = c
      BY <1>2, Zenon DEF ReadPicture, Read
    <2>3. c.op = "dots" /\ c.malformed = FALSE
      <3> HIDE DEF rows, size
      <3> QED
        BY DEF Nothing
    <2> HIDE DEF c
    <2> QED
      BY <2>1, <2>3 DEF IsDecoded
  <1> QED
    BY <1>1, <1>2

\* The units of one entry of a file table.
Chunks == {c \in Seq(Nat) : Len(c) = 5}

LEMMA ChunksAreThere ==
  ASSUME NEW parameter \in Seq(Nat)
  PROVE  LET count == Len(parameter) \div EntryLength
         IN /\ count \in Nat
            /\ [i \in 1 .. count |->
                  Slice(parameter, (i - 1) * EntryLength, i * EntryLength)] \in Seq(Chunks)
  <1> DEFINE count == Len(parameter) \div EntryLength
             chunk(i) == Slice(parameter, (i - 1) * EntryLength, i * EntryLength)
  <1>1. \A n \in Nat : n \div 5 \in Nat /\ \A i \in 1 .. n \div 5 : i * 5 <= n
    OBVIOUS
  <1>2. count \in Nat /\ \A i \in 1 .. count : i * 5 <= Len(parameter)
    BY <1>1 DEF EntryLength
  <1> HIDE DEF count
  <1>3. ASSUME NEW i \in 1 .. count PROVE chunk(i) \in Chunks
    <2>1. (i - 1) * 5 \in Nat /\ i * 5 \in Nat /\ i * 5 - (i - 1) * 5 = 5
      BY <1>2
    <2>2. i * 5 <= Len(parameter) /\ Len(parameter) \in Nat
      BY <1>2
    <2> DEFINE from == (i - 1) * 5
               to == i * 5
    <2>3. from \in Nat /\ to \in Nat /\ to - from = 5 /\ to <= Len(parameter) /\ from <= to
      BY <2>1, <2>2
    <2>4. chunk(i) = Slice(parameter, from, to)
      BY DEF EntryLength
    <2> HIDE DEF from, to, chunk
    <2>5. Min2(to, Len(parameter)) = to
      BY <2>2, <2>3 DEF Min2
    <2>6. Slice(parameter, from, to) \in Seq(Nat) /\ Len(Slice(parameter, from, to)) = 5
      <3>1. /\ Slice(parameter, from, to) \in Seq(Nat)
            /\ Len(Slice(parameter, from, to)) =
                 IF from <= Min2(to, Len(parameter))
                   THEN Min2(to, Len(parameter)) - from ELSE 0
        BY <2>3, SliceTyped, Zenon
      <3> QED
        BY <2>3, <2>5, <3>1
    <2> QED
      BY <2>4, <2>6 DEF Chunks
  <1>4. [i \in 1 .. count |-> chunk(i)] \in Seq(Chunks)
    <2> HIDE DEF chunk
    <2> QED
      BY <1>2, <1>3
  <1> QED
    BY <1>2, <1>4 DEF count

LEMMA DecodedEntries ==
  ASSUME NEW chunks \in Seq(Chunks)
  PROVE  [i \in DOMAIN Entries(chunks) |-> Decoded(Entries(chunks)[i])] \in Seq(FileEntries)
  <1> DEFINE sized == {i \in DOMAIN chunks : IsDigits(chunks[i][4])}
             entries == Entries(chunks)
  <1>1. entries = Chosen(chunks, sized)
    BY DEF Entries
  <1>2. /\ entries \in Seq(Chunks)
        /\ \A i \in DOMAIN entries : \E j \in sized \cap DOMAIN chunks : entries[i] = chunks[j]
    <2> HIDE DEF sized, entries
    <2> QED
      BY <1>1, ChosenAreThere
  <1> HIDE DEF entries
  <1>3. ASSUME NEW i \in DOMAIN entries PROVE Decoded(entries[i]) \in FileEntries
    <2> DEFINE chunk == entries[i]
    <2>1. IsDigits(chunk[4])
      BY <1>2
    <2>2. chunk \in Seq(Nat) /\ Len(chunk) = 5
      BY <1>2 DEF Chunks
    <2> HIDE DEF chunk
    <2>3. chunk[1] \in Nat /\ chunk[2] \in Nat /\ chunk[4] \in Nat /\ chunk[5] \in Nat
      <3>1. \A k \in 1 .. Len(chunk) : chunk[k] \in Nat
        BY <2>2, ElementOfSeq
      <3> QED
        BY <2>2, <3>1
    <2>4. Number(chunk[4]) \in Nat /\ Number(chunk[5]) \in Int
      BY <2>1, <2>3 DEF IsDigits, Number
    <2> DEFINE schedule == IF IsDigits(chunk[5]) THEN Number(chunk[5]) ELSE -1
    <2>5. schedule \in Int
      BY <2>4
    <2>6. Decoded(chunk) = [label |-> chunk[1], type |-> chunk[2],
                            locked |-> chunk[3] = Locked, capacity |-> Number(chunk[4]),
                            schedule |-> schedule]
      BY DEF Decoded, Entry
    <2> HIDE DEF schedule
    <2>7. Decoded(chunk) \in FileEntries
      BY <2>3, <2>4, <2>5, <2>6 DEF FileEntries
    <2> QED
      BY <2>7 DEF chunk
  <1>4. DOMAIN entries = 1 .. Len(entries) /\ Len(entries) \in Nat
    BY <1>2
  <1> QED
    BY <1>3, <1>4 DEF entries

LEMMA ReadConfigurationDecodes ==
  ASSUME NEW parameter \in Seq(Nat), NEW head
  PROVE  IsDecoded(ReadConfiguration(parameter, head).command)
  <1> DEFINE count == Len(parameter) \div EntryLength
             chunks == [i \in 1 .. count |->
                          Slice(parameter, (i - 1) * EntryLength, i * EntryLength)]
             entries == Entries(chunks)
             es == [i \in DOMAIN entries |-> Decoded(entries[i])]
             c == Configuration(es)
  <1>1. CASE parameter = <<>>
    <2>1. ReadConfiguration(parameter, head).command = Wipe
      BY <1>1 DEF ReadConfiguration, Read
    <2> QED
      BY <2>1 DEF IsDecoded, Wipe, Nothing
  <1>2. CASE parameter # <<>>
    <2>1. ReadConfiguration(parameter, head).command = c
      BY <1>2, Zenon DEF ReadConfiguration, Read
    <2>2. chunks \in Seq(Chunks)
      BY ChunksAreThere, Zenon
    <2> HIDE DEF chunks
    <2>3. es \in Seq(FileEntries)
      BY <2>2, DecodedEntries
    <2> HIDE DEF es
    <2>4. c.op = "configure" /\ c.entries = es /\ c.malformed = FALSE
      BY DEF Configuration, Nothing
    <2> HIDE DEF c
    <2> QED
      BY <2>1, <2>3, <2>4 DEF IsDecoded
  <1> QED
    BY <1>1, <1>2

LEMMA ReadClockDecodes ==
  ASSUME NEW op \in {"time", "day", "format"}, NEW parameter, NEW sound \in BOOLEAN,
         NEW placeholder, NEW read, NEW head
  PROVE  IsDecoded(ReadClock(op, parameter, sound, placeholder, read, head).command)
  <1> DEFINE c == [Clock(op, IF sound THEN read ELSE placeholder) EXCEPT !.malformed = ~sound]
  <1>1. ReadClock(op, parameter, sound, placeholder, read, head).command = c
    BY DEF ReadClock, Read
  <1>2. c.op = op /\ c.malformed = ~sound
    BY DEF Clock, Nothing
  <1> HIDE DEF c
  <1> QED
    BY <1>1, <1>2 DEF IsDecoded

LEMMA ReadSequenceDecodes ==
  ASSUME NEW parameter, NEW head
  PROVE  IsDecoded(ReadSequence(parameter, head).command)
  <1> DEFINE c == Sequence(After(parameter, 2))
  <1>1. ReadSequence(parameter, head).command = c
    BY DEF ReadSequence, Read
  <1>2. c.op = "sequence" /\ c.malformed = FALSE
    BY DEF Sequence, Nothing
  <1> HIDE DEF c
  <1> QED
    BY <1>1, <1>2 DEF IsDecoded

LEMMA NothingDecodes == IsDecoded(Nothing)
  BY DEF IsDecoded, Nothing

LEMMA ReadSpecialDecodes ==
  ASSUME NEW p \in Seq(Nat)
  PROVE  IsDecoded(ReadSpecial(p).command)
  <1> DEFINE head == <<Slice(p, 0, 1), Slice(p, 1, 2)>>
             parameter == After(p, 2)
             r == ReadSpecial(p)
             clock(op, sound, placeholder, read) ==
               ReadClock(op, parameter, sound, placeholder, read, head)
  <1>1. parameter \in Seq(Nat)
    BY AfterTyped
  <1>2. IsDecoded(ReadConfiguration(parameter, head).command)
    BY <1>1, ReadConfigurationDecodes
  <1>3. IsDecoded(ReadSequence(parameter, head).command)
    BY ReadSequenceDecodes
  <1>4. IsDecoded(clock("time", IsTime(parameter), <<0, 0>>, Numbers(parameter)).command)
    <2>1. IsTime(parameter) \in BOOLEAN /\ "time" \in {"time", "day", "format"}
      BY DEF IsTime
    <2> QED
      BY <2>1, ReadClockDecodes
  <1>5. IsDecoded(clock("day", IsDay(parameter), <<0>>, Numbers(parameter)).command)
    <2>1. IsDay(parameter) \in BOOLEAN /\ "day" \in {"time", "day", "format"}
      BY DEF IsDay
    <2> QED
      BY <2>1, ReadClockDecodes
  <1>6. IsDecoded(clock("format", parameter \in Formats, <<83>>, parameter).command)
    <2> DEFINE sound == parameter \in Formats
    <2>1. sound \in BOOLEAN /\ "format" \in {"time", "day", "format"}
      OBVIOUS
    <2> QED
      BY <2>1, ReadClockDecodes
  <1>7. \A shown : Unread(p, shown).command = Nothing
    BY DEF Unread, Read
  <1>8. r = IF Len(p) < 2 THEN Unread(p, <<p>>)
            ELSE CASE p[2] = SetMemory -> ReadConfiguration(parameter, head)
                   [] p[2] = SetSequence -> ReadSequence(parameter, head)
                   [] p[2] = SetTime ->
                        clock("time", IsTime(parameter), <<0, 0>>, Numbers(parameter))
                   [] p[2] = SetDay ->
                        clock("day", IsDay(parameter), <<0>>, Numbers(parameter))
                   [] p[2] = SetFormat ->
                        clock("format", parameter \in Formats, <<83>>, parameter)
                   [] OTHER -> Unread(p, head \o Annotate(parameter))
    BY Zenon DEF ReadSpecial
  <1> HIDE DEF r, clock, head, parameter
  <1>9. \/ r = Unread(p, <<p>>)
        \/ r = ReadConfiguration(parameter, head)
        \/ r = ReadSequence(parameter, head)
        \/ r = clock("time", IsTime(parameter), <<0, 0>>, Numbers(parameter))
        \/ r = clock("day", IsDay(parameter), <<0>>, Numbers(parameter))
        \/ r = clock("format", parameter \in Formats, <<83>>, parameter)
        \/ r = Unread(p, head \o Annotate(parameter))
    BY <1>8 DEF SetMemory, SetSequence, SetTime, SetDay, SetFormat
  <1>10. IsDecoded(r.command)
    BY <1>2, <1>3, <1>4, <1>5, <1>6, <1>7, <1>9, NothingDecodes
  <1> QED
    BY <1>10 DEF r

(* What a command says is what the sign counts on, whatever was read.      *)
LEMMA PayloadDecodes ==
  ASSUME NEW p \in Seq(Nat)
  PROVE  IsDecoded(DecodePayload(p).command)
  <1> DEFINE r == DecodePayload(p)
  <1>1. \/ r = Unread(p, <<>>) \/ r = ReadMessage(p) \/ r = ReadValue(p)
        \/ r = ReadPicture(p) \/ r = ReadSpecial(p) \/ r = ReadOther(p)
    BY DEF DecodePayload, WriteText, WriteString, WriteDots, WriteSpecial
  <1>2. Unread(p, <<>>).command = Nothing /\ ReadOther(p).command = Nothing
    BY DEF Unread, ReadOther, Read
  <1> HIDE DEF r
  <1>3. IsDecoded(r.command)
    BY <1>1, <1>2, NothingDecodes, ReadMessageDecodes, ReadValueDecodes,
       ReadPictureDecodes, ReadSpecialDecodes
  <1> QED
    BY <1>3 DEF r

LEMMA DecodeDecodes ==
  ASSUME NEW t \in Transmissions
  PROVE  IsDecoded(Decode(t.raw, t.truncated).command)
  <1> DEFINE to == IF t.truncated THEN Len(t.raw) ELSE Len(t.raw) - 1
             payload == Slice(t.raw, Len(Header), to)
  <1>1. t.raw \in Seq(Nat) /\ Len(t.raw) \in Nat /\ Len(t.raw) >= 5
    BY DEF Transmissions, IsTransmission
  <1>2. to \in Nat /\ Len(Header) \in Nat
    BY <1>1, HeaderIsFive
  <1> HIDE DEF to
  <1>3. payload \in Seq(Nat)
    BY <1>1, <1>2, SliceTyped
  <1>4. Decode(t.raw, t.truncated).command = DecodePayload(payload).command
    BY DEF Decode, to
  <1> HIDE DEF payload
  <1> QED
    BY <1>3, <1>4, PayloadDecodes

-----------------------------------------------------------------------------
(* Pieces, end to end.                                                     *)
Flattens(q, f) ==
  f = [i \in 1 .. Len(q) |-> IF i = 1 THEN q[i] ELSE f[i - 1] \o q[i]]

LEMMA FlattenIs ==
  ASSUME NEW S, NEW q \in Seq(Seq(S)), q # <<>>
  PROVE  \E f : Flattens(q, f) /\ FlattenSeq(q) = f[Len(q)]
  <1> DEFINE N == Len(q)
             Q == Seq(S)
             step == [x \in (1 .. N) \X Q |-> x[2] \o q[x[1]]]
  <1>1. N \in Nat /\ N >= 1 /\ <<>> \in Q /\ \A n \in 1 .. N : q[n] \in Q
    OBVIOUS
  <1>2. \A n \in 1 .. N : \A s \in Q : step[<<n, s>>] = s \o q[n] /\ s \o q[n] \in Q
    <2>1. \A s, x \in Seq(S) : s \o x \in Seq(S)
      BY ConcatProperties
    <2>2. \A n \in 1 .. N : \A s \in Q : s \o q[n] \in Q
      BY <1>1, <2>1
    <2> HIDE DEF Q, N
    <2> QED
      BY <2>2
  <1>3. step \in Steps(N, Q)
    BY <1>1 DEF Steps
  <1>4. PICK g : IsRun(g, N, Q, <<>>, step)
    <2> HIDE DEF step, Q, N
    <2> QED
      BY <1>1, <1>3, StepsCanBeTaken
  <1>5. /\ g \in [0 .. N -> Q] /\ g[0] = <<>>
        /\ \A n \in 1 .. N : g[n] = step[<<n, g[n - 1]>>]
    BY <1>4 DEF IsRun
  <1>6. ASSUME NEW n \in 1 .. N
        PROVE  g[n] = IF n = 1 THEN q[n] ELSE g[n - 1] \o q[n]
    <2>1. n - 1 \in 0 .. N /\ (n = 1 => n - 1 = 0)
      BY <1>1
    <2> HIDE DEF step, Q, N
    <2>2. g[n - 1] \in Q
      BY <1>5, <2>1
    <2>3. g[n] = g[n - 1] \o q[n]
      BY <1>2, <1>5, <2>2
    <2>4. n = 1 => <<>> \o q[n] = q[n]
      <3>1. q[n] \in Seq(S)
        BY <1>1 DEF Q
      <3> QED
        BY <3>1, ConcatEmptySeq
    <2> QED
      BY <1>5, <2>1, <2>3, <2>4
  <1> DEFINE f == [i \in 1 .. N |-> g[i]]
  <1>7. ASSUME NEW i \in 1 .. N
        PROVE  f[i] = IF i = 1 THEN q[i] ELSE f[i - 1] \o q[i]
    <2>1. i # 1 => i - 1 \in 1 .. N
      BY <1>1
    <2> HIDE DEF N
    <2>2. i # 1 => f[i - 1] = g[i - 1]
      BY <2>1
    <2> QED
      BY <1>6, <2>2
  <1>8. Flattens(q, f)
    <2>1. DOMAIN f = 1 .. N
      OBVIOUS
    <2>2. f = [i \in 1 .. N |-> f[i]]
      BY <2>1
    <2> HIDE DEF f
    <2>3. [i \in 1 .. N |-> f[i]]
            = [i \in 1 .. N |-> IF i = 1 THEN q[i] ELSE f[i - 1] \o q[i]]
      BY <1>7
    <2> QED
      BY <2>2, <2>3 DEF Flattens
  <1>9. FlattenSeq(q) = (CHOOSE h : Flattens(q, h))[N]
    <2>1. Len(q) # 0
      BY <1>1
    <2> QED
      BY <2>1, Zenon DEF FlattenSeq, Flattens
  <1> HIDE DEF f
  <1> QED
    BY <1>8, <1>9

(* Sequences of pieces that begin alike make the same of their beginning.  *)
LEMMA FlattensAlike ==
  ASSUME NEW S, NEW q \in Seq(Seq(S)), NEW r \in Seq(Seq(S)), NEW f, NEW g,
         Flattens(q, f), Flattens(r, g),
         NEW m \in Nat, m <= Len(q), m <= Len(r), \A i \in 1 .. m : q[i] = r[i]
  PROVE  \A i \in 1 .. m : f[i] = g[i] /\ f[i] \in Seq(S)
  <1> DEFINE Alike(i) == f[i] = g[i] /\ f[i] \in Seq(S)
             T == {n \in 0 .. m : n = 0 \/ Alike(n)}
  <1>1. ASSUME NEW n \in 1 .. m, n - 1 \in T
        PROVE  n \in T
    <2>1. /\ n \in 1 .. Len(q) /\ n \in 1 .. Len(r) /\ q[n] = r[n] /\ q[n] \in Seq(S)
          /\ n \in 0 .. m
      OBVIOUS
    <2>2. /\ f[n] = IF n = 1 THEN q[n] ELSE f[n - 1] \o q[n]
          /\ g[n] = IF n = 1 THEN r[n] ELSE g[n - 1] \o r[n]
      BY <2>1 DEF Flattens
    <2>3. CASE n = 1
      BY <2>1, <2>2, <2>3
    <2>4. CASE n # 1
      <3>1. Alike(n - 1)
        BY <1>1, <2>4
      <3>2. f[n] = g[n] /\ f[n] = f[n - 1] \o q[n]
        BY <2>1, <2>2, <2>4, <3>1
      <3>3. f[n - 1] \o q[n] \in Seq(S)
        BY <2>1, <3>1, ConcatProperties
      <3> QED
        BY <2>1, <3>2, <3>3
    <2> QED
      BY <2>3, <2>4
  <1>2. 0 \in T
    OBVIOUS
  <1>3. 0 .. m \subseteq T
    <2> HIDE DEF T
    <2> QED
      BY <1>1, <1>2, IntervalInduction
  <1>4. \A i \in 1 .. m : i \in 0 .. m /\ i # 0
    OBVIOUS
  <1>5. \A i \in 1 .. m : Alike(i)
    BY <1>3, <1>4
  <1> QED
    BY <1>5

LEMMA Associative ==
  \A S : \A s, t, u \in Seq(S) : (s \o t) \o u = s \o (t \o u)
  OBVIOUS

LEMMA FlattenNothing == FlattenSeq(<<>>) = <<>>
  BY DEF FlattenSeq

LEMMA FlattenOne ==
  ASSUME NEW S, NEW x \in Seq(S)
  PROVE  FlattenSeq(<<x>>) = x
  <1>1. <<x>> \in Seq(Seq(S)) /\ <<x>> # <<>> /\ Len(<<x>>) = 1 /\ <<x>>[1] = x
    OBVIOUS
  <1>2. PICK f : Flattens(<<x>>, f) /\ FlattenSeq(<<x>>) = f[1]
    BY <1>1, FlattenIs
  <1>3. f[1] = x
    BY <1>1, <1>2 DEF Flattens
  <1> QED
    BY <1>2, <1>3

LEMMA FlattenAppend ==
  ASSUME NEW S, NEW q \in Seq(Seq(S)), NEW x \in Seq(S)
  PROVE  /\ FlattenSeq(q) \in Seq(S)
         /\ FlattenSeq(Append(q, x)) = FlattenSeq(q) \o x
  <1> DEFINE r == Append(q, x)
  <1>1. /\ r \in Seq(Seq(S)) /\ Len(r) = Len(q) + 1 /\ r[Len(q) + 1] = x /\ r # <<>>
        /\ \A i \in 1 .. Len(q) : r[i] = q[i]
    BY AppendProperties
  <1>2. Len(q) \in Nat
    OBVIOUS
  <1> HIDE DEF r
  <1>3. PICK g : Flattens(r, g) /\ FlattenSeq(r) = g[Len(q) + 1]
    BY <1>1, FlattenIs
  <1>4. g[Len(q) + 1] = IF Len(q) + 1 = 1 THEN x ELSE g[Len(q)] \o x
    <2>1. Len(q) + 1 \in 1 .. Len(r) /\ Len(q) + 1 - 1 = Len(q)
      BY <1>1, <1>2
    <2>2. \A i \in 1 .. Len(r) : g[i] = IF i = 1 THEN r[i] ELSE g[i - 1] \o r[i]
      BY <1>3 DEF Flattens
    <2> QED
      BY <1>1, <2>1, <2>2
  <1>5. CASE q = <<>>
    <2>1. FlattenSeq(q) = <<>> /\ Len(q) = 0
      BY <1>5, FlattenNothing
    <2>2. FlattenSeq(r) = x
      BY <1>3, <1>4, <2>1
    <2>3. <<>> \o x = x /\ <<>> \in Seq(S)
      BY ConcatEmptySeq
    <2> QED
      BY <2>1, <2>2, <2>3 DEF r
  <1>6. CASE q # <<>>
    <2>0. Len(q) >= 1 /\ Len(q) \in 1 .. Len(q)
      BY <1>2, <1>6
    <2>1. PICK f : Flattens(q, f) /\ FlattenSeq(q) = f[Len(q)]
      BY <1>6, FlattenIs
    <2>2. \A i \in 1 .. Len(q) : f[i] = g[i] /\ f[i] \in Seq(S)
      <3>1. Len(q) <= Len(q) /\ Len(q) <= Len(r) /\ \A i \in 1 .. Len(q) : q[i] = r[i]
        BY <1>1, <1>2
      <3> QED
        BY <1>1, <1>2, <1>3, <2>1, <3>1, FlattensAlike
    <2>3. FlattenSeq(q) = g[Len(q)] /\ FlattenSeq(q) \in Seq(S)
      BY <2>0, <2>1, <2>2
    <2>4. FlattenSeq(r) = FlattenSeq(q) \o x
      BY <1>2, <1>3, <1>4, <2>0, <2>3
    <2> QED
      BY <2>3, <2>4 DEF r
  <1> QED
    BY <1>5, <1>6

(* What pieces fall into, end to end: what is proved of them is put        *)
(* together from what is proved of the parts.                              *)
Make(q, s, S) == q \in Seq(Seq(S)) /\ s \in Seq(S) /\ FlattenSeq(q) = s

LEMMA MakeTogether ==
  ASSUME NEW S, NEW q, NEW r, NEW s, NEW t, Make(q, s, S), Make(r, t, S)
  PROVE  Make(q \o r, s \o t, S)
  <1> DEFINE N == Len(r)
             upTo(n) == SubSeq(r, 1, n)
             Fine(n) == FlattenSeq(q \o upTo(n)) = FlattenSeq(q) \o FlattenSeq(upTo(n))
             T == {n \in 0 .. N : Fine(n)}
  <1>1. q \in Seq(Seq(S)) /\ r \in Seq(Seq(S)) /\ s \in Seq(S) /\ t \in Seq(S)
    BY DEF Make
  <1>2. N \in Nat /\ upTo(N) = r /\ upTo(0) = <<>>
    BY <1>1, SubSeqFull, SubSeqEmpty
  <1>3. FlattenSeq(q) = s /\ FlattenSeq(r) = t
    BY DEF Make
  <1>4. 0 \in T
    <2>1. q \o <<>> = q /\ s \o <<>> = s
      BY <1>1, ConcatEmptySeq
    <2>2. Fine(0)
      BY <1>2, <1>3, <2>1, FlattenNothing
    <2> QED
      BY <1>2, <2>2
  <1>5. ASSUME NEW n \in 1 .. N, n - 1 \in T PROVE n \in T
    <2>1. r[n] \in Seq(S) /\ upTo(n - 1) \in Seq(Seq(S))
      <3>1. n - 1 \in 0 .. Len(r) /\ 0 \in Nat
        BY <1>2
      <3>2. SubSeq(r, 0 + 1, n - 1) \in Seq(Seq(S))
        BY <1>1, <3>1, Part, Zenon
      <3> QED
        BY <1>1, <3>2
    <2>2. upTo(n) = Append(upTo(n - 1), r[n])
      <3>1. upTo(n) = upTo(n - 1) \o <<r[n]>>
        <4>1. 1 \in 1 .. Len(r) /\ n \in 1 .. Len(r)
          BY <1>2
        <4> QED
          BY <1>1, <4>1, SubSeqRecursiveSecond
      <3> HIDE DEF upTo
      <3> QED
        BY <2>1, <3>1, AppendIsConcat
    <2>3. Fine(n - 1) /\ n \in 0 .. N
      BY <1>5
    <2> DEFINE u == upTo(n - 1)
               x == r[n]
    <2> HIDE DEF upTo, Fine
    <2>4. upTo(n) = Append(u, x) /\ u \in Seq(Seq(S)) /\ x \in Seq(S)
      BY <2>1, <2>2
    <2>5. FlattenSeq(q \o u) = FlattenSeq(q) \o FlattenSeq(u)
      BY <2>3 DEF Fine
    <2> HIDE DEF u, x
    <2>6. q \o Append(u, x) = Append(q \o u, x) /\ q \o u \in Seq(Seq(S))
      <3>1. Append(u, x) = u \o <<x>> /\ <<x>> \in Seq(Seq(S))
        BY <2>4, AppendIsConcat
      <3>2. (q \o u) \o <<x>> = q \o (u \o <<x>>)
        <4> DEFINE w == <<x>>
                   Q == Seq(S)
        <4>1. q \in Seq(Q) /\ u \in Seq(Q) /\ w \in Seq(Q)
          BY <1>1, <2>4, <3>1
        <4> HIDE DEF w, Q
        <4>2. (q \o u) \o w = q \o (u \o w)
          BY <4>1, Associative, SMTT(30)
        <4> QED
          BY <4>2 DEF w
      <3>3. q \o u \in Seq(Seq(S))
        BY <1>1, <2>4, ConcatProperties
      <3>4. Append(q \o u, x) = (q \o u) \o <<x>>
        BY <2>4, <3>3, AppendIsConcat
      <3> QED
        BY <3>1, <3>2, <3>3, <3>4
    <2>7. /\ FlattenSeq(Append(q \o u, x)) = FlattenSeq(q \o u) \o x
          /\ FlattenSeq(Append(u, x)) = FlattenSeq(u) \o x
          /\ FlattenSeq(u) \in Seq(S)
      BY <2>4, <2>6, FlattenAppend
    <2>8. (s \o FlattenSeq(u)) \o x = s \o (FlattenSeq(u) \o x)
      <3>1. s \in Seq(S) /\ FlattenSeq(u) \in Seq(S) /\ x \in Seq(S)
        BY <1>1, <2>4, <2>7
      <3> QED
        BY <3>1, Associative
    <2>9. FlattenSeq(q \o upTo(n)) = FlattenSeq(q) \o FlattenSeq(upTo(n))
      BY <1>3, <2>4, <2>5, <2>6, <2>7, <2>8
    <2> QED
      BY <2>3, <2>9 DEF Fine
  <1>6. 0 .. N \subseteq T
    <2> HIDE DEF T
    <2> QED
      BY <1>2, <1>4, <1>5, IntervalInduction
  <1>7. FlattenSeq(q \o r) = s \o t
    <2>1. Fine(N)
      BY <1>2, <1>6
    <2> QED
      BY <1>2, <1>3, <2>1
  <1>8. q \o r \in Seq(Seq(S)) /\ s \o t \in Seq(S)
    BY <1>1, ConcatProperties
  <1> QED
    BY <1>7, <1>8 DEF Make

LEMMA MakeOne ==
  ASSUME NEW S, NEW s \in Seq(S)
  PROVE  Make(<<s>>, s, S)
  BY FlattenOne DEF Make

LEMMA MakeNothing == \A S : Make(<<>>, <<>>, S)
  BY FlattenNothing DEF Make

(* Each piece is where those before it end.                                *)
LEMMA PiecesHaveTheirPlace ==
  ASSUME NEW S, NEW q \in Seq(Seq(S)), NEW i \in DOMAIN q
  PROVE  LET at == Len(FlattenSeq(SubSeq(q, 1, i - 1)))
         IN SubSeq(FlattenSeq(q), at + 1, at + Len(q[i])) = q[i]
  <1> DEFINE Q == Seq(S)
             N == Len(q)
             x == q[i]
             before == SubSeq(q, 1, i - 1)
             beyond == SubSeq(q, i + 1, N)
             a == FlattenSeq(before)
             b == FlattenSeq(beyond)
  <1>1. N \in Nat /\ i \in 1 .. N /\ x \in Q
    OBVIOUS
  <1>2. before \in Seq(Q) /\ beyond \in Seq(Q)
    <2>1. i - 1 \in 0 .. Len(q) /\ 0 \in Nat /\ N \in 0 .. Len(q) /\ i \in Nat
      BY <1>1
    <2>2. SubSeq(q, 0 + 1, i - 1) \in Seq(Q) /\ SubSeq(q, i + 1, N) \in Seq(Q)
      <3> HIDE DEF N
      <3> QED
        BY <2>1, Part, Zenon
    <2> QED
      BY <2>2
  <1>3. q = before \o (<<x>> \o beyond)
    <2>1. <<x>> \o beyond = SubSeq(q, i, N)
      <3>1. i \in 1 .. Len(q) /\ N \in i .. Len(q)
        BY <1>1
      <3> HIDE DEF N
      <3> QED
        BY <3>1, SubSeqRecursiveFirst
    <2>2. before \o SubSeq(q, i, N) = SubSeq(q, 1, N)
      <3> DEFINE k == i - 1
      <3>1. 1 \in 1 .. Len(q) + 1 /\ k \in 1 - 1 .. Len(q) /\ N \in k .. Len(q)
        BY <1>1
      <3>2. i = k + 1 /\ before = SubSeq(q, 1, k)
        BY <1>1
      <3> HIDE DEF N, k, before
      <3>3. SubSeq(q, 1, k) \o SubSeq(q, k + 1, N) = SubSeq(q, 1, N)
        BY <3>1, ConcatAdjacentSubSeq
      <3> QED
        BY <3>2, <3>3
    <2>3. SubSeq(q, 1, N) = q
      BY SubSeqFull
    <2> HIDE DEF before, beyond, N, x
    <2> QED
      BY <2>1, <2>2, <2>3
  <1> HIDE DEF before, beyond
  <1>4. a \in Seq(S) /\ b \in Seq(S) /\ x \in Seq(S)
    <2>1. <<>> \in Seq(S)
      OBVIOUS
    <2> QED
      BY <1>1, <1>2, <2>1, FlattenAppend
  <1> HIDE DEF x, N
  <1>5. Make(before, a, S) /\ Make(<<x>>, x, S) /\ Make(beyond, b, S)
    BY <1>2, <1>4, MakeOne DEF Make
  <1> HIDE DEF a, b
  <1>6. Make(q, a \o (x \o b), S)
    <2>1. Make(<<x>> \o beyond, x \o b, S)
      BY <1>5, MakeTogether
    <2>2. Make(before \o (<<x>> \o beyond), a \o (x \o b), S)
      BY <1>5, <2>1, MakeTogether
    <2> QED
      BY <1>3, <2>2
  <1>7. FlattenSeq(q) = a \o (x \o b)
    BY <1>6 DEF Make
  <1>8. SubSeq(a \o (x \o b), Len(a) + 1, Len(a) + Len(x)) = x
    <2> DEFINE w == a \o (x \o b)
               m == Len(a) + 1
               n == Len(a) + Len(x)
    <2>1. /\ Len(a) \in Nat /\ Len(x) \in Nat
          /\ w \in Seq(S) /\ Len(w) = Len(a) + Len(x) + Len(b) /\ Len(b) \in Nat
          /\ \A k \in 1 .. Len(x) : w[Len(a) + k] = x[k]
      BY <1>4
    <2> HIDE DEF w
    <2>2. n \in 0 .. Len(w)
      BY <2>1
    <2>3. LET s == SubSeq(w, Len(a) + 1, n)
          IN /\ s \in Seq(S)
             /\ Len(s) = IF Len(a) <= n THEN n - Len(a) ELSE 0
             /\ \A k \in 1 .. Len(s) : s[k] = w[Len(a) + k]
      <3> HIDE DEF n
      <3> QED
        BY <2>1, <2>2, Part
    <2> DEFINE s == SubSeq(w, Len(a) + 1, n)
    <2> HIDE DEF s
    <2>4. s \in Seq(S) /\ Len(s) = Len(x) /\ \A k \in 1 .. Len(s) : s[k] = x[k]
      BY <2>1, <2>3 DEF s
    <2>5. s = x
      BY <1>4, <2>4, SeqEqual
    <2> QED
      BY <2>5 DEF s, w
  <1> QED
    BY <1>7, <1>8 DEF a, x, before

(* Nothing is lost with the pieces that are empty.                         *)
LEMMA NonEmptyMakes ==
  ASSUME NEW S, NEW q, NEW s, Make(q, s, S)
  PROVE  Make(NonEmpty(q), s, S)
  <1> DEFINE N == Len(q)
             Q == Seq(S)
             places == {i \in DOMAIN q : q[i] # <<>>}
             upTo(n) == SubSeq(q, 1, n)
  <1>1. q \in Seq(Q) /\ s \in Seq(S) /\ FlattenSeq(q) = s /\ N \in Nat
    BY DEF Make
  <1>2. PICK g : Chooses(q, places, g) /\ Chosen(q, places) = g[N]
    <2> HIDE DEF places
    <2> QED
      BY <1>1, ChosenIs
  <1>3. /\ g[0] = <<>>
        /\ \A n \in 1 .. N :
             g[n] = IF q[n] # <<>> THEN Append(g[n - 1], q[n]) ELSE g[n - 1]
    <2>1. \A n \in 0 .. N :
            g[n] = IF n = 0 THEN <<>>
                   ELSE IF n \in places THEN Append(g[n - 1], q[n])
                   ELSE g[n - 1]
      <3> HIDE DEF places
      <3> QED
        BY <1>2 DEF Chooses
    <2>2. 0 \in 0 .. N /\ \A n \in 1 .. N : n \in 0 .. N /\ n # 0 /\ n \in DOMAIN q
      BY <1>1
    <2> HIDE DEF N
    <2> QED
      BY <2>1, <2>2
  <1> DEFINE Fine(n) == Make(g[n], FlattenSeq(upTo(n)), S)
             T == {n \in 0 .. N : Fine(n)}
  <1>4. 0 \in T
    <2>1. upTo(0) = <<>>
      BY <1>1, SubSeqEmpty
    <2>2. Fine(0)
      <3> HIDE DEF upTo
      <3> QED
        BY <1>3, <2>1, FlattenNothing, MakeNothing
    <2> QED
      BY <1>1, <2>2
  <1>5. ASSUME NEW n \in 1 .. N, n - 1 \in T PROVE n \in T
    <2>1. Fine(n - 1) /\ n \in 0 .. N
      BY <1>5
    <2> DEFINE u == upTo(n - 1)
               x == q[n]
    <2>2. upTo(n) = Append(u, x) /\ u \in Seq(Q) /\ x \in Q
      <3>1. n - 1 \in 0 .. Len(q) /\ 0 \in Nat /\ 1 \in 1 .. Len(q) /\ n \in 1 .. Len(q)
        BY <1>1
      <3>2. SubSeq(q, 0 + 1, n - 1) \in Seq(Q) /\ x \in Q
        <4>1. x \in Q
          BY <1>1, <3>1
        <4> HIDE DEF Q, x, N
        <4> QED
          BY <1>1, <3>1, <4>1, Part, Zenon
      <3>3. upTo(n) = upTo(n - 1) \o <<x>>
        <4> HIDE DEF Q, N
        <4> QED
          BY <1>1, <3>1, SubSeqRecursiveSecond
      <3>4. u \in Seq(Q)
        BY <3>2
      <3>5. upTo(n) = u \o <<x>>
        BY <3>3
      <3> HIDE DEF u, x, upTo, Q
      <3>6. Append(u, x) = u \o <<x>>
        BY <3>2, <3>4, AppendIsConcat
      <3> QED
        BY <3>2, <3>4, <3>5, <3>6
    <2>3. Make(g[n - 1], FlattenSeq(u), S)
      BY <2>1
    <2> HIDE DEF upTo
    <2>4. g[n] = IF x # <<>> THEN Append(g[n - 1], x) ELSE g[n - 1]
      BY <1>3
    <2> HIDE DEF u, x
    <2>5. FlattenSeq(upTo(n)) = FlattenSeq(u) \o x /\ FlattenSeq(u) \in Seq(S)
      BY <2>2, FlattenAppend
    <2>6. CASE x = <<>>
      <3>1. FlattenSeq(u) \o x = FlattenSeq(u)
        BY <2>5, <2>6, ConcatEmptySeq
      <3>2. g[n] = g[n - 1] /\ FlattenSeq(upTo(n)) = FlattenSeq(u)
        BY <2>4, <2>5, <2>6, <3>1
      <3>3. Fine(n)
        BY <2>3, <3>2
      <3> QED
        BY <2>1, <3>3
    <2>7. CASE x # <<>>
      <3>1. g[n] = Append(g[n - 1], x) /\ g[n - 1] \in Seq(Seq(S)) /\ x \in Seq(S)
        BY <2>2, <2>3, <2>4, <2>7 DEF Make
      <3>2. g[n] = g[n - 1] \o <<x>>
        BY <3>1, AppendIsConcat
      <3>3. Make(<<x>>, x, S)
        BY <3>1, MakeOne
      <3>4. Make(g[n - 1] \o <<x>>, FlattenSeq(u) \o x, S)
        BY <2>3, <3>3, MakeTogether
      <3>5. Fine(n)
        BY <2>5, <3>2, <3>4
      <3> QED
        BY <2>1, <3>5
    <2> QED
      BY <2>6, <2>7
  <1>6. 0 .. N \subseteq T
    <2> HIDE DEF T
    <2> QED
      BY <1>1, <1>4, <1>5, IntervalInduction
  <1>7. Fine(N)
    BY <1>1, <1>6
  <1>8. upTo(N) = q
    BY <1>1, SubSeqFull
  <1>9. NonEmpty(q) = g[N]
    BY <1>2 DEF NonEmpty
  <1> HIDE DEF upTo
  <1> QED
    BY <1>1, <1>7, <1>8, <1>9

-----------------------------------------------------------------------------
(* The pieces of a message.                                                *)
LEMMA MatchFits ==
  ASSUME NEW body \in Seq(Nat), NEW i \in 1 .. Len(body)
  PROVE  MatchAt(body, i) \in Nat /\ i + MatchAt(body, i) <= Len(body) + 1
  <1> DEFINE left == Len(body) - i + 1
             modeLength == IF left >= 3 /\ body[i + 2] = SpecialMode THEN 2 ELSE 1
  <1>1. MatchAt(body, i) =
          CASE body[i] = SOM /\ left >= 2 + modeLength -> 2 + modeLength
            [] body[i] \in {StringInsert, DotsInsert} /\ left >= 2 -> 2
            [] body[i] = AlphaDotsInsert /\ left >= 15 -> 15
            [] OTHER -> 0
    BY DEF MatchAt
  <1>2. left \in Nat /\ i + left = Len(body) + 1 /\ modeLength \in {1, 2} /\ i \in Nat
    OBVIOUS
  <1> HIDE DEF left, modeLength
  <1>3. MatchAt(body, i) \in {0, 2, 3, 4, 15} /\ MatchAt(body, i) <= left
    BY <1>1, <1>2 DEF SOM, StringInsert, DotsInsert, AlphaDotsInsert
  <1> QED
    BY <1>2, <1>3

\* A run of text from i to j.
IsText(body, i, j) == \A k \in i .. j : body[k] \in Printable /\ MatchAt(body, k) = 0

LEMMA TextEnds ==
  ASSUME NEW body \in Seq(Nat), NEW i \in 1 .. Len(body),
         body[i] \in Printable, MatchAt(body, i) = 0
  PROVE  TextEnd(body, i) \in i .. Len(body)
  <1> DEFINE N == Len(body)
             S == {n \in 0 .. N - i : IsText(body, i, N - n)}
  <1>1. N \in Nat /\ i \in 1 .. N
    OBVIOUS
  <1>2. N - i \in S
    <2>1. N - (N - i) = i /\ N - i \in 0 .. N - i
      BY <1>1
    <2>2. IsText(body, i, i)
      BY <1>1 DEF IsText
    <2> HIDE DEF N
    <2> QED
      BY <2>1, <2>2
  <1> DEFINE m == Min(S)
             j == N - m
  <1>3. m \in S /\ \A y \in S : m <= y
    <2>1. S \subseteq 0 .. N - i /\ 0 .. N - i \subseteq Nat
      BY <1>1
    <2>2. S \in SUBSET Nat /\ S # {}
      <3> HIDE DEF S, N
      <3> QED
        BY <1>2, <2>1
    <2> HIDE DEF S
    <2> QED
      BY <2>2, LeastIsThere
  <1> HIDE DEF m
  <1>4. j \in i .. N /\ IsText(body, i, j)
    BY <1>1, <1>3
  <1>5. j < N => ~(body[j + 1] \in Printable /\ MatchAt(body, j + 1) = 0)
    <2>1. SUFFICES ASSUME j < N, body[j + 1] \in Printable, MatchAt(body, j + 1) = 0
                   PROVE  FALSE
      OBVIOUS
    <2>2. m - 1 \in 0 .. N - i /\ N - (m - 1) = j + 1 /\ ~(m <= m - 1)
      BY <1>1, <1>3, <1>4, <2>1
    <2>3. \A k \in i .. j + 1 : k \in i .. j \/ k = j + 1
      BY <1>1, <1>4
    <2> HIDE DEF j, N
    <2>4. IsText(body, i, j + 1)
      BY <1>4, <2>1, <2>3 DEF IsText
    <2>5. m - 1 \in S
      BY <2>2, <2>4
    <2> HIDE DEF S
    <2> QED
      BY <1>3, <2>2, <2>5
  <1>6. j < N => body[j + 1] \notin Printable \/ MatchAt(body, j + 1) > 0
    <2>1. SUFFICES ASSUME j < N PROVE body[j + 1] \notin Printable \/ MatchAt(body, j + 1) > 0
      OBVIOUS
    <2>2. j + 1 \in 1 .. Len(body)
      BY <1>1, <1>4, <2>1
    <2>3. MatchAt(body, j + 1) \in Nat
      BY <2>2, MatchFits
    <2> HIDE DEF j
    <2> QED
      BY <1>5, <2>1, <2>3
  <1>7. \E n \in i .. N :
          /\ \A k \in i .. n : body[k] \in Printable /\ MatchAt(body, k) = 0
          /\ n < N => body[n + 1] \notin Printable \/ MatchAt(body, n + 1) > 0
    <2> HIDE DEF j, N
    <2> QED
      BY <1>4, <1>6 DEF IsText
  <1> HIDE DEF j, S
  <1> QED
    BY <1>7, Zenon DEF TextEnd

LEMMA SpanFits ==
  ASSUME NEW body \in Seq(Nat), NEW i \in 1 .. Len(body)
  PROVE  /\ SpanLength(body, i) \in Nat \ {0}
         /\ i + SpanLength(body, i) <= Len(body) + 1
  <1>1. MatchAt(body, i) \in Nat /\ i + MatchAt(body, i) <= Len(body) + 1
    BY MatchFits
  <1>2. CASE MatchAt(body, i) > 0
    BY <1>1, <1>2 DEF SpanLength
  <1>3. CASE ~(MatchAt(body, i) > 0) /\ body[i] \in Printable
    <2>1. TextEnd(body, i) \in i .. Len(body)
      BY <1>1, <1>3, TextEnds
    <2>2. SpanLength(body, i) = TextEnd(body, i) - i + 1
      BY <1>3 DEF SpanLength
    <2> QED
      BY <2>1, <2>2
  <1>4. CASE ~(MatchAt(body, i) > 0) /\ body[i] \notin Printable
    BY <1>4 DEF SpanLength
  <1> QED
    BY <1>2, <1>3, <1>4

\* One piece of a message, and what is left of it from a place on.
PieceAt(body, i) == SubSeq(body, i, i + SpanLength(body, i) - 1)
AnnotatesFrom(body, a, from) ==
  from = [i \in a .. Len(body) + 1 |->
            IF i > Len(body) THEN <<>>
            ELSE <<PieceAt(body, i)>> \o from[i + SpanLength(body, i)]]

LEMMA AnnotateIs ==
  ASSUME NEW body \in Seq(Nat)
  PROVE  \E from : AnnotatesFrom(body, 1, from) /\ Annotate(body) = from[1]
  <1> DEFINE N == Len(body)
             L(i) == SpanLength(body, i)
             piece(i) == PieceAt(body, i)
             Made(g, a) == /\ g = [i \in a .. N + 1 |-> g[i]]
                           /\ \A i \in a .. N + 1 :
                                g[i] = IF i > N THEN <<>> ELSE <<piece(i)>> \o g[i + L(i)]
             T == {n \in 0 .. N : \E g : Made(g, N + 1 - n)}
  <1>1. /\ N \in Nat
        /\ \A i \in 1 .. N : L(i) \in Nat \ {0} /\ i + L(i) <= N + 1
    BY SpanFits
  <1>2. 0 \in T
    <2> DEFINE g == [i \in N + 1 .. N + 1 |-> <<>>]
    <2>1. \A i \in N + 1 .. N + 1 : i > N /\ i = N + 1
      BY <1>1
    <2>2. Made(g, N + 1)
      <3> HIDE DEF N
      <3> QED
        BY <2>1
    <2>3. N + 1 - 0 = N + 1 /\ 0 \in 0 .. N
      BY <1>1
    <2>4. \E h : Made(h, N + 1)
      BY <2>2
    <2> HIDE DEF Made
    <2> QED
      BY <2>3, <2>4
  <1>3. ASSUME NEW n \in 1 .. N, n - 1 \in T PROVE n \in T
    <2> DEFINE a == N + 1 - n
               b == N + 1 - (n - 1)
    <2>1. PICK g : Made(g, b)
      BY <1>3
    <2>2. /\ a \in 1 .. N /\ b = a + 1 /\ n \in 0 .. N /\ a \in Nat
          /\ \A i \in a .. N + 1 : i = a \/ i \in b .. N + 1
          /\ \A i \in b .. N + 1 : i \in a .. N + 1 /\ i # a
          /\ a \in a .. N + 1
      <3>1. N \in Nat /\ n \in 1 .. N
        BY <1>1
      <3> HIDE DEF N
      <3>2. a \in Nat /\ a >= 1 /\ a <= N /\ b = a + 1 /\ n \in 0 .. N
        BY <3>1
      <3> HIDE DEF a, b
      <3> QED
        BY <3>1, <3>2
    <2>3. L(a) \in Nat \ {0} /\ a + L(a) <= N + 1
      BY <1>1, <2>2
    <2> DEFINE x == <<piece(a)>> \o g[a + L(a)]
               h == [i \in a .. N + 1 |-> IF i = a THEN x ELSE g[i]]
    <2> HIDE DEF a, b, L, piece
    <2>4. a + L(a) \in b .. N + 1
      <3>1. \A l \in Nat \ {0} : a + l <= N + 1 => a + l \in a + 1 .. N + 1
        BY <1>1, <2>2
      <3> QED
        BY <2>2, <2>3, <3>1
    <2>5. h[a] = x /\ \A i \in b .. N + 1 : h[i] = g[i]
      <3> HIDE DEF x, N
      <3> QED
        BY <2>2
    <2>6. x = <<piece(a)>> \o h[a + L(a)]
      <3> HIDE DEF h
      <3> QED
        BY <2>4, <2>5
    <2>7. ASSUME NEW i \in a .. N + 1
          PROVE  h[i] = IF i > N THEN <<>> ELSE <<piece(i)>> \o h[i + L(i)]
      <3>1. CASE i = a
        <4>1. ~(a > N)
          BY <1>1, <2>2
        <4> HIDE DEF h, x
        <4> QED
          BY <2>5, <2>6, <3>1, <4>1
      <3>2. CASE i # a
        <4>1. i \in b .. N + 1
          BY <2>2, <3>2
        <4>2. h[i] = IF i > N THEN <<>> ELSE <<piece(i)>> \o g[i + L(i)]
          <5> HIDE DEF h
          <5> QED
            BY <2>1, <2>5, <4>1
        <4>3. i <= N => i + L(i) \in b .. N + 1
          <5>1. b \in Nat /\ N \in Nat
            BY <1>1, <2>2
          <5>2. i <= N => i \in 1 .. N /\ i >= b
            BY <2>2, <4>1, <5>1
          <5>3. i <= N => L(i) \in Nat \ {0} /\ i + L(i) <= N + 1
            <6>1. \A k \in 1 .. N : L(k) \in Nat \ {0} /\ k + L(k) <= N + 1
              BY <1>1 DEF L
            <6> QED
              BY <5>2, <6>1
          <5>4. \A l \in Nat \ {0} : i >= b /\ i + l <= N + 1 => i + l \in b .. N + 1
            BY <4>1, <5>1
          <5> QED
            BY <5>2, <5>3, <5>4
        <4>4. i <= N => g[i + L(i)] = h[i + L(i)]
          <5> HIDE DEF h
          <5> QED
            BY <2>5, <4>3
        <4>5. i > N \/ i <= N
          BY <1>1, <4>1, <2>2
        <4> HIDE DEF h
        <4> QED
          BY <4>2, <4>4, <4>5
      <3> QED
        BY <3>1, <3>2
    <2>8. Made(h, a)
      <3>1. h = [i \in a .. N + 1 |-> h[i]]
        OBVIOUS
      <3> HIDE DEF h
      <3> QED
        BY <2>7, <3>1
    <2>9. \E f : Made(f, a)
      <3> HIDE DEF Made
      <3> QED
        BY <2>8
    <2> HIDE DEF Made
    <2> QED
      BY <2>2, <2>9 DEF a
  <1>4. 0 .. N \subseteq T
    <2> HIDE DEF T
    <2> QED
      BY <1>1, <1>2, <1>3, IntervalInduction
  <1>5. PICK g : Made(g, 1)
    <2>1. N \in T /\ N + 1 - N = 1
      <3>1. N \in 0 .. N /\ N + 1 - N = 1
        BY <1>1
      <3> HIDE DEF T
      <3> QED
        BY <1>4, <3>1
    <2> HIDE DEF Made
    <2> QED
      BY <2>1
  <1>6. AnnotatesFrom(body, 1, g)
    <2>1. g = [i \in 1 .. N + 1 |-> g[i]]
      BY <1>5, Zenon
    <2>2. [i \in 1 .. N + 1 |-> g[i]]
            = [i \in 1 .. N + 1 |-> IF i > N THEN <<>> ELSE <<piece(i)>> \o g[i + L(i)]]
      <3>1. \A i \in 1 .. N + 1 :
              g[i] = IF i > N THEN <<>> ELSE <<piece(i)>> \o g[i + L(i)]
        BY <1>5
      <3> HIDE DEF L, piece, N
      <3> QED
        BY <3>1
    <2> QED
      BY <2>1, <2>2 DEF AnnotatesFrom
  <1>7. Annotate(body) = (CHOOSE from : AnnotatesFrom(body, 1, from))[1]
    BY Zenon DEF Annotate, AnnotatesFrom, PieceAt
  <1> QED
    BY <1>6, <1>7

\* A call is a byte, or two where its label is there.
LEMMA CallsAreShort ==
  ASSUME NEW body \in Seq(Nat), NEW i \in 1 .. Len(body), body[i] = DotsInsert
  PROVE  SpanLength(body, i) \in {1, 2}
  <1> DEFINE left == Len(body) - i + 1
             modeLength == IF left >= 3 /\ body[i + 2] = SpecialMode THEN 2 ELSE 1
  <1>1. MatchAt(body, i) =
          CASE body[i] = SOM /\ left >= 2 + modeLength -> 2 + modeLength
            [] body[i] \in {StringInsert, DotsInsert} /\ left >= 2 -> 2
            [] body[i] = AlphaDotsInsert /\ left >= 15 -> 15
            [] OTHER -> 0
    BY DEF MatchAt
  <1> HIDE DEF left, modeLength
  <1>2. MatchAt(body, i) \in {0, 2}
    BY <1>1 DEF SOM, StringInsert, DotsInsert, AlphaDotsInsert
  <1>3. body[i] \notin Printable
    BY DEF DotsInsert, Printable
  <1> QED
    BY <1>2, <1>3 DEF SpanLength

\* No piece is empty, and none begins with a call but the call itself.
IsPiece(x) == x # <<>> /\ (x[1] = DotsInsert => Len(x) \in {1, 2})

(* The pieces of a message are the message.                                *)
LEMMA AnnotateMakes ==
  ASSUME NEW body \in Seq(Nat)
  PROVE  /\ Make(Annotate(body), body, Nat)
         /\ \A i \in DOMAIN Annotate(body) : IsPiece(Annotate(body)[i])
  <1> DEFINE N == Len(body)
             L(i) == SpanLength(body, i)
             piece(i) == PieceAt(body, i)
             tail(i) == SubSeq(body, i, N)
             Full(q) == \A k \in DOMAIN q : IsPiece(q[k])
  <1>1. /\ N \in Nat
        /\ \A i \in 1 .. N : L(i) \in Nat \ {0} /\ i + L(i) <= N + 1
    BY SpanFits
  <1>2. PICK g : AnnotatesFrom(body, 1, g) /\ Annotate(body) = g[1]
    BY AnnotateIs
  <1>3. \A i \in 1 .. N + 1 :
          g[i] = IF i > N THEN <<>> ELSE <<piece(i)>> \o g[i + L(i)]
    BY <1>2 DEF AnnotatesFrom
  <1> DEFINE Fine(i) == Make(g[i], tail(i), Nat) /\ Full(g[i])
             T == {n \in 0 .. N : \A i \in N + 1 - n .. N + 1 : Fine(i)}
  <1>4. 0 \in T
    <2>1. Fine(N + 1)
      <3>1. g[N + 1] = <<>>
        <4>1. N + 1 \in 1 .. N + 1 /\ N + 1 > N
          BY <1>1
        <4> HIDE DEF N, L, piece
        <4> QED
          BY <1>3, <4>1
      <3>2. tail(N + 1) = <<>>
        BY <1>1, SubSeqEmpty
      <3>3. Full(<<>>)
        OBVIOUS
      <3> HIDE DEF tail, Full
      <3> QED
        BY <3>1, <3>2, <3>3, MakeNothing
    <2>2. 0 \in 0 .. N /\ \A i \in N + 1 - 0 .. N + 1 : i = N + 1
      BY <1>1
    <2> HIDE DEF Fine
    <2> QED
      BY <2>1, <2>2
  <1>5. ASSUME NEW n \in 1 .. N, n - 1 \in T PROVE n \in T
    <2> DEFINE a == N + 1 - n
    <2>1. /\ a \in 1 .. N /\ n \in 0 .. N /\ a \in 1 .. N + 1 /\ ~(a > N)
          /\ N + 1 - (n - 1) = a + 1
      BY <1>1
    <2>2. \A i \in a + 1 .. N + 1 : Fine(i)
      <3> HIDE DEF Fine
      <3> QED
        BY <1>5, <2>1
    <2> HIDE DEF a
    <2> DEFINE l == L(a)
    <2>3. l \in Nat \ {0} /\ a + l <= N + 1
      BY <1>1, <2>1
    <2>4. g[a] = <<piece(a)>> \o g[a + l]
      BY <1>3, <2>1
    <2> HIDE DEF l
    <2>5. a + l \in a + 1 .. N + 1
      BY <1>1, <2>1, <2>3
    <2> DEFINE q == g[a + l]
    <2>6. Make(q, tail(a + l), Nat) /\ Full(q)
      BY <2>2, <2>5
    <2>7. /\ piece(a) \in Seq(Nat) /\ IsPiece(piece(a))
          /\ piece(a) \o tail(a + l) = tail(a)
      <3> DEFINE m == a + l - 1
      <3>1. a \in 1 .. Len(body) + 1 /\ m \in a - 1 .. Len(body) /\ N \in m .. Len(body)
        BY <1>1, <2>1, <2>3
      <3>2. m + 1 = a + l /\ a <= m /\ a \in Nat /\ m \in Nat /\ m \in 0 .. Len(body)
            /\ a - 1 \in Nat /\ a - 1 + 1 = a /\ a - 1 <= m /\ m - (a - 1) >= 1
        BY <1>1, <2>1, <2>3
      <3>3. piece(a) = SubSeq(body, a, m)
        BY DEF l, PieceAt
      <3> HIDE DEF m
      <3>4. SubSeq(body, a, m) \o SubSeq(body, m + 1, N) = SubSeq(body, a, N)
        <4> HIDE DEF N
        <4> QED
          BY <3>1, ConcatAdjacentSubSeq
      <3>5. /\ SubSeq(body, a, m) \in Seq(Nat)
            /\ Len(SubSeq(body, a, m)) = IF a - 1 <= m THEN m - (a - 1) ELSE 0
            /\ \A j \in 1 .. Len(SubSeq(body, a, m)) :
                 SubSeq(body, a, m)[j] = body[a - 1 + j]
        <4> DEFINE b == a - 1
        <4>1. b \in Nat /\ a = b + 1
          BY <3>2
        <4> HIDE DEF b
        <4>2. /\ SubSeq(body, b + 1, m) \in Seq(Nat)
              /\ Len(SubSeq(body, b + 1, m)) = IF b <= m THEN m - b ELSE 0
              /\ \A j \in 1 .. Len(SubSeq(body, b + 1, m)) :
                   SubSeq(body, b + 1, m)[j] = body[b + j]
          <5>1. m \in 0 .. Len(body)
            BY <3>2 DEF N
          <5> HIDE DEF N, L, piece, tail, Fine, T
          <5> QED
            BY <4>1, <5>1, Part
        <4> QED
          BY <4>1, <4>2 DEF b
      <3>6. Len(SubSeq(body, a, m)) >= 1 /\ Len(SubSeq(body, a, m)) = m - (a - 1)
        BY <3>2, <3>5
      <3> DEFINE y == SubSeq(body, a, m)
      <3>7. y \in Seq(Nat) /\ Len(y) >= 1 /\ piece(a) = y /\ y \o tail(m + 1) = tail(a)
        BY <3>3, <3>4, <3>5, <3>6
      <3>8. Len(y) = l /\ y[1] = body[a]
        <4>1. m - (a - 1) = l
          BY <1>1, <2>1, <2>3 DEF m
        <4>2. 1 \in 1 .. Len(y) /\ a - 1 + 1 = a
          BY <3>2, <3>6
        <4>3. y[1] = body[a - 1 + 1]
          BY <3>5, <4>2
        <4> QED
          BY <3>6, <4>1, <4>2, <4>3
      <3>9. body[a] = DotsInsert => l \in {1, 2}
        BY <2>1, CallsAreShort DEF l
      <3> HIDE DEF piece, tail, y
      <3>10. IsPiece(y)
        BY <3>7, <3>8, <3>9 DEF IsPiece
      <3> QED
        BY <3>2, <3>7, <3>10
    <2> DEFINE x == piece(a)
    <2> HIDE DEF q, piece, tail, Full
    <2>8. Make(<<x>>, x, Nat)
      BY <2>7, MakeOne
    <2> HIDE DEF x
    <2>9. Make(<<x>> \o q, x \o tail(a + l), Nat)
      BY <2>6, <2>8, MakeTogether
    <2>10. Full(<<x>> \o q)
      <3>1. q \in Seq(Seq(Nat))
        BY <2>6 DEF Make
      <3>2. \A k \in DOMAIN (<<x>> \o q) :
              (<<x>> \o q)[k] = IF k = 1 THEN x ELSE q[k - 1]
        BY <3>1
      <3>3. \A k \in DOMAIN (<<x>> \o q) : k = 1 \/ k - 1 \in DOMAIN q
        BY <3>1
      <3>4. IsPiece(x)
        BY <2>7 DEF x
      <3> QED
        BY <2>6, <3>2, <3>3, <3>4 DEF Full
    <2>11. Fine(a)
      BY <2>4, <2>7, <2>9, <2>10 DEF x, q
    <2>12. \A i \in a .. N + 1 : i = a \/ i \in a + 1 .. N + 1
      BY <1>1, <2>1
    <2> HIDE DEF Fine
    <2>13. \A i \in a .. N + 1 : Fine(i)
      BY <2>2, <2>11, <2>12
    <2> QED
      BY <2>1, <2>13 DEF a
  <1>6. 0 .. N \subseteq T
    <2> HIDE DEF T
    <2> QED
      BY <1>1, <1>4, <1>5, IntervalInduction
  <1>7. Fine(1)
    <2>1. N \in T /\ N + 1 - N = 1 /\ 1 \in 1 .. N + 1
      BY <1>1, <1>6
    <2> HIDE DEF Fine
    <2> QED
      BY <2>1
  <1>8. tail(1) = body
    BY SubSeqFull
  <1> HIDE DEF tail
  <1> QED
    BY <1>2, <1>7, <1>8

(* A sequence that is cut somewhere, and what is left of it in pieces.     *)
LEMMA Cut ==
  ASSUME NEW S, NEW s \in Seq(S), NEW a \in Nat, NEW b \in Nat, a <= b
  PROVE  Slice(s, a, b) \o After(s, b) = After(s, a)
  <1> DEFINE N == Len(s)
  <1>0. N \in Nat
    OBVIOUS
  <1>1. CASE b <= N
    <2>1. Min2(b, N) = b
      BY <1>0, <1>1 DEF Min2
    <2>2. a + 1 \in 1 .. N + 1 /\ b \in a + 1 - 1 .. N /\ N \in b .. N
      BY <1>0, <1>1
    <2>3. SubSeq(s, a + 1, b) \o SubSeq(s, b + 1, N) = SubSeq(s, a + 1, N)
      <3> DEFINE m == a + 1
      <3>1. m \in 1 .. Len(s) + 1 /\ b \in m - 1 .. Len(s) /\ N \in b .. Len(s)
        BY <2>2
      <3> HIDE DEF m, N
      <3>2. SubSeq(s, m, b) \o SubSeq(s, b + 1, N) = SubSeq(s, m, N)
        BY <3>1, ConcatAdjacentSubSeq
      <3> QED
        BY <3>2 DEF m
    <2> QED
      BY <2>1, <2>3 DEF Slice, After
  <1>2. CASE ~(b <= N)
    <2>1. Min2(b, N) = N
      BY <1>0, <1>2 DEF Min2
    <2>2. After(s, b) = <<>>
      BY <1>0, <1>2, SubSeqEmpty DEF After
    <2>3. Slice(s, a, b) = After(s, a)
      BY <2>1 DEF Slice, After
    <2>4. After(s, a) \in Seq(S)
      BY AfterTyped
    <2>5. After(s, a) \o <<>> = After(s, a)
      BY <2>4, ConcatEmptySeq
    <2> QED
      BY <2>2, <2>3, <2>5
  <1> QED
    BY <1>1, <1>2

LEMMA AllOfIt ==
  ASSUME NEW S, NEW s \in Seq(S)
  PROVE  After(s, 0) = s
  <1>1. 0 + 1 = 1
    OBVIOUS
  <1> QED
    BY <1>1, SubSeqFull DEF After

LEMMA CutMakes ==
  ASSUME NEW S, NEW s \in Seq(S), NEW a \in Nat, NEW b \in Nat, a <= b,
         NEW q, Make(q, After(s, b), S)
  PROVE  Make(<<Slice(s, a, b)>> \o q, After(s, a), S)
  <1> DEFINE x == Slice(s, a, b)
             t == After(s, b)
  <1>1. x \in Seq(S)
    BY SliceTyped
  <1>2. x \o t = After(s, a)
    BY Cut
  <1> HIDE DEF x
  <1>3. Make(<<x>>, x, S)
    BY <1>1, MakeOne
  <1>4. Make(<<x>> \o q, x \o t, S)
    <2>1. Make(q, t, S)
      OBVIOUS
    <2> HIDE DEF t
    <2> QED
      BY <1>3, <2>1, MakeTogether
  <1> QED
    BY <1>2, <1>4 DEF x

\* One piece before others.
Then(x, q) == <<x>> \o q

LEMMA StrungTogether ==
  ASSUME NEW S, NEW r \in Seq(S), NEW q \in Seq(S), NEW a \in S
  PROVE  /\ Then(a, r) \in Seq(S)
         /\ Then(a, r) \o q = Then(a, r \o q)
  <1> DEFINE u == <<a>>
  <1>1. u \in Seq(S)
    OBVIOUS
  <1> HIDE DEF u
  <1>2. (u \o r) \o q = u \o (r \o q) /\ u \o r \in Seq(S)
    BY <1>1, Associative
  <1> QED
    BY <1>2 DEF Then, u

LEMMA TwoStrung ==
  ASSUME NEW S, NEW q \in Seq(S), NEW a \in S, NEW b \in S
  PROVE  <<a, b>> \o q = Then(a, Then(b, q))
  <1>1. <<a>> \in Seq(S) /\ <<b>> \in Seq(S) /\ <<a, b>> \in Seq(S)
    OBVIOUS
  <1>2. <<b>> \o q = Then(b, q)
    BY DEF Then
  <1>3. <<a, b>> = Then(a, <<b>>)
    <2>1. /\ Then(a, <<b>>) \in Seq(S) /\ Len(Then(a, <<b>>)) = 2
          /\ Then(a, <<b>>)[1] = a /\ Then(a, <<b>>)[2] = b
      BY <1>1 DEF Then
    <2> QED
      BY <1>1, <2>1
  <1>4. Then(a, <<b>>) \o q = Then(a, <<b>> \o q)
    BY <1>1, StrungTogether
  <1> QED
    BY <1>2, <1>3, <1>4

LEMMA FourStrung ==
  ASSUME NEW S, NEW q \in Seq(S), NEW a \in S, NEW b \in S, NEW c \in S, NEW d \in S
  PROVE  <<a, b, c, d>> \o q = Then(a, Then(b, Then(c, Then(d, q))))
  <1>1. /\ <<c, d>> \in Seq(S) /\ <<b, c, d>> \in Seq(S)
        /\ <<a, b, c, d>> = Then(a, <<b, c, d>>) /\ <<b, c, d>> = Then(b, <<c, d>>)
    <2>1. <<c, d>> \in Seq(S) /\ <<b, c, d>> \in Seq(S)
      OBVIOUS
    <2>2. <<b, c, d>> = Then(b, <<c, d>>)
      BY DEF Then
    <2>3. <<a, b, c, d>> = Then(a, <<b, c, d>>)
      BY DEF Then
    <2> QED
      BY <2>1, <2>2, <2>3
  <1>2. Then(b, <<c, d>>) \o q = Then(b, <<c, d>> \o q)
    BY <1>1, StrungTogether
  <1>3. Then(a, <<b, c, d>>) \o q = Then(a, <<b, c, d>> \o q)
    BY <1>1, StrungTogether
  <1>4. <<c, d>> \o q = Then(c, Then(d, q))
    BY TwoStrung
  <1> QED
    BY <1>1, <1>2, <1>3, <1>4, Zenon

LEMMA FiveStrung ==
  ASSUME NEW S, NEW q \in Seq(S), NEW a \in S, NEW b \in S, NEW c \in S, NEW d \in S,
         NEW e \in S
  PROVE  <<a, b, c, d, e>> \o q = Then(a, Then(b, Then(c, Then(d, Then(e, q)))))
  <1>1. <<b, c, d, e>> \in Seq(S) /\ <<a, b, c, d, e>> = Then(a, <<b, c, d, e>>)
    BY DEF Then
  <1>2. Then(a, <<b, c, d, e>>) \o q = Then(a, <<b, c, d, e>> \o q)
    BY <1>1, StrungTogether
  <1>3. <<b, c, d, e>> \o q = Then(b, Then(c, Then(d, Then(e, q))))
    BY FourStrung
  <1> QED
    BY <1>1, <1>2, <1>3, Zenon

LEMMA ThenMakes ==
  ASSUME NEW s \in Seq(Nat), NEW a \in Nat, NEW b \in Nat, a <= b,
         NEW q, Make(q, After(s, b), Nat)
  PROVE  Make(Then(Slice(s, a, b), q), After(s, a), Nat)
  BY CutMakes DEF Then

\* The pieces every decoder begins with: the command and the byte after it.
LEMMA HeadMakes ==
  ASSUME NEW p \in Seq(Nat), NEW q, Make(q, After(p, 2), Nat)
  PROVE  Make(<<Slice(p, 0, 1), Slice(p, 1, 2)>> \o q, p, Nat)
  <1> DEFINE x == Slice(p, 0, 1)
             y == Slice(p, 1, 2)
  <1>1. Make(Then(y, q), After(p, 1), Nat)
    BY ThenMakes
  <1>2. Make(Then(x, Then(y, q)), After(p, 0), Nat)
    <2> DEFINE r == Then(y, q)
    <2>1. Make(r, After(p, 1), Nat)
      BY <1>1
    <2> HIDE DEF r
    <2>2. Make(Then(x, r), After(p, 0), Nat)
      BY <2>1, ThenMakes
    <2> QED
      BY <2>2 DEF r
  <1>3. x \in Seq(Nat) /\ y \in Seq(Nat) /\ q \in Seq(Seq(Nat)) /\ After(p, 0) = p
    BY SliceTyped, AllOfIt DEF Make
  <1> HIDE DEF x, y
  <1>4. <<x, y>> \o q = Then(x, Then(y, q))
    BY <1>3, TwoStrung
  <1>5. Make(<<x, y>> \o q, p, Nat)
    BY <1>2, <1>3, <1>4
  <1> QED
    BY <1>5 DEF x, y

LEMMA ReadMessageMakes ==
  ASSUME NEW p \in Seq(Nat)
  PROVE  Make(ReadMessage(p).pieces, p, Nat)
  <1> DEFINE rest == After(p, 2)
             som == First(rest, -1) = SOM
             modeLength == IF Slice(rest, 2, 3) = <<SpecialMode>> THEN 2 ELSE 1
             position == IF som THEN Slice(rest, 1, 2) ELSE <<>>
             mode == IF som THEN Slice(rest, 2, 2 + modeLength) ELSE <<>>
             body == IF som THEN After(rest, 2 + modeLength) ELSE rest
             mark == IF som THEN <<SOM>> ELSE <<>>
             x == Slice(p, 0, 1)
             y == Slice(p, 1, 2)
             q == Annotate(body)
  <1>1. CASE Len(p) < 2
    <2>1. ReadMessage(p).pieces = <<p>>
      BY <1>1 DEF ReadMessage, Unread, Read
    <2> QED
      BY <2>1, MakeOne
  <1>2. CASE ~(Len(p) < 2)
    <2>1. ReadMessage(p).pieces = <<x, y, mark, position, mode>> \o q
      BY <1>2, Zenon DEF ReadMessage, Read
    <2>2. rest \in Seq(Nat) /\ modeLength \in Nat /\ 2 + modeLength \in Nat
          /\ 2 <= 2 + modeLength
      BY AfterTyped
    <2> DEFINE end == 2 + modeLength
    <2> HIDE DEF rest, modeLength
    <2>3. /\ body \in Seq(Nat) /\ position \in Seq(Nat) /\ mode \in Seq(Nat)
          /\ x \in Seq(Nat) /\ y \in Seq(Nat) /\ mark \in Seq(Nat)
      <3>1. /\ After(rest, end) \in Seq(Nat) /\ Slice(rest, 1, 2) \in Seq(Nat)
            /\ Slice(rest, 2, end) \in Seq(Nat)
        BY <2>2, AfterTyped, SliceTyped
      <3>2. x \in Seq(Nat) /\ y \in Seq(Nat)
        BY SliceTyped
      <3>3. <<>> \in Seq(Nat) /\ <<SOM>> \in Seq(Nat)
        BY DEF SOM
      <3> QED
        BY <2>2, <3>1, <3>2, <3>3
    <2>4. Make(q, body, Nat)
      <3> HIDE DEF body
      <3> QED
        BY <2>3, AnnotateMakes
    <2>5. Make(Then(mark, Then(position, Then(mode, q))), rest, Nat)
      <3>1. CASE som
        <4>1. mark = Slice(rest, 0, 1)
          <5>1. Len(rest) >= 1 /\ rest[1] = SOM
            BY <2>2, <3>1 DEF First, SOM
          <5>2. rest \in Seq(Nat) /\ Len(rest) \in Nat
            BY <2>2
          <5>3. Min2(1, Len(rest)) = 1
            <6>1. \A n \in Nat : n >= 1 => Min2(1, n) = 1
              BY DEF Min2
            <6> QED
              BY <5>1, <5>2, <6>1
          <5> DEFINE w == Slice(rest, 0, 1)
          <5>4. w \in Seq(Nat) /\ Len(w) = 1 /\ \A i \in 1 .. 1 : w[i] = rest[0 + i]
            <6>1. /\ w \in Seq(Nat)
                  /\ Len(w) = IF 0 <= Min2(1, Len(rest)) THEN Min2(1, Len(rest)) - 0 ELSE 0
                  /\ \A i \in 1 .. Len(w) : w[i] = rest[0 + i]
              <7>1. 0 \in Nat /\ 1 \in Nat
                OBVIOUS
              <7> QED
                BY <5>2, <7>1, SliceTyped, Zenon
            <6>2. Len(w) = 1
              <7> HIDE DEF w
              <7> QED
                BY <5>3, <6>1
            <6> QED
              BY <6>1, <6>2
          <5> HIDE DEF w
          <5>5. w[1] = SOM /\ <<SOM>> \in Seq(Nat) /\ Len(<<SOM>>) = 1
            BY <5>1, <5>4 DEF SOM
          <5>6. w = <<SOM>>
            BY <5>4, <5>5
          <5> QED
            BY <3>1, <5>6 DEF w
        <4>2. Make(q, After(rest, end), Nat)
          BY <2>4, <3>1
        <4>3. /\ position = Slice(rest, 1, 2)
              /\ mode = Slice(rest, 2, end)
          BY <3>1
        <4> HIDE DEF mark, position, mode, q
        <4> DEFINE u == Then(mode, q)
                   v == Then(position, u)
        <4>4. Make(u, After(rest, 2), Nat)
          <5>1. 2 \in Nat /\ end \in Nat /\ 2 <= end
            BY <2>2
          <5> HIDE DEF end
          <5> QED
            BY <2>2, <4>2, <4>3, <5>1, ThenMakes
        <4> HIDE DEF u
        <4>5. Make(v, After(rest, 1), Nat)
          BY <2>2, <4>3, <4>4, ThenMakes
        <4> HIDE DEF v
        <4>6. Make(Then(mark, v), After(rest, 0), Nat)
          BY <2>2, <4>1, <4>5, ThenMakes
        <4>7. After(rest, 0) = rest
          BY <2>2, AllOfIt
        <4> QED
          BY <4>6, <4>7 DEF u, v
      <3>2. CASE ~som
        <4>1. mark = <<>> /\ position = <<>> /\ mode = <<>> /\ body = rest
          BY <3>2
        <4>2. ASSUME NEW r, Make(r, rest, Nat) PROVE Make(Then(<<>>, r), rest, Nat)
          <5>1. Make(<<<<>>>>, <<>>, Nat)
            <6>1. <<>> \in Seq(Nat)
              OBVIOUS
            <6> QED
              BY <6>1, MakeOne
          <5>2. Make(<<<<>>>> \o r, <<>> \o rest, Nat)
            BY <4>2, <5>1, MakeTogether
          <5>3. <<>> \o rest = rest
            BY <2>2, ConcatEmptySeq
          <5> QED
            BY <5>2, <5>3 DEF Then
        <4> HIDE DEF mark, position, mode, body, q
        <4>3. Make(q, rest, Nat)
          BY <2>4, <4>1
        <4> DEFINE u == Then(<<>>, q)
                   v == Then(<<>>, u)
        <4>4. Make(u, rest, Nat)
          BY <4>2, <4>3
        <4> HIDE DEF u
        <4>5. Make(v, rest, Nat)
          BY <4>2, <4>4
        <4> HIDE DEF v
        <4>6. Make(Then(<<>>, v), rest, Nat)
          BY <4>2, <4>5
        <4> QED
          BY <4>1, <4>6 DEF u, v
      <3> HIDE DEF som
      <3> QED
        BY <3>1, <3>2
    <2> DEFINE m == Then(mark, Then(position, Then(mode, q)))
    <2>6. <<x, y, mark, position, mode>> \o q = <<x, y>> \o m
      <3>1. q \in Seq(Seq(Nat))
        BY <2>4 DEF Make
      <3>2. m \in Seq(Seq(Nat))
        BY <2>5 DEF Make
      <3> HIDE DEF q, x, y, mark, position, mode
      <3>3. <<x, y, mark, position, mode>> \o q = Then(x, Then(y, m))
        <4> DEFINE S == Seq(Nat)
        <4>1. x \in S /\ y \in S /\ mark \in S /\ position \in S /\ mode \in S /\ q \in Seq(S)
          BY <2>3, <3>1
        <4> HIDE DEF S
        <4>2. <<x, y, mark, position, mode>> \o q
                = Then(x, Then(y, Then(mark, Then(position, Then(mode, q)))))
          BY <4>1, FiveStrung, SMTT(30)
        <4> QED
          BY <4>2
      <3> HIDE DEF m
      <3>4. <<x, y>> \o m = Then(x, Then(y, m))
        BY <2>3, <3>2, TwoStrung
      <3> QED
        BY <3>3, <3>4
    <2>7. Make(m, After(p, 2), Nat)
      BY <2>5 DEF rest
    <2> HIDE DEF m
    <2>8. Make(<<x, y>> \o m, p, Nat)
      BY <2>7, HeadMakes
    <2> QED
      BY <2>1, <2>6, <2>8, Zenon
  <1> QED
    BY <1>1, <1>2

LEMMA ReadValueMakes ==
  ASSUME NEW p \in Seq(Nat)
  PROVE  Make(ReadValue(p).pieces, p, Nat)
  <1> DEFINE q == Annotate(After(p, 2))
  <1>1. CASE Len(p) < 2
    <2>1. ReadValue(p).pieces = <<p>>
      BY <1>1 DEF ReadValue, Unread, Read
    <2> QED
      BY <2>1, MakeOne
  <1>2. CASE ~(Len(p) < 2)
    <2>1. ReadValue(p).pieces = <<Slice(p, 0, 1), Slice(p, 1, 2)>> \o q
      BY <1>2, Zenon DEF ReadValue, Read
    <2>2. Make(q, After(p, 2), Nat)
      BY AfterTyped, AnnotateMakes
    <2> QED
      BY <2>1, <2>2, HeadMakes, Zenon
  <1> QED
    BY <1>1, <1>2

LEMMA ReadOtherMakes ==
  ASSUME NEW p \in Seq(Nat)
  PROVE  Make(ReadOther(p).pieces, p, Nat)
  <1> DEFINE q == Annotate(After(p, 2))
  <1>1. ReadOther(p).pieces = <<Slice(p, 0, 1), Slice(p, 1, 2)>> \o q
    BY Zenon DEF ReadOther, Read, Unread
  <1>2. Make(q, After(p, 2), Nat)
    BY AfterTyped, AnnotateMakes
  <1> QED
    BY <1>1, <1>2, HeadMakes, Zenon

(* Groups of pieces that follow each other from edge to edge.              *)
LEMMA GroupsMake ==
  ASSUME NEW S, NEW s \in Seq(S), NEW N \in Nat, NEW e, NEW g, NEW h,
         e[0] = 0, g[0] = <<>>, \A k \in 0 .. N : e[k] \in 0 .. Len(s),
         \A k \in 1 .. N :
           /\ e[k - 1] <= e[k] /\ g[k] = g[k - 1] \o h[k]
           /\ Make(h[k], SubSeq(s, e[k - 1] + 1, e[k]), S)
  PROVE  Make(g[N], SubSeq(s, 1, e[N]), S)
  <1> DEFINE Fine(n) == Make(g[n], SubSeq(s, 1, e[n]), S)
             T == {n \in 0 .. N : Fine(n)}
  <1>1. 0 \in T
    <2>1. SubSeq(s, 1, 0) = <<>>
      BY SubSeqEmpty
    <2>2. Fine(0)
      BY <2>1, MakeNothing
    <2> QED
      BY <2>2
  <1>2. ASSUME NEW n \in 1 .. N, n - 1 \in T PROVE n \in T
    <2>1. Fine(n - 1) /\ n \in 0 .. N /\ n - 1 \in 0 .. N
      BY <1>2
    <2> DEFINE a == e[n - 1]
               b == e[n]
    <2>2. a \in 0 .. Len(s) /\ b \in 0 .. Len(s) /\ a <= b
      BY <2>1
    <2>3. Make(g[n - 1], SubSeq(s, 1, a), S) /\ Make(h[n], SubSeq(s, a + 1, b), S)
      BY <2>1
    <2>4. g[n] = g[n - 1] \o h[n]
      OBVIOUS
    <2> HIDE DEF a, b
    <2>5. SubSeq(s, 1, a) \o SubSeq(s, a + 1, b) = SubSeq(s, 1, b)
      <3>1. 1 \in 1 .. Len(s) + 1 /\ a \in 1 - 1 .. Len(s) /\ b \in a .. Len(s)
        BY <2>2
      <3> QED
        BY <3>1, ConcatAdjacentSubSeq
    <2>6. Make(g[n - 1] \o h[n], SubSeq(s, 1, a) \o SubSeq(s, a + 1, b), S)
      BY <2>3, MakeTogether
    <2>7. Fine(n)
      BY <2>4, <2>5, <2>6 DEF b
    <2> QED
      BY <2>1, <2>7
  <1>3. 0 .. N \subseteq T
    <2> HIDE DEF T
    <2> QED
      BY <1>1, <1>2, IntervalInduction
  <1>4. N \in T
    BY <1>3
  <1> QED
    BY <1>4

\* A sequence, one element after the other.
LEMMA OneMore ==
  ASSUME NEW S, NEW q \in Seq(S), NEW n \in 1 .. Len(q)
  PROVE  SubSeq(q, 1, n) = SubSeq(q, 1, n - 1) \o <<q[n]>>
  <1>1. 1 \in 1 .. Len(q) /\ n \in 1 .. Len(q)
    OBVIOUS
  <1> QED
    BY <1>1, SubSeqRecursiveSecond

LEMMA ReadConfigurationMakes ==
  ASSUME NEW p \in Seq(Nat), NEW head, head = <<Slice(p, 0, 1), Slice(p, 1, 2)>>
  PROVE  Make(ReadConfiguration(After(p, 2), head).pieces, p, Nat)
  <1> DEFINE parameter == After(p, 2)
             count == Len(parameter) \div EntryLength
             chunk(i) == Slice(parameter, (i - 1) * EntryLength, i * EntryLength)
             chunks == [i \in 1 .. count |-> chunk(i)]
             rest == After(parameter, count * EntryLength)
  <1>0. parameter \in Seq(Nat) /\ Len(parameter) \in Nat
    BY AfterTyped
  <1>1. CASE parameter = <<>>
    <2>1. ReadConfiguration(parameter, head).pieces = head
      BY <1>1 DEF ReadConfiguration, Read
    <2>2. Make(head \o <<>>, p, Nat)
      BY <1>1, MakeNothing, HeadMakes
    <2>3. head \o <<>> = head
      <3> DEFINE x == Slice(p, 0, 1)
                 y == Slice(p, 1, 2)
      <3>1. x \in Seq(Nat) /\ y \in Seq(Nat)
        BY SliceTyped
      <3> HIDE DEF x, y
      <3>2. <<x, y>> \in Seq(Seq(Nat))
        BY <3>1
      <3>3. <<x, y>> \o <<>> = <<x, y>>
        BY <3>2, ConcatEmptySeq
      <3> QED
        BY <3>3 DEF x, y
    <2> QED
      BY <2>1, <2>2, <2>3
  <1>2. CASE parameter # <<>>
    <2>1. ReadConfiguration(parameter, head).pieces = head \o Append(chunks, rest)
      BY <1>2, Zenon DEF ReadConfiguration, Read
    <2>2. count \in Nat /\ \A i \in 0 .. count : i * EntryLength \in 0 .. Len(parameter)
      <3>1. \A n \in Nat : n \div 5 \in Nat /\ \A i \in 0 .. n \div 5 : i * 5 \in 0 .. n
        OBVIOUS
      <3> QED
        BY <1>0, <3>1 DEF EntryLength
    <2>3. chunks \in Seq(Chunks)
      BY <1>0, ChunksAreThere, Zenon
    <2>4. chunks \in Seq(Seq(Nat)) /\ Len(chunks) = count
      <3>1. Chunks \subseteq Seq(Nat)
        BY DEF Chunks
      <3>2. chunks \in Seq(Seq(Nat))
        <4> HIDE DEF chunks
        <4> QED
          BY <2>3, <3>1, SeqMonotonic
      <3> HIDE DEF chunk, count
      <3> QED
        BY <2>2, <3>2
    <2> DEFINE e == [k \in 0 .. count |-> k * EntryLength]
               g == [k \in 0 .. count |-> SubSeq(chunks, 1, k)]
               h == [k \in 1 .. count |-> <<chunks[k]>>]
    <2> HIDE DEF parameter
    <2>5. Make(g[count], SubSeq(parameter, 1, e[count]), Nat)
      <3>1. e[0] = 0 /\ g[0] = <<>>
        <4>1. 0 \in 0 .. count /\ 0 * EntryLength = 0
          BY <2>2 DEF EntryLength
        <4>2. SubSeq(chunks, 1, 0) = <<>>
          <5> HIDE DEF chunks
          <5> QED
            BY SubSeqEmpty
        <4> HIDE DEF count, chunks
        <4> QED
          BY <4>1, <4>2
      <3>2. \A k \in 0 .. count : e[k] \in 0 .. Len(parameter)
        <4> HIDE DEF count
        <4> QED
          BY <2>2
      <3>3. ASSUME NEW k \in 1 .. count
            PROVE  /\ e[k - 1] <= e[k] /\ g[k] = g[k - 1] \o h[k]
                   /\ Make(h[k], SubSeq(parameter, e[k - 1] + 1, e[k]), Nat)
        <4> HIDE DEF count
        <4>1. k \in 0 .. count /\ k - 1 \in 0 .. count
          BY <2>2
        <4>2. e[k] = k * EntryLength /\ e[k - 1] = (k - 1) * EntryLength
          BY <4>1
        <4>3. e[k - 1] <= e[k] /\ e[k - 1] \in Nat /\ e[k] \in Nat /\ e[k] <= Len(parameter)
          <5> HIDE DEF e
          <5> QED
            BY <1>0, <3>2, <4>1, <4>2 DEF EntryLength
        <4>4. g[k] = g[k - 1] \o h[k]
          <5>1. k \in 1 .. Len(chunks)
            BY <2>4
          <5>2. SubSeq(chunks, 1, k) = SubSeq(chunks, 1, k - 1) \o <<chunks[k]>>
            <6> HIDE DEF chunks
            <6> QED
              BY <2>4, <5>1, OneMore
          <5> HIDE DEF chunks
          <5> QED
            BY <4>1, <5>2
        <4>5. chunks[k] = SubSeq(parameter, e[k - 1] + 1, e[k])
          <5>1. chunks[k] = chunk(k)
            OBVIOUS
          <5>2. chunk(k) = Slice(parameter, e[k - 1], e[k])
            BY <4>2
          <5>3. Min2(e[k], Len(parameter)) = e[k]
            <6>1. \A m, n \in Nat : m <= n => Min2(m, n) = m
              BY DEF Min2
            <6> HIDE DEF e
            <6> QED
              BY <1>0, <4>3, <6>1
          <5> HIDE DEF e, chunk, chunks
          <5> QED
            BY <5>1, <5>2, <5>3 DEF Slice
        <4>6. chunks[k] \in Seq(Nat) /\ h[k] = <<chunks[k]>>
          <5> HIDE DEF chunks
          <5> QED
            BY <2>4
        <4> HIDE DEF e, g, h, chunks
        <4>7. Make(h[k], chunks[k], Nat)
          BY <4>6, MakeOne
        <4> QED
          BY <4>3, <4>4, <4>5, <4>7
      <3> HIDE DEF count, e, g, h
      <3> QED
        BY <1>0, <2>2, <3>1, <3>2, <3>3, GroupsMake
    <2>6. g[count] = chunks /\ e[count] = count * EntryLength
      <3>1. count \in 0 .. count
        BY <2>2
      <3>2. SubSeq(chunks, 1, count) = chunks
        <4> HIDE DEF chunks, count
        <4> QED
          BY <2>4, SubSeqFull
      <3> HIDE DEF count, chunks
      <3> QED
        BY <3>1, <3>2
    <2> DEFINE upTo == count * EntryLength
    <2>7. Make(chunks, SubSeq(parameter, 1, upTo), Nat)
      BY <2>5, <2>6
    <2>8. upTo \in 0 .. Len(parameter)
      <3> HIDE DEF count
      <3> QED
        BY <2>2
    <2> HIDE DEF chunks, upTo, e, g, h, count
    <2>9. rest \in Seq(Nat) /\ SubSeq(parameter, 1, upTo) \o rest = parameter
      <3>1. rest = After(parameter, upTo)
        BY DEF upTo
      <3>2. Slice(parameter, 0, upTo) = SubSeq(parameter, 1, upTo)
        <4>1. \A m, n \in Nat : m <= n => Min2(m, n) = m
          BY DEF Min2
        <4>2. Min2(upTo, Len(parameter)) = upTo /\ 0 + 1 = 1
          BY <1>0, <2>8, <4>1
        <4> QED
          BY <4>2 DEF Slice
      <3>3. 0 \in Nat /\ upTo \in Nat /\ 0 <= upTo
        BY <2>8
      <3>4. Slice(parameter, 0, upTo) \o After(parameter, upTo) = After(parameter, 0)
        BY <1>0, <3>3, Cut
      <3>5. After(parameter, 0) = parameter /\ After(parameter, upTo) \in Seq(Nat)
        BY <1>0, <3>3, AllOfIt, AfterTyped
      <3> HIDE DEF rest
      <3> QED
        BY <3>1, <3>2, <3>4, <3>5
    <2> HIDE DEF rest
    <2>10. Make(<<rest>>, rest, Nat)
      BY <2>9, MakeOne
    <2>11. Make(chunks \o <<rest>>, SubSeq(parameter, 1, upTo) \o rest, Nat)
      BY <2>7, <2>10, MakeTogether
    <2>12. chunks \o <<rest>> = Append(chunks, rest)
      BY <2>4, <2>9, AppendIsConcat
    <2>13. Make(Append(chunks, rest), parameter, Nat)
      BY <2>9, <2>11, <2>12
    <2>14. Make(head \o Append(chunks, rest), p, Nat)
      BY <2>13, HeadMakes DEF parameter
    <2> QED
      BY <2>1, <2>14 DEF parameter
  <1> QED
    BY <1>1, <1>2

LEMMA ReadSequenceMakes ==
  ASSUME NEW p \in Seq(Nat), NEW head, head = <<Slice(p, 0, 1), Slice(p, 1, 2)>>
  PROVE  Make(ReadSequence(After(p, 2), head).pieces, p, Nat)
  <1> DEFINE s == After(p, 2)
             x == Slice(s, 0, 1)
             y == Slice(s, 1, 2)
             z == After(s, 2)
  <1>1. s \in Seq(Nat)
    BY AfterTyped
  <1>2. ReadSequence(s, head).pieces = head \o <<x, y, z>>
    BY Zenon DEF ReadSequence, Read
  <1>3. Make(<<x, y, z>>, s, Nat)
    <2> HIDE DEF s
    <2>1. x \in Seq(Nat) /\ y \in Seq(Nat) /\ z \in Seq(Nat)
      BY <1>1, SliceTyped, AfterTyped
    <2>2. Make(<<z>>, After(s, 2), Nat)
      BY <2>1, MakeOne
    <2>3. Make(<<x, y>> \o <<z>>, s, Nat)
      BY <1>1, <2>2, HeadMakes
    <2> HIDE DEF x, y, z
    <2>4. <<x, y>> \o <<z>> = <<x, y, z>>
      <3> DEFINE Q == Seq(Nat)
                 w == <<x, y>> \o <<z>>
      <3>1. x \in Q /\ y \in Q /\ z \in Q
        BY <2>1
      <3> HIDE DEF Q
      <3>2. <<x, y>> \in Seq(Q) /\ <<z>> \in Seq(Q) /\ <<x, y, z>> \in Seq(Q)
        BY <3>1
      <3>3. w \in Seq(Q) /\ Len(w) = 3 /\ w[1] = x /\ w[2] = y /\ w[3] = z
        BY <3>2
      <3> HIDE DEF w
      <3>4. w = <<x, y, z>>
        BY <3>2, <3>3
      <3> QED
        BY <3>4 DEF w
    <2> QED
      BY <2>3, <2>4 DEF x, y, z
  <1>4. Make(head \o <<x, y, z>>, p, Nat)
    BY <1>3, HeadMakes
  <1> QED
    BY <1>2, <1>4

LEMMA ReadClockMakes ==
  ASSUME NEW p \in Seq(Nat), NEW head, head = <<Slice(p, 0, 1), Slice(p, 1, 2)>>,
         NEW op, NEW sound, NEW placeholder, NEW read
  PROVE  Make(ReadClock(op, After(p, 2), sound, placeholder, read, head).pieces, p, Nat)
  <1> DEFINE s == After(p, 2)
             x == Slice(p, 0, 1)
             y == Slice(p, 1, 2)
  <1>1. s \in Seq(Nat) /\ x \in Seq(Nat) /\ y \in Seq(Nat)
    BY AfterTyped, SliceTyped
  <1>2. ReadClock(op, s, sound, placeholder, read, head).pieces = Append(<<x, y>>, s)
    BY Zenon DEF ReadClock, Read
  <1>3. Make(<<s>>, s, Nat)
    BY <1>1, MakeOne
  <1>4. Make(<<x, y>> \o <<s>>, p, Nat)
    BY <1>3, HeadMakes
  <1> HIDE DEF s, x, y
  <1>5. Append(<<x, y>>, s) = <<x, y>> \o <<s>>
    OBVIOUS
  <1>6. Make(ReadClock(op, s, sound, placeholder, read, head).pieces, p, Nat)
    BY <1>2, <1>4, <1>5
  <1> QED
    BY <1>6 DEF s

LEMMA ReadSpecialMakes ==
  ASSUME NEW p \in Seq(Nat)
  PROVE  Make(ReadSpecial(p).pieces, p, Nat)
  <1> DEFINE head == <<Slice(p, 0, 1), Slice(p, 1, 2)>>
             parameter == After(p, 2)
             r == ReadSpecial(p)
             clock(op, sound, placeholder, read) ==
               ReadClock(op, parameter, sound, placeholder, read, head)
             q == Annotate(parameter)
  <1>1. Make(Unread(p, <<p>>).pieces, p, Nat)
    <2>1. Unread(p, <<p>>).pieces = <<p>>
      BY DEF Unread, Read
    <2> QED
      BY <2>1, MakeOne
  <1>2. Make(Unread(p, head \o q).pieces, p, Nat)
    <2>1. Unread(p, head \o q).pieces = head \o q
      BY Zenon DEF Unread, Read
    <2>2. Make(q, parameter, Nat)
      BY AfterTyped, AnnotateMakes
    <2>3. Make(head \o q, p, Nat)
      BY <2>2, HeadMakes
    <2> QED
      BY <2>1, <2>3
  <1>3. Make(ReadConfiguration(parameter, head).pieces, p, Nat)
    BY ReadConfigurationMakes
  <1>4. Make(ReadSequence(parameter, head).pieces, p, Nat)
    BY ReadSequenceMakes
  <1>5. \A op, sound, placeholder, read :
          Make(clock(op, sound, placeholder, read).pieces, p, Nat)
    BY ReadClockMakes
  <1>6. r = IF Len(p) < 2 THEN Unread(p, <<p>>)
            ELSE CASE p[2] = SetMemory -> ReadConfiguration(parameter, head)
                   [] p[2] = SetSequence -> ReadSequence(parameter, head)
                   [] p[2] = SetTime ->
                        clock("time", IsTime(parameter), <<0, 0>>, Numbers(parameter))
                   [] p[2] = SetDay ->
                        clock("day", IsDay(parameter), <<0>>, Numbers(parameter))
                   [] p[2] = SetFormat ->
                        clock("format", parameter \in Formats, <<83>>, parameter)
                   [] OTHER -> Unread(p, head \o q)
    BY Zenon DEF ReadSpecial
  <1> HIDE DEF r, clock, head, parameter, q
  <1>7. \/ r = Unread(p, <<p>>)
        \/ r = ReadConfiguration(parameter, head)
        \/ r = ReadSequence(parameter, head)
        \/ \E op, sound, placeholder, read : r = clock(op, sound, placeholder, read)
        \/ r = Unread(p, head \o q)
    BY <1>6 DEF SetMemory, SetSequence, SetTime, SetDay, SetFormat
  <1>8. Make(r.pieces, p, Nat)
    BY <1>1, <1>2, <1>3, <1>4, <1>5, <1>7
  <1> QED
    BY <1>8 DEF r

-----------------------------------------------------------------------------
(* The rows of a picture.                                                  *)

\* What is chosen of the places themselves is each of them, in order.
InOrder(q, n, places) ==
  /\ q \in Seq(1 .. n)
  /\ \A i, j \in DOMAIN q : i < j => q[i] < q[j]
  /\ \A i \in DOMAIN q : q[i] \in places
  /\ \A k \in (1 .. n) \cap places : \E i \in DOMAIN q : q[i] = k

LEMMA PlacesInOrder ==
  ASSUME NEW N \in Nat, NEW places
  PROVE  InOrder(Chosen([i \in 1 .. N |-> i], places), N, places)
  <1> DEFINE s == [i \in 1 .. N |-> i]
  <1>1. s \in Seq(Nat) /\ Len(s) = N /\ \A i \in 1 .. N : s[i] = i
    OBVIOUS
  <1> HIDE DEF s
  <1>2. PICK g : Chooses(s, places, g) /\ Chosen(s, places) = g[N]
    BY <1>1, ChosenIs
  <1>3. /\ g[0] = <<>>
        /\ \A n \in 1 .. N :
             g[n] = IF n \in places THEN Append(g[n - 1], n) ELSE g[n - 1]
    <2>1. \A n \in 0 .. N :
            g[n] = IF n = 0 THEN <<>>
                   ELSE IF n \in places THEN Append(g[n - 1], s[n])
                   ELSE g[n - 1]
      BY <1>1, <1>2 DEF Chooses
    <2>2. 0 \in 0 .. N /\ \A n \in 1 .. N : n \in 0 .. N /\ n # 0
      OBVIOUS
    <2> QED
      BY <1>1, <2>1, <2>2
  <1> DEFINE Fine(n) == InOrder(g[n], n, places)
             T == {n \in 0 .. N : Fine(n)}
  <1>4. 0 \in T
    <2>1. <<>> \in Seq(1 .. 0) /\ DOMAIN <<>> = {} /\ (1 .. 0) \cap places = {}
      OBVIOUS
    <2>2. InOrder(<<>>, 0, places)
      BY <2>1 DEF InOrder
    <2> QED
      BY <1>3, <2>2
  <1>5. ASSUME NEW n \in 1 .. N, n - 1 \in T PROVE n \in T
    <2> DEFINE q == g[n - 1]
    <2>1. InOrder(q, n - 1, places) /\ n \in 0 .. N
      BY <1>5
    <2> HIDE DEF q
    <2>2. /\ q \in Seq(1 .. n - 1)
          /\ \A i, j \in DOMAIN q : i < j => q[i] < q[j]
          /\ \A i \in DOMAIN q : q[i] \in places
          /\ \A k \in (1 .. n - 1) \cap places : \E i \in DOMAIN q : q[i] = k
      BY <2>1 DEF InOrder
    <2>3. q \in Seq(1 .. n) /\ Len(q) \in Nat /\ DOMAIN q = 1 .. Len(q)
          /\ \A i \in DOMAIN q : q[i] \in Nat /\ q[i] < n
      <3>1. 1 .. n - 1 \subseteq 1 .. n
        OBVIOUS
      <3>2. q \in Seq(1 .. n)
        BY <2>2, <3>1, SeqMonotonic
      <3>3. \A i \in DOMAIN q : q[i] \in 1 .. n - 1
        BY <2>2
      <3> QED
        BY <3>2, <3>3
    <2>4. CASE n \notin places
      <3>1. g[n] = q
        BY <1>3, <2>4 DEF q
      <3>2. \A k \in (1 .. n) \cap places : k \in (1 .. n - 1) \cap places
        BY <2>4
      <3>3. InOrder(q, n, places)
        BY <2>2, <2>3, <3>2 DEF InOrder
      <3> QED
        BY <2>1, <3>1, <3>3
    <2>5. CASE n \in places
      <3> DEFINE r == Append(q, n)
      <3>1. g[n] = r
        BY <1>3, <2>5 DEF q
      <3>2. /\ r \in Seq(1 .. n) /\ DOMAIN r = 1 .. Len(q) + 1
            /\ \A i \in 1 .. Len(q) : r[i] = q[i]
            /\ r[Len(q) + 1] = n
        <4>1. n \in 1 .. n
          OBVIOUS
        <4> QED
          BY <2>3, <4>1, AppendProperties
      <3> HIDE DEF r
      <3>3. \A i \in DOMAIN r : i \in DOMAIN q \/ i = Len(q) + 1
        BY <2>3, <3>2
      <3>4. \A i, j \in DOMAIN r : i < j => r[i] < r[j]
        <4>1. TAKE i, j \in DOMAIN r
        <4>2. CASE j \in DOMAIN q
          <5>1. i < j => i \in DOMAIN q
            BY <2>3, <3>2, <4>2
          <5> QED
            BY <2>2, <2>3, <3>2, <4>2, <5>1
        <4>3. CASE j = Len(q) + 1
          <5>1. i < j => i \in DOMAIN q
            BY <2>3, <3>2, <4>3
          <5> QED
            BY <2>3, <3>2, <4>3, <5>1
        <4> QED
          BY <3>3, <4>2, <4>3
      <3>5. \A i \in DOMAIN r : r[i] \in places
        BY <2>2, <2>3, <2>5, <3>2, <3>3
      <3>6. \A k \in (1 .. n) \cap places : \E i \in DOMAIN r : r[i] = k
        <4>1. TAKE k \in (1 .. n) \cap places
        <4>2. CASE k = n
          <5>1. Len(q) + 1 \in DOMAIN r
            BY <2>3, <3>2
          <5> QED
            BY <3>2, <4>2, <5>1
        <4>3. CASE k # n
          <5>1. k \in (1 .. n - 1) \cap places
            BY <4>3
          <5>2. PICK i \in DOMAIN q : q[i] = k
            BY <2>2, <5>1
          <5>3. i \in DOMAIN r /\ r[i] = k
            BY <2>3, <3>2, <5>2
          <5> QED
            BY <5>3
        <4> QED
          BY <4>2, <4>3
      <3>7. InOrder(r, n, places)
        BY <3>2, <3>4, <3>5, <3>6 DEF InOrder
      <3> QED
        BY <2>1, <3>1, <3>7
    <2> QED
      BY <2>4, <2>5
  <1>6. 0 .. N \subseteq T
    <2> HIDE DEF T
    <2> QED
      BY <1>4, <1>5, IntervalInduction
  <1>7. Fine(N)
    BY <1>6
  <1> QED
    BY <1>2, <1>7 DEF s

LEMMA PairMakes ==
  ASSUME NEW a \in Seq(Nat), NEW b \in Seq(Nat)
  PROVE  Make(<<a, b>>, a \o b, Nat)
  <1>1. Make(<<a>>, a, Nat) /\ Make(<<b>>, b, Nat)
    BY MakeOne
  <1>2. Make(<<a>> \o <<b>>, a \o b, Nat)
    BY <1>1, MakeTogether
  <1>3. <<a>> \o <<b>> = <<a, b>>
    <2> DEFINE Q == Seq(Nat)
               w == <<a>> \o <<b>>
    <2>1. a \in Q /\ b \in Q
      OBVIOUS
    <2> HIDE DEF Q
    <2>2. <<a>> \in Seq(Q) /\ <<b>> \in Seq(Q) /\ <<a, b>> \in Seq(Q)
      BY <2>1
    <2>3. w \in Seq(Q) /\ Len(w) = 2 /\ w[1] = a /\ w[2] = b
      BY <2>2
    <2> HIDE DEF w
    <2>4. w = <<a, b>>
      BY <2>2, <2>3
    <2> QED
      BY <2>4 DEF w
  <1> QED
    BY <1>2, <1>3

LEMMA NonEmptyOne ==
  ASSUME NEW x \in Seq(Nat)
  PROVE  NonEmpty(<<x>>) = IF x = <<>> THEN <<>> ELSE <<x>>
  <1> DEFINE Q == Seq(Nat)
             s == <<x>>
             places == {i \in DOMAIN s : s[i] # <<>>}
  <1>1. s \in Seq(Q) /\ Len(s) = 1 /\ s[1] = x /\ DOMAIN s = {1}
    OBVIOUS
  <1>2. 1 \in places <=> x # <<>>
    BY <1>1
  <1>3. NonEmpty(s) = Chosen(s, places)
    BY DEF NonEmpty
  <1> HIDE DEF s, places, Q
  <1>4. PICK g : Chooses(s, places, g) /\ Chosen(s, places) = g[1]
    BY <1>1, ChosenIs
  <1>5. g[0] = <<>> /\ g[1] = IF 1 \in places THEN Append(<<>>, x) ELSE <<>>
    <2>1. \A n \in 0 .. 1 :
            g[n] = IF n = 0 THEN <<>>
                   ELSE IF n \in places THEN Append(g[n - 1], s[n])
                   ELSE g[n - 1]
      BY <1>1, <1>4 DEF Chooses
    <2>2. 0 \in 0 .. 1 /\ 1 \in 0 .. 1 /\ 1 - 1 = 0 /\ 1 # 0
      OBVIOUS
    <2>3. g[0] = <<>>
      BY <2>1, <2>2
    <2>4. g[1] = IF 1 \in places THEN Append(g[0], s[1]) ELSE g[0]
      BY <2>1, <2>2
    <2> QED
      BY <1>1, <2>3, <2>4
  <1>6. Append(<<>>, x) = <<x>>
    OBVIOUS
  <1> QED
    BY <1>2, <1>3, <1>4, <1>5, <1>6 DEF s

\* Where the rows of a picture begin and end.
RowEnds(body) == Chosen([i \in DOMAIN body |-> i], {i \in DOMAIN body : body[i] = CR})
Edge(body) == <<0>> \o Append(RowEnds(body), Len(body) + 1)

LEMMA EdgesAreThere ==
  ASSUME NEW body \in Seq(Nat)
  PROVE  LET n == Len(RowEnds(body))  e == Edge(body)  N == Len(body)
         IN /\ n \in Nat
            /\ e[1] = 0 /\ e[n + 2] = N + 1
            /\ \A k \in 1 .. n + 1 : e[k] \in 0 .. N
            /\ \A k \in 1 .. n :
                 e[k] < e[k + 1] /\ e[k + 1] \in 1 .. N /\ body[e[k + 1]] = CR
            /\ e[n + 1] < N => body[N] # CR
            /\ \A k \in 1 .. n : e[k + 1] = RowEnds(body)[k]
  <1> DEFINE N == Len(body)
             places == {i \in DOMAIN body : body[i] = CR}
             ends == RowEnds(body)
             e == Edge(body)
             n == Len(ends)
  <1>1. N \in Nat /\ DOMAIN body = 1 .. N
    OBVIOUS
  <1>2. InOrder(ends, N, places)
    <2>1. ends = Chosen([i \in 1 .. N |-> i], places)
      BY <1>1 DEF RowEnds
    <2> HIDE DEF places, ends
    <2> QED
      BY <1>1, <2>1, PlacesInOrder
  <1>3. e = <<0>> \o Append(ends, N + 1)
    BY DEF Edge
  <1> HIDE DEF ends, e
  <1>4. /\ ends \in Seq(1 .. N)
        /\ \A i, j \in DOMAIN ends : i < j => ends[i] < ends[j]
        /\ \A i \in DOMAIN ends : ends[i] \in places
        /\ \A k \in (1 .. N) \cap places : \E i \in DOMAIN ends : ends[i] = k
    BY <1>2 DEF InOrder
  <1>5. n \in Nat /\ DOMAIN ends = 1 .. n /\ \A k \in 1 .. n : ends[k] \in 1 .. N
    BY <1>4
  <1>6. /\ e[1] = 0 /\ e[n + 2] = N + 1
        /\ \A k \in 1 .. n : e[k + 1] = ends[k]
    <2>1. ends \in Seq(Nat) /\ N + 1 \in Nat
      <3>1. 1 .. N \subseteq Nat
        OBVIOUS
      <3> QED
        BY <1>1, <1>4, <3>1, SeqMonotonic
    <2> DEFINE r == Append(ends, N + 1)
    <2>2. /\ r \in Seq(Nat) /\ Len(r) = n + 1 /\ r[n + 1] = N + 1
          /\ \A k \in 1 .. n : r[k] = ends[k]
      BY <2>1, AppendProperties
    <2>3. <<0>> \in Seq(Nat) /\ Len(<<0>>) = 1 /\ <<0>>[1] = 0
      OBVIOUS
    <2>4. e = <<0>> \o r
      BY <1>3
    <2> HIDE DEF r, n
    <2>5. e[1] = 0 /\ \A k \in 1 .. n + 1 : e[k + 1] = r[k]
      BY <1>5, <2>2, <2>3, <2>4
    <2>6. n + 1 \in 1 .. n + 1 /\ n + 1 + 1 = n + 2 /\ \A k \in 1 .. n : k \in 1 .. n + 1
      BY <1>5
    <2> QED
      BY <2>2, <2>5, <2>6
  <1> HIDE DEF n, N
  <1>7. ASSUME NEW k \in 1 .. n
        PROVE  e[k] < e[k + 1] /\ e[k + 1] \in 1 .. N /\ body[e[k + 1]] = CR
    <2>1. e[k + 1] \in 1 .. N /\ e[k + 1] \in places
      BY <1>4, <1>5, <1>6
    <2>2. CASE k = 1
      BY <1>1, <1>6, <2>1, <2>2
    <2>3. CASE k # 1
      <3>1. k - 1 \in 1 .. n /\ k - 1 + 1 = k /\ k - 1 < k
        BY <1>5, <2>3
      <3>2. e[k] = ends[k - 1] /\ e[k + 1] = ends[k]
        BY <1>6, <3>1
      <3> QED
        BY <1>4, <1>5, <2>1, <3>1, <3>2
    <2> QED
      BY <2>1, <2>2, <2>3
  <1>8. ASSUME NEW k \in 1 .. n + 1 PROVE e[k] \in 0 .. N
    <2>1. CASE k = 1
      BY <1>1, <1>6, <2>1
    <2>2. CASE k # 1
      <3>1. k - 1 \in 1 .. n /\ k - 1 + 1 = k
        BY <1>5, <2>2
      <3>2. e[k] \in 1 .. N
        BY <1>7, <3>1
      <3> QED
        BY <1>1, <3>2
    <2> QED
      BY <2>1, <2>2
  <1>9. ASSUME e[n + 1] < N, body[N] = CR PROVE FALSE
    <2>1. n + 1 \in 1 .. n + 1
      BY <1>5
    <2>2. N \in (1 .. N) \cap places
      <3>1. e[n + 1] \in 0 .. N
        BY <1>8, <2>1
      <3>2. N \in 1 .. N
        BY <1>1, <1>9, <3>1
      <3> QED
        BY <1>1, <1>9, <3>2
    <2>3. PICK i \in 1 .. n : ends[i] = N
      BY <1>4, <1>5, <2>2
    <2>4. n \in 1 .. n /\ (i = n \/ i < n)
      BY <1>5
    <2>5. e[n + 1] = ends[n] /\ ends[n] \in 1 .. N
      BY <1>5, <1>6, <2>4
    <2>6. i < n => N < ends[n]
      BY <1>4, <1>5, <2>3, <2>4
    <2> QED
      BY <1>1, <1>9, <2>3, <2>4, <2>5, <2>6
  <1>10. /\ n \in Nat
         /\ e[1] = 0 /\ e[n + 2] = N + 1
         /\ \A k \in 1 .. n + 1 : e[k] \in 0 .. N
         /\ \A k \in 1 .. n :
              e[k] < e[k + 1] /\ e[k + 1] \in 1 .. N /\ body[e[k + 1]] = CR
         /\ e[n + 1] < N => body[N] # CR
         /\ \A k \in 1 .. n : e[k + 1] = ends[k]
    BY <1>5, <1>6, <1>7, <1>8, <1>9
  <1> QED
    BY <1>10 DEF n, e, N, ends

\* The pieces of a picture's rows, each with its carriage return.
Closed(body, rows, i) == i < Len(rows) \/ body[Len(body)] = CR
RowPieces(body, rows) ==
  [i \in DOMAIN rows |-> <<rows[i], IF Closed(body, rows, i) THEN <<CR>> ELSE <<>>>>]

LEMMA LinesAre ==
  ASSUME NEW body \in Seq(Nat)
  PROVE  LET n == Len(RowEnds(body))  e == Edge(body)  N == Len(body)
             rows == Lines(body)
             rest == SubSeq(body, e[n + 1] + 1, N)
         IN /\ rows \in Seq(Seq(Nat))
            /\ Len(rows) = IF rest = <<>> THEN n ELSE n + 1
            /\ \A k \in 1 .. n : rows[k] = SubSeq(body, e[k] + 1, e[k + 1] - 1)
            /\ rest # <<>> => rows[n + 1] = rest
  <1> DEFINE N == Len(body)
             n == Len(RowEnds(body))
             e == Edge(body)
             Q == Seq(Nat)
             row(k) == SubSeq(body, e[k] + 1, e[k + 1] - 1)
             split == [k \in 1 .. n + 1 |-> row(k)]
             rows == Lines(body)
             rest == SubSeq(body, e[n + 1] + 1, N)
  <1>1. /\ n \in Nat
        /\ e[1] = 0 /\ e[n + 2] = N + 1
        /\ \A k \in 1 .. n + 1 : e[k] \in 0 .. N
        /\ \A k \in 1 .. n :
             e[k] < e[k + 1] /\ e[k + 1] \in 1 .. N /\ body[e[k + 1]] = CR
        /\ e[n + 1] < N => body[N] # CR
    BY EdgesAreThere
  <1>2. Split(body) = split
    BY Zenon DEF Split, Edge, RowEnds
  <1>10. N \in Nat
    OBVIOUS
  <1> HIDE DEF e, n, N
  <1>3. \A k \in 1 .. n + 1 : row(k) \in Q
    <2>1. TAKE k \in 1 .. n + 1
    <2>2. e[k] \in 0 .. N
      BY <1>1
    <2>3. e[k + 1] - 1 \in 0 .. N
      <3>1. CASE k \in 1 .. n
        <4>1. \A m \in 1 .. N : m - 1 \in 0 .. N
          BY <1>10
        <4>2. e[k + 1] \in 1 .. N
          BY <1>1, <3>1
        <4> QED
          BY <4>1, <4>2
      <3>2. CASE k = n + 1
        <4>1. k + 1 = n + 2
          BY <1>1, <3>2
        <4> QED
          BY <1>1, <1>10, <4>1
      <3> QED
        BY <1>1, <3>1, <3>2
    <2> DEFINE a == e[k]
               b == e[k + 1] - 1
    <2>4. a \in Nat /\ b \in 0 .. Len(body)
      BY <2>2, <2>3 DEF N
    <2> HIDE DEF a, b
    <2>5. SubSeq(body, a + 1, b) \in Seq(Nat)
      BY <2>4, Part
    <2> QED
      BY <2>5 DEF a, b
  <1>4. split \in Seq(Q) /\ Len(split) = n + 1 /\ \A k \in 1 .. n + 1 : split[k] = row(k)
    <2> HIDE DEF row, Q
    <2> QED
      BY <1>1, <1>3
  <1>5. split[n + 1] = rest /\ rest \in Q
    <2>1. n + 1 \in 1 .. n + 1 /\ e[n + 1 + 1] - 1 = N
      <3>1. n + 1 + 1 = n + 2 /\ n + 1 \in 1 .. n + 1
        BY <1>1
      <3>2. e[n + 1 + 1] = N + 1
        BY <1>1, <3>1
      <3> QED
        BY <1>10, <3>1, <3>2
    <2>2. row(n + 1) = rest
      BY <2>1
    <2>3. row(n + 1) \in Q /\ split[n + 1] = row(n + 1)
      BY <1>3, <1>4, <2>1
    <2> HIDE DEF row, rest, split
    <2> QED
      BY <2>2, <2>3
  <1> HIDE DEF split, rest, row, Q
  <1> DEFINE front == SubSeq(split, 1, n)
  <1>6. /\ front \in Seq(Q) /\ Len(front) = n
        /\ \A k \in 1 .. n : front[k] = row(k)
    <2>1. n \in 0 .. Len(split) /\ 0 \in Nat /\ 0 + 1 = 1
      BY <1>1, <1>4
    <2>2. LET q == SubSeq(split, 0 + 1, n)
          IN /\ q \in Seq(Q)
             /\ Len(q) = IF 0 <= n THEN n - 0 ELSE 0
             /\ \A i \in 1 .. Len(q) : q[i] = split[0 + i]
      BY <1>4, <2>1, Part
    <2>3. front \in Seq(Q) /\ Len(front) = n /\ \A i \in 1 .. n : front[i] = split[i]
      <3> HIDE DEF n
      <3>1. /\ front \in Seq(Q)
            /\ Len(front) = IF 0 <= n THEN n - 0 ELSE 0
            /\ \A i \in 1 .. Len(front) : front[i] = split[0 + i]
        BY <2>1, <2>2, Zenon
      <3> HIDE DEF front
      <3>2. Len(front) = n
        BY <1>1, <3>1
      <3>3. \A i \in 1 .. n : 0 + i = i
        BY <1>1
      <3>4. \A i \in 1 .. n : front[i] = split[0 + i]
        BY <3>1, <3>2
      <3> QED
        BY <3>1, <3>2, <3>3, <3>4
    <2>4. \A k \in 1 .. n : k \in 1 .. n + 1
      BY <1>1
    <2> HIDE DEF front
    <2> QED
      BY <1>4, <2>3, <2>4
  <1> DEFINE tail == IF rest = <<>> THEN <<>> ELSE <<rest>>
  <1>7. rows = front \o tail
    <2>1. Len(split) - 1 = n
      BY <1>1, <1>4
    <2>2. Front(split) = front /\ Last(split) = rest
      BY <1>4, <1>5, <2>1 DEF Front, Last
    <2>3. NonEmpty(<<rest>>) = tail
      <3>1. rest \in Seq(Nat)
        BY <1>5 DEF Q
      <3> QED
        BY <3>1, NonEmptyOne
    <2>4. rows = Front(split) \o NonEmpty(<<Last(split)>>)
      BY <1>2 DEF Lines
    <2> HIDE DEF front, tail, rows
    <2> QED
      BY <2>2, <2>3, <2>4
  <1>8. /\ rows \in Seq(Q)
        /\ Len(rows) = IF rest = <<>> THEN n ELSE n + 1
        /\ \A k \in 1 .. n : rows[k] = row(k)
        /\ rest # <<>> => rows[n + 1] = rest
    <2> HIDE DEF front, rows
    <2>1. CASE rest = <<>>
      <3>1. rows = front \o <<>>
        BY <1>7, <2>1
      <3>2. rows = front
        BY <1>6, <3>1, ConcatEmptySeq
      <3> QED
        BY <1>6, <2>1, <3>2
    <2>2. CASE rest # <<>>
      <3>1. rows = front \o <<rest>>
        BY <1>7, <2>2
      <3>2. Append(front, rest) = front \o <<rest>>
        BY <1>5, <1>6, AppendIsConcat
      <3>3. rows = Append(front, rest)
        BY <3>1, <3>2
      <3>4. /\ rows \in Seq(Q) /\ Len(rows) = n + 1 /\ rows[n + 1] = rest
            /\ \A k \in 1 .. n : rows[k] = front[k]
        BY <1>5, <1>6, <3>3, AppendProperties
      <3> QED
        BY <1>6, <2>2, <3>4
    <2> QED
      BY <2>1, <2>2
  <1>9. /\ rows \in Seq(Seq(Nat))
        /\ Len(rows) = IF rest = <<>> THEN n ELSE n + 1
        /\ \A k \in 1 .. n : rows[k] = SubSeq(body, e[k] + 1, e[k + 1] - 1)
        /\ rest # <<>> => rows[n + 1] = rest
    <2> HIDE DEF rows
    <2> QED
      BY <1>8 DEF row, Q
  <1> QED
    BY <1>9, Zenon DEF n, e, N, rest

\* What a row and its carriage return make up.
LEMMA RowMakes ==
  ASSUME NEW body \in Seq(Nat), NEW a \in Nat, NEW b \in 1 .. Len(body), a < b,
         body[b] = CR
  PROVE  Make(<<SubSeq(body, a + 1, b - 1), <<CR>>>>, SubSeq(body, a + 1, b), Nat)
  <1> DEFINE row == SubSeq(body, a + 1, b - 1)
             mark == <<CR>>
  <1>1. row \in Seq(Nat) /\ mark \in Seq(Nat)
    <2> DEFINE c == b - 1
    <2>1. c \in 0 .. Len(body)
      OBVIOUS
    <2> HIDE DEF c
    <2>2. SubSeq(body, a + 1, c) \in Seq(Nat)
      BY <2>1, Part
    <2>3. CR \in Nat
      BY DEF CR
    <2> QED
      BY <2>2, <2>3 DEF c
  <1>2. row \o mark = SubSeq(body, a + 1, b)
    <2>1. a + 1 \in 1 .. Len(body) /\ b \in a + 1 .. Len(body)
      OBVIOUS
    <2> DEFINE m == a + 1
    <2>2. m \in 1 .. Len(body) /\ b \in m .. Len(body)
      BY <2>1
    <2> HIDE DEF m
    <2>3. SubSeq(body, m, b) = SubSeq(body, m, b - 1) \o <<body[b]>>
      BY <2>2, SubSeqRecursiveSecond
    <2> QED
      BY <2>3 DEF m
  <1> HIDE DEF row, mark
  <1>3. Make(<<row, mark>>, row \o mark, Nat)
    BY <1>1, PairMakes
  <1> QED
    BY <1>2, <1>3 DEF row, mark

\* Which row is closed: every one before an edge, and not the one after it.
LEMMA ClosedIs ==
  ASSUME NEW body \in Seq(Nat)
  PROVE  LET n == Len(RowEnds(body))  e == Edge(body)  rows == Lines(body)
             rest == SubSeq(body, e[n + 1] + 1, Len(body))
         IN /\ \A k \in 1 .. n : Closed(body, rows, k)
            /\ rest # <<>> => ~Closed(body, rows, n + 1) /\ e[n + 1] < Len(body)
            /\ rest = <<>> => e[n + 1] = Len(body)
  <1> DEFINE N == Len(body)
             n == Len(RowEnds(body))
             e == Edge(body)
             rows == Lines(body)
             here == e[n + 1]
             rest == SubSeq(body, e[n + 1] + 1, N)
  <1>1. /\ n \in Nat
        /\ \A k \in 1 .. n + 1 : e[k] \in 0 .. N
        /\ \A k \in 1 .. n :
             e[k] < e[k + 1] /\ e[k + 1] \in 1 .. N /\ body[e[k + 1]] = CR
        /\ e[n + 1] < N => body[N] # CR
    BY EdgesAreThere
  <1>2. Len(rows) = IF rest = <<>> THEN n ELSE n + 1
    BY LinesAre
  <1>3. N \in Nat
    OBVIOUS
  <1>4. n + 1 \in 1 .. n + 1 /\ here \in 0 .. N
    BY <1>1
  <1>5. rest = <<>> <=> here = N
    <2> DEFINE a == here
    <2>1. a \in Nat /\ N \in 0 .. Len(body)
      BY <1>3, <1>4
    <2> HIDE DEF here
    <2>2. LET q == SubSeq(body, a + 1, N)
          IN /\ q \in Seq(Nat)
             /\ Len(q) = IF a <= N THEN N - a ELSE 0
             /\ \A i \in 1 .. Len(q) : q[i] = body[a + i]
      <3> HIDE DEF a, N
      <3> QED
        BY <2>1, Part DEF N
    <2>3. rest = SubSeq(body, a + 1, N)
      BY DEF here
    <2> HIDE DEF rest, e, n
    <2>4. rest \in Seq(Nat) /\ Len(rest) = N - a
      BY <1>4, <2>2, <2>3
    <2>5. rest = <<>> <=> Len(rest) = 0
      BY <2>4
    <2> QED
      BY <1>3, <1>4, <2>4, <2>5
  <1> HIDE DEF rows
  <1>6. ASSUME NEW k \in 1 .. n PROVE Closed(body, rows, k)
    <2>1. CASE rest = <<>>
      <3>1. CASE k < n
        <4> HIDE DEF n
        <4> QED
          BY <1>2, <2>1, <3>1 DEF Closed
      <3>2. CASE k = n
        <4>1. e[k + 1] = N /\ body[e[k + 1]] = CR
          BY <1>1, <1>5, <2>1, <3>2
        <4>2. body[N] = CR
          BY <4>1
        <4> QED
          BY <4>2 DEF Closed
      <3> HIDE DEF n
      <3> QED
        BY <1>1, <3>1, <3>2
    <2>2. CASE rest # <<>>
      <3>1. k < n + 1 /\ Len(rows) = n + 1
        <4> HIDE DEF n
        <4> QED
          BY <1>1, <1>2, <2>2
      <3> QED
        BY <3>1 DEF Closed
    <2> QED
      BY <2>1, <2>2
  <1>7. ASSUME rest # <<>> PROVE ~Closed(body, rows, n + 1) /\ here < N
    <2>1. here < N
      <3> HIDE DEF here, N, rest
      <3> QED
        BY <1>3, <1>4, <1>5, <1>7
    <2>2. body[N] # CR
      BY <1>1, <2>1
    <2>3. ~(n + 1 < Len(rows))
      <3> HIDE DEF n
      <3> QED
        BY <1>1, <1>2, <1>7
    <2> QED
      BY <2>1, <2>2, <2>3 DEF Closed
  <1>8. /\ \A k \in 1 .. n : Closed(body, rows, k)
        /\ rest # <<>> => ~Closed(body, rows, n + 1) /\ e[n + 1] < N
        /\ rest = <<>> => e[n + 1] = N
    <2> HIDE DEF n, rest
    <2> QED
      BY <1>5, <1>6, <1>7
  <1> QED
    BY <1>8 DEF rows

\* Groups of pieces, flattened, make what the groups make one after the other.
LEMMA FlattenedGroupsMake ==
  ASSUME NEW S, NEW s \in Seq(S), NEW G \in Seq(Seq(Seq(S))), NEW e, e[0] = 0,
         \A k \in 0 .. Len(G) : e[k] \in 0 .. Len(s),
         \A k \in 1 .. Len(G) :
           e[k - 1] <= e[k] /\ Make(G[k], SubSeq(s, e[k - 1] + 1, e[k]), S)
  PROVE  Make(FlattenSeq(G), SubSeq(s, 1, e[Len(G)]), S)
  <1> DEFINE N == Len(G)
             Q == Seq(S)
             upTo(k) == SubSeq(G, 1, k)
             g == [k \in 0 .. N |-> FlattenSeq(upTo(k))]
  <1>1. N \in Nat /\ 0 \in 0 .. N /\ N \in 0 .. N /\ 0 \in Nat
    OBVIOUS
  <1>2. upTo(0) = <<>> /\ upTo(N) = G
    BY SubSeqEmpty, SubSeqFull
  <1> HIDE DEF upTo
  <1>3. g[0] = <<>> /\ g[N] = FlattenSeq(G)
    BY <1>1, <1>2, FlattenNothing
  <1>4. ASSUME NEW k \in 1 .. N PROVE g[k] = g[k - 1] \o G[k]
    <2>1. k \in 0 .. N /\ k - 1 \in 0 .. N /\ k - 1 \in 0 .. Len(G) /\ k \in 1 .. Len(G)
      OBVIOUS
    <2>2. g[k] = FlattenSeq(upTo(k)) /\ g[k - 1] = FlattenSeq(upTo(k - 1))
      BY <2>1
    <2> DEFINE u == upTo(k - 1)
               x == G[k]
    <2>3. u \in Seq(Seq(Q)) /\ x \in Seq(Q)
      <3> HIDE DEF Q
      <3>1. G \in Seq(Seq(Q))
        BY DEF Q
      <3> DEFINE c == k - 1
      <3>2. c \in 0 .. Len(G) /\ 0 \in Nat /\ 0 + 1 = 1
        BY <2>1
      <3> HIDE DEF c
      <3>3. SubSeq(G, 0 + 1, c) \in Seq(Seq(Q))
        BY <3>1, <3>2, Part
      <3>4. SubSeq(G, 1, k - 1) \in Seq(Seq(Q))
        BY <3>2, <3>3 DEF c
      <3> QED
        BY <2>1, <3>1, <3>4 DEF upTo
    <2>4. upTo(k) = u \o <<x>>
      <3>1. SubSeq(G, 1, k) = SubSeq(G, 1, k - 1) \o <<G[k]>>
        BY <2>1, OneMore
      <3> QED
        BY <3>1 DEF upTo
    <2> HIDE DEF u, x, Q
    <2>5. upTo(k) = Append(u, x)
      <3> DEFINE R == Seq(Q)
      <3>1. u \in Seq(R) /\ x \in R
        BY <2>3
      <3> HIDE DEF R
      <3>2. Append(u, x) = u \o <<x>>
        BY <3>1, AppendIsConcat
      <3> QED
        BY <2>4, <3>2
    <2>6. FlattenSeq(Append(u, x)) = FlattenSeq(u) \o x
      BY <2>3, FlattenAppend
    <2> HIDE DEF g
    <2> QED
      BY <2>2, <2>5, <2>6 DEF u, x
  <1>5. \A k \in 1 .. N :
          /\ e[k - 1] <= e[k] /\ g[k] = g[k - 1] \o G[k]
          /\ Make(G[k], SubSeq(s, e[k - 1] + 1, e[k]), S)
    BY <1>4
  <1> HIDE DEF g
  <1>6. \A k \in 0 .. N : e[k] \in 0 .. Len(s)
    OBVIOUS
  <1> HIDE DEF N
  <1>7. Make(g[N], SubSeq(s, 1, e[N]), S)
    BY <1>1, <1>3, <1>5, <1>6, GroupsMake
  <1> QED
    BY <1>3, <1>7 DEF N

LEMMA LinesMake ==
  ASSUME NEW body \in Seq(Nat)
  PROVE  Make(FlattenSeq(RowPieces(body, Lines(body))), body, Nat)
  <1> DEFINE N == Len(body)
             n == Len(RowEnds(body))
             edge == Edge(body)
             rows == Lines(body)
             M == Len(rows)
             rest == SubSeq(body, edge[n + 1] + 1, N)
             G == RowPieces(body, rows)
             e == [k \in 0 .. M |-> IF k <= n THEN edge[k + 1] ELSE N]
  <1>1. /\ n \in Nat /\ edge[1] = 0
        /\ \A k \in 1 .. n + 1 : edge[k] \in 0 .. N
        /\ \A k \in 1 .. n :
             edge[k] < edge[k + 1] /\ edge[k + 1] \in 1 .. N /\ body[edge[k + 1]] = CR
    BY EdgesAreThere
  <1>2. /\ rows \in Seq(Seq(Nat))
        /\ M = IF rest = <<>> THEN n ELSE n + 1
        /\ \A k \in 1 .. n : rows[k] = SubSeq(body, edge[k] + 1, edge[k + 1] - 1)
        /\ rest # <<>> => rows[n + 1] = rest
    BY LinesAre
  <1>3. /\ \A k \in 1 .. n : Closed(body, rows, k)
        /\ rest # <<>> => ~Closed(body, rows, n + 1) /\ edge[n + 1] < N
        /\ rest = <<>> => edge[n + 1] = N
    BY ClosedIs
  <1>4. N \in Nat /\ M \in Nat /\ n <= M
    <2> HIDE DEF n, rest
    <2> QED
      BY <1>1, <1>2
  <1>5. G = [k \in 1 .. M |-> <<rows[k], IF Closed(body, rows, k) THEN <<CR>> ELSE <<>>>>]
    BY <1>2 DEF RowPieces
  <1> DEFINE Q == Seq(Nat)
  <1>6. G \in Seq(Seq(Q)) /\ Len(G) = M
    <2> DEFINE mark(k) == IF Closed(body, rows, k) THEN <<CR>> ELSE <<>>
    <2>1. \A k \in 1 .. M : mark(k) \in Q
      BY DEF CR
    <2>2. \A k \in 1 .. M : rows[k] \in Q
      BY <1>2
    <2>3. G = [k \in 1 .. M |-> <<rows[k], mark(k)>>]
      BY <1>5
    <2> HIDE DEF mark, Q, rows, G
    <2> QED
      BY <1>4, <2>1, <2>2, <2>3
  <1> HIDE DEF n, edge, rows, M, G, N, rest
  <1>7. e[0] = 0 /\ \A k \in 0 .. M : e[k] \in 0 .. N
    <2>1. 0 \in 0 .. M /\ 0 <= n /\ 0 + 1 = 1
      BY <1>1, <1>4
    <2>2. e[0] = 0
      BY <1>1, <2>1
    <2>3. \A k \in 0 .. M : k <= n => k + 1 \in 1 .. n + 1
      BY <1>1, <1>4
    <2>4. N \in 0 .. N
      BY <1>4
    <2> QED
      BY <1>1, <2>2, <2>3, <2>4
  <1>8. e[M] = N
    <2>1. M \in 0 .. M
      BY <1>4
    <2>2. CASE rest = <<>>
      BY <1>1, <1>2, <1>3, <2>1, <2>2
    <2>3. CASE rest # <<>>
      BY <1>1, <1>2, <2>1, <2>3
    <2> QED
      BY <2>2, <2>3
  <1>9. ASSUME NEW k \in 1 .. M
        PROVE  e[k - 1] <= e[k] /\ Make(G[k], SubSeq(body, e[k - 1] + 1, e[k]), Nat)
    <2>1. k \in 0 .. M /\ k - 1 \in 0 .. M /\ k - 1 + 1 = k
      BY <1>4
    <2>2. CASE k \in 1 .. n
      <3>1. k <= n /\ k - 1 <= n
        BY <1>1, <2>2
      <3>2. e[k] = edge[k + 1] /\ e[k - 1] = edge[k]
        BY <2>1, <3>1
      <3> DEFINE a == edge[k]
                 b == edge[k + 1]
      <3>3. a \in Nat /\ b \in 1 .. Len(body) /\ a < b /\ body[b] = CR
        <4>1. k \in 1 .. n + 1
          BY <1>1, <2>2
        <4>2. a \in 0 .. N
          BY <1>1, <4>1
        <4> QED
          BY <1>1, <2>2, <4>2 DEF N
      <3>4. G[k] = <<SubSeq(body, a + 1, b - 1), <<CR>>>>
        BY <1>2, <1>3, <1>5, <2>2
      <3> HIDE DEF a, b
      <3>5. Make(G[k], SubSeq(body, a + 1, b), Nat)
        BY <3>3, <3>4, RowMakes
      <3>6. a <= b
        BY <3>3
      <3> HIDE DEF e
      <3> QED
        BY <3>2, <3>5, <3>6 DEF a, b
    <2>3. CASE ~(k \in 1 .. n)
      <3>1. rest # <<>> /\ k = n + 1
        BY <1>1, <1>2, <1>4, <2>3
      <3>2. e[k] = N /\ e[k - 1] = edge[n + 1]
        <4>1. ~(k <= n) /\ k - 1 <= n
          BY <1>1, <3>1
        <4> QED
          BY <2>1, <3>1, <4>1
      <3>3. G[k] = <<rest, <<>>>>
        BY <1>2, <1>3, <1>5, <3>1
      <3>4. rest \in Seq(Nat)
        <4>1. rows \in Seq(Seq(Nat)) /\ k \in 1 .. Len(rows)
          BY <1>2 DEF M
        <4>2. rows[k] \in Seq(Nat)
          BY <4>1
        <4> QED
          BY <1>2, <3>1, <4>2
      <3>5. Make(<<rest, <<>>>>, rest \o <<>>, Nat)
        <4>1. <<>> \in Seq(Nat)
          OBVIOUS
        <4> QED
          BY <3>4, <4>1, PairMakes
      <3>6. rest \o <<>> = rest
        BY <3>4, ConcatEmptySeq
      <3>7. edge[n + 1] <= N
        <4>1. n + 1 \in 1 .. n + 1
          BY <1>1
        <4>2. edge[n + 1] \in 0 .. N
          BY <1>1, <4>1
        <4> QED
          BY <1>4, <4>2
      <3>8. rest = SubSeq(body, e[k - 1] + 1, e[k])
        BY <3>2 DEF rest
      <3> HIDE DEF e
      <3> QED
        BY <3>2, <3>3, <3>5, <3>6, <3>7, <3>8
    <2> QED
      BY <2>2, <2>3
  <1> HIDE DEF e
  <1>10. Make(FlattenSeq(G), SubSeq(body, 1, e[Len(G)]), Nat)
    <2>1. \A k \in 0 .. Len(G) : e[k] \in 0 .. Len(body)
      BY <1>6, <1>7 DEF N
    <2>2. \A k \in 1 .. Len(G) :
            e[k - 1] <= e[k] /\ Make(G[k], SubSeq(body, e[k - 1] + 1, e[k]), Nat)
      BY <1>6, <1>9
    <2>3. G \in Seq(Seq(Seq(Nat)))
      BY <1>6
    <2> QED
      BY <1>7, <2>1, <2>2, <2>3, FlattenedGroupsMake
  <1>11. SubSeq(body, 1, N) = body
    BY SubSeqFull DEF N
  <1> QED
    BY <1>6, <1>8, <1>10, <1>11 DEF G, rows

\* Three pieces: what is left after them is nothing.
LEMMA ThreeMake ==
  ASSUME NEW s \in Seq(Nat), After(s, 4) = <<>>
  PROVE  Make(<<Slice(s, 0, 1), Slice(s, 1, 2), Slice(s, 2, 4)>>, s, Nat)
  <1> DEFINE x == Slice(s, 0, 1)
             y == Slice(s, 1, 2)
             z == Slice(s, 2, 4)
  <1>1. x \in Seq(Nat) /\ y \in Seq(Nat) /\ z \in Seq(Nat)
    BY SliceTyped
  <1>2. z = After(s, 2)
    <2>1. z \o After(s, 4) = After(s, 2)
      <3>1. 2 \in Nat /\ 4 \in Nat /\ 2 <= 4 /\ s \in Seq(Nat)
        OBVIOUS
      <3> QED
        BY <3>1, Cut
    <2>2. z \o <<>> = After(s, 2)
      BY <2>1
    <2>3. z \o <<>> = z
      <3> HIDE DEF z
      <3> QED
        BY <1>1, ConcatEmptySeq
    <2> QED
      BY <2>2, <2>3
  <1> HIDE DEF x, y, z
  <1>3. Make(<<z>>, After(s, 2), Nat)
    BY <1>1, <1>2, MakeOne
  <1>4. Make(<<x, y>> \o <<z>>, s, Nat)
    BY <1>3, HeadMakes DEF x, y
  <1>5. <<x, y>> \o <<z>> = <<x, y, z>>
    <2> DEFINE Q == Seq(Nat)
               w == <<x, y>> \o <<z>>
    <2>1. x \in Q /\ y \in Q /\ z \in Q
      BY <1>1
    <2> HIDE DEF Q
    <2>2. <<x, y>> \in Seq(Q) /\ <<z>> \in Seq(Q) /\ <<x, y, z>> \in Seq(Q)
      BY <2>1
    <2>3. w \in Seq(Q) /\ Len(w) = 3 /\ w[1] = x /\ w[2] = y /\ w[3] = z
      BY <2>2
    <2> HIDE DEF w
    <2>4. w = <<x, y, z>>
      BY <2>2, <2>3
    <2> QED
      BY <2>4 DEF w
  <1> QED
    BY <1>4, <1>5 DEF x, y, z

LEMMA ReadPictureMakes ==
  ASSUME NEW p \in Seq(Nat)
  PROVE  Make(ReadPicture(p).pieces, p, Nat)
  <1> DEFINE size == Slice(p, 2, 4)
             body == After(p, 4)
             rows == Lines(body)
             x == Slice(p, 0, 1)
             y == Slice(p, 1, 2)
             u == Slice(size, 0, 1)
             v == Slice(size, 1, 2)
             F == FlattenSeq(RowPieces(body, rows))
  <1>1. size \in Seq(Nat) /\ body \in Seq(Nat) /\ p \in Seq(Nat)
    BY SliceTyped, AfterTyped
  <1>2. CASE Len(size) < 2
    <2>1. ReadPicture(p).pieces = <<x, y, size>>
      BY <1>2, Zenon DEF ReadPicture, Unread, Read
    <2>2. After(p, 4) = <<>>
      <3>1. Len(size) = IF 2 <= Min2(4, Len(p)) THEN Min2(4, Len(p)) - 2 ELSE 0
        <4>1. 2 \in Nat /\ 4 \in Nat
          OBVIOUS
        <4> QED
          BY <4>1, SliceTyped
      <3>2. \A m \in Nat : (IF 2 <= Min2(4, m) THEN Min2(4, m) - 2 ELSE 0) < 2 => m < 4
        BY DEF Min2
      <3> HIDE DEF size
      <3>3. Len(p) \in Nat /\ Len(p) < 4
        BY <1>2, <3>1, <3>2
      <3>4. 4 + 1 > Len(p)
        BY <3>3
      <3> QED
        BY <3>4, SubSeqEmpty DEF After
    <2>3. Make(<<x, y, size>>, p, Nat)
      BY <2>2, ThreeMake
    <2> QED
      BY <2>1, <2>3
  <1>3. CASE ~(Len(size) < 2)
    <2>1. ReadPicture(p).pieces = <<x, y, u, v>> \o F
      BY <1>3, Zenon DEF ReadPicture, Read, RowPieces, Closed
    <2>2. Make(F, body, Nat)
      <3> HIDE DEF body
      <3> QED
        BY <1>1, LinesMake
    <2>3. Make(<<u, v>>, size, Nat)
      <3>1. After(size, 2) = <<>>
        <4>1. Len(size) = IF 2 <= Min2(4, Len(p)) THEN Min2(4, Len(p)) - 2 ELSE 0
          <5>1. 2 \in Nat /\ 4 \in Nat
            OBVIOUS
          <5> QED
            BY <5>1, SliceTyped
        <4>2. \A m \in Nat : (IF 2 <= Min2(4, m) THEN Min2(4, m) - 2 ELSE 0) < 3
          BY DEF Min2
        <4> HIDE DEF size
        <4>3. 2 + 1 > Len(size)
          BY <1>1, <4>1, <4>2
        <4> QED
          BY <4>3, SubSeqEmpty DEF After
      <3> HIDE DEF size
      <3>2. Make(<<u, v>> \o <<>>, size, Nat)
        BY <1>1, <3>1, MakeNothing, HeadMakes
      <3>3. <<u, v>> \o <<>> = <<u, v>>
        <4>1. u \in Seq(Nat) /\ v \in Seq(Nat)
          BY <1>1, SliceTyped
        <4> HIDE DEF u, v
        <4>2. <<u, v>> \in Seq(Seq(Nat))
          BY <4>1
        <4> QED
          BY <4>2, ConcatEmptySeq
      <3> QED
        BY <3>2, <3>3
    <2>4. Make(<<u, v>> \o F, After(p, 2), Nat)
      <3>1. size \o body = After(p, 2)
        BY Cut
      <3> HIDE DEF size, body, u, v, F
      <3> QED
        BY <2>2, <2>3, <3>1, MakeTogether
    <2>5. Make(<<x, y>> \o (<<u, v>> \o F), p, Nat)
      <3> HIDE DEF u, v, F
      <3> QED
        BY <2>4, HeadMakes
    <2>6. <<x, y>> \o (<<u, v>> \o F) = <<x, y, u, v>> \o F
      <3> DEFINE Q == Seq(Nat)
      <3>1. x \in Q /\ y \in Q /\ u \in Q /\ v \in Q
        <4> HIDE DEF size
        <4> QED
          BY <1>1, SliceTyped
      <3>2. F \in Seq(Q)
        BY <2>2 DEF Make
      <3> HIDE DEF Q, x, y, u, v, F
      <3>3. <<x, y, u, v>> \o F = Then(x, Then(y, Then(u, Then(v, F))))
        BY <3>1, <3>2, FourStrung
      <3>4. <<u, v>> \o F = Then(u, Then(v, F))
        BY <3>1, <3>2, TwoStrung
      <3> DEFINE r == <<u, v>> \o F
      <3>5. r \in Seq(Q)
        <4>1. <<u, v>> \in Seq(Q)
          BY <3>1
        <4> QED
          BY <3>2, <4>1, ConcatProperties
      <3> HIDE DEF r
      <3>6. <<x, y>> \o r = Then(x, Then(y, r))
        BY <3>1, <3>5, TwoStrung
      <3> QED
        BY <3>3, <3>4, <3>6 DEF r
    <2> HIDE DEF x, y, u, v, F
    <2> QED
      BY <2>1, <2>5, <2>6
  <1> QED
    BY <1>2, <1>3

LEMMA PayloadMakes ==
  ASSUME NEW p \in Seq(Nat)
  PROVE  Make(DecodePayload(p).pieces, p, Nat)
  <1>1. CASE p = <<>>
    <2>1. DecodePayload(p) = Unread(p, <<>>)
      <3>1. First(p, -1) = -1
        BY <1>1 DEF First
      <3> QED
        BY <1>1, <3>1
        DEF DecodePayload, WriteText, WriteString, WriteDots, WriteSpecial
    <2>2. DecodePayload(p).pieces = <<>>
      BY <2>1 DEF Unread, Read
    <2> QED
      BY <1>1, <2>2, MakeNothing
  <1>2. CASE p # <<>>
    <2>1. \/ DecodePayload(p) = ReadMessage(p)
          \/ DecodePayload(p) = ReadValue(p)
          \/ DecodePayload(p) = ReadPicture(p)
          \/ DecodePayload(p) = ReadSpecial(p)
          \/ DecodePayload(p) = ReadOther(p)
      <3> DEFINE f == First(p, -1)
      <3>1. DecodePayload(p) =
              CASE p = <<>> -> Unread(p, <<>>)
                [] f = WriteText -> ReadMessage(p)
                [] f = WriteString -> ReadValue(p)
                [] f = WriteDots -> ReadPicture(p)
                [] f = WriteSpecial -> ReadSpecial(p)
                [] OTHER -> ReadOther(p)
        BY DEF DecodePayload
      <3> HIDE DEF f
      <3> QED
        BY <1>2, <3>1 DEF WriteText, WriteString, WriteDots, WriteSpecial
    <2> QED
      BY <2>1, ReadMessageMakes, ReadValueMakes, ReadPictureMakes, ReadSpecialMakes,
         ReadOtherMakes
  <1> QED
    BY <1>1, <1>2

-----------------------------------------------------------------------------
(* A whole frame.                                                          *)
EndOf(t) == IF t.truncated THEN Len(t.raw) ELSE Len(t.raw) - 1
PayloadOf(t) == Slice(t.raw, Len(Header), EndOf(t))
FramePieces(t) ==
  <<Slice(t.raw, 0, 1), Slice(t.raw, 1, 2), Slice(t.raw, 2, 4), Slice(t.raw, 4, 5)>>
    \o DecodePayload(PayloadOf(t)).pieces \o <<IF t.truncated THEN <<>> ELSE <<EOT>>>>

LEMMA EndMakes ==
  ASSUME NEW t \in Transmissions
  PROVE  /\ t.raw \in Seq(Nat) /\ EndOf(t) \in Nat /\ 5 <= EndOf(t)
         /\ Make(<<IF t.truncated THEN <<>> ELSE <<EOT>>>>, After(t.raw, EndOf(t)), Nat)
  <1> DEFINE raw == t.raw
             N == Len(raw)
             mark == IF t.truncated THEN <<>> ELSE <<EOT>>
  <1>1. /\ raw \in Seq(Nat) /\ N \in Nat /\ N >= 5
        /\ ~t.truncated => N >= 6 /\ raw[N] = EOT
    BY DEF Transmissions, IsTransmission
  <1> HIDE DEF raw
  <1>2. After(raw, EndOf(t)) = mark
    <2>1. CASE t.truncated
      <3>1. EndOf(t) = N /\ N + 1 > N
        BY <1>1, <2>1 DEF EndOf, raw
      <3>2. SubSeq(raw, N + 1, N) = <<>>
        BY <1>1, <3>1, SubSeqEmpty
      <3> QED
        BY <2>1, <3>1, <3>2 DEF After
    <2>2. CASE ~t.truncated
      <3>1. EndOf(t) = N - 1 /\ N - 1 + 1 = N /\ N - 1 \in Nat
        BY <1>1, <2>2 DEF EndOf, raw
      <3> DEFINE w == After(raw, N - 1)
      <3>2. /\ w \in Seq(Nat)
            /\ Len(w) = IF N - 1 <= Len(raw) THEN Len(raw) - (N - 1) ELSE 0
            /\ \A i \in 1 .. Len(w) : w[i] = raw[N - 1 + i]
        BY <1>1, <3>1, AfterTyped
      <3> HIDE DEF w
      <3>3. Len(w) = 1 /\ w[1] = raw[N]
        <4>1. Len(w) = 1
          BY <1>1, <3>2
        <4>2. 1 \in 1 .. Len(w)
          BY <4>1
        <4> QED
          BY <3>1, <3>2, <4>1, <4>2
      <3>4. <<EOT>> \in Seq(Nat) /\ Len(<<EOT>>) = 1 /\ <<EOT>>[1] = EOT
        BY DEF EOT
      <3>5. w = <<EOT>>
        BY <1>1, <2>2, <3>2, <3>3, <3>4
      <3> QED
        BY <2>2, <3>1, <3>5 DEF w
    <2> QED
      BY <2>1, <2>2
  <1>3. mark \in Seq(Nat)
    BY DEF EOT
  <1>4. EndOf(t) \in Nat /\ 5 <= EndOf(t)
    BY <1>1 DEF EndOf, raw
  <1> HIDE DEF mark
  <1>5. Make(<<mark>>, mark, Nat)
    BY <1>3, MakeOne
  <1> QED
    BY <1>1, <1>2, <1>4, <1>5 DEF mark, raw

LEMMA FrameMakes ==
  ASSUME NEW t \in Transmissions
  PROVE  Make(FramePieces(t), t.raw, Nat)
  <1> DEFINE s == t.raw
             to == EndOf(t)
             D == DecodePayload(PayloadOf(t)).pieces
             E == <<IF t.truncated THEN <<>> ELSE <<EOT>>>>
             a == Slice(s, 0, 1)
             b == Slice(s, 1, 2)
             c == Slice(s, 2, 4)
             d == Slice(s, 4, 5)
             head == <<a, b, c, d>>
             q == D \o E
  <1>1. s \in Seq(Nat) /\ to \in Nat /\ 5 <= to /\ Make(E, After(s, to), Nat)
    BY EndMakes
  <1>2. FramePieces(t) = (head \o D) \o E
    BY Zenon DEF FramePieces
  <1>3. PayloadOf(t) = Slice(s, 5, to)
    BY HeaderIsFive, Zenon DEF PayloadOf
  <1> HIDE DEF s, to, E
  <1>4. Make(D, Slice(s, 5, to), Nat)
    <2>1. Slice(s, 5, to) \in Seq(Nat)
      <3>1. 5 \in Nat
        OBVIOUS
      <3> QED
        BY <1>1, <3>1, SliceTyped
    <2> QED
      BY <1>3, <2>1, PayloadMakes
  <1> HIDE DEF D
  <1>5. Make(q, After(s, 5), Nat)
    <2>1. Slice(s, 5, to) \o After(s, to) = After(s, 5)
      <3>1. 5 \in Nat
        OBVIOUS
      <3> QED
        BY <1>1, <3>1, Cut
    <2> QED
      BY <1>1, <1>4, <2>1, MakeTogether
  <1>6. D \in Seq(Seq(Nat)) /\ E \in Seq(Seq(Nat)) /\ q \in Seq(Seq(Nat))
    BY <1>1, <1>4, <1>5 DEF Make
  <1>7. a \in Seq(Nat) /\ b \in Seq(Nat) /\ c \in Seq(Nat) /\ d \in Seq(Nat)
    BY <1>1, SliceTyped
  <1> HIDE DEF q
  <1>8. Make(Then(d, q), After(s, 4), Nat)
    BY <1>1, <1>5, ThenMakes
  <1> DEFINE q1 == Then(d, q)
             q2 == Then(c, q1)
             q3 == Then(b, q2)
  <1> HIDE DEF q1
  <1>9. Make(Then(c, q1), After(s, 2), Nat)
    BY <1>1, <1>8, ThenMakes DEF q1
  <1> HIDE DEF q2
  <1>10. Make(Then(b, q2), After(s, 1), Nat)
    BY <1>1, <1>9, ThenMakes DEF q2
  <1> HIDE DEF q3
  <1>11. Make(Then(a, q3), After(s, 0), Nat)
    BY <1>1, <1>10, ThenMakes DEF q3
  <1>12. After(s, 0) = s
    BY <1>1, AllOfIt
  <1> HIDE DEF a, b, c, d
  <1> DEFINE Q == Seq(Nat)
  <1>13. head \in Seq(Q)
    <2>1. a \in Q /\ b \in Q /\ c \in Q /\ d \in Q
      BY <1>7
    <2> HIDE DEF Q
    <2> QED
      BY <2>1
  <1>14. (head \o D) \o E = head \o q
    <2>1. D \in Seq(Q) /\ E \in Seq(Q)
      BY <1>6
    <2> HIDE DEF Q, head
    <2>2. (head \o D) \o E = head \o (D \o E)
      BY <1>13, <2>1, Associative
    <2> QED
      BY <2>2 DEF q
  <1>15. head \o q = Then(a, Then(b, Then(c, Then(d, q))))
    <2>1. a \in Q /\ b \in Q /\ c \in Q /\ d \in Q /\ q \in Seq(Q)
      BY <1>6, <1>7
    <2> HIDE DEF Q
    <2> QED
      BY <2>1, FourStrung
  <1>16. head \o q = Then(a, q3)
    BY <1>15 DEF q1, q2, q3
  <1> HIDE DEF head
  <1> QED
    BY <1>2, <1>11, <1>12, <1>14, <1>16 DEF s

LEMMA SpansMake ==
  ASSUME NEW q \in Seq(Seq(Nat)), NEW s, FlattenSeq(q) = s
  PROVE  LET spans == PlacedFrom(q, 0)
         IN /\ FlattenSeq([j \in DOMAIN spans |-> spans[j].data]) = s
            /\ \A j \in DOMAIN spans :
                 SubSeq(s, spans[j].at + 1, spans[j].at + Len(spans[j].data))
                   = spans[j].data
  <1> DEFINE spans == PlacedFrom(q, 0)
             before(i) == FlattenSeq(SubSeq(q, 1, i - 1))
             data == [j \in DOMAIN spans |-> spans[j].data]
  <1>1. /\ DOMAIN spans = DOMAIN q
        /\ \A i \in DOMAIN q :
             spans[i] = [at |-> 0 + Len(before(i)), data |-> q[i]]
    BY Zenon DEF PlacedFrom
  <1> HIDE DEF spans
  <1>2. \A i \in DOMAIN q : spans[i].at = 0 + Len(before(i)) /\ spans[i].data = q[i]
    <2> HIDE DEF before
    <2> QED
      BY <1>1
  <1>3. data = q
    <2> HIDE DEF before
    <2>1. data = [j \in DOMAIN q |-> q[j]]
      BY <1>1, <1>2
    <2> HIDE DEF data
    <2> QED
      BY <2>1
  <1>4. ASSUME NEW j \in DOMAIN q
        PROVE  SubSeq(s, spans[j].at + 1, spans[j].at + Len(spans[j].data)) = spans[j].data
    <2> DEFINE at == Len(before(j))
    <2>1. SubSeq(FlattenSeq(q), at + 1, at + Len(q[j])) = q[j]
      BY PiecesHaveTheirPlace
    <2>2. at \in Nat
      <3> DEFINE k == j - 1
      <3>1. k \in 0 .. Len(q) /\ 0 \in Nat /\ 0 + 1 = 1
        OBVIOUS
      <3>2. SubSeq(q, 1, k) \in Seq(Seq(Nat))
        <4> DEFINE Q == Seq(Nat)
        <4>1. q \in Seq(Q)
          OBVIOUS
        <4> HIDE DEF k, Q
        <4>2. SubSeq(q, 0 + 1, k) \in Seq(Q)
          BY <3>1, <4>1, Part
        <4> QED
          BY <3>1, <4>2 DEF Q
      <3> HIDE DEF k
      <3>3. FlattenSeq(SubSeq(q, 1, k)) \in Seq(Nat)
        <4> DEFINE u == SubSeq(q, 1, k)
        <4>1. <<>> \in Seq(Nat) /\ u \in Seq(Seq(Nat))
          BY <3>2
        <4> HIDE DEF u
        <4>2. FlattenSeq(u) \in Seq(Nat)
          BY <4>1, FlattenAppend
        <4> QED
          BY <4>2 DEF u
      <3>4. Len(FlattenSeq(SubSeq(q, 1, k))) \in Nat
        BY <3>3
      <3> QED
        BY <3>4 DEF k
    <2>3. spans[j].at = at /\ spans[j].data = q[j]
      <3> HIDE DEF before
      <3>1. spans[j].at = 0 + at /\ spans[j].data = q[j]
        BY <1>2
      <3> HIDE DEF at
      <3> QED
        BY <2>2, <3>1
    <2> HIDE DEF at
    <2> QED
      BY <2>1, <2>3
  <1> QED
    BY <1>1, <1>3, <1>4 DEF spans

LEMMA SpansCoverFrames ==
  ASSUME NEW t \in Transmissions
  PROVE  LET spans == Decode(t.raw, t.truncated).spans
         IN /\ FlattenSeq([j \in DOMAIN spans |-> spans[j].data]) = t.raw
            /\ \A j \in DOMAIN spans :
                 SubSeq(t.raw, spans[j].at + 1, spans[j].at + Len(spans[j].data))
                   = spans[j].data
  <1> DEFINE q == NonEmpty(FramePieces(t))
  <1>1. Decode(t.raw, t.truncated).spans = PlacedFrom(q, 0)
    BY Zenon DEF Decode, FramePieces, PayloadOf, EndOf
  <1>2. q \in Seq(Seq(Nat)) /\ FlattenSeq(q) = t.raw
    BY FrameMakes, NonEmptyMakes DEF Make
  <1> HIDE DEF q
  <1> QED
    BY <1>1, <1>2, SpansMake

-----------------------------------------------------------------------------
(* The sign.                                                               *)
SignFields ==
  {"configured", "table", "files", "strings", "pictures",
   "sequence", "priority", "time", "day", "format"}
IsSign(s) ==
  /\ s = [f \in SignFields |-> s[f]]
  /\ s.table \in Seq(FileEntries)

\* HeldWhereAllocated, of any sign.
Held(s) ==
  /\ \A l \in DOMAIN s.files : Exists(s, l)
  /\ \A l \in DOMAIN s.strings :
       IsOfType(s, l, StringFile) /\ Len(s.strings[l]) <= EntryOf(s, l).capacity
  /\ \A l \in DOMAIN s.pictures : IsOfType(s, l, DotsFile)

\* An empty write to the priority file, of what was decoded.
Releases(c) ==
  c.op = "text" /\ c.label = PriorityFile /\ c.body = <<>>
  /\ (c.som => c.position # <<>> /\ c.mode # <<>>)

\* What applying a command may make of a sign.
FollowsFrom(n, s, c) ==
  /\ IsSign(n) /\ Held(n)
  /\ s.priority # <<>> /\ n.priority = <<>> => Releases(c)

With(s, f, x) == [s EXCEPT ![f] = x]
Differs(n, s, f, x) ==
  IsSign(n) /\ n[f] = x /\ \A g \in SignFields \ {f} : n[g] = s[g]

LEMMA OneFieldChanged ==
  ASSUME NEW s, IsSign(s), NEW f \in SignFields, NEW x,
         f = "table" => x \in Seq(FileEntries)
  PROVE  Differs(With(s, f, x), s, f, x)
  <1> DEFINE n == With(s, f, x)
  <1>1. s = [g \in SignFields |-> s[g]] /\ s.table \in Seq(FileEntries)
    BY DEF IsSign
  <1>2. DOMAIN s = SignFields
    <2> HIDE DEF SignFields
    <2> QED
      BY <1>1
  <1>3. n = [g \in SignFields |-> n[g]] /\ n[f] = x
        /\ \A g \in SignFields \ {f} : n[g] = s[g]
    <2> HIDE DEF SignFields
    <2> QED
      BY <1>2 DEF With
  <1> HIDE DEF n
  <1>4. n["table"] \in Seq(FileEntries)
    <2>1. "table" \in SignFields
      BY DEF SignFields
    <2>2. CASE f = "table"
      BY <1>3, <2>2
    <2>3. CASE f # "table"
      BY <1>1, <1>3, <2>1, <2>3
    <2> QED
      BY <2>2, <2>3
  <1>5. IsSign(n)
    BY <1>1, <1>3, <1>4 DEF IsSign
  <1> QED
    BY <1>3, <1>5 DEF n, Differs

LEMMA BlankIsHeld == IsSign(Blank) /\ Held(Blank) /\ Blank.priority = <<>>
  <1>1. DOMAIN Blank = SignFields /\ Blank.table = <<>> /\ Blank.priority = <<>>
        /\ Blank.files = <<>> /\ Blank.strings = <<>> /\ Blank.pictures = <<>>
    BY DEF Blank, SignFields
  <1>2. IsSign(Blank)
    <2>1. Blank = [f \in SignFields |-> Blank[f]]
      BY DEF Blank, SignFields
    <2> QED
      BY <1>1, <2>1, EmptySeq DEF IsSign
  <1>3. Held(Blank)
    <2>1. DOMAIN <<>> = {}
      OBVIOUS
    <2> QED
      BY <1>1, <2>1 DEF Held
  <1> QED
    BY <1>1, <1>2, <1>3

\* What a sign holds is held where it is allocated whatever it plays.
LEMMA HeldAlike ==
  ASSUME NEW s, NEW n, Held(s),
         n.configured = s.configured, n.table = s.table, n.files = s.files,
         n.strings = s.strings, n.pictures = s.pictures
  PROVE  Held(n)
  <1>1. Labels(n) = Labels(s) /\ \A l : EntryOf(n, l) = EntryOf(s, l)
    BY DEF Labels, EntryOf
  <1>2. \A l, type : IsOfType(n, l, type) = IsOfType(s, l, type)
    BY <1>1 DEF IsOfType
  <1>3. \A l : Exists(n, l) = Exists(s, l)
    BY <1>2 DEF Exists
  <1> QED
    BY <1>1, <1>2, <1>3 DEF Held

LEMMA EntryIsThere ==
  ASSUME NEW s, IsSign(s), NEW l, NEW type, IsOfType(s, l, type)
  PROVE  EntryOf(s, l) \in FileEntries /\ EntryOf(s, l).capacity \in Nat
  <1>1. s.table \in Seq(FileEntries) /\ l \in Labels(s)
    BY DEF IsSign, IsOfType
  <1>2. PICK i \in DOMAIN s.table : s.table[i].label = l
    BY <1>1 DEF Labels
  <1>3. s.table[i] \in ToSet(s.table) /\ ToSet(s.table) \subseteq FileEntries
    BY <1>1, Elements
  <1>4. EntryOf(s, l) \in ToSet(s.table)
    BY <1>2, <1>3 DEF EntryOf
  <1> QED
    BY <1>3, <1>4 DEF FileEntries

\* Two signs with the same file table allocate alike.
LEMMA AllocatedAlike ==
  ASSUME NEW s, NEW n, n.table = s.table, n.configured = s.configured
  PROVE  /\ \A l : EntryOf(n, l) = EntryOf(s, l) /\ Exists(n, l) = Exists(s, l)
         /\ \A l, type : IsOfType(n, l, type) = IsOfType(s, l, type)
  <1>1. Labels(n) = Labels(s) /\ \A l : EntryOf(n, l) = EntryOf(s, l)
    BY DEF Labels, EntryOf
  <1>2. \A l, type : IsOfType(n, l, type) = IsOfType(s, l, type)
    BY <1>1 DEF IsOfType
  <1> QED
    BY <1>1, <1>2 DEF Exists

LEMMA WritePriorityFollows ==
  ASSUME NEW s, IsSign(s), Held(s), NEW c, IsDecoded(c), c.op = "text",
         ~c.malformed, c.label = PriorityFile
  PROVE  FollowsFrom(WritePriority(s, c).sign, s, c)
  <1>1. c.body \in Seq(Nat) /\ (c.som => c.position # <<>> /\ c.mode # <<>>)
    BY DEF IsDecoded
  <1> DEFINE up == IF c.body = <<>> THEN <<>> ELSE Slice(c.body, 0, PriorityCapacity)
             n == With(s, "priority", up)
  <1>2. WritePriority(s, c).sign = n
    BY DEF WritePriority, Outcome, With
  <1>3. up = <<>> => c.body = <<>>
    <2> SUFFICES ASSUME c.body # <<>> PROVE Slice(c.body, 0, PriorityCapacity) # <<>>
      OBVIOUS
    <2>1. PriorityCapacity \in Nat /\ PriorityCapacity >= 1
      BY FramesAssumption
    <2>2. Len(c.body) \in Nat /\ Len(c.body) >= 1
      BY <1>1
    <2>3. Min2(PriorityCapacity, Len(c.body)) >= 1
          /\ Min2(PriorityCapacity, Len(c.body)) \in Nat
      BY <2>1, <2>2 DEF Min2
    <2>4. Len(Slice(c.body, 0, PriorityCapacity)) >= 1
      <3>1. Len(Slice(c.body, 0, PriorityCapacity)) =
              IF 0 <= Min2(PriorityCapacity, Len(c.body))
                THEN Min2(PriorityCapacity, Len(c.body)) - 0 ELSE 0
        BY <1>1, <2>1, SliceTyped
      <3> QED
        BY <2>3, <3>1
    <2>5. Len(<<>>) = 0
      OBVIOUS
    <2> QED
      BY <2>4, <2>5
  <1> HIDE DEF up
  <1>4. IsSign(n) /\ n["priority"] = up /\ \A g \in SignFields \ {"priority"} : n[g] = s[g]
    <2>1. "priority" \in SignFields
      BY DEF SignFields
    <2> QED
      BY <2>1, OneFieldChanged DEF Differs
  <1> HIDE DEF n
  <1>5. n.configured = s.configured /\ n.table = s.table /\ n.files = s.files
        /\ n.strings = s.strings /\ n.pictures = s.pictures /\ n.priority = up
    BY <1>4 DEF SignFields
  <1>6. Held(n)
    BY <1>5, HeldAlike
  <1>7. n.priority = <<>> => Releases(c)
    BY <1>1, <1>3, <1>5 DEF Releases
  <1> QED
    BY <1>2, <1>4, <1>6, <1>7 DEF FollowsFrom

LEMMA WriteTextFollows ==
  ASSUME NEW s, IsSign(s), Held(s), NEW c, IsDecoded(c), c.op = "text", ~c.malformed
  PROVE  FollowsFrom(WriteTextFile(s, c).sign, s, c)
  <1>1. CASE c.label = PriorityFile
    <2>1. WriteTextFile(s, c).sign = WritePriority(s, c).sign
      BY <1>1 DEF WriteTextFile, Outcome
    <2> QED
      BY <1>1, <2>1, WritePriorityFollows
  <1>2. CASE c.label # PriorityFile /\ ~Writable(s, c.label)
    <2>1. WriteTextFile(s, c).sign = s
      BY <1>2 DEF WriteTextFile, Outcome
    <2> QED
      BY <2>1 DEF FollowsFrom
  <1>3. CASE c.label # PriorityFile /\ Writable(s, c.label)
    <2> DEFINE l == c.label
               new == Put(s.files, l, Stored(s, c))
               n == With(s, "files", new)
    <2>1. WriteTextFile(s, c).sign = n
      BY <1>3 DEF WriteTextFile, Outcome, With
    <2>2. DOMAIN new = DOMAIN s.files \cup {l}
      BY DEF Put
    <2>3. Exists(s, l)
      BY <1>3 DEF Writable
    <2> HIDE DEF new
    <2>4. IsSign(n) /\ n["files"] = new /\ \A g \in SignFields \ {"files"} : n[g] = s[g]
      <3>1. "files" \in SignFields
        BY DEF SignFields
      <3> QED
        BY <3>1, OneFieldChanged DEF Differs
    <2> HIDE DEF n
    <2>5. n.configured = s.configured /\ n.table = s.table /\ n.files = new
          /\ n.strings = s.strings /\ n.pictures = s.pictures /\ n.priority = s.priority
      BY <2>4 DEF SignFields
    <2>6. Held(n)
      <3>1. /\ \A k : EntryOf(n, k) = EntryOf(s, k) /\ Exists(n, k) = Exists(s, k)
            /\ \A k, type : IsOfType(n, k, type) = IsOfType(s, k, type)
        BY <2>5, AllocatedAlike
      <3> QED
        BY <2>2, <2>3, <2>5, <3>1 DEF Held
    <2> QED
      BY <2>1, <2>4, <2>5, <2>6 DEF FollowsFrom
  <1> QED
    BY <1>1, <1>2, <1>3

LEMMA WriteStringFollows ==
  ASSUME NEW s, IsSign(s), Held(s), NEW c, IsDecoded(c), c.op = "string"
  PROVE  FollowsFrom(WriteStringFile(s, c).sign, s, c)
  <1> DEFINE l == c.label
             fits == ~(Len(c.body) > EntryOf(s, l).capacity)
             content == IF fits THEN c.body ELSE <<>>
             new == Put(s.strings, l, content)
             n == With(s, "strings", new)
  <1>1. CASE ~IsOfType(s, l, StringFile)
    <2>1. WriteStringFile(s, c).sign = s
      BY <1>1 DEF WriteStringFile, Outcome
    <2> QED
      BY <2>1 DEF FollowsFrom
  <1>2. CASE IsOfType(s, l, StringFile)
    <2>1. WriteStringFile(s, c).sign = n
      BY <1>2 DEF WriteStringFile, Outcome, With
    <2>2. EntryOf(s, l).capacity \in Nat
      BY <1>2, EntryIsThere
    <2>3. Len(content) <= EntryOf(s, l).capacity
      <3>1. c.body \in Seq(Nat)
        BY DEF IsDecoded
      <3>2. Len(c.body) \in Nat /\ Len(<<>>) = 0
        BY <3>1
      <3> QED
        BY <2>2, <3>2
    <2> HIDE DEF content
    <2>4. /\ DOMAIN new = DOMAIN s.strings \cup {l} /\ new[l] = content
          /\ \A k \in DOMAIN s.strings \ {l} : new[k] = s.strings[k]
      BY DEF Put
    <2> HIDE DEF new
    <2>5. IsSign(n) /\ n["strings"] = new /\ \A g \in SignFields \ {"strings"} : n[g] = s[g]
      <3>1. "strings" \in SignFields
        BY DEF SignFields
      <3> QED
        BY <3>1, OneFieldChanged DEF Differs
    <2> HIDE DEF n
    <2>6. n.configured = s.configured /\ n.table = s.table /\ n.files = s.files
          /\ n.strings = new /\ n.pictures = s.pictures /\ n.priority = s.priority
      BY <2>5 DEF SignFields
    <2>7. Held(n)
      <3>1. /\ \A k : EntryOf(n, k) = EntryOf(s, k) /\ Exists(n, k) = Exists(s, k)
            /\ \A k, type : IsOfType(n, k, type) = IsOfType(s, k, type)
        BY <2>6, AllocatedAlike
      <3> QED
        BY <1>2, <2>3, <2>4, <2>6, <3>1 DEF Held
    <2> QED
      BY <2>1, <2>5, <2>6, <2>7 DEF FollowsFrom
  <1> QED
    BY <1>1, <1>2

LEMMA WriteDotsFollows ==
  ASSUME NEW s, IsSign(s), Held(s), NEW c
  PROVE  FollowsFrom(WriteDotsFile(s, c).sign, s, c)
  <1> DEFINE l == c.label
             new == Put(s.pictures, l, c.rows)
             n == With(s, "pictures", new)
  <1>1. CASE ~IsOfType(s, l, DotsFile)
    <2>1. WriteDotsFile(s, c).sign = s
      BY <1>1 DEF WriteDotsFile, Outcome
    <2> QED
      BY <2>1 DEF FollowsFrom
  <1>2. CASE IsOfType(s, l, DotsFile)
    <2>1. WriteDotsFile(s, c).sign = n
      BY <1>2 DEF WriteDotsFile, Outcome, With
    <2>2. DOMAIN new = DOMAIN s.pictures \cup {l}
      BY DEF Put
    <2> HIDE DEF new
    <2>3. IsSign(n) /\ n["pictures"] = new /\ \A g \in SignFields \ {"pictures"} : n[g] = s[g]
      <3>1. "pictures" \in SignFields
        BY DEF SignFields
      <3> QED
        BY <3>1, OneFieldChanged DEF Differs
    <2> HIDE DEF n
    <2>4. n.configured = s.configured /\ n.table = s.table /\ n.files = s.files
          /\ n.strings = s.strings /\ n.pictures = new /\ n.priority = s.priority
      BY <2>3 DEF SignFields
    <2>5. Held(n)
      <3>1. /\ \A k : EntryOf(n, k) = EntryOf(s, k) /\ Exists(n, k) = Exists(s, k)
            /\ \A k, type : IsOfType(n, k, type) = IsOfType(s, k, type)
        BY <2>4, AllocatedAlike
      <3> QED
        BY <1>2, <2>2, <2>4, <3>1 DEF Held
    <2> QED
      BY <2>1, <2>3, <2>4, <2>5 DEF FollowsFrom
  <1> QED
    BY <1>1, <1>2

\* A sign whose files are gone holds nothing.
Emptied(s, configured, table) ==
  [Erased(s) EXCEPT !.configured = configured, !.table = table]
LEMMA EmptiedFollows ==
  ASSUME NEW s, IsSign(s), NEW configured, NEW table \in Seq(FileEntries), NEW c
  PROVE  FollowsFrom(Emptied(s, configured, table), s, c)
  <1>1. /\ "files" \in SignFields /\ "strings" \in SignFields /\ "pictures" \in SignFields
        /\ "configured" \in SignFields /\ "table" \in SignFields
    BY DEF SignFields
  <1>2. PICK n1 : n1 = With(s, "files", <<>>)
    OBVIOUS
  <1>3. Differs(n1, s, "files", <<>>)
    BY <1>1, <1>2, OneFieldChanged
  <1>4. PICK n2 : n2 = With(n1, "strings", <<>>)
    OBVIOUS
  <1>5. Differs(n2, n1, "strings", <<>>)
    <2>1. IsSign(n1)
      BY <1>3 DEF Differs
    <2> QED
      BY <1>1, <1>4, <2>1, OneFieldChanged
  <1>6. PICK n3 : n3 = With(n2, "pictures", <<>>)
    OBVIOUS
  <1>7. Differs(n3, n2, "pictures", <<>>)
    <2>1. IsSign(n2)
      BY <1>5 DEF Differs
    <2> QED
      BY <1>1, <1>6, <2>1, OneFieldChanged
  <1>8. PICK n4 : n4 = With(n3, "configured", configured)
    OBVIOUS
  <1>9. Differs(n4, n3, "configured", configured)
    <2>1. IsSign(n3)
      BY <1>7 DEF Differs
    <2> QED
      BY <1>1, <1>8, <2>1, OneFieldChanged
  <1>10. PICK n5 : n5 = With(n4, "table", table)
    OBVIOUS
  <1>11. Differs(n5, n4, "table", table)
    <2>1. IsSign(n4)
      BY <1>9 DEF Differs
    <2> QED
      BY <1>1, <1>10, <2>1, OneFieldChanged
  <1>12. /\ IsSign(n5) /\ n5.files = <<>> /\ n5.strings = <<>> /\ n5.pictures = <<>>
         /\ n5.priority = s.priority
    BY <1>3, <1>5, <1>7, <1>9, <1>11 DEF SignFields, Differs
  <1>13. Held(n5)
    <2>1. DOMAIN <<>> = {}
      OBVIOUS
    <2> QED
      BY <1>12, <2>1 DEF Held
  <1>14. Emptied(s, configured, table) = n5
    BY <1>2, <1>4, <1>6, <1>8, <1>10, Zenon DEF Emptied, Erased, With
  <1> QED
    BY <1>12, <1>13, <1>14 DEF FollowsFrom

LEMMA SetMemoryFollows ==
  ASSUME NEW s, IsSign(s), NEW c, IsDecoded(c), c.op = "configure"
  PROVE  FollowsFrom(SetMemoryConfig(s, c).sign, s, c)
  <1> DEFINE table == Table(c.entries)
             first == {i \in DOMAIN c.entries :
                         \A j \in 1 .. i - 1 : c.entries[j].label # c.entries[i].label}
  <1>1. c.entries \in Seq(FileEntries)
    BY DEF IsDecoded
  <1>2. table = Chosen(c.entries, first)
    BY DEF Table
  <1>3. table \in Seq(FileEntries)
    <2> HIDE DEF first
    <2> QED
      BY <1>1, <1>2, ChosenAreThere
  <1>4. SetMemoryConfig(s, c).sign = Emptied(s, TRUE, table)
    BY Zenon DEF SetMemoryConfig, Outcome, Emptied
  <1> HIDE DEF table
  <1> QED
    BY <1>3, <1>4, EmptiedFollows

LEMMA ClearMemoryFollows ==
  ASSUME NEW s, IsSign(s), NEW c
  PROVE  FollowsFrom(ClearMemory(s).sign, s, c)
  <1>1. ClearMemory(s).sign = Emptied(s, FALSE, <<>>)
    BY Zenon DEF ClearMemory, Outcome, Emptied
  <1>2. <<>> \in Seq(FileEntries)
    BY EmptySeq
  <1> QED
    BY <1>1, <1>2, EmptiedFollows

\* What a sign plays, and its clock, have no bearing on what it holds.
LEMMA PlainChangeFollows ==
  ASSUME NEW s, IsSign(s), Held(s), NEW c, NEW x,
         NEW f \in {"sequence", "time", "day", "format"}
  PROVE  FollowsFrom(With(s, f, x), s, c)
  <1> DEFINE n == With(s, f, x)
  <1>1. IsSign(n) /\ \A g \in SignFields \ {f} : n[g] = s[g]
    <2>1. f \in SignFields /\ f # "table"
      BY DEF SignFields
    <2> QED
      BY <2>1, OneFieldChanged DEF Differs
  <1> HIDE DEF n
  <1>2. n.configured = s.configured /\ n.table = s.table /\ n.files = s.files
        /\ n.strings = s.strings /\ n.pictures = s.pictures /\ n.priority = s.priority
    BY <1>1 DEF SignFields
  <1>3. Held(n)
    BY <1>2, HeldAlike
  <1>4. FollowsFrom(n, s, c)
    BY <1>1, <1>2, <1>3 DEF FollowsFrom
  <1> QED
    BY <1>4 DEF n

(* Whatever was read, the sign holds nothing it has no place for, and an   *)
(* alert is ended by its release only.                                     *)
LEMMA ApplyFollows ==
  ASSUME NEW s, IsSign(s), Held(s), NEW c, IsDecoded(c)
  PROVE  FollowsFrom(Apply(s, c).sign, s, c)
  <1> DEFINE n == Apply(s, c).sign
  <1>1. FollowsFrom(s, s, c)
    BY DEF FollowsFrom
  <1>2. CASE c.malformed
    <2>1. n = s
      BY <1>2 DEF Apply, IsTooIncomplete, Outcome
    <2> HIDE DEF n
    <2> QED
      BY <1>1, <2>1 DEF n
  <1>3. CASE ~c.malformed
    <2>1. \/ c.op = "text" /\ n = WriteTextFile(s, c).sign
          \/ c.op = "string" /\ n = WriteStringFile(s, c).sign
          \/ c.op = "dots" /\ n = WriteDotsFile(s, c).sign
          \/ c.op = "configure" /\ n = SetMemoryConfig(s, c).sign
          \/ c.op = "wipe" /\ n = ClearMemory(s).sign
          \/ c.op = "sequence" /\ n = With(s, "sequence", c.labels)
          \/ c.op = "time" /\ n = With(s, "time", c.body)
          \/ c.op = "day" /\ n = With(s, "day", c.body)
          \/ c.op = "format" /\ n = With(s, "format", c.body)
          \/ n = s
      <3>1. Apply(s, c) =
              CASE c.op = "text" -> WriteTextFile(s, c)
                [] c.op = "string" -> WriteStringFile(s, c)
                [] c.op = "dots" -> WriteDotsFile(s, c)
                [] c.op = "configure" -> SetMemoryConfig(s, c)
                [] c.op = "wipe" -> ClearMemory(s)
                [] c.op = "sequence" -> SetRunSequence(s, c)
                [] c.op = "time" ->
                     Outcome(With(s, "time", c.body), {Note("info", "clock")})
                [] c.op = "day" -> Outcome(With(s, "day", c.body), {Note("info", "day")})
                [] c.op = "format" ->
                     Outcome(With(s, "format", c.body), {Note("info", "format")})
                [] OTHER -> Outcome(s, {})
        BY <1>3, Zenon DEF Apply, IsTooIncomplete, With
      <3>2. SetRunSequence(s, c).sign = With(s, "sequence", c.labels)
        BY Zenon DEF SetRunSequence, Outcome, With
      <3>3. \A t, notes : Outcome(t, notes).sign = t
        BY DEF Outcome
      <3> QED
        BY <3>1, <3>2, <3>3
    <2> HIDE DEF n
    <2>2. FollowsFrom(n, s, c)
      BY <1>1, <1>3, <2>1, WriteTextFollows, WriteStringFollows, WriteDotsFollows,
         SetMemoryFollows, ClearMemoryFollows, PlainChangeFollows
    <2> QED
      BY <2>2 DEF n
  <1>4. c.malformed \in BOOLEAN
    BY DEF IsDecoded
  <1> QED
    BY <1>2, <1>3, <1>4

\* What the sign makes of one transmission, and of so many of them.
Effect(s, t) == Apply(s, Decode(t.raw, t.truncated).command)
Applies(s, found, N, g) ==
  g = [n \in 0 .. N |->
         IF n = 0 THEN Outcome(s, {}) ELSE Effect(g[n - 1].sign, found[n])]

LEMMA AppliedIs ==
  ASSUME NEW s, NEW found \in Seq(Transmissions)
  PROVE  \E g : Applies(s, found, Len(found), g) /\ Applied(s, found) = g[Len(found)]
  <1> DEFINE N == Len(found)
             T == {n \in 0 .. N : \E g : Applies(s, found, n, g)}
  <1>1. N \in Nat
    OBVIOUS
  <1>2. 0 \in T
    <2> DEFINE g == [k \in 0 .. 0 |-> Outcome(s, {})]
    <2>1. g = [k \in 0 .. 0 |->
                 IF k = 0 THEN Outcome(s, {}) ELSE Effect(g[k - 1].sign, found[k])]
      <3>1. \A k \in 0 .. 0 : k = 0
        OBVIOUS
      <3> QED
        BY <3>1
    <2> HIDE DEF g
    <2>2. Applies(s, found, 0, g)
      BY <2>1 DEF Applies
    <2> QED
      BY <1>1, <2>2
  <1>3. ASSUME NEW n \in 1 .. N, n - 1 \in T PROVE n \in T
    <2>1. PICK g : Applies(s, found, n - 1, g)
      BY <1>3
    <2> DEFINE x == Effect(g[n - 1].sign, found[n])
               h == [k \in 0 .. n |-> IF k = n THEN x ELSE g[k]]
    <2>2. n \in Nat /\ n >= 1 /\ n \in 0 .. N
      BY <1>1
    <2>3. \A k \in 0 .. n - 1 :
            g[k] = IF k = 0 THEN Outcome(s, {}) ELSE Effect(g[k - 1].sign, found[k])
      BY <2>1 DEF Applies
    <2> HIDE DEF x
    <2>4. h[n] = x /\ \A k \in 0 .. n - 1 : h[k] = g[k]
      BY <2>2
    <2>5. ASSUME NEW k \in 0 .. n
          PROVE  h[k] = IF k = 0 THEN Outcome(s, {}) ELSE Effect(h[k - 1].sign, found[k])
      <3> HIDE DEF h
      <3>1. CASE k = n
        <4>1. h[k - 1] = g[n - 1]
          BY <2>2, <2>4, <3>1
        <4> QED
          BY <2>2, <2>4, <3>1, <4>1 DEF x
      <3>2. CASE k # n /\ k # 0
        <4>1. k \in 0 .. n - 1 /\ k - 1 \in 0 .. n - 1
          BY <2>2, <3>2
        <4>2. h[k] = g[k] /\ h[k - 1] = g[k - 1]
          BY <2>4, <4>1
        <4> QED
          BY <2>3, <3>2, <4>1, <4>2
      <3>3. CASE k = 0
        <4>1. k \in 0 .. n - 1
          BY <2>2, <3>3
        <4> QED
          BY <2>3, <2>4, <3>3, <4>1
      <3> QED
        BY <3>1, <3>2, <3>3
    <2>6. h = [k \in 0 .. n |->
                 IF k = 0 THEN Outcome(s, {}) ELSE Effect(h[k - 1].sign, found[k])]
      BY <2>5
    <2> HIDE DEF h
    <2>7. Applies(s, found, n, h)
      BY <2>6 DEF Applies
    <2> QED
      BY <2>2, <2>7
  <1>4. 0 .. N \subseteq T
    <2> HIDE DEF T
    <2> QED
      BY <1>1, <1>2, <1>3, IntervalInduction
  <1>5. N \in T
    BY <1>1, <1>4
  <1>6. PICK g : Applies(s, found, N, g)
    BY <1>5
  <1>7. Applied(s, found) = (CHOOSE h : Applies(s, found, N, h))[N]
    BY Zenon DEF Applied, Applies, Effect
  <1>8. Applies(s, found, N, CHOOSE h : Applies(s, found, N, h))
    BY <1>6, Zenon
  <1> QED
    BY <1>7, <1>8, Zenon

-----------------------------------------------------------------------------
(* What reads as a release: the bytes of an empty write, and no others.    *)
LEMMA SpecialsAreNoTexts ==
  ASSUME NEW p \in Seq(Nat)
  PROVE  ReadSpecial(p).command.op # "text"
  <1> DEFINE head == <<Slice(p, 0, 1), Slice(p, 1, 2)>>
             parameter == After(p, 2)
             r == ReadSpecial(p)
             clock(op, sound, placeholder, read) ==
               ReadClock(op, parameter, sound, placeholder, read, head)
  <1>1. ASSUME NEW entries PROVE Configuration(entries).op = "configure"
    BY DEF Configuration, Nothing
  <1>2. Wipe.op = "wipe"
    BY DEF Wipe, Nothing
  <1>3. ReadConfiguration(parameter, head).command.op # "text"
    BY <1>1, <1>2 DEF ReadConfiguration, Read
  <1>4. ReadSequence(parameter, head).command.op # "text"
    BY DEF ReadSequence, Read, Sequence, Nothing
  <1>5. ASSUME NEW op \in {"time", "day", "format"}, NEW sound, NEW placeholder, NEW read
        PROVE  clock(op, sound, placeholder, read).command.op # "text"
    <2> DEFINE c == [Clock(op, IF sound THEN read ELSE placeholder) EXCEPT !.malformed = ~sound]
    <2>1. clock(op, sound, placeholder, read).command = c
      BY DEF ReadClock, Read
    <2>2. c.op = op
      BY DEF Clock, Nothing
    <2> HIDE DEF c, clock
    <2> QED
      BY <2>1, <2>2
  <1>6. ASSUME NEW shown PROVE Unread(p, shown).command.op # "text"
    BY DEF Unread, Read, Nothing
  <1>7. r = IF Len(p) < 2 THEN Unread(p, <<p>>)
            ELSE CASE p[2] = SetMemory -> ReadConfiguration(parameter, head)
                   [] p[2] = SetSequence -> ReadSequence(parameter, head)
                   [] p[2] = SetTime ->
                        clock("time", IsTime(parameter), <<0, 0>>, Numbers(parameter))
                   [] p[2] = SetDay ->
                        clock("day", IsDay(parameter), <<0>>, Numbers(parameter))
                   [] p[2] = SetFormat ->
                        clock("format", parameter \in Formats, <<83>>, parameter)
                   [] OTHER -> Unread(p, head \o Annotate(parameter))
    BY Zenon DEF ReadSpecial
  <1> HIDE DEF r, clock, head, parameter
  <1>8. \/ r = Unread(p, <<p>>)
        \/ r = ReadConfiguration(parameter, head)
        \/ r = ReadSequence(parameter, head)
        \/ r = clock("time", IsTime(parameter), <<0, 0>>, Numbers(parameter))
        \/ r = clock("day", IsDay(parameter), <<0>>, Numbers(parameter))
        \/ r = clock("format", parameter \in Formats, <<83>>, parameter)
        \/ r = Unread(p, head \o Annotate(parameter))
    BY <1>7 DEF SetMemory, SetSequence, SetTime, SetDay, SetFormat
  <1>9. r.command.op # "text"
    BY <1>3, <1>4, <1>5, <1>6, <1>8
  <1> QED
    BY <1>9 DEF r

LEMMA OnlyMessagesAreTexts ==
  ASSUME NEW p \in Seq(Nat), DecodePayload(p).command.op = "text"
  PROVE  DecodePayload(p) = ReadMessage(p) /\ p # <<>> /\ p[1] = WriteText
  <1> DEFINE r == DecodePayload(p)
  <1>1. ASSUME NEW shown PROVE Unread(p, shown).command.op # "text"
    BY DEF Unread, Read, Nothing
  <1>2. ReadOther(p).command.op # "text"
    BY <1>1 DEF ReadOther
  <1>3. ReadValue(p).command.op # "text"
    <2>1. ASSUME NEW l, NEW body PROVE Value(l, body).op = "string"
      BY DEF Value, Nothing
    <2> QED
      BY <1>1, <2>1 DEF ReadValue, Read
  <1>4. ReadPicture(p).command.op # "text"
    <2> DEFINE c(rows, size) == [Nothing EXCEPT !.op = "dots", !.label = p[2],
                                   !.rows = rows, !.size = size]
    <2>1. ASSUME NEW rows, NEW size PROVE c(rows, size).op = "dots"
      BY DEF Nothing
    <2>2. \/ \E shown : ReadPicture(p) = Unread(p, shown)
          \/ \E rows, size : ReadPicture(p).command = c(rows, size)
      BY DEF ReadPicture, Read
    <2> HIDE DEF c
    <2> QED
      BY <1>1, <2>1, <2>2
  <1>5. ReadSpecial(p).command.op # "text"
    BY SpecialsAreNoTexts
  <1>6. r = CASE p = <<>> -> Unread(p, <<>>)
              [] First(p, -1) = WriteText -> ReadMessage(p)
              [] First(p, -1) = WriteString -> ReadValue(p)
              [] First(p, -1) = WriteDots -> ReadPicture(p)
              [] First(p, -1) = WriteSpecial -> ReadSpecial(p)
              [] OTHER -> ReadOther(p)
    BY Zenon DEF DecodePayload
  <1>7. p # <<>> => First(p, -1) = p[1]
    BY DEF First
  <1>8. First(<<>>, -1) # WriteText
    BY DEF First, WriteText
  <1>9. r.command.op = "text"
    OBVIOUS
  <1> HIDE DEF r
  <1>10. \/ r = Unread(p, <<>>) \/ r = ReadValue(p) \/ r = ReadPicture(p)
         \/ r = ReadSpecial(p) \/ r = ReadOther(p)
         \/ r = ReadMessage(p) /\ First(p, -1) = WriteText
    BY <1>6 DEF WriteText, WriteString, WriteDots, WriteSpecial
  <1>11. r = ReadMessage(p) /\ First(p, -1) = WriteText
    BY <1>1, <1>2, <1>3, <1>4, <1>5, <1>9, <1>10
  <1>12. p # <<>>
    BY <1>8, <1>11
  <1> QED
    BY <1>7, <1>11, <1>12 DEF r

LEMMA OneOrTwoMore ==
  ASSUME NEW n \in Nat, NEW m, m = 1 \/ m = 2, n <= 2 + m, n >= 3
  PROVE  n \in {3, 4} /\ (n = 4 => m = 2)
  OBVIOUS

LEMMA EmptyMessagesAreShort ==
  ASSUME NEW p \in Seq(Nat), p # <<>>, p[1] = WriteText,
         Releases(ReadMessage(p).command)
  PROVE  IsEmptyWrite(p)
  <1> DEFINE rest == After(p, 2)
             som == First(rest, -1) = SOM
             modeLength == IF Slice(rest, 2, 3) = <<SpecialMode>> THEN 2 ELSE 1
             position == IF som THEN Slice(rest, 1, 2) ELSE <<>>
             mode == IF som THEN Slice(rest, 2, 2 + modeLength) ELSE <<>>
             body == IF som THEN After(rest, 2 + modeLength) ELSE rest
             bad == som /\ (position = <<>> \/ mode = <<>>)
             c == [Nothing EXCEPT !.op = "text", !.label = p[2], !.som = som,
                     !.malformed = bad, !.position = position, !.mode = mode,
                     !.body = body]
  <1>1. ~(Len(p) < 2)
    <2>1. SUFFICES ASSUME Len(p) < 2 PROVE FALSE
      OBVIOUS
    <2>2. ReadMessage(p).command = Nothing
      BY <2>1 DEF ReadMessage, Unread, Read
    <2> QED
      BY <2>2 DEF Releases, Nothing
  <1>2. ReadMessage(p).command = c
    BY <1>1, Zenon DEF ReadMessage, Read
  <1>3. c.label = p[2] /\ c.som = som /\ c.position = position /\ c.mode = mode
        /\ c.body = body
    <2> HIDE DEF som, position, mode, body, bad
    <2> QED
      BY DEF Nothing
  <1> HIDE DEF c
  <1>4. p[2] = PriorityFile /\ body = <<>> /\ (som => mode # <<>>)
    BY <1>2, <1>3 DEF Releases
  <1>5. /\ rest \in Seq(Nat) /\ Len(p) \in Nat /\ Len(rest) = Len(p) - 2
        /\ \A i \in 1 .. Len(rest) : rest[i] = p[2 + i]
    BY <1>1, AfterTyped
  <1>6. modeLength \in {1, 2} /\ 2 + modeLength \in Nat
    OBVIOUS
  <1> HIDE DEF rest
  <1>7. CASE ~som
    <2>1. rest = <<>>
      BY <1>4, <1>7
    <2>2. p[2] = PriorityFile
      BY <1>4
    <2> HIDE DEF som, position, mode, body, bad
    <2>3. Len(p) = 2
      BY <1>5, <2>1
    <2> QED
      BY <2>2, <2>3 DEF IsEmptyWrite
  <1>8. CASE som
    <2>1. rest # <<>> /\ rest[1] = SOM
      BY <1>8 DEF First, SOM
    <2>2. p[3] = SOM
      <3>1. 1 \in 1 .. Len(rest)
        BY <1>5, <2>1
      <3> QED
        BY <1>5, <2>1, <3>1
    <2>3. modeLength = 2 => Len(rest) >= 3 /\ rest[3] = SpecialMode
      <3> DEFINE q == Slice(rest, 2, 3)
      <3>1. modeLength = 2 => q = <<SpecialMode>>
        OBVIOUS
      <3> HIDE DEF modeLength
      <3>2. /\ Len(q) = IF 2 <= Min2(3, Len(rest)) THEN Min2(3, Len(rest)) - 2 ELSE 0
            /\ \A i \in 1 .. Len(q) : q[i] = rest[2 + i]
        <4>1. rest \in Seq(Nat) /\ 2 \in Nat /\ 3 \in Nat
          BY <1>5
        <4> HIDE DEF som, position, mode, body, bad
        <4> QED
          BY <4>1, SliceTyped, Zenon
      <3>3. q = <<SpecialMode>> => Len(q) = 1 /\ q[1] = SpecialMode
        OBVIOUS
      <3> HIDE DEF q
      <3> QED
        BY <1>5, <3>1, <3>2, <3>3 DEF Min2
    <2> HIDE DEF modeLength
    <2>4. Len(rest) <= 2 + modeLength
      <3>1. After(rest, 2 + modeLength) = <<>>
        BY <1>4, <1>8
      <3>2. Len(After(rest, 2 + modeLength))
              = IF 2 + modeLength <= Len(rest) THEN Len(rest) - (2 + modeLength) ELSE 0
        BY <1>5, <1>6, AfterTyped
      <3> QED
        BY <1>5, <1>6, <3>1, <3>2
    <2>5. Len(rest) >= 3
      <3> DEFINE q == Slice(rest, 2, 2 + modeLength)
      <3>1. q # <<>> /\ q \in Seq(Nat)
        BY <1>4, <1>5, <1>6, <1>8, SliceTyped
      <3>2. Len(q) = (IF 2 <= Min2(2 + modeLength, Len(rest))
                        THEN Min2(2 + modeLength, Len(rest)) - 2 ELSE 0)
        BY <1>5, <1>6, SliceTyped
      <3> HIDE DEF q
      <3>3. Len(q) # 0
        BY <3>1
      <3> QED
        BY <1>5, <1>6, <3>2, <3>3 DEF Min2
    <2>6. Len(p) \in {5, 6} /\ (Len(p) = 6 => p[5] = SpecialMode)
      <3>1. 3 \in 1 .. Len(rest) => rest[3] = p[2 + 3]
        BY <1>5
      <3>2. Len(rest) \in Nat /\ Len(rest) = Len(p) - 2 /\ Len(p) \in Nat
        BY <1>5
      <3>3. Len(rest) \in {3, 4} /\ (Len(rest) = 4 => modeLength = 2)
        BY <1>6, <2>4, <2>5, <3>2, OneOrTwoMore
      <3>4. rest[3] = p[5]
        BY <3>1, <3>3
      <3> QED
        BY <2>3, <3>2, <3>3, <3>4
    <2> QED
      BY <1>4, <2>2, <2>6 DEF IsEmptyWrite
  <1> QED
    BY <1>7, <1>8

LEMMA ReleasesAreEmptyWrites ==
  ASSUME NEW t \in Transmissions, Releases(Decode(t.raw, t.truncated).command)
  PROVE  IsEmptyWrite(Bytes(t))
  <1> DEFINE p == Bytes(t)
  <1>1. t.raw \in Seq(Nat) /\ Len(t.raw) \in Nat /\ Len(t.raw) >= 5
    BY DEF Transmissions, IsTransmission
  <1>2. Len(t.raw) - 1 \in Nat /\ Len(Header) \in Nat
    BY <1>1, HeaderIsFive
  <1>3. p \in Seq(Nat)
    BY <1>1, <1>2, SliceTyped DEF Bytes
  <1>4. Decode(t.raw, t.truncated).command = DecodePayload(p).command
    BY DEF Decode, Bytes
  <1> HIDE DEF p
  <1>5. DecodePayload(p) = ReadMessage(p) /\ p # <<>> /\ p[1] = WriteText
    BY <1>3, <1>4, OnlyMessagesAreTexts DEF Releases
  <1>6. IsEmptyWrite(p)
    BY <1>3, <1>4, <1>5, EmptyMessagesAreShort
  <1> QED
    BY <1>6 DEF p

(* The same of all that one read finds.                                    *)
LEMMA AppliedFollows ==
  ASSUME NEW s, IsSign(s), Held(s), NEW found \in Seq(Transmissions)
  PROVE  LET n == Applied(s, found).sign
         IN /\ IsSign(n) /\ Held(n)
            /\ s.priority # <<>> /\ n.priority = <<>> =>
                 \E i \in DOMAIN found : IsEmptyWrite(Bytes(found[i]))
  <1> DEFINE N == Len(found)
             Ends(n) == \E i \in 1 .. n : IsEmptyWrite(Bytes(found[i]))
             Fine(n, q) == /\ IsSign(q) /\ Held(q)
                           /\ s.priority # <<>> /\ q.priority = <<>> => Ends(n)
  <1>1. PICK g : Applies(s, found, N, g) /\ Applied(s, found) = g[N]
    BY AppliedIs
  <1>2. N \in Nat /\ DOMAIN found = 1 .. N /\ \A n \in 1 .. N : found[n] \in Transmissions
    OBVIOUS
  <1> DEFINE T == {n \in 0 .. N : Fine(n, g[n].sign)}
  <1> HIDE DEF N
  <1>3. \A n \in 0 .. N :
          g[n] = IF n = 0 THEN Outcome(s, {}) ELSE Effect(g[n - 1].sign, found[n])
    BY <1>1 DEF Applies
  <1>4. 0 \in T
    <2>1. 0 \in 0 .. N
      BY <1>2
    <2>2. g[0] = Outcome(s, {})
      BY <1>3, <2>1
    <2>3. g[0].sign = s
      BY <2>2 DEF Outcome
    <2>4. Fine(0, s)
      OBVIOUS
    <2> QED
      BY <2>1, <2>3, <2>4
  <1>5. ASSUME NEW n \in 1 .. N, n - 1 \in T PROVE n \in T
    <2> DEFINE c == Decode(found[n].raw, found[n].truncated).command
    <2>1. Fine(n - 1, g[n - 1].sign)
      BY <1>5
    <2>2. n \in 0 .. N /\ n # 0
      BY <1>2
    <2>3. g[n].sign = Apply(g[n - 1].sign, c).sign
      <3>1. g[n] = Effect(g[n - 1].sign, found[n])
        BY <1>3, <2>2
      <3> QED
        BY <3>1 DEF Effect
    <2>4. IsDecoded(c)
      BY <1>2, DecodeDecodes
    <2>5. Releases(c) => IsEmptyWrite(Bytes(found[n]))
      <3>1. found[n] \in Transmissions
        BY <1>2
      <3> QED
        BY <3>1, ReleasesAreEmptyWrites
    <2> HIDE DEF c
    <2>6. ASSUME NEW q, Fine(n - 1, q) PROVE Fine(n, Apply(q, c).sign)
      <3>1. FollowsFrom(Apply(q, c).sign, q, c)
        BY <2>4, <2>6, ApplyFollows
      <3>2. Ends(n - 1) => Ends(n)
        <4>1. \A i \in 1 .. n - 1 : i \in 1 .. n
          BY <1>2
        <4> QED
          BY <4>1
      <3>3. IsEmptyWrite(Bytes(found[n])) => Ends(n)
        BY <1>2
      <3> HIDE DEF Ends
      <3> QED
        BY <2>5, <2>6, <3>1, <3>2, <3>3 DEF FollowsFrom
    <2> HIDE DEF Fine
    <2>7. Fine(n, g[n].sign)
      BY <2>1, <2>3, <2>6
    <2> QED
      BY <2>2, <2>7
  <1>6. 0 .. N \subseteq T
    <2> HIDE DEF T
    <2> QED
      BY <1>2, <1>4, <1>5, IntervalInduction
  <1>7. N \in T
    BY <1>2, <1>6
  <1>8. Fine(N, Applied(s, found).sign)
    BY <1>1, <1>7
  <1> QED
    BY <1>2, <1>8

-----------------------------------------------------------------------------
(* The endpoint and the window.                                            *)
ConnectionsOK ==
  /\ scanner \in [Sockets -> Scanners \cup {NoScanner}]
  /\ flight \in [Sockets -> Seq(Nat)]
  /\ due \in [Sockets -> Seq(Seq(Nat))]
  /\ cut \in [Sockets -> BOOLEAN] /\ lossy \in [Sockets -> BOOLEAN]
Inv ==
  /\ ConnectionsOK /\ SimulatorInv
  /\ IsSign(sign) /\ HeldWhereAllocated
  /\ last.found \in Seq(Transmissions) /\ AlertsEndByRelease

LEMMA HeldIs == HeldWhereAllocated <=> Held(sign)
  BY DEF HeldWhereAllocated, Held

LEMMA ScannersAreAttached ==
  /\ NoScanner \notin Scanners /\ Empty \in Scanners /\ Empty # NoScanner
  /\ Len(NoScanner.buffer) = 0 /\ Len(Empty.buffer) = 0
  BY EmptySeq DEF NoScanner, Scanners, Empty

LEMMA NothingIsFound ==
  /\ NothingFound.found \in Seq(Transmissions)
  /\ NothingFound.before.priority = <<>>
  BY EmptySeq DEF NothingFound, Blank

\* An alert is seen to end only by what a read applies.
LEMMA NothingEnds ==
  ASSUME last' = NothingFound
  PROVE  AlertsEndByRelease' /\ last'.found \in Seq(Transmissions)
  BY NothingIsFound DEF AlertsEndByRelease

LEMMA PacketTyped ==
  ASSUME NEW payload \in Seq(Nat)
  PROVE  /\ Packet(payload) \in Seq(Nat)
         /\ Len(Packet(payload)) = WakeupNulls + 5 + Len(payload) + 1
         /\ Header \o payload \o <<EOT>> \in Seq(Nat)
  <1> DEFINE nulls == [i \in 1 .. WakeupNulls |-> NUL]
  <1>1. nulls \in Seq(Nat) /\ Len(nulls) = WakeupNulls /\ WakeupNulls \in Nat
    BY FramesAssumption DEF NUL
  <1>2. Header \in Seq(Nat) /\ Len(Header) = 5
    BY DEF Header, SOH, STX
  <1>3. <<EOT>> \in Seq(Nat) /\ Len(<<EOT>>) = 1
    BY DEF EOT
  <1> HIDE DEF nulls
  <1>4. /\ nulls \o Header \in Seq(Nat) /\ Len(nulls \o Header) = WakeupNulls + 5
        /\ Header \o payload \in Seq(Nat)
    <2> DEFINE h == Header
    <2>1. h \in Seq(Nat) /\ Len(h) = 5
      BY <1>2
    <2> HIDE DEF h
    <2>2. nulls \o h \in Seq(Nat) /\ Len(nulls \o h) = WakeupNulls + 5
          /\ h \o payload \in Seq(Nat)
      <3>1. nulls \o h \in Seq(Nat) /\ Len(nulls \o h) = Len(nulls) + Len(h)
        BY <1>1, <2>1, ConcatProperties
      <3>2. h \o payload \in Seq(Nat)
        BY <2>1, ConcatProperties
      <3> QED
        BY <1>1, <2>1, <3>1, <3>2
    <2> QED
      BY <2>2 DEF h
  <1>5. /\ nulls \o Header \o payload \in Seq(Nat)
        /\ Len(nulls \o Header \o payload) = WakeupNulls + 5 + Len(payload)
        /\ Header \o payload \o <<EOT>> \in Seq(Nat)
    BY <1>3, <1>4, ConcatProperties
  <1>6. /\ nulls \o Header \o payload \o <<EOT>> \in Seq(Nat)
        /\ Len(nulls \o Header \o payload \o <<EOT>>) = WakeupNulls + 5 + Len(payload) + 1
    BY <1>3, <1>5, ConcatProperties
  <1> QED
    BY <1>5, <1>6 DEF Packet, nulls

LEMMA InvInit == Init => Inv
  <1> SUFFICES ASSUME Init PROVE Inv
    OBVIOUS
  <1> USE DEF Init
  <1>1. ConnectionsOK
    BY EmptySeq DEF ConnectionsOK
  <1>2. TypeOK
    <2>1. \A k \in Sockets : ~Attached(k) /\ flight[k] = <<>> /\ due[k] = <<>>
      BY DEF Attached
    <2>2. 0 \in 0 .. MaxFrames
      BY SimulatorAssumption
    <2> QED
      BY <2>1, <2>2 DEF TypeOK
  <1>3. EndlessFramesAreGivenUp
    BY ScannersAreAttached, HeaderIsFive DEF EndlessFramesAreGivenUp
  <1>4. IsSign(sign) /\ HeldWhereAllocated
    BY BlankIsHeld, HeldIs
  <1>5. last.found \in Seq(Transmissions) /\ AlertsEndByRelease
    BY NothingIsFound DEF AlertsEndByRelease
  <1> QED
    BY <1>1, <1>2, <1>3, <1>4, <1>5 DEF Inv, SimulatorInv

LEMMA PayloadsTyped ==
  /\ \A p \in Payloads : p \in Seq(Nat)
  /\ \A p \in Breakable : p \in Seq(Nat)
  BY SimulatorAssumption DEF Payloads

\* A client has no bearing on the sign, nor on what has been read.
LEMMA BeginsInv ==
  ASSUME Inv, NEW k \in Sockets, Begins(k), NEW more \in Seq(Nat),
         flight' = [flight EXCEPT ![k] = @ \o more],
         NEW d \in Seq(Seq(Nat)), due' = [due EXCEPT ![k] = d],
         cut' \in [Sockets -> BOOLEAN], lossy' \in [Sockets -> BOOLEAN]
  PROVE  Inv'
  <1> USE DEF Inv, SimulatorInv, Begins
  <1>1. ConnectionsOK'
    <2>1. flight[k] \o more \in Seq(Nat)
      BY ConcatProperties DEF ConnectionsOK
    <2> QED
      BY <2>1 DEF ConnectionsOK
  <1>2. TypeOK'
    <2>1. sent' \in 0 .. MaxFrames
      BY SimulatorAssumption DEF TypeOK
    <2>2. ASSUME NEW j \in Sockets
          PROVE  /\ (scanner[j].nulls \in Nat \/ ~Attached(j))'
                 /\ (~Attached(j) => flight[j] = <<>> /\ due[j] = <<>>)'
                 /\ (Attached(j) /\ paused => scanner[j] = Empty)'
      BY DEF TypeOK, Attached, ConnectionsOK
    <2> QED
      BY <2>1, <2>2 DEF TypeOK
  <1>3. EndlessFramesAreGivenUp'
    BY DEF EndlessFramesAreGivenUp
  <1>4. IsSign(sign') /\ HeldWhereAllocated'
    BY DEF HeldWhereAllocated
  <1> QED
    BY <1>1, <1>2, <1>3, <1>4, NothingEnds

LEMMA SendInv ==
  ASSUME Inv, NEW k \in Sockets, NEW p \in Payloads, Send(k, p)
  PROVE  Inv'
  <1> DEFINE d == IF Clean(k) THEN Append(due[k], Header \o p \o <<EOT>>) ELSE due[k]
  <1>1. p \in Seq(Nat)
    BY PayloadsTyped
  <1>2. Packet(p) \in Seq(Nat) /\ Header \o p \o <<EOT>> \in Seq(Nat)
    BY <1>1, PacketTyped
  <1>3. ConnectionsOK
    BY DEF Inv
  <1>4. d \in Seq(Seq(Nat)) /\ due' = [due EXCEPT ![k] = d]
    <2>1. due[k] \in Seq(Seq(Nat)) /\ due = [due EXCEPT ![k] = due[k]]
      BY <1>3 DEF ConnectionsOK
    <2>2. d \in Seq(Seq(Nat))
      BY <1>2, <2>1
    <2>3. CASE Clean(k)
      BY <2>2, <2>3 DEF Send
    <2>4. CASE ~Clean(k)
      BY <2>1, <2>2, <2>4 DEF Send
    <2> QED
      BY <2>3, <2>4
  <1> HIDE DEF d
  <1>5. cut' \in [Sockets -> BOOLEAN] /\ lossy' \in [Sockets -> BOOLEAN]
    BY <1>3 DEF Send, ConnectionsOK
  <1>6. Begins(k) /\ flight' = [flight EXCEPT ![k] = @ \o Packet(p)]
    BY DEF Send
  <1> QED
    BY <1>2, <1>4, <1>5, <1>6, BeginsInv

LEMMA SendCutShortInv ==
  ASSUME Inv, NEW k \in Sockets, NEW p \in Breakable, SendCutShort(k, p)
  PROVE  Inv'
  <1>1. p \in Seq(Nat) /\ Len(p) \in Nat
    BY PayloadsTyped
  <1>2. ConnectionsOK
    BY DEF Inv
  <1>3. PICK n \in 0 .. Len(p) :
          flight' = [flight EXCEPT ![k] =
                       @ \o SubSeq(Packet(p), 1, WakeupNulls + Len(Header) + n)]
    BY DEF SendCutShort
  <1> DEFINE to == WakeupNulls + Len(Header) + n
             more == SubSeq(Packet(p), 1, to)
  <1>4. Packet(p) \in Seq(Nat) /\ to \in 0 .. Len(Packet(p))
    BY <1>1, FramesAssumption, HeaderIsFive, PacketTyped
  <1> HIDE DEF to
  <1>5. more \in Seq(Nat)
    BY <1>4, Part
  <1> HIDE DEF more
  <1>6. due[k] \in Seq(Seq(Nat)) /\ due' = [due EXCEPT ![k] = due[k]]
    BY <1>2 DEF SendCutShort, ConnectionsOK
  <1>7. cut' \in [Sockets -> BOOLEAN] /\ lossy' \in [Sockets -> BOOLEAN]
    BY <1>2 DEF SendCutShort, ConnectionsOK
  <1>8. Begins(k) /\ flight' = [flight EXCEPT ![k] = @ \o more]
    BY <1>3 DEF SendCutShort, more, to
  <1> QED
    BY <1>5, <1>6, <1>7, <1>8, BeginsInv

LEMMA AcceptInv ==
  ASSUME Inv, NEW k \in Sockets, Accept(k)
  PROVE  Inv'
  <1> USE DEF Inv, SimulatorInv, Accept
  <1>1. ConnectionsOK'
    BY ScannersAreAttached DEF ConnectionsOK, TypeOK
  <1>2. \A j \in Sockets : scanner'[j] = IF j = k THEN Empty ELSE scanner[j]
    BY DEF ConnectionsOK
  <1>3. TypeOK'
    <2>1. Empty.nulls \in Nat
      BY DEF Empty
    <2>2. ASSUME NEW j \in Sockets
          PROVE  /\ (scanner[j].nulls \in Nat \/ ~Attached(j))'
                 /\ (~Attached(j) => flight[j] = <<>> /\ due[j] = <<>>)'
                 /\ (Attached(j) /\ paused => scanner[j] = Empty)'
      BY <1>2, <2>1, ScannersAreAttached DEF TypeOK, Attached
    <2> QED
      BY <2>2 DEF TypeOK
  <1>4. EndlessFramesAreGivenUp'
    BY <1>2, ScannersAreAttached, HeaderIsFive DEF EndlessFramesAreGivenUp
  <1>5. IsSign(sign') /\ HeldWhereAllocated'
    BY DEF HeldWhereAllocated
  <1> QED
    BY <1>1, <1>3, <1>4, <1>5, NothingEnds

LEMMA DropClientInv ==
  ASSUME Inv, NEW k \in Sockets, DropClient(k)
  PROVE  Inv'
  <1> USE DEF Inv, SimulatorInv, DropClient
  <1>1. ConnectionsOK'
    BY EmptySeq DEF ConnectionsOK
  <1>2. \A j \in Sockets :
          /\ scanner'[j] = IF j = k THEN NoScanner ELSE scanner[j]
          /\ flight'[j] = IF j = k THEN <<>> ELSE flight[j]
          /\ due'[j] = IF j = k THEN <<>> ELSE due[j]
    BY DEF ConnectionsOK
  <1>3. TypeOK'
    <2>1. ASSUME NEW j \in Sockets
          PROVE  /\ (scanner[j].nulls \in Nat \/ ~Attached(j))'
                 /\ (~Attached(j) => flight[j] = <<>> /\ due[j] = <<>>)'
                 /\ (Attached(j) /\ paused => scanner[j] = Empty)'
      BY <1>2 DEF TypeOK, Attached
    <2> QED
      BY <2>1 DEF TypeOK
  <1>4. EndlessFramesAreGivenUp'
    BY <1>2, ScannersAreAttached, HeaderIsFive DEF EndlessFramesAreGivenUp
  <1>5. IsSign(sign') /\ HeldWhereAllocated'
    BY DEF HeldWhereAllocated
  <1> QED
    BY <1>1, <1>3, <1>4, <1>5, NothingEnds

LEMMA DiscardInv ==
  ASSUME Inv, NEW k \in Sockets, Discard(k)
  PROVE  Inv'
  <1> USE DEF Inv, SimulatorInv, Discard
  <1>1. ConnectionsOK'
    BY EmptySeq DEF ConnectionsOK
  <1>2. \A j \in Sockets : flight'[j] = IF j = k THEN <<>> ELSE flight[j]
    BY DEF ConnectionsOK
  <1>3. TypeOK'
    BY <1>2 DEF TypeOK, Attached
  <1>4. EndlessFramesAreGivenUp'
    BY DEF EndlessFramesAreGivenUp
  <1>5. IsSign(sign') /\ HeldWhereAllocated'
    BY DEF HeldWhereAllocated
  <1> QED
    BY <1>1, <1>3, <1>4, <1>5, NothingEnds

LEMMA PauseInv ==
  ASSUME Inv, Pause
  PROVE  Inv'
  <1> USE DEF Inv, SimulatorInv, Pause
  <1>1. ConnectionsOK'
    <2>1. \A j \in Sockets : Attached(j) \in BOOLEAN
      BY DEF Attached
    <2> QED
      BY <2>1, EmptySeq, ScannersAreAttached DEF ConnectionsOK
  <1>2. \A j \in Sockets :
          /\ scanner'[j] = IF Attached(j) THEN Empty ELSE NoScanner
          /\ due'[j] = <<>>
    OBVIOUS
  <1>3. TypeOK'
    <2>1. Empty.nulls \in Nat
      BY DEF Empty
    <2>2. ASSUME NEW j \in Sockets
          PROVE  /\ (scanner[j].nulls \in Nat \/ ~Attached(j))'
                 /\ (~Attached(j) => flight[j] = <<>> /\ due[j] = <<>>)'
                 /\ (Attached(j) /\ paused => scanner[j] = Empty)'
      BY <1>2, <2>1, ScannersAreAttached DEF TypeOK, Attached
    <2> QED
      BY <2>2 DEF TypeOK
  <1>4. EndlessFramesAreGivenUp'
    BY <1>2, ScannersAreAttached, HeaderIsFive DEF EndlessFramesAreGivenUp
  <1>5. IsSign(sign') /\ HeldWhereAllocated'
    BY DEF HeldWhereAllocated
  <1> QED
    BY <1>1, <1>3, <1>4, <1>5, NothingEnds

LEMMA ResumeInv ==
  ASSUME Inv, Resume
  PROVE  Inv'
  <1> USE DEF Inv, SimulatorInv, Resume, connection
  <1>1. ConnectionsOK'
    BY DEF ConnectionsOK
  <1>2. TypeOK'
    BY DEF TypeOK, Attached
  <1>3. EndlessFramesAreGivenUp'
    BY DEF EndlessFramesAreGivenUp
  <1>4. IsSign(sign') /\ HeldWhereAllocated'
    BY DEF HeldWhereAllocated
  <1> QED
    BY <1>1, <1>2, <1>3, <1>4, NothingEnds

LEMMA ResetSignInv ==
  ASSUME Inv, ResetSign
  PROVE  Inv'
  <1> USE DEF Inv, SimulatorInv, ResetSign, connection
  <1>1. ConnectionsOK'
    BY DEF ConnectionsOK
  <1>2. TypeOK'
    BY DEF TypeOK, Attached
  <1>3. EndlessFramesAreGivenUp'
    BY DEF EndlessFramesAreGivenUp
  <1>4. IsSign(sign') /\ HeldWhereAllocated'
    <2>1. HeldWhereAllocated' <=> Held(sign')
      BY DEF HeldWhereAllocated, Held
    <2> QED
      BY <2>1, BlankIsHeld
  <1> QED
    BY <1>1, <1>2, <1>3, <1>4, NothingEnds

\* A read: what is found is typed, what is left waits, and the sign follows.
LEMMA ReadSomeInv ==
  ASSUME Inv, NEW k \in Sockets, ReadSome(k)
  PROVE  Inv'
  <1>1. PICK n \in Readable(k) :
          LET fed == Feed(scanner[k], SubSeq(flight[k], 1, n))
              done == Applied(sign, fed.found)
              whole == Whole(fed.found)
          IN /\ scanner' = [scanner EXCEPT ![k] = fed.scanner]
             /\ flight' = [flight EXCEPT ![k] = SubSeq(@, n + 1, Len(@))]
             /\ sign' = done.sign
             /\ due' = [due EXCEPT ![k] = SubSeq(@, 1 + Len(whole), Len(@))]
             /\ last' = IF fed.found = <<>> THEN NothingFound
                        ELSE [found |-> fed.found, due |-> due[k], notes |-> done.notes,
                              before |-> sign, cut |-> cut[k], lossy |-> lossy[k]]
    BY DEF ReadSome
  <1>2. /\ Attached(k) /\ ~paused
        /\ UNCHANGED <<paused, sent, cut, lossy>>
    BY DEF ReadSome
  <1>3. ConnectionsOK /\ TypeOK /\ EndlessFramesAreGivenUp /\ IsSign(sign) /\ Held(sign)
    BY HeldIs DEF Inv, SimulatorInv
  <1> DEFINE data == SubSeq(flight[k], 1, n)
             fed == Feed(scanner[k], data)
             done == Applied(sign, fed.found)
             whole == Whole(fed.found)
             rest == SubSeq(flight[k], n + 1, Len(flight[k]))
             owed == SubSeq(due[k], 1 + Len(whole), Len(due[k]))
  <1>4. scanner[k] \in Scanners
    BY <1>2, <1>3 DEF ConnectionsOK, Attached
  <1>5. flight[k] \in Seq(Nat) /\ n \in 0 .. Len(flight[k]) /\ n \in Nat
    BY <1>3 DEF ConnectionsOK, Readable
  <1>6. data \in Seq(Nat) /\ rest \in Seq(Nat)
    <2>1. 0 \in Nat /\ Len(flight[k]) \in 0 .. Len(flight[k])
      BY <1>5
    <2>2. SubSeq(flight[k], 0 + 1, n) \in Seq(Nat)
      BY <1>5, <2>1, Part
    <2>3. rest \in Seq(Nat)
      BY <1>5, <2>1, Part
    <2> QED
      BY <2>2, <2>3
  <1> HIDE DEF data
  <1>7. fed \in Results /\ Quiet(fed.scanner)
    BY <1>4, <1>6, FeedTyped
  <1> HIDE DEF fed
  <1>8. fed.scanner \in Scanners /\ fed.found \in Seq(Transmissions)
        /\ GivenUp(fed.scanner.buffer)
    BY <1>7 DEF Results, Quiet
  <1>9. /\ IsSign(done.sign) /\ Held(done.sign)
        /\ sign.priority # <<>> /\ done.sign.priority = <<>> =>
             \E i \in DOMAIN fed.found : IsEmptyWrite(Bytes(fed.found[i]))
    BY <1>3, <1>8, AppliedFollows
  <1>10. owed \in Seq(Seq(Nat))
    <2> DEFINE kept == {i \in DOMAIN fed.found : ~fed.found[i].truncated}
    <2>1. whole \in Seq(Transmissions)
      <3>1. whole = Chosen(fed.found, kept)
        BY DEF Whole
      <3> HIDE DEF kept
      <3> QED
        BY <1>8, <3>1, ChosenAreThere
    <2> DEFINE w == Len(whole)
    <2>2. due[k] \in Seq(Seq(Nat)) /\ w \in Nat
      BY <1>3, <2>1 DEF ConnectionsOK
    <2> HIDE DEF w
    <2>3. Len(due[k]) \in 0 .. Len(due[k]) /\ 1 + w = w + 1
      BY <2>2
    <2>4. SubSeq(due[k], w + 1, Len(due[k])) \in Seq(Seq(Nat))
      BY <2>2, <2>3, Part
    <2> QED
      BY <2>3, <2>4 DEF w
  <1>11. /\ scanner' = [scanner EXCEPT ![k] = fed.scanner]
         /\ flight' = [flight EXCEPT ![k] = rest]
         /\ sign' = done.sign
         /\ due' = [due EXCEPT ![k] = owed]
         /\ last' = IF fed.found = <<>> THEN NothingFound
                    ELSE [found |-> fed.found, due |-> due[k], notes |-> done.notes,
                          before |-> sign, cut |-> cut[k], lossy |-> lossy[k]]
    BY <1>1 DEF fed, data
  <1> HIDE DEF rest, owed, done, whole
  <1>12. ConnectionsOK'
    BY <1>2, <1>3, <1>6, <1>8, <1>10, <1>11 DEF ConnectionsOK
  <1>13. \A j \in Sockets :
           /\ scanner'[j] = IF j = k THEN fed.scanner ELSE scanner[j]
           /\ j # k => flight'[j] = flight[j] /\ due'[j] = due[j]
    BY <1>3, <1>11 DEF ConnectionsOK
  <1>14. TypeOK'
    <2>1. fed.scanner.nulls \in Nat /\ fed.scanner # NoScanner
      BY <1>8, ScannersAreAttached DEF Scanners
    <2>2. ASSUME NEW j \in Sockets
          PROVE  /\ (scanner[j].nulls \in Nat \/ ~Attached(j))'
                 /\ (~Attached(j) => flight[j] = <<>> /\ due[j] = <<>>)'
                 /\ (Attached(j) /\ paused => scanner[j] = Empty)'
      BY <1>2, <1>3, <1>13, <2>1 DEF TypeOK, Attached
    <2> QED
      BY <1>2, <1>3, <2>2 DEF TypeOK
  <1>15. EndlessFramesAreGivenUp'
    <2> SUFFICES ASSUME NEW j \in Sockets
                 PROVE  GivenUp(scanner'[j].buffer)
      BY DEF EndlessFramesAreGivenUp, GivenUp
    <2>1. CASE j = k
      BY <1>8, <1>13, <2>1
    <2>2. CASE j # k
      BY <1>3, <1>13, <2>2 DEF EndlessFramesAreGivenUp, GivenUp
    <2> QED
      BY <2>1, <2>2
  <1>16. IsSign(sign') /\ HeldWhereAllocated'
    <2>1. HeldWhereAllocated' <=> Held(sign')
      BY DEF HeldWhereAllocated, Held
    <2> QED
      BY <1>9, <1>11, <2>1
  <1>17. last'.found \in Seq(Transmissions) /\ AlertsEndByRelease'
    <2>1. CASE fed.found = <<>>
      BY <1>11, <2>1, NothingEnds
    <2>2. CASE fed.found # <<>>
      <3>1. last'.found = fed.found /\ last'.before = sign
        BY <1>11, <2>2
      <3>2. Playing(sign') # <<PriorityFile>> => sign'.priority = <<>>
        BY DEF Playing
      <3>3. AlertsEndByRelease'
        BY <1>9, <1>11, <3>1, <3>2 DEF AlertsEndByRelease
      <3> QED
        BY <1>8, <3>1, <3>3
    <2> QED
      BY <2>1, <2>2
  <1> QED
    BY <1>12, <1>14, <1>15, <1>16, <1>17 DEF Inv, SimulatorInv

LEMMA InvNext == Inv /\ [Next]_vars => Inv'
  <1> SUFFICES ASSUME Inv, [Next]_vars PROVE Inv'
    OBVIOUS
  <1>1. ASSUME NEW k \in Sockets, NEW p \in Payloads, Send(k, p) PROVE Inv'
    BY <1>1, SendInv
  <1>2. ASSUME NEW k \in Sockets, NEW p \in Breakable, SendCutShort(k, p) PROVE Inv'
    BY <1>2, SendCutShortInv
  <1>3. ASSUME NEW k \in Sockets, Accept(k) PROVE Inv'
    BY <1>3, AcceptInv
  <1>4. ASSUME NEW k \in Sockets, DropClient(k) PROVE Inv'
    BY <1>4, DropClientInv
  <1>5. ASSUME NEW k \in Sockets, ReadSome(k) PROVE Inv'
    BY <1>5, ReadSomeInv
  <1>6. ASSUME NEW k \in Sockets, Discard(k) PROVE Inv'
    BY <1>6, DiscardInv
  <1>7. CASE Pause
    BY <1>7, PauseInv
  <1>8. CASE Resume
    BY <1>8, ResumeInv
  <1>9. CASE ResetSign
    BY <1>9, ResetSignInv
  <1>10. CASE UNCHANGED vars
    BY <1>10 DEF vars, Inv, ConnectionsOK, SimulatorInv, TypeOK, Attached,
       EndlessFramesAreGivenUp, HeldWhereAllocated, AlertsEndByRelease
  <1> QED
    BY <1>1, <1>2, <1>3, <1>4, <1>5, <1>6, <1>7, <1>8, <1>9, <1>10 DEF Next

\* Everything the sign, the scanners and the last read are known to be.
THEOREM SimulatorIsInv == Spec => []Inv
  BY InvInit, InvNext, PTL DEF Spec

\* However the streams are cut into reads and whatever they carry, what a scanner
\* holds is bounded, but for a byte that may begin a header, and nothing of it
\* outlives a pause or its client: feed and _overlong of framing.py, set_paused and
\* _drop_client of server.py.
THEOREM ScannersAreBounded == Spec => []SimulatorInv
  BY SimulatorIsInv, PTL DEF Inv

\* The sign holds no message, value or picture in a file its table does not
\* allocate for it, nor a value longer than its file, whatever arrives: model.py.
THEOREM NothingIsHeldElsewhere == Spec => []HeldWhereAllocated
  BY SimulatorIsInv, PTL DEF Inv

\* What ends an alert is an empty write to the priority file, or as much of a
\* longer one as is no more than that, whatever else arrives and however it is
\* read: decode_payload, the malformed commands that apply turns away, and
\* _write_priority.
THEOREM OnlyAnEmptyWriteEndsAnAlert == Spec => []AlertsEndByRelease
  BY SimulatorIsInv, PTL DEF Inv

\* The spans a frame's bytes are shown in are the frame, each at its place: what
\* a decoder does not understand is still shown.  decode.py and spans.py.
THEOREM SpansCoverEveryFrame == Spec => []SpansCoverTheFrame
  <1>1. Inv => SpansCoverTheFrame
    <2> SUFFICES ASSUME Inv, NEW i \in DOMAIN last.found
                 PROVE  LET t == last.found[i]
                            spans == Decode(t.raw, t.truncated).spans
                        IN /\ FlattenSeq([j \in DOMAIN spans |-> spans[j].data]) = t.raw
                           /\ \A j \in DOMAIN spans :
                                SubSeq(t.raw, spans[j].at + 1,
                                       spans[j].at + Len(spans[j].data)) = spans[j].data
      BY DEF SpansCoverTheFrame
    <2>1. last.found[i] \in Transmissions
      BY DEF Inv
    <2> QED
      BY <2>1, SpansCoverFrames
  <1> QED
    BY <1>1, SimulatorIsInv, PTL

-----------------------------------------------------------------------------
(* What is lost quietly.                                                   *)
Noted(notes) == \E n \in notes : n.level \in {"warning", "violation"}
Draws(s, body) ==
  /\ \A i \in DOMAIN Annotate(body) :
       Annotate(body)[i][1] = DotsInsert =>
         Len(Annotate(body)[i]) = 1 \/ Drawn(s, body)[i] # <<>>
  /\ \A l \in Calls(body, StringInsert) : IsOfType(s, l, StringFile)

\* Calls that would draw nothing are noted, also where the sign has changed since
\* in what it is not called for.
LEMMA CallsAreNoted ==
  ASSUME NEW s, NEW n, n.configured = s.configured, n.table = s.table,
         n.pictures = s.pictures, NEW body \in Seq(Nat)
  PROVE  Noted(CheckCalls(s, body)) \/ (n.configured => Draws(n, body))
  <1> SUFFICES ASSUME ~Noted(CheckCalls(s, body)), n.configured PROVE Draws(n, body)
    OBVIOUS
  <1> DEFINE strings == {k \in Calls(body, StringInsert) : ~IsOfType(s, k, StringFile)}
             types == {k \in Calls(body, DotsInsert) : ~IsOfType(s, k, DotsFile)}
             blanks == {k \in Calls(body, DotsInsert) :
                          IsOfType(s, k, DotsFile) /\ k \notin DOMAIN s.pictures}
  <1>1. CheckCalls(s, body) =
          {Note("warning", "no such string") : l \in strings}
            \cup {Note("warning", "no such picture") : l \in types}
            \cup {Note("warning", "blank picture") : l \in blanks}
    BY DEF CheckCalls
  <1>2. \A why : Note("warning", why) \notin CheckCalls(s, body)
    BY DEF Noted, Note
  <1> HIDE DEF strings, types, blanks
  <1>3. strings = {} /\ types = {} /\ blanks = {}
    BY <1>1, <1>2
  <1>4. \A k, type : IsOfType(n, k, type) = IsOfType(s, k, type)
    BY AllocatedAlike
  <1>5. /\ \A l \in Calls(body, StringInsert) : IsOfType(n, l, StringFile)
        /\ \A l \in Calls(body, DotsInsert) : l \in DOMAIN n.pictures
    BY <1>3, <1>4 DEF strings, types, blanks
  <1>6. ASSUME NEW i \in DOMAIN Annotate(body), Annotate(body)[i][1] = DotsInsert,
               Len(Annotate(body)[i]) # 1
        PROVE  Drawn(n, body)[i] # <<>>
    <2> DEFINE piece == Annotate(body)[i]
    <2>1. IsPiece(piece) /\ Annotate(body) \in Seq(Seq(Nat))
      BY AnnotateMakes DEF Make
    <2>2. Len(piece) = 2 /\ piece[1] = DotsInsert /\ piece # <<>>
      BY <1>6, <2>1 DEF IsPiece
    <2>3. piece \in ToSet(Annotate(body))
      BY <2>1, Elements
    <2>4. piece[2] \in Calls(body, DotsInsert)
      <3> HIDE DEF piece
      <3> QED
        BY <2>2, <2>3 DEF Calls
    <2>5. piece[2] \in DOMAIN n.pictures
      BY <1>5, <2>4
    <2>6. Drawn(n, body)[i] =
            IF Len(piece) = 2 /\ piece[1] = StringInsert
              THEN IF IsOfType(n, piece[2], StringFile) /\ piece[2] \in DOMAIN n.strings
                     THEN n.strings[piece[2]] ELSE <<>>
            ELSE IF Len(piece) = 2 /\ piece[1] = DotsInsert
              THEN IF piece[2] \in DOMAIN n.pictures THEN piece ELSE <<>>
            ELSE piece
      BY DEF Drawn
    <2> HIDE DEF piece
    <2> QED
      BY <2>2, <2>5, <2>6 DEF StringInsert, DotsInsert
  <1> QED
    BY <1>5, <1>6 DEF Draws

\* What is put in a file is there.
LEMMA PutThere ==
  ASSUME NEW files, NEW l, NEW content
  PROVE  l \in DOMAIN Put(files, l, content) /\ Put(files, l, content)[l] = content
  BY DEF Put

LEMMA PriorityIsNoted ==
  ASSUME NEW s, IsSign(s), NEW c, IsDecoded(c), c.op = "text"
  PROVE  LET done == WritePriority(s, c)
         IN /\ IsSign(done.sign)
            /\ done.sign.configured = s.configured /\ done.sign.table = s.table
            /\ done.sign.pictures = s.pictures
            /\ Noted(done.notes) \/ done.sign.priority = c.body
  <1> DEFINE up == IF c.body = <<>> THEN <<>> ELSE Slice(c.body, 0, PriorityCapacity)
             n == With(s, "priority", up)
             done == WritePriority(s, c)
  <1>1. done.sign = n
    BY DEF WritePriority, Outcome, With
  <1>2. Noted(done.notes) \/ up = c.body
    <2> SUFFICES ASSUME up # c.body PROVE Noted(done.notes)
      OBVIOUS
    <2>1. c.body # <<>> /\ c.body \in Seq(Nat)
      BY DEF IsDecoded
    <2>2. Len(c.body) > PriorityCapacity
      <3> SUFFICES ASSUME ~(Len(c.body) > PriorityCapacity) PROVE FALSE
        OBVIOUS
      <3>1. PriorityCapacity \in Nat /\ Len(c.body) \in Nat
        BY <2>1, FramesAssumption
      <3>2. Min2(PriorityCapacity, Len(c.body)) = Len(c.body)
        BY <3>1 DEF Min2
      <3>3. Slice(c.body, 0, PriorityCapacity) = After(c.body, 0)
        BY <3>2 DEF Slice, After
      <3>4. After(c.body, 0) = c.body
        BY <2>1, AllOfIt
      <3> QED
        BY <2>1, <3>3, <3>4
    <2>3. Note("warning", "priority message cut") \in done.notes
      BY <2>1, <2>2 DEF WritePriority, Outcome
    <2> HIDE DEF done
    <2> QED
      BY <2>3 DEF Noted, Note
  <1> HIDE DEF up
  <1>3. IsSign(n) /\ n["priority"] = up /\ \A f \in SignFields \ {"priority"} : n[f] = s[f]
    <2>1. "priority" \in SignFields
      BY DEF SignFields
    <2> QED
      BY <2>1, OneFieldChanged DEF Differs
  <1> HIDE DEF n, done
  <1>4. n.configured = s.configured /\ n.table = s.table /\ n.pictures = s.pictures
        /\ n.priority = up
    BY <1>3 DEF SignFields
  <1> QED
    BY <1>1, <1>2, <1>3, <1>4 DEF done

\* Holds, of the operations that hold something.
TextHeld(s, c) ==
  /\ IF c.label = PriorityFile THEN s.priority = c.body
     ELSE /\ c.label \in DOMAIN s.files
          /\ s.files[c.label].body = c.body
          /\ s.files[c.label].kept = Len(c.body)
  /\ s.configured => Draws(s, c.body)

LEMMA TextIsNoted ==
  ASSUME NEW s, IsSign(s), NEW c, IsDecoded(c), c.op = "text"
  PROVE  LET done == WriteTextFile(s, c)
         IN Noted(done.notes) \/ TextHeld(done.sign, c)
  <1> DEFINE done == WriteTextFile(s, c)
             calls == CheckCalls(s, c.body)
  <1>0. c.body \in Seq(Nat)
    BY DEF IsDecoded
  <1>1. CASE c.label = PriorityFile
    <2> DEFINE up == WritePriority(s, c)
    <2>1. done.sign = up.sign /\ done.notes = up.notes \cup calls
      BY <1>1, Zenon DEF WriteTextFile, Outcome
    <2>2. /\ up.sign.configured = s.configured /\ up.sign.table = s.table
          /\ up.sign.pictures = s.pictures
          /\ Noted(up.notes) \/ up.sign.priority = c.body
      BY PriorityIsNoted
    <2> HIDE DEF up, done
    <2>3. Noted(calls) \/ (up.sign.configured => Draws(up.sign, c.body))
      BY <1>0, <2>2, CallsAreNoted
    <2>4. Noted(up.notes) \/ Noted(calls) => Noted(done.notes)
      BY <2>1 DEF Noted
    <2> QED
      BY <1>1, <2>1, <2>2, <2>3, <2>4 DEF TextHeld, done
  <1>2. CASE c.label # PriorityFile /\ ~Writable(s, c.label)
    <2>1. Note("violation", "discarded") \in done.notes
      BY <1>2 DEF WriteTextFile, Outcome
    <2> HIDE DEF done
    <2>2. Noted(done.notes)
      BY <2>1 DEF Noted, Note
    <2> QED
      BY <2>2 DEF done
  <1>3. CASE c.label # PriorityFile /\ Writable(s, c.label)
    <2> DEFINE l == c.label
               stored == Stored(s, c)
               new == Put(s.files, l, stored)
               n == With(s, "files", new)
    <2>1. done.sign = n
      BY <1>3 DEF WriteTextFile, Outcome, With
    <2>2. l \in DOMAIN new /\ new[l] = stored
      BY PutThere
    <2>3. stored.body = c.body
      BY DEF Stored
    <2>4. Noted(done.notes) \/ stored.kept = Len(c.body)
      <3> SUFFICES ASSUME stored.kept # Len(c.body) PROVE Noted(done.notes)
        OBVIOUS
      <3>1. Overflows(s, c) /\ ~IsFirst(s, c.label)
        BY DEF Stored
      <3>2. Note("warning", "message cut") \in done.notes
        BY <1>3, <3>1 DEF WriteTextFile, Outcome
      <3> HIDE DEF done
      <3> QED
        BY <3>2 DEF Noted, Note
    <2> HIDE DEF stored, new
    <2>5. IsSign(n) /\ n["files"] = new /\ \A f \in SignFields \ {"files"} : n[f] = s[f]
      <3>1. "files" \in SignFields
        BY DEF SignFields
      <3> QED
        BY <3>1, OneFieldChanged DEF Differs
    <2>6. calls \subseteq done.notes
      BY <1>3 DEF WriteTextFile, Outcome
    <2> HIDE DEF n
    <2>7. n.configured = s.configured /\ n.table = s.table /\ n.files = new
          /\ n.pictures = s.pictures
      BY <2>5 DEF SignFields
    <2>8. Noted(calls) \/ (n.configured => Draws(n, c.body))
      BY <1>0, <2>7, CallsAreNoted
    <2> HIDE DEF calls, done
    <2>9. Noted(calls) => Noted(done.notes)
      BY <2>6 DEF Noted
    <2>10. Noted(done.notes) \/ TextHeld(n, c)
      BY <1>3, <2>2, <2>3, <2>4, <2>7, <2>8, <2>9 DEF TextHeld
    <2> QED
      BY <2>1, <2>10 DEF done
  <1> QED
    BY <1>1, <1>2, <1>3

LEMMA StringIsNoted ==
  ASSUME NEW s, IsSign(s), NEW c
  PROVE  LET done == WriteStringFile(s, c)
         IN \/ Noted(done.notes)
            \/ c.label \in DOMAIN done.sign.strings /\ done.sign.strings[c.label] = c.body
  <1> DEFINE done == WriteStringFile(s, c)
             l == c.label
             new == Put(s.strings, l, c.body)
             n == With(s, "strings", new)
             fits == ~(Len(c.body) > EntryOf(s, l).capacity)
  <1>1. CASE ~IsOfType(s, l, StringFile)
    <2>1. Note("violation", "discarded") \in done.notes
      BY <1>1 DEF WriteStringFile, Outcome
    <2> HIDE DEF done
    <2> QED
      BY <2>1 DEF Noted, Note, done
  <1>2. CASE IsOfType(s, l, StringFile) /\ ~fits
    <2>1. Note("warning", "string emptied") \in done.notes
      BY <1>2 DEF WriteStringFile, Outcome
    <2> HIDE DEF done
    <2> QED
      BY <2>1 DEF Noted, Note, done
  <1>3. CASE IsOfType(s, l, StringFile) /\ fits
    <2>1. done.sign = n
      BY <1>3 DEF WriteStringFile, Outcome, With
    <2>2. l \in DOMAIN new /\ new[l] = c.body
      BY PutThere
    <2> HIDE DEF new
    <2>3. n["strings"] = new
      <3>1. "strings" \in SignFields
        BY DEF SignFields
      <3> QED
        BY <3>1, OneFieldChanged DEF Differs
    <2> HIDE DEF n
    <2> QED
      BY <2>1, <2>2, <2>3
  <1> QED
    BY <1>1, <1>2, <1>3

LEMMA DotsIsNoted ==
  ASSUME NEW s, IsSign(s), NEW c
  PROVE  LET done == WriteDotsFile(s, c)
         IN \/ Noted(done.notes)
            \/ c.label \in DOMAIN done.sign.pictures /\ done.sign.pictures[c.label] = c.rows
  <1> DEFINE done == WriteDotsFile(s, c)
             l == c.label
             new == Put(s.pictures, l, c.rows)
             n == With(s, "pictures", new)
  <1>1. CASE ~IsOfType(s, l, DotsFile)
    <2>1. Note("violation", "discarded") \in done.notes
      BY <1>1 DEF WriteDotsFile, Outcome
    <2> HIDE DEF done
    <2> QED
      BY <2>1 DEF Noted, Note, done
  <1>2. CASE IsOfType(s, l, DotsFile)
    <2>1. done.sign = n
      BY <1>2 DEF WriteDotsFile, Outcome, With
    <2>2. l \in DOMAIN new /\ new[l] = c.rows
      BY PutThere
    <2> HIDE DEF new
    <2>3. n["pictures"] = new
      <3>1. "pictures" \in SignFields
        BY DEF SignFields
      <3> QED
        BY <3>1, OneFieldChanged DEF Differs
    <2> HIDE DEF n
    <2> QED
      BY <2>1, <2>2, <2>3
  <1> QED
    BY <1>1, <1>2

LEMMA ApplyIsNoted ==
  ASSUME NEW s, IsSign(s), NEW c, IsDecoded(c)
  PROVE  Noted(Apply(s, c).notes) \/ Holds(Apply(s, c).sign, c)
  <1> DEFINE done == Apply(s, c)
  <1>1. CASE c.malformed
    <2>1. Note("violation", "too incomplete") \in done.notes
      BY <1>1 DEF Apply, IsTooIncomplete, Outcome
    <2> HIDE DEF done
    <2> QED
      BY <2>1 DEF Noted, Note, done
  <1>2. CASE ~c.malformed
    <2>1. CASE c.op = "text"
      <3>1. done = WriteTextFile(s, c)
        BY <1>2, <2>1 DEF Apply, IsTooIncomplete
      <3>2. Noted(done.notes) \/ TextHeld(done.sign, c)
        BY <2>1, <3>1, TextIsNoted
      <3> HIDE DEF done
      <3>3. TextHeld(done.sign, c) => Holds(done.sign, c)
        BY <2>1 DEF TextHeld, Holds, Draws
      <3> QED
        BY <3>2, <3>3 DEF done
    <2>2. CASE c.op = "string"
      <3>1. done = WriteStringFile(s, c)
        BY <1>2, <2>2 DEF Apply, IsTooIncomplete
      <3>2. \/ Noted(done.notes)
            \/ c.label \in DOMAIN done.sign.strings /\ done.sign.strings[c.label] = c.body
        BY <3>1, StringIsNoted
      <3> HIDE DEF done
      <3> QED
        BY <2>2, <3>2 DEF Holds, done
    <2>3. CASE c.op = "dots"
      <3>1. done = WriteDotsFile(s, c)
        BY <1>2, <2>3 DEF Apply, IsTooIncomplete
      <3>2. \/ Noted(done.notes)
            \/ c.label \in DOMAIN done.sign.pictures /\ done.sign.pictures[c.label] = c.rows
        BY <3>1, DotsIsNoted
      <3> HIDE DEF done
      <3> QED
        BY <2>3, <3>2 DEF Holds, done
    <2>4. CASE c.op \notin {"text", "string", "dots"}
      <3> HIDE DEF done
      <3> QED
        BY <2>4 DEF Holds, done
    <2> QED
      BY <2>1, <2>2, <2>3, <2>4
  <1>3. c.malformed \in BOOLEAN
    BY DEF IsDecoded
  <1> QED
    BY <1>1, <1>2, <1>3

\* What is known of the last read: the sign is what it made of what it found.
LastTold ==
  /\ IsSign(last.before)
  /\ last.found # <<>> =>
       LET done == Applied(last.before, last.found)
       IN sign = done.sign /\ last.notes = done.notes

LEMMA NothingIsTold ==
  /\ last = NothingFound => LastTold
  /\ last' = NothingFound => LastTold'
  <1>1. IsSign(NothingFound.before) /\ NothingFound.found = <<>>
    BY BlankIsHeld DEF NothingFound
  <1> QED
    BY <1>1 DEF LastTold

LEMMA LastToldNext == Inv /\ LastTold /\ [Next]_vars => LastTold'
  <1> SUFFICES ASSUME Inv, LastTold, [Next]_vars PROVE LastTold'
    OBVIOUS
  <1>1. ASSUME NEW k \in Sockets, ReadSome(k) PROVE LastTold'
    <2>1. PICK n \in Readable(k) :
            LET fed == Feed(scanner[k], SubSeq(flight[k], 1, n))
                done == Applied(sign, fed.found)
            IN /\ sign' = done.sign
               /\ last' = IF fed.found = <<>> THEN NothingFound
                          ELSE [found |-> fed.found, due |-> due[k], notes |-> done.notes,
                                before |-> sign, cut |-> cut[k], lossy |-> lossy[k]]
      BY <1>1 DEF ReadSome
    <2> DEFINE fed == Feed(scanner[k], SubSeq(flight[k], 1, n))
               done == Applied(sign, fed.found)
    <2>2. /\ sign' = done.sign
          /\ last' = IF fed.found = <<>> THEN NothingFound
                     ELSE [found |-> fed.found, due |-> due[k], notes |-> done.notes,
                           before |-> sign, cut |-> cut[k], lossy |-> lossy[k]]
      BY <2>1
    <2> HIDE DEF fed
    <2>3. CASE fed.found = <<>>
      BY <2>2, <2>3, NothingIsTold
    <2>4. CASE fed.found # <<>>
      <3>1. last'.found = fed.found /\ last'.before = sign /\ last'.notes = done.notes
        BY <2>2, <2>4
      <3>2. IsSign(sign)
        BY DEF Inv
      <3> QED
        BY <2>2, <3>1, <3>2 DEF LastTold
    <2> QED
      BY <2>3, <2>4
  <1>2. CASE UNCHANGED vars
    BY <1>2 DEF vars, LastTold
  <1>3. CASE Next
    <2>1. last' = NothingFound \/ \E k \in Sockets : ReadSome(k)
      BY <1>3 DEF Next, Send, SendCutShort, Begins, Accept, DropClient, Discard, Pause,
         Resume, ResetSign
    <2> QED
      BY <1>1, <2>1, NothingIsTold, SMTT(30)
  <1> QED
    BY <1>2, <1>3

\* One transmission is applied to the sign as it was.
LEMMA OneApplied ==
  ASSUME NEW s, NEW found \in Seq(Transmissions), Len(found) = 1
  PROVE  Applied(s, found) = Effect(s, found[1])
  <1>1. PICK g : Applies(s, found, 1, g) /\ Applied(s, found) = g[1]
    BY AppliedIs
  <1>2. \A n \in 0 .. 1 :
          g[n] = IF n = 0 THEN Outcome(s, {}) ELSE Effect(g[n - 1].sign, found[n])
    BY <1>1 DEF Applies
  <1>3. 0 \in 0 .. 1 /\ 1 \in 0 .. 1 /\ 1 # 0 /\ 1 - 1 = 0
    OBVIOUS
  <1>4. g[0] = Outcome(s, {})
    BY <1>2, <1>3
  <1>5. g[1] = Effect(g[0].sign, found[1])
    BY <1>2, <1>3
  <1>6. g[0].sign = s
    BY <1>4 DEF Outcome
  <1> QED
    BY <1>1, <1>5, <1>6

\* Where the sign does not hold what it was sent, or draws nothing for a call in it,
\* it says so, whatever is sent and whatever it held: the notes of model.py.
THEOREM LossesAreNoted == Spec => []QuietLossesAreNoted
  <1>1. Init => LastTold
    BY NothingIsTold DEF Init
  <1>2. Spec => []LastTold
    BY <1>1, LastToldNext, SimulatorIsInv, PTL DEF Spec
  <1>3. Inv /\ LastTold => QuietLossesAreNoted
    <2> SUFFICES ASSUME Inv, LastTold, Len(last.found) = 1
                 PROVE  \/ Holds(sign, Decode(last.found[1].raw,
                                              last.found[1].truncated).command)
                        \/ Noted(last.notes)
      BY DEF QuietLossesAreNoted, Noted
    <2> DEFINE t == last.found[1]
               c == Decode(t.raw, t.truncated).command
               done == Apply(last.before, c)
    <2>1. last.found \in Seq(Transmissions)
      BY DEF Inv
    <2>2. t \in Transmissions /\ last.found # <<>>
      BY <2>1
    <2>3. IsDecoded(c)
      BY <2>2, DecodeDecodes
    <2>4. Applied(last.before, last.found) = done
      BY <2>1, OneApplied, Zenon DEF Effect
    <2> HIDE DEF t, c, done
    <2>5. sign = done.sign /\ last.notes = done.notes /\ IsSign(last.before)
      BY <2>2, <2>4 DEF LastTold
    <2>6. Noted(done.notes) \/ Holds(done.sign, c)
      BY <2>3, <2>5, ApplyIsNoted DEF done
    <2> QED
      BY <2>5, <2>6 DEF c, t
  <1> QED
    BY <1>2, <1>3, SimulatorIsInv, PTL

-----------------------------------------------------------------------------
(* What is built is read.                                                  *)
LEMMA Joined ==
  ASSUME NEW S, NEW x \in Seq(S), NEW y \in Seq(S)
  PROVE  /\ x \o y \in Seq(S) /\ Len(x \o y) = Len(x) + Len(y)
         /\ Len(x) \in Nat /\ Len(y) \in Nat
         /\ \A i \in 1 .. Len(x) : (x \o y)[i] = x[i]
         /\ \A i \in 1 .. Len(y) : (x \o y)[Len(x) + i] = y[i]
  OBVIOUS

LEMMA SameElements ==
  ASSUME NEW S, NEW x \in Seq(S), NEW y \in Seq(S), Len(x) = Len(y),
         \A i \in 1 .. Len(y) : x[i] = y[i]
  PROVE  x = y
  OBVIOUS

LEMMA PartBetween ==
  ASSUME NEW S, NEW x \in Seq(S), NEW y \in Seq(S), NEW z \in Seq(S)
  PROVE  /\ x \o (y \o z) \in Seq(S)
         /\ Slice(x \o (y \o z), Len(x), Len(x) + Len(y)) = y
         /\ After(x \o (y \o z), Len(x) + Len(y)) = z
  <1> DEFINE w == x \o (y \o z)
             a == Len(x)
             b == Len(x) + Len(y)
             u == Slice(w, a, b)
             v == After(w, b)
  <1>1. /\ w \in Seq(S) /\ Len(w) = Len(x) + Len(y) + Len(z)
        /\ Len(x) \in Nat /\ Len(y) \in Nat /\ Len(z) \in Nat
        /\ \A i \in 1 .. Len(y) : w[a + i] = y[i]
        /\ \A i \in 1 .. Len(z) : w[b + i] = z[i]
    <2>1. y \o z \in Seq(S) /\ Len(y \o z) = Len(y) + Len(z)
          /\ (\A i \in 1 .. Len(y) : (y \o z)[i] = y[i])
          /\ (\A i \in 1 .. Len(z) : (y \o z)[Len(y) + i] = z[i])
          /\ Len(x) \in Nat /\ Len(y) \in Nat /\ Len(z) \in Nat
      OBVIOUS
    <2> DEFINE q == y \o z
    <2> HIDE DEF q
    <2>2. x \o q \in Seq(S) /\ Len(x \o q) = Len(x) + Len(q)
          /\ \A i \in 1 .. Len(q) : (x \o q)[Len(x) + i] = q[i]
      BY <2>1 DEF q
    <2>3. \A i \in 1 .. Len(y) : i \in 1 .. Len(y) + Len(z)
      BY <2>1
    <2>4. \A i \in 1 .. Len(z) : Len(y) + i \in 1 .. Len(y) + Len(z)
                                 /\ b + i = Len(x) + (Len(y) + i)
      BY <2>1
    <2>5. Len(q) = Len(y) + Len(z) /\ w = x \o q
      BY <2>1 DEF q
    <2> HIDE DEF w, b
    <2>6. \A i \in 1 .. Len(y) : w[a + i] = y[i]
      BY <2>1, <2>2, <2>3, <2>5 DEF q
    <2>7. \A i \in 1 .. Len(z) : w[b + i] = z[i]
      <3> TAKE i \in 1 .. Len(z)
      <3>1. w[b + i] = w[Len(x) + (Len(y) + i)] /\ Len(y) + i \in 1 .. Len(q)
        BY <2>4, <2>5
      <3>2. w[Len(x) + (Len(y) + i)] = q[Len(y) + i]
        BY <2>2, <2>5, <3>1
      <3>3. q[Len(y) + i] = z[i]
        BY <2>1 DEF q
      <3> QED
        BY <3>1, <3>2, <3>3
    <2>8. Len(w) = Len(x) + Len(y) + Len(z)
      BY <2>1, <2>2, <2>5
    <2> QED
      BY <2>1, <2>2, <2>5, <2>6, <2>7, <2>8
  <1>2. a \in Nat /\ b \in Nat /\ a <= b /\ b <= Len(w)
    BY <1>1
  <1>9. b = Len(x) + Len(y) /\ a = Len(x)
    OBVIOUS
  <1>10. w \in Seq(S) /\ a \in Nat /\ b \in Nat
    BY <1>1, <1>2
  <1> HIDE DEF w, a, b
  <1>3. /\ u \in Seq(S)
        /\ Len(u) = IF a <= Min2(b, Len(w)) THEN Min2(b, Len(w)) - a ELSE 0
        /\ \A i \in 1 .. Len(u) : u[i] = w[a + i]
    BY <1>10, SliceTyped
  <1>4. /\ v \in Seq(S)
        /\ Len(v) = IF b <= Len(w) THEN Len(w) - b ELSE 0
        /\ \A i \in 1 .. Len(v) : v[i] = w[b + i]
    BY <1>10, AfterTyped
  <1>5. Min2(b, Len(w)) = b
    <2>1. \A m, n \in Nat : m <= n => Min2(m, n) = m
      BY DEF Min2
    <2>2. Len(w) \in Nat
      BY <1>1
    <2> QED
      BY <1>2, <2>1, <2>2
  <1> HIDE DEF u, v
  <1>6. Len(u) = Len(y) /\ Len(v) = Len(z)
    BY <1>1, <1>2, <1>3, <1>4, <1>5, <1>9
  <1>7. u = y
    <2>1. \A i \in 1 .. Len(y) : u[i] = y[i]
      BY <1>1, <1>3, <1>6
    <2> QED
      BY <1>3, <1>6, <2>1, SameElements
  <1>8. v = z
    <2>1. \A i \in 1 .. Len(z) : v[i] = z[i]
      BY <1>1, <1>4, <1>6
    <2> QED
      BY <1>4, <1>6, <2>1, SameElements
  <1> QED
    BY <1>1, <1>7, <1>8 DEF u, v, w, a, b

LEMMA WhatFollows ==
  ASSUME NEW S, NEW x \in Seq(S), NEW z \in Seq(S)
  PROVE  After(x \o z, Len(x)) = z
  <1> DEFINE y == <<>>
  <1>1. y \in Seq(S) /\ y \o z = z /\ Len(y) = 0 /\ Len(x) \in Nat
    BY ConcatEmptySeq
  <1> HIDE DEF y
  <1>2. After(x \o (y \o z), Len(x) + Len(y)) = z
    <2>1. y \in Seq(S)
      BY <1>1
    <2> QED
      BY <2>1, PartBetween
  <1>3. Len(x) + Len(y) = Len(x)
    BY <1>1
  <1> QED
    BY <1>1, <1>2, <1>3

\* A payload by its two first bytes.
LEMMA PayloadIs ==
  ASSUME NEW a \in Nat, NEW b \in Nat, NEW q \in Seq(Nat)
  PROVE  LET p == <<a, b>> \o q
         IN /\ p \in Seq(Nat) /\ Len(p) >= 2 /\ Len(p) = 2 + Len(q) /\ p # <<>>
            /\ p[1] = a /\ p[2] = b
            /\ First(p, -1) = a /\ After(p, 2) = q
  <1> DEFINE h == <<a, b>>
             p == h \o q
  <1>1. h \in Seq(Nat) /\ Len(h) = 2 /\ h[1] = a /\ h[2] = b /\ Len(q) \in Nat
    OBVIOUS
  <1> HIDE DEF h
  <1>2. p \in Seq(Nat) /\ Len(p) = 2 + Len(q) /\ p[1] = a /\ p[2] = b
    <2>1. /\ p \in Seq(Nat) /\ Len(p) = Len(h) + Len(q)
          /\ \A i \in 1 .. Len(h) : p[i] = h[i]
      BY <1>1, Joined, ZenonT(40)
    <2> HIDE DEF p
    <2>2. 1 \in 1 .. Len(h) /\ 2 \in 1 .. Len(h)
      BY <1>1
    <2> QED
      BY <1>1, <2>1, <2>2
  <1>3. After(p, 2) = q
    BY <1>1, WhatFollows
  <1> HIDE DEF p
  <1>4. p # <<>> /\ Len(p) >= 2
    BY <1>1, <1>2
  <1>5. First(p, -1) = a
    BY <1>2, <1>4 DEF First
  <1> QED
    BY <1>1, <1>2, <1>3, <1>4, <1>5 DEF p, h

\* The payload of a whole transmission is what it was sent with.
LEMMA FrameHolds ==
  ASSUME NEW p \in Seq(Nat)
  PROVE  Decode(Header \o p \o <<EOT>>, FALSE).command = DecodePayload(p).command
  <1> DEFINE e == <<EOT>>
             raw == Header \o (p \o e)
             to == Len(raw) - 1
  <1>1. Header \in Seq(Nat) /\ e \in Seq(Nat) /\ Len(e) = 1 /\ Len(p) \in Nat
    BY DEF Header, SOH, STX, EOT
  <1>2. Len(Header) = 5
    BY HeaderIsFive
  <1> HIDE DEF e
  <1>3. (Header \o p) \o e = raw
    <2> DEFINE S == Nat
    <2>1. Header \in Seq(S) /\ p \in Seq(S) /\ e \in Seq(S)
      BY <1>1
    <2> HIDE DEF S
    <2>2. \A x, y, z \in Seq(S) : (x \o y) \o z = x \o (y \o z)
      BY Associative
    <2> QED
      BY <2>1, <2>2
  <1>4. Slice(raw, Len(Header), Len(Header) + Len(p)) = p
    BY <1>1, PartBetween
  <1>5. to = Len(Header) + Len(p)
    <2> DEFINE q == p \o e
    <2>1. q \in Seq(Nat) /\ Len(q) = Len(p) + Len(e)
      BY <1>1, Joined
    <2> HIDE DEF q
    <2>2. Len(Header \o q) = Len(Header) + Len(q)
      BY <1>1, <2>1, Joined
    <2>3. Len(raw) = Len(Header) + Len(q)
      BY <2>2 DEF q
    <2> HIDE DEF raw
    <2> QED
      BY <1>1, <1>2, <2>1, <2>3
  <1> HIDE DEF raw
  <1>6. Slice(raw, Len(Header), Len(raw) - 1) = p
    BY <1>4, <1>5
  <1>7. Decode(raw, FALSE).command = DecodePayload(Slice(raw, Len(Header), Len(raw) - 1)).command
    BY DEF Decode
  <1> QED
    BY <1>3, <1>6, <1>7 DEF e

\* One element of a sequence, cut out of it.
LEMMA OneOf ==
  ASSUME NEW S, NEW s \in Seq(S), NEW i \in Nat, i < Len(s)
  PROVE  Slice(s, i, i + 1) = <<s[i + 1]>>
  <1> DEFINE j == i + 1
             w == Slice(s, i, j)
             x == s[j]
  <1>1. j \in Nat /\ j \in 1 .. Len(s) /\ Len(s) \in Nat /\ x \in S
    OBVIOUS
  <1>2. Min2(j, Len(s)) = j
    <2>1. \A m, n \in Nat : m <= n => Min2(m, n) = m
      BY DEF Min2
    <2> HIDE DEF j
    <2> QED
      BY <1>1, <2>1
  <1>3. j - i = 1 /\ i <= j
    OBVIOUS
  <1> HIDE DEF j
  <1>4. /\ w \in Seq(S)
        /\ Len(w) = IF i <= Min2(j, Len(s)) THEN Min2(j, Len(s)) - i ELSE 0
        /\ \A k \in 1 .. Len(w) : w[k] = s[i + k]
    BY <1>1, SliceTyped
  <1> HIDE DEF w
  <1>5. Len(w) = 1
    BY <1>2, <1>3, <1>4
  <1>6. w[1] = x
    <2>1. 1 \in 1 .. Len(w) /\ i + 1 = j
      BY <1>5 DEF j
    <2> QED
      BY <1>4, <2>1
  <1> HIDE DEF x
  <1>7. <<x>> \in Seq(S) /\ Len(<<x>>) = 1 /\ <<x>>[1] = x
    BY <1>1
  <1>8. w = <<x>>
    BY <1>4, <1>5, <1>6, <1>7
  <1> QED
    BY <1>8 DEF w, x, j

\* A record is known by its fields.
Fields ==
  {"op", "malformed", "label", "som", "position", "mode", "body", "rows", "size",
   "entries", "labels"}
IsCommand(c) == c = [f \in Fields |-> c[f]]

LEMMA SameCommand ==
  ASSUME NEW c, NEW d, IsCommand(c), IsCommand(d), \A f \in Fields : c[f] = d[f]
  PROVE  c = d
  <1> HIDE DEF Fields
  <1> QED
    BY DEF IsCommand

LEMMA NothingIsCommand ==
  /\ IsCommand(Nothing) /\ Nothing.malformed = FALSE /\ Nothing.som = FALSE
  /\ Nothing.position = <<>> /\ Nothing.mode = <<>> /\ Nothing.body = <<>>
  BY DEF Nothing, IsCommand, Fields

LEMMA MessageIs ==
  ASSUME NEW l, NEW mode, NEW body
  PROVE  [Nothing EXCEPT !.op = "text", !.label = l, !.som = TRUE, !.malformed = FALSE,
            !.position = <<Middle>>, !.mode = mode, !.body = body]
           = Message(l, mode, body)
  <1> DEFINE c == [Nothing EXCEPT !.op = "text", !.label = l, !.som = TRUE,
                     !.malformed = FALSE, !.position = <<Middle>>, !.mode = mode,
                     !.body = body]
             d == Message(l, mode, body)
  <1>1. /\ IsCommand(c)
        /\ c.op = "text" /\ c.label = l /\ c.som = TRUE /\ c.malformed = FALSE
        /\ c.position = <<Middle>> /\ c.mode = mode /\ c.body = body
        /\ c.rows = Nothing.rows /\ c.size = Nothing.size
        /\ c.entries = Nothing.entries /\ c.labels = Nothing.labels
    <2>1. \A x : IsCommand(x) =>
            LET y == [x EXCEPT !.op = "text", !.label = l, !.som = TRUE, !.malformed = FALSE,
                      !.position = <<Middle>>, !.mode = mode, !.body = body]
            IN /\ IsCommand(y)
               /\ y.op = "text" /\ y.label = l /\ y.som = TRUE /\ y.malformed = FALSE
               /\ y.position = <<Middle>> /\ y.mode = mode /\ y.body = body
               /\ y.rows = x.rows /\ y.size = x.size
               /\ y.entries = x.entries /\ y.labels = x.labels
      BY ZenonT(40) DEF IsCommand, Fields
    <2> QED
      BY <2>1, NothingIsCommand
  <1>2. /\ IsCommand(d)
        /\ d.op = "text" /\ d.label = l /\ d.som = TRUE /\ d.malformed = Nothing.malformed
        /\ d.position = <<Middle>> /\ d.mode = mode /\ d.body = body
        /\ d.rows = Nothing.rows /\ d.size = Nothing.size
        /\ d.entries = Nothing.entries /\ d.labels = Nothing.labels
    <2>1. \A x : IsCommand(x) =>
            LET y == [x EXCEPT !.op = "text", !.label = l, !.som = TRUE,
                      !.position = <<Middle>>, !.mode = mode, !.body = body]
            IN /\ IsCommand(y)
               /\ y.op = "text" /\ y.label = l /\ y.som = TRUE /\ y.malformed = x.malformed
               /\ y.position = <<Middle>> /\ y.mode = mode /\ y.body = body
               /\ y.rows = x.rows /\ y.size = x.size
               /\ y.entries = x.entries /\ y.labels = x.labels
      BY DEF IsCommand, Fields
    <2> QED
      BY <2>1, NothingIsCommand DEF Message
  <1> HIDE DEF c, d
  <1>3. \A f \in Fields : c[f] = d[f]
    BY <1>1, <1>2, NothingIsCommand DEF Fields
  <1>4. c = d
    BY <1>1, <1>2, <1>3, SameCommand
  <1> QED
    BY <1>4 DEF c, d

LEMMA ReleaseIs ==
  [Nothing EXCEPT !.op = "text", !.label = PriorityFile, !.som = FALSE,
     !.malformed = FALSE, !.position = <<>>, !.mode = <<>>, !.body = <<>>]
    = Release
  <1> DEFINE c == [Nothing EXCEPT !.op = "text", !.label = PriorityFile, !.som = FALSE,
                     !.malformed = FALSE, !.position = <<>>, !.mode = <<>>, !.body = <<>>]
             d == Release
  <1>1. /\ IsCommand(c)
        /\ c.op = "text" /\ c.label = PriorityFile /\ c.som = FALSE /\ c.malformed = FALSE
        /\ c.position = <<>> /\ c.mode = <<>> /\ c.body = <<>>
        /\ c.rows = Nothing.rows /\ c.size = Nothing.size
        /\ c.entries = Nothing.entries /\ c.labels = Nothing.labels
    <2>1. \A x : IsCommand(x) =>
            LET y == [x EXCEPT !.op = "text", !.label = PriorityFile, !.som = FALSE, !.malformed = FALSE,
                      !.position = <<>>, !.mode = <<>>, !.body = <<>>]
            IN /\ IsCommand(y)
               /\ y.op = "text" /\ y.label = PriorityFile /\ y.som = FALSE /\ y.malformed = FALSE
               /\ y.position = <<>> /\ y.mode = <<>> /\ y.body = <<>>
               /\ y.rows = x.rows /\ y.size = x.size
               /\ y.entries = x.entries /\ y.labels = x.labels
      BY DEF IsCommand, Fields
    <2> QED
      BY <2>1, NothingIsCommand
  <1>2. /\ IsCommand(d) /\ d.op = "text" /\ d.label = PriorityFile
        /\ \A f \in Fields \ {"op", "label"} : d[f] = Nothing[f]
    <2>1. \A x : IsCommand(x) =>
            LET y == [x EXCEPT !.op = "text", !.label = PriorityFile]
            IN /\ IsCommand(y) /\ y.op = "text" /\ y.label = PriorityFile
               /\ \A f \in Fields \ {"op", "label"} : y[f] = x[f]
      BY DEF IsCommand, Fields
    <2> QED
      BY <2>1, NothingIsCommand DEF Release
  <1> HIDE DEF c, d
  <1>3. \A f \in Fields : c[f] = d[f]
    BY <1>1, <1>2, NothingIsCommand DEF Fields
  <1>4. c = d
    BY <1>1, <1>2, <1>3, SameCommand
  <1> QED
    BY <1>4 DEF c, d

LEMMA PictureIs ==
  ASSUME NEW l, NEW rows
  PROVE  [Nothing EXCEPT !.op = "dots", !.label = l, !.rows = rows,
            !.size = <<Len(rows), Len(rows[1])>>]
           = Picture(l, rows)
  BY DEF Picture, Nothing

LEMMA ClockIs ==
  ASSUME NEW op, NEW body
  PROVE  [Clock(op, body) EXCEPT !.malformed = FALSE] = Clock(op, body)
  <1> DEFINE c == Clock(op, body)
             d == [c EXCEPT !.malformed = FALSE]
  <1>1. IsCommand(c) /\ c.malformed = Nothing.malformed
    <2>1. \A x : IsCommand(x) =>
            LET y == [x EXCEPT !.op = op, !.body = body]
            IN IsCommand(y) /\ y.malformed = x.malformed
      BY DEF IsCommand, Fields
    <2> QED
      BY <2>1, NothingIsCommand DEF Clock
  <1> HIDE DEF c
  <1>2. IsCommand(d) /\ \A f \in Fields : d[f] = c[f]
    BY <1>1, NothingIsCommand DEF IsCommand, Fields
  <1> HIDE DEF d
  <1>3. d = c
    BY <1>1, <1>2, SameCommand
  <1> QED
    BY <1>3 DEF c, d

Reads(p, c) == DecodePayload(p).command = c

\* Which decoder reads a payload.
LEMMA DecoderOf ==
  ASSUME NEW b \in Nat, NEW q \in Seq(Nat)
  PROVE  /\ DecodePayload(<<WriteText, b>> \o q) = ReadMessage(<<WriteText, b>> \o q)
         /\ DecodePayload(<<WriteString, b>> \o q) = ReadValue(<<WriteString, b>> \o q)
         /\ DecodePayload(<<WriteDots, b>> \o q) = ReadPicture(<<WriteDots, b>> \o q)
         /\ DecodePayload(<<WriteSpecial, b>> \o q) = ReadSpecial(<<WriteSpecial, b>> \o q)
  <1>1. ASSUME NEW a \in {WriteText, WriteString, WriteDots, WriteSpecial}
        PROVE  <<a, b>> \o q # <<>> /\ First(<<a, b>> \o q, -1) = a
    <2>1. a \in Nat
      BY DEF WriteText, WriteString, WriteDots, WriteSpecial
    <2> QED
      BY <2>1, PayloadIs
  <1>2. ASSUME NEW p, p # <<>>
        PROVE  /\ First(p, -1) = WriteText => DecodePayload(p) = ReadMessage(p)
               /\ First(p, -1) = WriteString => DecodePayload(p) = ReadValue(p)
               /\ First(p, -1) = WriteDots => DecodePayload(p) = ReadPicture(p)
               /\ First(p, -1) = WriteSpecial => DecodePayload(p) = ReadSpecial(p)
    <2> DEFINE f == First(p, -1)
    <2>1. DecodePayload(p) =
            CASE p = <<>> -> Unread(p, <<>>)
              [] f = WriteText -> ReadMessage(p)
              [] f = WriteString -> ReadValue(p)
              [] f = WriteDots -> ReadPicture(p)
              [] f = WriteSpecial -> ReadSpecial(p)
              [] OTHER -> ReadOther(p)
      BY DEF DecodePayload
    <2> HIDE DEF f
    <2>2. /\ f = WriteText => DecodePayload(p) = ReadMessage(p)
          /\ f = WriteString => DecodePayload(p) = ReadValue(p)
          /\ f = WriteDots => DecodePayload(p) = ReadPicture(p)
          /\ f = WriteSpecial => DecodePayload(p) = ReadSpecial(p)
      BY <1>2, <2>1 DEF WriteText, WriteString, WriteDots, WriteSpecial
    <2> QED
      BY <2>2 DEF f
  <1>3. \A a \in {WriteText, WriteString, WriteDots, WriteSpecial} :
          <<a, b>> \o q # <<>> /\ First(<<a, b>> \o q, -1) = a
    BY <1>1
  <1>4. /\ <<WriteText, b>> \o q # <<>> /\ First(<<WriteText, b>> \o q, -1) = WriteText
        /\ <<WriteString, b>> \o q # <<>> /\ First(<<WriteString, b>> \o q, -1) = WriteString
        /\ <<WriteDots, b>> \o q # <<>> /\ First(<<WriteDots, b>> \o q, -1) = WriteDots
        /\ <<WriteSpecial, b>> \o q # <<>>
        /\ First(<<WriteSpecial, b>> \o q, -1) = WriteSpecial
    BY <1>3, Zenon
  <1> QED
    BY <1>2, <1>4

LEMMA ValueReads ==
  ASSUME NEW l \in Nat, NEW data \in Seq(Nat)
  PROVE  Reads(Payload(Value(l, data)), Value(l, data))
  <1> DEFINE c == Value(l, data)
             p == <<WriteString, l>> \o data
  <1>1. c.op = "string" /\ c.label = l /\ c.body = data /\ c # Release
    <2>1. c.op = "string" /\ c.label = l /\ c.body = data
      BY DEF Value, Nothing
    <2>2. Release.op = "text"
      BY DEF Release, Nothing
    <2> HIDE DEF c
    <2> QED
      BY <2>1, <2>2
  <1>2. Payload(c) = p
    <2> HIDE DEF c
    <2> QED
      BY <1>1 DEF Payload
  <1>3. p[2] = l /\ After(p, 2) = data /\ Len(p) >= 2 /\ Len(p) \in Nat
    BY PayloadIs DEF WriteString
  <1>4. DecodePayload(p) = ReadValue(p)
    BY DecoderOf
  <1> HIDE DEF p
  <1>5. ReadValue(p).command = c
    BY <1>3 DEF ReadValue, Read
  <1> QED
    BY <1>2, <1>4, <1>5 DEF Reads

LEMMA ReleaseReads == Reads(Payload(Release), Release)
  <1> DEFINE p == <<WriteText, PriorityFile>>
             q == <<>>
  <1>1. Payload(Release) = p
    <2> DEFINE c == Release
    <2>1. c.op = "text"
      BY DEF Release, Nothing
    <2>2. c = Release
      OBVIOUS
    <2> HIDE DEF c
    <2>3. Payload(c) = p
      BY <2>1, <2>2 DEF Payload
    <2> QED
      BY <2>2, <2>3
  <1>2. PriorityFile \in Nat /\ WriteText \in Nat /\ q \in Seq(Nat)
    BY DEF PriorityFile, WriteText
  <1>3. p \o q = p
    <2>1. p \in Seq(Nat)
      BY <1>2
    <2> HIDE DEF p
    <2> QED
      BY <2>1, ConcatEmptySeq
  <1> HIDE DEF q
  <1>4. p[2] = PriorityFile /\ After(p, 2) = q /\ Len(p) >= 2 /\ Len(p) \in Nat
    <2> DEFINE o == p \o q
    <2>1. o = p
      BY <1>3
    <2>2. /\ o \in Seq(Nat) /\ Len(o) >= 2 /\ o[2] = PriorityFile /\ After(o, 2) = q
      BY <1>2, PayloadIs
    <2> HIDE DEF o
    <2> QED
      BY <2>1, <2>2
  <1>5. DecodePayload(p) = ReadMessage(p)
    BY <1>2, <1>3, DecoderOf
  <1> HIDE DEF p
  <1>6. First(After(p, 2), -1) # SOM
    BY <1>4 DEF First, SOM, q
  <1> DEFINE c == [Nothing EXCEPT !.op = "text", !.label = PriorityFile, !.som = FALSE,
                     !.malformed = FALSE, !.position = <<>>, !.mode = <<>>, !.body = <<>>]
  <1>7. ReadMessage(p).command = c
    <2> DEFINE rest == After(p, 2)
               som == First(rest, -1) = SOM
               modeLength == IF Slice(rest, 2, 3) = <<SpecialMode>> THEN 2 ELSE 1
               position == IF som THEN Slice(rest, 1, 2) ELSE <<>>
               mode == IF som THEN Slice(rest, 2, 2 + modeLength) ELSE <<>>
               body == IF som THEN After(rest, 2 + modeLength) ELSE rest
               bad == som /\ (position = <<>> \/ mode = <<>>)
    <2>1. som = FALSE /\ position = <<>> /\ mode = <<>> /\ body = <<>> /\ bad = FALSE
      BY <1>4, <1>6 DEF q
    <2>2. ~(Len(p) < 2)
      BY <1>4
    <2>3. ReadMessage(p).command =
            [Nothing EXCEPT !.op = "text", !.label = p[2], !.som = som,
               !.malformed = bad, !.position = position, !.mode = mode, !.body = body]
      BY <2>2, Zenon DEF ReadMessage, Read
    <2> HIDE DEF som, position, mode, body, bad
    <2> QED
      BY <1>4, <2>1, <2>3
  <1>8. c = Release
    BY ReleaseIs
  <1> HIDE DEF c
  <1> QED
    BY <1>1, <1>5, <1>7, <1>8 DEF Reads, p

LEMMA MessageReads ==
  ASSUME NEW l \in Nat, NEW mode, IsMode(mode), NEW body \in Seq(Nat)
  PROVE  Reads(Payload(Message(l, mode, body)), Message(l, mode, body))
  <1> DEFINE m == Message(l, mode, body)
             f == <<SOM, Middle>>
             r == f \o (mode \o body)
             p == <<WriteText, l>> \o r
  <1>1. mode \in Seq(Nat) /\ Len(mode) \in Nat /\ Len(mode) >= 1
        /\ Len(mode) = IF mode[1] = SpecialMode THEN 2 ELSE 1
    BY DEF IsMode
  <1>2. f \in Seq(Nat) /\ Len(f) = 2 /\ f[1] = SOM /\ f[2] = Middle
    BY DEF SOM, Middle
  <1>3. Payload(m) = p
    <2>1. /\ m.op = "text" /\ m.label = l /\ m.position = <<Middle>> /\ m.mode = mode
          /\ m.body = body /\ m.som = TRUE
      BY DEF Message, Nothing
    <2>2. Release.som = FALSE
      BY DEF Release, Nothing
    <2> HIDE DEF m
    <2>3. m # Release
      BY <2>1, <2>2
    <2>4. Payload(m) = ((<<WriteText, l, SOM>> \o <<Middle>>) \o mode) \o body
      BY <2>1, <2>3 DEF Payload
    <2>5. <<WriteText, l, SOM>> \o <<Middle>> = <<WriteText, l>> \o f
      <3> DEFINE u == <<WriteText, l, SOM>>
                 v == <<Middle>>
                 w == <<WriteText, l>>
                 x == u \o v
                 y == w \o f
      <3>1. u \in Seq(Nat) /\ v \in Seq(Nat) /\ w \in Seq(Nat)
            /\ Len(u) = 3 /\ Len(v) = 1 /\ Len(w) = 2
            /\ u[1] = w[1] /\ u[2] = w[2] /\ u[3] = SOM /\ v[1] = Middle
        BY DEF WriteText, SOM, Middle
      <3> HIDE DEF f, u, v, w
      <3>9. u \in Seq(Nat) /\ v \in Seq(Nat)
        BY <3>1
      <3>10. w \in Seq(Nat) /\ f \in Seq(Nat)
        BY <1>2, <3>1
      <3>2. /\ x \in Seq(Nat) /\ Len(x) = Len(u) + Len(v)
            /\ \A i \in 1 .. Len(u) : x[i] = u[i]
            /\ \A i \in 1 .. Len(v) : x[Len(u) + i] = v[i]
        BY <3>9, Joined
      <3>3. /\ y \in Seq(Nat) /\ Len(y) = Len(w) + Len(f)
            /\ \A i \in 1 .. Len(w) : y[i] = w[i]
            /\ \A i \in 1 .. Len(f) : y[Len(w) + i] = f[i]
        BY <3>10, Joined
      <3> HIDE DEF x, y
      <3>4. x[1] = w[1] /\ x[2] = w[2] /\ x[3] = SOM /\ x[3 + 1] = Middle
        BY <3>1, <3>2
      <3>5. y[1] = w[1] /\ y[2] = w[2] /\ y[2 + 1] = SOM /\ y[2 + 2] = Middle
        BY <1>2, <3>1, <3>3
      <3>6. Len(x) = 4 /\ Len(y) = 4
        BY <1>2, <3>1, <3>2, <3>3
      <3>7. \A i \in 1 .. Len(y) : x[i] = y[i]
        <4>1. \A i \in 1 .. 4 : i = 1 \/ i = 2 \/ i = 3 \/ i = 4
          OBVIOUS
        <4>2. 3 + 1 = 4 /\ 2 + 1 = 3 /\ 2 + 2 = 4
          OBVIOUS
        <4> QED
          BY <3>4, <3>5, <3>6, <4>1, <4>2
      <3>8. x = y
        BY <3>2, <3>3, <3>6, <3>7, SameElements
      <3> QED
        BY <3>8 DEF x, y, u, v, w
    <2> DEFINE h == <<WriteText, l>>
               S == Nat
    <2>6. h \in Seq(S) /\ f \in Seq(S) /\ mode \in Seq(S) /\ body \in Seq(S)
      BY <1>1, <1>2 DEF WriteText
    <2>7. \A x, y, z \in Seq(S) : (x \o y) \o z = x \o (y \o z) /\ x \o y \in Seq(S)
      <3> HIDE DEF S
      <3>1. \A x, y, z \in Seq(S) : (x \o y) \o z = x \o (y \o z)
        BY Associative, SMTT(30)
      <3>2. \A x, y \in Seq(S) : x \o y \in Seq(S)
        BY ConcatProperties
      <3> QED
        BY <3>1, <3>2
    <2> HIDE DEF h, f, S
    <2>8. ((h \o f) \o mode) \o body = h \o (f \o (mode \o body))
      <3>1. (h \o f) \o mode = h \o (f \o mode) /\ f \o mode \in Seq(S)
        BY <2>6, <2>7
      <3>2. (h \o (f \o mode)) \o body = h \o ((f \o mode) \o body)
        <4> DEFINE g == f \o mode
        <4>1. g \in Seq(S) /\ h \in Seq(S) /\ body \in Seq(S)
          BY <2>6, <3>1
        <4> HIDE DEF g
        <4>2. (h \o g) \o body = h \o (g \o body)
          BY <2>7, <4>1, Zenon
        <4> QED
          BY <4>2 DEF g
      <3>3. (f \o mode) \o body = f \o (mode \o body)
        BY <2>6, <2>7
      <3> QED
        BY <3>1, <3>2, <3>3
    <2> QED
      BY <2>4, <2>5, <2>8 DEF h
  <1> DEFINE q == mode \o body
  <1>4. /\ r \in Seq(Nat) /\ Len(r) = 2 + Len(mode) + Len(body) /\ Len(body) \in Nat
        /\ r[1] = SOM /\ r[2] = Middle /\ r[3] = mode[1]
    <2> HIDE DEF f
    <2>1. /\ q \in Seq(Nat) /\ Len(q) = Len(mode) + Len(body) /\ Len(body) \in Nat
          /\ \A i \in 1 .. Len(mode) : q[i] = mode[i]
      <3>1. mode \in Seq(Nat) /\ body \in Seq(Nat)
        BY <1>1
      <3> QED
        BY <3>1, Joined
    <2> HIDE DEF q
    <2>2. /\ r \in Seq(Nat) /\ Len(r) = Len(f) + Len(q)
          /\ \A i \in 1 .. Len(f) : r[i] = f[i]
          /\ \A i \in 1 .. Len(q) : r[Len(f) + i] = q[i]
      <3>1. f \o q = r
        BY DEF q
      <3> HIDE DEF r
      <3>3. f \in Seq(Nat) /\ q \in Seq(Nat)
        BY <1>2, <2>1
      <3>2. /\ f \o q \in Seq(Nat) /\ Len(f \o q) = Len(f) + Len(q)
            /\ \A i \in 1 .. Len(f) : (f \o q)[i] = f[i]
            /\ \A i \in 1 .. Len(q) : (f \o q)[Len(f) + i] = q[i]
        BY <3>3, Joined
      <3> QED
        BY <3>1, <3>2
    <2> HIDE DEF r
    <2>3. 1 \in 1 .. Len(mode) /\ 1 \in 1 .. Len(q) /\ Len(f) + 1 = 3
      BY <1>1, <1>2, <2>1
    <2>4. r[3] = mode[1]
      BY <2>1, <2>2, <2>3
    <2>5. 1 \in 1 .. Len(f) /\ 2 \in 1 .. Len(f)
      BY <1>2
    <2> QED
      BY <1>1, <1>2, <2>1, <2>2, <2>4, <2>5
  <1>5. /\ Slice(r, 2, 2 + Len(mode)) = mode
        /\ After(r, 2 + Len(mode)) = body
    <2> HIDE DEF f
    <2>1. /\ Slice(f \o (mode \o body), Len(f), Len(f) + Len(mode)) = mode
          /\ After(f \o (mode \o body), Len(f) + Len(mode)) = body
      <3>1. f \in Seq(Nat) /\ mode \in Seq(Nat) /\ body \in Seq(Nat)
        BY <1>1, <1>2
      <3> QED
        BY <3>1, PartBetween
    <2> QED
      BY <1>2, <2>1
  <1> HIDE DEF r
  <1>6. Slice(r, 1, 2) = <<Middle>> /\ Slice(r, 2, 3) = <<mode[1]>>
    <2>1. 1 \in Nat /\ 2 \in Nat /\ 1 < Len(r) /\ 2 < Len(r) /\ 1 + 1 = 2 /\ 2 + 1 = 3
      BY <1>1, <1>4
    <2>2. Slice(r, 1, 1 + 1) = <<r[1 + 1]>> /\ Slice(r, 2, 2 + 1) = <<r[2 + 1]>>
      BY <1>4, <2>1, OneOf
    <2> QED
      BY <1>4, <2>1, <2>2
  <1>7. /\ p[2] = l /\ After(p, 2) = r /\ Len(p) >= 2 /\ Len(p) \in Nat
    BY <1>4, PayloadIs DEF WriteText
  <1>8. DecodePayload(p) = ReadMessage(p)
    BY <1>4, DecoderOf
  <1> HIDE DEF p
  <1>9. First(r, -1) = SOM
    <2>1. r # <<>>
      BY <1>4
    <2> QED
      BY <1>4, <2>1 DEF First
  <1> DEFINE c == [Nothing EXCEPT !.op = "text", !.label = l, !.som = TRUE,
                     !.malformed = FALSE, !.position = <<Middle>>, !.mode = mode,
                     !.body = body]
  <1>10. ReadMessage(p).command = c
    <2> DEFINE som == First(r, -1) = SOM
               modeLength == IF Slice(r, 2, 3) = <<SpecialMode>> THEN 2 ELSE 1
               position == IF som THEN Slice(r, 1, 2) ELSE <<>>
               style == IF som THEN Slice(r, 2, 2 + modeLength) ELSE <<>>
               shown == IF som THEN After(r, 2 + modeLength) ELSE r
               bad == som /\ (position = <<>> \/ style = <<>>)
    <2>1. modeLength = Len(mode)
      <3>1. <<mode[1]>> = <<SpecialMode>> <=> mode[1] = SpecialMode
        OBVIOUS
      <3> QED
        BY <1>1, <1>6, <3>1
    <2>2. som = TRUE
      BY <1>9
    <2> HIDE DEF modeLength
    <2>3. position = <<Middle>> /\ style = mode /\ shown = body
      BY <1>5, <1>6, <2>1, <2>2
    <2>4. bad = FALSE
      <3>1. <<Middle>> # <<>> /\ mode # <<>>
        BY <1>1
      <3> HIDE DEF position, style, som
      <3> QED
        BY <2>3, <3>1
    <2>5. ~(Len(p) < 2)
      BY <1>7
    <2>6. ReadMessage(p).command =
            [Nothing EXCEPT !.op = "text", !.label = p[2], !.som = som,
               !.malformed = bad, !.position = position, !.mode = style, !.body = shown]
      BY <1>7, <2>5, Zenon DEF ReadMessage, Read, modeLength
    <2> HIDE DEF som, position, style, shown, bad
    <2> QED
      BY <1>7, <2>2, <2>3, <2>4, <2>6
  <1>11. c = m
    BY MessageIs
  <1> HIDE DEF c, m
  <1> QED
    BY <1>3, <1>8, <1>10, <1>11 DEF Reads, p, m

\* Which of the special functions a payload is.
LEMMA SpecialOf ==
  ASSUME NEW b \in Nat, NEW q \in Seq(Nat)
  PROVE  LET r == DecodePayload(<<WriteSpecial, b>> \o q).command
         IN /\ b = SetMemory => \E h : r = ReadConfiguration(q, h).command
            /\ b = SetSequence => \E h : r = ReadSequence(q, h).command
            /\ b = SetTime =>
                 \E h : r = ReadClock("time", q, IsTime(q), <<0, 0>>, Numbers(q), h).command
            /\ b = SetDay =>
                 \E h : r = ReadClock("day", q, IsDay(q), <<0>>, Numbers(q), h).command
            /\ b = SetFormat =>
                 \E h : r = ReadClock("format", q, q \in Formats, <<83>>, q, h).command
  <1> DEFINE p == <<WriteSpecial, b>> \o q
             head == <<Slice(p, 0, 1), Slice(p, 1, 2)>>
  <1>1. DecodePayload(p) = ReadSpecial(p)
    BY DecoderOf
  <1>2. p[2] = b /\ After(p, 2) = q /\ Len(p) >= 2 /\ Len(p) \in Nat
    BY PayloadIs DEF WriteSpecial
  <1> HIDE DEF p, head
  <1>3. ~(Len(p) < 2)
    BY <1>2
  <1>4. ReadSpecial(p) =
          CASE b = SetMemory -> ReadConfiguration(q, head)
            [] b = SetSequence -> ReadSequence(q, head)
            [] b = SetTime -> ReadClock("time", q, IsTime(q), <<0, 0>>, Numbers(q), head)
            [] b = SetDay -> ReadClock("day", q, IsDay(q), <<0>>, Numbers(q), head)
            [] b = SetFormat ->
                 ReadClock("format", q, q \in Formats, <<83>>, q, head)
            [] OTHER -> Unread(p, head \o Annotate(q))
    BY <1>2, <1>3 DEF ReadSpecial, head
  <1>5. /\ b = SetMemory => ReadSpecial(p) = ReadConfiguration(q, head)
        /\ b = SetSequence => ReadSpecial(p) = ReadSequence(q, head)
        /\ b = SetTime =>
             ReadSpecial(p) = ReadClock("time", q, IsTime(q), <<0, 0>>, Numbers(q), head)
        /\ b = SetDay =>
             ReadSpecial(p) = ReadClock("day", q, IsDay(q), <<0>>, Numbers(q), head)
        /\ b = SetFormat =>
             ReadSpecial(p) =
               ReadClock("format", q, q \in Formats, <<83>>, q, head)
    BY <1>4 DEF SetMemory, SetSequence, SetTime, SetDay, SetFormat
  <1> QED
    BY <1>1, <1>5 DEF p

LEMMA SequenceReads ==
  ASSUME NEW ls \in Seq(Nat)
  PROVE  Reads(Payload(Sequence(ls)), Sequence(ls))
  <1> DEFINE c == Sequence(ls)
             f == <<IgnoreTime, Unlocked>>
             q == f \o ls
             p == <<WriteSpecial, SetSequence>> \o q
  <1>1. f \in Seq(Nat) /\ Len(f) = 2 /\ SetSequence \in Nat /\ WriteSpecial \in Nat
    BY DEF IgnoreTime, Unlocked, SetSequence, WriteSpecial
  <1>2. Payload(c) = p
    <2> DEFINE g == <<WriteSpecial, SetSequence>>
               h == <<WriteSpecial, SetSequence, IgnoreTime, Unlocked>>
    <2>1. c.op = "sequence" /\ c.labels = ls
      BY DEF Sequence, Nothing
    <2>2. Release.op = "text"
      BY DEF Release, Nothing
    <2> HIDE DEF c
    <2>3. Payload(c) = h \o ls
      BY <2>1, <2>2 DEF Payload
    <2>4. g \in Seq(Nat) /\ h \in Seq(Nat) /\ Len(g) = 2 /\ Len(h) = 4
          /\ h[1] = g[1] /\ h[2] = g[2] /\ h[3] = f[1] /\ h[4] = f[2]
      BY <1>1 DEF IgnoreTime, Unlocked, SetSequence, WriteSpecial
    <2> HIDE DEF f, g, h
    <2>5. h = g \o f
      <3> DEFINE y == g \o f
      <3>1. g \in Seq(Nat) /\ f \in Seq(Nat)
        BY <1>1, <2>4
      <3>2. /\ y \in Seq(Nat) /\ Len(y) = Len(g) + Len(f)
            /\ \A i \in 1 .. Len(g) : y[i] = g[i]
            /\ \A i \in 1 .. Len(f) : y[Len(g) + i] = f[i]
        BY <3>1, Joined
      <3> HIDE DEF y
      <3>3. y[1] = g[1] /\ y[2] = g[2] /\ y[2 + 1] = f[1] /\ y[2 + 2] = f[2]
        BY <1>1, <2>4, <3>2
      <3>4. Len(y) = 4
        BY <1>1, <2>4, <3>2
      <3>5. \A i \in 1 .. Len(y) : h[i] = y[i]
        <4>1. \A i \in 1 .. 4 : i = 1 \/ i = 2 \/ i = 3 \/ i = 4
          OBVIOUS
        <4>2. 2 + 1 = 3 /\ 2 + 2 = 4
          OBVIOUS
        <4> QED
          BY <2>4, <3>3, <3>4, <4>1, <4>2
      <3>6. h = y
        BY <2>4, <3>2, <3>4, <3>5, SameElements
      <3> QED
        BY <3>6 DEF y
    <2>6. (g \o f) \o ls = g \o (f \o ls)
      <3> DEFINE S == Nat
      <3>1. g \in Seq(S) /\ f \in Seq(S) /\ ls \in Seq(S)
        BY <1>1, <2>4
      <3> HIDE DEF S
      <3>2. \A s, t, u \in Seq(S) : (s \o t) \o u = s \o (t \o u)
        BY Associative
      <3> QED
        BY <3>1, <3>2, Zenon
    <2> QED
      BY <2>3, <2>5, <2>6 DEF g
  <1>3. After(q, 2) = ls
    <2> HIDE DEF f
    <2> QED
      BY <1>1, WhatFollows
  <1>4. q \in Seq(Nat)
    <2> HIDE DEF f
    <2> QED
      BY <1>1, Joined
  <1> HIDE DEF q, c
  <1>5. PICK h : DecodePayload(p).command = ReadSequence(q, h).command
    BY <1>1, <1>4, SpecialOf
  <1>6. ReadSequence(q, h).command = c
    BY <1>3 DEF ReadSequence, Read, c
  <1> QED
    BY <1>2, <1>5, <1>6 DEF Reads, c

LEMMA WipeReads == Reads(Payload(Wipe), Wipe)
  <1> DEFINE c == Wipe
             f == <<WriteSpecial, SetMemory>>
             q == <<>>
             p == f \o q
  <1>1. f \in Seq(Nat) /\ q \in Seq(Nat) /\ SetMemory \in Nat
    BY DEF SetMemory, WriteSpecial
  <1>2. Payload(c) = f
    <2>1. c.op = "wipe"
      BY DEF Wipe, Nothing
    <2>2. Release.op = "text"
      BY DEF Release, Nothing
    <2> HIDE DEF c
    <2> QED
      BY <2>1, <2>2 DEF Payload
  <1>3. p = f
    <2> HIDE DEF f
    <2> QED
      BY <1>1, ConcatEmptySeq
  <1> HIDE DEF c, q
  <1>4. PICK h : DecodePayload(p).command = ReadConfiguration(q, h).command
    BY <1>1, SpecialOf
  <1>5. ReadConfiguration(q, h).command = c
    BY DEF ReadConfiguration, Read, c, q
  <1> QED
    BY <1>2, <1>3, <1>4, <1>5 DEF Reads, c

\* A command of the clock, by its parameter.
LEMMA ClockReads ==
  ASSUME NEW op \in {"time", "day", "format"}, NEW body, NEW b \in Nat, NEW q \in Seq(Nat),
         Payload(Clock(op, body)) = <<WriteSpecial, b>> \o q,
         op = "time" => b = SetTime /\ IsTime(q) /\ Numbers(q) = body,
         op = "day" => b = SetDay /\ IsDay(q) /\ Numbers(q) = body,
         op = "format" => b = SetFormat /\ q = body /\ q \in Formats
  PROVE  Reads(Payload(Clock(op, body)), Clock(op, body))
  <1> DEFINE c == Clock(op, body)
             p == <<WriteSpecial, b>> \o q
  <1>1. \A h, else : ReadClock(op, q, TRUE, else, body, h).command = c
    <2>1. \A h, else : ReadClock(op, q, TRUE, else, body, h).command =
                         [Clock(op, body) EXCEPT !.malformed = FALSE]
      BY DEF ReadClock, Read
    <2> QED
      BY <2>1, ClockIs
  <1> HIDE DEF c
  <1>2. CASE op = "time"
    <2>1. PICK h : DecodePayload(p).command =
                     ReadClock("time", q, IsTime(q), <<0, 0>>, Numbers(q), h).command
      BY <1>2, SpecialOf
    <2> QED
      BY <1>1, <1>2, <2>1 DEF Reads, c
  <1>3. CASE op = "day"
    <2>1. PICK h : DecodePayload(p).command =
                     ReadClock("day", q, IsDay(q), <<0>>, Numbers(q), h).command
      BY <1>3, SpecialOf
    <2> QED
      BY <1>1, <1>3, <2>1 DEF Reads, c
  <1>4. CASE op = "format"
    <2>1. PICK h : DecodePayload(p).command =
                     ReadClock("format", q, q \in Formats, <<83>>, q, h).command
      BY <1>4, SpecialOf
    <2> QED
      BY <1>1, <1>4, <2>1 DEF Reads, c
  <1> QED
    BY <1>2, <1>3, <1>4

LEMMA ClockPayload ==
  ASSUME NEW op \in {"time", "day", "format"}, NEW body
  PROVE  /\ op = "time" => Payload(Clock(op, body)) =
              <<WriteSpecial, SetTime, Digits(body[1]), Digits(body[2])>>
         /\ op = "day" => Payload(Clock(op, body)) =
              <<WriteSpecial, SetDay, Digits(body[1])>>
         /\ op = "format" => Payload(Clock(op, body)) =
              <<WriteSpecial, SetFormat>> \o body
  <1> DEFINE c == Clock(op, body)
  <1>1. c.op = op /\ c.body = body
    BY DEF Clock, Nothing
  <1>2. Release.op = "text"
    BY SMTT(30) DEF Release, Nothing
  <1> HIDE DEF c
  <1>3. /\ c.op = "time" => Payload(c) =
              <<WriteSpecial, SetTime, Digits(c.body[1]), Digits(c.body[2])>>
        /\ c.op = "day" => Payload(c) = <<WriteSpecial, SetDay, Digits(c.body[1])>>
        /\ c.op = "format" => Payload(c) = <<WriteSpecial, SetFormat>> \o c.body
    BY <1>2 DEF Payload
  <1> QED
    BY <1>1, <1>3 DEF c

LEMMA TimeReads ==
  ASSUME NEW hour \in 0 .. 23, NEW minute \in 0 .. 59
  PROVE  LET c == Clock("time", <<hour, minute>>) IN Reads(Payload(c), c)
  <1> DEFINE body == <<hour, minute>>
             q == <<Digits(hour), Digits(minute)>>
  <1>1. Digits(hour) \in Nat /\ Digits(minute) \in Nat
        /\ IsDigits(Digits(hour)) /\ IsDigits(Digits(minute))
        /\ Number(Digits(hour)) = hour /\ Number(Digits(minute)) = minute
    BY DEF Digits, IsDigits, Number
  <1>2. q \in Seq(Nat) /\ Len(q) = 2 /\ q[1] = Digits(hour) /\ q[2] = Digits(minute)
        /\ DOMAIN q = {1, 2}
    BY <1>1
  <1>3. Payload(Clock("time", body)) = <<WriteSpecial, SetTime>> \o q
    <2>1. <<WriteSpecial, SetTime, Digits(hour), Digits(minute)>> =
            <<WriteSpecial, SetTime>> \o <<Digits(hour), Digits(minute)>>
      <3> DEFINE x == Digits(hour)
                 y == Digits(minute)
                 a == WriteSpecial
                 b == SetTime
      <3>1. x \in Nat /\ y \in Nat /\ a \in Nat /\ b \in Nat
        BY <1>1 DEF WriteSpecial, SetTime
      <3> HIDE DEF x, y, a, b
      <3>2. <<a, b, x, y>> = <<a, b>> \o <<x, y>>
        BY <3>1
      <3> QED
        BY <3>2 DEF x, y, a, b
    <2>2. body[1] = hour /\ body[2] = minute
      OBVIOUS
    <2> HIDE DEF body
    <2>3. Payload(Clock("time", body)) =
            <<WriteSpecial, SetTime, Digits(body[1]), Digits(body[2])>>
      BY ClockPayload
    <2> QED
      BY <2>1, <2>2, <2>3
  <1> HIDE DEF q
  <1>4. IsTime(q)
    BY <1>1, <1>2 DEF IsTime, AllDigits
  <1>5. Numbers(q) = body
    BY <1>1, <1>2 DEF Numbers
  <1>6. SetTime \in Nat
    BY DEF SetTime
  <1> QED
    BY <1>2, <1>3, <1>4, <1>5, <1>6, ClockReads

LEMMA DayReads ==
  ASSUME NEW day \in 1 .. 7
  PROVE  LET c == Clock("day", <<day>>) IN Reads(Payload(c), c)
  <1> DEFINE body == <<day>>
             q == <<Digits(day)>>
  <1>1. Digits(day) \in Nat /\ IsDigits(Digits(day)) /\ Number(Digits(day)) = day
    BY DEF Digits, IsDigits, Number
  <1>2. q \in Seq(Nat) /\ Len(q) = 1 /\ q[1] = Digits(day) /\ DOMAIN q = {1}
    BY <1>1
  <1>3. Payload(Clock("day", body)) = <<WriteSpecial, SetDay>> \o q
    <2>1. <<WriteSpecial, SetDay, Digits(day)>> = <<WriteSpecial, SetDay>> \o <<Digits(day)>>
      <3>1. \A a, b, x \in Nat : <<a, b, x>> = <<a, b>> \o <<x>>
        OBVIOUS
      <3> QED
        BY <1>1, <3>1 DEF WriteSpecial, SetDay
    <2>2. body[1] = day
      OBVIOUS
    <2> HIDE DEF body
    <2>3. Payload(Clock("day", body)) = <<WriteSpecial, SetDay, Digits(body[1])>>
      BY ClockPayload
    <2> QED
      BY <2>1, <2>2, <2>3
  <1> HIDE DEF q
  <1>4. IsDay(q)
    BY <1>1, <1>2 DEF IsDay, AllDigits
  <1>5. Numbers(q) = body
    BY <1>1, <1>2 DEF Numbers
  <1>6. SetDay \in Nat
    BY DEF SetDay
  <1> QED
    BY <1>2, <1>3, <1>4, <1>5, <1>6, ClockReads

LEMMA FormatReads ==
  ASSUME NEW body \in Formats
  PROVE  LET c == Clock("format", body) IN Reads(Payload(c), c)
  <1>1. body \in Seq(Nat) /\ SetFormat \in Nat
    <2>1. <<83>> \in Seq(Nat) /\ <<77>> \in Seq(Nat)
      OBVIOUS
    <2> QED
      BY <2>1 DEF SetFormat, Formats
  <1> QED
    BY <1>1, ClockPayload, ClockReads

\* Places of parts that are all equally long.
LEMMA Multiples ==
  ASSUME NEW w \in Nat
  PROVE  /\ 0 * w = 0
         /\ \A k \in Nat : k * w \in Nat
         /\ \A k \in Nat \ {0} : k * w = (k - 1) * w + w
         /\ \A i, k \in Nat : i <= k => i * w <= k * w
  <1>1. \A k \in Nat : k * w \in Nat
    OBVIOUS
  <1>2. \A k \in Nat \ {0} : k * w = (k - 1) * w + w
    OBVIOUS
  <1>3. ASSUME NEW i \in Nat, NEW k \in Nat, i <= k
        PROVE  i * w <= k * w
    <2> DEFINE d == k - i
    <2>1. d \in Nat /\ k = i + d
      BY <1>3
    <2> HIDE DEF d
    <2>2. k * w = i * w + d * w
      BY <2>1
    <2>3. d * w \in Nat /\ i * w \in Nat
      BY <1>1, <2>1
    <2> QED
      BY <2>2, <2>3
  <1> QED
    BY <1>1, <1>2, <1>3

LEMMA EvenlyFlat ==
  ASSUME NEW S, NEW q \in Seq(Seq(S)), NEW w \in Nat,
         \A i \in 1 .. Len(q) : Len(q[i]) = w
  PROVE  LET s == FlattenSeq(q)
         IN /\ s \in Seq(S) /\ Len(s) = Len(q) * w
            /\ \A i \in 1 .. Len(q) : \A j \in 1 .. w : s[(i - 1) * w + j] = q[i][j]
  <1> DEFINE N == Len(q)
             s == FlattenSeq(q)
             e == [k \in 0 .. N |-> k * w]
  <1>1. N \in Nat /\ \A i \in 1 .. N : q[i] \in Seq(S) /\ Len(q[i]) = w
    OBVIOUS
  <1>2. /\ e[0] = 0
        /\ \A k \in 0 .. N : e[k] \in Nat /\ e[k] = k * w
        /\ \A k \in 1 .. N : e[k] = e[k - 1] + w
        /\ \A i, k \in 0 .. N : i <= k => e[i] <= e[k]
    <2>1. \A k \in 0 .. N : k \in Nat /\ e[k] = k * w
      OBVIOUS
    <2>2. \A k \in 1 .. N : k \in Nat \ {0} /\ k \in 0 .. N /\ k - 1 \in 0 .. N
      BY <1>1
    <2>3. 0 \in 0 .. N
      BY <1>1
    <2> HIDE DEF e, N
    <2>4. \A k \in 1 .. N : e[k] = e[k - 1] + w
      <3>1. \A k \in 1 .. N : k * w = (k - 1) * w + w
        BY <2>2, Multiples
      <3> QED
        BY <2>1, <2>2, <3>1
    <2>5. e[0] = 0
      BY <2>1, <2>3, Multiples
    <2>6. \A k \in 0 .. N : e[k] \in Nat
      BY <2>1, Multiples
    <2>7. \A i, k \in 0 .. N : i <= k => e[i] <= e[k]
      <3>1. \A i, k \in 0 .. N : i <= k => i * w <= k * w
        BY <2>1, Multiples
      <3> QED
        BY <2>1, <3>1
    <2> QED
      BY <2>1, <2>4, <2>5, <2>6, <2>7
  <1>3. CASE q = <<>>
    <2>1. s = <<>> /\ N = 0
      BY <1>3, FlattenNothing
    <2>2. N * w = 0
      BY <2>1, Multiples
    <2> HIDE DEF s
    <2>3. s \in Seq(S) /\ Len(s) = N * w
      BY <2>1, <2>2
    <2>4. 1 .. N = {}
      BY <2>1
    <2> QED
      BY <2>3, <2>4 DEF s
  <1>4. CASE q # <<>>
    <2>1. PICK f : Flattens(q, f) /\ s = f[N]
      BY <1>4, FlattenIs
    <2>2. N >= 1
      BY <1>4
    <2> HIDE DEF s, e
    <2>3. \A n \in 1 .. N : f[n] = IF n = 1 THEN q[n] ELSE f[n - 1] \o q[n]
      BY <2>1 DEF Flattens
    <2> HIDE DEF N
    <2> DEFINE Fine(n) ==
                 /\ f[n] \in Seq(S) /\ Len(f[n]) = e[n]
                 /\ \A i \in 1 .. n : \A j \in 1 .. w : f[n][e[i - 1] + j] = q[i][j]
               T == {n \in 0 .. N : n = 0 \/ Fine(n)}
    <2>4. 0 \in T
      BY <1>1
    <2>5. ASSUME NEW n \in 1 .. N, n - 1 \in T PROVE n \in T
      <3>1. n \in 0 .. N /\ n - 1 \in 0 .. N /\ n \in Nat /\ q[n] \in Seq(S) /\ Len(q[n]) = w
        BY <1>1
      <3>2. CASE n = 1
        <4>1. f[1] = q[1] /\ e[1 - 1] = 0 /\ e[1] = w
          <5>1. 1 \in 1 .. N /\ 1 - 1 = 0
            BY <3>2
          <5>2. e[1] = e[1 - 1] + w
            BY <1>2, <5>1
          <5> QED
            BY <1>2, <2>3, <5>1, <5>2
        <4>2. \A j \in 1 .. w : 0 + j = j
          OBVIOUS
        <4>3. \A i \in 1 .. 1 : i = 1
          OBVIOUS
        <4>4. Fine(1)
          BY <3>1, <3>2, <4>1, <4>2, <4>3
        <4> QED
          BY <3>1, <3>2, <4>4
      <3>3. CASE n # 1
        <4> DEFINE m == n - 1
                   x == f[m]
                   y == q[n]
                   z == x \o y
        <4>1. Fine(m) /\ m # 0
          BY <2>5, <3>1, <3>3
        <4>2. f[n] = z
          BY <2>3, <3>3
        <4>3. m \in 0 .. N /\ m \in Nat /\ n = m + 1
          BY <3>1
        <4>4. /\ x \in Seq(S) /\ Len(x) = e[m]
              /\ \A i \in 1 .. m : \A j \in 1 .. w : x[e[i - 1] + j] = q[i][j]
          BY <4>1
        <4>5. y \in Seq(S) /\ Len(y) = w
          BY <3>1
        <4>6. e[n] = e[m] + w /\ e[m] \in Nat
          BY <1>2, <4>3
        <4>7. \A i \in 1 .. m : e[i - 1] \in Nat /\ e[i - 1] + w <= e[m]
          <5>1. \A i \in 1 .. m : i \in 1 .. N /\ i \in 0 .. N /\ i - 1 \in 0 .. N /\ i <= m
            <6>1. m \in Nat /\ m <= N
              BY <1>1, <4>3
            <6> HIDE DEF m
            <6> QED
              BY <1>1, <6>1
          <5>2. \A i \in 1 .. m : e[i] = e[i - 1] + w /\ e[i] <= e[m] /\ e[i - 1] \in Nat
            BY <1>2, <4>3, <5>1
          <5> QED
            BY <5>2
        <4> HIDE DEF m, x, y, z, T
        <4>8. /\ z \in Seq(S) /\ Len(z) = Len(x) + Len(y)
              /\ \A k \in 1 .. Len(x) : z[k] = x[k]
              /\ \A k \in 1 .. Len(y) : z[Len(x) + k] = y[k]
          <5>1. x \in Seq(S) /\ y \in Seq(S)
            BY <4>4, <4>5
          <5> QED
            BY <5>1, Joined DEF z
        <4>9. Len(z) = e[n]
          BY <4>4, <4>5, <4>6, <4>8
        <4>10. ASSUME NEW i \in 1 .. n, NEW j \in 1 .. w
               PROVE  z[e[i - 1] + j] = q[i][j]
          <5>1. CASE i \in 1 .. m
            <6> DEFINE k == e[i - 1] + j
            <6>1. k \in 1 .. Len(x)
              <7>1. e[i - 1] \in Nat /\ e[i - 1] + w <= e[m]
                BY <4>7, <5>1
              <7> QED
                BY <4>4, <4>6, <7>1
            <6>2. x[k] = q[i][j]
              BY <4>4, <5>1
            <6> HIDE DEF k
            <6>3. z[k] = q[i][j]
              BY <4>8, <6>1, <6>2
            <6> QED
              BY <6>3 DEF k
          <5>2. CASE i = n
            <6>1. e[i - 1] = Len(x)
              BY <4>4, <5>2 DEF m
            <6>2. z[Len(x) + j] = y[j]
              BY <4>5, <4>8
            <6>3. y[j] = q[i][j]
              BY <5>2 DEF y
            <6> QED
              BY <6>1, <6>2, <6>3
          <5>3. i \in 1 .. m \/ i = n
            BY <4>3
          <5> QED
            BY <5>1, <5>2, <5>3
        <4>11. Fine(n)
          BY <4>2, <4>8, <4>9, <4>10
        <4> QED
          BY <3>1, <4>11 DEF T
      <3> QED
        BY <3>2, <3>3
    <2>6. 0 .. N \subseteq T
      <3> HIDE DEF T
      <3> QED
        BY <1>1, <2>4, <2>5, IntervalInduction
    <2>7. Fine(N)
      <3>1. N \in T /\ N # 0
        BY <1>1, <2>2, <2>6
      <3> QED
        BY <3>1
    <2>8. s \in Seq(S) /\ Len(s) = N * w
      <3>1. N \in 0 .. N
        BY <1>1
      <3> QED
        BY <1>2, <2>1, <2>7, <3>1
    <2>9. \A i \in 1 .. N : \A j \in 1 .. w : s[(i - 1) * w + j] = q[i][j]
      <3>1. \A i \in 1 .. N : e[i - 1] = (i - 1) * w
        <4>1. \A i \in 1 .. N : i - 1 \in 0 .. N
          BY <1>1
        <4> QED
          BY <1>2, <4>1
      <3> QED
        BY <2>1, <2>7, <3>1
    <2> QED
      BY <2>8, <2>9 DEF s, N
  <1> QED
    BY <1>3, <1>4

LEMMA ChosenAll ==
  ASSUME NEW S, NEW s \in Seq(S), NEW places, DOMAIN s \subseteq places
  PROVE  Chosen(s, places) = s
  <1> DEFINE N == Len(s)
  <1>1. N \in Nat /\ DOMAIN s = 1 .. N /\ \A n \in 1 .. N : s[n] \in S /\ n \in places
    OBVIOUS
  <1>2. PICK g : Chooses(s, places, g) /\ Chosen(s, places) = g[N]
    BY ChosenIs
  <1>3. g[0] = <<>> /\ \A n \in 1 .. N : g[n] = Append(g[n - 1], s[n])
    <2>1. \A n \in 0 .. N :
            g[n] = IF n = 0 THEN <<>>
                   ELSE IF n \in places THEN Append(g[n - 1], s[n])
                   ELSE g[n - 1]
      BY <1>2 DEF Chooses
    <2>2. 0 \in 0 .. N /\ \A n \in 1 .. N : n \in 0 .. N /\ n # 0
      BY <1>1
    <2> QED
      BY <1>1, <2>1, <2>2
  <1> HIDE DEF N
  <1> DEFINE Fine(n) == g[n] \in Seq(S) /\ Len(g[n]) = n /\ \A i \in 1 .. n : g[n][i] = s[i]
             T == {n \in 0 .. N : Fine(n)}
  <1>4. 0 \in T
    <2>1. <<>> \in Seq(S) /\ Len(<<>>) = 0 /\ 1 .. 0 = {} /\ 0 \in 0 .. N
      BY <1>1
    <2>2. Fine(0)
      BY <1>3, <2>1
    <2> QED
      BY <2>1, <2>2
  <1>5. ASSUME NEW n \in 1 .. N, n - 1 \in T PROVE n \in T
    <2> DEFINE m == n - 1
               x == g[m]
               y == Append(x, s[n])
    <2>1. Fine(m) /\ n \in 0 .. N
      BY <1>5
    <2>2. m \in Nat /\ n = m + 1
      BY <1>1
    <2>3. x \in Seq(S) /\ Len(x) = m /\ (\A i \in 1 .. m : x[i] = s[i]) /\ s[n] \in S
      BY <1>1, <2>1
    <2>4. g[n] = y
      BY <1>3
    <2> HIDE DEF m, x, y, T
    <2>5. /\ y \in Seq(S) /\ Len(y) = Len(x) + 1 /\ y[Len(x) + 1] = s[n]
          /\ \A i \in 1 .. Len(x) : y[i] = x[i]
      BY <2>3, AppendProperties DEF y
    <2>6. \A i \in 1 .. n : i \in 1 .. m \/ i = n
      BY <2>2
    <2>7. \A i \in 1 .. n : y[i] = s[i]
      BY <2>2, <2>3, <2>5, <2>6
    <2>8. Fine(n)
      BY <2>2, <2>3, <2>4, <2>5, <2>7
    <2> QED
      BY <2>1, <2>8 DEF T
  <1>6. 0 .. N \subseteq T
    <2> HIDE DEF T
    <2> QED
      BY <1>1, <1>4, <1>5, IntervalInduction
  <1>7. Fine(N)
    <2>1. N \in T
      BY <1>1, <1>6
    <2> QED
      BY <2>1
  <1> DEFINE r == g[N]
  <1>8. r \in Seq(S) /\ Len(r) = Len(s) /\ \A i \in 1 .. Len(s) : r[i] = s[i]
    BY <1>7 DEF N
  <1> HIDE DEF r
  <1>9. r = s
    BY <1>8, SameElements
  <1> QED
    BY <1>2, <1>9 DEF r

\* The parts of a sequence that is cut evenly.
LEMMA EvenlyCut ==
  ASSUME NEW S, NEW q \in Seq(Seq(S)), NEW w \in Nat,
         \A i \in 1 .. Len(q) : Len(q[i]) = w
  PROVE  \A i \in 1 .. Len(q) : Slice(FlattenSeq(q), (i - 1) * w, i * w) = q[i]
  <1> DEFINE N == Len(q)
             s == FlattenSeq(q)
  <1>1. N \in Nat /\ \A i \in 1 .. N : q[i] \in Seq(S) /\ Len(q[i]) = w
    OBVIOUS
  <1>2. /\ s \in Seq(S) /\ Len(s) = N * w
        /\ \A i \in 1 .. N : \A j \in 1 .. w : s[(i - 1) * w + j] = q[i][j]
    BY EvenlyFlat
  <1> HIDE DEF s, N
  <1>3. ASSUME NEW i \in 1 .. N
        PROVE  Slice(s, (i - 1) * w, i * w) = q[i]
    <2> DEFINE a == (i - 1) * w
               b == i * w
               x == Slice(s, a, b)
               y == q[i]
    <2>1. a \in Nat /\ b \in Nat /\ b = a + w /\ b <= Len(s)
      <3>1. i \in Nat \ {0} /\ i - 1 \in Nat /\ i <= N
        BY <1>1
      <3>2. i * w \in Nat /\ (i - 1) * w \in Nat /\ i * w = (i - 1) * w + w
        BY <3>1, Multiples
      <3>3. i * w <= N * w
        BY <1>1, <3>1, Multiples
      <3> QED
        BY <1>2, <3>2, <3>3
    <2>2. y \in Seq(S) /\ Len(y) = w /\ \A j \in 1 .. w : s[a + j] = y[j]
      BY <1>1, <1>2
    <2> HIDE DEF a, b, x, y
    <2>3. Min2(b, Len(s)) = b /\ Len(s) \in Nat
      <3>1. Len(s) \in Nat
        BY <1>2
      <3>2. \A m, n \in Nat : m <= n => Min2(m, n) = m
        BY DEF Min2
      <3> QED
        BY <2>1, <3>1, <3>2
    <2>4. /\ x \in Seq(S)
          /\ Len(x) = IF a <= Min2(b, Len(s)) THEN Min2(b, Len(s)) - a ELSE 0
          /\ \A k \in 1 .. Len(x) : x[k] = s[a + k]
      <3>1. s \in Seq(S) /\ a \in Nat /\ b \in Nat
        BY <1>2, <2>1
      <3> QED
        BY <3>1, SliceTyped DEF x
    <2>5. Len(x) = Len(y)
      BY <2>1, <2>2, <2>3, <2>4
    <2>6. \A k \in 1 .. Len(y) : x[k] = y[k]
      BY <2>2, <2>4, <2>5
    <2>7. x = y
      BY <2>2, <2>4, <2>5, <2>6, SameElements
    <2> QED
      BY <2>7 DEF x, y, a, b
  <1> QED
    BY <1>3 DEF s, N

LEMMA EntryReads ==
  ASSUME NEW e \in Allocations
  PROVE  /\ Encode(e) \in Seq(Nat) /\ Len(Encode(e)) = 5
         /\ IsDigits(Encode(e)[4]) /\ Decoded(Encode(e)) = e
  <1> DEFINE lock == IF e.locked THEN Locked ELSE Unlocked
             x == Encode(e)
  <1>1. /\ e.label \in Nat /\ e.type \in Nat /\ e.locked \in BOOLEAN /\ e.capacity \in Nat
        /\ e.schedule \in Nat
        /\ e = [label |-> e.label, type |-> e.type, locked |-> e.locked,
                capacity |-> e.capacity, schedule |-> e.schedule]
    BY DEF Allocations
  <1>2. lock \in Nat /\ (lock = Locked <=> e.locked)
    BY <1>1 DEF Locked, Unlocked
  <1>3. \A n \in Nat : Digits(n) \in Nat /\ IsDigits(Digits(n)) /\ Number(Digits(n)) = n
    BY DEF Digits, IsDigits, Number
  <1>4. x = <<e.label, e.type, lock, Digits(e.capacity), Digits(e.schedule)>>
    BY DEF Encode
  <1> HIDE DEF lock, x
  <1>5. /\ x \in Seq(Nat) /\ Len(x) = 5 /\ x[1] = e.label /\ x[2] = e.type /\ x[3] = lock
        /\ x[4] = Digits(e.capacity) /\ x[5] = Digits(e.schedule)
    BY <1>1, <1>2, <1>3, <1>4
  <1>6. IsDigits(x[4]) /\ IsDigits(x[5]) /\ Number(x[4]) = e.capacity
        /\ Number(x[5]) = e.schedule
    BY <1>1, <1>3, <1>5
  <1>7. (x[3] = Locked) = e.locked
    BY <1>1, <1>2, <1>5
  <1>8. Decoded(x) = [label |-> e.label, type |-> e.type, locked |-> e.locked,
                      capacity |-> e.capacity, schedule |-> e.schedule]
    BY <1>5, <1>6, <1>7 DEF Decoded, Entry
  <1> QED
    BY <1>1, <1>5, <1>6, <1>8 DEF x

LEMMA ConfigurationReads ==
  ASSUME NEW es \in Seq(Allocations), es # <<>>
  PROVE  Reads(Payload(Configuration(es)), Configuration(es))
  <1> DEFINE c == Configuration(es)
             f == <<WriteSpecial, SetMemory>>
             N == Len(es)
             x == [i \in DOMAIN es |-> Encode(es[i])]
             q == FlattenSeq(x)
             chunks == [i \in 1 .. Len(q) \div EntryLength |->
                          Slice(q, (i - 1) * EntryLength, i * EntryLength)]
  <1>1. N \in Nat /\ N >= 1 /\ DOMAIN es = 1 .. N /\ \A i \in 1 .. N : es[i] \in Allocations
    OBVIOUS
  <1>2. Payload(c) = f \o q
    <2>1. c.op = "configure" /\ c.entries = es
      BY DEF Configuration, Nothing
    <2>2. Release.op = "text"
      BY DEF Release, Nothing
    <2>3. c # Release
      <3> HIDE DEF c
      <3> QED
        BY <2>1, <2>2
    <2> HIDE DEF c
    <2>4. Payload(c) = <<WriteSpecial, SetMemory>>
            \o FlattenSeq([i \in DOMAIN c.entries |-> Encode(c.entries[i])])
      BY <2>1, <2>3 DEF Payload
    <2> QED
      BY <2>1, <2>4
  <1>3. /\ x \in Seq(Seq(Nat)) /\ Len(x) = N /\ DOMAIN x = 1 .. N
        /\ \A i \in 1 .. N : x[i] = Encode(es[i])
    <2> DEFINE Q == Seq(Nat)
    <2>1. \A i \in 1 .. N : Encode(es[i]) \in Q
      BY <1>1, EntryReads
    <2> HIDE DEF Q, N
    <2>2. x = [i \in 1 .. N |-> Encode(es[i])]
      BY <1>1
    <2> HIDE DEF x
    <2> QED
      BY <1>1, <2>1, <2>2 DEF Q
  <1>4. \A i \in 1 .. N : /\ Len(x[i]) = 5 /\ IsDigits(x[i][4]) /\ Decoded(x[i]) = es[i]
    <2> HIDE DEF x, N
    <2> QED
      BY <1>1, <1>3, EntryReads
  <1> HIDE DEF x, N
  <1>14. x \in Seq(Seq(Nat)) /\ 5 \in Nat /\ \A i \in 1 .. Len(x) : Len(x[i]) = 5
    BY <1>3, <1>4
  <1>5. q \in Seq(Nat) /\ Len(q) = N * 5
    <2>1. q \in Seq(Nat) /\ Len(q) = Len(x) * 5
      BY <1>14, EvenlyFlat
    <2> QED
      BY <1>3, <2>1
  <1>6. \A i \in 1 .. N : Slice(q, (i - 1) * 5, i * 5) = x[i]
    <2>1. \A i \in 1 .. Len(x) : Slice(q, (i - 1) * 5, i * 5) = x[i]
      BY <1>14, EvenlyCut
    <2> QED
      BY <1>3, <2>1
  <1> HIDE DEF q
  <1>7. chunks = x
    <2>1. Len(q) \div EntryLength = N
      BY <1>1, <1>5 DEF EntryLength
    <2>2. \A i \in 1 .. N : Slice(q, (i - 1) * EntryLength, i * EntryLength) = x[i]
      BY <1>6 DEF EntryLength
    <2>3. chunks = [i \in 1 .. N |-> x[i]]
      BY <2>1, <2>2
    <2>4. x = [i \in 1 .. N |-> x[i]]
      <3> DEFINE Q == Seq(Nat)
      <3>1. x \in Seq(Q)
        BY <1>3
      <3> HIDE DEF Q
      <3> QED
        BY <1>1, <1>3, <3>1
    <2> QED
      BY <2>3, <2>4
  <1> HIDE DEF chunks
  <1>8. Entries(chunks) = x
    <2> DEFINE places == {i \in DOMAIN x : IsDigits(x[i][4])}
    <2>1. DOMAIN x \subseteq places
      BY <1>3, <1>4
    <2>2. Entries(x) = Chosen(x, places)
      BY DEF Entries
    <2> HIDE DEF places
    <2>3. Chosen(x, places) = x
      <3> DEFINE Q == Seq(Nat)
      <3>1. x \in Seq(Q)
        BY <1>3
      <3> HIDE DEF Q
      <3> QED
        BY <2>1, <3>1, ChosenAll
    <2> QED
      BY <1>7, <2>2, <2>3
  <1>9. [i \in DOMAIN Entries(chunks) |-> Decoded(Entries(chunks)[i])] = es
    <2>1. [i \in DOMAIN x |-> Decoded(x[i])] = [i \in 1 .. N |-> es[i]]
      BY <1>3, <1>4
    <2>2. es = [i \in 1 .. N |-> es[i]]
      BY <1>1
    <2> QED
      BY <1>8, <2>1, <2>2
  <1>10. q # <<>>
    BY <1>1, <1>5
  <1>11. f = <<WriteSpecial, SetMemory>> /\ SetMemory \in Nat
    BY DEF SetMemory
  <1> HIDE DEF f, c
  <1>12. PICK h : DecodePayload(f \o q).command = ReadConfiguration(q, h).command
    BY <1>5, <1>11, SpecialOf
  <1>13. ReadConfiguration(q, h).command =
           Configuration([i \in DOMAIN Entries(chunks) |-> Decoded(Entries(chunks)[i])])
    BY <1>10 DEF ReadConfiguration, Read, chunks
  <1> QED
    BY <1>2, <1>9, <1>12, <1>13 DEF Reads, c

\* Two sequences in order of the same numbers are the same.
LEMMA OneOrder ==
  ASSUME NEW p \in Seq(Nat), NEW q \in Seq(Nat),
         \A i, j \in DOMAIN p : i < j => p[i] < p[j],
         \A i, j \in DOMAIN q : i < j => q[i] < q[j],
         \A i \in DOMAIN p : \E j \in DOMAIN q : p[i] = q[j],
         \A i \in DOMAIN q : \E j \in DOMAIN p : q[i] = p[j]
  PROVE  p = q
  <1> DEFINE M == Len(p)
             N == Len(q)
             Same(n) == \A i \in 1 .. n : /\ i <= M <=> i <= N
                                          /\ i <= M => p[i] = q[i]
             T == {n \in 0 .. M + N : Same(n)}
  <1>1. /\ M \in Nat /\ N \in Nat /\ DOMAIN p = 1 .. M /\ DOMAIN q = 1 .. N
        /\ (\A i \in 1 .. M : p[i] \in Nat) /\ \A i \in 1 .. N : q[i] \in Nat
    BY SMTT(30)
  <1> HIDE DEF M, N
  <1>2. 0 \in T
    BY <1>1
  <1>3. ASSUME NEW n \in 1 .. M + N, n - 1 \in T PROVE n \in T
    <2>1. Same(n - 1) /\ n \in 0 .. M + N /\ n \in Nat
      BY <1>1, <1>3
    <2>2. \A i \in 1 .. n - 1 : (i <= M <=> i <= N) /\ (i <= M => p[i] = q[i])
      BY <2>1
    <2>3. \A i \in 1 .. n : i \in 1 .. n - 1 \/ i = n
      BY <2>1
    <2>4. ASSUME n <= M
          PROVE  n <= N /\ q[n] <= p[n]
      <3>1. n \in 1 .. M
        BY <1>1, <1>3, <2>4
      <3>2. PICK j \in 1 .. N : p[n] = q[j]
        BY <1>1, <3>1
      <3>3. j >= n
        <4>1. SUFFICES ASSUME j < n PROVE FALSE
          BY <1>1, <2>1
        <4>2. j \in 1 .. n - 1 /\ j \in 1 .. M
          BY <1>1, <2>1, <2>4, <4>1
        <4>3. p[j] = q[j]
          BY <2>2, <4>2
        <4>4. p[j] < p[n]
          BY <1>1, <3>1, <4>1, <4>2
        <4> QED
          BY <1>1, <3>1, <3>2, <4>2, <4>3, <4>4
      <3>4. n <= N /\ n \in 1 .. N
        BY <1>1, <1>3, <3>3
      <3>5. q[n] <= q[j]
        <4>1. CASE j = n
          BY <1>1, <3>4, <4>1
        <4>2. CASE j # n
          <5>1. n < j
            BY <1>1, <3>3, <3>4, <4>2
          <5>2. q[n] < q[j]
            BY <1>1, <3>4, <5>1
          <5> QED
            BY <1>1, <3>4, <5>2
        <4> QED
          BY <4>1, <4>2
      <3> QED
        BY <3>2, <3>4, <3>5
    <2>5. ASSUME n <= N
          PROVE  n <= M /\ p[n] <= q[n]
      <3>1. n \in 1 .. N
        BY <1>1, <1>3, <2>5
      <3>2. PICK j \in 1 .. M : q[n] = p[j]
        BY <1>1, <3>1
      <3>3. j >= n
        <4>1. SUFFICES ASSUME j < n PROVE FALSE
          BY <1>1, <2>1
        <4>2. j \in 1 .. n - 1 /\ j \in 1 .. N
          BY <1>1, <2>1, <2>5, <4>1
        <4>3. p[j] = q[j]
          BY <2>2, <4>2
        <4>4. q[j] < q[n]
          BY <1>1, <3>1, <4>1, <4>2
        <4> QED
          BY <1>1, <3>1, <3>2, <4>2, <4>3, <4>4
      <3>4. n <= M /\ n \in 1 .. M
        BY <1>1, <1>3, <3>3
      <3>5. p[n] <= p[j]
        <4>1. CASE j = n
          BY <1>1, <3>4, <4>1
        <4>2. CASE j # n
          <5>1. n < j
            BY <1>1, <3>3, <3>4, <4>2
          <5>2. p[n] < p[j]
            BY <1>1, <3>4, <5>1
          <5> QED
            BY <1>1, <3>4, <5>2
        <4> QED
          BY <4>1, <4>2
      <3> QED
        BY <3>2, <3>4, <3>5
    <2>6. (n <= M <=> n <= N) /\ (n <= M => p[n] = q[n])
      <3>1. n <= M => n \in 1 .. M /\ n \in 1 .. N
        BY <1>1, <1>3, <2>4
      <3> QED
        BY <1>1, <2>4, <2>5, <3>1
    <2>7. Same(n)
      BY <2>2, <2>3, <2>6
    <2> QED
      BY <2>1, <2>7
  <1>4. 0 .. M + N \subseteq T
    <2>1. M + N \in Nat
      BY <1>1
    <2> HIDE DEF T
    <2> QED
      BY <1>2, <1>3, <2>1, IntervalInduction
  <1>5. \A i \in 1 .. M + N : (i <= M <=> i <= N) /\ (i <= M => p[i] = q[i])
    <2>1. M + N \in T
      <3>1. M + N \in 0 .. M + N
        BY <1>1
      <3> HIDE DEF T
      <3> QED
        BY <1>4, <3>1
    <2> QED
      BY <2>1
  <1>6. M = N
    BY <1>1, <1>5
  <1>7. \A i \in 1 .. N : p[i] = q[i]
    BY <1>1, <1>5, <1>6
  <1> QED
    BY <1>6, <1>7, SameElements DEF M, N

\* The rows of a picture, each with its carriage return, laid end to end.
LEMMA RowsAreEven ==
  ASSUME NEW rows \in Seq(Seq(Nat)), NEW w \in Nat,
         \A i \in DOMAIN rows : Len(rows[i]) = w /\ \A j \in 1 .. w : rows[i][j] # CR
  PROVE  LET N == Len(rows)
             v == w + 1
             body == FlattenSeq([i \in DOMAIN rows |-> Append(rows[i], CR)])
         IN /\ body \in Seq(Nat) /\ Len(body) = N * v
            /\ \A i \in 1 .. N :
                 /\ body[i * v] = CR
                 /\ \A j \in 1 .. w : body[(i - 1) * v + j] = rows[i][j]
  <1> DEFINE N == Len(rows)
             v == w + 1
             x == [i \in DOMAIN rows |-> Append(rows[i], CR)]
             body == FlattenSeq(x)
             Q == Seq(Nat)
  <1>1. /\ N \in Nat /\ DOMAIN rows = 1 .. N
        /\ \A i \in 1 .. N : rows[i] \in Seq(Nat) /\ Len(rows[i]) = w
    OBVIOUS
  <1>2. CR \in Nat /\ v \in Nat
    BY DEF CR
  <1>3. ASSUME NEW i \in 1 .. N
        PROVE  /\ Append(rows[i], CR) \in Q /\ Len(Append(rows[i], CR)) = v
               /\ Append(rows[i], CR)[v] = CR
               /\ \A j \in 1 .. w : Append(rows[i], CR)[j] = rows[i][j]
    <2> DEFINE r == rows[i]
    <2>1. r \in Seq(Nat) /\ Len(r) = w
      BY <1>1
    <2> HIDE DEF r, N, x
    <2>2. /\ Append(r, CR) \in Seq(Nat) /\ Len(Append(r, CR)) = Len(r) + 1
          /\ Append(r, CR)[Len(r) + 1] = CR
          /\ \A j \in 1 .. Len(r) : Append(r, CR)[j] = r[j]
      BY <1>2, <2>1, AppendProperties
    <2> QED
      BY <2>1, <2>2 DEF r
  <1> HIDE DEF N, Q
  <1>4. /\ x \in Seq(Q) /\ Len(x) = N
        /\ \A i \in 1 .. N : x[i] = Append(rows[i], CR)
    <2> DEFINE y(i) == Append(rows[i], CR)
    <2>1. x = [i \in 1 .. N |-> y(i)]
      BY <1>1
    <2>2. \A i \in 1 .. N : y(i) \in Q
      BY <1>3
    <2> HIDE DEF x, y
    <2>3. x \in Seq(Q) /\ Len(x) = N /\ \A i \in 1 .. N : x[i] = y(i)
      BY <1>1, <2>1, <2>2
    <2> QED
      BY <2>3 DEF y
  <1> HIDE DEF x, v
  <1>5. x \in Seq(Seq(Nat)) /\ \A i \in 1 .. Len(x) : Len(x[i]) = v
    BY <1>3, <1>4 DEF Q
  <1>6. /\ body \in Seq(Nat) /\ Len(body) = Len(x) * v
        /\ \A i \in 1 .. Len(x) : \A j \in 1 .. v : body[(i - 1) * v + j] = x[i][j]
    BY <1>2, <1>5, EvenlyFlat
  <1> HIDE DEF body
  <1>7. ASSUME NEW i \in 1 .. N
        PROVE  /\ body[i * v] = CR
               /\ \A j \in 1 .. w : body[(i - 1) * v + j] = rows[i][j]
    <2>1. v \in 1 .. v /\ \A j \in 1 .. w : j \in 1 .. v
      BY DEF v
    <2>2. (i - 1) * v + v = i * v
      <3>1. i \in Nat \ {0}
        BY <1>1
      <3> QED
        BY <1>2, <3>1, Multiples
    <2>3. body[(i - 1) * v + v] = x[i][v]
      BY <1>4, <1>6, <2>1
    <2>4. \A j \in 1 .. w : body[(i - 1) * v + j] = x[i][j]
      BY <1>4, <1>6, <2>1
    <2> QED
      BY <1>3, <1>4, <2>2, <2>3, <2>4
  <1>8. body \in Seq(Nat) /\ Len(body) = N * v
    BY <1>4, <1>6
  <1> QED
    BY <1>7, <1>8 DEF body, x, v, N

\* Every place of evenly long parts is in one of them.
LEMMA EveryPlace ==
  ASSUME NEW v \in Nat, NEW N \in Nat
  PROVE  \A k \in 1 .. N * v : \E i \in 1 .. N : \E j \in 1 .. v : k = (i - 1) * v + j
  <1> DEFINE Fine(n) == \A k \in 1 .. n * v :
                          \E i \in 1 .. n : \E j \in 1 .. v : k = (i - 1) * v + j
             T == {n \in 0 .. N : Fine(n)}
  <1>1. 0 \in T
    <2>1. 1 .. 0 * v = {}
      BY Multiples
    <2> QED
      BY <2>1
  <1>2. ASSUME NEW n \in 1 .. N, n - 1 \in T PROVE n \in T
    <2> DEFINE a == (n - 1) * v
               b == n * v
    <2>1. Fine(n - 1) /\ n \in 0 .. N
      BY <1>2
    <2>2. a \in Nat /\ b = a + v
      <3>1. n \in Nat \ {0} /\ n - 1 \in Nat
        OBVIOUS
      <3> QED
        BY <3>1, Multiples
    <2>3. \A k \in 1 .. a : \E i \in 1 .. n - 1 : \E j \in 1 .. v : k = (i - 1) * v + j
      BY <2>1
    <2>4. b = n * v
      OBVIOUS
    <2> HIDE DEF b
    <2>5. ASSUME NEW k \in 1 .. b
          PROVE  \E i \in 1 .. n : \E j \in 1 .. v : k = (i - 1) * v + j
      <3>1. CASE k <= a
        <4>1. k \in 1 .. a
          <5> HIDE DEF a
          <5> QED
            BY <2>2, <3>1
        <4>2. PICK i \in 1 .. n - 1 : \E j \in 1 .. v : k = (i - 1) * v + j
          BY <2>3, <4>1
        <4>3. i \in 1 .. n
          OBVIOUS
        <4> QED
          BY <4>2, <4>3
      <3>2. CASE a < k
        <4> DEFINE j == k - a
        <4>1. j \in 1 .. v /\ k = a + j
          <5> HIDE DEF a
          <5> QED
            BY <2>2, <3>2
        <4>2. n \in 1 .. n
          OBVIOUS
        <4> HIDE DEF j
        <4>3. k = (n - 1) * v + j
          BY <4>1
        <4> QED
          BY <4>1, <4>2, <4>3
      <3>3. k <= a \/ a < k
        <4> HIDE DEF a
        <4> QED
          BY <2>2
      <3> QED
        BY <3>1, <3>2, <3>3
    <2>6. Fine(n)
      BY <2>4, <2>5
    <2> QED
      BY <2>1, <2>6
  <1>3. 0 .. N \subseteq T
    <2> HIDE DEF T
    <2> QED
      BY <1>1, <1>2, IntervalInduction
  <1>4. Fine(N)
    <2>1. N \in T
      <3>1. N \in 0 .. N
        OBVIOUS
      <3> HIDE DEF T
      <3> QED
        BY <1>3, <3>1
    <2> QED
      BY <2>1
  <1> QED
    BY <1>4

\* Where the rows of such a picture end.
LEMMA EndsAre ==
  ASSUME NEW body \in Seq(Nat), NEW N \in Nat, NEW w \in Nat, Len(body) = N * (w + 1),
         \A i \in 1 .. N : /\ body[i * (w + 1)] = CR
                           /\ \A j \in 1 .. w : body[(i - 1) * (w + 1) + j] # CR
  PROVE  RowEnds(body) = [k \in 1 .. N |-> k * (w + 1)]
  <1> DEFINE v == w + 1
             L == Len(body)
             places == {k \in DOMAIN body : body[k] = CR}
             ends == RowEnds(body)
             f == [k \in 1 .. N |-> k * v]
  <1>1. v \in Nat /\ v >= 1 /\ L \in Nat /\ L = N * v /\ DOMAIN body = 1 .. L
        /\ \A j \in 1 .. v : j \in 1 .. w \/ j = v
    OBVIOUS
  <1>2. \A i \in 1 .. N : body[i * v] = CR /\ \A j \in 1 .. w : body[(i - 1) * v + j] # CR
    OBVIOUS
  <1> HIDE DEF v
  <1>3. InOrder(ends, L, places)
    <2>1. ends = Chosen([k \in 1 .. L |-> k], places)
      BY <1>1 DEF RowEnds
    <2> HIDE DEF places, ends, L
    <2> QED
      BY <1>1, <2>1, PlacesInOrder
  <1> HIDE DEF L
  <1>4. /\ f \in Seq(Nat) /\ DOMAIN f = 1 .. N
        /\ \A k \in 1 .. N : f[k] = k * v /\ k * v \in Nat
    <2>1. \A k \in 1 .. N : k * v \in Nat
      BY <1>1, Multiples
    <2> DEFINE y(k) == k * v
    <2>2. f = [k \in 1 .. N |-> y(k)] /\ \A k \in 1 .. N : y(k) \in Nat
      BY <2>1
    <2> HIDE DEF f, y
    <2>3. f \in Seq(Nat) /\ DOMAIN f = 1 .. N /\ \A k \in 1 .. N : f[k] = y(k)
      BY <2>2
    <2> QED
      BY <2>1, <2>3 DEF y
  <1>5. \A i, j \in DOMAIN f : i < j => f[i] < f[j]
    <2>1. TAKE i, j \in DOMAIN f
    <2>2. HAVE i < j
    <2>3. i \in 1 .. N /\ j \in 1 .. N /\ f[i] = i * v /\ f[j] = j * v
      BY <1>4
    <2>4. j - 1 \in Nat /\ i \in Nat /\ j \in Nat \ {0} /\ i <= j - 1
      BY <2>2, <2>3
    <2>5. i * v <= (j - 1) * v /\ j * v = (j - 1) * v + v
      BY <1>1, <2>4, Multiples
    <2>6. i * v \in Nat /\ (j - 1) * v \in Nat
      BY <1>1, <2>4, Multiples
    <2> HIDE DEF f
    <2> QED
      BY <1>1, <2>3, <2>5, <2>6
  <1>6. /\ ends \in Seq(1 .. L)
        /\ \A i, j \in DOMAIN ends : i < j => ends[i] < ends[j]
        /\ \A i \in DOMAIN ends : ends[i] \in places /\ ends[i] \in 1 .. L
        /\ \A k \in (1 .. L) \cap places : \E i \in DOMAIN ends : ends[i] = k
    <2> HIDE DEF ends, places
    <2>1. ends \in Seq(1 .. L)
      BY <1>3 DEF InOrder
    <2>2. \A i \in DOMAIN ends : ends[i] \in 1 .. L
      <3> DEFINE S == 1 .. L
      <3>1. ends \in Seq(S)
        BY <2>1
      <3> HIDE DEF S
      <3>2. \A i \in DOMAIN ends : ends[i] \in S
        BY <3>1
      <3> QED
        BY <3>2 DEF S
    <2> QED
      BY <1>3, <2>2 DEF InOrder
  <1>7. \A i \in DOMAIN ends : \E j \in DOMAIN f : ends[i] = f[j]
    <2>1. TAKE m \in DOMAIN ends
    <2> DEFINE k == ends[m]
    <2>2. k \in 1 .. L /\ body[k] = CR
      BY <1>6
    <2> HIDE DEF k, f, ends
    <2>3. PICK i \in 1 .. N : \E j \in 1 .. v : k = (i - 1) * v + j
      <3>1. \A n \in 1 .. N * v : \E i \in 1 .. N : \E j \in 1 .. v : n = (i - 1) * v + j
        BY <1>1, EveryPlace
      <3>2. k \in 1 .. N * v
        BY <1>1, <2>2
      <3> QED
        BY <3>1, <3>2, Zenon
    <2>4. PICK j \in 1 .. v : k = (i - 1) * v + j
      BY <2>3
    <2>5. j = v
      BY <1>1, <1>2, <2>2, <2>4
    <2>6. k = i * v
      <3>1. i \in Nat \ {0}
        OBVIOUS
      <3>2. i * v = (i - 1) * v + v
        BY <1>1, <3>1, Multiples
      <3> QED
        BY <2>4, <2>5, <3>2
    <2>7. i \in DOMAIN f /\ f[i] = k
      BY <1>4, <2>6
    <2> QED
      BY <2>7 DEF k
  <1>8. \A i \in DOMAIN f : \E j \in DOMAIN ends : f[i] = ends[j]
    <2>1. TAKE i \in DOMAIN f
    <2>2. i \in 1 .. N /\ f[i] = i * v /\ i * v \in Nat
      BY <1>4
    <2>3. i * v \in 1 .. L
      <3>1. i \in Nat \ {0} /\ i <= N
        BY <2>2
      <3>2. i * v <= N * v
        BY <1>1, <3>1, Multiples
      <3>3. (i - 1) * v \in Nat /\ i * v = (i - 1) * v + v
        <4>1. i - 1 \in Nat
          BY <3>1
        <4> QED
          BY <1>1, <3>1, <4>1, Multiples
      <3> QED
        BY <1>1, <2>2, <3>2, <3>3
    <2>4. i * v \in (1 .. L) \cap places
      BY <1>1, <1>2, <2>2, <2>3
    <2>5. PICK j \in DOMAIN ends : ends[j] = i * v
      BY <1>6, <2>4
    <2> QED
      BY <2>2, <2>5
  <1>9. ends \in Seq(Nat)
    <2>1. 1 .. L \subseteq Nat
      OBVIOUS
    <2> QED
      BY <1>6, <2>1, SeqMonotonic
  <1> HIDE DEF ends, f
  <1>10. ends = f
    BY <1>4, <1>5, <1>6, <1>7, <1>8, <1>9, OneOrder
  <1> QED
    BY <1>10 DEF ends, f, v

LEMMA LinesRead ==
  ASSUME NEW rows \in Seq(Seq(Nat)), NEW w \in Nat,
         \A i \in DOMAIN rows : Len(rows[i]) = w /\ \A j \in 1 .. w : rows[i][j] # CR
  PROVE  LET body == FlattenSeq([i \in DOMAIN rows |-> Append(rows[i], CR)])
         IN body \in Seq(Nat) /\ Lines(body) = rows
  <1> DEFINE N == Len(rows)
             v == w + 1
             body == FlattenSeq([i \in DOMAIN rows |-> Append(rows[i], CR)])
             L == Len(body)
             e == Edge(body)
             ends == RowEnds(body)
             lines == Lines(body)
             Q == Seq(Nat)
  <1>1. /\ N \in Nat /\ DOMAIN rows = 1 .. N /\ v \in Nat /\ v = w + 1
        /\ \A i \in 1 .. N : /\ rows[i] \in Seq(Nat) /\ Len(rows[i]) = w
                             /\ \A j \in 1 .. w : rows[i][j] # CR
    OBVIOUS
  <1>2. /\ body \in Seq(Nat) /\ Len(body) = N * v
        /\ \A i \in 1 .. N : /\ body[i * v] = CR
                             /\ \A j \in 1 .. w : body[(i - 1) * v + j] = rows[i][j]
    BY RowsAreEven
  <1> HIDE DEF body, N
  <1>3. ends = [k \in 1 .. N |-> k * v]
    <2>1. \A i \in 1 .. N : /\ body[i * v] = CR
                            /\ \A j \in 1 .. w : body[(i - 1) * v + j] # CR
      BY <1>1, <1>2, ZenonT(40)
    <2> HIDE DEF ends
    <2>2. RowEnds(body) = [k \in 1 .. N |-> k * (w + 1)]
      BY <1>1, <1>2, <2>1, EndsAre
    <2> QED
      BY <2>2 DEF ends
  <1> HIDE DEF ends
  <1>4. Len(ends) = N /\ \A k \in 1 .. N : ends[k] = k * v
    BY <1>1, <1>3
  <1>5. e[1] = 0 /\ \A k \in 1 .. N : e[k + 1] = ends[k]
    <2>1. e[1] = 0 /\ \A k \in 1 .. Len(ends) : e[k + 1] = ends[k]
      BY <1>2, EdgesAreThere DEF ends
    <2> HIDE DEF e
    <2> QED
      BY <1>4, <2>1
  <1> HIDE DEF e, v
  <1>6. \A k \in 1 .. N + 1 : e[k] = (k - 1) * v
    <2>1. TAKE k \in 1 .. N + 1
    <2>2. CASE k = 1
      <3>1. (k - 1) * v = 0
        BY <1>1, <2>2, Multiples
      <3> QED
        BY <1>5, <2>2, <3>1
    <2>3. CASE k # 1
      <3>1. k - 1 \in 1 .. N /\ k - 1 + 1 = k
        BY <1>1, <2>3
      <3> QED
        BY <1>4, <1>5, <3>1
    <2> QED
      BY <2>2, <2>3
  <1> DEFINE rest == SubSeq(body, e[N + 1] + 1, L)
  <1>7. rest = <<>>
    <2>1. N + 1 \in 1 .. N + 1 /\ N + 1 - 1 = N
      BY <1>1
    <2>2. e[N + 1] = L
      <3> DEFINE k == N + 1
      <3>1. k \in 1 .. N + 1 /\ k - 1 = N
        BY <1>1, <2>1
      <3> HIDE DEF k
      <3>2. e[k] = (k - 1) * v
        BY <1>6, <3>1
      <3>3. e[k] = N * v
        BY <3>1, <3>2
      <3> QED
        BY <1>2, <3>3 DEF k
    <2>3. L \in Nat
      BY <1>2
    <2> DEFINE m == e[N + 1]
    <2> HIDE DEF m, L
    <2>4. SubSeq(body, m + 1, L) = <<>>
      <3>1. m + 1 \in Int /\ L \in Int /\ L < m + 1
        BY <2>2, <2>3 DEF m
      <3> QED
        BY <1>2, <3>1, SubSeqEmpty
    <2> QED
      BY <2>4 DEF m, L
  <1>8. /\ lines \in Seq(Q) /\ Len(lines) = N
        /\ \A k \in 1 .. N : lines[k] = SubSeq(body, e[k] + 1, e[k + 1] - 1)
    <2>1. /\ lines \in Seq(Seq(Nat))
          /\ Len(lines) = IF rest = <<>> THEN Len(ends) ELSE Len(ends) + 1
          /\ \A k \in 1 .. Len(ends) : lines[k] = SubSeq(body, e[k] + 1, e[k + 1] - 1)
      <3> DEFINE n == Len(ends)
                 other == SubSeq(body, e[n + 1] + 1, L)
      <3>1. body \in Seq(Nat)
        BY <1>2
      <3>2. /\ lines \in Seq(Seq(Nat))
            /\ Len(lines) = IF other = <<>> THEN n ELSE n + 1
            /\ \A k \in 1 .. n : lines[k] = SubSeq(body, e[k] + 1, e[k + 1] - 1)
        BY <3>1, LinesAre, Zenon DEF ends, e
      <3>3. other = rest
        BY <1>4
      <3> HIDE DEF other, rest, lines
      <3> QED
        BY <3>2, <3>3
    <2> HIDE DEF lines, rest
    <2> QED
      BY <1>4, <1>7, <2>1
  <1> HIDE DEF lines, rest, L
  <1>9. ASSUME NEW k \in 1 .. N
        PROVE  lines[k] = rows[k]
    <2> DEFINE a == (k - 1) * v
               b == a + w
               x == SubSeq(body, a + 1, b)
               y == rows[k]
    <2>1. k \in Nat \ {0} /\ k - 1 \in Nat /\ k <= N /\ k \in 1 .. N + 1 /\ k + 1 \in 1 .. N + 1
          /\ k + 1 - 1 = k
      BY <1>1
    <2>2. a \in Nat /\ k * v = a + v /\ k * v <= N * v /\ N * v \in Nat
      BY <1>1, <2>1, Multiples
    <2>3. e[k] = a /\ e[k + 1] - 1 = b
      <3>1. e[k] = a /\ e[k + 1] = k * v
        BY <1>6, <2>1
      <3> HIDE DEF a
      <3> QED
        BY <1>1, <2>2, <3>1
    <2>4. b \in Nat /\ b \in 0 .. Len(body) /\ a <= b /\ b - a = w
      <3> HIDE DEF a
      <3> QED
        BY <1>1, <1>2, <2>2
    <2>5. y \in Seq(Nat) /\ Len(y) = w /\ \A j \in 1 .. w : body[a + j] = y[j]
      BY <1>1, <1>2
    <2>6. lines[k] = x
      BY <1>8, <2>3
    <2> HIDE DEF a, b, y
    <2>7. /\ x \in Seq(Nat)
          /\ Len(x) = IF a <= b THEN b - a ELSE 0
          /\ \A j \in 1 .. Len(x) : x[j] = body[a + j]
      <3>1. body \in Seq(Nat) /\ a \in Nat /\ b \in 0 .. Len(body)
        BY <1>2, <2>2, <2>4
      <3> QED
        BY <3>1, Part
    <2> HIDE DEF x
    <2>8. Len(x) = Len(y) /\ \A j \in 1 .. Len(y) : x[j] = y[j]
      BY <2>4, <2>5, <2>7
    <2>9. x = y
      BY <2>5, <2>7, <2>8, SameElements
    <2> QED
      BY <2>6, <2>9 DEF y
  <1>10. lines = rows
    <2>1. lines \in Seq(Q) /\ rows \in Seq(Q) /\ Len(lines) = Len(rows)
      BY <1>8 DEF Q, N
    <2>2. \A k \in 1 .. Len(rows) : lines[k] = rows[k]
      BY <1>9 DEF N
    <2> HIDE DEF Q
    <2> QED
      BY <2>1, <2>2, SameElements
  <1> QED
    BY <1>2, <1>10 DEF body, lines

LEMMA PictureReads ==
  ASSUME NEW l \in Nat, NEW rows \in Seq(Seq(Nat)), rows # <<>>,
         \A i \in DOMAIN rows : /\ Len(rows[i]) = Len(rows[1])
                                /\ \A j \in DOMAIN rows[i] : rows[i][j] # CR
  PROVE  Reads(Payload(Picture(l, rows)), Picture(l, rows))
  <1> DEFINE c == Picture(l, rows)
             N == Len(rows)
             w == Len(rows[1])
             size == <<Digits(N), Digits(w)>>
             f == <<WriteDots, l>>
             body == FlattenSeq([i \in DOMAIN rows |-> Append(rows[i], CR)])
             p == f \o (size \o body)
  <1>1. /\ N \in Nat /\ N >= 1 /\ DOMAIN rows = 1 .. N /\ w \in Nat
        /\ \A i \in DOMAIN rows : Len(rows[i]) = w /\ \A j \in 1 .. w : rows[i][j] # CR
    <2>1. N \in Nat /\ N >= 1 /\ DOMAIN rows = 1 .. N
      OBVIOUS
    <2>2. 1 \in DOMAIN rows
      BY <2>1
    <2>3. \A i \in DOMAIN rows : rows[i] \in Seq(Nat)
      OBVIOUS
    <2>4. \A i \in DOMAIN rows : Len(rows[i]) \in Nat /\ DOMAIN rows[i] = 1 .. Len(rows[i])
      BY <2>3
    <2> QED
      BY <2>1, <2>2, <2>4
  <1>2. body \in Seq(Nat) /\ Lines(body) = rows
    BY <1>1, LinesRead
  <1>3. \A n \in Nat : Digits(n) \in Nat /\ IsDigits(Digits(n)) /\ Number(Digits(n)) = n
    BY DEF Digits, IsDigits, Number
  <1>4. /\ f \in Seq(Nat) /\ Len(f) = 2 /\ size \in Seq(Nat) /\ Len(size) = 2
        /\ size[1] = Digits(N) /\ size[2] = Digits(w)
    <2>1. Digits(N) \in Nat /\ Digits(w) \in Nat
      BY <1>1, <1>3
    <2> QED
      BY <2>1 DEF WriteDots
  <1>5. Payload(c) = <<WriteDots, l, Digits(N), Digits(w)>> \o body
    <2>1. c.op = "dots" /\ c.label = l /\ c.rows = rows /\ c.size = <<N, w>>
      BY DEF Picture, Nothing
    <2>2. Release.op = "text"
      BY DEF Release, Nothing
    <2> HIDE DEF c, N, w
    <2>3. c # Release
      BY <2>1, <2>2
    <2>4. Payload(c) = <<WriteDots, c.label, Digits(c.size[1]), Digits(c.size[2])>>
            \o FlattenSeq([i \in DOMAIN c.rows |-> Append(c.rows[i], CR)])
      BY <2>1, <2>3 DEF Payload
    <2>5. c.size[1] = N /\ c.size[2] = w
      BY <2>1
    <2> QED
      BY <2>1, <2>4, <2>5
  <1>6. Payload(c) = p
    <2> DEFINE x == Digits(N)
               y == Digits(w)
               a == WriteDots
               g == <<x, y>>
               h == <<a, l>>
    <2>1. x \in Nat /\ y \in Nat /\ a \in Nat
      BY <1>1, <1>3 DEF WriteDots
    <2> HIDE DEF x, y, a
    <2>2. <<a, l, x, y>> = h \o g /\ h \in Seq(Nat) /\ g \in Seq(Nat)
      BY <2>1
    <2> HIDE DEF body, g, h
    <2>3. (h \o g) \o body = h \o (g \o body)
      <3> DEFINE S == Nat
      <3>1. h \in Seq(S) /\ g \in Seq(S) /\ body \in Seq(S)
        BY <1>2, <2>2
      <3> HIDE DEF S
      <3>2. \A s, t, u \in Seq(S) : (s \o t) \o u = s \o (t \o u)
        BY Associative, SMTT(30)
      <3> QED
        BY <3>1, <3>2, Zenon
    <2>4. Payload(c) = <<a, l, x, y>> \o body
      BY <1>5 DEF a, x, y
    <2>5. Payload(c) = h \o (g \o body)
      BY <2>2, <2>3, <2>4
    <2> QED
      BY <2>5 DEF h, g, a, x, y
  <1> HIDE DEF body, size, N, w
  <1> DEFINE q == size \o body
  <1>7. q \in Seq(Nat)
    <2>1. size \in Seq(Nat) /\ body \in Seq(Nat)
      BY <1>2, <1>4
    <2> QED
      BY <2>1, Joined
  <1>8. /\ Slice(p, 2, 4) = size /\ After(p, 4) = body
    <2>1. f \in Seq(Nat) /\ size \in Seq(Nat) /\ body \in Seq(Nat)
      BY <1>2, <1>4
    <2> DEFINE u == Len(f)
               v == Len(f) + Len(size)
    <2>2. u = 2 /\ v = 4
      BY <1>4
    <2> HIDE DEF f
    <2>3. Slice(p, u, v) = size /\ After(p, v) = body
      BY <2>1, PartBetween
    <2> HIDE DEF p, u, v
    <2> QED
      BY <2>2, <2>3
  <1>9. p[2] = l /\ DecodePayload(p) = ReadPicture(p)
    <2>1. WriteDots \in Nat
      BY DEF WriteDots
    <2> HIDE DEF q
    <2>2. (<<WriteDots, l>> \o q)[2] = l
      BY <1>7, <2>1, PayloadIs
    <2>3. DecodePayload(<<WriteDots, l>> \o q) = ReadPicture(<<WriteDots, l>> \o q)
      BY <1>7, DecoderOf
    <2> QED
      BY <2>2, <2>3 DEF q
  <1> HIDE DEF p, c
  <1>10. Geometry(size) = <<N, w>>
    <2>1. /\ IsDigits(size[1]) /\ IsDigits(size[2])
          /\ Number(size[1]) = N /\ Number(size[2]) = w
      BY <1>1, <1>3, <1>4 DEF N
    <2> QED
      BY <2>1 DEF Geometry
  <1>11. ReadPicture(p).command =
           [Nothing EXCEPT !.op = "dots", !.label = l, !.rows = rows, !.size = <<N, w>>]
    <2>1. ~(Len(size) < 2)
      BY <1>4
    <2>2. ReadPicture(p).command =
            [Nothing EXCEPT !.op = "dots", !.label = p[2], !.rows = Lines(body),
               !.size = Geometry(size)]
      BY <1>8, <2>1 DEF ReadPicture, Read
    <2> QED
      BY <1>2, <1>9, <1>10, <2>2
  <1>12. [Nothing EXCEPT !.op = "dots", !.label = l, !.rows = rows, !.size = <<N, w>>] = c
    BY PictureIs DEF N, w, c
  <1> QED
    BY <1>6, <1>9, <1>11, <1>12 DEF Reads, c

LEMMA PictureMeant ==
  ASSUME NEW c, c.op = "dots", c = Picture(c.label, c.rows), c.label \in Nat,
         c.rows \in Seq(Seq(Nat)), Buildable(c)
  PROVE  Reads(Payload(c), c)
  <1> DEFINE rows == c.rows
             l == c.label
  <1>1. /\ c.size \in (1 .. MaxRows) \X (1 .. MaxColumns)
        /\ \A i \in DOMAIN c.rows :
             /\ Len(c.rows[i]) = c.size[2]
             /\ \A j \in DOMAIN c.rows[i] : c.rows[i][j] \in PixelCodes
    BY DEF Buildable
  <1>2. c.size = <<Len(rows), Len(rows[1])>>
    <2>1. \A r : Picture(l, r).size = <<Len(r), Len(r[1])>>
      BY DEF Picture, Nothing
    <2> HIDE DEF rows, l
    <2>2. c.size = Picture(l, rows).size
      BY DEF rows, l
    <2> QED
      BY <2>1, <2>2
  <1>3. rows \in Seq(Seq(Nat)) /\ rows # <<>>
    <2>1. Len(rows) \in 1 .. MaxRows
      BY <1>1, <1>2
    <2> QED
      BY <2>1
  <1>4. \A i \in DOMAIN rows : /\ Len(rows[i]) = Len(rows[1])
                               /\ \A j \in DOMAIN rows[i] : rows[i][j] # CR
    <2>1. CR \notin PixelCodes
      BY DEF CR, PixelCodes
    <2>2. c.size[2] = Len(rows[1])
      BY <1>2
    <2> QED
      BY <1>1, <2>1, <2>2
  <1>5. c = Picture(l, rows) /\ l \in Nat
    OBVIOUS
  <1> HIDE DEF rows, l
  <1> QED
    BY <1>3, <1>4, <1>5, PictureReads

\* Whatever the builders can be asked for is read as it was meant.
LEMMA MeantReads ==
  ASSUME NEW c, IsMeant(c), Buildable(c)
  PROVE  Reads(Payload(c), c)
  <1>1. CASE c \in {Release, Wipe}
    BY <1>1, ReleaseReads, WipeReads
  <1>2. CASE /\ c.op = "text" /\ c = Message(c.label, c.mode, c.body)
             /\ c.label \in Nat /\ IsMode(c.mode) /\ c.body \in Seq(Nat)
    <2>1. Reads(Payload(Message(c.label, c.mode, c.body)), Message(c.label, c.mode, c.body))
      BY <1>2, MessageReads
    <2> QED
      BY <1>2, <2>1
  <1>3. CASE /\ c.op = "string" /\ c = Value(c.label, c.body)
             /\ c.label \in Nat /\ c.body \in Seq(Nat)
    <2>1. Reads(Payload(Value(c.label, c.body)), Value(c.label, c.body))
      BY <1>3, ValueReads
    <2> QED
      BY <1>3, <2>1
  <1>4. CASE /\ c.op = "dots" /\ c = Picture(c.label, c.rows)
             /\ c.label \in Nat /\ c.rows \in Seq(Seq(Nat))
    BY <1>4, PictureMeant
  <1>5. CASE /\ c.op = "configure" /\ c = Configuration(c.entries)
             /\ c.entries \in Seq(Allocations)
    <2>1. c.entries # <<>>
      BY <1>5 DEF Buildable
    <2>2. Reads(Payload(Configuration(c.entries)), Configuration(c.entries))
      BY <1>5, <2>1, ConfigurationReads
    <2> QED
      BY <1>5, <2>2
  <1>6. CASE c.op = "sequence" /\ c = Sequence(c.labels) /\ c.labels \in Seq(Nat)
    <2>1. Reads(Payload(Sequence(c.labels)), Sequence(c.labels))
      BY <1>6, SequenceReads
    <2> QED
      BY <1>6, <2>1
  <1>7. CASE /\ c.op \in {"time", "day"} /\ c = Clock(c.op, c.body) /\ c.body \in Seq(Nat)
             /\ Len(c.body) = IF c.op = "time" THEN 2 ELSE 1
    <2> DEFINE b == c.body
    <2>1. CASE c.op = "time"
      <3>1. b \in (0 .. 23) \X (0 .. 59)
        BY <2>1 DEF Buildable
      <3>2. b \in Seq(Nat) /\ Len(b) = 2
        BY <1>7, <2>1
      <3> HIDE DEF b
      <3> DEFINE hour == b[1]
                 minute == b[2]
      <3>3. hour \in 0 .. 23 /\ minute \in 0 .. 59 /\ b = <<hour, minute>>
        BY <3>1, SMTT(30)
      <3> HIDE DEF hour, minute
      <3>4. LET d == Clock("time", <<hour, minute>>) IN Reads(Payload(d), d)
        BY <3>3, TimeReads
      <3>5. c = Clock("time", <<hour, minute>>)
        BY <1>7, <2>1, <3>3 DEF b
      <3> QED
        BY <3>4, <3>5
    <2>2. CASE c.op = "day"
      <3>1. b[1] \in 1 .. 7
        BY <2>2 DEF Buildable
      <3>2. b \in Seq(Nat) /\ Len(b) = 1
        BY <1>7, <2>2
      <3> HIDE DEF b
      <3> DEFINE day == b[1]
      <3>3. day \in 1 .. 7 /\ b = <<day>>
        BY <3>1, <3>2
      <3> HIDE DEF day
      <3>4. LET d == Clock("day", <<day>>) IN Reads(Payload(d), d)
        BY <3>3, DayReads
      <3>5. c = Clock("day", <<day>>)
        BY <1>7, <2>2, <3>3 DEF b
      <3> QED
        BY <3>4, <3>5
    <2> QED
      BY <1>7, <2>1, <2>2
  <1>8. CASE c = Clock("format", c.body) /\ c.body \in Formats
    <2>1. LET d == Clock("format", c.body) IN Reads(Payload(d), d)
      BY <1>8, FormatReads
    <2> QED
      BY <1>8, <2>1
  <1> QED
    BY <1>1, <1>2, <1>3, <1>4, <1>5, <1>6, <1>7, <1>8, Zenon DEF IsMeant

\* What a client means is what the simulator reads, for any command the builders
\* build and however its transmission arrived: frames.py against decode.py.
THEOREM WhatIsBuiltIsRead == Spec => []CommandsReadAsMeant
  <1>1. CommandsReadAsMeant
    <2> SUFFICES ASSUME NEW i \in DOMAIN last.found, NEW c \in Commands,
                        ~last.found[i].truncated,
                        last.found[i].raw = Header \o Payload(c) \o <<EOT>>
                 PROVE  Decode(last.found[i].raw, FALSE).command = c
      BY DEF CommandsReadAsMeant
    <2>1. IsMeant(c) /\ Buildable(c) /\ Payload(c) \in Seq(Nat)
      BY SimulatorAssumption
    <2>2. Decode(Header \o Payload(c) \o <<EOT>>, FALSE).command
            = DecodePayload(Payload(c)).command
      BY <2>1, FrameHolds
    <2>3. DecodePayload(Payload(c)).command = c
      BY <2>1, MeantReads DEF Reads
    <2> QED
      BY <2>2, <2>3
  <1> QED
    BY <1>1, PTL

=============================================================================
