------------------------------ MODULE LineProofs ------------------------------
(***************************************************************************)
(* The two ends of the line to the sign.                                   *)
(*                                                                         *)
(* At the service's end, SerialLink keeps its invariant for any number of  *)
(* threads in write and any backoff, and implements Transport: each step   *)
(* of it is one of Transport's or leaves what the controller sees alone.   *)
(*                                                                         *)
(* At the sign's end, Simulator's scanner finds in a stream the frames     *)
(* that were sent whole, and no others.  The inductive invariant is        *)
(* StreamInv, on what a connection has in its buffer and in flight, read   *)
(* as one stream: no header runs into another, no frame of it is too long  *)
(* to be kept, what is begun in it is ended unless the connection was cut, *)
(* and the frames that are due stand in it, in order.  A write adds a      *)
(* frame, or the part of one, at the end; a receive moves bytes from the   *)
(* flight to the buffer; a look takes the first frame off, or throws away  *)
(* what can start none.                                                    *)
(***************************************************************************)
EXTENDS SimulatorProofs, SerialLink

-----------------------------------------------------------------------------
(* The delay stays between the two values it is configured with.           *)
LEMMA FailureEffect ==
  ASSUME LinkTypeOK, RecordFailure
  PROVE  retryDelay' \in BackoffInitial .. BackoffMax /\ wait' \in 0 .. BackoffMax
  BY LinkAssumption DEF LinkTypeOK, RecordFailure, Lesser

LEMMA LinkStartsSound == LinkInit => SerialLinkInv
<1> SUFFICES ASSUME LinkInit PROVE SerialLinkInv
  OBVIOUS
<1> USE LinkAssumption DEF LinkInit, Threads, Opening
<1>1. pc \in [Threads -> {"idle", "checked", "sending", "counting", "resending"}
                         \cup Opening]
  OBVIOUS
<1>2. retryDelay \in BackoffInitial .. BackoffMax /\ wait \in 0 .. BackoffMax
  OBVIOUS
<1>3. LinkTypeOK
  BY <1>1, <1>2 DEF LinkTypeOK
<1>4. LockInv
  BY DEF LockInv
<1>5. LinkInv
  BY DEF LinkInv
<1>6. QED
  BY <1>3, <1>4, <1>5 DEF SerialLinkInv

LEMMA LinkStep == SerialLinkInv /\ [LinkNext]_linkVars => SerialLinkInv'
<1> SUFFICES ASSUME SerialLinkInv, [LinkNext]_linkVars PROVE SerialLinkInv'
  OBVIOUS
<1> USE LinkAssumption
    DEF SerialLinkInv, LinkTypeOK, LockInv, LinkInv, Threads, Opening, Goes, Leaves,
        backoff
<1>1. ASSUME NEW w \in Writers, Check(w) PROVE SerialLinkInv'
  BY <1>1 DEF Check
<1>2. ASSUME NEW w \in Writers, Take(w) PROVE SerialLinkInv'
  <2>1. CASE port = "down"
    BY <1>2, <2>1 DEF Take
  <2>2. CASE port # "down"
    BY <1>2, <2>2 DEF Take
  <2>3. QED
    BY <2>1, <2>2
<1>3. ASSUME NEW w \in Writers, SendReturns(w) PROVE SerialLinkInv'
  BY <1>3 DEF SendReturns
<1>4. ASSUME NEW w \in Writers, SendFails(w) PROVE SerialLinkInv'
  BY <1>4 DEF SendFails
<1>5. ASSUME NEW w \in Writers, Reopen(w) PROVE SerialLinkInv'
  <2>1. CASE Opens /\ Goes(w, "counting") /\ UNCHANGED lock
    BY <1>5, <2>1 DEF Reopen, Opens
  <2>2. CASE CannotOpen /\ Leaves(w)
    BY <1>5, <2>2, FailureEffect DEF Reopen, CannotOpen
  <2>3. QED
    BY <1>5, <2>1, <2>2 DEF Reopen
<1>6. ASSUME NEW w \in Writers, Count(w) PROVE SerialLinkInv'
  BY <1>6 DEF Count
<1>7. ASSUME NEW w \in Writers, Resend(w) PROVE SerialLinkInv'
  BY <1>7 DEF Resend
<1>8. ASSUME NEW w \in Writers, ResendFails(w) PROVE SerialLinkInv'
  BY <1>8, FailureEffect DEF ResendFails
<1>9. CASE Ask
  BY <1>9 DEF Ask
<1>10. CASE EnsureOpen
  <2>1. CASE port # "down" \/ wait > 0
    BY <1>10, <2>1 DEF EnsureOpen
  <2>2. CASE ~(port # "down" \/ wait > 0)
    BY <1>10, <2>2 DEF EnsureOpen
  <2>3. QED
    BY <2>1, <2>2
<1>11. CASE Open
  <2>1. CASE Opens
    BY <1>11, <2>1 DEF Open, Opens
  <2>2. CASE CannotOpen
    BY <1>11, <2>2, FailureEffect DEF Open, CannotOpen
  <2>3. QED
    BY <1>11, <2>1, <2>2 DEF Open
<1>12. CASE ReadFails
  BY <1>12, FailureEffect DEF ReadFails
<1>13. CASE Close
  BY <1>13 DEF Close
<1>14. CASE Tick
  BY <1>14 DEF Tick
<1>15. CASE ConnectionDies \/ AdapterGoes \/ AdapterReturns
  BY <1>15 DEF ConnectionDies, AdapterGoes, AdapterReturns, Dies
<1>16. CASE UNCHANGED linkVars
  BY <1>16 DEF linkVars
<1>17. QED
  BY <1>1, <1>2, <1>3, <1>4, <1>5, <1>6, <1>7, <1>8, <1>9, <1>10, <1>11, <1>12,
     <1>13, <1>14, <1>15, <1>16
  DEF LinkNext, Write

(* A port is opened only where there is none, by the one thread that holds *)
(* the lock, and is at rest only with its backoff reset (_open_locked).    *)
THEOREM LinkIsSound == LinkSpec => []SerialLinkInv
  BY LinkStartsSound, LinkStep, PTL DEF LinkSpec

-----------------------------------------------------------------------------
(* While one writer is between closing a port and counting the one it      *)
(* opened, no other thread is at work on the port.                         *)
LEMMA OneAtWork ==
  ASSUME SerialLinkInv, NEW w \in Writers, pc[w] \notin {"idle", "checked"}
  PROVE  /\ lock = w
         /\ \A t \in Threads : t # w => pc[t] \in {"idle", "checked"}
         /\ MidReopen <=> pc[w] \in {"reopening", "counting"}
  BY LinkAssumption DEF SerialLinkInv, LockInv, LinkTypeOK, Threads, MidReopen

(* With the lock free, or the opener's, no writer is in the middle, before *)
(* a step and after it.                                                    *)
LEMMA NobodyMidReopen ==
  /\ SerialLinkInv /\ lock \notin Writers => ~MidReopen
  /\ SerialLinkInv' /\ lock' \notin Writers => ~MidReopen'
<1> USE DEF SerialLinkInv, LockInv, LinkTypeOK, Threads, MidReopen
<1>1. SerialLinkInv /\ lock \notin Writers => ~MidReopen
  BY LinkAssumption
<1>2. SerialLinkInv' /\ lock' \notin Writers => ~MidReopen'
  BY LinkAssumption
<1>3. QED
  BY <1>1, <1>2

(* A step that only moves threads between idle, checked and sending, which *)
(* the controller cannot see, leaves what it does see alone.               *)
LEMMA Unseen ==
  ASSUME UNCHANGED <<port, reopens>>, MidReopen' <=> MidReopen
  PROVE  UNCHANGED Promised!transportVars
  BY DEF linkSeen, Promised!transportVars

LEMMA StepIsTransports ==
  SerialLinkInv /\ [LinkNext]_linkVars => [Promised!Next]_Promised!transportVars
<1> SUFFICES ASSUME SerialLinkInv, [LinkNext]_linkVars
             PROVE  [Promised!Next]_Promised!transportVars
  OBVIOUS
<1> DEFINE Simulated == [Promised!Next]_Promised!transportVars
<1>a. SerialLinkInv'
  BY LinkStep
<1>b. UNCHANGED Promised!transportVars => Simulated
  OBVIOUS
<1> USE LinkAssumption DEF Goes, Leaves, backoff
<1> HIDE DEF Simulated
<1>1. ASSUME NEW w \in Writers, Check(w) \/ Take(w) \/ SendReturns(w) \/ Resend(w)
      PROVE  Simulated
  <2>1. UNCHANGED <<port, reopens>>
    BY <1>1 DEF Check, Take, SendReturns, Resend
  <2>2. \E to \in {"idle", "checked", "sending"} : pc' = [pc EXCEPT ![w] = to]
    BY <1>1 DEF Check, Take, SendReturns, Resend
  <2>3. pc[w] \notin {"reopening", "counting"}
    BY <1>1 DEF Check, Take, SendReturns, Resend
  <2>4. MidReopen' <=> MidReopen
    BY <2>2, <2>3 DEF MidReopen, SerialLinkInv, LinkTypeOK, Threads
  <2>5. QED
    BY <2>1, <2>4, <1>b, Unseen
<1>2. ASSUME NEW w \in Writers, SendFails(w) PROVE Simulated
  <2>1. linkSeen = "dead"
    BY <1>2, OneAtWork DEF SendFails, linkSeen
  <2>2. MidReopen'
    BY <1>2 DEF SendFails, MidReopen, SerialLinkInv, LinkTypeOK, Threads
  <2>3. linkSeen' = "dead" /\ reopens' = reopens
    BY <1>2, <2>2 DEF SendFails, linkSeen
  <2>4. QED
    BY <2>1, <2>3, <1>b DEF Promised!transportVars
<1>3. ASSUME NEW w \in Writers, Reopen(w) PROVE Simulated
  <2>1. linkSeen = "dead"
    BY <1>3, OneAtWork DEF Reopen, linkSeen
  <2>2. CASE Opens /\ Goes(w, "counting") /\ UNCHANGED lock
    <3>1. MidReopen'
      BY <1>3, <2>2 DEF MidReopen, SerialLinkInv, LinkTypeOK, Threads
    <3>2. linkSeen' = "dead" /\ reopens' = reopens
      BY <1>3, <3>1 DEF Reopen, linkSeen
    <3>3. QED
      BY <2>1, <3>2, <1>b DEF Promised!transportVars
  <2>3. CASE CannotOpen /\ Leaves(w)
    <3>1. ~MidReopen'
      BY <1>a, <2>3, NobodyMidReopen, OneAtWork, <1>3
      DEF Reopen, MidReopen, SerialLinkInv, LinkTypeOK, Threads
    <3>2. linkSeen' = "down" /\ reopens' = reopens
      BY <1>3, <2>3, <3>1 DEF Reopen, CannotOpen, linkSeen
    <3>3. QED
      BY <2>1, <3>2 DEF Simulated, Promised!Next, Promised!Drop
  <2>4. QED
    BY <1>3, <2>2, <2>3 DEF Reopen
<1>4. ASSUME NEW w \in Writers, Count(w) PROVE Simulated
  <2>1. linkSeen = "dead"
    BY <1>4, OneAtWork DEF Count, linkSeen
  <2>2. ~MidReopen'
    BY <1>4, OneAtWork DEF Count, MidReopen, SerialLinkInv, LinkTypeOK, Threads
  <2>3. port' \in {"up", "dead"}
    BY <1>4 DEF Count, SerialLinkInv, LinkTypeOK, LockInv
  <2>4. linkSeen' \in {"up", "dead"} /\ reopens' = reopens + 1
    BY <1>4, <2>2, <2>3 DEF Count, linkSeen
  <2>5. QED
    BY <2>1, <2>4 DEF Simulated, Promised!Next, Promised!Reopen
<1>5. ASSUME NEW w \in Writers, ResendFails(w) PROVE Simulated
  <2>1. linkSeen = "dead"
    BY <1>5, OneAtWork DEF ResendFails, linkSeen
  <2>2. ~MidReopen'
    BY <1>5, OneAtWork DEF ResendFails, MidReopen, SerialLinkInv, LinkTypeOK, Threads
  <2>3. linkSeen' = "down" /\ reopens' = reopens
    BY <1>5, <2>2 DEF ResendFails, linkSeen
  <2>4. QED
    BY <2>1, <2>3 DEF Simulated, Promised!Next, Promised!Drop
<1>6. CASE Ask \/ EnsureOpen
  <2>1. UNCHANGED <<port, reopens>>
    BY <1>6 DEF Ask, EnsureOpen
  <2>2. MidReopen' <=> MidReopen
    BY <1>6 DEF Ask, EnsureOpen, MidReopen, SerialLinkInv, LinkTypeOK, Threads
  <2>3. QED
    BY <2>1, <2>2, <1>b, Unseen
<1>7. CASE Open
  <2>1. lock = Opener /\ port = "down"
    BY <1>7 DEF Open, SerialLinkInv, LockInv, LinkInv, Threads, Opening
  <2>2. linkSeen = "down"
    BY <2>1, NobodyMidReopen DEF linkSeen
  <2>3. ~MidReopen'
    BY <1>a, <1>7, NobodyMidReopen DEF Open
  <2>4. reopens' = reopens /\ linkSeen' \in {"up", "down"}
    BY <1>7, <2>3 DEF Open, Opens, CannotOpen, linkSeen
  <2>5. QED
    BY <2>2, <2>4, <1>b
    DEF Simulated, Promised!Next, Promised!Open, Promised!transportVars
<1>8. CASE ReadFails
  <2>1. ~MidReopen /\ ~MidReopen'
    BY <1>a, <1>8, NobodyMidReopen DEF ReadFails
  <2>2. linkSeen = "dead" /\ linkSeen' = "down" /\ reopens' = reopens
    BY <1>8, <2>1 DEF ReadFails, linkSeen
  <2>3. QED
    BY <2>2 DEF Simulated, Promised!Next, Promised!Drop
<1>9. CASE Close
  <2>1. ~MidReopen'
    BY <1>a, <1>9, NobodyMidReopen DEF Close
  <2>2. linkSeen' = "down" /\ reopens' = reopens
    BY <1>9, <2>1 DEF Close, linkSeen
  <2>3. QED
    BY <2>2 DEF Simulated, Promised!Next, Promised!Close
<1>10. CASE ConnectionDies \/ AdapterGoes
  <2>1. reopens' = reopens /\ (MidReopen' <=> MidReopen)
    BY <1>10 DEF ConnectionDies, AdapterGoes, MidReopen
  <2>2. port' = IF port = "up" THEN "dead" ELSE port
    BY <1>10 DEF ConnectionDies, AdapterGoes, Dies
  <2>3. CASE port = "up" /\ ~MidReopen
    BY <2>1, <2>2, <2>3
    DEF linkSeen, Simulated, Promised!Next, Promised!Die
  <2>4. CASE MidReopen \/ port # "up"
    BY <2>1, <2>2, <2>4, <1>b DEF linkSeen, Promised!transportVars
  <2>5. QED
    BY <2>3, <2>4
<1>11. CASE Tick \/ AdapterReturns \/ UNCHANGED linkVars
  <2>1. UNCHANGED <<port, reopens>> /\ (MidReopen' <=> MidReopen)
    BY <1>11 DEF Tick, AdapterReturns, linkVars, MidReopen
  <2>2. QED
    BY <2>1, <1>b, Unseen
<1>12. QED
  BY <1>1, <1>2, <1>3, <1>4, <1>5, <1>6, <1>7, <1>8, <1>9, <1>10, <1>11
  DEF LinkNext, Write, Simulated

LEMMA InitIsTransports == LinkInit => Promised!Init
  BY LinkAssumption DEF LinkInit, Promised!Init, linkSeen, MidReopen, Threads

(* The link is the Transport the controller is written for: whichever      *)
(* thread gets the lock when, a new connection is one ensure_open says it  *)
(* opened or one that has been counted (write, ensure_open, reopens).      *)
THEOREM LinkIsATransport == LinkSpec => IsATransport
<1>1. SerialLinkInv /\ [LinkNext]_linkVars => [Promised!Next]_Promised!transportVars
  BY StepIsTransports
<1>2. QED
  BY <1>1, InitIsTransports, LinkIsSound, PTL DEF LinkSpec, IsATransport, Promised!Spec

-----------------------------------------------------------------------------
(* Where the frames of a stream stand, and what of them was sent whole.    *)
Positions == Nat \ {0}
HeadsAt(x, i) == i \in 1 .. Len(x) /\ x[i] = SOH /\ IsHeader(x, i)
IsFrame(x, i, e) ==
  /\ HeadsAt(x, i) /\ e \in i + 5 .. Len(x) /\ x[e] = EOT
  /\ \A j \in i + 1 .. e - 1 : x[j] # EOT /\ ~HeadsAt(x, j)

\* Headers do not run into one another, and no frame is too long to be kept.
HeadersApart(x) ==
  \A i \in Positions : HeadsAt(x, i) =>
    \A j \in i + 1 .. i + 4 : x[j] # SOH /\ x[j] # EOT
FramesShort(x) == \A i, e \in Positions : IsFrame(x, i, e) => e - i + 1 <= MaxFrame
\* What is begun is ended.
AllEnd(x) == \A i \in Positions : HeadsAt(x, i) => \E e \in Positions : IsFrame(x, i, e)
NoFrame(x) == \A i, e \in Positions : ~IsFrame(x, i, e)

\* The frames of a stream are these, from these places to those, in order.
StandAt(frames, x, at, to) ==
  /\ at \in [1 .. Len(frames) -> Positions] /\ to \in [1 .. Len(frames) -> Positions]
  /\ \A j \in 1 .. Len(frames) :
       IsFrame(x, at[j], to[j]) /\ frames[j] = SubSeq(x, at[j], to[j])
  /\ \A i, e \in Positions : IsFrame(x, i, e) => \E j \in 1 .. Len(frames) : at[j] = i
  /\ \A j, l \in 1 .. Len(frames) : j < l => at[j] < at[l]
Stand(frames, x) == \E at, to : StandAt(frames, x, at, to)

\* The rest of a stream has its headers and frames where the stream has them.
LEMMA RestHeads ==
  ASSUME NEW x \in Seq(Nat), NEW m \in 0 .. Len(x), NEW y \in Seq(Nat),
         Len(y) = Len(x) - m, \A i \in 1 .. Len(y) : y[i] = x[m + i],
         NEW i \in Positions
  PROVE  HeadsAt(y, i) <=> HeadsAt(x, m + i)
  <1>1. i \in 1 .. Len(y) <=> m + i \in 1 .. Len(x)
    BY DEF Positions
  <1>2. i + 4 <= Len(y) <=> (m + i) + 4 <= Len(x)
    BY DEF Positions
  <1>3. i \in 1 .. Len(y) => y[i] = x[m + i]
    OBVIOUS
  <1>4. i + 4 <= Len(y) => y[i + 4] = x[(m + i) + 4]
    <2> SUFFICES ASSUME i + 4 <= Len(y) PROVE y[i + 4] = x[(m + i) + 4]
      OBVIOUS
    <2> DEFINE l == i + 4
    <2>1. l \in 1 .. Len(y) /\ m + l = (m + i) + 4
      BY DEF Positions
    <2> HIDE DEF l
    <2>2. y[l] = x[(m + i) + 4]
      BY <2>1
    <2> QED
      BY <2>2 DEF l
  <1> QED
    BY <1>1, <1>2, <1>3, <1>4 DEF HeadsAt, IsHeader

LEMMA RestFrames ==
  ASSUME NEW x \in Seq(Nat), NEW m \in 0 .. Len(x), NEW y \in Seq(Nat),
         Len(y) = Len(x) - m, \A i \in 1 .. Len(y) : y[i] = x[m + i],
         NEW i \in Positions, NEW e \in Positions
  PROVE  IsFrame(y, i, e) <=> IsFrame(x, m + i, m + e)
  <1>1. \A j \in Positions : HeadsAt(y, j) <=> HeadsAt(x, m + j)
    BY RestHeads
  <1>2. e \in i + 5 .. Len(y) <=> m + e \in (m + i) + 5 .. Len(x)
    BY DEF Positions
  <1>3. e \in i + 5 .. Len(y) => y[e] = x[m + e]
    <2>1. e \in i + 5 .. Len(y) => e \in 1 .. Len(y)
      BY DEF Positions
    <2> QED
      BY <2>1
  <1>4. ASSUME e \in i + 5 .. Len(y)
        PROVE  (\A j \in i + 1 .. e - 1 : y[j] # EOT /\ ~HeadsAt(y, j))
               <=> \A j \in (m + i) + 1 .. (m + e) - 1 : x[j] # EOT /\ ~HeadsAt(x, j)
    <2>1. ASSUME \A j \in i + 1 .. e - 1 : y[j] # EOT /\ ~HeadsAt(y, j),
                 NEW j \in (m + i) + 1 .. (m + e) - 1
          PROVE  x[j] # EOT /\ ~HeadsAt(x, j)
      <3>1. j - m \in i + 1 .. e - 1 /\ j - m \in 1 .. Len(y) /\ m + (j - m) = j
            /\ j - m \in Positions
        BY <1>4 DEF Positions
      <3> DEFINE l == j - m
      <3> HIDE DEF l
      <3>2. l \in i + 1 .. e - 1 /\ l \in 1 .. Len(y) /\ m + l = j /\ l \in Positions
        BY <3>1 DEF l
      <3>3. y[l] # EOT /\ ~HeadsAt(y, l) /\ y[l] = x[m + l]
        BY <2>1, <3>2
      <3> QED
        BY <1>1, <3>2, <3>3
    <2>2. ASSUME \A j \in (m + i) + 1 .. (m + e) - 1 : x[j] # EOT /\ ~HeadsAt(x, j),
                 NEW j \in i + 1 .. e - 1
          PROVE  y[j] # EOT /\ ~HeadsAt(y, j)
      <3>1. m + j \in (m + i) + 1 .. (m + e) - 1 /\ j \in 1 .. Len(y) /\ j \in Positions
        BY <1>4 DEF Positions
      <3> DEFINE l == m + j
      <3> HIDE DEF l
      <3>2. l \in (m + i) + 1 .. (m + e) - 1
        BY <3>1 DEF l
      <3>3. x[l] # EOT /\ ~HeadsAt(x, l)
        BY <2>2, <3>2
      <3> QED
        BY <1>1, <3>1, <3>3 DEF l
    <2> QED
      BY <2>1, <2>2
  <1>5. HeadsAt(y, i) <=> HeadsAt(x, m + i)
    BY <1>1
  <1> QED
    BY <1>2, <1>3, <1>4, <1>5 DEF IsFrame

LEMMA RestIsFine ==
  ASSUME NEW x \in Seq(Nat), NEW m \in 0 .. Len(x), NEW y \in Seq(Nat),
         Len(y) = Len(x) - m, \A i \in 1 .. Len(y) : y[i] = x[m + i]
  PROVE  /\ HeadersApart(x) => HeadersApart(y)
         /\ FramesShort(x) => FramesShort(y)
         /\ AllEnd(x) => AllEnd(y)
  <1>1. \A i \in Positions : HeadsAt(y, i) <=> HeadsAt(x, m + i)
    BY RestHeads
  <1>2. \A i, e \in Positions : IsFrame(y, i, e) <=> IsFrame(x, m + i, m + e)
    BY RestFrames
  <1>3. m \in Nat /\ \A i \in Positions : i \in Nat /\ i > 0 /\ m + i \in Positions
    BY DEF Positions
  <1>4. ASSUME HeadersApart(x) PROVE HeadersApart(y)
    <2> SUFFICES ASSUME NEW i \in Positions, HeadsAt(y, i), NEW j \in i + 1 .. i + 4
                 PROVE  y[j] # SOH /\ y[j] # EOT
      BY DEF HeadersApart
    <2>1. m + j \in (m + i) + 1 .. (m + i) + 4
      BY <1>3
    <2>2. j \in 1 .. Len(y)
      <3>1. i \in Nat /\ i > 0 /\ i + 4 <= Len(y) /\ Len(y) \in Nat
        BY <1>3 DEF HeadsAt, IsHeader
      <3> QED
        BY <3>1
    <2> DEFINE n == m + i
               l == m + j
    <2>3. n \in Positions /\ HeadsAt(x, n) /\ l \in n + 1 .. n + 4
      BY <1>1, <1>3, <2>1
    <2>4. y[j] = x[l]
      BY <2>2
    <2> HIDE DEF n, l
    <2>5. x[l] # SOH /\ x[l] # EOT
      BY <1>4, <2>3 DEF HeadersApart
    <2> QED
      BY <2>4, <2>5
  <1>5. ASSUME FramesShort(x) PROVE FramesShort(y)
    <2> SUFFICES ASSUME NEW i \in Positions, NEW e \in Positions, IsFrame(y, i, e)
                 PROVE  e - i + 1 <= MaxFrame
      BY DEF FramesShort
    <2>1. (m + e) - (m + i) + 1 <= MaxFrame
      BY <1>2, <1>3, <1>5 DEF FramesShort
    <2>2. (m + e) - (m + i) + 1 = e - i + 1
      BY <1>3
    <2> QED
      BY <2>1, <2>2
  <1>6. ASSUME AllEnd(x) PROVE AllEnd(y)
    <2> SUFFICES ASSUME NEW i \in Positions, HeadsAt(y, i)
                 PROVE  \E e \in Positions : IsFrame(y, i, e)
      BY DEF AllEnd
    <2>1. PICK f \in Positions : IsFrame(x, m + i, f)
      BY <1>1, <1>3, <1>6 DEF AllEnd
    <2>2. f \in Nat /\ f >= m + i + 5
      BY <1>3, <2>1 DEF IsFrame
    <2>3. f - m \in Positions /\ m + (f - m) = f
      BY <1>3, <2>2 DEF Positions
    <2> DEFINE e == f - m
    <2> HIDE DEF e
    <2>4. e \in Positions /\ m + e = f
      BY <2>3 DEF e
    <2> QED
      BY <1>2, <2>1, <2>4
  <1> QED
    BY <1>4, <1>5, <1>6

(* The part of a string of bytes between two places.                       *)
LEMMA BytesBetween ==
  ASSUME NEW x \in Seq(Nat), NEW m \in Nat, NEW n \in 0 .. Len(x), m <= n
  PROVE  /\ SubSeq(x, m + 1, n) \in Seq(Nat) /\ Len(SubSeq(x, m + 1, n)) = n - m
         /\ \A i \in 1 .. n - m : SubSeq(x, m + 1, n)[i] = x[m + i]
  <1>1. LET q == SubSeq(x, m + 1, n)
        IN /\ q \in Seq(Nat)
           /\ Len(q) = IF m <= n THEN n - m ELSE 0
           /\ \A i \in 1 .. Len(q) : q[i] = x[m + i]
    BY Part
  <1> QED
    BY <1>1

LEMMA SamePart ==
  ASSUME NEW x \in Seq(Nat), NEW m \in Nat, NEW y \in Seq(Nat),
         m + Len(y) <= Len(x), \A i \in 1 .. Len(y) : y[i] = x[m + i],
         NEW i \in Positions, NEW e \in i .. Len(y)
  PROVE  SubSeq(y, i, e) = SubSeq(x, m + i, m + e)
  <1> DEFINE a == i - 1
             b == m + a
             f == m + e
  <1>1. /\ a \in Nat /\ b \in Nat /\ a + 1 = i /\ b + 1 = m + i /\ b = m + a
        /\ e \in 0 .. Len(y) /\ f \in 0 .. Len(x) /\ a <= e /\ b <= f /\ f - b = e - a
    BY DEF Positions
  <1>2. f = m + e
    OBVIOUS
  <1> HIDE DEF a, b, f
  <1> DEFINE u == SubSeq(y, a + 1, e)
             v == SubSeq(x, b + 1, f)
  <1>3. u \in Seq(Nat) /\ Len(u) = e - a /\ \A j \in 1 .. e - a : u[j] = y[a + j]
    BY <1>1, BytesBetween
  <1>4. v \in Seq(Nat) /\ Len(v) = f - b /\ \A j \in 1 .. f - b : v[j] = x[b + j]
    BY <1>1, BytesBetween
  <1>5. SubSeq(y, i, e) = u /\ SubSeq(x, m + i, m + e) = v
    BY <1>1, <1>2
  <1> HIDE DEF u, v
  <1>6. ASSUME NEW j \in 1 .. Len(v) PROVE u[j] = v[j]
    <2> DEFINE l == a + j
    <2>1. j \in 1 .. e - a /\ j \in 1 .. f - b /\ l \in 1 .. Len(y) /\ b + j = m + l
      BY <1>1, <1>4
    <2>2. u[j] = y[l] /\ v[j] = x[b + j]
      BY <1>3, <1>4, <2>1
    <2> HIDE DEF l
    <2>3. y[l] = x[m + l]
      BY <2>1
    <2> QED
      BY <2>1, <2>2, <2>3
  <1>7. Len(u) = Len(v)
    BY <1>1, <1>3, <1>4
  <1>8. u = v
    BY <1>3, <1>4, <1>6, <1>7, SameElements
  <1> QED
    BY <1>5, <1>8

LEMMA PlaceInRest ==
  ASSUME NEW n \in Nat, NEW m \in 0 .. n, NEW from \in Positions, NEW end \in Positions,
         from > m, end \in from + 5 .. n
  PROVE  /\ from - m \in Positions /\ end - m \in Positions
         /\ m + (from - m) = from /\ m + (end - m) = end
         /\ end - m \in from - m .. n - m
  BY DEF Positions

LEMMA RestPart ==
  ASSUME NEW x \in Seq(Nat), NEW m \in 0 .. Len(x), NEW y \in Seq(Nat),
         Len(y) = Len(x) - m, \A i \in 1 .. Len(y) : y[i] = x[m + i],
         NEW i \in Positions, NEW e \in i .. Len(y)
  PROVE  SubSeq(y, i, e) = SubSeq(x, m + i, m + e)
  <1>1. m \in Nat /\ m + Len(y) <= Len(x)
    OBVIOUS
  <1> QED
    BY <1>1, SamePart

\* Nothing that begins in what is passed over was to be found.
LEMMA NoneBegun ==
  ASSUME NEW x \in Seq(Nat), NEW m \in 0 .. Len(x), NEW y \in Seq(Nat),
         Len(y) = Len(x) - m, \A i \in 1 .. Len(y) : y[i] = x[m + i],
         NEW d \in Seq(Seq(Nat)), Stand(d, x),
         \A i, e \in Positions : IsFrame(x, i, e) => i > m
  PROVE  Stand(d, y)
  <1>1. PICK at, to : StandAt(d, x, at, to)
    BY DEF Stand
  <1> DEFINE N == Len(d)
             newAt == [j \in 1 .. N |-> at[j] - m]
             newTo == [j \in 1 .. N |-> to[j] - m]
  <1>2. /\ N \in Nat /\ at \in [1 .. N -> Positions] /\ to \in [1 .. N -> Positions]
        /\ \A j \in 1 .. N : IsFrame(x, at[j], to[j]) /\ d[j] = SubSeq(x, at[j], to[j])
        /\ \A i, e \in Positions : IsFrame(x, i, e) => \E j \in 1 .. N : at[j] = i
        /\ \A j, l \in 1 .. N : j < l => at[j] < at[l]
    BY <1>1 DEF StandAt
  <1> HIDE DEF N
  <1>3. ASSUME NEW j \in 1 .. N
        PROVE  /\ newAt[j] \in Positions /\ newTo[j] \in Positions
               /\ m + newAt[j] = at[j] /\ m + newTo[j] = to[j]
               /\ newTo[j] \in newAt[j] .. Len(y)
    <2>1. at[j] \in Positions /\ to[j] \in Positions /\ IsFrame(x, at[j], to[j])
      BY <1>2
    <2>2. at[j] > m /\ to[j] \in at[j] + 5 .. Len(x)
      BY <2>1 DEF IsFrame
    <2>3. newAt[j] = at[j] - m /\ newTo[j] = to[j] - m
      OBVIOUS
    <2> HIDE DEF newAt, newTo
    <2> QED
      BY <2>1, <2>2, <2>3, PlaceInRest, SMTT(30)
  <1> HIDE DEF newAt, newTo
  <1>4. ASSUME NEW j \in 1 .. N
        PROVE  IsFrame(y, newAt[j], newTo[j]) /\ d[j] = SubSeq(y, newAt[j], newTo[j])
    <2>1. IsFrame(x, m + newAt[j], m + newTo[j]) /\ d[j] = SubSeq(x, m + newAt[j], m + newTo[j])
      <3>1. IsFrame(x, at[j], to[j]) /\ d[j] = SubSeq(x, at[j], to[j])
        BY <1>2
      <3>2. m + newAt[j] = at[j] /\ m + newTo[j] = to[j]
        BY <1>3
      <3> QED
        BY <3>1, <3>2, Zenon
    <2>2. newAt[j] \in Positions /\ newTo[j] \in Positions /\ newTo[j] \in newAt[j] .. Len(y)
      BY <1>3
    <2>3. IsFrame(y, newAt[j], newTo[j])
      BY <2>1, <2>2, RestFrames
    <2>4. SubSeq(y, newAt[j], newTo[j]) = SubSeq(x, m + newAt[j], m + newTo[j])
      BY <2>2, RestPart
    <2> QED
      BY <2>1, <2>3, <2>4
  <1>5. ASSUME NEW i \in Positions, NEW e \in Positions, IsFrame(y, i, e)
        PROVE  \E j \in 1 .. N : newAt[j] = i
    <2>1. IsFrame(x, m + i, m + e)
      BY <1>5, RestFrames
    <2>2. m + i \in Positions /\ m + e \in Positions /\ i \in Nat /\ m \in Nat
      BY DEF Positions
    <2>3. PICK j \in 1 .. N : at[j] = m + i
      BY <1>2, <2>1, <2>2
    <2>4. m + newAt[j] = m + i /\ newAt[j] \in Nat
      BY <1>3, <2>3 DEF Positions
    <2> QED
      BY <2>2, <2>4
  <1>6. ASSUME NEW j \in 1 .. N, NEW l \in 1 .. N, j < l
        PROVE  newAt[j] < newAt[l]
    <2>1. at[j] < at[l] /\ m + newAt[j] = at[j] /\ m + newAt[l] = at[l]
      BY <1>2, <1>3, <1>6
    <2>2. newAt[j] \in Nat /\ newAt[l] \in Nat /\ m \in Nat
      BY <1>3 DEF Positions
    <2> QED
      BY <2>1, <2>2
  <1>7. newAt \in [1 .. N -> Positions] /\ newTo \in [1 .. N -> Positions]
    BY <1>3 DEF newAt, newTo
  <1>8. StandAt(d, y, newAt, newTo)
    BY <1>4, <1>5, <1>6, <1>7 DEF StandAt, N
  <1> QED
    BY <1>8 DEF Stand

LEMMA AfterTheFirst ==
  ASSUME NEW d \in Seq(Seq(Nat)), Len(d) >= 1
  PROVE  /\ SubSeq(d, 2, Len(d)) \in Seq(Seq(Nat)) /\ Len(SubSeq(d, 2, Len(d))) = Len(d) - 1
         /\ \A j \in 1 .. Len(d) - 1 : SubSeq(d, 2, Len(d))[j] = d[1 + j]
  <1> DEFINE k == Len(d)
  <1>1. k \in Nat /\ k \in 0 .. Len(d) /\ 1 \in Nat /\ k >= 1
    OBVIOUS
  <1> HIDE DEF k
  <1>2. LET q == SubSeq(d, 1 + 1, k)
        IN /\ q \in Seq(Seq(Nat))
           /\ Len(q) = IF 1 <= k THEN k - 1 ELSE 0
           /\ \A j \in 1 .. Len(q) : q[j] = d[1 + j]
    BY <1>1, Part
  <1> DEFINE q == SubSeq(d, 1 + 1, k)
  <1>3. q \in Seq(Seq(Nat)) /\ Len(q) = k - 1 /\ \A j \in 1 .. Len(q) : q[j] = d[1 + j]
    BY <1>1, <1>2
  <1>4. SubSeq(d, 2, k) = q
    OBVIOUS
  <1> HIDE DEF q
  <1> QED
    BY <1>3, <1>4 DEF k

\* The frame that is taken is the first that was to be found.
LEMMA FirstTaken ==
  ASSUME NEW x \in Seq(Nat), NEW m \in 0 .. Len(x), NEW y \in Seq(Nat),
         Len(y) = Len(x) - m, \A i \in 1 .. Len(y) : y[i] = x[m + i],
         NEW d \in Seq(Seq(Nat)), Stand(d, x),
         NEW first \in Positions, IsFrame(x, first, m),
         \A i, e \in Positions : IsFrame(x, i, e) => i = first \/ i > m
  PROVE  /\ Len(d) >= 1 /\ d[1] = SubSeq(x, first, m)
         /\ Stand(SubSeq(d, 2, Len(d)), y)
  <1>1. PICK at, to : StandAt(d, x, at, to)
    BY DEF Stand
  <1> DEFINE N == Len(d)
             rest == SubSeq(d, 2, Len(d))
             newAt == [j \in 1 .. Len(rest) |-> at[j + 1] - m]
             newTo == [j \in 1 .. Len(rest) |-> to[j + 1] - m]
  <1>2. /\ N \in Nat /\ at \in [1 .. N -> Positions] /\ to \in [1 .. N -> Positions]
        /\ \A j \in 1 .. N : IsFrame(x, at[j], to[j]) /\ d[j] = SubSeq(x, at[j], to[j])
        /\ \A i, e \in Positions : IsFrame(x, i, e) => \E j \in 1 .. N : at[j] = i
        /\ \A j, l \in 1 .. N : j < l => at[j] < at[l]
    BY <1>1 DEF StandAt
  <1>3. m \in Positions /\ first \in Nat /\ m \in Nat /\ first < m
    BY SMTT(30) DEF IsFrame, Positions
  <1>4. PICK k \in 1 .. N : at[k] = first
    BY <1>2, <1>3
  <1>5. ASSUME NEW j \in 1 .. N PROVE at[j] \in Nat /\ (at[j] = first \/ at[j] > m)
    <2>1. at[j] \in Positions /\ to[j] \in Positions /\ IsFrame(x, at[j], to[j])
      BY <1>2
    <2> QED
      BY <2>1 DEF Positions
  <1>6. N >= 1 /\ k = 1
    <2>1. N >= 1 /\ 1 \in 1 .. N
      BY <1>2, <1>4
    <2>2. CASE k # 1
      <3>1. at[1] < at[k]
        BY <1>2, <1>4, <2>1, <2>2
      <3>2. at[1] \in Nat /\ (at[1] = first \/ at[1] > m)
        BY <1>5, <2>1
      <3> QED
        BY <1>3, <1>4, <3>1, <3>2, SMTT(30)
    <2> QED
      BY <2>1, <2>2
  <1>7. to[1] = m
    <2>1. IsFrame(x, first, to[1]) /\ to[1] \in Positions
      BY <1>2, <1>4, <1>6
    <2>2. to[1] \in first + 5 .. Len(x) /\ x[to[1]] = EOT
          /\ \A j \in first + 1 .. to[1] - 1 : x[j] # EOT
      BY <2>1 DEF IsFrame
    <2>3. m \in first + 5 .. Len(x) /\ x[m] = EOT
          /\ \A j \in first + 1 .. m - 1 : x[j] # EOT
      BY DEF IsFrame
    <2> DEFINE t == to[1]
    <2> HIDE DEF t
    <2>4. /\ t \in Nat /\ t \in first + 5 .. Len(x) /\ x[t] = EOT
          /\ \A j \in first + 1 .. t - 1 : x[j] # EOT
      BY <2>1, <2>2 DEF t, Positions
    <2>5. ASSUME t < m PROVE FALSE
      <3>0. t \in Nat /\ t >= first + 5 /\ m >= first + 5
        BY <1>3, <2>3, <2>4
      <3>1. t \in first + 1 .. m - 1
        BY <1>3, <2>5, <3>0
      <3> QED
        BY <2>3, <2>4, <3>1
    <2>6. ASSUME m < t PROVE FALSE
      <3>0. t \in Nat /\ t >= first + 5 /\ m >= first + 5
        BY <1>3, <2>3, <2>4
      <3>1. m \in first + 1 .. t - 1
        BY <1>3, <2>6, <3>0
      <3> QED
        BY <2>3, <2>4, <3>1
    <2> QED
      BY <1>3, <2>4, <2>5, <2>6 DEF t
  <1>8. d[1] = SubSeq(x, first, m)
    BY <1>2, <1>4, <1>6, <1>7
  <1>9. /\ rest \in Seq(Seq(Nat)) /\ Len(rest) = N - 1
        /\ \A j \in 1 .. Len(rest) : rest[j] = d[1 + j]
    <2>1. Len(d) >= 1 /\ N = Len(d)
      BY <1>6
    <2>2. /\ SubSeq(d, 2, Len(d)) \in Seq(Seq(Nat)) /\ Len(SubSeq(d, 2, Len(d))) = Len(d) - 1
          /\ \A j \in 1 .. Len(d) - 1 : SubSeq(d, 2, Len(d))[j] = d[1 + j]
      BY <2>1, AfterTheFirst
    <2> HIDE DEF rest
    <2> QED
      BY <2>1, <2>2 DEF rest
  <1> HIDE DEF N, rest
  <1>10. ASSUME NEW j \in 1 .. Len(rest)
         PROVE  /\ j + 1 \in 1 .. N /\ j + 1 > 1 /\ 1 + j = j + 1
                /\ newAt[j] \in Positions /\ newTo[j] \in Positions
                /\ m + newAt[j] = at[j + 1] /\ m + newTo[j] = to[j + 1]
                /\ newTo[j] \in newAt[j] .. Len(y)
    <2> DEFINE l == j + 1
    <2>1. l \in 1 .. N /\ l > 1 /\ 1 \in 1 .. N /\ 1 + j = l
      BY <1>2, <1>6, <1>9
    <2>2. at[1] < at[l] /\ newAt[j] = at[l] - m /\ newTo[j] = to[l] - m
      BY <1>2, <2>1
    <2> HIDE DEF l, newAt, newTo
    <2>3. at[l] \in Positions /\ to[l] \in Positions /\ IsFrame(x, at[l], to[l])
      BY <1>2, <2>1
    <2>4. at[l] > m /\ to[l] \in at[l] + 5 .. Len(x)
      <3>1. at[l] # first
        BY <1>3, <1>4, <1>6, <2>2, <2>3, SMTT(30) DEF Positions
      <3> QED
        BY <1>5, <2>1, <2>3, <3>1 DEF IsFrame
    <2>5. newTo[j] \in newAt[j] .. Len(y) /\ newAt[j] \in Positions /\ newTo[j] \in Positions
          /\ m + newAt[j] = at[l] /\ m + newTo[j] = to[l]
      <3> DEFINE from == at[l]
                 until == to[l]
      <3>1. from \in Positions /\ until \in Positions /\ from > m
            /\ until \in from + 5 .. Len(x)
        BY <2>3, <2>4
      <3>2. Len(x) \in Nat /\ m \in 0 .. Len(x) /\ Len(y) = Len(x) - m
        BY <1>3
      <3>3. newAt[j] = from - m /\ newTo[j] = until - m
        BY <2>2
      <3> HIDE DEF from, until
      <3>4. /\ from - m \in Positions /\ until - m \in Positions
            /\ m + (from - m) = from /\ m + (until - m) = until
            /\ until - m \in from - m .. Len(x) - m
        BY <3>1, <3>2, PlaceInRest
      <3>5. /\ newAt[j] \in Positions /\ newTo[j] \in Positions
            /\ m + newAt[j] = from /\ m + newTo[j] = until
            /\ newTo[j] \in newAt[j] .. Len(y)
        BY <3>2, <3>3, <3>4, Zenon
      <3> QED
        BY <3>5 DEF from, until
    <2> QED
      BY <2>1, <2>5 DEF l
  <1> HIDE DEF newAt, newTo
  <1>11. ASSUME NEW j \in 1 .. Len(rest)
         PROVE  IsFrame(y, newAt[j], newTo[j]) /\ rest[j] = SubSeq(y, newAt[j], newTo[j])
    <2> DEFINE l == j + 1
    <2>1. l \in 1 .. N /\ rest[j] = d[l] /\ m + newAt[j] = at[l] /\ m + newTo[j] = to[l]
      BY <1>9, <1>10
    <2> HIDE DEF l
    <2>2. IsFrame(x, m + newAt[j], m + newTo[j])
          /\ rest[j] = SubSeq(x, m + newAt[j], m + newTo[j])
      BY <1>2, <2>1, Zenon
    <2>3. newAt[j] \in Positions /\ newTo[j] \in Positions /\ newTo[j] \in newAt[j] .. Len(y)
      BY <1>10
    <2>4. IsFrame(y, newAt[j], newTo[j])
      BY <2>2, <2>3, RestFrames
    <2>5. SubSeq(y, newAt[j], newTo[j]) = SubSeq(x, m + newAt[j], m + newTo[j])
      BY <2>3, RestPart
    <2> QED
      BY <2>2, <2>4, <2>5
  <1>12. ASSUME NEW i \in Positions, NEW e \in Positions, IsFrame(y, i, e)
         PROVE  \E j \in 1 .. Len(rest) : newAt[j] = i
    <2>1. IsFrame(x, m + i, m + e)
      BY <1>12, RestFrames
    <2>2. m + i \in Positions /\ m + e \in Positions /\ i \in Nat /\ i > 0
      BY DEF Positions
    <2>3. PICK l \in 1 .. N : at[l] = m + i
      BY <1>2, <2>1, <2>2
    <2>4. l # 1
      BY <1>3, <1>4, <1>6, <2>2, <2>3
    <2> DEFINE j == l - 1
    <2>5. j \in 1 .. Len(rest) /\ j + 1 = l
      BY <1>2, <1>9, <2>4
    <2> HIDE DEF j
    <2>6. m + newAt[j] = m + i /\ newAt[j] \in Nat
      BY <1>10, <2>3, <2>5 DEF Positions
    <2>7. newAt[j] = i
      BY <1>3, <2>2, <2>6, SMTT(30)
    <2> QED
      BY <2>5, <2>7
  <1>13. ASSUME NEW j \in 1 .. Len(rest), NEW l \in 1 .. Len(rest), j < l
         PROVE  newAt[j] < newAt[l]
    <2> DEFINE p == j + 1
               q == l + 1
    <2>1. p \in 1 .. N /\ q \in 1 .. N /\ p < q
      BY <1>9, <1>10, <1>13, SMTT(30)
    <2>2. m + newAt[j] = at[p] /\ m + newAt[l] = at[q]
      BY <1>10
    <2> HIDE DEF p, q
    <2>3. at[p] < at[q]
      BY <1>2, <2>1
    <2>4. newAt[j] \in Nat /\ newAt[l] \in Nat
      BY <1>10 DEF Positions
    <2> QED
      BY <1>3, <2>2, <2>3, <2>4, SMTT(30)
  <1>14. /\ newAt \in [1 .. Len(rest) -> Positions]
         /\ newTo \in [1 .. Len(rest) -> Positions]
    BY <1>10 DEF newAt, newTo
  <1>15. Stand(rest, y)
    BY <1>11, <1>12, <1>13, <1>14 DEF Stand, StandAt
  <1> QED
    BY <1>6, <1>8, <1>15 DEF N, rest

-----------------------------------------------------------------------------
(* What a client adds to a stream: wake-up nulls, a header, and of the rest *)
(* as much as it sends.                                                    *)
IsSegment(w, h) ==
  /\ HeadsAt(w, h) /\ \A i \in Positions : HeadsAt(w, i) => i = h
  /\ \A i \in 1 .. h + 4 : w[i] # EOT
  /\ \A i \in h + 1 .. h + 4 : w[i] # SOH
  /\ \A i \in 1 .. 4 : w[i] # STX
IsJoined(z, x, w) ==
  /\ Len(z) = Len(x) + Len(w)
  /\ \A i \in 1 .. Len(x) : z[i] = x[i]
  /\ \A i \in 1 .. Len(w) : z[Len(x) + i] = w[i]

LEMMA JoinedHeads ==
  ASSUME NEW x \in Seq(Nat), NEW w \in Seq(Nat), NEW z \in Seq(Nat), IsJoined(z, x, w),
         NEW h \in Positions, IsSegment(w, h), NEW i \in Positions
  PROVE  /\ i <= Len(x) => (HeadsAt(z, i) <=> HeadsAt(x, i))
         /\ i > Len(x) => (HeadsAt(z, i) <=> HeadsAt(w, i - Len(x)))
  <1> DEFINE m == Len(x)
  <1>1. m \in Nat /\ Len(w) \in Nat /\ Len(z) = m + Len(w)
        /\ (\A j \in 1 .. m : z[j] = x[j]) /\ (\A j \in 1 .. Len(w) : z[m + j] = w[j])
    <2>1. m \in Nat /\ Len(w) \in Nat
      OBVIOUS
    <2> QED
      BY <2>1, Zenon DEF IsJoined
  <1>2. i \in Nat /\ i > 0 /\ h \in Nat /\ h > 0
    BY DEF Positions
  <1>3. h + 4 <= Len(w)
    BY DEF IsSegment, HeadsAt, IsHeader
  <1>4. ASSUME i <= m PROVE HeadsAt(z, i) <=> HeadsAt(x, i)
    <2>1. i \in 1 .. m /\ i \in 1 .. Len(z) /\ z[i] = x[i]
      BY <1>1, <1>2, <1>4
    <2>2. CASE i + 4 <= m
      <3>1. i + 4 <= Len(z) /\ i + 4 \in 1 .. m
        BY <1>1, <1>2, <2>2
      <3> DEFINE l == i + 4
      <3>2. z[l] = x[l]
        BY <1>1, <3>1
      <3> HIDE DEF l
      <3> QED
        BY <2>1, <2>2, <3>1, <3>2 DEF HeadsAt, IsHeader, l, m
    <2>3. CASE i + 4 > m
      <3>1. ~IsHeader(x, i)
        BY <1>1, <1>2, <2>3 DEF IsHeader
      <3> DEFINE l == i + 4 - m
      <3> HIDE DEF m
      <3>2. l \in 1 .. 4 /\ l \in 1 .. Len(w) /\ m + l = i + 4
        <4>1. m \in Nat /\ Len(w) \in Nat /\ Len(w) >= 5
          BY <1>1, <1>2, <1>3
        <4> QED
          BY <1>2, <1>4, <2>3, <4>1
      <3> HIDE DEF l
      <3>3. z[m + l] = w[l] /\ w[l] # STX
        BY <1>1, <3>2 DEF IsSegment
      <3>4. ~IsHeader(z, i)
        BY <3>2, <3>3 DEF IsHeader
      <3> QED
        BY <3>1, <3>4 DEF HeadsAt
    <2> QED
      BY <1>1, <1>2, <2>2, <2>3
  <1>5. ASSUME i > m PROVE HeadsAt(z, i) <=> HeadsAt(w, i - m)
    <2> DEFINE l == i - m
    <2>1. l \in Positions /\ m + l = i /\ m \in 0 .. Len(z) /\ Len(w) = Len(z) - m
      BY <1>1, <1>2, <1>5 DEF Positions
    <2> HIDE DEF l, m
    <2>2. HeadsAt(w, l) <=> HeadsAt(z, m + l)
      BY <1>1, <2>1, RestHeads
    <2> QED
      BY <2>1, <2>2 DEF l
  <1> QED
    BY <1>4, <1>5

LEMMA JoinedFrames ==
  ASSUME NEW x \in Seq(Nat), NEW w \in Seq(Nat), NEW z \in Seq(Nat), IsJoined(z, x, w),
         NEW h \in Positions, IsSegment(w, h), NEW i \in Positions, NEW e \in Positions
  PROVE  /\ IsFrame(x, i, e) => i <= Len(x) /\ e <= Len(x)
         /\ i <= Len(x) => (IsFrame(z, i, e) <=> IsFrame(x, i, e))
         /\ i > Len(x) => /\ e > Len(x) => (IsFrame(z, i, e) <=> IsFrame(w, i - Len(x), e - Len(x)))
                          /\ e <= Len(x) => ~IsFrame(z, i, e)
  <1> DEFINE m == Len(x)
  <1>1. m \in Nat /\ Len(w) \in Nat /\ Len(z) = m + Len(w)
        /\ (\A j \in 1 .. m : z[j] = x[j]) /\ (\A j \in 1 .. Len(w) : z[m + j] = w[j])
    BY SMTT(30) DEF IsJoined
  <1>2. i \in Nat /\ i > 0 /\ h \in Nat /\ h > 0 /\ e \in Nat /\ e > 0
    BY DEF Positions
  <1>3. IsFrame(x, i, e) => i <= Len(x) /\ e <= Len(x)
    BY <1>2 DEF IsFrame, HeadsAt
  <1>4. ASSUME e <= m, i <= m PROVE IsFrame(z, i, e) <=> IsFrame(x, i, e)
    <2>1. \A j \in 1 .. e : z[j] = x[j] /\ (HeadsAt(z, j) <=> HeadsAt(x, j))
      <3> TAKE j \in 1 .. e
      <3>1. j \in 1 .. m /\ j \in Positions /\ j <= Len(x)
        BY <1>1, <1>2, <1>4 DEF Positions
      <3>2. HeadsAt(z, j) <=> HeadsAt(x, j)
        BY <3>1, JoinedHeads
      <3> QED
        BY <1>1, <3>1, <3>2
    <2>2. (e \in i + 5 .. Len(z) <=> e \in i + 5 .. Len(x)) /\ e \in 1 .. e
      BY <1>1, <1>2, <1>4, SMTT(30)
    <2>3. e \in i + 5 .. Len(x) => i \in 1 .. e /\ \A j \in i + 1 .. e - 1 : j \in 1 .. e
      BY <1>1, <1>2
    <2> HIDE DEF m
    <2> QED
      BY <2>1, <2>2, <2>3 DEF IsFrame
  <1>5. ASSUME e > m, i <= m PROVE ~IsFrame(z, i, e)
    <2> SUFFICES ASSUME IsFrame(z, i, e) PROVE FALSE
      OBVIOUS
    <2> DEFINE l == e - m
               g == m + h
    <2>1. l \in 1 .. Len(w) /\ m + l = e /\ g \in Positions /\ g > m /\ g - m = h
      BY <1>1, <1>2, <1>5 DEF IsFrame, Positions
    <2> HIDE DEF l
    <2>2. w[l] = EOT
      BY <1>1, <2>1 DEF IsFrame
    <2>3. ~(l \in 1 .. h + 4)
      BY <2>2 DEF IsSegment
    <2>4. g \in i + 1 .. e - 1
      <3>1. l \in Nat /\ l > h + 4 /\ m \in Nat /\ i <= m /\ m + l = e
        BY <1>1, <1>2, <1>5, <2>1, <2>3
      <3> HIDE DEF m
      <3> QED
        BY <1>2, <3>1
    <2> HIDE DEF g
    <2>5. HeadsAt(z, g)
      <3>1. HeadsAt(w, h)
        BY DEF IsSegment
      <3>2. g > Len(x) /\ g - Len(x) = h
        BY <2>1
      <3> HIDE DEF m
      <3>3. HeadsAt(z, g) <=> HeadsAt(w, g - Len(x))
        BY <2>1, <3>2, JoinedHeads
      <3> QED
        BY <3>1, <3>2, <3>3
    <2> QED
      BY <2>4, <2>5 DEF IsFrame
  <1>6. ASSUME i > m, e > m
        PROVE  IsFrame(z, i, e) <=> IsFrame(w, i - m, e - m)
    <2> DEFINE l == i - m
               f == e - m
    <2>1. /\ l \in Positions /\ f \in Positions /\ m + l = i /\ m + f = e
          /\ m \in 0 .. Len(z) /\ Len(w) = Len(z) - m
          /\ \A j \in 1 .. Len(w) : w[j] = z[m + j]
      BY <1>1, <1>2, <1>6 DEF Positions
    <2> HIDE DEF l, f, m
    <2>2. IsFrame(w, l, f) <=> IsFrame(z, m + l, m + f)
      BY <2>1, RestFrames
    <2> QED
      BY <2>1, <2>2 DEF l, f
  <1>7. i > m /\ e <= m => ~IsFrame(z, i, e)
    BY <1>1, <1>2 DEF IsFrame
  <1>8. e > m => ~IsFrame(x, i, e)
    BY <1>1, <1>2, <1>3
  <1>9. (e > m \/ e <= m) /\ m = Len(x)
    BY <1>1, <1>2
  <1> HIDE DEF m
  <1> QED
    BY <1>3, <1>4, <1>5, <1>6, <1>7, <1>8, <1>9

LEMMA JoinedIsFine ==
  ASSUME NEW x \in Seq(Nat), NEW w \in Seq(Nat), NEW z \in Seq(Nat), IsJoined(z, x, w),
         NEW h \in Positions, IsSegment(w, h), FramesShort(w)
  PROVE  /\ HeadersApart(x) => HeadersApart(z)
         /\ FramesShort(x) => FramesShort(z)
         /\ AllEnd(x) /\ IsFrame(w, h, Len(w)) => AllEnd(z)
  <1> DEFINE m == Len(x)
  <1>1. m \in Nat /\ m = Len(x) /\ Len(w) \in Nat /\ Len(z) = m + Len(w)
        /\ (\A j \in 1 .. m : z[j] = x[j]) /\ (\A j \in 1 .. Len(w) : z[m + j] = w[j])
        /\ m + h \in Positions /\ m + h > m /\ (m + h) - m = h /\ h \in Nat /\ h > 0
    BY DEF IsJoined, Positions
  <1> HIDE DEF m
  <1>2. \A i \in Positions : /\ i <= m => (HeadsAt(z, i) <=> HeadsAt(x, i))
                             /\ i > m => (HeadsAt(z, i) <=> HeadsAt(w, i - m))
    BY <1>1, JoinedHeads
  <1>3. \A i, e \in Positions :
          /\ IsFrame(x, i, e) => i <= m /\ e <= m
          /\ i <= m => (IsFrame(z, i, e) <=> IsFrame(x, i, e))
          /\ i > m => /\ e > m => (IsFrame(z, i, e) <=> IsFrame(w, i - m, e - m))
                      /\ e <= m => ~IsFrame(z, i, e)
    BY <1>1, JoinedFrames
  <1>4. \A i \in Positions : i \in Nat /\ i > 0 /\ (i > m => i - m \in Positions)
                             /\ (i > m \/ i <= m)
    BY <1>1 DEF Positions
  <1>5. ASSUME NEW i \in Positions, HeadsAt(z, i), i > m PROVE i = m + h
    <2> DEFINE l == i - m
    <2>1. l \in Positions /\ HeadsAt(w, l) /\ m + l = i
      BY <1>1, <1>2, <1>4, <1>5
    <2> HIDE DEF l
    <2>2. l = h
      BY <2>1 DEF IsSegment
    <2> QED
      BY <2>1, <2>2
  <1>6. ASSUME HeadersApart(x) PROVE HeadersApart(z)
    <2> SUFFICES ASSUME NEW i \in Positions, HeadsAt(z, i), NEW j \in i + 1 .. i + 4
                 PROVE  z[j] # SOH /\ z[j] # EOT
      BY DEF HeadersApart
    <2>1. CASE i <= m
      <3>1. HeadsAt(x, i)
        BY <1>2, <2>1
      <3>2. x[j] # SOH /\ x[j] # EOT
        BY <1>6, <3>1 DEF HeadersApart
      <3>3. j \in 1 .. m
        BY <1>1, <1>4, <3>1 DEF HeadsAt, IsHeader
      <3> QED
        BY <1>1, <3>2, <3>3
    <2>2. CASE i > m
      <3>1. i = m + h
        BY <1>5, <2>2
      <3> DEFINE l == j - m
      <3>2. l \in h + 1 .. h + 4 /\ l \in 1 .. h + 4 /\ m + l = j
        BY <1>1, <3>1
      <3>3. h + 4 <= Len(w)
        BY DEF IsSegment, HeadsAt, IsHeader
      <3> HIDE DEF l
      <3>4. w[l] # SOH /\ w[l] # EOT
        BY <3>2 DEF IsSegment
      <3>5. l \in 1 .. Len(w)
        BY <1>1, <3>2, <3>3
      <3> QED
        BY <1>1, <3>2, <3>4, <3>5
    <2> QED
      BY <1>4, <2>1, <2>2
  <1>7. ASSUME FramesShort(x) PROVE FramesShort(z)
    <2> SUFFICES ASSUME NEW i \in Positions, NEW e \in Positions, IsFrame(z, i, e)
                 PROVE  e - i + 1 <= MaxFrame
      BY DEF FramesShort
    <2>1. CASE i <= m
      BY <1>3, <1>7, <2>1 DEF FramesShort
    <2>2. CASE i > m
      <3>1. e > m
        BY <1>3, <1>4, <2>2
      <3> DEFINE l == i - m
                 f == e - m
      <3>2. l \in Positions /\ f \in Positions /\ IsFrame(w, l, f) /\ f - l + 1 = e - i + 1
        BY <1>1, <1>3, <1>4, <2>2, <3>1
      <3> HIDE DEF l, f
      <3>3. f - l + 1 <= MaxFrame
        BY <3>2 DEF FramesShort
      <3> QED
        BY <3>2, <3>3
    <2> QED
      BY <1>4, <2>1, <2>2
  <1>8. ASSUME AllEnd(x), IsFrame(w, h, Len(w)) PROVE AllEnd(z)
    <2> SUFFICES ASSUME NEW i \in Positions, HeadsAt(z, i)
                 PROVE  \E e \in Positions : IsFrame(z, i, e)
      BY DEF AllEnd
    <2>1. CASE i <= m
      <3>1. HeadsAt(x, i)
        BY <1>2, <2>1
      <3>2. PICK e \in Positions : IsFrame(x, i, e)
        BY <1>8, <3>1 DEF AllEnd
      <3> QED
        BY <1>3, <2>1, <3>2
    <2>2. CASE i > m
      <3>1. i = m + h /\ i - m = h
        BY <1>1, <1>5, <2>2
      <3> DEFINE e == m + Len(w)
      <3>2. e \in Positions /\ e > m /\ e - m = Len(w)
        <4>1. Len(w) >= h + 5
          BY <1>1, <1>8 DEF IsFrame
        <4> QED
          <5>1. m \in Nat /\ Len(w) \in Nat /\ Len(w) > 0
            BY <1>1, <4>1
          <5> QED
            BY <5>1 DEF Positions
      <3> HIDE DEF e
      <3>3. IsFrame(z, i, e) <=> IsFrame(w, i - m, e - m)
        BY <1>3, <2>2, <3>2
      <3> QED
        BY <1>8, <3>1, <3>2, <3>3
    <2> QED
      BY <1>4, <2>1, <2>2
  <1> QED
    BY <1>6, <1>7, <1>8

LEMMA JoinedParts ==
  ASSUME NEW x \in Seq(Nat), NEW w \in Seq(Nat), NEW z \in Seq(Nat), IsJoined(z, x, w),
         NEW i \in Positions
  PROVE  /\ \A e \in i .. Len(x) : SubSeq(z, i, e) = SubSeq(x, i, e)
         /\ \A e \in i .. Len(w) :
              SubSeq(z, Len(x) + i, Len(x) + e) = SubSeq(w, i, e)
  <1> DEFINE m == Len(x)
             o == 0
  <1>1. m \in Nat /\ Len(w) \in Nat /\ Len(z) = m + Len(w)
        /\ (\A j \in 1 .. m : z[j] = x[j]) /\ (\A j \in 1 .. Len(w) : z[m + j] = w[j])
    <2>1. m \in Nat /\ Len(w) \in Nat
      OBVIOUS
    <2> QED
      BY <2>1, Zenon DEF IsJoined
  <1>2. ASSUME NEW e \in i .. Len(x)
        PROVE  SubSeq(z, i, e) = SubSeq(x, i, e)
    <2>1. /\ o \in Nat /\ o + Len(x) <= Len(z) /\ o + i = i /\ o + e = e
          /\ \A j \in 1 .. Len(x) : o + j = j
      BY <1>1 DEF Positions
    <2> HIDE DEF o
    <2>2. \A j \in 1 .. Len(x) : x[j] = z[o + j]
      BY <1>1, <2>1
    <2>3. SubSeq(x, i, e) = SubSeq(z, o + i, o + e)
      BY <2>1, <2>2, SamePart
    <2> QED
      BY <2>1, <2>3
  <1>3. ASSUME NEW e \in i .. Len(w)
        PROVE  SubSeq(z, m + i, m + e) = SubSeq(w, i, e)
    <2>1. m + Len(w) <= Len(z) /\ \A j \in 1 .. Len(w) : w[j] = z[m + j]
      BY <1>1
    <2> HIDE DEF m
    <2> QED
      BY <1>1, <2>1, SamePart
  <1> QED
    BY <1>2, <1>3

\* A transmission that stops short adds nothing to what is to be found.
LEMMA NothingAdded ==
  ASSUME NEW x \in Seq(Nat), NEW w \in Seq(Nat), NEW z \in Seq(Nat), IsJoined(z, x, w),
         NEW h \in Positions, IsSegment(w, h), NoFrame(w),
         NEW d \in Seq(Seq(Nat)), Stand(d, x)
  PROVE  Stand(d, z)
  <1> DEFINE m == Len(x)
  <1>1. PICK at, to : StandAt(d, x, at, to)
    BY DEF Stand
  <1>2. m \in Nat /\ m = Len(x) /\ \A i \in Positions : i \in Nat /\ i > 0
    BY DEF Positions
  <1> HIDE DEF m
  <1>3. \A i, e \in Positions : IsFrame(z, i, e) <=> IsFrame(x, i, e)
    <2> TAKE i, e \in Positions
    <2>1. /\ IsFrame(x, i, e) => i <= m /\ e <= m
          /\ i <= m => (IsFrame(z, i, e) <=> IsFrame(x, i, e))
          /\ i > m => /\ e > m => (IsFrame(z, i, e) <=> IsFrame(w, i - m, e - m))
                      /\ e <= m => ~IsFrame(z, i, e)
      BY <1>2, JoinedFrames
    <2>2. CASE i > m /\ e > m
      <3>1. i - m \in Positions /\ e - m \in Positions
        BY <1>2, <2>2 DEF Positions
      <3>2. ~IsFrame(w, i - m, e - m)
        BY <3>1 DEF NoFrame
      <3> QED
        BY <1>2, <2>1, <2>2, <3>2
    <2> QED
      BY <1>2, <2>1, <2>2
  <1>4. ASSUME NEW j \in 1 .. Len(d)
        PROVE  d[j] = SubSeq(z, at[j], to[j])
    <2>1. /\ at[j] \in Positions /\ to[j] \in Positions /\ IsFrame(x, at[j], to[j])
          /\ d[j] = SubSeq(x, at[j], to[j])
      BY <1>1 DEF StandAt
    <2> DEFINE i == at[j]
               e == to[j]
    <2>2. i \in Positions /\ e \in Positions /\ IsFrame(x, i, e)
          /\ d[j] = SubSeq(x, i, e)
      BY <2>1
    <2> HIDE DEF i, e
    <2>3. e \in i .. Len(x)
      BY <2>2 DEF IsFrame, Positions
    <2>4. SubSeq(z, i, e) = SubSeq(x, i, e)
      BY <2>2, <2>3, JoinedParts
    <2> QED
      BY <2>2, <2>4 DEF i, e
  <1> QED
    BY <1>1, <1>3, <1>4 DEF Stand, StandAt

\* A whole transmission adds its frame, last.
LEMMA LastAdded ==
  ASSUME NEW x \in Seq(Nat), NEW w \in Seq(Nat), NEW z \in Seq(Nat), IsJoined(z, x, w),
         NEW h \in Positions, IsSegment(w, h), IsFrame(w, h, Len(w)),
         NEW d \in Seq(Seq(Nat)), Stand(d, x)
  PROVE  Stand(Append(d, SubSeq(w, h, Len(w))), z)
  <1> DEFINE m == Len(x)
             n == Len(w)
             N == Len(d)
             f == SubSeq(w, h, Len(w))
             more == Append(d, f)
  <1>1. PICK at, to : StandAt(d, x, at, to)
    BY DEF Stand
  <1>2. /\ m \in Nat /\ m = Len(x) /\ n \in Nat /\ n = Len(w) /\ h \in Nat /\ h > 0
        /\ n >= h + 5 /\ \A i \in Positions : i \in Nat /\ i > 0
    BY DEF Positions, IsFrame
  <1>3. /\ N \in Nat /\ at \in [1 .. N -> Positions] /\ to \in [1 .. N -> Positions]
        /\ \A j \in 1 .. N : IsFrame(x, at[j], to[j]) /\ d[j] = SubSeq(x, at[j], to[j])
        /\ \A i, e \in Positions : IsFrame(x, i, e) => \E j \in 1 .. N : at[j] = i
        /\ \A j, l \in 1 .. N : j < l => at[j] < at[l]
    BY <1>1 DEF StandAt
  <1>4. Len(more) = N + 1 /\ more[N + 1] = f /\ \A j \in 1 .. N : more[j] = d[j]
    <2>1. f \in Seq(Nat)
      <3>1. h \in Nat /\ h - 1 \in Nat /\ (h - 1) + 1 = h /\ Len(w) \in 0 .. Len(w)
        BY <1>2
      <3> DEFINE a == h - 1
      <3>2. a \in Nat /\ a + 1 = h
        BY <3>1
      <3> HIDE DEF a
      <3>3. SubSeq(w, a + 1, Len(w)) \in Seq(Nat)
        BY <3>1, <3>2, Part
      <3> QED
        BY <3>2, <3>3
    <2> HIDE DEF f
    <2> QED
      BY <2>1, AppendProperties
  <1> HIDE DEF m, n, N, more
  <1> DEFINE newAt == [j \in 1 .. N + 1 |-> IF j = N + 1 THEN m + h ELSE at[j]]
             newTo == [j \in 1 .. N + 1 |-> IF j = N + 1 THEN m + n ELSE to[j]]
  <1>5. /\ newAt[N + 1] = m + h /\ newTo[N + 1] = m + n
        /\ \A j \in 1 .. N : newAt[j] = at[j] /\ newTo[j] = to[j]
        /\ \A j \in 1 .. N + 1 : j = N + 1 \/ j \in 1 .. N
    BY <1>3
  <1>6. m + h \in Positions /\ m + n \in Positions /\ N + 1 \in 1 .. N + 1
        /\ \A j \in 1 .. N : j \in 1 .. N + 1
    BY <1>2, <1>3 DEF Positions
  <1>7. newAt \in [1 .. N + 1 -> Positions] /\ newTo \in [1 .. N + 1 -> Positions]
    <2> DEFINE P == Positions
    <2> HIDE DEF P
    <2>1. ASSUME NEW j \in 1 .. N + 1
          PROVE  (IF j = N + 1 THEN m + h ELSE at[j]) \in P
                 /\ (IF j = N + 1 THEN m + n ELSE to[j]) \in P
      BY <1>3, <1>5, <1>6 DEF P
    <2> QED
      BY <2>1 DEF P
  <1> HIDE DEF newAt, newTo
  <1>8. \A i, e \in Positions :
          /\ IsFrame(x, i, e) => i <= m /\ e <= m
          /\ i <= m => (IsFrame(z, i, e) <=> IsFrame(x, i, e))
          /\ i > m => /\ e > m => (IsFrame(z, i, e) <=> IsFrame(w, i - m, e - m))
                      /\ e <= m => ~IsFrame(z, i, e)
    BY <1>2, JoinedFrames
  <1>9. IsFrame(z, m + h, m + n) /\ f = SubSeq(z, m + h, m + n)
    <2> DEFINE a == m + h
               b == m + n
    <2>1. a \in Positions /\ b \in Positions /\ a > m /\ b > m /\ a - m = h /\ b - m = n
      BY <1>2, <1>6
    <2> HIDE DEF a, b
    <2>2. IsFrame(z, a, b) <=> IsFrame(w, a - m, b - m)
      BY <1>8, <2>1
    <2>3. IsFrame(w, a - m, b - m)
      BY <1>2, <2>1
    <2>4. n \in h .. Len(w)
      BY <1>2
    <2>5. SubSeq(z, Len(x) + h, Len(x) + n) = SubSeq(w, h, n)
      BY <2>4, JoinedParts, ZenonT(40)
    <2>6. f = SubSeq(w, h, n)
      BY DEF n
    <2> QED
      BY <1>2, <2>2, <2>3, <2>5, <2>6 DEF a, b
  <1>10. ASSUME NEW j \in 1 .. N
         PROVE  IsFrame(z, at[j], to[j]) /\ d[j] = SubSeq(z, at[j], to[j]) /\ at[j] <= m
    <2> DEFINE i == at[j]
               e == to[j]
    <2>1. i \in Positions /\ e \in Positions /\ IsFrame(x, i, e)
          /\ d[j] = SubSeq(x, i, e)
      BY <1>3
    <2> HIDE DEF i, e
    <2>2. IsFrame(z, i, e) /\ i <= m
      BY <1>8, <2>1
    <2>3. e \in i .. Len(x)
      BY <2>1 DEF IsFrame, Positions
    <2>4. SubSeq(z, i, e) = SubSeq(x, i, e)
      BY <2>1, <2>3, JoinedParts
    <2> QED
      BY <2>1, <2>2, <2>4 DEF i, e
  <1>11. ASSUME NEW j \in 1 .. N + 1
         PROVE  IsFrame(z, newAt[j], newTo[j]) /\ more[j] = SubSeq(z, newAt[j], newTo[j])
    <2>1. CASE j = N + 1
      BY <1>4, <1>5, <1>9, <2>1
    <2>2. CASE j \in 1 .. N
      <3>1. newAt[j] = at[j] /\ newTo[j] = to[j] /\ more[j] = d[j]
        BY <1>4, <1>5, <2>2
      <3>2. IsFrame(z, at[j], to[j]) /\ d[j] = SubSeq(z, at[j], to[j])
        BY <1>10, <2>2
      <3> QED
        BY <3>1, <3>2
    <2> QED
      BY <1>5, <2>1, <2>2
  <1>12. ASSUME NEW i \in Positions, NEW e \in Positions, IsFrame(z, i, e)
         PROVE  \E j \in 1 .. N + 1 : newAt[j] = i
    <2>1. CASE i <= m
      <3>1. IsFrame(x, i, e)
        BY <1>8, <1>12, <2>1
      <3>2. PICK j \in 1 .. N : at[j] = i
        BY <1>3, <3>1
      <3>3. newAt[j] = i /\ j \in 1 .. N + 1
        BY <1>5, <1>6, <3>2
      <3> QED
        BY <3>3
    <2>2. CASE i > m
      <3>1. e > m
        BY <1>2, <1>8, <1>12, <2>2
      <3> DEFINE l == i - m
      <3>2. IsFrame(w, i - m, e - m) /\ l \in Positions /\ i = m + l
        BY <1>2, <1>8, <1>12, <2>2, <3>1 DEF Positions
      <3>3. HeadsAt(w, l)
        BY <3>2 DEF IsFrame
      <3> HIDE DEF l
      <3>4. l = h
        BY <3>2, <3>3 DEF IsSegment
      <3>5. newAt[N + 1] = i
        BY <1>5, <3>2, <3>4
      <3> QED
        BY <1>6, <3>5
    <2> QED
      BY <1>2, <2>1, <2>2
  <1>13. ASSUME NEW j \in 1 .. N + 1, NEW l \in 1 .. N + 1, j < l
         PROVE  newAt[j] < newAt[l]
    <2>1. j \in 1 .. N
      BY <1>3, <1>13
    <2>2. newAt[j] = at[j] /\ at[j] <= m /\ at[j] \in Nat
      BY <1>2, <1>3, <1>5, <1>10, <2>1
    <2>3. CASE l = N + 1
      <3>1. newAt[l] = m + h
        BY <1>5, <2>3
      <3> QED
        BY <1>2, <2>2, <3>1
    <2>4. CASE l \in 1 .. N
      <3>1. newAt[l] = at[l] /\ at[j] < at[l]
        BY <1>3, <1>5, <1>13, <2>1, <2>4
      <3> QED
        BY <2>2, <3>1
    <2> QED
      BY <1>5, <2>3, <2>4
  <1> QED
    <2>1. Len(more) = N + 1
      BY <1>4
    <2>2. StandAt(more, z, newAt, newTo)
      BY <1>7, <1>11, <1>12, <1>13, <2>1 DEF StandAt
    <2>3. Stand(more, z)
      BY <2>2 DEF Stand
    <2> QED
      BY <2>3 DEF more, f

LEMMA PacketHolds ==
  ASSUME NEW p \in Seq(Nat)
  PROVE  LET w == Packet(p)
             f == Header \o p \o <<EOT>>
             o == WakeupNulls
         IN /\ w \in Seq(Nat) /\ f \in Seq(Nat) /\ o \in Nat
            /\ Len(w) = o + 5 + Len(p) + 1 /\ Len(f) = 5 + Len(p) + 1
            /\ \A i \in 1 .. o : w[i] = NUL
            /\ \A i \in 1 .. Len(f) : w[o + i] = f[i]
            /\ \A i \in 1 .. 5 : f[i] = Header[i]
            /\ \A i \in 1 .. Len(p) : f[5 + i] = p[i]
            /\ f[5 + Len(p) + 1] = EOT
  <1> DEFINE nulls == [i \in 1 .. WakeupNulls |-> NUL]
             end == <<EOT>>
             f == Header \o p \o <<EOT>>
             o == WakeupNulls
  <1>1. nulls \in Seq(Nat) /\ Len(nulls) = o /\ o \in Nat /\ \A i \in 1 .. o : nulls[i] = NUL
    BY FramesAssumption DEF NUL
  <1>2. Header \in Seq(Nat) /\ Len(Header) = 5
    BY DEF Header, SOH, STX
  <1>3. end \in Seq(Nat) /\ Len(end) = 1 /\ end[1] = EOT
    BY DEF EOT
  <1> DEFINE h == Header
  <1>4. h \in Seq(Nat) /\ Len(h) = 5
    BY <1>2
  <1> HIDE DEF nulls, end, h, o
  <1>13. \A a, b, c \in Seq(Nat) : (a \o b) \o c = a \o (b \o c)
    BY Associative, SMTT(30)
  <1>14. \A a, b \in Seq(Nat) :
           /\ a \o b \in Seq(Nat) /\ Len(a \o b) = Len(a) + Len(b)
           /\ \A i \in 1 .. Len(a) : (a \o b)[i] = a[i]
           /\ \A i \in 1 .. Len(b) : (a \o b)[Len(a) + i] = b[i]
    BY Joined
  <1>5. nulls \o h \o p \o end = nulls \o (h \o p \o end)
    <2> DEFINE q == h \o p
    <2>1. nulls \o h \o p = nulls \o q
      BY <1>1, <1>4, <1>13
    <2>2. q \in Seq(Nat)
      BY <1>4, <1>14
    <2> HIDE DEF q
    <2>3. nulls \o q \o end = nulls \o (q \o end)
      BY <1>1, <1>3, <1>13, <2>2
    <2> QED
      BY <2>1, <2>3 DEF q
  <1> DEFINE hp == h \o p
             g == hp \o end
             v == nulls \o g
  <1>6. hp \in Seq(Nat) /\ Len(hp) = 5 + Len(p)
        /\ (\A i \in 1 .. 5 : hp[i] = h[i]) /\ (\A i \in 1 .. Len(p) : hp[5 + i] = p[i])
    <2>1. /\ hp \in Seq(Nat) /\ Len(hp) = Len(h) + Len(p)
          /\ \A i \in 1 .. Len(h) : hp[i] = h[i]
          /\ \A i \in 1 .. Len(p) : hp[Len(h) + i] = p[i]
      BY <1>4, <1>14
    <2> HIDE DEF hp
    <2> QED
      BY <1>4, <2>1
  <1> HIDE DEF hp
  <1>7. g \in Seq(Nat) /\ Len(g) = 5 + Len(p) + 1
        /\ (\A i \in 1 .. 5 + Len(p) : g[i] = hp[i]) /\ g[5 + Len(p) + 1] = EOT
    <2>1. /\ g \in Seq(Nat) /\ Len(g) = Len(hp) + Len(end)
          /\ \A i \in 1 .. Len(hp) : g[i] = hp[i]
          /\ \A i \in 1 .. Len(end) : g[Len(hp) + i] = end[i]
      BY <1>3, <1>6, <1>14
    <2> HIDE DEF g
    <2>2. 1 \in 1 .. Len(end)
      BY <1>3
    <2> QED
      BY <1>3, <1>6, <2>1, <2>2
  <1> HIDE DEF g
  <1>8. v \in Seq(Nat) /\ Len(v) = o + Len(g)
        /\ (\A i \in 1 .. o : v[i] = nulls[i]) /\ (\A i \in 1 .. Len(g) : v[o + i] = g[i])
    BY <1>1, <1>7, <1>14
  <1> HIDE DEF v
  <1>9. \A i \in 1 .. 5 : i \in 1 .. 5 + Len(p) /\ g[i] = h[i]
    BY <1>6, <1>7, SMTT(30)
  <1>10. \A i \in 1 .. Len(p) : g[5 + i] = p[i]
    <2> TAKE i \in 1 .. Len(p)
    <2> DEFINE l == 5 + i
    <2>1. l \in 1 .. 5 + Len(p)
      OBVIOUS
    <2>2. hp[l] = p[i]
      BY <1>6
    <2> HIDE DEF l
    <2>3. g[l] = hp[l]
      BY <1>7, <2>1
    <2> QED
      BY <2>2, <2>3 DEF l
  <1>11. v = Packet(p) /\ g = f
    BY <1>5 DEF Packet, v, g, hp, h, end, nulls
  <1>12. Len(v) = o + 5 + Len(p) + 1
    BY <1>1, <1>7, <1>8
  <1> HIDE DEF f
  <1> QED
    BY <1>1, <1>7, <1>8, <1>9, <1>10, <1>11, <1>12 DEF f, o, h

\* A payload in its frame, from the wake-up nulls on: one header, and an EOT at the
\* end of it if it gets there.
LEMMA PlainSegment ==
  ASSUME NEW p \in Seq(Nat), IsPlain(p), NEW w \in Seq(Nat),
         Len(w) >= WakeupNulls + 5, Len(w) <= Len(Packet(p)),
         \A i \in 1 .. Len(w) : w[i] = Packet(p)[i]
  PROVE  LET h == WakeupNulls + 1
         IN /\ h \in Positions /\ IsSegment(w, h)
            /\ \A j \in h + 1 .. Len(w) : j < Len(Packet(p)) => w[j] # EOT
  <1> DEFINE o == WakeupNulls
             h == o + 1
             f == Header \o p \o <<EOT>>
             L == Len(Packet(p))
  <1>1. /\ o \in Nat /\ L = o + 5 + Len(p) + 1 /\ f \in Seq(Nat) /\ Len(f) = 5 + Len(p) + 1
        /\ \A i \in 1 .. o : Packet(p)[i] = NUL
        /\ \A i \in 1 .. Len(f) : Packet(p)[o + i] = f[i]
        /\ \A i \in 1 .. 5 : f[i] = Header[i]
        /\ \A i \in 1 .. Len(p) : f[5 + i] = p[i]
        /\ f[5 + Len(p) + 1] = EOT
    BY PacketHolds
  <1>2. h \in Positions
    BY <1>1 DEF Positions
  <1>3. /\ Header[1] = SOH /\ Header[5] = STX
        /\ \A i \in 2 .. 5 : Header[i] # SOH
        /\ \A i \in 1 .. 4 : Header[i] # STX
        /\ \A i \in 1 .. 5 : Header[i] # EOT
    BY DEF Header, SOH, STX, EOT
  <1> DEFINE n == Len(w)
             k == Len(p)
  <1>4. /\ n \in Nat /\ k \in Nat /\ L \in Nat /\ o \in Nat /\ h = o + 1
        /\ L = o + 5 + k + 1 /\ Len(f) = 5 + k + 1 /\ n >= o + 5 /\ n <= L
        /\ n = Len(w) /\ k = Len(p)
    <2>1. o \in Nat /\ L = o + 5 + k + 1 /\ Len(f) = 5 + k + 1
      BY <1>1
    <2>2. n \in Nat /\ k \in Nat /\ n >= o + 5 /\ n <= L
      OBVIOUS
    <2> HIDE DEF o, L, f, n, k
    <2> QED
      BY <2>1, <2>2 DEF n, k
  <1> HIDE DEF o, f, L, h, n, k
  <1>5. ASSUME NEW i \in 1 .. o PROVE w[i] = NUL
    <2>1. i \in 1 .. Len(w)
      BY <1>4
    <2> QED
      BY <1>1, <2>1
  <1>6. ASSUME NEW i \in 1 .. 5 PROVE w[o + i] = Header[i]
    <2> DEFINE l == o + i
    <2>1. l \in 1 .. Len(w) /\ i \in 1 .. Len(f)
      BY <1>4, SMTT(30)
    <2>2. Packet(p)[l] = f[i]
      BY <1>1, <2>1
    <2> HIDE DEF l
    <2>3. w[l] = Packet(p)[l]
      BY <2>1
    <2> QED
      BY <1>1, <2>2, <2>3 DEF l
  <1>7. ASSUME NEW i \in 1 .. Len(p), o + 5 + i <= Len(w) PROVE w[o + 5 + i] = p[i]
    <2> DEFINE l == o + (5 + i)
               q == 5 + i
    <2>1. l \in 1 .. Len(w) /\ q \in 1 .. Len(f) /\ l = o + 5 + i
      BY <1>4, <1>7
    <2>2. Packet(p)[l] = f[q] /\ f[q] = p[i]
      BY <1>1, <2>1
    <2> HIDE DEF l, q
    <2>3. w[l] = Packet(p)[l]
      BY <2>1
    <2> QED
      BY <2>1, <2>2, <2>3
  <1>8. Len(w) = L => w[L] = EOT
    <2> DEFINE q == 5 + Len(p) + 1
    <2>1. L = o + q /\ q \in 1 .. Len(f) /\ f[q] = EOT
      BY <1>1
    <2> HIDE DEF q
    <2>2. Packet(p)[L] = EOT
      BY <1>1, <2>1
    <2>3. L \in 1 .. L
      BY <1>1, <1>4
    <2> QED
      BY <2>2, <2>3
  <1>9. \A i \in 1 .. Len(w) :
          \/ i \in 1 .. o
          \/ i - o \in 1 .. 5 /\ o + (i - o) = i
          \/ i - (o + 5) \in 1 .. Len(p) /\ o + 5 + (i - (o + 5)) = i
          \/ i = L /\ Len(w) = L
    BY <1>4
  <1>10. ASSUME NEW i \in 1 .. Len(w), i < L PROVE w[i] # EOT
    <2>1. CASE i \in 1 .. o
      BY <1>5, <2>1 DEF NUL, EOT
    <2>2. CASE i - o \in 1 .. 5 /\ o + (i - o) = i
      <3> DEFINE l == i - o
      <3>1. l \in 1 .. 5 /\ o + l = i
        BY <2>2
      <3> HIDE DEF l
      <3> QED
        BY <1>3, <1>6, <3>1
    <2>3. CASE i - (o + 5) \in 1 .. Len(p) /\ o + 5 + (i - (o + 5)) = i
      <3> DEFINE l == i - (o + 5)
      <3>1. l \in 1 .. Len(p) /\ o + 5 + l = i
        BY <2>3
      <3> HIDE DEF l
      <3>2. w[i] = p[l] /\ l \in DOMAIN p
        BY <1>7, <3>1
      <3> QED
        BY <3>2 DEF IsPlain
    <2> QED
      BY <1>9, <1>10, <2>1, <2>2, <2>3
  <1>11. HeadsAt(w, h)
    <2>1. 1 \in 1 .. 5 /\ 5 \in 1 .. 5 /\ o + 5 = h + 4 /\ o + 1 = h
      BY <1>4
    <2>2. w[h] = SOH /\ w[o + 5] = STX
      BY <1>3, <1>6, <2>1
    <2>3. h \in 1 .. Len(w) /\ h + 4 <= Len(w)
      BY <1>4
    <2> QED
      BY <2>1, <2>2, <2>3 DEF HeadsAt, IsHeader
  <1>12. ASSUME NEW i \in Positions, HeadsAt(w, i) PROVE i = h
    <2>1. i \in 1 .. Len(w) /\ w[i] = SOH /\ i + 4 <= Len(w) /\ w[i + 4] = STX
      BY <1>12 DEF HeadsAt, IsHeader
    <2>2. CASE i \in 1 .. o
      BY <1>5, <2>1, <2>2 DEF NUL, SOH
    <2>3. CASE i - o \in 1 .. 5 /\ o + (i - o) = i
      <3> DEFINE l == i - o
      <3>1. l \in 1 .. 5 /\ o + l = i
        BY <2>3
      <3> HIDE DEF l
      <3>2. Header[l] = SOH
        BY <1>6, <2>1, <3>1
      <3>3. l = 1
        BY <1>3, <3>1, <3>2
      <3> QED
        BY <1>4, <3>1, <3>3
    <2>4. CASE i - (o + 5) \in 1 .. Len(p) /\ o + 5 + (i - (o + 5)) = i
      <3> DEFINE l == i - (o + 5)
      <3>1. l \in 1 .. Len(p) /\ o + 5 + l = i /\ l + 4 \in Nat /\ o + 5 + (l + 4) = i + 4
        <4>1. i \in Nat
          BY <2>1
        <4> QED
          BY <1>4, <2>4, <4>1
      <3> HIDE DEF l
      <3>2. p[l] = SOH /\ l \in DOMAIN p
        <4>a. i <= Len(w)
          BY <2>1
        <4>b. o + 5 + l <= Len(w)
          BY <3>1, <4>a
        <4>1. w[o + 5 + l] = p[l]
          BY <1>7, <3>1, <4>b
        <4>2. w[o + 5 + l] = SOH
          BY <2>1, <3>1, Zenon
        <4>3. l \in DOMAIN p
          BY <3>1
        <4> QED
          BY <4>1, <4>2, <4>3
      <3>3. CASE l + 4 <= Len(p)
        <4> DEFINE q == l + 4
        <4>1. q \in 1 .. Len(p) /\ o + 5 + q = i + 4 /\ o + 5 + q <= Len(w)
          BY <2>1, <3>1, <3>3
        <4>2. IsHeader(p, l) => p[q] # STX
          BY <3>2 DEF IsPlain
        <4> HIDE DEF q
        <4>3. w[o + 5 + q] = p[q]
          BY <1>7, <4>1
        <4>4. p[q] = STX
          BY <2>1, <4>1, <4>3
        <4>5. IsHeader(p, l)
          BY <3>3, <4>4 DEF IsHeader, q
        <4> QED
          BY <3>2, <4>5 DEF IsPlain
      <3>4. CASE l + 4 > Len(p)
        <4>1. i + 4 = L /\ Len(w) = L
          <5>1. i \in Nat /\ i + 4 <= n /\ l \in Nat /\ l <= k /\ l + 4 > k /\ o + 5 + l = i
            BY <1>4, <2>1, <3>1, <3>4
          <5>2. o \in Nat /\ k \in Nat /\ n \in Nat /\ L = o + 5 + k + 1 /\ n <= L
            BY <1>4
          <5>3. i + 4 = L /\ n = L
            BY <5>1, <5>2
          <5> QED
            BY <1>4, <5>3
        <4> QED
          BY <1>8, <2>1, <4>1 DEF STX, EOT
      <3> QED
        BY <3>1, <3>3, <3>4
    <2>5. CASE i = L /\ Len(w) = L
      BY <1>4, <2>1, <2>5
    <2> QED
      BY <1>9, <2>1, <2>2, <2>3, <2>4, <2>5
  <1>13. \A i \in 1 .. h + 4 : w[i] # EOT
    <2> TAKE i \in 1 .. h + 4
    <2>1. i \in 1 .. Len(w) /\ i < L
      BY <1>4
    <2> QED
      BY <1>10, <2>1
  <1>14. \A i \in h + 1 .. h + 4 : w[i] # SOH
    <2> TAKE i \in h + 1 .. h + 4
    <2> DEFINE l == i - o
    <2>1. l \in 2 .. 5 /\ l \in 1 .. 5 /\ o + l = i
      BY <1>4
    <2> HIDE DEF l
    <2> QED
      BY <1>3, <1>6, <2>1
  <1>15. \A i \in 1 .. 4 : w[i] # STX
    <2> TAKE i \in 1 .. 4
    <2>1. CASE i \in 1 .. o
      BY <1>5, <2>1 DEF NUL, STX
    <2>2. CASE i \notin 1 .. o
      <3> DEFINE l == i - o
      <3>1. l \in 1 .. 4 /\ l \in 1 .. 5 /\ o + l = i
        BY <1>4, <2>2
      <3> HIDE DEF l
      <3> QED
        BY <1>3, <1>6, <3>1
    <2> QED
      BY <2>1, <2>2
  <1>16. \A j \in h + 1 .. Len(w) : j < L => w[j] # EOT
    <2> TAKE j \in h + 1 .. Len(w)
    <2>1. j \in 1 .. Len(w)
      BY <1>4
    <2> QED
      BY <1>10, <2>1
  <1>17. IsSegment(w, h)
    BY <1>11, <1>12, <1>13, <1>14, <1>15 DEF IsSegment
  <1> QED
    BY <1>2, <1>16, <1>17 DEF o, h, L

LEMMA WholeSent ==
  ASSUME NEW p \in Payloads
  PROVE  LET w == Packet(p)
             h == WakeupNulls + 1
         IN /\ w \in Seq(Nat) /\ h \in Positions /\ IsSegment(w, h) /\ IsFrame(w, h, Len(w))
            /\ FramesShort(w)
            /\ SubSeq(w, h, Len(w)) = Header \o p \o <<EOT>>
  <1> DEFINE w == Packet(p)
             o == WakeupNulls
             h == o + 1
             f == Header \o p \o <<EOT>>
             n == Len(w)
             k == Len(p)
  <1>1. p \in Seq(Nat) /\ IsPlain(p) /\ Len(Header) + k + 1 <= MaxFrame
    BY SimulatorAssumption, PayloadsTyped
  <1>2. /\ w \in Seq(Nat) /\ f \in Seq(Nat) /\ o \in Nat
        /\ Len(w) = o + 5 + Len(p) + 1 /\ Len(f) = 5 + Len(p) + 1
        /\ \A i \in 1 .. Len(f) : w[o + i] = f[i]
        /\ f[5 + Len(p) + 1] = EOT
    BY <1>1, PacketHolds
  <1>3. /\ n \in Nat /\ k \in Nat /\ o \in Nat /\ h = o + 1 /\ n = Len(w) /\ k = Len(p)
        /\ n = o + 5 + k + 1 /\ Len(f) = 5 + k + 1
        /\ MaxFrame \in Nat /\ 5 + k + 1 <= MaxFrame
    BY <1>1, <1>2, HeaderIsFive
  <1>4. h \in Positions /\ IsSegment(w, h) /\ \A j \in h + 1 .. n : j < n => w[j] # EOT
    <2>1. n >= o + 5 /\ n <= n
      BY <1>3
    <2>2. \A i \in 1 .. n : w[i] = w[i]
      OBVIOUS
    <2> QED
      BY <1>1, <1>2, <2>1, <2>2, PlainSegment
  <1> HIDE DEF w, o, h, f, n, k
  <1>5. IsFrame(w, h, n)
    <2>1. HeadsAt(w, h) /\ \A j \in Positions : HeadsAt(w, j) => j = h
      BY <1>4 DEF IsSegment
    <2>2. n \in h + 5 .. Len(w)
      BY <1>3
    <2>3. w[n] = EOT
      <3> DEFINE q == 5 + k + 1
      <3>1. q \in 1 .. Len(f) /\ o + q = n /\ f[q] = EOT
        BY <1>2, <1>3
      <3> HIDE DEF q
      <3> QED
        BY <1>2, <3>1
    <2>4. ASSUME NEW j \in h + 1 .. n - 1 PROVE w[j] # EOT /\ ~HeadsAt(w, j)
      <3>1. j \in h + 1 .. n /\ j < n /\ j \in Positions /\ j # h
        BY <1>3 DEF Positions
      <3> QED
        BY <1>4, <2>1, <3>1
    <2> QED
      BY <2>1, <2>2, <2>3, <2>4 DEF IsFrame
  <1>6. FramesShort(w)
    <2> SUFFICES ASSUME NEW i \in Positions, NEW e \in Positions, IsFrame(w, i, e)
                 PROVE  e - i + 1 <= MaxFrame
      BY DEF FramesShort
    <2>1. HeadsAt(w, i) /\ e \in i + 5 .. Len(w)
      BY DEF IsFrame
    <2>2. i = h
      BY <1>4, <2>1 DEF IsSegment
    <2>3. e \in Nat /\ e <= n
      BY <1>3, <2>1 DEF Positions
    <2> QED
      BY <1>3, <2>2, <2>3
  <1>7. SubSeq(w, h, n) = f
    <2> DEFINE u == SubSeq(w, h, n)
    <2>1. o \in Nat /\ n \in 0 .. Len(w) /\ h = o + 1 /\ o <= n /\ n - o = Len(f)
      BY <1>3
    <2>2. /\ SubSeq(w, o + 1, n) \in Seq(Nat) /\ Len(SubSeq(w, o + 1, n)) = n - o
          /\ \A i \in 1 .. n - o : SubSeq(w, o + 1, n)[i] = w[o + i]
      BY <1>2, <2>1, BytesBetween
    <2>3. u = SubSeq(w, o + 1, n)
      BY <2>1
    <2> HIDE DEF u
    <2>4. u \in Seq(Nat) /\ Len(u) = Len(f) /\ \A i \in 1 .. Len(u) : u[i] = w[o + i]
      BY <2>1, <2>2, <2>3
    <2>5. \A i \in 1 .. Len(f) : u[i] = f[i]
      BY <1>2, <2>4
    <2>6. u = f
      BY <1>2, <2>4, <2>5, SameElements
    <2> QED
      BY <2>6 DEF u
  <1> QED
    BY <1>2, <1>4, <1>5, <1>6, <1>7 DEF w, o, h, n, f

LEMMA PartSent ==
  ASSUME NEW p \in Breakable, NEW sends \in 0 .. Len(p)
  PROVE  LET w == SubSeq(Packet(p), 1, WakeupNulls + Len(Header) + sends)
             h == WakeupNulls + 1
         IN w \in Seq(Nat) /\ h \in Positions /\ IsSegment(w, h) /\ NoFrame(w)
            /\ FramesShort(w)
  <1> DEFINE v == Packet(p)
             o == WakeupNulls
             h == o + 1
             n == WakeupNulls + Len(Header) + sends
             w == SubSeq(v, 1, n)
             k == Len(p)
             z == 0
  <1>1. p \in Seq(Nat) /\ IsPlain(p)
    BY SimulatorAssumption, PayloadsTyped
  <1>2. v \in Seq(Nat) /\ o \in Nat /\ Len(v) = o + 5 + Len(p) + 1
    BY <1>1, PacketHolds
  <1>3. /\ n \in Nat /\ k \in Nat /\ sends \in Nat /\ sends <= k /\ n = o + 5 + sends
        /\ n \in 0 .. Len(v) /\ n < Len(v) /\ h = o + 1 /\ z \in Nat /\ z + 1 = 1 /\ z <= n
        /\ n - z = n /\ \A i \in 1 .. n : z + i = i
    BY <1>1, <1>2, HeaderIsFive
  <1>4. h \in Positions
    BY <1>2 DEF Positions
  <1> HIDE DEF z, n
  <1>5. w \in Seq(Nat) /\ Len(w) = n /\ \A i \in 1 .. n : w[i] = v[i]
    <2>1. LET q == SubSeq(v, z + 1, n)
          IN /\ q \in Seq(Nat)
             /\ Len(q) = IF z <= n THEN n - z ELSE 0
             /\ \A i \in 1 .. Len(q) : q[i] = v[z + i]
      BY <1>2, <1>3, Part
    <2>2. w = SubSeq(v, z + 1, n)
      BY <1>3
    <2> HIDE DEF w
    <2> QED
      BY <1>3, <2>1, <2>2
  <1> HIDE DEF w
  <1>6. IsSegment(w, h) /\ \A j \in h + 1 .. Len(w) : j < Len(v) => w[j] # EOT
    <2>1. Len(w) >= o + 5 /\ Len(w) <= Len(v) /\ \A i \in 1 .. Len(w) : w[i] = v[i]
      BY <1>2, <1>3, <1>5
    <2> QED
      BY <1>1, <1>5, <2>1, PlainSegment
  <1> HIDE DEF v, o, h
  <1>7. NoFrame(w)
    <2> SUFFICES ASSUME NEW i \in Positions, NEW e \in Positions, IsFrame(w, i, e)
                 PROVE  FALSE
      BY DEF NoFrame
    <2>1. HeadsAt(w, i) /\ e \in i + 5 .. Len(w) /\ w[e] = EOT
      BY DEF IsFrame
    <2>2. i = h
      BY <1>6, <2>1 DEF IsSegment
    <2>3. e \in h + 1 .. Len(w) /\ e < Len(v)
      BY <1>2, <1>3, <1>5, <2>1, <2>2
    <2> QED
      BY <1>6, <2>1, <2>3
  <1>8. FramesShort(w)
    BY <1>7 DEF NoFrame, FramesShort
  <1> QED
    BY <1>4, <1>5, <1>6, <1>7, <1>8 DEF w, v, n, o, h

-----------------------------------------------------------------------------
(* What a scanner makes of what it has, with more of the stream to come.   *)
LEMMA FirstEnd ==
  ASSUME NEW buffer \in Seq(Nat), NEW until \in Nat
  PROVE  LET at == Find(buffer, EOT, 6, until)
         IN \/ /\ at = 0 /\ \A i \in 6 .. until : buffer[i] # EOT
            \/ /\ at \in 6 .. until /\ buffer[at] = EOT
               /\ \A i \in 6 .. at - 1 : buffer[i] # EOT
  <1> DEFINE places == Places(buffer, EOT, 6, until)
  <1>1. CASE places = {}
    BY <1>1 DEF Find, Places
  <1>2. CASE places # {}
    <2>1. places \in SUBSET Nat
      BY DEF Places, Positions
    <2>2. Min(places) \in places /\ \A i \in places : Min(places) <= i
      <3> HIDE DEF places
      <3> QED
        BY <1>2, <2>1, LeastIsThere
    <2>3. Find(buffer, EOT, 6, until) = Min(places)
      BY <1>2 DEF Find
    <2> DEFINE at == Min(places)
    <2>4. at \in 6 .. until /\ buffer[at] = EOT
      BY <2>2 DEF Places
    <2>5. \A i \in 6 .. until : buffer[i] = EOT => at <= i
      BY <2>2 DEF Places
    <2> HIDE DEF at
    <2>6. \A i \in 6 .. at - 1 : i \in 6 .. until /\ ~(at <= i)
      BY <2>4 DEF Positions
    <2>7. \A i \in 6 .. at - 1 : buffer[i] # EOT
      BY <2>5, <2>6
    <2> QED
      BY <2>3, <2>4, <2>7 DEF at
  <1> QED
    BY <1>1, <1>2

LEMMA NextHeaderIs ==
  ASSUME NEW buffer \in Seq(Nat), NEW end \in 0 .. Len(buffer), end = 0 \/ end >= 6
  PROVE  LET next == NextHeader(buffer, end)
             until == IF end > 0 THEN end - 1 ELSE Len(buffer)
         IN /\ \/ /\ next.at = 0
                  /\ \A i \in 6 .. until : ~HeadsAt(buffer, i)
               \/ /\ next.at \in 6 .. until /\ HeadsAt(buffer, next.at)
                  /\ \A i \in 6 .. next.at - 1 : ~HeadsAt(buffer, i)
            /\ next.waiting \in BOOLEAN
            /\ next.waiting => end = 0
            /\ ~next.waiting /\ end = 0 /\ next.at = 0 =>
                 \A i \in 6 .. Len(buffer) : buffer[i] = SOH => i + 4 <= Len(buffer)
  <1> DEFINE until == IF end > 0 THEN end - 1 ELSE Len(buffer)
             sohs == Places(buffer, SOH, Len(Header) + 1, until)
             headers == {i \in sohs : IsHeader(buffer, i)}
             late == {i \in sohs : i + 4 > Len(buffer)}
             at == IF headers = {} THEN 0 ELSE Min(headers)
             waiting == headers = {} /\ late # {} /\ end = 0
  <1>1. until \in Nat /\ until <= Len(buffer) /\ Len(buffer) \in Nat
        /\ (end = 0 => until = Len(buffer))
    OBVIOUS
  <1> HIDE DEF until
  <1>2. sohs = {i \in 6 .. until : buffer[i] = SOH}
    BY HeaderIsFive DEF Places
  <1>3. \A i \in 6 .. until : i \in headers <=> HeadsAt(buffer, i)
    <2> TAKE i \in 6 .. until
    <2>1. i \in 1 .. Len(buffer)
      BY <1>1
    <2>2. i \in sohs <=> buffer[i] = SOH
      BY <1>2
    <2> HIDE DEF sohs
    <2> QED
      BY <2>1, <2>2 DEF HeadsAt
  <1>4. headers \subseteq 6 .. until /\ headers \in SUBSET Nat
    BY <1>1, <1>2
  <1>5. NextHeader(buffer, end) = [at |-> at, waiting |-> waiting]
    BY DEF NextHeader, until
  <1>6. waiting \in BOOLEAN /\ (waiting => end = 0)
    OBVIOUS
  <1>7. ~waiting /\ end = 0 /\ headers = {} =>
          \A i \in 6 .. Len(buffer) : buffer[i] = SOH => i + 4 <= Len(buffer)
    <2> SUFFICES ASSUME end = 0, late = {}, NEW i \in 6 .. Len(buffer), buffer[i] = SOH,
                        ~(i + 4 <= Len(buffer))
                 PROVE  FALSE
      OBVIOUS
    <2>1. i \in 6 .. until /\ i + 4 > Len(buffer)
      BY <1>1
    <2>2. i \in sohs
      BY <1>2, <2>1
    <2> QED
      BY <2>1, <2>2
  <1> HIDE DEF headers, waiting, sohs, late
  <1>8. CASE headers = {}
    <2>1. at = 0 /\ \A i \in 6 .. until : ~HeadsAt(buffer, i)
      BY <1>3, <1>8
    <2> HIDE DEF at
    <2>2. NextHeader(buffer, end).at = at /\ NextHeader(buffer, end).waiting = waiting
      BY <1>5
    <2> QED
      BY <1>6, <1>7, <1>8, <2>1, <2>2 DEF until
  <1>9. CASE headers # {}
    <2>1. Min(headers) \in headers /\ \A i \in headers : Min(headers) <= i
      BY <1>4, <1>9, LeastIsThere
    <2>2. at = Min(headers)
      BY <1>9
    <2> HIDE DEF at
    <2>3. at \in 6 .. until /\ HeadsAt(buffer, at)
      BY <1>3, <1>4, <2>1, <2>2
    <2>4. \A i \in 6 .. at - 1 : i \in 6 .. until /\ ~(at <= i)
      BY <1>1, <2>3
    <2>5. \A i \in 6 .. at - 1 : ~HeadsAt(buffer, i)
      BY <1>3, <2>1, <2>2, <2>4
    <2>6. at # 0
      BY <2>3
    <2>7. NextHeader(buffer, end).at = at /\ NextHeader(buffer, end).waiting = waiting
      BY <1>5
    <2> QED
      BY <1>6, <2>3, <2>5, <2>6, <2>7 DEF until
  <1> QED
    BY <1>8, <1>9

\* What has been read of a stream has its headers where the stream has them.
LEMMA FrontHeads ==
  ASSUME NEW b \in Seq(Nat), NEW r \in Seq(Nat), NEW x \in Seq(Nat), IsJoined(x, b, r),
         NEW i \in Positions
  PROVE  /\ i <= Len(b) => b[i] = x[i]
         /\ HeadsAt(b, i) => HeadsAt(x, i)
         /\ HeadsAt(x, i) /\ i + 4 <= Len(b) => HeadsAt(b, i)
  <1>1. /\ Len(b) \in Nat /\ Len(r) \in Nat /\ Len(x) = Len(b) + Len(r)
        /\ (\A j \in 1 .. Len(b) : b[j] = x[j])
    BY DEF IsJoined
  <1>2. i \in Nat /\ i > 0
    BY DEF Positions
  <1>3. i <= Len(b) => i \in 1 .. Len(b) /\ b[i] = x[i]
    BY <1>1, <1>2
  <1>4. i + 4 <= Len(b) => i \in 1 .. Len(b) /\ i \in 1 .. Len(x) /\ i + 4 <= Len(x)
                           /\ b[i + 4] = x[i + 4]
    <2> DEFINE l == i + 4
    <2>1. i + 4 <= Len(b) => l \in 1 .. Len(b) /\ i \in 1 .. Len(b) /\ i \in 1 .. Len(x)
                             /\ i + 4 <= Len(x)
      BY <1>1, <1>2
    <2> HIDE DEF l
    <2>2. l \in 1 .. Len(b) => b[l] = x[l]
      BY <1>1
    <2> QED
      BY <2>1, <2>2 DEF l
  <1>5. i \in 1 .. Len(b) => i <= Len(b)
    BY <1>1
  <1> QED
    BY <1>3, <1>4, <1>5 DEF HeadsAt, IsHeader

\* What a read from a header on takes of a stream: nothing yet, a frame that never
\* ends, or the first frame that is to be found.
TakesNothing(s, one) == one = Waits(s) /\ NoFrame(s.buffer)
TakesCut(s, one, x, n) ==
  /\ one = Build(s, n, TRUE) /\ ~AllEnd(x)
  /\ \A i, e \in Positions : IsFrame(x, i, e) => i > n
TakesFrame(s, one, x, n) ==
  /\ one = Build(s, n, FALSE) /\ IsFrame(x, 1, n)
  /\ \A i, e \in Positions : IsFrame(x, i, e) => i = 1 \/ i > n

LEMMA ReadFrameTakes ==
  ASSUME NEW s \in Scanners, HeadsAt(s.buffer, 1),
         NEW r \in Seq(Nat), NEW x \in Seq(Nat), IsJoined(x, s.buffer, r),
         HeadersApart(x), FramesShort(x)
  PROVE  \/ TakesNothing(s, ReadFrame(s))
         \/ \E n \in 5 .. Len(s.buffer) : TakesCut(s, ReadFrame(s), x, n)
         \/ \E n \in 6 .. Len(s.buffer) : TakesFrame(s, ReadFrame(s), x, n)
  <1> DEFINE b == s.buffer
             N == Len(s.buffer)
             end == Find(s.buffer, EOT, Len(Header) + 1, Len(s.buffer))
             next == NextHeader(s.buffer, end)
             cuts == next.at > 0 /\ (end = 0 \/ next.at < end)
             until == IF end > 0 THEN end - 1 ELSE Len(b)
  <1>1. b \in Seq(Nat) /\ N \in Nat /\ N = Len(b) /\ N >= 5
    BY DEF Scanners, HeadsAt, IsHeader
  <1>2. \/ end = 0 /\ \A i \in 6 .. N : b[i] # EOT
        \/ end \in 6 .. N /\ b[end] = EOT /\ \A i \in 6 .. end - 1 : b[i] # EOT
    <2>2. end = Find(b, EOT, 6, N)
      BY HeaderIsFive
    <2> HIDE DEF b, N
    <2>3. LET at == Find(b, EOT, 6, N)
          IN \/ at = 0 /\ \A i \in 6 .. N : b[i] # EOT
             \/ at \in 6 .. N /\ b[at] = EOT /\ \A i \in 6 .. at - 1 : b[i] # EOT
      BY <1>1, FirstEnd
    <2> HIDE DEF end
    <2> QED
      BY <2>2, <2>3
  <1>3. /\ \/ next.at = 0 /\ \A i \in 6 .. until : ~HeadsAt(b, i)
           \/ /\ next.at \in 6 .. until /\ HeadsAt(b, next.at)
              /\ \A i \in 6 .. next.at - 1 : ~HeadsAt(b, i)
        /\ next.waiting \in BOOLEAN
        /\ next.waiting => end = 0
        /\ ~next.waiting /\ end = 0 /\ next.at = 0 =>
             \A i \in 6 .. N : b[i] = SOH => i + 4 <= N
    <2>1. end \in 0 .. Len(b) /\ (end = 0 \/ end >= 6)
      BY <1>1, <1>2
    <2> HIDE DEF b, end
    <2>2. LET after == NextHeader(b, end)
              upto == IF end > 0 THEN end - 1 ELSE Len(b)
          IN /\ \/ /\ after.at = 0
                   /\ \A i \in 6 .. upto : ~HeadsAt(b, i)
                \/ /\ after.at \in 6 .. upto /\ HeadsAt(b, after.at)
                   /\ \A i \in 6 .. after.at - 1 : ~HeadsAt(b, i)
             /\ after.waiting \in BOOLEAN
             /\ after.waiting => end = 0
             /\ ~after.waiting /\ end = 0 /\ after.at = 0 =>
                  \A i \in 6 .. Len(b) : b[i] = SOH => i + 4 <= Len(b)
      BY <1>1, <2>1, NextHeaderIs
    <2>3. next = NextHeader(b, end) /\ N = Len(b)
      BY DEF b, end
    <2> HIDE DEF next, N
    <2> QED
      BY <2>2, <2>3
  <1>4. ReadFrame(s) = CASE next.waiting -> Waits(s)
                         [] ~next.waiting /\ cuts -> Build(s, next.at - 1, TRUE)
                         [] ~next.waiting /\ ~cuts /\ end = 0 -> Overlong(s)
                         [] OTHER -> Build(s, end, FALSE)
    BY DEF ReadFrame
  <1>5. until = (IF end > 0 THEN end - 1 ELSE N)
    OBVIOUS
  <1> HIDE DEF b, N, end, next, until
  <1>6. \A i \in Positions : /\ i \in Nat /\ i > 0
                             /\ i <= N => b[i] = x[i]
                             /\ HeadsAt(b, i) => HeadsAt(x, i)
                             /\ HeadsAt(x, i) /\ i + 4 <= N => HeadsAt(b, i)
    <2> TAKE i \in Positions
    <2>1. i \in Nat /\ i > 0
      BY DEF Positions
    <2> QED
      BY <1>1, <2>1, FrontHeads, SMTT(30) DEF b
  <1>7. HeadsAt(x, 1) /\ 1 \in Positions
    BY <1>6 DEF b, Positions
  <1>8. \A j \in 2 .. 5 : x[j] # SOH /\ x[j] # EOT /\ ~HeadsAt(x, j)
    <2> TAKE j \in 2 .. 5
    <2>1. j \in 1 + 1 .. 1 + 4
      OBVIOUS
    <2>2. x[j] # SOH /\ x[j] # EOT
      BY <1>7, <2>1 DEF HeadersApart
    <2> QED
      BY <2>2 DEF HeadsAt
  <1>9. ASSUME end = 0 PROVE NoFrame(b)
    <2> SUFFICES ASSUME NEW i \in Positions, NEW e \in Positions, IsFrame(b, i, e)
                 PROVE  FALSE
      BY DEF NoFrame
    <2>1. e \in 6 .. N /\ b[e] = EOT
      BY <1>1, <1>6 DEF IsFrame
    <2> QED
      BY <1>2, <1>9, <2>1
  <1>10. \A i \in Positions : i = 1 \/ i \in 2 .. 5 \/ i >= 6
    BY DEF Positions
  <1>11. CASE next.waiting
    <2>1. ReadFrame(s) = Waits(s) /\ NoFrame(b)
      BY <1>3, <1>4, <1>9, <1>11
    <2> QED
      BY <2>1 DEF TakesNothing, b
  <1>12. CASE ~next.waiting /\ cuts
    <2> DEFINE at == next.at
               n == at - 1
    <2>1. /\ at \in 6 .. until /\ HeadsAt(b, at) /\ \A i \in 6 .. at - 1 : ~HeadsAt(b, i)
          /\ end = 0 \/ at < end
      BY <1>3, <1>12
    <2>2. ReadFrame(s) = Build(s, n, TRUE)
      BY <1>4, <1>12
    <2> HIDE DEF at
    <2>3. at \in Nat /\ at >= 6 /\ at + 4 <= N /\ at \in Positions
      BY <1>1, <2>1 DEF HeadsAt, IsHeader, Positions
    <2>4. n \in 5 .. Len(s.buffer) /\ n = at - 1
      BY <1>1, <2>3 DEF N
    <2> HIDE DEF n
    <2>5. HeadsAt(x, at) /\ x[at] = SOH
      BY <1>6, <2>1, <2>3 DEF HeadsAt
    <2>6. \A i \in 6 .. n : x[i] # EOT /\ ~HeadsAt(x, i)
      <3> TAKE i \in 6 .. n
      <3>1. i \in Positions /\ i <= N /\ i + 4 <= N /\ i \in 6 .. at - 1 /\ i \in 6 .. N
        BY <1>1, <2>3, <2>4 DEF Positions
      <3>2. ~HeadsAt(b, i)
        BY <2>1, <3>1
      <3>3. b[i] # EOT
        <4>1. CASE end = 0
          BY <1>2, <3>1, <4>1
        <4>2. CASE at < end
          <5>1. end \in 6 .. N
            BY <1>2, <2>3, <4>2
          <5>2. i \in 6 .. end - 1
            BY <1>1, <2>3, <3>1, <4>2, <5>1
          <5> QED
            BY <1>2, <4>2, <5>1, <5>2
        <4> QED
          BY <2>1, <4>1, <4>2
      <3> QED
        BY <1>6, <3>1, <3>2, <3>3
    <2>7. ASSUME NEW i \in Positions, NEW e \in Positions, IsFrame(x, i, e), ~(i > n)
          PROVE  FALSE
      <3>1. HeadsAt(x, i) /\ e \in i + 5 .. Len(x) /\ x[e] = EOT
            /\ \A j \in i + 1 .. e - 1 : ~HeadsAt(x, j)
        BY <2>7 DEF IsFrame
      <3>2. i = 1
        <4>1. i >= 6 => i \in 6 .. n
          BY <1>6, <2>3, <2>4, <2>7
        <4> QED
          BY <1>8, <1>10, <2>6, <3>1, <4>1
      <3>3. e \in Nat /\ e >= 6
        BY <1>6, <3>1, <3>2
      <3>4. ~(e \in 6 .. n) /\ e # at
        BY <2>5, <2>6, <3>1 DEF SOH, EOT
      <3>5. at \in i + 1 .. e - 1
        BY <2>3, <2>4, <3>2, <3>3, <3>4
      <3> QED
        BY <2>5, <3>1, <3>5
    <2>8. ~AllEnd(x)
      <3>1. ASSUME AllEnd(x) PROVE FALSE
        <4>1. PICK e \in Positions : IsFrame(x, 1, e)
          BY <1>7, <3>1 DEF AllEnd
        <4>2. ~(1 > n)
          BY <2>3, <2>4
        <4> QED
          BY <1>7, <2>7, <4>1, <4>2
      <3> QED
        BY <3>1
    <2>9. TakesCut(s, ReadFrame(s), x, n)
      BY <2>2, <2>7, <2>8 DEF TakesCut
    <2> QED
      BY <2>4, <2>9
  <1>13. CASE ~next.waiting /\ ~cuts /\ end = 0
    <2>1. next.at = 0 /\ ReadFrame(s) = Overlong(s)
      <3>1. ReadFrame(s) = Overlong(s)
        BY <1>4, <1>13
      <3>2. next.at = 0 \/ next.at > 0
        BY <1>1, <1>3, <1>5, <1>13
      <3> QED
        BY <1>13, <3>1, <3>2
    <2>2. CASE N <= MaxFrame
      <3>1. ReadFrame(s) = Waits(s)
        BY <2>1, <2>2 DEF Overlong, N
      <3> QED
        BY <1>9, <1>13, <3>1 DEF TakesNothing, b
    <2>3. CASE ~(N <= MaxFrame)
      <3>1. ReadFrame(s) = Build(s, N, TRUE)
        BY <2>1, <2>3 DEF Overlong, N
      <3>2. \A i \in 6 .. N : b[i] # EOT /\ ~HeadsAt(b, i) /\ (b[i] = SOH => i + 4 <= N)
        BY <1>2, <1>3, <1>5, <1>13, <2>1
      <3>3. ASSUME NEW i \in Positions, NEW e \in Positions, IsFrame(x, i, e), ~(i > N)
            PROVE  FALSE
        <4>1. HeadsAt(x, i) /\ e \in i + 5 .. Len(x) /\ x[e] = EOT /\ x[i] = SOH
          BY <3>3 DEF IsFrame, HeadsAt
        <4>2. i = 1
          <5>1. CASE i >= 6
            <6>1. i \in 6 .. N /\ b[i] = SOH
              BY <1>1, <1>6, <3>3, <4>1, <5>1, SMTT(30)
            <6>2. i + 4 <= N
              BY <3>2, <6>1
            <6> QED
              BY <1>6, <3>2, <4>1, <6>1, <6>2
          <5> QED
            BY <1>8, <1>10, <4>1, <5>1
        <4>3. e \in Nat /\ e >= 6
          BY <1>6, <4>1, <4>2
        <4>4. CASE e <= N
          <5>1. e \in 6 .. N /\ b[e] = EOT
            BY <1>6, <4>1, <4>3, <4>4
          <5> QED
            BY <3>2, <5>1
        <4>5. CASE e > N
          <5>1. e - i + 1 <= MaxFrame
            BY <3>3 DEF FramesShort
          <5> QED
            BY <1>1, <2>3, <4>2, <4>3, <4>5, <5>1, HeaderIsFive
        <4> QED
          BY <1>1, <4>3, <4>4, <4>5
      <3>4. ~AllEnd(x)
        <4>1. ASSUME AllEnd(x) PROVE FALSE
          <5>1. PICK e \in Positions : IsFrame(x, 1, e)
            BY <1>7, <4>1 DEF AllEnd
          <5>2. ~(1 > N)
            BY <1>1
          <5> QED
            BY <1>7, <3>3, <5>1, <5>2
        <4> QED
          BY <4>1
      <3>5. N \in 5 .. Len(s.buffer) /\ TakesCut(s, ReadFrame(s), x, N)
        <4>1. N \in 5 .. N
          BY <1>1
        <4>2. TakesCut(s, ReadFrame(s), x, N)
          BY <3>1, <3>3, <3>4 DEF TakesCut
        <4> QED
          BY <4>1, <4>2 DEF N
      <3> QED
        BY <3>5
    <2> QED
      BY <2>2, <2>3
  <1>14. CASE ~next.waiting /\ ~cuts /\ end # 0
    <2>1. ReadFrame(s) = Build(s, end, FALSE)
      BY <1>4, <1>14
    <2>2. end \in 6 .. N /\ b[end] = EOT /\ (\A i \in 6 .. end - 1 : b[i] # EOT)
          /\ until = end - 1
      BY <1>1, <1>2, <1>5, <1>14
    <2>3. next.at = 0 /\ \A i \in 6 .. end - 1 : ~HeadsAt(b, i)
      <3>1. next.at \in 6 .. until => next.at > 0 /\ next.at < end
        BY <1>1, <2>2
      <3> QED
        BY <1>3, <1>14, <2>2, <3>1
    <2>4. end \in Nat /\ end \in Positions /\ end <= N /\ x[end] = EOT
      BY <1>1, <1>6, <2>2 DEF Positions
    <2>5. \A j \in 6 .. end - 1 : x[j] # EOT /\ ~HeadsAt(x, j)
      <3> TAKE j \in 6 .. end - 1
      <3>1. j \in Positions /\ j \in Nat /\ j < end /\ j <= N
        <4>1. end \in Nat /\ N \in Nat /\ end <= N
          BY <1>1, <2>4
        <4> QED
          BY <4>1 DEF Positions
      <3>2. x[j] # EOT /\ ~HeadsAt(b, j)
        BY <1>6, <2>2, <2>3, <3>1
      <3>3. CASE j + 4 <= N
        BY <1>6, <3>1, <3>2, <3>3
      <3>4. CASE j + 4 > N
        <4>1. end \in j + 1 .. j + 4
          BY <1>1, <2>4, <3>1, <3>4
        <4> QED
          BY <2>4, <3>1, <3>2, <4>1 DEF HeadersApart
      <3> QED
        BY <1>1, <3>1, <3>2, <3>3, <3>4
    <2>6. IsFrame(x, 1, end)
      <3>1. end \in 1 + 5 .. Len(x)
        <4>1. Len(x) \in Nat /\ N <= Len(x)
          BY <1>1 DEF IsJoined, b
        <4> QED
          BY <1>1, <2>2, <2>4, <4>1
      <3>2. ASSUME NEW j \in 1 + 1 .. end - 1 PROVE x[j] # EOT /\ ~HeadsAt(x, j)
        <4>1. j \in 2 .. 5 \/ j \in 6 .. end - 1
          BY <2>4
        <4> QED
          BY <1>8, <2>5, <4>1
      <3> QED
        BY <1>7, <2>4, <3>1, <3>2 DEF IsFrame
    <2>7. ASSUME NEW i \in Positions, NEW e \in Positions, IsFrame(x, i, e)
          PROVE  i = 1 \/ i > end
      <3>1. HeadsAt(x, i) /\ x[i] = SOH
        BY <2>7 DEF IsFrame, HeadsAt
      <3>2. i \in 6 .. end - 1 \/ i = 1 \/ i \in 2 .. 5 \/ i = end \/ i > end
        <4>1. i \in Nat /\ end \in Nat
          BY <1>6, <2>4
        <4>2. CASE i >= 6
          BY <4>1, <4>2
        <4> QED
          BY <1>10, <4>2
      <3> QED
        BY <1>8, <2>4, <2>5, <3>1, <3>2 DEF SOH, EOT
    <2>8. end \in 6 .. Len(s.buffer) /\ TakesFrame(s, ReadFrame(s), x, end)
      BY <2>1, <2>2, <2>6, <2>7 DEF TakesFrame, N
    <2> QED
      BY <2>8
  <1> QED
    BY <1>3, <1>11, <1>12, <1>13, <1>14

-----------------------------------------------------------------------------
(* One look at a stream.                                                   *)
IsRest(y, x, m) ==
  /\ y \in Seq(Nat) /\ m \in 0 .. Len(x) /\ Len(y) = Len(x) - m
  /\ \A i \in 1 .. Len(y) : y[i] = x[m + i]

LEMMA SuffixIsRest ==
  ASSUME NEW x \in Seq(Nat), NEW m \in 0 .. Len(x)
  PROVE  IsRest(SubSeq(x, m + 1, Len(x)), x, m)
  <1>1. LET q == SubSeq(x, m + 1, Len(x))
        IN /\ q \in Seq(Nat)
           /\ Len(q) = IF m <= Len(x) THEN Len(x) - m ELSE 0
           /\ \A i \in 1 .. Len(q) : q[i] = x[m + i]
    <2>1. m \in Nat /\ Len(x) \in 0 .. Len(x)
      OBVIOUS
    <2> QED
      BY <2>1, Part, Zenon
  <1>2. m <= Len(x)
    OBVIOUS
  <1> DEFINE q == SubSeq(x, m + 1, Len(x))
  <1>3. /\ q \in Seq(Nat)
        /\ Len(q) = IF m <= Len(x) THEN Len(x) - m ELSE 0
        /\ \A i \in 1 .. Len(q) : q[i] = x[m + i]
    BY <1>1, Zenon
  <1> HIDE DEF q
  <1>4. IsRest(q, x, m)
    BY <1>2, <1>3 DEF IsRest
  <1> QED
    BY <1>4 DEF q

LEMMA RestOfRest ==
  ASSUME NEW x \in Seq(Nat), NEW y, NEW z, NEW m, NEW n, IsRest(y, x, m), IsRest(z, y, n)
  PROVE  IsRest(z, x, m + n)
  <1>1. /\ y \in Seq(Nat) /\ z \in Seq(Nat) /\ m \in 0 .. Len(x) /\ n \in 0 .. Len(y)
        /\ Len(y) = Len(x) - m /\ Len(z) = Len(y) - n /\ Len(x) \in Nat /\ Len(y) \in Nat
        /\ Len(z) \in Nat
    BY DEF IsRest
  <1>2. m + n \in 0 .. Len(x) /\ Len(z) = Len(x) - (m + n)
    BY <1>1
  <1>3. ASSUME NEW i \in 1 .. Len(z) PROVE z[i] = x[(m + n) + i]
    <2>1. z[i] = y[n + i]
      BY DEF IsRest
    <2>2. n + i \in 1 .. Len(y) /\ m + (n + i) = (m + n) + i
      BY <1>1
    <2> DEFINE l == n + i
    <2> HIDE DEF l
    <2>3. l \in 1 .. Len(y) /\ m + l = (m + n) + i /\ z[i] = y[l]
      BY <2>1, <2>2 DEF l
    <2>4. y[l] = x[m + l]
      BY <2>3 DEF IsRest
    <2> QED
      BY <2>3, <2>4
  <1> QED
    BY <1>1, <1>2, <1>3 DEF IsRest

LEMMA RestIsJoined ==
  ASSUME NEW x \in Seq(Nat), NEW b \in Seq(Nat), NEW r \in Seq(Nat), IsJoined(x, b, r),
         NEW c, NEW m, IsRest(c, b, m)
  PROVE  \E y \in Seq(Nat) : IsRest(y, x, m) /\ IsJoined(y, c, r)
  <1> DEFINE y == SubSeq(x, m + 1, Len(x))
  <1>1. /\ c \in Seq(Nat) /\ m \in 0 .. Len(b) /\ Len(c) = Len(b) - m
        /\ Len(x) = Len(b) + Len(r) /\ Len(b) \in Nat /\ Len(r) \in Nat
        /\ Len(c) \in Nat
    BY DEF IsRest, IsJoined
  <1>2. m \in 0 .. Len(x)
    BY <1>1
  <1>3. IsRest(y, x, m)
    BY <1>2, SuffixIsRest
  <1> HIDE DEF y
  <1>4. y \in Seq(Nat) /\ Len(y) = Len(c) + Len(r)
    BY <1>1, <1>3 DEF IsRest
  <1>5. ASSUME NEW i \in 1 .. Len(c) PROVE y[i] = c[i]
    <2>1. i \in 1 .. Len(y) /\ m + i \in 1 .. Len(b)
      BY <1>1, <1>4
    <2>2. y[i] = x[m + i] /\ c[i] = b[m + i]
      BY <1>3, <2>1 DEF IsRest
    <2> DEFINE l == m + i
    <2> HIDE DEF l
    <2>3. l \in 1 .. Len(b) /\ y[i] = x[l] /\ c[i] = b[l]
      BY <2>1, <2>2 DEF l
    <2> QED
      BY <2>3 DEF IsJoined
  <1>6. ASSUME NEW i \in 1 .. Len(r) PROVE y[Len(c) + i] = r[i]
    <2> DEFINE l == Len(c) + i
    <2>1. l \in 1 .. Len(y) /\ m + l = Len(b) + i
      BY <1>1, <1>4
    <2> HIDE DEF l
    <2>2. y[l] = x[Len(b) + i]
      BY <1>3, <2>1 DEF IsRest
    <2>3. x[Len(b) + i] = r[i]
      BY DEF IsJoined
    <2> QED
      BY <2>2, <2>3 DEF l
  <1> QED
    BY <1>3, <1>4, <1>5, <1>6 DEF IsJoined

\* What is passed over before a look has nothing of a frame that is to be found.
Passed(buffer) ==
  IF Starts(buffer) = {} THEN Len(buffer) ELSE Min(Starts(buffer)) - 1

LEMMA NothingBeginsInIt ==
  ASSUME NEW x \in Seq(Nat), NEW b \in Seq(Nat), NEW r \in Seq(Nat), IsJoined(x, b, r)
  PROVE  /\ Passed(b) \in 0 .. Len(b)
         /\ \A i \in Positions : HeadsAt(x, i) => i > Passed(b)
  <1>1. /\ Passed(b) \in 0 .. Len(b) /\ Len(b) \in Nat
        /\ \A i \in 1 .. Len(b) : i <= Passed(b) => i \notin Starts(b)
    <2>1. CASE Starts(b) = {}
      BY <2>1 DEF Passed
    <2>2. CASE Starts(b) # {}
      <3> DEFINE m == Min(Starts(b))
      <3>1. m \in 1 .. Len(b) /\ (\A i \in Starts(b) : m <= i) /\ Passed(b) = m - 1
        BY <2>2, StartsAreThere DEF Passed
      <3> HIDE DEF m
      <3> QED
        BY <3>1
    <2> QED
      BY <2>1, <2>2
  <1>2. ASSUME NEW i \in Positions, HeadsAt(x, i), ~(i > Passed(b)) PROVE FALSE
    <2>1. i \in 1 .. Len(b) /\ i <= Passed(b) /\ i \in Nat
      BY <1>1, <1>2 DEF Positions
    <2>2. x[i] = SOH /\ b[i] = SOH
      BY <1>2, <2>1, FrontHeads DEF HeadsAt
    <2>3. i + 4 <= Len(b) => IsHeader(b, i)
      BY <1>2, FrontHeads DEF HeadsAt
    <2>4. i \in Starts(b)
      BY <1>1, <2>1, <2>2, <2>3 DEF Starts
    <2> QED
      BY <1>1, <2>1, <2>4
  <1> QED
    BY <1>1, <1>2

\* What a look takes of a stream: nothing that is to be found, a frame that
\* never ends, or the first frame there is.
LooksAtNothing(one, x, m) ==
  /\ one.found = <<>> /\ NoFrame(one.scanner.buffer)
  /\ \A i, e \in Positions : IsFrame(x, i, e) => i > m
LooksAtCut(one, x, m) ==
  /\ \E t : one.found = <<t>> /\ t.truncated
  /\ ~AllEnd(x)
  /\ \A i, e \in Positions : IsFrame(x, i, e) => i > m
LooksAtFrame(one, x, m) ==
  \E first \in Positions :
    /\ \E t : one.found = <<t>> /\ ~t.truncated /\ t.raw = SubSeq(x, first, m)
    /\ IsFrame(x, first, m)
    /\ \A i, e \in Positions : IsFrame(x, i, e) => i = first \/ i > m
LooksAt(one, x, m) ==
  LooksAtNothing(one, x, m) \/ LooksAtCut(one, x, m) \/ LooksAtFrame(one, x, m)

LEMMA BuildsFrom ==
  ASSUME NEW s, NEW n, NEW truncated \in BOOLEAN
  PROVE  /\ Build(s, n, truncated).scanner.buffer = SubSeq(s.buffer, n + 1, Len(s.buffer))
         /\ \E t : /\ Build(s, n, truncated).found = <<t>> /\ t.truncated = truncated
                   /\ t.raw = SubSeq(s.buffer, 1, n)
  <1> DEFINE t == [raw |-> SubSeq(s.buffer, 1, n), truncated |-> truncated,
                   complaints |->
                     (IF s.nulls < ExpectedNulls THEN {"nulls"} ELSE {})
                     \cup (IF s.junk > 0 THEN {"junk"} ELSE {})
                     \cup (IF s.buffer[2] # Header[2] THEN {"sign type"} ELSE {})
                     \cup (IF truncated THEN {"no EOT"} ELSE {})]
             left == [Empty EXCEPT !.buffer = SubSeq(s.buffer, n + 1, Len(s.buffer))]
  <1>1. Build(s, n, truncated) = [scanner |-> left, found |-> <<t>>]
    BY Zenon DEF Build
  <1>2. left.buffer = SubSeq(s.buffer, n + 1, Len(s.buffer))
    BY DEF Empty
  <1>3. t.truncated = truncated /\ t.raw = SubSeq(s.buffer, 1, n)
    OBVIOUS
  <1> HIDE DEF t, left
  <1>4. Build(s, n, truncated).scanner = left /\ Build(s, n, truncated).found = <<t>>
    BY <1>1
  <1> QED
    BY <1>2, <1>3, <1>4

\* A look from a header on.
LEMMA ReadLooksAt ==
  ASSUME NEW s \in Scanners, HeadsAt(s.buffer, 1),
         NEW r \in Seq(Nat), NEW x \in Seq(Nat), IsJoined(x, s.buffer, r),
         HeadersApart(x), FramesShort(x)
  PROVE  \E m \in 0 .. Len(s.buffer) :
           /\ LooksAt(ReadFrame(s), x, m)
           /\ IsRest(ReadFrame(s).scanner.buffer, s.buffer, m)
  <1> DEFINE one == ReadFrame(s)
             b == s.buffer
  <1>1. b \in Seq(Nat) /\ Len(b) \in Nat
    BY DEF Scanners
  <1>2. \A i \in Positions : i \in Nat /\ i > 0
    BY DEF Positions
  <1>3. ASSUME TakesNothing(s, one)
        PROVE  \E m \in 0 .. Len(b) : LooksAt(one, x, m) /\ IsRest(one.scanner.buffer, b, m)
    <2>1. one.scanner = s /\ one.found = <<>> /\ NoFrame(b)
      BY <1>3 DEF TakesNothing, Waits
    <2>2. IsRest(one.scanner.buffer, b, 0)
      <3>1. 0 \in 0 .. Len(b) /\ Len(b) = Len(b) - 0 /\ \A i \in 1 .. Len(b) : b[i] = b[0 + i]
        BY <1>1
      <3> HIDE DEF one, b
      <3>2. one.scanner.buffer = b
        BY <2>1 DEF b
      <3> QED
        BY <1>1, <3>1, <3>2 DEF IsRest
    <2>3. LooksAtNothing(one, x, 0)
      BY <1>2, <2>1 DEF LooksAtNothing
    <2>4. 0 \in 0 .. Len(b)
      BY <1>1
    <2> QED
      BY <2>2, <2>3, <2>4 DEF LooksAt
  <1>4. ASSUME NEW n \in 5 .. Len(b), TakesCut(s, one, x, n)
        PROVE  LooksAt(one, x, n) /\ IsRest(one.scanner.buffer, b, n) /\ n \in 0 .. Len(b)
    <2>1. n \in 0 .. Len(b)
      BY <1>1
    <2>2. one = Build(s, n, TRUE) /\ ~AllEnd(x)
          /\ \A i, e \in Positions : IsFrame(x, i, e) => i > n
      BY <1>4 DEF TakesCut
    <2>3. IsRest(SubSeq(b, n + 1, Len(b)), b, n)
      BY <1>1, <2>1, SuffixIsRest
    <2>4. /\ one.scanner.buffer = SubSeq(b, n + 1, Len(b))
          /\ \E t : one.found = <<t>> /\ t.truncated = TRUE /\ t.raw = SubSeq(b, 1, n)
      <3> HIDE DEF one
      <3>1. /\ Build(s, n, TRUE).scanner.buffer = SubSeq(b, n + 1, Len(b))
            /\ \E t : /\ Build(s, n, TRUE).found = <<t>> /\ t.truncated = TRUE
                      /\ t.raw = SubSeq(b, 1, n)
        BY BuildsFrom
      <3> QED
        BY <2>2, <3>1
    <2> HIDE DEF one, b
    <2>5. LooksAtCut(one, x, n)
      BY <2>2, <2>4 DEF LooksAtCut
    <2> QED
      BY <2>1, <2>3, <2>4, <2>5 DEF LooksAt
  <1>5. ASSUME NEW n \in 6 .. Len(b), TakesFrame(s, one, x, n)
        PROVE  LooksAt(one, x, n) /\ IsRest(one.scanner.buffer, b, n) /\ n \in 0 .. Len(b)
    <2>1. n \in 0 .. Len(b) /\ n \in 1 .. Len(b) /\ n \in Nat
      BY <1>1
    <2>2. one = Build(s, n, FALSE) /\ IsFrame(x, 1, n)
          /\ \A i, e \in Positions : IsFrame(x, i, e) => i = 1 \/ i > n
      BY <1>5 DEF TakesFrame
    <2>3. IsRest(SubSeq(b, n + 1, Len(b)), b, n)
      BY <1>1, <2>1, SuffixIsRest
    <2>4. /\ one.scanner.buffer = SubSeq(b, n + 1, Len(b))
          /\ \E t : one.found = <<t>> /\ t.truncated = FALSE /\ t.raw = SubSeq(b, 1, n)
      <3> HIDE DEF one
      <3>1. /\ Build(s, n, FALSE).scanner.buffer = SubSeq(b, n + 1, Len(b))
            /\ \E t : /\ Build(s, n, FALSE).found = <<t>> /\ t.truncated = FALSE
                      /\ t.raw = SubSeq(b, 1, n)
        BY BuildsFrom
      <3> QED
        BY <2>2, <3>1
    <2>5. SubSeq(b, 1, n) = SubSeq(x, 1, n)
      <3>1. 0 + Len(b) <= Len(x) /\ \A i \in 1 .. Len(b) : b[i] = x[0 + i]
        <4>1. \A i \in 1 .. Len(b) : 0 + i = i
          BY <1>1
        <4>2. Len(x) = Len(b) + Len(r) /\ Len(r) \in Nat /\ \A i \in 1 .. Len(b) : x[i] = b[i]
          BY DEF IsJoined
        <4> HIDE DEF b
        <4> QED
          BY <1>1, <4>1, <4>2
      <3>2. 1 \in Positions /\ 0 \in Nat /\ n \in 1 .. Len(b) /\ 0 + 1 = 1 /\ 0 + n = n
        BY <2>1 DEF Positions
      <3> HIDE DEF b
      <3>3. SubSeq(b, 1, n) = SubSeq(x, 0 + 1, 0 + n)
        BY <1>1, <3>1, <3>2, SamePart
      <3> QED
        BY <3>2, <3>3
    <2> HIDE DEF one, b
    <2>6. 1 \in Positions
      BY DEF Positions
    <2>7. \E t : one.found = <<t>> /\ ~t.truncated /\ t.raw = SubSeq(x, 1, n)
      BY <2>4, <2>5
    <2>8. LooksAtFrame(one, x, n)
      BY <2>2, <2>6, <2>7 DEF LooksAtFrame
    <2> QED
      BY <2>1, <2>3, <2>4, <2>8 DEF LooksAt
  <1>6. \/ TakesNothing(s, one)
        \/ \E n \in 5 .. Len(b) : TakesCut(s, one, x, n)
        \/ \E n \in 6 .. Len(b) : TakesFrame(s, one, x, n)
    BY ReadFrameTakes
  <1> HIDE DEF one
  <1>7. \E m \in 0 .. Len(b) : LooksAt(one, x, m) /\ IsRest(one.scanner.buffer, b, m)
    <2> HIDE DEF b
    <2>1. CASE TakesNothing(s, one)
      BY <1>3, <2>1
    <2>2. CASE \E n \in 5 .. Len(b) : TakesCut(s, one, x, n)
      BY <1>4, <2>2
    <2>3. CASE \E n \in 6 .. Len(b) : TakesFrame(s, one, x, n)
      BY <1>5, <2>3
    <2> QED
      BY <1>6, <2>1, <2>2, <2>3
  <1> QED
    BY <1>7 DEF one

\* What is taken of the rest is taken of the stream.
LEMMA LooksFromTheRest ==
  ASSUME NEW x \in Seq(Nat), NEW y, NEW n, IsRest(y, x, n), NEW m \in 0 .. Len(y), NEW one,
         LooksAt(one, y, m), \A i \in Positions : HeadsAt(x, i) => i > n
  PROVE  LooksAt(one, x, n + m)
  <1>1. /\ y \in Seq(Nat) /\ n \in 0 .. Len(x) /\ Len(y) = Len(x) - n
        /\ \A i \in 1 .. Len(y) : y[i] = x[n + i]
    BY DEF IsRest
  <1>2. \A i \in Positions : i \in Nat /\ i > 0 /\ n + i \in Positions
    BY <1>1 DEF Positions
  <1>3. n \in Nat /\ m \in Nat
    BY <1>1
  <1>4. \A i, e \in Positions : IsFrame(y, i, e) <=> IsFrame(x, n + i, n + e)
    BY <1>1, RestFrames
  <1>5. ASSUME NEW i \in Positions, NEW e \in Positions, IsFrame(x, i, e)
        PROVE  \E j, f \in Positions : n + j = i /\ n + f = e /\ IsFrame(y, j, f)
    <2>1. i > n /\ e \in i + 5 .. Len(x)
      BY <1>5 DEF IsFrame
    <2>2. i - n \in Positions /\ e - n \in Positions /\ n + (i - n) = i /\ n + (e - n) = e
      BY <1>2, <1>3, <2>1 DEF Positions
    <2> DEFINE j == i - n
               f == e - n
    <2> HIDE DEF j, f
    <2>3. j \in Positions /\ f \in Positions /\ n + j = i /\ n + f = e
      BY <2>2 DEF j, f
    <2>4. IsFrame(y, j, f)
      BY <1>4, <1>5, <2>3
    <2> QED
      BY <2>3, <2>4
  <1>6. ASSUME \A i, e \in Positions : IsFrame(y, i, e) => i > m
        PROVE  \A i, e \in Positions : IsFrame(x, i, e) => i > n + m
    <2> TAKE i, e \in Positions
    <2> SUFFICES ASSUME IsFrame(x, i, e) PROVE i > n + m
      OBVIOUS
    <2>1. PICK j \in Positions : \E f \in Positions : n + j = i /\ IsFrame(y, j, f)
      BY <1>5
    <2> QED
      BY <1>2, <1>3, <1>6, <2>1
  <1>7. CASE LooksAtNothing(one, y, m)
    <2>1. LooksAtNothing(one, x, n + m)
      BY <1>6, <1>7 DEF LooksAtNothing
    <2> QED
      BY <2>1 DEF LooksAt
  <1>8. CASE LooksAtCut(one, y, m)
    <2>1. ~AllEnd(x)
      BY <1>1, <1>8, RestIsFine DEF LooksAtCut
    <2>2. LooksAtCut(one, x, n + m)
      BY <1>6, <1>8, <2>1 DEF LooksAtCut
    <2> QED
      BY <2>2 DEF LooksAt
  <1>9. CASE LooksAtFrame(one, y, m)
    <2>1. PICK first \in Positions :
             /\ \E t : one.found = <<t>> /\ ~t.truncated /\ t.raw = SubSeq(y, first, m)
             /\ IsFrame(y, first, m)
             /\ \A i, e \in Positions : IsFrame(y, i, e) => i = first \/ i > m
      BY <1>9 DEF LooksAtFrame
    <2>2. m \in Positions /\ m \in first .. Len(y)
      BY <1>2, <1>3, <2>1 DEF IsFrame, Positions
    <2> DEFINE at == n + first
    <2>3. at \in Positions /\ IsFrame(x, at, n + m)
      BY <1>2, <1>4, <2>1, <2>2
    <2>4. SubSeq(y, first, m) = SubSeq(x, at, n + m)
      BY <1>1, <2>2, RestPart
    <2>5. \A i, e \in Positions : IsFrame(x, i, e) => i = at \/ i > n + m
      <3> TAKE i, e \in Positions
      <3> SUFFICES ASSUME IsFrame(x, i, e) PROVE i = at \/ i > n + m
        OBVIOUS
      <3>1. PICK j \in Positions : \E f \in Positions : n + j = i /\ IsFrame(y, j, f)
        BY <1>5
      <3>2. j = first \/ j > m
        BY <2>1, <3>1
      <3> QED
        BY <1>2, <1>3, <3>1, <3>2
    <2> HIDE DEF at
    <2>6. LooksAtFrame(one, x, n + m)
      BY <2>1, <2>3, <2>4, <2>5 DEF LooksAtFrame
    <2> QED
      BY <2>6 DEF LooksAt
  <1> QED
    BY <1>7, <1>8, <1>9 DEF LooksAt

\* A look at what has been read takes of the stream what it should.
LEMMA TakeOneTakes ==
  ASSUME NEW s \in Scanners,
         NEW r \in Seq(Nat), NEW x \in Seq(Nat), IsJoined(x, s.buffer, r),
         HeadersApart(x), FramesShort(x)
  PROVE  \E m \in 0 .. Len(s.buffer) :
           /\ LooksAt(TakeOne(s), x, m)
           /\ IsRest(TakeOne(s).scanner.buffer, s.buffer, m)
  <1> DEFINE b == s.buffer
             n == Passed(s.buffer)
             at == Absorb(s, Passed(s.buffer))
             one == TakeOne(s)
  <1>1. b \in Seq(Nat) /\ Len(b) \in Nat
    BY DEF Scanners
  <1>2. n \in 0 .. Len(b) /\ \A i \in Positions : HeadsAt(x, i) => i > n
    BY <1>1, NothingBeginsInIt
  <1>3. one = IF Len(at.buffer) < Len(Header) THEN Waits(at) ELSE ReadFrame(at)
    BY DEF TakeOne, Passed
  <1>4. at \in Scanners /\ IsRest(at.buffer, b, n)
    <2>1. at \in Scanners /\ at.buffer = SubSeq(b, n + 1, Len(b))
      BY <1>2, AbsorbTyped
    <2>2. IsRest(SubSeq(b, n + 1, Len(b)), b, n)
      BY <1>1, <1>2, SuffixIsRest
    <2> QED
      BY <2>1, <2>2
  <1>5. Len(at.buffer) >= 5 => HeadsAt(at.buffer, 1)
    <2>1. CASE Starts(b) = {}
      <3>1. n = Len(b)
        BY <2>1 DEF Passed
      <3> HIDE DEF at, b, n
      <3>2. Len(at.buffer) = 0
        BY <1>1, <1>4, <3>1 DEF IsRest
      <3> QED
        BY <3>2
    <2>2. CASE Starts(b) # {}
      <3> DEFINE k == Min(Starts(b))
      <3>1. k \in 1 .. Len(b) /\ k \in Starts(b) /\ n = k - 1
        BY <1>1, <2>2, StartsAreThere DEF Passed
      <3>2. b[k] = SOH /\ (IsHeader(b, k) \/ k + 4 > Len(b))
        BY <3>1 DEF Starts
      <3> HIDE DEF at, b, n, k
      <3>3. /\ Len(at.buffer) = Len(b) - n /\ at.buffer \in Seq(Nat)
            /\ \A i \in 1 .. Len(at.buffer) : at.buffer[i] = b[n + i]
        BY <1>4 DEF IsRest
      <3>4. ASSUME Len(at.buffer) >= 5 PROVE HeadsAt(at.buffer, 1)
        <4>1. /\ 1 \in 1 .. Len(at.buffer) /\ 5 \in 1 .. Len(at.buffer) /\ 1 + 4 = 5
              /\ n + 1 = k /\ n + 5 = k + 4 /\ ~(k + 4 > Len(b))
          BY <1>1, <3>1, <3>3, <3>4
        <4>2. at.buffer[1] = b[k] /\ at.buffer[5] = b[k + 4]
          <5>1. at.buffer[1] = b[n + 1]
            BY <3>3, <4>1
          <5>2. at.buffer[5] = b[n + 5]
            BY <3>3, <4>1
          <5> QED
            BY <4>1, <5>1, <5>2
        <4>3. at.buffer[1] = SOH /\ at.buffer[5] = STX
          BY <3>2, <4>1, <4>2 DEF IsHeader
        <4> QED
          BY <3>4, <4>1, <4>3 DEF HeadsAt, IsHeader
      <3> QED
        BY <3>4
    <2> QED
      BY <2>1, <2>2
  <1>6. PICK y \in Seq(Nat) : IsRest(y, x, n) /\ IsJoined(y, at.buffer, r)
    BY <1>1, <1>4, RestIsJoined
  <1>7. HeadersApart(y) /\ FramesShort(y)
    BY <1>6, RestIsFine DEF IsRest
  <1>8. \E m \in 0 .. Len(at.buffer) :
          LooksAt(one, y, m) /\ IsRest(one.scanner.buffer, at.buffer, m)
    <2> HIDE DEF b, n, at, one
    <2>1. at.buffer \in Seq(Nat) /\ Len(at.buffer) \in Nat
      BY <1>4 DEF Scanners
    <2>2. CASE Len(at.buffer) < 5
      <3>1. one = Waits(at)
        BY <1>3, <2>2, HeaderIsFive
      <3>2. one.found = <<>> /\ one.scanner = at
        BY <3>1 DEF Waits
      <3>3. \A i, e \in Positions : IsFrame(y, i, e) => i > 0
        BY DEF Positions
      <3>4. NoFrame(at.buffer)
        <4>1. \A i, e \in Positions : ~(e \in i + 5 .. Len(at.buffer))
          BY <2>1, <2>2 DEF Positions
        <4> QED
          BY <4>1 DEF NoFrame, IsFrame
      <3>5. LooksAtNothing(one, y, 0)
        BY <3>2, <3>3, <3>4 DEF LooksAtNothing
      <3>6. 0 \in 0 .. Len(at.buffer) /\ IsRest(at.buffer, at.buffer, 0)
        <4>1. /\ 0 \in 0 .. Len(at.buffer) /\ Len(at.buffer) = Len(at.buffer) - 0
              /\ \A i \in 1 .. Len(at.buffer) : 0 + i = i
          BY <2>1
        <4> QED
          BY <2>1, <4>1 DEF IsRest
      <3> QED
        BY <3>2, <3>5, <3>6 DEF LooksAt
    <2>3. CASE Len(at.buffer) >= 5
      <3>1. one = ReadFrame(at) /\ HeadsAt(at.buffer, 1)
        BY <1>3, <1>5, <2>1, <2>3, HeaderIsFive
      <3> QED
        BY <1>4, <1>6, <1>7, <3>1, ReadLooksAt
    <2> QED
      BY <2>1, <2>2, <2>3
  <1>9. PICK m \in 0 .. Len(at.buffer) :
           LooksAt(one, y, m) /\ IsRest(one.scanner.buffer, at.buffer, m)
    BY <1>8
  <1> HIDE DEF b, n, at, one
  <1>10. IsRest(one.scanner.buffer, b, n + m)
    BY <1>1, <1>4, <1>9, RestOfRest
  <1>11. m \in 0 .. Len(y)
    <2>1. Len(y) = Len(at.buffer) + Len(r) /\ Len(r) \in Nat /\ at.buffer \in Seq(Nat)
      BY <1>4, <1>6 DEF IsJoined, Scanners
    <2>2. Len(at.buffer) \in Nat
      BY <2>1
    <2> QED
      BY <2>1, <2>2
  <1>12. LooksAt(one, x, n + m)
    BY <1>2, <1>6, <1>9, <1>11, LooksFromTheRest
  <1>13. n + m \in 0 .. Len(b)
    BY <1>10 DEF IsRest
  <1> QED
    BY <1>10, <1>12, <1>13 DEF b, one

-----------------------------------------------------------------------------
(* All that a read makes of a stream.                                      *)
LEMMA WholeOf ==
  ASSUME NEW S, NEW f \in Seq(S)
  PROVE  /\ Whole(f) \in Seq(S) /\ Whole(f \o <<>>) = Whole(f) /\ Whole(<<>>) = <<>>
         /\ \A t \in S : Whole(f \o <<t>>) =
              IF t.truncated THEN Whole(f) ELSE Append(Whole(f), t)
  <1>1. Whole(f) \in Seq(S) /\ Whole(f \o <<>>) = Whole(f)
    <2>1. f \o <<>> = f
      BY ConcatEmptySeq
    <2> QED
      BY <2>1, ChosenAreThere DEF Whole
  <1>2. Whole(<<>>) = <<>>
    <2>1. Whole(<<>>) \in Seq({})
      BY ChosenAreThere, EmptySeq DEF Whole
    <2> HIDE DEF Whole
    <2> QED
      BY <2>1
  <1>3. ASSUME NEW t \in S
        PROVE  Whole(f \o <<t>>) = IF t.truncated THEN Whole(f) ELSE Append(Whole(f), t)
    <2> DEFINE N == Len(f)
               h == f \o <<t>>
               places == {i \in DOMAIN f : ~f[i].truncated}
               more == {i \in DOMAIN h : ~h[i].truncated}
    <2>1. /\ h \in Seq(S) /\ N \in Nat /\ Len(h) = N + 1 /\ h[N + 1] = t
          /\ \A i \in 1 .. N : h[i] = f[i]
      OBVIOUS
    <2>2. /\ Whole(f) = Chosen(f, places) /\ Whole(h) = Chosen(h, more)
          /\ DOMAIN f = 1 .. N /\ DOMAIN h = 1 .. N + 1
      BY <2>1 DEF Whole
    <2> HIDE DEF h, N
    <2>3. /\ \A i \in 1 .. N : i \in places <=> i \in more
          /\ N + 1 \in more <=> ~t.truncated
      <3>1. \A i \in 1 .. N : i \in 1 .. N + 1
        BY <2>1
      <3>2. N + 1 \in 1 .. N + 1
        BY <2>1
      <3> QED
        BY <2>1, <2>2, <3>1, <3>2
    <2> HIDE DEF places, more
    <2>4. PICK g : Chooses(f, places, g) /\ Chosen(f, places) = g[Len(f)]
      BY ChosenIs
    <2>5. PICK k : Chooses(h, more, k) /\ Chosen(h, more) = k[Len(h)]
      BY <2>1, ChosenIs
    <2>6. /\ g[0] = <<>>
          /\ \A n \in 1 .. N : g[n] = IF n \in places THEN Append(g[n - 1], f[n]) ELSE g[n - 1]
      <3>1. \A n \in 0 .. N : g[n] = IF n = 0 THEN <<>>
                                     ELSE IF n \in places THEN Append(g[n - 1], f[n])
                                     ELSE g[n - 1]
        BY <2>4 DEF Chooses, N
      <3>2. 0 \in 0 .. N /\ \A n \in 1 .. N : n \in 0 .. N /\ n # 0
        BY <2>1
      <3> QED
        BY <3>1, <3>2
    <2>7. /\ k[0] = <<>>
          /\ \A n \in 1 .. N + 1 : k[n] = IF n \in more THEN Append(k[n - 1], h[n]) ELSE k[n - 1]
      <3>1. \A n \in 0 .. N + 1 : k[n] = IF n = 0 THEN <<>>
                                     ELSE IF n \in more THEN Append(k[n - 1], h[n])
                                     ELSE k[n - 1]
        BY <2>1, <2>5 DEF Chooses
      <3>2. 0 \in 0 .. N + 1 /\ \A n \in 1 .. N + 1 : n \in 0 .. N + 1 /\ n # 0
        BY <2>1
      <3> QED
        BY <3>1, <3>2
    <2> DEFINE T == {n \in 0 .. N : g[n] = k[n]}
    <2>8. 0 .. N \subseteq T
      <3>1. 0 \in T
        BY <2>1, <2>6, <2>7
      <3>2. ASSUME NEW n \in 1 .. N, n - 1 \in T PROVE n \in T
        <4>1. n \in 0 .. N /\ n \in 1 .. N + 1
          BY <2>1
        <4>2. g[n - 1] = k[n - 1]
          BY <3>2
        <4>3. h[n] = f[n] /\ (n \in places <=> n \in more)
          BY <2>1, <2>3
        <4>4. g[n] = k[n]
          BY <2>6, <2>7, <4>1, <4>2, <4>3
        <4> QED
          BY <4>1, <4>4
      <3> HIDE DEF T
      <3> QED
        BY <2>1, <3>1, <3>2, IntervalInduction
    <2>9. g[N] = k[N]
      BY <2>1, <2>8
    <2>10. k[N + 1] = IF t.truncated THEN g[N] ELSE Append(g[N], t)
      <3>1. N + 1 \in 1 .. N + 1 /\ N + 1 - 1 = N
        BY <2>1
      <3> QED
        BY <2>1, <2>3, <2>7, <2>9, <3>1
    <2>11. Whole(h) = IF t.truncated THEN Whole(f) ELSE Append(Whole(f), t)
      BY <2>1, <2>2, <2>4, <2>5, <2>10 DEF N
    <2> QED
      BY <2>11 DEF h
  <1> QED
    BY <1>1, <1>2, <1>3

\* What is left of what was due, after one more.
LEMMA OneLess ==
  ASSUME NEW S, NEW d \in Seq(S), NEW n \in Nat, n <= Len(d)
  PROVE  LET q == SubSeq(d, 1 + n, Len(d))
         IN /\ q \in Seq(S) /\ Len(q) = Len(d) - n
            /\ Len(q) >= 1 => /\ q[1] = d[n + 1] /\ n + 1 <= Len(d)
                              /\ SubSeq(q, 2, Len(q)) = SubSeq(d, 1 + (n + 1), Len(d))
  <1> DEFINE q == SubSeq(d, 1 + n, Len(d))
  <1>1. Len(d) \in 0 .. Len(d) /\ Len(d) \in Nat /\ n + 1 = 1 + n
    OBVIOUS
  <1>2. /\ q \in Seq(S) /\ Len(q) = Len(d) - n
        /\ \A i \in 1 .. Len(q) : q[i] = d[n + i]
    <2>1. LET p == SubSeq(d, n + 1, Len(d))
          IN /\ p \in Seq(S)
             /\ Len(p) = IF n <= Len(d) THEN Len(d) - n ELSE 0
             /\ \A i \in 1 .. Len(p) : p[i] = d[n + i]
      BY <1>1, Part, Zenon
    <2>2. q = SubSeq(d, n + 1, Len(d))
      BY <1>1
    <2> HIDE DEF q
    <2> QED
      BY <2>1, <2>2
  <1> HIDE DEF q
  <1>3. ASSUME Len(q) >= 1
        PROVE  /\ q[1] = d[n + 1] /\ n + 1 <= Len(d)
               /\ SubSeq(q, 2, Len(q)) = SubSeq(d, 1 + (n + 1), Len(d))
    <2>1. 1 \in 1 .. Len(q) /\ n + 1 \in Nat /\ n + 1 <= Len(d) /\ Len(q) \in Nat
      BY <1>1, <1>2, <1>3
    <2> DEFINE u == SubSeq(q, 1 + 1, Len(q))
               v == SubSeq(d, (n + 1) + 1, Len(d))
    <2>2. /\ u \in Seq(S) /\ Len(u) = Len(q) - 1
          /\ \A i \in 1 .. Len(u) : u[i] = q[1 + i]
      <3>1. Len(q) \in 0 .. Len(q) /\ 1 \in Nat /\ 1 <= Len(q)
        BY <2>1
      <3>2. LET p == SubSeq(q, 1 + 1, Len(q))
            IN /\ p \in Seq(S)
               /\ Len(p) = IF 1 <= Len(q) THEN Len(q) - 1 ELSE 0
               /\ \A i \in 1 .. Len(p) : p[i] = q[1 + i]
        BY <1>2, <3>1, Part
      <3> QED
        BY <3>1, <3>2
    <2>3. /\ v \in Seq(S) /\ Len(v) = Len(d) - (n + 1)
          /\ \A i \in 1 .. Len(v) : v[i] = d[(n + 1) + i]
      <3>1. LET p == SubSeq(d, (n + 1) + 1, Len(d))
            IN /\ p \in Seq(S)
               /\ Len(p) = IF n + 1 <= Len(d) THEN Len(d) - (n + 1) ELSE 0
               /\ \A i \in 1 .. Len(p) : p[i] = d[(n + 1) + i]
        BY <1>1, <2>1, Part, Zenon
      <3> QED
        BY <2>1, <3>1, Zenon
    <2>4. 1 + 1 = 2 /\ (n + 1) + 1 = 1 + (n + 1)
      OBVIOUS
    <2> HIDE DEF u, v
    <2>5. Len(u) = Len(v) /\ Len(u) \in Nat
      BY <1>1, <1>2, <2>1, <2>2, <2>3
    <2>6. ASSUME NEW i \in 1 .. Len(u) PROVE u[i] = v[i]
      <3> DEFINE l == 1 + i
      <3>1. l \in 1 .. Len(q) /\ n + l = (n + 1) + i
        BY <2>1, <2>2, <2>5
      <3> HIDE DEF l
      <3>2. u[i] = q[l]
        BY <2>2 DEF l
      <3>3. q[l] = d[n + l]
        BY <1>2, <3>1
      <3>4. v[i] = d[(n + 1) + i]
        BY <2>3, <2>5
      <3> QED
        BY <3>1, <3>2, <3>3, <3>4
    <2>7. u = v
      BY <2>2, <2>3, <2>5, <2>6, SMTT(30)
    <2> QED
      BY <1>2, <2>1, <2>4, <2>7 DEF u, v
  <1> QED
    BY <1>2, <1>3 DEF q

\* So far whole transmissions are the first of what was due, and the rest is to
\* be found in what is left of the stream, of which r has not been read.
Delivers(d, so, y) ==
  /\ Len(Whole(so.found)) <= Len(d)
  /\ \A i \in 1 .. Len(Whole(so.found)) : Whole(so.found)[i].raw = d[i]
  /\ Stand(SubSeq(d, 1 + Len(Whole(so.found)), Len(d)), y)
NoneTruncated(found) == \A i \in 1 .. Len(found) : ~found[i].truncated
Hands(so, x, r, y) ==
  /\ y \in Seq(Nat) /\ IsJoined(y, so.scanner.buffer, r)
  /\ HeadersApart(y) /\ FramesShort(y)
  /\ AllEnd(x) => AllEnd(y) /\ NoneTruncated(so.found)
  /\ \A d \in Seq(Seq(Nat)) : Stand(d, x) => Delivers(d, so, y)

LEMMA BothFound ==
  ASSUME NEW S, NEW s \in Seq(S), NEW t \in Seq(S)
  PROVE  /\ Len(s \o t) = Len(s) + Len(t) /\ Len(s) \in Nat /\ Len(t) \in Nat
         /\ \A j \in 1 .. Len(s \o t) :
              (s \o t)[j] = IF j <= Len(s) THEN s[j] ELSE t[j - Len(s)]
  BY ConcatProperties

LEMMA LookReads ==
  ASSUME NEW so \in Results, NEW x \in Seq(Nat), NEW r \in Seq(Nat), NEW y, Hands(so, x, r, y)
  PROVE  \E z : Hands(Look(so), x, r, z)
  <1> DEFINE one == TakeOne(so.scanner)
             b == so.scanner.buffer
             then == Look(so)
  <1>1. so.scanner \in Scanners /\ so.found \in Seq(Transmissions) /\ b \in Seq(Nat)
    BY DEF Results, Scanners
  <1>2. y \in Seq(Nat) /\ IsJoined(y, b, r) /\ HeadersApart(y) /\ FramesShort(y)
    BY DEF Hands
  <1>3. PICK m \in 0 .. Len(b) : LooksAt(one, y, m) /\ IsRest(one.scanner.buffer, b, m)
    BY <1>1, <1>2, TakeOneTakes
  <1>4. one.found \in Seq(Transmissions)
    BY <1>1, TakeOneTyped DEF Results
  <1>5. then.scanner = one.scanner /\ then.found = so.found \o one.found
    BY DEF Look
  <1> HIDE DEF one, b, then
  <1>6. PICK z \in Seq(Nat) : IsRest(z, y, m) /\ IsJoined(z, one.scanner.buffer, r)
    BY <1>1, <1>2, <1>3, RestIsJoined
  <1>7. /\ HeadersApart(z) /\ FramesShort(z) /\ (AllEnd(y) => AllEnd(z))
        /\ m \in 0 .. Len(y) /\ Len(z) = Len(y) - m /\ \A i \in 1 .. Len(z) : z[i] = y[m + i]
    <2>1. m \in 0 .. Len(y) /\ Len(z) = Len(y) - m /\ \A i \in 1 .. Len(z) : z[i] = y[m + i]
      BY <1>6 DEF IsRest
    <2> QED
      BY <1>2, <2>1, RestIsFine
  <1>8. ASSUME AllEnd(x) PROVE AllEnd(z) /\ NoneTruncated(then.found)
    <2>1. AllEnd(y) /\ NoneTruncated(so.found)
      BY <1>8 DEF Hands
    <2>2. \A i \in 1 .. Len(one.found) : ~one.found[i].truncated
      <3>1. CASE LooksAtNothing(one, y, m)
        BY <3>1 DEF LooksAtNothing
      <3>2. CASE LooksAtFrame(one, y, m)
        BY <3>2 DEF LooksAtFrame
      <3>3. ~LooksAtCut(one, y, m)
        BY <2>1 DEF LooksAtCut
      <3> QED
        BY <1>3, <3>1, <3>2, <3>3 DEF LooksAt
    <2>3. NoneTruncated(then.found)
      <3> SUFFICES ASSUME NEW i \in 1 .. Len(so.found \o one.found)
                   PROVE  ~(so.found \o one.found)[i].truncated
        BY <1>5 DEF NoneTruncated
      <3> DEFINE N == Len(so.found)
                 M == Len(one.found)
                 both == so.found \o one.found
      <3>1. /\ Len(both) = N + M /\ N \in Nat /\ M \in Nat
            /\ \A j \in 1 .. Len(both) : both[j] = IF j <= N THEN so.found[j]
                                                   ELSE one.found[j - N]
        BY <1>1, <1>4, BothFound
      <3> HIDE DEF both
      <3>2. i \in 1 .. Len(both)
        BY DEF both
      <3>3. CASE i <= N
        <4>1. i \in 1 .. N
          BY <3>1, <3>2, <3>3
        <4> QED
          BY <2>1, <3>1, <3>2, <3>3, <4>1 DEF NoneTruncated, both
      <3>4. CASE ~(i <= N)
        <4>1. i - N \in 1 .. M
          <5>1. i \in 1 .. N + M /\ N \in Nat /\ M \in Nat
            BY <3>1, <3>2
          <5> HIDE DEF N, M
          <5> QED
            BY <3>4, <5>1
        <4> QED
          BY <2>2, <3>1, <3>2, <3>4, <4>1 DEF both
      <3> QED
        BY <3>3, <3>4
    <2> QED
      BY <1>7, <2>1, <2>3
  <1>9. ASSUME NEW d \in Seq(Seq(Nat)), Stand(d, x) PROVE Delivers(d, then, z)
    <2> DEFINE w == Whole(so.found)
               n == Len(Whole(so.found))
               left == SubSeq(d, 1 + n, Len(d))
    <2>1. /\ n <= Len(d) /\ \A i \in 1 .. n : w[i].raw = d[i]
          /\ Stand(left, y)
      BY <1>9 DEF Hands, Delivers
    <2>2. w \in Seq(Transmissions) /\ n \in Nat /\ n = Len(w)
      BY <1>1, WholeOf
    <2>3. /\ left \in Seq(Seq(Nat)) /\ Len(left) = Len(d) - n
          /\ Len(left) >= 1 => /\ left[1] = d[n + 1] /\ n + 1 <= Len(d)
                               /\ SubSeq(left, 2, Len(left)) = SubSeq(d, 1 + (n + 1), Len(d))
      <3> HIDE DEF w, n
      <3> QED
        BY <2>1, <2>2, OneLess
    <2> HIDE DEF w, n, left
    <2>4. ASSUME Whole(then.found) = w, \A i, e \in Positions : IsFrame(y, i, e) => i > m
          PROVE  Delivers(d, then, z)
      <3>1. Stand(left, z)
        BY <1>2, <1>7, <2>1, <2>3, <2>4, NoneBegun
      <3> QED
        BY <2>1, <2>2, <2>4, <3>1 DEF Delivers, left
    <2>5. CASE LooksAtNothing(one, y, m)
      <3>1. then.found = so.found \o <<>> /\ \A i, e \in Positions : IsFrame(y, i, e) => i > m
        BY <1>5, <2>5 DEF LooksAtNothing
      <3>2. Whole(then.found) = w
        BY <1>1, <3>1, WholeOf DEF w
      <3> QED
        BY <2>4, <3>1, <3>2
    <2>6. CASE LooksAtCut(one, y, m)
      <3>1. PICK t : one.found = <<t>> /\ t.truncated
        BY <2>6 DEF LooksAtCut
      <3>2. t \in Transmissions
        BY <1>4, <3>1
      <3>3. Whole(then.found) = w
        BY <1>1, <1>5, <3>1, <3>2, WholeOf DEF w
      <3> QED
        BY <2>4, <2>6, <3>3 DEF LooksAtCut
    <2>7. CASE LooksAtFrame(one, y, m)
      <3>1. PICK first \in Positions :
              /\ \E t : one.found = <<t>> /\ ~t.truncated /\ t.raw = SubSeq(y, first, m)
              /\ IsFrame(y, first, m)
              /\ \A i, e \in Positions : IsFrame(y, i, e) => i = first \/ i > m
        BY <2>7 DEF LooksAtFrame
      <3>2. PICK t : one.found = <<t>> /\ ~t.truncated /\ t.raw = SubSeq(y, first, m)
        BY <3>1
      <3>3. t \in Transmissions
        BY <1>4, <3>2
      <3>4. Whole(then.found) = Append(w, t)
        BY <1>1, <1>5, <3>2, <3>3, WholeOf DEF w
      <3>5. /\ Len(left) >= 1 /\ left[1] = SubSeq(y, first, m)
            /\ Stand(SubSeq(left, 2, Len(left)), z)
        <4>1. left \in Seq(Seq(Nat)) /\ Stand(left, y)
          BY <2>1, <2>3
        <4>2. first \in Positions /\ IsFrame(y, first, m)
              /\ \A i, e \in Positions : IsFrame(y, i, e) => i = first \/ i > m
          BY <3>1
        <4>3. /\ y \in Seq(Nat) /\ z \in Seq(Nat) /\ m \in 0 .. Len(y)
              /\ Len(z) = Len(y) - m /\ \A i \in 1 .. Len(z) : z[i] = y[m + i]
          BY <1>2, <1>6, <1>7
        <4> QED
          BY <4>1, <4>2, <4>3, FirstTaken, ZenonT(60)
      <3> DEFINE q == Append(w, t)
      <3>6. /\ Len(q) = n + 1 /\ q[n + 1] = t /\ \A i \in 1 .. n : q[i] = w[i]
        BY <2>2, <3>3, AppendProperties
      <3> HIDE DEF q
      <3>7. \A i \in 1 .. Len(q) : q[i].raw = d[i]
        <4> TAKE i \in 1 .. Len(q)
        <4>1. i \in 1 .. n \/ i = n + 1
          <5>1. i \in 1 .. n + 1 /\ n \in Nat
            BY <2>2, <3>6
          <5> QED
            BY <5>1
        <4>2. t.raw = d[n + 1]
          BY <2>3, <3>2, <3>5
        <4> QED
          BY <2>1, <3>6, <4>1, <4>2
      <3>8. Stand(SubSeq(d, 1 + Len(q), Len(d)), z) /\ Len(q) <= Len(d)
        BY <2>3, <3>5, <3>6
      <3>9. Whole(then.found) = q
        BY <3>4 DEF q
      <3> QED
        BY <3>7, <3>8, <3>9 DEF Delivers
    <2> QED
      BY <1>3, <2>5, <2>6, <2>7 DEF LooksAt
  <1>10. Hands(then, x, r, z)
    BY <1>5, <1>6, <1>7, <1>8, <1>9 DEF Hands
  <1> QED
    BY <1>10 DEF then

-----------------------------------------------------------------------------
(* Reading, look after look.                                               *)
LEMMA ConcatIsJoined ==
  ASSUME NEW b \in Seq(Nat), NEW r \in Seq(Nat)
  PROVE  /\ b \o r \in Seq(Nat) /\ IsJoined(b \o r, b, r)
         /\ \A y \in Seq(Nat) : IsJoined(y, b, r) => y = b \o r
  <1> DEFINE x == b \o r
  <1>1. /\ x \in Seq(Nat) /\ Len(x) = Len(b) + Len(r) /\ Len(b) \in Nat /\ Len(r) \in Nat
        /\ \A i \in 1 .. Len(x) : x[i] = IF i <= Len(b) THEN b[i] ELSE r[i - Len(b)]
    BY ConcatProperties
  <1> HIDE DEF x
  <1>2. \A i \in 1 .. Len(b) : i \in 1 .. Len(x) /\ i <= Len(b)
    BY <1>1
  <1>3. \A i \in 1 .. Len(r) : /\ Len(b) + i \in 1 .. Len(x) /\ ~(Len(b) + i <= Len(b))
                               /\ (Len(b) + i) - Len(b) = i
    BY <1>1
  <1>4. IsJoined(x, b, r)
    <2>1. \A i \in 1 .. Len(b) : x[i] = b[i]
      BY <1>1, <1>2
    <2>2. ASSUME NEW i \in 1 .. Len(r) PROVE x[Len(b) + i] = r[i]
      <3> DEFINE l == Len(b) + i
      <3>1. l \in 1 .. Len(x) /\ ~(l <= Len(b)) /\ l - Len(b) = i
        BY <1>3
      <3> HIDE DEF l
      <3>2. x[l] = r[i]
        BY <1>1, <3>1
      <3> QED
        BY <3>2 DEF l
    <2> QED
      BY <1>1, <2>1, <2>2 DEF IsJoined
  <1>5. ASSUME NEW y \in Seq(Nat), IsJoined(y, b, r) PROVE y = x
    <2>1. Len(y) = Len(x)
      BY <1>1, <1>5 DEF IsJoined
    <2>2. ASSUME NEW i \in 1 .. Len(x) PROVE y[i] = x[i]
      <3>1. CASE i <= Len(b)
        <4>1. i \in 1 .. Len(b)
          BY <1>1, <3>1
        <4> QED
          BY <1>4, <1>5, <4>1 DEF IsJoined
      <3>2. CASE ~(i <= Len(b))
        <4> DEFINE l == i - Len(b)
        <4>1. l \in 1 .. Len(r) /\ Len(b) + l = i
          BY <1>1, <3>2
        <4> HIDE DEF l
        <4>2. y[Len(b) + l] = r[l] /\ x[Len(b) + l] = r[l]
          BY <1>4, <1>5, <4>1 DEF IsJoined
        <4> QED
          BY <4>1, <4>2
      <3> QED
        BY <3>1, <3>2
    <2>3. \A p, q \in Seq(Nat) : Len(p) = Len(q) /\ (\A i \in 1 .. Len(q) : p[i] = q[i]) => p = q
      BY SeqEqual
    <2> QED
      BY <1>1, <2>1, <2>2, <2>3
  <1> QED
    BY <1>1, <1>4, <1>5 DEF x

LEMMA ScanReads ==
  ASSUME NEW s \in Scanners, NEW r \in Seq(Nat), NEW x \in Seq(Nat),
         IsJoined(x, s.buffer, r), HeadersApart(x), FramesShort(x)
  PROVE  \E y : Hands(Scan(s), x, r, y)
  <1> DEFINE N == 1 + Len(s.buffer) \div Len(Header)
  <1>1. N \in Nat /\ N \in 0 .. N
    <2>1. Len(s.buffer) \in Nat
      BY DEF Scanners
    <2> QED
      BY <2>1, LooksAreEnough
  <1>2. PICK g : Looks(s, g) /\ Scan(s) = g[N]
    BY ScanIs, Zenon
  <1> HIDE DEF N
  <1>3. g[0] = Waits(s) /\ \A n \in 1 .. N : g[n] = Look(g[n - 1])
    <2>1. \A n \in 0 .. N : g[n] = IF n = 0 THEN Waits(s) ELSE Look(g[n - 1])
      BY <1>2 DEF Looks, N
    <2>2. 0 \in 0 .. N /\ \A n \in 1 .. N : n \in 0 .. N /\ n # 0
      BY <1>1
    <2> QED
      BY <2>1, <2>2
  <1> DEFINE Fine(q) == q \in Results /\ \E y : Hands(q, x, r, y)
             T == {n \in 0 .. N : Fine(g[n])}
  <1>4. Fine(Waits(s))
    <2>1. Waits(s) \in Results /\ Waits(s).found = <<>> /\ Waits(s).scanner = s
      BY EmptySeq DEF Waits, Results
    <2>2. NoneTruncated(Waits(s).found)
      BY <2>1 DEF NoneTruncated
    <2>3. ASSUME NEW d \in Seq(Seq(Nat)), Stand(d, x) PROVE Delivers(d, Waits(s), x)
      <3>1. Whole(Waits(s).found) = <<>>
        BY <2>1, EmptySeq, WholeOf
      <3>2. /\ Len(Whole(Waits(s).found)) = 0 /\ Len(d) \in Nat /\ 1 + 0 = 1
            /\ SubSeq(d, 1, Len(d)) = d
        BY <3>1
      <3>3. \A i \in 1 .. 0 : FALSE
        OBVIOUS
      <3> QED
        <4> DEFINE w == Whole(Waits(s).found)
        <4>1. 0 <= Len(d) /\ SubSeq(d, 1 + 0, Len(d)) = d /\ Len(w) = 0
          BY <3>2
        <4> HIDE DEF w
        <4>2. Len(w) <= Len(d) /\ Stand(SubSeq(d, 1 + Len(w), Len(d)), x)
          BY <2>3, <4>1
        <4>3. \A i \in 1 .. Len(w) : w[i].raw = d[i]
          BY <3>3, <4>1
        <4> QED
          BY <4>2, <4>3 DEF Delivers, w
    <2>4. Hands(Waits(s), x, r, x)
      BY <2>1, <2>2, <2>3 DEF Hands
    <2> QED
      BY <2>1, <2>4
  <1>5. ASSUME NEW n \in 1 .. N, n - 1 \in T PROVE n \in T
    <2>1. n \in 0 .. N
      BY <1>1
    <2>2. Fine(g[n - 1]) /\ g[n] = Look(g[n - 1])
      BY <1>3, <1>5
    <2>3. ASSUME NEW q, Fine(q) PROVE Fine(Look(q))
      BY <2>3, LookTyped, LookReads
    <2> HIDE DEF Fine
    <2> QED
      BY <2>1, <2>2, <2>3
  <1>6. 0 .. N \subseteq T
    <2>1. 0 \in T
      <3> HIDE DEF Fine
      <3> QED
        BY <1>1, <1>3, <1>4
    <2> HIDE DEF T
    <2> QED
      BY <1>1, <1>5, <2>1, IntervalInduction
  <1> QED
    BY <1>1, <1>2, <1>6

\* What is fed to a scanner is found as it was sent, and nothing is held back.
LEMMA FeedReads ==
  ASSUME NEW s \in Scanners, NEW data \in Seq(Nat), NEW r \in Seq(Nat), NEW x \in Seq(Nat),
         IsJoined(x, s.buffer \o data, r), HeadersApart(x), FramesShort(x)
  PROVE  LET fed == Feed(s, data)
         IN /\ Hands(fed, x, r, fed.scanner.buffer \o r)
            /\ NoFrame(fed.scanner.buffer)
  <1> DEFINE more == [s EXCEPT !.buffer = @ \o data]
             fed == Feed(s, data)
  <1>1. more \in Scanners /\ more.buffer = s.buffer \o data
    <2>1. s.buffer \o data \in Seq(Nat)
      BY ConcatProperties DEF Scanners
    <2> QED
      BY <2>1 DEF Scanners
  <1>2. fed = Scan(more) /\ fed \in Results /\ Quiet(fed.scanner)
    BY FeedTyped DEF Feed
  <1> HIDE DEF more, fed
  <1>3. PICK y : Hands(fed, x, r, y)
    BY <1>1, <1>2, ScanReads
  <1>4. fed.scanner \in Scanners /\ fed.scanner.buffer \in Seq(Nat)
    BY <1>2 DEF Results, Scanners
  <1>5. /\ y \in Seq(Nat) /\ IsJoined(y, fed.scanner.buffer, r)
        /\ HeadersApart(y) /\ FramesShort(y)
    BY <1>3 DEF Hands
  <1>6. y = fed.scanner.buffer \o r
    BY <1>4, <1>5, ConcatIsJoined
  <1>7. NoFrame(fed.scanner.buffer)
    <2> DEFINE one == TakeOne(fed.scanner)
    <2>1. one.found = <<>> /\ one.scanner = fed.scanner
      BY <1>2 DEF Quiet, Waits
    <2>2. \E m : LooksAt(one, y, m)
      BY <1>4, <1>5, TakeOneTakes
    <2> HIDE DEF one
    <2>3. PICK m : LooksAt(one, y, m)
      BY <2>2
    <2>4. ~LooksAtCut(one, y, m) /\ ~LooksAtFrame(one, y, m)
      <3>1. \A t : one.found # <<t>>
        BY <2>1
      <3> QED
        BY <3>1 DEF LooksAtCut, LooksAtFrame
    <2> QED
      BY <2>1, <2>3, <2>4 DEF LooksAt, LooksAtNothing
  <1> QED
    BY <1>3, <1>6, <1>7 DEF fed

-----------------------------------------------------------------------------
(* Every stream, from what its scanner has to what is in flight.           *)
StreamOK(x, d, broken, lost) ==
  /\ HeadersApart(x) /\ FramesShort(x)
  /\ ~broken => AllEnd(x)
  /\ IF lost THEN d = <<>> ELSE Stand(d, x)
StreamInv ==
  \A k \in Sockets :
    /\ StreamOK(scanner[k].buffer \o flight[k], due[k], cut[k], lossy[k])
    /\ NoFrame(scanner[k].buffer)
    /\ Attached(k) /\ paused => lossy[k]
ReadOK == WholeFramesAreFound /\ NoTruncationIsInvented

LEMMA NothingFoundIsRead == last' = NothingFound => ReadOK'
  <1> SUFFICES ASSUME last' = NothingFound PROVE ReadOK'
    OBVIOUS
  <1>1. last'.found = <<>> /\ last'.due = <<>>
    BY DEF NothingFound
  <1>2. NoTruncationIsInvented'
    BY <1>1 DEF NoTruncationIsInvented
  <1>3. Whole(<<>>) = <<>>
    <2>1. <<>> \in Seq({})
      BY EmptySeq
    <2> QED
      BY <2>1, WholeOf
  <1>4. WholeFramesAreFound'
    <2> DEFINE raws(w) == [i \in DOMAIN w |-> w[i].raw]
    <2>1. raws(<<>>) = <<>>
      OBVIOUS
    <2>2. IsPrefix(<<>>, <<>>)
      BY DEF IsPrefix
    <2>3. IsPrefix(raws(Whole(<<>>)), <<>>)
      <3> HIDE DEF raws
      <3> QED
        BY <1>3, <2>1, <2>2
    <2> QED
      BY <1>1, <2>3 DEF WholeFramesAreFound
  <1> QED
    BY <1>2, <1>4 DEF ReadOK

\* On a connection that carries nothing, nothing is due.
LEMMA NothingStands ==
  /\ HeadersApart(<<>>) /\ FramesShort(<<>>) /\ AllEnd(<<>>) /\ NoFrame(<<>>)
  /\ Stand(<<>>, <<>>)
  /\ <<>> \o <<>> = <<>>
  /\ \A broken, lost \in BOOLEAN : StreamOK(<<>>, <<>>, broken, lost)
  <1>1. \A i \in Positions : ~HeadsAt(<<>>, i)
    BY DEF HeadsAt, Positions
  <1>2. HeadersApart(<<>>) /\ FramesShort(<<>>) /\ AllEnd(<<>>) /\ NoFrame(<<>>)
    BY <1>1 DEF HeadersApart, FramesShort, AllEnd, NoFrame, IsFrame
  <1>3. Stand(<<>>, <<>>)
    <2> DEFINE at == [j \in 1 .. 0 |-> 1]
    <2>1. Len(<<>>) = 0 /\ \A j \in 1 .. 0 : FALSE
      OBVIOUS
    <2>2. at \in [1 .. 0 -> Positions]
      BY <2>1
    <2> HIDE DEF at
    <2>3. StandAt(<<>>, <<>>, at, at)
      <3>1. \A i, e \in Positions : ~IsFrame(<<>>, i, e)
        BY <1>2 DEF NoFrame
      <3> QED
        BY <2>1, <2>2, <3>1 DEF StandAt
    <2> QED
      BY <2>3 DEF Stand
  <1> QED
    BY <1>2, <1>3 DEF StreamOK

LEMMA StreamInit == Init => StreamInv /\ ReadOK
  <1> SUFFICES ASSUME Init PROVE StreamInv /\ ReadOK
    OBVIOUS
  <1>1. StreamInv
    <2> SUFFICES ASSUME NEW k \in Sockets
                 PROVE  /\ StreamOK(scanner[k].buffer \o flight[k], due[k], cut[k], lossy[k])
                        /\ NoFrame(scanner[k].buffer)
                        /\ Attached(k) /\ paused => lossy[k]
      BY DEF StreamInv
    <2>1. /\ scanner[k].buffer = <<>> /\ flight[k] = <<>> /\ due[k] = <<>>
          /\ cut[k] = FALSE /\ lossy[k] = FALSE /\ ~paused
      BY DEF Init, NoScanner
    <2> QED
      BY <2>1, NothingStands
  <1>2. ReadOK
    <2>1. last.found = <<>> /\ last.due = <<>>
      BY DEF Init, NothingFound
    <2>2. NoTruncationIsInvented
      BY <2>1 DEF NoTruncationIsInvented
    <2>3. Whole(<<>>) = <<>>
      <3>1. <<>> \in Seq({})
        BY EmptySeq
      <3> QED
        BY <3>1, WholeOf
    <2> DEFINE raws(w) == [i \in DOMAIN w |-> w[i].raw]
    <2>4. raws(<<>>) = <<>>
      OBVIOUS
    <2>5. IsPrefix(<<>>, <<>>)
      BY DEF IsPrefix
    <2>6. IsPrefix(raws(Whole(<<>>)), <<>>)
      <3> HIDE DEF raws
      <3> QED
        BY <2>3, <2>4, <2>5
    <2>7. WholeFramesAreFound
      BY <2>1, <2>6 DEF WholeFramesAreFound
    <2> QED
      BY <2>2, <2>7 DEF ReadOK
  <1> QED
    BY <1>1, <1>2

LEMMA JoinsAlike ==
  \A s, t, u \in Seq(Nat) : (s \o t) \o u = s \o (t \o u)
  <1>1. SUFFICES ASSUME NEW s \in Seq(Nat), NEW t \in Seq(Nat), NEW u \in Seq(Nat)
                 PROVE  (s \o t) \o u = s \o (t \o u)
    OBVIOUS
  <1> QED
    BY SMTT(30)

\* What is sent goes behind what has been sent.
LEMMA MoreIsSent ==
  ASSUME NEW b \in Seq(Nat), NEW f \in Seq(Nat), NEW w \in Seq(Nat)
  PROVE  /\ b \o f \in Seq(Nat) /\ b \o (f \o w) \in Seq(Nat)
         /\ IsJoined(b \o (f \o w), b \o f, w)
  <1>1. b \o f \in Seq(Nat) /\ b \o (f \o w) = (b \o f) \o w /\ (b \o f) \o w \in Seq(Nat)
    <2>1. b \o f \in Seq(Nat)
      BY ConcatProperties
    <2>2. (b \o f) \o w \in Seq(Nat)
      BY <2>1, ConcatProperties
    <2>3. (b \o f) \o w = b \o (f \o w)
      BY JoinsAlike
    <2> QED
      BY <2>1, <2>2, <2>3
  <1>2. IsJoined((b \o f) \o w, b \o f, w)
    BY <1>1, ConcatIsJoined
  <1> QED
    BY <1>1, <1>2

LEMMA SendStream ==
  ASSUME Inv, StreamInv, NEW k \in Sockets, NEW p \in Payloads, Send(k, p)
  PROVE  StreamInv'
  <1>1. /\ last' = NothingFound /\ UNCHANGED <<sign, paused, scanner>> /\ UNCHANGED cut
        /\ flight' = [flight EXCEPT ![k] = @ \o Packet(p)]
        /\ lossy' = [lossy EXCEPT ![k] = ~Clean(k)]
        /\ due' = IF Clean(k) THEN [due EXCEPT ![k] = Append(@, Header \o p \o <<EOT>>)]
                  ELSE due
        /\ Attached(k)
    BY DEF Send, Begins
  <1>2. ConnectionsOK
    BY DEF Inv
  <1> DEFINE b == scanner[k].buffer
             f == flight[k]
             w == Packet(p)
             h == WakeupNulls + 1
             frame == Header \o p \o <<EOT>>
             x == b \o f
             z == b \o (f \o w)
  <1>3. b \in Seq(Nat) /\ f \in Seq(Nat) /\ due[k] \in Seq(Seq(Nat))
    BY <1>1, <1>2 DEF ConnectionsOK, Attached, Scanners
  <1>4. /\ w \in Seq(Nat) /\ h \in Positions /\ IsSegment(w, h) /\ IsFrame(w, h, Len(w))
        /\ FramesShort(w) /\ SubSeq(w, h, Len(w)) = frame
    <2> HIDE DEF w, frame
    <2>1. LET v == Packet(p)
              o == WakeupNulls + 1
          IN /\ v \in Seq(Nat) /\ o \in Positions /\ IsSegment(v, o) /\ IsFrame(v, o, Len(v))
             /\ FramesShort(v)
             /\ SubSeq(v, o, Len(v)) = Header \o p \o <<EOT>>
      BY WholeSent
    <2> QED
      BY <2>1, Zenon DEF w, frame
  <1> HIDE DEF w, h, frame
  <1>5. x \in Seq(Nat) /\ z \in Seq(Nat) /\ IsJoined(z, x, w)
    BY <1>3, <1>4, MoreIsSent
  <1>6. StreamOK(x, due[k], cut[k], lossy[k])
    BY DEF StreamInv
  <1>7. HeadersApart(z) /\ FramesShort(z) /\ (~cut[k] => AllEnd(z))
    <2> HIDE DEF x, z
    <2> QED
      BY <1>4, <1>5, <1>6, JoinedIsFine DEF StreamOK
  <1>8. CASE Clean(k)
    <2>1. Stand(due[k], x)
      <3>1. CASE ~lossy[k]
        BY <1>6, <3>1 DEF StreamOK
      <3>2. CASE lossy[k]
        <4>1. f = <<>> /\ b = <<>> /\ due[k] = <<>>
          BY <1>6, <1>8, <3>2 DEF Clean, StreamOK
        <4> QED
          BY <4>1, NothingStands
      <3> QED
        BY <3>1, <3>2
    <2> HIDE DEF x, z
    <2>2. Stand(Append(due[k], frame), z)
      BY <1>3, <1>4, <1>5, <2>1, LastAdded
    <2>3. due'[k] = Append(due[k], frame) /\ lossy'[k] = FALSE
      BY <1>1, <1>2, <1>8 DEF ConnectionsOK, frame
    <2>4. StreamOK(z, due'[k], cut[k], lossy'[k])
      BY <1>7, <2>2, <2>3 DEF StreamOK
    <2>5. ~paused
      <3>1. lossy[k] => ~paused
        BY <1>8 DEF Clean
      <3>2. ~lossy[k] => ~paused
        BY <1>1 DEF StreamInv
      <3> QED
        BY <3>1, <3>2
    <2>6. ASSUME NEW j \in Sockets
          PROVE  (/\ StreamOK(scanner[j].buffer \o flight[j], due[j], cut[j], lossy[j])
                  /\ NoFrame(scanner[j].buffer)
                  /\ Attached(j) /\ paused => lossy[j])'
      <3>1. CASE j = k
        <4>1. flight'[k] = f \o w /\ scanner'[k].buffer = b /\ cut'[k] = cut[k] /\ ~paused'
          BY <1>1, <1>2, <2>5 DEF ConnectionsOK, w
        <4>2. NoFrame(b)
          BY DEF StreamInv
        <4> QED
          BY <2>4, <3>1, <4>1, <4>2 DEF z
      <3>2. CASE j # k
        <4>1. /\ flight'[j] = flight[j] /\ scanner'[j] = scanner[j] /\ due'[j] = due[j]
              /\ cut'[j] = cut[j] /\ lossy'[j] = lossy[j] /\ paused' = paused
          BY <1>1, <1>2, <1>8, <3>2 DEF ConnectionsOK
        <4> QED
          BY <4>1 DEF StreamInv, Attached
      <3> QED
        BY <3>1, <3>2
    <2> QED
      BY <2>6 DEF StreamInv
  <1>9. CASE ~Clean(k)
    <2>1. lossy[k] /\ lossy'[k] = TRUE /\ due' = due
      BY <1>1, <1>2, <1>9 DEF Clean, ConnectionsOK
    <2>2. StreamOK(z, due'[k], cut[k], lossy'[k])
      <3> HIDE DEF x, z
      <3> QED
        BY <1>6, <1>7, <2>1 DEF StreamOK
    <2>3. ASSUME NEW j \in Sockets
          PROVE  (/\ StreamOK(scanner[j].buffer \o flight[j], due[j], cut[j], lossy[j])
                  /\ NoFrame(scanner[j].buffer)
                  /\ Attached(j) /\ paused => lossy[j])'
      <3>1. CASE j = k
        <4>1. flight'[k] = f \o w /\ scanner'[k].buffer = b /\ cut'[k] = cut[k]
          BY <1>1, <1>2 DEF ConnectionsOK, w
        <4>2. NoFrame(b)
          BY DEF StreamInv
        <4> QED
          BY <2>1, <2>2, <3>1, <4>1, <4>2 DEF z
      <3>2. CASE j # k
        <4>1. /\ flight'[j] = flight[j] /\ scanner'[j] = scanner[j] /\ due'[j] = due[j]
              /\ cut'[j] = cut[j] /\ lossy'[j] = lossy[j] /\ paused' = paused
          BY <1>1, <1>2, <2>1, <3>2 DEF ConnectionsOK
        <4> QED
          BY <4>1 DEF StreamInv, Attached
      <3> QED
        BY <3>1, <3>2
    <2> QED
      BY <2>3 DEF StreamInv
  <1> QED
    BY <1>8, <1>9

LEMMA SendCutShortStream ==
  ASSUME Inv, StreamInv, NEW k \in Sockets, NEW p \in Breakable, SendCutShort(k, p)
  PROVE  StreamInv'
  <1>1. /\ UNCHANGED <<sign, paused, scanner>> /\ UNCHANGED <<due, lossy>>
        /\ cut' = [cut EXCEPT ![k] = TRUE] /\ Attached(k)
    BY DEF SendCutShort, Begins
  <1>2. PICK n \in 0 .. Len(p) :
          flight' = [flight EXCEPT ![k] =
                       @ \o SubSeq(Packet(p), 1, WakeupNulls + Len(Header) + n)]
    BY DEF SendCutShort
  <1>3. ConnectionsOK
    BY DEF Inv
  <1> DEFINE b == scanner[k].buffer
             f == flight[k]
             w == SubSeq(Packet(p), 1, WakeupNulls + Len(Header) + n)
             h == WakeupNulls + 1
             x == b \o f
             z == b \o (f \o w)
  <1>4. b \in Seq(Nat) /\ f \in Seq(Nat) /\ due[k] \in Seq(Seq(Nat))
    BY <1>1, <1>3 DEF ConnectionsOK, Attached, Scanners
  <1>5. w \in Seq(Nat) /\ h \in Positions /\ IsSegment(w, h) /\ NoFrame(w) /\ FramesShort(w)
    <2>1. LET v == SubSeq(Packet(p), 1, WakeupNulls + Len(Header) + n)
              o == WakeupNulls + 1
          IN v \in Seq(Nat) /\ o \in Positions /\ IsSegment(v, o) /\ NoFrame(v)
             /\ FramesShort(v)
      BY PartSent
    <2> QED
      BY <2>1, Zenon
  <1>6. flight' = [flight EXCEPT ![k] = f \o w]
    BY <1>2
  <1> HIDE DEF w, h
  <1>7. x \in Seq(Nat) /\ z \in Seq(Nat) /\ IsJoined(z, x, w)
    BY <1>4, <1>5, MoreIsSent
  <1>8. StreamOK(x, due[k], cut[k], lossy[k])
    BY DEF StreamInv
  <1>9. StreamOK(z, due[k], TRUE, lossy[k])
    <2> HIDE DEF x, z
    <2>1. HeadersApart(z) /\ FramesShort(z)
      BY <1>5, <1>7, <1>8, JoinedIsFine DEF StreamOK
    <2>2. ~lossy[k] => Stand(due[k], z)
      BY <1>4, <1>5, <1>7, <1>8, NothingAdded DEF StreamOK
    <2> QED
      BY <1>8, <2>1, <2>2 DEF StreamOK
  <1>10. ASSUME NEW j \in Sockets
         PROVE  (/\ StreamOK(scanner[j].buffer \o flight[j], due[j], cut[j], lossy[j])
                 /\ NoFrame(scanner[j].buffer)
                 /\ Attached(j) /\ paused => lossy[j])'
    <2>1. CASE j = k
      <3>1. /\ flight'[k] = f \o w /\ scanner'[k].buffer = b /\ cut'[k] = TRUE
            /\ due'[k] = due[k] /\ lossy'[k] = lossy[k]
        BY <1>1, <1>3, <1>6 DEF ConnectionsOK
      <3>2. NoFrame(b) /\ (paused => lossy[k])
        BY <1>1 DEF StreamInv
      <3>3. paused' = paused
        BY <1>1
      <3> QED
        BY <1>9, <2>1, <3>1, <3>2, <3>3 DEF z
    <2>2. CASE j # k
      <3>1. /\ flight'[j] = flight[j] /\ scanner'[j] = scanner[j] /\ due'[j] = due[j]
            /\ cut'[j] = cut[j] /\ lossy'[j] = lossy[j] /\ paused' = paused
        BY <1>1, <1>3, <1>6, <2>2 DEF ConnectionsOK
      <3> QED
        BY <3>1 DEF StreamInv, Attached
    <2> QED
      BY <2>1, <2>2
  <1> QED
    BY <1>10 DEF StreamInv

-----------------------------------------------------------------------------
\* A connection with nothing on it, and those an action does not touch.
LEMMA SocketsAreApart ==
  ASSUME StreamInv, NEW k, paused' = paused \/ paused' = FALSE,
         \A j \in Sockets \ {k} :
           /\ flight'[j] = flight[j] /\ scanner'[j] = scanner[j] /\ due'[j] = due[j]
           /\ cut'[j] = cut[j] /\ lossy'[j] = lossy[j],
         k \in Sockets =>
           /\ StreamOK(scanner'[k].buffer \o flight'[k], due'[k], cut'[k], lossy'[k])
           /\ NoFrame(scanner'[k].buffer)
           /\ Attached(k)' /\ paused' => lossy'[k]
  PROVE  StreamInv'
  <1> SUFFICES ASSUME NEW j \in Sockets
               PROVE  (/\ StreamOK(scanner[j].buffer \o flight[j], due[j], cut[j], lossy[j])
                       /\ NoFrame(scanner[j].buffer)
                       /\ Attached(j) /\ paused => lossy[j])'
    BY DEF StreamInv
  <1>1. CASE j = k
    BY <1>1
  <1>2. CASE j # k
    BY <1>2 DEF StreamInv, Attached
  <1> QED
    BY <1>1, <1>2

LEMMA AcceptStream ==
  ASSUME Inv, StreamInv, NEW k \in Sockets, Accept(k)
  PROVE  StreamInv'
  <1>1. /\ ~Attached(k) /\ scanner' = [scanner EXCEPT ![k] = Empty]
        /\ lossy' = [lossy EXCEPT ![k] = paused]
        /\ UNCHANGED <<sign, paused, flight, due, sent, cut>>
    BY DEF Accept
  <1>2. ConnectionsOK /\ paused \in BOOLEAN /\ flight[k] = <<>> /\ due[k] = <<>>
    BY <1>1 DEF Inv, SimulatorInv, TypeOK
  <1>3. scanner'[k].buffer = <<>> /\ lossy'[k] = paused /\ cut[k] \in BOOLEAN
    BY <1>1, <1>2 DEF ConnectionsOK, Empty
  <1>4. /\ StreamOK(scanner'[k].buffer \o flight'[k], due'[k], cut'[k], lossy'[k])
        /\ NoFrame(scanner'[k].buffer)
    BY <1>1, <1>2, <1>3, NothingStands
  <1>5. \A j \in Sockets \ {k} :
          /\ flight'[j] = flight[j] /\ scanner'[j] = scanner[j] /\ due'[j] = due[j]
          /\ cut'[j] = cut[j] /\ lossy'[j] = lossy[j]
    BY <1>1, <1>2 DEF ConnectionsOK
  <1> QED
    BY <1>1, <1>3, <1>4, <1>5, SocketsAreApart

LEMMA DropClientStream ==
  ASSUME Inv, StreamInv, NEW k \in Sockets, DropClient(k)
  PROVE  StreamInv'
  <1>1. /\ scanner' = [scanner EXCEPT ![k] = NoScanner]
        /\ flight' = [flight EXCEPT ![k] = <<>>] /\ due' = [due EXCEPT ![k] = <<>>]
        /\ cut' = [cut EXCEPT ![k] = FALSE] /\ lossy' = [lossy EXCEPT ![k] = FALSE]
        /\ UNCHANGED <<sign, paused, sent>>
    BY DEF DropClient
  <1>2. ConnectionsOK
    BY DEF Inv
  <1>3. /\ scanner'[k] = NoScanner /\ flight'[k] = <<>> /\ due'[k] = <<>>
        /\ cut'[k] = FALSE /\ lossy'[k] = FALSE
    BY <1>1, <1>2 DEF ConnectionsOK
  <1>4. scanner'[k].buffer = <<>> /\ ~Attached(k)'
    BY <1>3 DEF NoScanner, Attached
  <1>5. /\ StreamOK(scanner'[k].buffer \o flight'[k], due'[k], cut'[k], lossy'[k])
        /\ NoFrame(scanner'[k].buffer)
    BY <1>3, <1>4, NothingStands
  <1>6. \A j \in Sockets \ {k} :
          /\ flight'[j] = flight[j] /\ scanner'[j] = scanner[j] /\ due'[j] = due[j]
          /\ cut'[j] = cut[j] /\ lossy'[j] = lossy[j]
    BY <1>1, <1>2 DEF ConnectionsOK
  <1> QED
    BY <1>1, <1>4, <1>5, <1>6, SocketsAreApart

LEMMA DiscardStream ==
  ASSUME Inv, StreamInv, NEW k \in Sockets, Discard(k)
  PROVE  StreamInv'
  <1>1. /\ Attached(k) /\ paused /\ flight' = [flight EXCEPT ![k] = <<>>]
        /\ lossy' = [lossy EXCEPT ![k] = TRUE]
        /\ UNCHANGED <<sign, paused, scanner, due, sent, cut>>
    BY DEF Discard
  <1>2. ConnectionsOK /\ scanner[k] = Empty
    BY <1>1 DEF Inv, SimulatorInv, TypeOK
  <1>3. due[k] = <<>>
    BY <1>1 DEF StreamInv, StreamOK
  <1>4. /\ scanner'[k].buffer = <<>> /\ flight'[k] = <<>> /\ due'[k] = <<>>
        /\ lossy'[k] = TRUE /\ cut'[k] \in BOOLEAN
    BY <1>1, <1>2, <1>3 DEF ConnectionsOK, Empty
  <1>5. /\ StreamOK(scanner'[k].buffer \o flight'[k], due'[k], cut'[k], lossy'[k])
        /\ NoFrame(scanner'[k].buffer)
    BY <1>4, NothingStands
  <1>6. \A j \in Sockets \ {k} :
          /\ flight'[j] = flight[j] /\ scanner'[j] = scanner[j] /\ due'[j] = due[j]
          /\ cut'[j] = cut[j] /\ lossy'[j] = lossy[j]
    BY <1>1, <1>2 DEF ConnectionsOK
  <1> QED
    BY <1>1, <1>4, <1>5, <1>6, SocketsAreApart

LEMMA PauseStream ==
  ASSUME Inv, StreamInv, Pause
  PROVE  StreamInv'
  <1>1. /\ scanner' = [k \in Sockets |-> IF Attached(k) THEN Empty ELSE NoScanner]
        /\ lossy' = [k \in Sockets |-> Attached(k)] /\ due' = [k \in Sockets |-> <<>>]
        /\ UNCHANGED <<sign, flight, sent, cut>>
    BY DEF Pause
  <1>2. ConnectionsOK /\ TypeOK
    BY DEF Inv, SimulatorInv
  <1> SUFFICES ASSUME NEW k \in Sockets
               PROVE  (/\ StreamOK(scanner[k].buffer \o flight[k], due[k], cut[k], lossy[k])
                       /\ NoFrame(scanner[k].buffer)
                       /\ Attached(k) /\ paused => lossy[k])'
    BY DEF StreamInv
  <1>3. /\ scanner'[k] = (IF Attached(k) THEN Empty ELSE NoScanner)
        /\ lossy'[k] = Attached(k) /\ due'[k] = <<>> /\ flight'[k] = flight[k]
        /\ cut'[k] = cut[k]
    BY <1>1
  <1>4. scanner'[k].buffer = <<>> /\ NoFrame(scanner'[k].buffer)
    BY <1>3, NothingStands DEF Empty, NoScanner
  <1>5. Attached(k)' <=> Attached(k)
    BY <1>3, ScannersAreAttached DEF Attached
  <1>6. StreamOK(flight[k], <<>>, cut[k], Attached(k))
    <2>1. CASE ~Attached(k)
      <3>1. flight[k] = <<>> /\ cut[k] \in BOOLEAN
        BY <1>2, <2>1 DEF TypeOK, ConnectionsOK
      <3> QED
        BY <2>1, <3>1, NothingStands DEF StreamOK
    <2>2. CASE Attached(k)
      <3> DEFINE b == scanner[k].buffer
                 f == flight[k]
                 x == b \o f
      <3>1. b \in Seq(Nat) /\ f \in Seq(Nat)
        BY <1>2, <2>2 DEF ConnectionsOK, Attached, Scanners
      <3>2. x \in Seq(Nat) /\ IsJoined(x, b, f)
        BY <3>1, ConcatIsJoined
      <3>3. HeadersApart(x) /\ FramesShort(x) /\ (~cut[k] => AllEnd(x))
        BY DEF StreamInv, StreamOK
      <3> HIDE DEF x
      <3>4. /\ Len(b) \in 0 .. Len(x) /\ Len(f) = Len(x) - Len(b)
            /\ \A i \in 1 .. Len(f) : f[i] = x[Len(b) + i]
        <4> HIDE DEF b, f
        <4> QED
          BY <3>1, <3>2 DEF IsJoined
      <3>5. HeadersApart(f) /\ FramesShort(f) /\ (~cut[k] => AllEnd(f))
        <4> HIDE DEF b, f
        <4> QED
          BY <3>1, <3>2, <3>3, <3>4, RestIsFine
      <3> QED
        BY <2>2, <3>5 DEF StreamOK
    <2> QED
      BY <2>1, <2>2
  <1>7. scanner'[k].buffer \o flight'[k] = flight[k]
    <2>1. flight[k] \in Seq(Nat)
      BY <1>2 DEF ConnectionsOK
    <2> QED
      BY <1>3, <1>4, <2>1, ConcatEmptySeq
  <1>8. StreamOK(scanner'[k].buffer \o flight'[k], due'[k], cut'[k], lossy'[k])
    BY <1>3, <1>6, <1>7
  <1> QED
    BY <1>3, <1>4, <1>5, <1>8

LEMMA IsTheFront ==
  ASSUME NEW S, NEW s \in Seq(S), NEW t \in Seq(S), Len(s) <= Len(t),
         \A i \in 1 .. Len(s) : s[i] = t[i]
  PROVE  IsPrefix(s, t)
  <1> DEFINE u == SubSeq(s, 0 + 1, Len(s))
             v == SubSeq(t, 0 + 1, Len(s))
  <1>1. 0 \in Nat /\ Len(s) \in Nat /\ Len(s) \in 0 .. Len(s) /\ Len(s) \in 0 .. Len(t)
        /\ 0 <= Len(s) /\ Len(s) - 0 = Len(s)
    OBVIOUS
  <1>2. /\ u \in Seq(S) /\ Len(u) = Len(s) /\ \A i \in 1 .. Len(u) : u[i] = s[0 + i]
    <2>1. LET q == SubSeq(s, 0 + 1, Len(s))
          IN /\ q \in Seq(S)
             /\ Len(q) = IF 0 <= Len(s) THEN Len(s) - 0 ELSE 0
             /\ \A i \in 1 .. Len(q) : q[i] = s[0 + i]
      BY <1>1, Part
    <2> QED
      BY <1>1, <2>1
  <1>3. /\ v \in Seq(S) /\ Len(v) = Len(s) /\ \A i \in 1 .. Len(v) : v[i] = t[0 + i]
    <2>1. LET q == SubSeq(t, 0 + 1, Len(s))
          IN /\ q \in Seq(S)
             /\ Len(q) = IF 0 <= Len(s) THEN Len(s) - 0 ELSE 0
             /\ \A i \in 1 .. Len(q) : q[i] = t[0 + i]
      BY <1>1, Part
    <2> QED
      BY <1>1, <2>1
  <1>4. u = SubSeq(s, 1, Len(s)) /\ v = SubSeq(t, 1, Len(s))
    OBVIOUS
  <1> HIDE DEF u, v
  <1>5. \A i \in 1 .. Len(s) : 0 + i = i
    BY <1>1
  <1>6. u = v
    BY <1>2, <1>3, <1>5, SeqEqual
  <1> QED
    BY <1>4, <1>6 DEF IsPrefix

\* A read: what it finds was due, and what it leaves will be.
LEMMA ReadSomeStream ==
  ASSUME Inv, StreamInv, NEW k \in Sockets, ReadSome(k)
  PROVE  StreamInv' /\ ReadOK'
  <1>1. PICK n \in Readable(k) :
          LET fed == Feed(scanner[k], SubSeq(flight[k], 1, n))
              done == Applied(sign, fed.found)
              whole == Whole(fed.found)
          IN /\ scanner' = [scanner EXCEPT ![k] = fed.scanner]
             /\ flight' = [flight EXCEPT ![k] = SubSeq(@, n + 1, Len(@))]
             /\ sign' = done.sign
             /\ due' = [due EXCEPT ![k] = SubSeq(@, 1 + Len(whole), Len(@))]
             /\ last' = IF fed.found = <<>> THEN NothingFound
                        ELSE [found |-> fed.found, due |-> due[k], notes |-> done.notes,
                              before |-> sign, cut |-> cut[k], lossy |-> lossy[k]]
    BY DEF ReadSome
  <1>2. /\ Attached(k) /\ ~paused
        /\ UNCHANGED <<paused, sent, cut, lossy>>
    BY DEF ReadSome
  <1>3. ConnectionsOK
    BY DEF Inv
  <1> DEFINE b == scanner[k].buffer
             f == flight[k]
             d == due[k]
             data == SubSeq(flight[k], 1, n)
             rest == SubSeq(flight[k], n + 1, Len(flight[k]))
             fed == Feed(scanner[k], data)
             notes == Applied(sign, fed.found).notes
             owed == SubSeq(due[k], 1 + Len(Whole(fed.found)), Len(due[k]))
             x == scanner[k].buffer \o flight[k]
             y == fed.scanner.buffer \o rest
  <1>4. scanner[k] \in Scanners /\ b \in Seq(Nat) /\ f \in Seq(Nat) /\ d \in Seq(Seq(Nat))
    BY <1>2, <1>3 DEF ConnectionsOK, Attached, Scanners
  <1>5. n \in 0 .. Len(f) /\ n \in Nat
    BY <1>4 DEF Readable
  <1>6. data \in Seq(Nat) /\ rest \in Seq(Nat) /\ f = data \o rest
    <2>1. /\ data \in Seq(Nat) /\ Len(data) = n
          /\ \A i \in 1 .. Len(data) : data[i] = f[0 + i]
      <3>1. LET q == SubSeq(f, 0 + 1, n)
            IN /\ q \in Seq(Nat)
               /\ Len(q) = IF 0 <= n THEN n - 0 ELSE 0
               /\ \A i \in 1 .. Len(q) : q[i] = f[0 + i]
        BY <1>4, <1>5, Part
      <3>2. SubSeq(f, 0 + 1, n) = data /\ 0 <= n /\ n - 0 = n
        BY <1>5
      <3> HIDE DEF f, data
      <3> QED
        BY <3>1, <3>2
    <2>2. IsRest(rest, f, n)
      BY <1>4, <1>5, SuffixIsRest
    <2> HIDE DEF f, data, rest
    <2>3. /\ rest \in Seq(Nat) /\ Len(rest) = Len(f) - n /\ Len(f) \in Nat
          /\ \A i \in 1 .. Len(rest) : f[n + i] = rest[i]
      BY <1>4, <2>2 DEF IsRest
    <2>4. IsJoined(f, data, rest)
      <3>1. Len(f) = Len(data) + Len(rest)
        BY <1>5, <2>1, <2>3
      <3>2. \A i \in 1 .. Len(data) : 0 + i = i
        BY <1>5, <2>1
      <3> QED
        BY <2>1, <2>3, <3>1, <3>2 DEF IsJoined
    <2> QED
      BY <1>4, <2>1, <2>3, <2>4, ConcatIsJoined
  <1>7. StreamOK(x, d, cut[k], lossy[k])
    BY DEF StreamInv
  <1>8. x \in Seq(Nat) /\ IsJoined(x, b \o data, rest)
    <2> HIDE DEF b, f, data, rest
    <2>1. x = b \o (data \o rest)
      BY <1>6 DEF b, f
    <2>2. x = (b \o data) \o rest /\ b \o data \in Seq(Nat)
      <3>1. (b \o data) \o rest = b \o (data \o rest)
        BY <1>4, <1>6, JoinsAlike, SMTT(30)
      <3>2. b \o data \in Seq(Nat)
        BY <1>4, <1>6, ConcatProperties
      <3> QED
        BY <2>1, <3>1, <3>2
    <2> HIDE DEF x
    <2> QED
      BY <1>6, <2>2, ConcatIsJoined
  <1>9. Hands(fed, x, rest, y) /\ NoFrame(fed.scanner.buffer)
    <2>1. HeadersApart(x) /\ FramesShort(x)
      BY <1>7 DEF StreamOK
    <2> HIDE DEF f, data, rest, x
    <2> QED
      BY <1>4, <1>6, <1>8, <2>1, FeedReads
  <1>10. fed.found \in Seq(Transmissions)
    <2> HIDE DEF data
    <2> QED
      BY <1>4, <1>6, FeedTyped DEF Results
  <1>11. /\ scanner' = [scanner EXCEPT ![k] = fed.scanner]
         /\ flight' = [flight EXCEPT ![k] = rest]
         /\ due' = [due EXCEPT ![k] = owed]
         /\ last' = IF fed.found = <<>> THEN NothingFound
                    ELSE [found |-> fed.found, due |-> d, notes |-> notes,
                          before |-> sign, cut |-> cut[k], lossy |-> lossy[k]]
    BY <1>1
  <1> HIDE DEF data, fed, rest, notes, x, y, f, d, b
  <1>12. Whole(fed.found) \in Seq(Transmissions)
    BY <1>10, WholeOf
  <1>13. lossy[k] => owed = <<>>
    <2>1. lossy[k] => d = <<>>
      BY <1>7 DEF StreamOK
    <2> DEFINE w == Len(Whole(fed.found))
    <2>2. w \in Nat
      BY <1>12
    <2> HIDE DEF w
    <2>3. SubSeq(<<>>, 1 + w, Len(<<>>)) = <<>>
      BY <2>2
    <2> QED
      BY <2>1, <2>3 DEF w, d
  <1>14. ~lossy[k] => Delivers(d, fed, y)
    BY <1>4, <1>7, <1>9 DEF Hands, StreamOK
  <1>15. StreamOK(y, owed, cut[k], lossy[k])
    <2>1. HeadersApart(y) /\ FramesShort(y) /\ (~cut[k] => AllEnd(y))
      BY <1>7, <1>9 DEF Hands, StreamOK
    <2>2. ~lossy[k] => Stand(owed, y)
      BY <1>14 DEF Delivers, d
    <2> HIDE DEF owed
    <2> QED
      BY <1>13, <2>1, <2>2 DEF StreamOK
  <1> HIDE DEF owed
  <1>16. StreamInv'
    <2>1. /\ scanner'[k].buffer = fed.scanner.buffer /\ flight'[k] = rest
          /\ due'[k] = owed /\ cut'[k] = cut[k] /\ lossy'[k] = lossy[k] /\ ~paused'
      BY <1>2, <1>3, <1>11 DEF ConnectionsOK
    <2>2. /\ StreamOK(scanner'[k].buffer \o flight'[k], due'[k], cut'[k], lossy'[k])
          /\ NoFrame(scanner'[k].buffer)
      BY <1>9, <1>15, <2>1 DEF y
    <2>3. \A j \in Sockets \ {k} :
            /\ flight'[j] = flight[j] /\ scanner'[j] = scanner[j] /\ due'[j] = due[j]
            /\ cut'[j] = cut[j] /\ lossy'[j] = lossy[j]
      BY <1>2, <1>3, <1>11 DEF ConnectionsOK
    <2> QED
      BY <1>2, <2>1, <2>2, <2>3, SocketsAreApart
  <1>17. ReadOK'
    <2>1. CASE fed.found = <<>>
      BY <1>11, <2>1, NothingFoundIsRead
    <2>2. CASE fed.found # <<>>
      <3>1. /\ last'.found = fed.found /\ last'.due = d /\ last'.cut = cut[k]
            /\ last'.lossy = lossy[k]
        BY <1>11, <2>2
      <3>2. NoTruncationIsInvented'
        <4> SUFFICES ASSUME NEW i \in DOMAIN fed.found, fed.found[i].truncated, ~cut[k]
                     PROVE  FALSE
          BY <3>1 DEF NoTruncationIsInvented
        <4>1. NoneTruncated(fed.found) /\ i \in 1 .. Len(fed.found)
          BY <1>7, <1>9, <1>10 DEF Hands, StreamOK
        <4> QED
          BY <4>1 DEF NoneTruncated
      <3>3. WholeFramesAreFound'
        <4> DEFINE w == Whole(fed.found)
                   raws == [i \in DOMAIN w |-> w[i].raw]
        <4>1. ASSUME ~lossy[k] PROVE IsPrefix(raws, d)
          <5>1. Len(w) <= Len(d) /\ \A i \in 1 .. Len(w) : w[i].raw = d[i]
            BY <1>14, <4>1 DEF Delivers
          <5>2. w \in Seq(Transmissions)
            BY <1>12
          <5> HIDE DEF w
          <5>3. Len(w) \in Nat /\ DOMAIN w = 1 .. Len(w)
                /\ \A i \in 1 .. Len(w) : w[i].raw \in Seq(Nat)
            BY <5>2 DEF Transmissions
          <5>4. /\ raws \in Seq(Seq(Nat)) /\ Len(raws) = Len(w)
                /\ \A i \in 1 .. Len(w) : raws[i] = d[i]
            <6>1. raws \in [1 .. Len(w) -> Seq(Nat)]
              BY <5>3
            <6>2. \A i \in 1 .. Len(w) : raws[i] = w[i].raw
              BY <5>3
            <6> HIDE DEF raws
            <6> QED
              BY <5>1, <5>3, <6>1, <6>2
          <5> HIDE DEF raws
          <5> QED
            BY <1>4, <5>1, <5>3, <5>4, IsTheFront
        <4> HIDE DEF w, raws
        <4>2. (~last.lossy)' => IsPrefix(raws, last'.due)
          BY <3>1, <4>1
        <4> QED
          BY <3>1, <4>2 DEF WholeFramesAreFound, w, raws
      <3> QED
        BY <3>2, <3>3 DEF ReadOK
    <2> QED
      BY <2>1, <2>2
  <1> QED
    BY <1>16, <1>17

-----------------------------------------------------------------------------
LEMMA StreamNext == Inv /\ StreamInv /\ ReadOK /\ [Next]_vars => StreamInv' /\ ReadOK'
  <1> SUFFICES ASSUME Inv, StreamInv, ReadOK, [Next]_vars PROVE StreamInv' /\ ReadOK'
    OBVIOUS
  <1>1. ASSUME NEW k \in Sockets, NEW p \in Payloads, Send(k, p)
        PROVE  StreamInv' /\ ReadOK'
    <2>1. last' = NothingFound
      BY <1>1 DEF Send, Begins
    <2> QED
      BY <1>1, <2>1, SendStream, NothingFoundIsRead
  <1>2. ASSUME NEW k \in Sockets, NEW p \in Breakable, SendCutShort(k, p)
        PROVE  StreamInv' /\ ReadOK'
    <2>1. last' = NothingFound
      BY <1>2 DEF SendCutShort, Begins
    <2> QED
      BY <1>2, <2>1, SendCutShortStream, NothingFoundIsRead
  <1>3. ASSUME NEW k \in Sockets, Accept(k) PROVE StreamInv' /\ ReadOK'
    <2>1. last' = NothingFound
      BY <1>3 DEF Accept
    <2> QED
      BY <1>3, <2>1, AcceptStream, NothingFoundIsRead
  <1>4. ASSUME NEW k \in Sockets, DropClient(k) PROVE StreamInv' /\ ReadOK'
    <2>1. last' = NothingFound
      BY <1>4 DEF DropClient
    <2> QED
      BY <1>4, <2>1, DropClientStream, NothingFoundIsRead
  <1>5. ASSUME NEW k \in Sockets, ReadSome(k) PROVE StreamInv' /\ ReadOK'
    BY <1>5, ReadSomeStream
  <1>6. ASSUME NEW k \in Sockets, Discard(k) PROVE StreamInv' /\ ReadOK'
    <2>1. last' = NothingFound
      BY <1>6 DEF Discard
    <2> QED
      BY <1>6, <2>1, DiscardStream, NothingFoundIsRead
  <1>7. CASE Pause
    <2>1. last' = NothingFound
      BY <1>7 DEF Pause
    <2> QED
      BY <1>7, <2>1, PauseStream, NothingFoundIsRead
  <1>8. CASE Resume
    <2>1. last' = NothingFound /\ UNCHANGED connection /\ paused' = FALSE
      BY <1>8 DEF Resume
    <2>2. StreamInv'
      BY <2>1 DEF StreamInv, Attached, connection
    <2> QED
      BY <2>1, <2>2, NothingFoundIsRead
  <1>9. CASE ResetSign
    <2>1. last' = NothingFound /\ UNCHANGED connection /\ paused' = paused
      BY <1>9 DEF ResetSign
    <2>2. StreamInv'
      BY <2>1 DEF StreamInv, Attached, connection
    <2> QED
      BY <2>1, <2>2, NothingFoundIsRead
  <1>10. CASE UNCHANGED vars
    BY <1>10 DEF vars, StreamInv, Attached, ReadOK, WholeFramesAreFound,
       NoTruncationIsInvented
  <1> QED
    BY <1>1, <1>2, <1>3, <1>4, <1>5, <1>6, <1>7, <1>8, <1>9, <1>10 DEF Next

\* What the streams carry and what is due of them agree, and so does every read.
THEOREM StreamIsInv == Spec => [](StreamInv /\ ReadOK)
  BY StreamInit, StreamNext, SimulatorIsInv, PTL DEF Spec

\* However the clients' streams are cut into reads, among whatever frames broken off,
\* every frame sent whole is found, with every byte of it, in the order sent: feed
\* and _read_frame of framing.py.
THEOREM EveryWholeFrameIsFound == Spec => []WholeFramesAreFound
  BY StreamIsInv, PTL DEF ReadOK

\* No transmission is reported as truncated on a connection whose frames were all
\* sent whole: _next_header, _overlong, set_paused.
THEOREM TruncationIsNeverInvented == Spec => []NoTruncationIsInvented
  BY StreamIsInv, PTL DEF ReadOK

\* Once all that was sent has been read, every frame sent whole has been found: the
\* scanner never waits for a byte past an EOT that is in, _next_header's deadlock.
THEOREM NoFrameIsHeldBack == Spec => []NothingIsHeldBack
  <1>1. Inv /\ StreamInv => NothingIsHeldBack
    <2> SUFFICES ASSUME Inv, StreamInv, NEW k \in Sockets, Attached(k), ~lossy[k],
                        flight[k] = <<>>
                 PROVE  due[k] = <<>>
      BY DEF NothingIsHeldBack
    <2> DEFINE b == scanner[k].buffer
    <2>1. b \in Seq(Nat) /\ due[k] \in Seq(Seq(Nat))
      BY DEF Inv, ConnectionsOK, Attached, Scanners
    <2>2. b \o flight[k] = b
      BY <2>1, ConcatEmptySeq
    <2>3. Stand(due[k], b) /\ NoFrame(b)
      <3>1. StreamOK(b \o flight[k], due[k], cut[k], lossy[k]) /\ NoFrame(b)
        BY DEF StreamInv
      <3> HIDE DEF b
      <3> QED
        BY <2>2, <3>1 DEF StreamOK
    <2> HIDE DEF b
    <2>4. PICK at, to : StandAt(due[k], b, at, to)
      BY <2>3 DEF Stand
    <2>5. \A j \in 1 .. Len(due[k]) : FALSE
      <3> SUFFICES ASSUME NEW j \in 1 .. Len(due[k]) PROVE FALSE
        OBVIOUS
      <3>1. at[j] \in Positions /\ to[j] \in Positions /\ IsFrame(b, at[j], to[j])
        BY <2>4 DEF StandAt
      <3> QED
        BY <2>3, <3>1 DEF NoFrame
    <2>6. Len(due[k]) = 0
      <3>1. Len(due[k]) \in Nat /\ (Len(due[k]) >= 1 => 1 \in 1 .. Len(due[k]))
        BY <2>1
      <3> QED
        BY <2>5, <3>1
    <2> QED
      BY <2>1, <2>6
  <1> QED
    BY <1>1, SimulatorIsInv, StreamIsInv, PTL
=============================================================================
