------------------------- MODULE PicturePoolProofs -------------------------
(* The picture files, for any slots, icons, messages and number of files,  *)
(* and for any number of faults.                                           *)
EXTENDS PicturePool, FiniteSetTheorems, SequenceTheorems, TLAPS

-----------------------------------------------------------------------------
(* Counting from nothing to a number, without an operator to instantiate.  *)

LEMMA IntervalInduction ==
  ASSUME NEW N \in Nat, NEW T, 0 \in T,
         \A n \in 1 .. N : n - 1 \in T => n \in T
  PROVE  0 .. N \subseteq T
  <1> DEFINE S == 1 .. N
             Below(n) == 1 .. n
             Bad == {Below(n) : n \in (0 .. N) \ T}
             R == StrictSubsetOrdering(S)
  <1>1. SUFFICES ASSUME Bad # {} PROVE FALSE
    BY DEF Bad
  <1>2. IsFiniteSet(S)
    BY FS_Interval
  <1>3. IsWellFoundedOn(R, SUBSET S)
    BY <1>2, FS_StrictSubsetOrderingWellFounded, FS_FiniteSubsetsOfFinite
  <1>4. Bad \subseteq SUBSET S
    BY DEF Bad
  <1> HIDE DEF R, Bad
  <1>5. PICK X \in Bad : \A Y \in Bad : <<Y, X>> \notin R
    BY <1>1, <1>3, <1>4, WFMin
  <1> USE DEF Bad
  <1>6. PICK n \in (0 .. N) \ T : X = Below(n)
    BY <1>5
  <1>7. n \in 1 .. N /\ n - 1 \in (0 .. N) \ T
    BY <1>6
  <1>8. Below(n - 1) \in Bad
    BY <1>7
  <1>9. <<Below(n - 1), Below(n)>> \in R
    <2>1. Below(n - 1) \subseteq Below(n) /\ n \in Below(n) /\ n \notin Below(n - 1)
      BY <1>7
    <2>2. Below(n) \subseteq S
      BY <1>7
    <2> QED
      BY <2>1, <2>2 DEF R, StrictSubsetOrdering
  <1> QED
    BY <1>5, <1>6, <1>8, <1>9

\* What goes from one number to the next, and what is reached by it.
Steps(N, S) == [(1 .. N) \X S -> S]
IsRun(g, N, S, base, step) ==
  /\ g \in [0 .. N -> S] /\ g[0] = base
  /\ \A n \in 1 .. N : g[n] = step[<<n, g[n - 1]>>]

(* A function that is defined from one number to the next exists.          *)
LEMMA StepsCanBeTaken ==
  ASSUME NEW N \in Nat, NEW S, NEW base \in S, NEW step \in Steps(N, S)
  PROVE  \E g : IsRun(g, N, S, base, step)
  <1> USE DEF Steps, IsRun
  <1> DEFINE Made(g, n) ==
               /\ g \in [0 .. n -> S] /\ g[0] = base
               /\ \A k \in 1 .. n : g[k] = step[<<k, g[k - 1]>>]
             T == {n \in 0 .. N : \E g : Made(g, n)}
  <1>1. 0 \in T
    <2> DEFINE g == [k \in 0 .. 0 |-> base]
    <2>1. Made(g, 0)
      <3>1. 0 \in 0 .. 0 /\ 1 .. 0 = {}
        OBVIOUS
      <3> QED
        BY <3>1
    <2>2. \E h : Made(h, 0)
      BY <2>1
    <2> QED
      BY <2>2
  <1>2. \A n \in 1 .. N : n - 1 \in T => n \in T
    <2>0. SUFFICES ASSUME NEW n \in 1 .. N, n - 1 \in T
                   PROVE  n \in T
      OBVIOUS
    <2>1. PICK g : Made(g, n - 1)
      BY <2>0
    <2> DEFINE x == step[<<n, g[n - 1]>>]
               h == [k \in 0 .. n |-> IF k = n THEN x ELSE g[k]]
    <2>2. n - 1 \in 0 .. n - 1 /\ g[n - 1] \in S /\ x \in S
      BY <2>1
    <2>3. \A k \in 0 .. n - 1 : k \in 0 .. n /\ k # n
      BY <2>1
    <2> HIDE DEF x
    <2>4. h \in [0 .. n -> S] /\ \A k \in 0 .. n - 1 : h[k] = g[k]
      BY <2>1, <2>2, <2>3
    <2>5. h[n] = x
      BY <2>1
    <2>6. h[0] = base
      BY <2>1, <2>4
    <2>7. ASSUME NEW k \in 1 .. n
          PROVE  h[k] = step[<<k, h[k - 1]>>]
      <3>1. k - 1 \in 0 .. n - 1 /\ h[k - 1] = g[k - 1]
        BY <2>1, <2>4
      <3>2. CASE k = n
        BY <2>5, <3>1, <3>2 DEF x
      <3>3. CASE k # n
        <4>1. k \in 1 .. n - 1 /\ k \in 0 .. n - 1
          BY <2>1, <3>3
        <4> QED
          BY <2>1, <2>4, <3>1, <4>1
      <3> QED
        BY <3>2, <3>3
    <2>8. Made(h, n)
      <3> HIDE DEF h
      <3> QED
        BY <2>4, <2>6, <2>7
    <2>9. \E f : Made(f, n)
      BY <2>8
    <2> QED
      BY <2>9
  <1>3. 0 .. N \subseteq T
    <2> HIDE DEF T
    <2> QED
      BY <1>1, <1>2, IntervalInduction
  <1>4. N \in 0 .. N
    OBVIOUS
  <1>5. N \in T
    BY <1>3, <1>4
  <1> QED
    BY <1>5

LEMMA LeastIsThere ==
  ASSUME NEW S \in SUBSET Nat, S # {}
  PROVE  Min(S) \in S /\ \A y \in S : Min(S) <= y
  <1> SUFFICES \E x \in S : \A y \in S : x <= y
    BY DEF Min
  <1>1. SUFFICES ASSUME \A x \in S : \E y \in S : y < x
                 PROVE  FALSE
    OBVIOUS
  <1>2. PICK N \in S : TRUE
    OBVIOUS
  <1> DEFINE T == {n \in Nat : \A y \in S : n < y}
  <1>3. 0 \in T
    BY <1>1
  <1>4. \A n \in 1 .. N : n - 1 \in T => n \in T
    <2>1. SUFFICES ASSUME NEW n \in 1 .. N, n - 1 \in T, NEW y \in S, ~(n < y)
                   PROVE  FALSE
      OBVIOUS
    <2>2. n = y
      BY <2>1
    <2>3. PICK z \in S : z < y
      BY <1>1
    <2> QED
      BY <2>1, <2>2, <2>3
  <1>5. 0 .. N \subseteq T
    <2> HIDE DEF T
    <2> QED
      BY <1>2, <1>3, <1>4, IntervalInduction
  <1> QED
    BY <1>2, <1>5

-----------------------------------------------------------------------------
(* Records of pictures.                                                    *)

\* Each icon and each file at most once.
Apart(ps) ==
  /\ ps \in Seq(Picture)
  /\ \A a \in 1 .. Len(ps) : \A b \in 1 .. Len(ps) :
       a # b => ps[a].icon # ps[b].icon /\ ps[a].file # ps[b].file

LEMMA Elements ==
  ASSUME NEW S, NEW s \in Seq(S)
  PROVE  /\ ToSet(s) = {s[n] : n \in 1 .. Len(s)}
         /\ ToSet(s) \subseteq S
  BY DEF ToSet

LEMMA NothingRecorded == Apart(<<>>) /\ ToSet(<<>>) = {}
  BY DEF Apart, ToSet

LEMMA Appended ==
  ASSUME NEW S, NEW s \in Seq(S), NEW x \in S
  PROVE  Append(s, x) \in Seq(S) /\ ToSet(Append(s, x)) = ToSet(s) \cup {x}
  <1>1. /\ Append(s, x) \in Seq(S) /\ Len(Append(s, x)) = Len(s) + 1
        /\ \A n \in 1 .. Len(s) : Append(s, x)[n] = s[n]
        /\ Append(s, x)[Len(s) + 1] = x
        /\ Len(s) \in Nat
    OBVIOUS
  <1>2. 1 .. Len(s) + 1 = (1 .. Len(s)) \cup {Len(s) + 1}
    BY <1>1
  <1>3. ToSet(Append(s, x)) = {Append(s, x)[n] : n \in (1 .. Len(s)) \cup {Len(s) + 1}}
    BY <1>1, <1>2, Elements
  <1> QED
    BY <1>1, <1>3, Elements

LEMMA Joined ==
  ASSUME NEW S, NEW s \in Seq(S), NEW t \in Seq(S)
  PROVE  s \o t \in Seq(S) /\ ToSet(s \o t) = ToSet(s) \cup ToSet(t)
  <1>1. /\ s \o t \in Seq(S) /\ Len(s \o t) = Len(s) + Len(t)
        /\ Len(s) \in Nat /\ Len(t) \in Nat
        /\ \A n \in 1 .. Len(s) + Len(t) :
             (s \o t)[n] = IF n <= Len(s) THEN s[n] ELSE t[n - Len(s)]
    BY ConcatProperties
  <1>0. /\ ToSet(s \o t) = {(s \o t)[n] : n \in 1 .. Len(s) + Len(t)}
        /\ ToSet(s) = {s[n] : n \in 1 .. Len(s)}
        /\ ToSet(t) = {t[n] : n \in 1 .. Len(t)}
    <2>1. ToSet(s \o t) = {(s \o t)[n] : n \in 1 .. Len(s \o t)}
      BY <1>1, Elements
    <2> QED
      BY <1>1, <2>1, Elements
  <1>2. ASSUME NEW n \in 1 .. Len(s) + Len(t)
        PROVE  (s \o t)[n] \in ToSet(s) \cup ToSet(t)
    <2>1. CASE n <= Len(s)
      BY <1>1, <2>1, Elements
    <2>2. CASE ~(n <= Len(s))
      <3>1. n - Len(s) \in 1 .. Len(t)
        BY <1>1, <2>2
      <3> QED
        BY <1>1, <2>2, <3>1, Elements
    <2> QED
      BY <2>1, <2>2
  <1>3. ASSUME NEW n \in 1 .. Len(s)
        PROVE  s[n] \in ToSet(s \o t)
    <2>1. n \in 1 .. Len(s) + Len(t) /\ (s \o t)[n] = s[n]
      BY <1>1
    <2> QED
      BY <1>0, <2>1
  <1>4. ASSUME NEW n \in 1 .. Len(t)
        PROVE  t[n] \in ToSet(s \o t)
    <2>1. n + Len(s) \in 1 .. Len(s) + Len(t) /\ (s \o t)[n + Len(s)] = t[n]
      BY <1>1
    <2> QED
      BY <1>0, <2>1
  <1>5. ToSet(s \o t) \subseteq ToSet(s) \cup ToSet(t)
    BY <1>0, <1>2
  <1>6. ToSet(s) \cup ToSet(t) \subseteq ToSet(s \o t)
    BY <1>0, <1>3, <1>4
  <1> QED
    BY <1>1, <1>5, <1>6

LEMMA AppendedApart ==
  ASSUME NEW ps, Apart(ps), NEW p \in Picture,
         \A q \in ToSet(ps) : q.icon # p.icon /\ q.file # p.file
  PROVE  Apart(Append(ps, p))
  <1>1. /\ ps \in Seq(Picture) /\ Len(Append(ps, p)) = Len(ps) + 1
        /\ \A n \in 1 .. Len(ps) : Append(ps, p)[n] = ps[n]
        /\ Append(ps, p)[Len(ps) + 1] = p
        /\ Len(ps) \in Nat
    BY DEF Apart
  <1>2. \A n \in 1 .. Len(ps) : ps[n].icon # p.icon /\ ps[n].file # p.file
    BY <1>1, Elements
  <1>3. \A n \in 1 .. Len(ps) + 1 : n \in 1 .. Len(ps) \/ n = Len(ps) + 1
    BY <1>1
  <1> QED
    BY <1>1, <1>2, <1>3, Appended DEF Apart

LEMMA JoinedApart ==
  ASSUME NEW s, Apart(s), NEW t, Apart(t),
         \A p \in ToSet(s) : \A q \in ToSet(t) :
           p.icon # q.icon /\ p.file # q.file
  PROVE  Apart(s \o t)
  <1>1. s \in Seq(Picture) /\ t \in Seq(Picture)
    BY DEF Apart
  <1>2. /\ s \o t \in Seq(Picture) /\ Len(s \o t) = Len(s) + Len(t)
        /\ Len(s) \in Nat /\ Len(t) \in Nat
        /\ \A n \in 1 .. Len(s) + Len(t) :
             (s \o t)[n] = IF n <= Len(s) THEN s[n] ELSE t[n - Len(s)]
    BY <1>1, ConcatProperties
  <1>3. \A a \in 1 .. Len(s) : \A b \in 1 .. Len(t) :
          s[a].icon # t[b].icon /\ s[a].file # t[b].file
    BY <1>1, Elements
  <1>4. ASSUME NEW a \in 1 .. Len(s \o t), NEW b \in 1 .. Len(s \o t), a # b
        PROVE  (s \o t)[a].icon # (s \o t)[b].icon
               /\ (s \o t)[a].file # (s \o t)[b].file
    <2>1. a \in 1 .. Len(s) \/ (~(a <= Len(s)) /\ a - Len(s) \in 1 .. Len(t))
      BY <1>2
    <2>2. b \in 1 .. Len(s) \/ (~(b <= Len(s)) /\ b - Len(s) \in 1 .. Len(t))
      BY <1>2
    <2>3. CASE a \in 1 .. Len(s) /\ b \in 1 .. Len(s)
      BY <1>2, <1>4, <2>3 DEF Apart
    <2>4. CASE ~(a <= Len(s)) /\ a - Len(s) \in 1 .. Len(t) /\ b \in 1 .. Len(s)
      BY <1>2, <1>3, <2>4
    <2>5. CASE a \in 1 .. Len(s) /\ ~(b <= Len(s)) /\ b - Len(s) \in 1 .. Len(t)
      BY <1>2, <1>3, <2>5
    <2>6. CASE /\ ~(a <= Len(s)) /\ a - Len(s) \in 1 .. Len(t)
               /\ ~(b <= Len(s)) /\ b - Len(s) \in 1 .. Len(t)
      <3>1. a - Len(s) # b - Len(s)
        BY <1>2, <1>4
      <3> QED
        BY <1>2, <2>6, <3>1 DEF Apart
    <2> QED
      BY <2>1, <2>2, <2>3, <2>4, <2>5, <2>6
  <1> QED
    BY <1>2, <1>4 DEF Apart

\* How Without goes through a record.
Keeps(ps, gone, kept) ==
  kept = [n \in 0 .. Len(ps) |->
            IF n = 0 THEN <<>>
            ELSE IF ps[n].icon \in gone THEN kept[n - 1]
            ELSE Append(kept[n - 1], ps[n])]

LEMMA WithoutKeeps ==
  ASSUME NEW ps \in Seq(Picture), NEW gone
  PROVE  \E kept : Keeps(ps, gone, kept) /\ Without(ps, gone) = kept[Len(ps)]
  <1> DEFINE N == Len(ps)
             S == Seq(Picture)
             step == [x \in (1 .. N) \X S |->
                        IF ps[x[1]].icon \in gone THEN x[2]
                        ELSE Append(x[2], ps[x[1]])]
  <1>1. N \in Nat /\ <<>> \in S /\ \A n \in 1 .. N : ps[n] \in Picture
    OBVIOUS
  <1>2. \A n \in 1 .. N : \A s \in S :
          /\ step[<<n, s>>] = IF ps[n].icon \in gone THEN s ELSE Append(s, ps[n])
          /\ step[<<n, s>>] \in S
    BY <1>1
  <1>3. step \in [(1 .. N) \X S -> S]
    BY <1>1
  <1>4. PICK g \in [0 .. N -> S] :
               g[0] = <<>> /\ \A n \in 1 .. N : g[n] = step[<<n, g[n - 1]>>]
    <2>1. step \in Steps(N, S)
      BY <1>3 DEF Steps
    <2>2. \E g : IsRun(g, N, S, <<>>, step)
      <3> HIDE DEF step, S, N
      <3> QED
        BY <1>1, <2>1, StepsCanBeTaken
    <2> HIDE DEF step, S, N
    <2> QED
      BY <2>2 DEF IsRun
  <1>5. ASSUME NEW n \in 0 .. N
        PROVE  g[n] = IF n = 0 THEN <<>>
                      ELSE IF ps[n].icon \in gone THEN g[n - 1]
                      ELSE Append(g[n - 1], ps[n])
    <2>1. CASE n = 0
      BY <1>4, <2>1
    <2>2. CASE n # 0
      <3>1. n \in 1 .. N /\ n - 1 \in 0 .. N /\ g[n - 1] \in S
        BY <1>1, <1>4, <2>2
      <3> HIDE DEF step, S
      <3> QED
        BY <1>2, <1>4, <2>2, <3>1
    <2> QED
      BY <2>1, <2>2
  <1>6. Keeps(ps, gone, g)
    BY <1>4, <1>5 DEF Keeps
  <1>7. Without(ps, gone) = (CHOOSE kept : Keeps(ps, gone, kept))[Len(ps)]
    BY Zenon DEF Without, Keeps
  <1> QED
    BY <1>6, <1>7

(* Taking icons out of a record leaves the others, in their files.         *)
LEMMA Removed ==
  ASSUME NEW ps, Apart(ps), NEW gone
  PROVE  /\ Apart(Without(ps, gone))
         /\ ToSet(Without(ps, gone)) = {p \in ToSet(ps) : p.icon \notin gone}
  <1> DEFINE N == Len(ps)
             Left(n) == {ps[k] : k \in {m \in 1 .. n : ps[m].icon \notin gone}}
  <1>1. /\ N \in Nat /\ ps \in Seq(Picture)
        /\ \A n \in 1 .. N : ps[n] \in Picture
    BY DEF Apart
  <1>2. PICK kept : Keeps(ps, gone, kept) /\ Without(ps, gone) = kept[N]
    BY <1>1, WithoutKeeps
  <1>3. /\ kept[0] = <<>>
        /\ \A n \in 1 .. N :
             kept[n] = IF ps[n].icon \in gone THEN kept[n - 1]
                       ELSE Append(kept[n - 1], ps[n])
    <2>1. \A n \in 0 .. N :
            kept[n] = IF n = 0 THEN <<>>
                      ELSE IF ps[n].icon \in gone THEN kept[n - 1]
                      ELSE Append(kept[n - 1], ps[n])
      BY <1>2 DEF Keeps
    <2>2. 0 \in 0 .. N /\ \A n \in 1 .. N : n \in 0 .. N /\ n # 0
      BY <1>1
    <2> QED
      BY <2>1, <2>2
  <1> DEFINE Good == {n \in 0 .. N : Apart(kept[n]) /\ ToSet(kept[n]) = Left(n)}
  <1>4. 0 \in Good
    <2>1. Left(0) = {}
      OBVIOUS
    <2> QED
      BY <1>1, <1>3, <2>1, NothingRecorded
  <1>5. ASSUME NEW n \in 1 .. N, n - 1 \in Good
        PROVE  n \in Good
    <2>1. Apart(kept[n - 1]) /\ ToSet(kept[n - 1]) = Left(n - 1)
      BY <1>5
    <2>2. 1 .. n = (1 .. n - 1) \cup {n}
      BY <1>1
    <2>3. CASE ps[n].icon \in gone
      <3>1. Left(n) = Left(n - 1)
        BY <2>2, <2>3
      <3>2. kept[n] = kept[n - 1]
        BY <1>3, <2>3
      <3> QED
        BY <2>1, <3>1, <3>2
    <2>4. CASE ps[n].icon \notin gone
      <3>1. Left(n) = Left(n - 1) \cup {ps[n]}
        BY <2>2, <2>4
      <3>2. kept[n] = Append(kept[n - 1], ps[n])
        BY <1>3, <2>4
      <3>3. \A q \in Left(n - 1) : q.icon # ps[n].icon /\ q.file # ps[n].file
        <4>1. \A k \in 1 .. n - 1 : k \in 1 .. N /\ k # n
          BY <1>1
        <4> QED
          BY <4>1 DEF Apart
      <3>4. Apart(kept[n])
        BY <1>1, <2>1, <3>2, <3>3, AppendedApart
      <3>5. ToSet(kept[n]) = Left(n)
        <4>1. kept[n - 1] \in Seq(Picture) /\ ps[n] \in Picture
          BY <1>1, <2>1 DEF Apart
        <4>2. ToSet(kept[n]) = ToSet(kept[n - 1]) \cup {ps[n]}
          BY <3>2, <4>1, Appended
        <4> HIDE DEF Left
        <4> QED
          BY <2>1, <3>1, <4>2
      <3> HIDE DEF Left
      <3> QED
        BY <3>4, <3>5
    <2> QED
      BY <2>3, <2>4
  <1>6. 0 .. N \subseteq Good
    <2> HIDE DEF Good, N
    <2> QED
      BY <1>1, <1>4, <1>5, IntervalInduction
  <1>7. N \in Good
    <2>1. N \in 0 .. N
      BY <1>1
    <2> HIDE DEF Good
    <2> QED
      BY <1>6, <2>1
  <1>8. Left(N) = {p \in ToSet(ps) : p.icon \notin gone}
    BY <1>1, Elements
  <1> QED
    BY <1>2, <1>7, <1>8

LEMMA RecordedIs ==
  ASSUME NEW ps
  PROVE  Recorded(ps) = {p.icon : p \in ToSet(ps)}
  BY DEF Recorded

(* An icon's file is that of the one picture it has.                       *)
LEMMA FilesAreFound ==
  ASSUME NEW ps, Apart(ps), NEW p \in ToSet(ps)
  PROVE  FileIn(ps, p.icon) = p.file /\ p \in Picture
  <1>1. /\ ps \in Seq(Picture)
        /\ ToSet(ps) = {ps[n] : n \in 1 .. Len(ps)}
        /\ ToSet(ps) \subseteq Picture
    BY Elements DEF Apart
  <1>2. \A q \in ToSet(ps) : q.icon = p.icon => q = p
    BY <1>1 DEF Apart
  <1>3. (CHOOSE q \in ToSet(ps) : q.icon = p.icon) = p
    BY <1>2
  <1> QED
    BY <1>1, <1>3 DEF FileIn

-----------------------------------------------------------------------------
(* The record and the pool.                                                *)

\* The pool gives each recorded icon its file, and no other icon one.
Fits(ps, h) ==
  /\ Apart(ps) /\ h \in [Icons -> Files \cup {NoFile}]
  /\ \A p \in ToSet(ps) : h[p.icon] = p.file
  /\ \A i \in Icons : i \notin Recorded(ps) => h[i] = NoFile

LEMMA FilesAreNumbers ==
  /\ Files \subseteq Nat /\ NoFile \notin Files /\ IsFiniteSet(Files)
  /\ Cardinality(Files) = FileCount
  <1>1. FileCount \in Nat \ {0}
    BY PicturePoolAssumption
  <1>2. IsFiniteSet(Files) /\ Cardinality(Files) = FileCount
    BY <1>1, FS_Interval DEF Files
  <1> QED
    BY <1>1, <1>2 DEF Files, NoFile

LEMMA RecordsHavePictures ==
  ASSUME NEW ps, Apart(ps)
  PROVE  /\ ToSet(ps) \subseteq Picture /\ Recorded(ps) \subseteq Icons
         /\ \A p \in ToSet(ps) : p.icon \in Icons /\ p.file \in Files
         /\ \A p \in ToSet(ps) : \A q \in ToSet(ps) :
              p # q => p.icon # q.icon /\ p.file # q.file
  <1>1. /\ ps \in Seq(Picture)
        /\ ToSet(ps) = {ps[n] : n \in 1 .. Len(ps)}
        /\ ToSet(ps) \subseteq Picture
    BY Elements DEF Apart
  <1>2. \A p \in ToSet(ps) : \A q \in ToSet(ps) :
          p # q => p.icon # q.icon /\ p.file # q.file
    BY <1>1 DEF Apart
  <1>3. \A p \in Picture : p.icon \in Icons /\ p.file \in Files
    BY DEF Picture
  <1> QED
    BY <1>1, <1>2, <1>3 DEF Recorded

(* A file is free just where no picture has it.                            *)
LEMMA FreeFiles ==
  ASSUME NEW ps, NEW h, Fits(ps, h)
  PROVE  Unassigned(h) = {f \in Files : \A p \in ToSet(ps) : p.file # f}
  <1>1. ASSUME NEW p \in ToSet(ps)
        PROVE  p.icon \in Icons /\ h[p.icon] = p.file
    BY RecordsHavePictures DEF Fits
  <1>2. ASSUME NEW i \in Icons, h[i] # NoFile
        PROVE  \E p \in ToSet(ps) : p.file = h[i]
    BY <1>2 DEF Fits, Recorded
  <1> QED
    BY <1>1, <1>2, FilesAreNumbers DEF Unassigned

LEMMA FileGivenUp ==
  ASSUME NEW ps, NEW h, Fits(ps, h), NEW p \in ToSet(ps)
  PROVE  LET qs == Without(ps, {p.icon})
             g == [h EXCEPT ![p.icon] = NoFile]
         IN /\ Fits(qs, g)
            /\ ToSet(qs) = ToSet(ps) \ {p}
            /\ Recorded(qs) = Recorded(ps) \ {p.icon}
            /\ Unassigned(g) = Unassigned(h) \cup {p.file}
  <1> DEFINE qs == Without(ps, {p.icon})
             g == [h EXCEPT ![p.icon] = NoFile]
  <1>1. Apart(ps) /\ h \in [Icons -> Files \cup {NoFile}]
    BY DEF Fits
  <1>2. /\ Apart(qs)
        /\ ToSet(qs) = {q \in ToSet(ps) : q.icon \notin {p.icon}}
    BY <1>1, Removed
  <1> HIDE DEF qs
  <1>3. ToSet(qs) = ToSet(ps) \ {p}
    BY <1>1, <1>2, RecordsHavePictures
  <1>4. Recorded(qs) = Recorded(ps) \ {p.icon}
    BY <1>2 DEF Recorded
  <1>5. p.icon \in Icons /\ p.file \in Files
    BY <1>1, RecordsHavePictures
  <1>6. /\ g \in [Icons -> Files \cup {NoFile}] /\ g[p.icon] = NoFile
        /\ \A i \in Icons : i # p.icon => g[i] = h[i]
    BY <1>1, <1>5
  <1> HIDE DEF g
  <1>7. \A q \in ToSet(qs) : g[q.icon] = q.file
    BY <1>1, <1>2, <1>6, RecordsHavePictures DEF Fits
  <1>8. Fits(qs, g)
    BY <1>2, <1>4, <1>6, <1>7 DEF Fits
  <1>9. Unassigned(g) = Unassigned(h) \cup {p.file}
    BY <1>1, <1>3, <1>5, <1>8, FreeFiles, RecordsHavePictures
  <1> QED
    BY <1>3, <1>4, <1>8, <1>9 DEF qs, g

LEMMA FileTaken ==
  ASSUME NEW ps, NEW h, Fits(ps, h), NEW i \in Icons, i \notin Recorded(ps),
         NEW f \in Unassigned(h)
  PROVE  LET p == [icon |-> i, file |-> f]
             qs == Append(ps, p)
             g == [h EXCEPT ![i] = f]
         IN /\ Fits(qs, g) /\ p \in Picture
            /\ ToSet(qs) = ToSet(ps) \cup {p}
            /\ Recorded(qs) = Recorded(ps) \cup {i}
            /\ Unassigned(g) = Unassigned(h) \ {f}
  <1> DEFINE p == [icon |-> i, file |-> f]
             qs == Append(ps, p)
             g == [h EXCEPT ![i] = f]
  <1>1. /\ Apart(ps) /\ h \in [Icons -> Files \cup {NoFile}]
        /\ ps \in Seq(Picture)
    BY DEF Fits, Apart
  <1>2. f \in Files /\ \A q \in ToSet(ps) : q.file # f
    BY FreeFiles
  <1>3. p \in Picture /\ p.icon = i /\ p.file = f
    BY <1>2 DEF Picture
  <1>4. \A q \in ToSet(ps) : q.icon # i
    BY DEF Recorded
  <1> HIDE DEF p
  <1>5. Apart(qs) /\ ToSet(qs) = ToSet(ps) \cup {p}
    BY <1>1, <1>2, <1>3, <1>4, Appended, AppendedApart
  <1>6. /\ g \in [Icons -> Files \cup {NoFile}] /\ g[i] = f
        /\ \A j \in Icons : j # i => g[j] = h[j]
    BY <1>1, <1>2
  <1> HIDE DEF qs, g
  <1>7. Recorded(qs) = Recorded(ps) \cup {i}
    BY <1>3, <1>5 DEF Recorded
  <1>8. \A q \in ToSet(qs) : g[q.icon] = q.file
    BY <1>1, <1>3, <1>4, <1>5, <1>6, RecordsHavePictures DEF Fits
  <1>9. Fits(qs, g)
    BY <1>5, <1>6, <1>7, <1>8 DEF Fits
  <1>10. Unassigned(g) = Unassigned(h) \ {f}
    BY <1>3, <1>5, <1>9, FreeFiles
  <1> QED
    BY <1>3, <1>5, <1>7, <1>9, <1>10 DEF qs, g, p

(* What fits is what the invariant says of the record and the pool.        *)
LEMMA FittingIsThePool ==
  ASSUME Fits(pictures, held)
  PROVE  RecordIsThePool
  <1>1. Apart(pictures) /\ pictures \in Seq(Picture)
    BY DEF Fits, Apart
  <1>2. ASSUME NEW i \in Icons
        PROVE  held[i] = IF i \in Recorded(pictures) THEN FileIn(pictures, i)
                         ELSE NoFile
    <2>1. CASE i \in Recorded(pictures)
      <3>1. PICK p \in ToSet(pictures) : p.icon = i
        BY <2>1 DEF Recorded
      <3> QED
        BY <1>1, <2>1, <3>1, FilesAreFound DEF Fits
    <2>2. CASE i \notin Recorded(pictures)
      BY <2>2 DEF Fits
    <2> QED
      BY <2>1, <2>2
  <1>3. Cardinality(FilesOf(pictures)) = Len(pictures)
    <2> DEFINE N == Len(pictures)
               g == [n \in 1 .. N |-> pictures[n].file]
    <2>0. N \in Nat
      BY <1>1
    <2>1. IsFiniteSet(1 .. N) /\ Cardinality(1 .. N) = N
      <3> HIDE DEF N
      <3> QED
        BY <2>0, FS_Interval
    <2>2. FilesOf(pictures) = {pictures[n].file : n \in 1 .. N}
      BY <1>1, Elements DEF FilesOf
    <2>3. g \in [1 .. N -> FilesOf(pictures)]
      BY <2>2
    <2>4. \A a \in 1 .. N : \A b \in 1 .. N : g[a] = g[b] => a = b
      BY <1>1 DEF Apart
    <2>5. \A f \in FilesOf(pictures) : \E n \in 1 .. N : g[n] = f
      BY <2>2
    <2> HIDE DEF g, N
    <2>6. IsInjective(g)
      BY <2>3, <2>4 DEF IsInjective
    <2>7. g \in Bijection(1 .. N, FilesOf(pictures))
      BY <2>3, <2>5, <2>6 DEF Bijection, Injection, Surjection
    <2>8. ExistsBijection(1 .. N, FilesOf(pictures))
      BY <2>7 DEF ExistsBijection
    <2> QED
      BY <2>1, <2>8, FS_Bijection DEF N
  <1> QED
    BY <1>2, <1>3 DEF RecordIsThePool

-----------------------------------------------------------------------------
(* Claims, of icons that are to be kept, for a caller.                     *)

Claims == [pictures : Seq(Picture), held : [Icons -> Files \cup {NoFile}],
           claimed : Seq(Icons), evicted : Seq(Picture), refused : SUBSET Icons]

\* The pictures that were there before, and are there still.
Kept(s) == {p \in ToSet(s.pictures) : p.icon \notin ToSet(s.claimed)}

\* What was taken is there, what was given up is not, and between them they
\* tell what there was.
Balanced(s, keeping, c) ==
  /\ s \in Claims /\ Fits(s.pictures, s.held) /\ Apart(s.evicted)
  /\ ToSet(s.claimed) \subseteq Recorded(s.pictures) \cap keeping
  /\ Kept(s) \cup ToSet(s.evicted) = ToSet(pictures)
  /\ \A p \in ToSet(s.evicted) :
       p.icon \notin Recorded(s.pictures) \cup keeping /\ ~InUse(p.icon, c)

\* Something is refused only where no file is free, and none is idle.
RefusedWhenFull(s, keeping, c) ==
  /\ s.refused \subseteq keeping \ Recorded(s.pictures)
  /\ s.refused # {} =>
       /\ Unassigned(s.held) = {}
       /\ \A p \in ToSet(s.pictures) : p.icon \in keeping \/ InUse(p.icon, c)

\* A file that was taken stays so, though it may go to another icon.
Sound(s, keeping, c) ==
  /\ Balanced(s, keeping, c) /\ RefusedWhenFull(s, keeping, c)
  /\ Unassigned(s.held) \subseteq Unassigned(held)

\* No icon that is to be kept is lost, and this one is had or refused.
Further(s, t, i, keeping) ==
  /\ Recorded(s.pictures) \cap keeping \subseteq Recorded(t.pictures)
  /\ s.refused \subseteq t.refused
  /\ i \in Recorded(t.pictures) \cup t.refused

Taking(s, i, f) ==
  [pictures |-> Append(s.pictures, [icon |-> i, file |-> f]),
   held |-> [s.held EXCEPT ![i] = f], claimed |-> Append(s.claimed, i),
   evicted |-> s.evicted, refused |-> s.refused]

(* A free file is taken for an icon that has none.                         *)
LEMMA TakesAFile ==
  ASSUME NEW keeping \in SUBSET Icons, NEW c, NEW s, Balanced(s, keeping, c),
         s.refused = {}, NEW i \in keeping, i \notin Recorded(s.pictures),
         NEW f \in Unassigned(s.held)
  PROVE  /\ Balanced(Taking(s, i, f), keeping, c)
         /\ RefusedWhenFull(Taking(s, i, f), keeping, c)
         /\ Further(s, Taking(s, i, f), i, keeping)
         /\ Unassigned(Taking(s, i, f).held) = Unassigned(s.held) \ {f}
  <1> DEFINE p == [icon |-> i, file |-> f]
             t == Taking(s, i, f)
  <1>1. /\ s \in Claims /\ Fits(s.pictures, s.held) /\ Apart(s.evicted)
        /\ i \in Icons
    BY DEF Balanced
  <1>2. /\ t.pictures = Append(s.pictures, p)
        /\ t.held = [s.held EXCEPT ![i] = f]
        /\ t.claimed = Append(s.claimed, i)
        /\ t.evicted = s.evicted /\ t.refused = {}
        /\ t = [pictures |-> t.pictures, held |-> t.held,
                claimed |-> t.claimed, evicted |-> t.evicted,
                refused |-> t.refused]
    BY DEF Taking
  <1>3. /\ Fits(t.pictures, t.held) /\ p \in Picture
        /\ ToSet(t.pictures) = ToSet(s.pictures) \cup {p}
        /\ Recorded(t.pictures) = Recorded(s.pictures) \cup {i}
        /\ Unassigned(t.held) = Unassigned(s.held) \ {f}
    <2>1. LET q == [icon |-> i, file |-> f]
              qs == Append(s.pictures, q)
              g == [s.held EXCEPT ![i] = f]
          IN /\ Fits(qs, g) /\ q \in Picture
             /\ ToSet(qs) = ToSet(s.pictures) \cup {q}
             /\ Recorded(qs) = Recorded(s.pictures) \cup {i}
             /\ Unassigned(g) = Unassigned(s.held) \ {f}
      <3> HIDE DEF p, t
      <3> QED
        BY <1>1, FileTaken
    <2> QED
      BY <1>2, <2>1
  <1>4. /\ s.claimed \in Seq(Icons) /\ s.evicted \in Seq(Picture)
        /\ s.refused \in SUBSET Icons
    BY <1>1 DEF Claims
  <1>5. /\ t.claimed \in Seq(Icons)
        /\ ToSet(t.claimed) = ToSet(s.claimed) \cup {i}
    BY <1>1, <1>2, <1>4, Appended
  <1> HIDE DEF t
  <1>6. t \in Claims
    <2>1. t.pictures \in Seq(Picture) /\ t.held \in [Icons -> Files \cup {NoFile}]
      BY <1>3 DEF Fits, Apart
    <2> QED
      BY <1>2, <1>4, <1>5, <2>1 DEF Claims
  <1>7. Kept(t) = Kept(s)
    <2>1. p.icon = i
      OBVIOUS
    <2> HIDE DEF p
    <2>2. \A q \in ToSet(s.pictures) : q.icon # i
      BY DEF Recorded
    <2> QED
      BY <1>3, <1>5, <2>1, <2>2 DEF Kept
  <1>8. Balanced(t, keeping, c)
    <2>1. ToSet(t.claimed) \subseteq Recorded(t.pictures) \cap keeping
      BY <1>3, <1>5 DEF Balanced
    <2>2. Kept(t) \cup ToSet(t.evicted) = ToSet(pictures)
      BY <1>2, <1>7 DEF Balanced
    <2>3. \A q \in ToSet(t.evicted) :
            /\ q.icon \notin Recorded(t.pictures) \cup keeping
            /\ ~InUse(q.icon, c)
      BY <1>2, <1>3 DEF Balanced
    <2> QED
      BY <1>1, <1>2, <1>3, <1>6, <2>1, <2>2, <2>3 DEF Balanced
  <1>9. RefusedWhenFull(t, keeping, c)
    BY <1>2 DEF RefusedWhenFull
  <1>10. Further(s, t, i, keeping)
    BY <1>2, <1>3 DEF Further
  <1> QED
    BY <1>3, <1>8, <1>9, <1>10 DEF t

GivingUp(s, p) ==
  [pictures |-> Without(s.pictures, {p.icon}),
   held |-> [s.held EXCEPT ![p.icon] = NoFile], claimed |-> s.claimed,
   evicted |-> Append(s.evicted, p), refused |-> s.refused]

(* A picture that nothing calls is given up, and its file is free.         *)
LEMMA GivesUpAFile ==
  ASSUME Apart(pictures),
         NEW keeping \in SUBSET Icons, NEW c, NEW s, Balanced(s, keeping, c),
         NEW p \in ToSet(s.pictures), p.icon \notin keeping,
         ~InUse(p.icon, c)
  PROVE  /\ Balanced(GivingUp(s, p), keeping, c)
         /\ GivingUp(s, p).refused = s.refused
         /\ Recorded(GivingUp(s, p).pictures) = Recorded(s.pictures) \ {p.icon}
         /\ Unassigned(GivingUp(s, p).held) = Unassigned(s.held) \cup {p.file}
  <1> DEFINE t == GivingUp(s, p)
  <1>1. s \in Claims /\ Fits(s.pictures, s.held) /\ Apart(s.evicted)
    BY DEF Balanced
  <1>2. /\ t.pictures = Without(s.pictures, {p.icon})
        /\ t.held = [s.held EXCEPT ![p.icon] = NoFile]
        /\ t.claimed = s.claimed /\ t.refused = s.refused
        /\ t.evicted = Append(s.evicted, p)
        /\ t = [pictures |-> t.pictures, held |-> t.held,
                claimed |-> t.claimed, evicted |-> t.evicted,
                refused |-> t.refused]
    BY DEF GivingUp
  <1>3. /\ Fits(t.pictures, t.held)
        /\ ToSet(t.pictures) = ToSet(s.pictures) \ {p}
        /\ Recorded(t.pictures) = Recorded(s.pictures) \ {p.icon}
        /\ Unassigned(t.held) = Unassigned(s.held) \cup {p.file}
    <2>1. LET qs == Without(s.pictures, {p.icon})
              g == [s.held EXCEPT ![p.icon] = NoFile]
          IN /\ Fits(qs, g)
             /\ ToSet(qs) = ToSet(s.pictures) \ {p}
             /\ Recorded(qs) = Recorded(s.pictures) \ {p.icon}
             /\ Unassigned(g) = Unassigned(s.held) \cup {p.file}
      <3> HIDE DEF t
      <3> QED
        BY <1>1, FileGivenUp, ZenonT(60)
    <2> QED
      BY <1>2, <2>1
  <1>4. /\ s.claimed \in Seq(Icons) /\ s.evicted \in Seq(Picture)
        /\ s.refused \in SUBSET Icons
    BY <1>1 DEF Claims
  <1>5. p \in Picture /\ p \in ToSet(pictures) /\ p \in Kept(s)
    <2>1. p \in Picture
      BY <1>1, RecordsHavePictures DEF Fits
    <2>2. p.icon \notin ToSet(s.claimed)
      BY DEF Balanced
    <2>3. p \in Kept(s)
      BY <2>2 DEF Kept
    <2> QED
      BY <2>1, <2>3 DEF Balanced
  <1>6. /\ t.evicted \in Seq(Picture)
        /\ ToSet(t.evicted) = ToSet(s.evicted) \cup {p}
    BY <1>2, <1>4, <1>5, Appended
  <1> HIDE DEF t
  <1>7. t \in Claims
    <2>1. t.pictures \in Seq(Picture) /\ t.held \in [Icons -> Files \cup {NoFile}]
      BY <1>3 DEF Fits, Apart
    <2> QED
      BY <1>2, <1>4, <1>6, <2>1 DEF Claims
  <1>8. Apart(t.evicted)
    <2>1. ASSUME NEW q \in ToSet(s.evicted)
          PROVE  q.icon # p.icon /\ q.file # p.file
      <3>1. q.icon # p.icon
        BY DEF Balanced, Recorded
      <3>2. q \in ToSet(pictures)
        BY DEF Balanced
      <3> QED
        BY <1>5, <3>1, <3>2, RecordsHavePictures
    <2> QED
      BY <1>1, <1>2, <1>5, <2>1, AppendedApart
  <1>9. Balanced(t, keeping, c)
    <2>1. ToSet(t.claimed) \subseteq Recorded(t.pictures) \cap keeping
      BY <1>2, <1>3 DEF Balanced
    <2>2. Kept(t) \cup ToSet(t.evicted) = ToSet(pictures)
      <3>1. Kept(t) = Kept(s) \ {p}
        BY <1>2, <1>3 DEF Kept
      <3> QED
        BY <1>5, <1>6, <3>1 DEF Balanced
    <2>3. \A q \in ToSet(t.evicted) :
            /\ q.icon \notin Recorded(t.pictures) \cup keeping
            /\ ~InUse(q.icon, c)
      BY <1>3, <1>6 DEF Balanced
    <2> QED
      BY <1>3, <1>7, <1>8, <2>1, <2>2, <2>3 DEF Balanced
  <1> QED
    BY <1>2, <1>3, <1>9 DEF t

(* What a claim of one icon comes to.                                      *)
LEMMA ClaimsAnIcon ==
  ASSUME Apart(pictures), NEW keeping \in SUBSET Icons, NEW c, NEW s,
         Sound(s, keeping, c), NEW i \in keeping
  PROVE  /\ Sound(Claimed(s, i, keeping, c), keeping, c)
         /\ Further(s, Claimed(s, i, keeping, c), i, keeping)
  <1> DEFINE idle == {n \in DOMAIN s.pictures :
                        /\ s.pictures[n].icon \notin keeping
                        /\ ~InUse(s.pictures[n].icon, c)}
             room == IF Unassigned(s.held) # {} THEN s
                     ELSE Evicted(s, keeping, c)
             f == Min(Unassigned(room.held))
             t == Claimed(s, i, keeping, c)
  <1>1. /\ s \in Claims /\ Balanced(s, keeping, c)
        /\ RefusedWhenFull(s, keeping, c)
        /\ Fits(s.pictures, s.held) /\ Apart(s.pictures)
        /\ Unassigned(s.held) \subseteq Unassigned(held)
    BY DEF Sound, Balanced, Fits
  <1>2. s = [pictures |-> s.pictures, held |-> s.held, claimed |-> s.claimed,
             evicted |-> s.evicted, refused |-> s.refused]
    BY <1>1 DEF Claims
  <1>3. /\ s.pictures \in Seq(Picture)
        /\ DOMAIN s.pictures = 1 .. Len(s.pictures)
        /\ ToSet(s.pictures) = {s.pictures[n] : n \in 1 .. Len(s.pictures)}
    BY <1>1, Elements DEF Apart
  <1>4. t = IF i \in Recorded(s.pictures) THEN s
            ELSE IF Unassigned(room.held) = {}
                 THEN [s EXCEPT !.refused = @ \cup {i}]
            ELSE [room EXCEPT
                    !.pictures = Append(@, [icon |-> i, file |-> f]),
                    !.held[i] = f, !.claimed = Append(@, i)]
    BY DEF Claimed
  <1>5. ASSUME NEW h
        PROVE  Unassigned(h) \in SUBSET Nat
    BY FilesAreNumbers DEF Unassigned
  <1>6. CASE i \in Recorded(s.pictures)
    <2>1. t = s
      BY <1>4, <1>6
    <2>2. Further(s, s, i, keeping)
      BY <1>6 DEF Further
    <2> HIDE DEF t
    <2> QED
      BY <2>1, <2>2 DEF t
  <1>7. CASE i \notin Recorded(s.pictures) /\ Unassigned(s.held) # {}
    <2>1. room = s
      BY <1>7
    <2>2. f \in Unassigned(s.held)
      <3>1. Min(Unassigned(s.held)) \in Unassigned(s.held)
        BY <1>5, <1>7, LeastIsThere
      <3> QED
        BY <2>1, <3>1
    <2>3. t = Taking(s, i, f)
      <3>1. t = [s EXCEPT !.pictures = Append(@, [icon |-> i, file |-> f]),
                          !.held[i] = f, !.claimed = Append(@, i)]
        BY <1>4, <1>7, <2>1
      <3> HIDE DEF t, f
      <3> QED
        BY <1>2, <3>1 DEF Taking
    <2>4. s.refused = {}
      BY <1>1, <1>7 DEF RefusedWhenFull
    <2> HIDE DEF t, f, room, idle
    <2>5. /\ Balanced(t, keeping, c) /\ RefusedWhenFull(t, keeping, c)
          /\ Further(s, t, i, keeping)
          /\ Unassigned(t.held) = Unassigned(s.held) \ {f}
      BY <1>1, <1>7, <2>2, <2>3, <2>4, TakesAFile
    <2> QED
      BY <1>1, <2>5 DEF Sound, t
  <1>8. CASE /\ i \notin Recorded(s.pictures) /\ Unassigned(s.held) = {}
             /\ idle = {}
    <2>1. room = s
      BY <1>8 DEF Evicted
    <2>2. t = [s EXCEPT !.refused = @ \cup {i}]
      BY <1>4, <1>8, <2>1
    <2>3. t = [pictures |-> s.pictures, held |-> s.held,
               claimed |-> s.claimed, evicted |-> s.evicted,
               refused |-> s.refused \cup {i}]
      <3> HIDE DEF t
      <3> QED
        BY <1>2, <2>2
    <2>4. \A p \in ToSet(s.pictures) : p.icon \in keeping \/ InUse(p.icon, c)
      BY <1>3, <1>8
    <2> HIDE DEF t, room, idle, f
    <2>5. /\ t.pictures = s.pictures /\ t.held = s.held
          /\ t.claimed = s.claimed /\ t.evicted = s.evicted
          /\ t.refused = s.refused \cup {i} /\ t \in Claims
      BY <1>1, <2>3 DEF Claims
    <2>6. Balanced(t, keeping, c)
      BY <1>1, <2>5 DEF Balanced, Kept
    <2>7. RefusedWhenFull(t, keeping, c)
      BY <1>1, <1>8, <2>4, <2>5 DEF RefusedWhenFull
    <2>8. Further(s, t, i, keeping)
      BY <2>5 DEF Further
    <2> QED
      BY <1>1, <2>5, <2>6, <2>7, <2>8 DEF Sound, t
  <1>9. CASE /\ i \notin Recorded(s.pictures) /\ Unassigned(s.held) = {}
             /\ idle # {}
    <2> DEFINE p == s.pictures[Min(idle)]
               r == GivingUp(s, p)
    <2>1. Min(idle) \in idle
      <3>1. idle \in SUBSET Nat
        BY <1>3
      <3> HIDE DEF idle
      <3> QED
        BY <1>9, <3>1, LeastIsThere
    <2>2. /\ p \in ToSet(s.pictures) /\ p.icon \notin keeping
          /\ ~InUse(p.icon, c)
      <3> DEFINE n == Min(idle)
      <3>1. n \in 1 .. Len(s.pictures) /\ s.pictures[n].icon \notin keeping
            /\ ~InUse(s.pictures[n].icon, c)
        <4> HIDE DEF n
        <4>1. n \in idle
          BY <2>1 DEF n
        <4> QED
          BY <1>3, <4>1
      <3> HIDE DEF n
      <3>2. s.pictures[n] \in ToSet(s.pictures)
        BY <1>3, <3>1
      <3> QED
        BY <3>1, <3>2 DEF n
    <2>3. room = r
      <3>1. Evicted(s, keeping, c) =
              [s EXCEPT !.pictures = Without(@, {p.icon}),
                        !.held[p.icon] = NoFile, !.evicted = Append(@, p)]
        BY <1>9 DEF Evicted
      <3>2. room = Evicted(s, keeping, c)
        BY <1>9
      <3> HIDE DEF room, p
      <3> QED
        BY <1>2, <3>1, <3>2 DEF GivingUp
    <2>4. s.refused = {}
      <3>1. PICK n \in idle : TRUE
        BY <1>9
      <3>2. s.pictures[n] \in ToSet(s.pictures)
        BY <1>3, <3>1
      <3> QED
        BY <1>1, <3>1, <3>2 DEF RefusedWhenFull
    <2> HIDE DEF p, idle, room
    <2>5. /\ Balanced(r, keeping, c) /\ r.refused = {}
          /\ Recorded(r.pictures) = Recorded(s.pictures) \ {p.icon}
          /\ Unassigned(r.held) = Unassigned(s.held) \cup {p.file}
      <3> HIDE DEF t, f, r
      <3>1. /\ Balanced(GivingUp(s, p), keeping, c)
            /\ GivingUp(s, p).refused = s.refused
            /\ Recorded(GivingUp(s, p).pictures) =
                 Recorded(s.pictures) \ {p.icon}
            /\ Unassigned(GivingUp(s, p).held) =
                 Unassigned(s.held) \cup {p.file}
        BY <1>1, <2>2, GivesUpAFile
      <3> QED
        BY <2>4, <3>1 DEF r
    <2> HIDE DEF r
    <2>6. f \in Unassigned(r.held)
      <3>1. Min(Unassigned(r.held)) \in Unassigned(r.held)
        BY <1>5, <2>5, LeastIsThere
      <3> QED
        BY <2>3, <3>1
    <2>7. i \notin Recorded(r.pictures)
      BY <1>9, <2>5
    <2>8. t = Taking(r, i, f)
      <3>1. t = [room EXCEPT !.pictures = Append(@, [icon |-> i, file |-> f]),
                             !.held[i] = f, !.claimed = Append(@, i)]
        BY <1>4, <1>9, <2>3, <2>5
      <3>2. r = [pictures |-> r.pictures, held |-> r.held,
                 claimed |-> r.claimed, evicted |-> r.evicted,
                 refused |-> r.refused]
        BY <2>5 DEF Balanced, Claims
      <3> HIDE DEF t, f
      <3> QED
        BY <2>3, <3>1, <3>2 DEF Taking
    <2> HIDE DEF t, f
    <2>9. /\ Balanced(t, keeping, c) /\ RefusedWhenFull(t, keeping, c)
          /\ Further(r, t, i, keeping)
          /\ Unassigned(t.held) = Unassigned(r.held) \ {f}
      BY <2>5, <2>6, <2>7, <2>8, TakesAFile
    <2>10. Further(s, t, i, keeping)
      BY <2>2, <2>4, <2>5, <2>9 DEF Further
    <2> QED
      BY <1>9, <2>5, <2>6, <2>9, <2>10 DEF Sound, t
  <1> QED
    BY <1>6, <1>7, <1>8, <1>9

\* How ClaimAll goes through what is wanted.
ClaimsRun(wanted, c, lenient, after) ==
  after = [n \in 0 .. Len(wanted) |->
             IF n = 0 THEN Claim
             ELSE LET s == after[n - 1]
                  IN IF s.refused # {} /\ ~lenient THEN s
                     ELSE Claimed(s, wanted[n], ToSet(wanted), c)]

\* What is made of the claims so far by the next.
ClaimStep(wanted, c, lenient, s, i) ==
  IF s.refused # {} /\ ~lenient THEN s
  ELSE Claimed(s, i, ToSet(wanted), c)

SoundClaims(keeping, c) == {s \in Claims : Sound(s, keeping, c)}

(* A claim begins with nothing taken and nothing given up.                 *)
LEMMA ClaimBegins ==
  ASSUME Fits(pictures, held), NEW keeping, NEW c
  PROVE  Claim \in SoundClaims(keeping, c)
  <1>1. /\ pictures \in Seq(Picture) /\ held \in [Icons -> Files \cup {NoFile}]
    BY DEF Fits, Apart
  <1>2. /\ Claim.pictures = pictures /\ Claim.held = held
        /\ Claim.claimed = <<>> /\ Claim.evicted = <<>> /\ Claim.refused = {}
        /\ Claim \in Claims
    BY <1>1 DEF Claim, Claims
  <1>3. Balanced(Claim, keeping, c)
    <2>1. Kept(Claim) = ToSet(pictures)
      BY <1>2, NothingRecorded DEF Kept
    <2> QED
      BY <1>2, <2>1, NothingRecorded DEF Balanced
  <1>4. RefusedWhenFull(Claim, keeping, c)
    BY <1>2 DEF RefusedWhenFull
  <1> QED
    BY <1>2, <1>3, <1>4 DEF SoundClaims, Sound

\* From nothing taken, claim by claim, to all that ClaimAll comes to.
SoundRun(wanted, c, lenient, after) ==
  /\ ClaimAll(wanted, c, lenient) = after[Len(wanted)]
  /\ after \in [0 .. Len(wanted) -> SoundClaims(ToSet(wanted), c)]
  /\ after[0] = Claim
  /\ \A n \in 1 .. Len(wanted) :
       after[n] = ClaimStep(wanted, c, lenient, after[n - 1], wanted[n])

LEMMA ClaimsAreMade ==
  ASSUME Fits(pictures, held), NEW wanted \in Seq(Icons), NEW c,
         NEW lenient \in BOOLEAN
  PROVE  \E after : SoundRun(wanted, c, lenient, after)
  <1> DEFINE N == Len(wanted)
             S == SoundClaims(ToSet(wanted), c)
             step == [x \in (1 .. N) \X S |->
                        ClaimStep(wanted, c, lenient, x[2], wanted[x[1]])]
  <1>1. /\ N \in Nat /\ ToSet(wanted) \in SUBSET Icons /\ Apart(pictures)
        /\ \A n \in 1 .. N : wanted[n] \in ToSet(wanted)
    BY Elements DEF Fits
  <1>2. Claim \in S
    BY ClaimBegins
  <1>3. ASSUME NEW n \in 1 .. N, NEW s \in S
        PROVE  ClaimStep(wanted, c, lenient, s, wanted[n]) \in S
    <2>1. Sound(s, ToSet(wanted), c)
      BY DEF SoundClaims
    <2>2. Sound(Claimed(s, wanted[n], ToSet(wanted), c), ToSet(wanted), c)
      BY <1>1, <2>1, ClaimsAnIcon
    <2>3. Claimed(s, wanted[n], ToSet(wanted), c) \in S
      BY <2>2 DEF SoundClaims, Sound, Balanced
    <2> QED
      BY <2>3 DEF ClaimStep
  <1> HIDE DEF S
  <1>4. step \in [(1 .. N) \X S -> S]
    BY <1>3
  <1>5. \A n \in 1 .. N : \A s \in S :
          step[<<n, s>>] = ClaimStep(wanted, c, lenient, s, wanted[n])
    OBVIOUS
  <1>6. PICK g \in [0 .. N -> S] :
               g[0] = Claim /\ \A n \in 1 .. N : g[n] = step[<<n, g[n - 1]>>]
    <2>1. step \in Steps(N, S)
      BY <1>4 DEF Steps
    <2>2. \E g : IsRun(g, N, S, Claim, step)
      <3> HIDE DEF step, N
      <3> QED
        BY <1>1, <1>2, <2>1, StepsCanBeTaken
    <2> HIDE DEF step, N
    <2> QED
      BY <2>2 DEF IsRun
  <1> HIDE DEF step
  <1>7. ClaimsRun(wanted, c, lenient, g)
    <2>1. ASSUME NEW n \in 0 .. N
          PROVE  g[n] = IF n = 0 THEN Claim
                        ELSE LET s == g[n - 1]
                             IN IF s.refused # {} /\ ~lenient THEN s
                                ELSE Claimed(s, wanted[n], ToSet(wanted), c)
      <3>1. CASE n = 0
        BY <1>6, <3>1
      <3>2. CASE n # 0
        <4>1. n \in 1 .. N /\ n - 1 \in 0 .. N /\ g[n - 1] \in S
          BY <1>1, <1>6, <3>2
        <4>2. g[n] = ClaimStep(wanted, c, lenient, g[n - 1], wanted[n])
          BY <1>5, <1>6, <4>1
        <4> QED
          BY <3>2, <4>2 DEF ClaimStep
      <3> QED
        BY <3>1, <3>2
    <2> QED
      BY <1>6, <2>1 DEF ClaimsRun
  <1>8. \E after : ClaimsRun(wanted, c, lenient, after)
    BY <1>7
  <1>9. PICK a : a = CHOOSE after : ClaimsRun(wanted, c, lenient, after)
    OBVIOUS
  <1>10. ClaimsRun(wanted, c, lenient, a)
    BY <1>8, <1>9
  <1>11. ClaimAll(wanted, c, lenient) = a[N]
    BY <1>9, Zenon DEF ClaimAll, ClaimsRun
  <1>12. /\ a[0] = Claim /\ DOMAIN a = 0 .. N
         /\ a = [n \in 0 .. N |-> a[n]]
         /\ \A n \in 1 .. N :
              a[n] = ClaimStep(wanted, c, lenient, a[n - 1], wanted[n])
    <2>1. \A n \in 0 .. N :
            a[n] = IF n = 0 THEN Claim
                   ELSE LET s == a[n - 1]
                        IN IF s.refused # {} /\ ~lenient THEN s
                           ELSE Claimed(s, wanted[n], ToSet(wanted), c)
      BY <1>10 DEF ClaimsRun
    <2>2. 0 \in 0 .. N /\ \A n \in 1 .. N : n \in 0 .. N /\ n # 0
      BY <1>1
    <2>3. \A n \in 1 .. N :
            a[n] = ClaimStep(wanted, c, lenient, a[n - 1], wanted[n])
      BY <2>1, <2>2 DEF ClaimStep
    <2>4. DOMAIN a = 0 .. N /\ a = [n \in 0 .. N |-> a[n]]
      BY <1>10 DEF ClaimsRun
    <2> QED
      BY <2>1, <2>2, <2>3, <2>4
  <1>13. a \in [0 .. N -> S]
    <2> DEFINE T == {n \in 0 .. N : a[n] \in S}
    <2>1. 0 \in T
      BY <1>1, <1>2, <1>12
    <2>2. ASSUME NEW n \in 1 .. N, n - 1 \in T
          PROVE  n \in T
      <3>1. a[n - 1] \in S /\ n \in 0 .. N
        BY <1>1, <2>2
      <3>2. ClaimStep(wanted, c, lenient, a[n - 1], wanted[n]) \in S
        BY <1>3, <3>1
      <3>3. a[n] = ClaimStep(wanted, c, lenient, a[n - 1], wanted[n])
        BY <1>12
      <3> QED
        BY <3>1, <3>2, <3>3
    <2>3. 0 .. N \subseteq T
      <3> HIDE DEF T, N
      <3> QED
        BY <1>1, <2>1, <2>2, IntervalInduction
    <2> QED
      BY <1>12, <2>3
  <1> QED
    BY <1>11, <1>12, <1>13 DEF S, SoundRun

(* All that is wanted is had, but for what is refused, where no file is    *)
(* free and every picture is called; and the pool is as sound as before.   *)
LEMMA AllIsClaimed ==
  ASSUME Fits(pictures, held), NEW wanted \in Seq(Icons), NEW c,
         NEW lenient \in BOOLEAN
  PROVE  LET s == ClaimAll(wanted, c, lenient)
         IN /\ Sound(s, ToSet(wanted), c)
            /\ lenient \/ s.refused = {} =>
                 ToSet(wanted) \subseteq Recorded(s.pictures) \cup s.refused
  <1> DEFINE N == Len(wanted)
             keeping == ToSet(wanted)
             s == ClaimAll(wanted, c, lenient)
  <1>0. PICK after : SoundRun(wanted, c, lenient, after)
    BY ClaimsAreMade
  <1>1. /\ s = after[N]
        /\ after \in [0 .. N -> SoundClaims(keeping, c)]
        /\ after[0] = Claim
        /\ \A n \in 1 .. N :
             after[n] = ClaimStep(wanted, c, lenient, after[n - 1], wanted[n])
    BY <1>0 DEF SoundRun
  <1>2. /\ N \in Nat /\ keeping = {wanted[n] : n \in 1 .. N}
        /\ keeping \in SUBSET Icons /\ Apart(pictures)
        /\ \A n \in 1 .. N : wanted[n] \in keeping
    BY Elements DEF Fits
  <1> DEFINE Had(n) ==
               (lenient \/ after[n].refused = {}) =>
                 \A k \in 1 .. n :
                   wanted[k] \in Recorded(after[n].pictures) \cup after[n].refused
             T == {n \in 0 .. N : Had(n)}
  <1> HIDE DEF s, keeping, N
  <1>3. 0 \in T
    BY <1>2
  <1>4. ASSUME NEW n \in 1 .. N, n - 1 \in T
        PROVE  n \in T
    <2> DEFINE b == after[n - 1]
               d == after[n]
               i == wanted[n]
    <2>1. /\ b \in SoundClaims(keeping, c) /\ Sound(b, keeping, c)
          /\ d = ClaimStep(wanted, c, lenient, b, i)
          /\ i \in keeping /\ Had(n - 1)
      BY <1>1, <1>2, <1>4 DEF SoundClaims
    <2>2. CASE b.refused # {} /\ ~lenient
      <3>1. d = b
        BY <2>1, <2>2 DEF ClaimStep
      <3>2. Had(n)
        BY <2>2, <3>1
      <3> QED
        BY <1>2, <3>2
    <2>3. CASE ~(b.refused # {} /\ ~lenient)
      <3>1. d = Claimed(b, i, keeping, c)
        BY <2>1, <2>3 DEF ClaimStep, keeping
      <3>2. Further(b, d, i, keeping)
        <4> HIDE DEF b, d, i
        <4> QED
          BY <1>2, <2>1, <3>1, ClaimsAnIcon
      <3>3. ASSUME NEW k \in 1 .. n
            PROVE  wanted[k] \in Recorded(d.pictures) \cup d.refused
        <4>1. CASE k = n
          BY <3>2, <4>1 DEF Further
        <4>2. CASE k # n
          <5>1. k \in 1 .. n - 1 /\ k \in 1 .. N
            BY <1>2, <4>2
          <5>2. wanted[k] \in Recorded(b.pictures) \cup b.refused
            BY <2>1, <2>3, <5>1
          <5> HIDE DEF b, d, i
          <5> QED
            BY <1>2, <3>2, <5>1, <5>2 DEF Further
        <4> QED
          BY <4>1, <4>2
      <3> QED
        BY <1>2, <3>3
    <2> QED
      BY <2>2, <2>3
  <1>5. 0 .. N \subseteq T
    <2> HIDE DEF T
    <2> QED
      BY <1>2, <1>3, <1>4, IntervalInduction
  <1>6. Had(N)
    <2>1. N \in T
      <3> HIDE DEF T
      <3> QED
        BY <1>2, <1>5
    <2> QED
      BY <2>1
  <1>7. Sound(s, keeping, c)
    BY <1>1, <1>2 DEF SoundClaims
  <1>8. lenient \/ s.refused = {} =>
          keeping \subseteq Recorded(s.pictures) \cup s.refused
    BY <1>1, <1>2, <1>6
  <1> QED
    BY <1>7, <1>8 DEF s, keeping

(* Giving back: what was taken goes, and what was given up is in its file. *)
HeldBefore(h, taken, given) ==
  [i \in Icons |-> IF i \in Recorded(given) THEN FileIn(given, i)
                   ELSE IF i \in taken THEN NoFile ELSE h[i]]

LEMMA ClaimsAreGivenBack ==
  ASSUME NEW ps, NEW h, Fits(ps, h), NEW taken, NEW given, Apart(given),
         \A p \in ToSet(given) : p.icon \notin Recorded(ps),
         \A p \in ToSet(given) : \A q \in ToSet(ps) :
           q.icon \notin taken => p.file # q.file
  PROVE  /\ Fits(Without(ps, taken) \o given, HeldBefore(h, taken, given))
         /\ ToSet(Without(ps, taken) \o given) =
              {p \in ToSet(ps) : p.icon \notin taken} \cup ToSet(given)
  <1> DEFINE left == Without(ps, taken)
             qs == left \o given
             g == HeldBefore(h, taken, given)
  <1>1. /\ Apart(ps) /\ h \in [Icons -> Files \cup {NoFile}]
        /\ \A p \in ToSet(ps) : h[p.icon] = p.file
        /\ \A i \in Icons : i \notin Recorded(ps) => h[i] = NoFile
    BY DEF Fits
  <1>2. /\ Apart(left)
        /\ ToSet(left) = {p \in ToSet(ps) : p.icon \notin taken}
    BY <1>1, Removed
  <1> HIDE DEF left
  <1>3. /\ Apart(qs) /\ ToSet(qs) = ToSet(left) \cup ToSet(given)
    <2>1. \A p \in ToSet(left) : \A q \in ToSet(given) :
            p.icon # q.icon /\ p.file # q.file
      BY <1>2 DEF Recorded
    <2>2. left \in Seq(Picture) /\ given \in Seq(Picture)
      BY <1>2 DEF Apart
    <2> QED
      BY <1>2, <2>1, <2>2, Joined, JoinedApart
  <1> HIDE DEF qs
  <1>4. ASSUME NEW p \in ToSet(given)
        PROVE  /\ p.icon \in Icons /\ p.file \in Files
               /\ FileIn(given, p.icon) = p.file
               /\ p.icon \in Recorded(given)
    BY FilesAreFound, RecordsHavePictures DEF Recorded
  <1>5. ASSUME NEW i \in Icons, i \in Recorded(given)
        PROVE  FileIn(given, i) \in Files
    BY <1>4, <1>5 DEF Recorded
  <1>6. /\ g \in [Icons -> Files \cup {NoFile}]
        /\ \A i \in Icons : g[i] = IF i \in Recorded(given) THEN FileIn(given, i)
                                   ELSE IF i \in taken THEN NoFile ELSE h[i]
    BY <1>1, <1>5 DEF HeldBefore
  <1> HIDE DEF g
  <1>7. ASSUME NEW p \in ToSet(qs)
        PROVE  g[p.icon] = p.file
    <2>1. CASE p \in ToSet(given)
      BY <1>4, <1>6, <2>1
    <2>2. CASE p \in ToSet(left)
      <3>1. p \in ToSet(ps) /\ p.icon \notin taken
        BY <1>2, <2>2
      <3>2. p.icon \in Icons /\ p.icon \in Recorded(ps)
        BY <1>1, <3>1, RecordsHavePictures DEF Recorded
      <3>3. p.icon \notin Recorded(given)
        BY <3>2 DEF Recorded
      <3> QED
        BY <1>1, <1>6, <3>1, <3>2, <3>3
    <2> QED
      BY <1>3, <1>7, <2>1, <2>2
  <1>8. ASSUME NEW i \in Icons, i \notin Recorded(qs)
        PROVE  g[i] = NoFile
    <2>1. i \notin Recorded(given) /\ i \notin Recorded(left)
      BY <1>3, <1>8 DEF Recorded
    <2>2. i \in taken \/ i \notin Recorded(ps)
      BY <1>2, <2>1 DEF Recorded
    <2> QED
      BY <1>1, <1>6, <2>1, <2>2
  <1>9. Fits(qs, g)
    BY <1>3, <1>6, <1>7, <1>8 DEF Fits
  <1>10. ToSet(qs) = {p \in ToSet(ps) : p.icon \notin taken} \cup ToSet(given)
    BY <1>2, <1>3
  <1> QED
    BY <1>9, <1>10 DEF qs, g, left

-----------------------------------------------------------------------------
(* What all the messages want.                                             *)

LEMMA SlotsAreListed ==
  /\ Cardinality(Slots) \in Nat
  /\ SetToSeq(Slots) \in [1 .. Cardinality(Slots) -> Slots]
  /\ \A k \in Slots : \E n \in 1 .. Cardinality(Slots) : SetToSeq(Slots)[n] = k
  <1> DEFINE N == Cardinality(Slots)
             f == SetToSeq(Slots)
  <1>1. IsFiniteSet(Slots)
    BY PicturePoolAssumption
  <1>2. N \in Nat /\ \E g : g \in Bijection(1 .. N, Slots)
    BY <1>1, FS_CardinalityType DEF ExistsBijection
  <1>3. \E g \in [1 .. N -> Slots] : IsInjective(g)
    BY <1>2 DEF Bijection, Injection
  <1>4. f \in [1 .. N -> Slots] /\ IsInjective(f)
    <2>1. f = CHOOSE g \in [1 .. N -> Slots] : IsInjective(g)
      BY DEF SetToSeq
    <2> HIDE DEF f, N
    <2> QED
      BY <1>3, <2>1
  <1> HIDE DEF f
  <1>5. f \in Injection(1 .. N, Slots)
    BY <1>4 DEF Injection
  <1>6. IsFiniteSet(1 .. N) /\ Cardinality(1 .. N) = N
    <2> HIDE DEF N
    <2> QED
      BY <1>2, FS_Interval
  <1>7. f \in Surjection(1 .. N, Slots)
    BY <1>1, <1>5, <1>6, FS_Injection
  <1> QED
    BY <1>2, <1>4, <1>7 DEF Surjection, f

\* How Wanted goes through the slots.
WantedRun(upTo) ==
  upTo = [n \in 0 .. Cardinality(Slots) |->
            IF n = 0 THEN <<>> ELSE upTo[n - 1] \o message[SetToSeq(Slots)[n]]]

LEMMA MessagesAreListed ==
  ASSUME message \in [Callers -> Seq(Icons)]
  PROVE  \E upTo :
           WantedRun(upTo) /\ Wanted = upTo[Cardinality(Slots)] \o message[Alert]
  <1> DEFINE N == Cardinality(Slots)
             S == Seq(Icons)
             step == [x \in (1 .. N) \X S |-> x[2] \o message[SetToSeq(Slots)[x[1]]]]
  <1>1. N \in Nat /\ <<>> \in S
    BY SlotsAreListed
  <1>2. ASSUME NEW n \in 1 .. N, NEW s \in S
        PROVE  s \o message[SetToSeq(Slots)[n]] \in S
    <2>1. SetToSeq(Slots)[n] \in Slots
      BY SlotsAreListed
    <2>2. message[SetToSeq(Slots)[n]] \in Seq(Icons)
      BY <2>1 DEF Callers
    <2> QED
      BY <2>2, Joined
  <1> HIDE DEF S
  <1>3. /\ step \in [(1 .. N) \X S -> S]
        /\ \A n \in 1 .. N : \A s \in S :
             step[<<n, s>>] = s \o message[SetToSeq(Slots)[n]]
    BY <1>2
  <1>4. PICK g \in [0 .. N -> S] :
               g[0] = <<>> /\ \A n \in 1 .. N : g[n] = step[<<n, g[n - 1]>>]
    <2>1. step \in Steps(N, S)
      BY <1>3 DEF Steps
    <2>2. \E g : IsRun(g, N, S, <<>>, step)
      <3> HIDE DEF step, N
      <3> QED
        BY <1>1, <2>1, StepsCanBeTaken
    <2> HIDE DEF step, N
    <2> QED
      BY <2>2 DEF IsRun
  <1> HIDE DEF step
  <1>5. WantedRun(g)
    <2>1. ASSUME NEW n \in 0 .. N
          PROVE  g[n] = IF n = 0 THEN <<>>
                        ELSE g[n - 1] \o message[SetToSeq(Slots)[n]]
      <3>1. CASE n = 0
        BY <1>4, <3>1
      <3>2. CASE n # 0
        <4>1. n \in 1 .. N /\ n - 1 \in 0 .. N /\ g[n - 1] \in S
          BY <1>1, <1>4, <3>2
        <4> QED
          BY <1>3, <1>4, <3>2, <4>1
      <3> QED
        BY <3>1, <3>2
    <2> QED
      BY <1>4, <2>1 DEF WantedRun
  <1>6. \E upTo : WantedRun(upTo)
    BY <1>5
  <1>7. PICK a : a = CHOOSE upTo : WantedRun(upTo)
    OBVIOUS
  <1>8. WantedRun(a)
    BY <1>6, <1>7
  <1>9. Wanted = a[N] \o message[Alert]
    BY <1>7, Zenon DEF Wanted, WantedRun
  <1> QED
    BY <1>8, <1>9

LEMMA WantedIsCalled ==
  ASSUME message \in [Callers -> Seq(Icons)]
  PROVE  /\ Wanted \in Seq(Icons)
         /\ \A c \in Callers : ToSet(message[c]) \subseteq ToSet(Wanted)
  <1> DEFINE N == Cardinality(Slots)
             k == SetToSeq(Slots)
  <1>1. PICK a : WantedRun(a) /\ Wanted = a[N] \o message[Alert]
    BY MessagesAreListed
  <1>2. /\ N \in Nat /\ \A n \in 1 .. N : k[n] \in Slots
        /\ \A x \in Slots : \E n \in 1 .. N : k[n] = x
    BY SlotsAreListed
  <1>3. a[0] = <<>> /\ \A n \in 1 .. N : a[n] = a[n - 1] \o message[k[n]]
    <2>1. \A n \in 0 .. N : a[n] = IF n = 0 THEN <<>>
                                   ELSE a[n - 1] \o message[k[n]]
      BY <1>1 DEF WantedRun
    <2>2. 0 \in 0 .. N /\ \A n \in 1 .. N : n \in 0 .. N /\ n # 0
      BY <1>2
    <2> QED
      BY <2>1, <2>2
  <1> HIDE DEF N, k
  <1> DEFINE T == {n \in 0 .. N :
                     /\ a[n] \in Seq(Icons)
                     /\ \A x \in 1 .. n : ToSet(message[k[x]]) \subseteq ToSet(a[n])}
  <1>4. 0 \in T
    <2>1. a[0] \in Seq(Icons) /\ 0 \in 0 .. N /\ 1 .. 0 = {}
      BY <1>2, <1>3
    <2> QED
      BY <2>1
  <1>5. ASSUME NEW n \in 1 .. N, n - 1 \in T
        PROVE  n \in T
    <2>1. message[k[n]] \in Seq(Icons)
      BY <1>2 DEF Callers
    <2>2. /\ a[n] \in Seq(Icons)
          /\ ToSet(a[n]) = ToSet(a[n - 1]) \cup ToSet(message[k[n]])
      <3>1. a[n - 1] \in Seq(Icons) /\ a[n] = a[n - 1] \o message[k[n]]
        BY <1>3, <1>5
      <3> QED
        BY <2>1, <3>1, Joined
    <2>3. ASSUME NEW x \in 1 .. n
          PROVE  ToSet(message[k[x]]) \subseteq ToSet(a[n])
      <3>1. CASE x = n
        BY <2>2, <3>1
      <3>2. CASE x # n
        <4>1. x \in 1 .. n - 1
          BY <1>2, <3>2
        <4> QED
          BY <1>5, <2>2, <4>1
      <3> QED
        BY <3>1, <3>2
    <2>4. n \in 0 .. N
      BY <1>2
    <2> QED
      BY <2>2, <2>3, <2>4
  <1>6. N \in T
    <2>1. 0 .. N \subseteq T
      <3> HIDE DEF T
      <3> QED
        BY <1>2, <1>4, <1>5, IntervalInduction
    <2> HIDE DEF T
    <2> QED
      BY <1>2, <2>1
  <1>7. message[Alert] \in Seq(Icons)
    BY DEF Callers
  <1>8. /\ Wanted \in Seq(Icons)
        /\ ToSet(Wanted) = ToSet(a[N]) \cup ToSet(message[Alert])
    BY <1>1, <1>6, <1>7, Joined
  <1>9. ASSUME NEW c \in Callers
        PROVE  ToSet(message[c]) \subseteq ToSet(Wanted)
    <2>1. CASE c = Alert
      BY <1>8, <2>1
    <2>2. CASE c \in Slots
      <3>1. PICK n \in 1 .. N : k[n] = c
        BY <1>2, <2>2
      <3> QED
        BY <1>6, <1>8, <3>1
    <2> QED
      BY <2>1, <2>2 DEF Callers
  <1> QED
    BY <1>8, <1>9

-----------------------------------------------------------------------------
(* The inductive invariant.                                                *)

\* What is recorded once the operation that is under way is undone.
StillThere == {p \in ToSet(pictures) : p.icon \notin op.claimed}
Lasting == StillThere \cup ToSet(op.evicted)

IconsIn(ps) == {p.icon : p \in ps}

Stages == {"none", "claimed", "draw", "write", "rewrite", "texts", "revert"}
Claiming == {"claimed", "draw", "write"}

Ops == [at : Stages, who : Callers \cup {Nobody}, text : Messages,
        claimed : SUBSET Icons, evicted : Seq(Picture), todo : Seq(Icons),
        texts : SUBSET Slots]

Distinct(s) ==
  \A a \in 1 .. Len(s) : \A b \in 1 .. Len(s) : a # b => s[a] # s[b]

\* What the operation that is under way has done to the pool.
OpOK ==
  /\ op \in Ops
  /\ op.at = "none" => op = Idle
  /\ op.at \in Claiming =>
       /\ op.who \in Callers /\ ToSet(op.text) \subseteq Recorded(pictures)
       /\ ToSet(op.todo) \subseteq op.claimed
  /\ op.at \notin Claiming =>
       op.claimed = {} /\ op.evicted = <<>> /\ op.who \in {Nobody, Alert}
  /\ op.at \in {"rewrite", "texts"} => op.who = Nobody
  /\ op.at = "revert" => op.who = Alert
  /\ op.at \in {"write", "texts"} => op.todo = <<>>
  /\ op.at \in {"rewrite", "revert"} => Distinct(op.todo)
  /\ op.claimed \subseteq Recorded(pictures)
  /\ ToSet(op.todo) \subseteq Recorded(pictures)

\* What was given up for it can come back, and only it may call that.
EvictedOK ==
  /\ Apart(op.evicted)
  /\ \A p \in ToSet(op.evicted) :
       /\ p.icon \notin Recorded(pictures)
       /\ \A q \in StillThere : p.file # q.file
       /\ ~InUse(p.icon, op.who)

\* What a message calls is there, and is to stay; or it is known to be lost.
CalledOK ==
  \A c \in Callers :
    ToSet(message[c]) \subseteq
      lost \cup IconsIn(IF c = op.who THEN Lasting ELSE StillThere)

PoolOK == TypeOK /\ Fits(pictures, held) /\ OpOK /\ EvictedOK /\ CalledOK

\* Nothing is known to be wrong, or it is being put right.
Right == ~dirty \/ op.at \in {"rewrite", "texts"}

\* What is believed of a file is so, unless it is known to be wrong.
FilesOK ==
  /\ Right =>
       \A p \in ToSet(pictures) :
         p.file \in written /\ p.icon \notin ToSet(op.todo) =>
           drawn[p.file] = p.icon
  /\ op.at = "rewrite" =>
       \A p \in ToSet(pictures) :
         p.icon \in ToSet(op.todo) => p.file \notin written
  /\ op.at = "revert" /\ op.todo # <<>> => dirty

\* The pictures that a text may call as long as nothing is known to be wrong.
Callable ==
  Lasting \cup (IF op.evicted = <<>> THEN {} ELSE ToSet(pictures))

CallsItsOwn(c) ==
  \A i \in DOMAIN shown[c] \cap ToSet(message[c]) :
    \E p \in Callable : p.icon = i /\ p.file = shown[c][i]

\* A refresh puts the texts right one by one.
TextIsRight(c) ==
  /\ ~dirty \/ (op.at \in {"rewrite", "texts"} /\ c \notin op.texts)
  /\ c = Alert => ~doubt

TextsOK == \A c \in Callers : TextIsRight(c) => CallsItsOwn(c)

\* An icon that is called and has no file finds none free.
FullOrAllOK ==
  Right =>
    \/ \A f \in Files : \E p \in Lasting : p.file = f
    \/ \A c \in Callers : ToSet(message[c]) \subseteq IconsIn(Lasting)

\* What was given up for another icon is in a file that one has now.
TakenOK ==
  \A p \in ToSet(op.evicted) : \E q \in ToSet(pictures) : q.file = p.file

SignOK == FilesOK /\ TextsOK /\ FullOrAllOK /\ TakenOK

IInv == PoolOK /\ SignOK

(* A full pool that is all called leaves a message short only where there  *)
(* are more icons than files.                                              *)
LEMMA RefusalsCount ==
  ASSUME message \in [Callers -> Messages], Fits(pictures, held)
  PROVE  RefusalIsHonest
  <1>1. SUFFICES ASSUME NEW c \in Callers, NEW m \in Messages,
                        ClaimsOf(c, m).refused # {}
                 PROVE  Cardinality(ToSet(m) \cup
                          UNION {ToSet(message[d]) : d \in Callers \ {c}})
                            > FileCount
    BY DEF RefusalIsHonest
  <1> DEFINE s == ClaimsOf(c, m)
             calls == ToSet(m) \cup
                        UNION {ToSet(message[d]) : d \in Callers \ {c}}
             had == Recorded(s.pictures)
  <1>2. m \in Seq(Icons) /\ FALSE \in BOOLEAN
    BY PicturePoolAssumption
  <1>3. Sound(s, ToSet(m), c)
    BY <1>2, AllIsClaimed DEF ClaimsOf
  <1>4. PICK i \in s.refused : TRUE
    BY <1>1
  <1> HIDE DEF s
  <1>5. /\ Fits(s.pictures, s.held) /\ Apart(s.pictures)
        /\ Unassigned(s.held) = {}
        /\ i \in ToSet(m) /\ i \notin had
        /\ \A p \in ToSet(s.pictures) : p.icon \in ToSet(m) \/ InUse(p.icon, c)
    BY <1>3, <1>4 DEF Sound, Balanced, RefusedWhenFull, Fits
  <1>6. had \cup {i} \subseteq calls
    <2>1. ASSUME NEW p \in ToSet(s.pictures), InUse(p.icon, c)
          PROVE  p.icon \in calls
      BY <2>1 DEF InUse
    <2> QED
      BY <1>5, <2>1 DEF Recorded
  <1>7. calls \subseteq Icons /\ IsFiniteSet(calls)
    <2>1. ToSet(m) \subseteq Icons
      BY <1>2, Elements
    <2>2. ASSUME NEW d \in Callers
          PROVE  ToSet(message[d]) \subseteq Icons
      <3>1. message[d] \in Seq(Icons)
        BY PicturePoolAssumption
      <3> QED
        BY <3>1, Elements
    <2>3. calls \in SUBSET Icons
      BY <2>1, <2>2
    <2> HIDE DEF calls
    <2> QED
      BY <2>3, FS_Subset, PicturePoolAssumption
  <1>8. IsFiniteSet(had) /\ FileCount <= Cardinality(had)
    <2> DEFINE of(f) == CHOOSE p \in ToSet(s.pictures) : p.file = f
               g == [f \in Files |-> of(f).icon]
    <2>1. ASSUME NEW f \in Files
          PROVE  of(f) \in ToSet(s.pictures) /\ of(f).file = f
      <3>1. \E p \in ToSet(s.pictures) : p.file = f
        BY <1>5, FreeFiles
      <3> QED
        BY <3>1
    <2> HIDE DEF of
    <2>2. g \in [Files -> had]
      BY <2>1 DEF Recorded
    <2>3. \A e \in Files : \A f \in Files : g[e] = g[f] => e = f
      BY <1>5, <2>1, RecordsHavePictures
    <2> HIDE DEF g
    <2>4. g \in Injection(Files, had)
      BY <2>2, <2>3 DEF Injection, IsInjective
    <2>5. had \in SUBSET calls /\ IsFiniteSet(had)
      <3>1. had \in SUBSET calls
        BY <1>6
      <3> HIDE DEF had, calls
      <3> QED
        BY <1>7, <3>1, FS_Subset
    <2> HIDE DEF had
    <2> QED
      BY <2>4, <2>5, FilesAreNumbers, FS_Injection
  <1>9. Cardinality(had \cup {i}) = Cardinality(had) + 1
        /\ IsFiniteSet(had \cup {i})
    <2> HIDE DEF had
    <2> QED
      BY <1>5, <1>8, FS_AddElement
  <1>10. Cardinality(had \cup {i}) <= Cardinality(calls)
    <2>1. had \cup {i} \in SUBSET calls
      BY <1>6
    <2> HIDE DEF had, calls
    <2> QED
      BY <1>7, <2>1, FS_Subset
  <1>11. /\ Cardinality(had) \in Nat /\ Cardinality(calls) \in Nat
         /\ FileCount \in Nat
    <2> HIDE DEF had, calls
    <2> QED
      BY <1>7, <1>8, FS_CardinalityType, PicturePoolAssumption
  <1> HIDE DEF had, calls
  <1>12. Cardinality(calls) > FileCount
    BY <1>8, <1>9, <1>10, <1>11
  <1> QED
    BY <1>12 DEF calls

-----------------------------------------------------------------------------
(* Every step keeps it.                                                    *)

LEMMA OpsAreWhole ==
  /\ Idle \in Ops
  /\ \A o \in Ops : DOMAIN o = DOMAIN Idle
  BY PicturePoolAssumption DEF Idle, Ops, Stages

LEMMA MessagesHaveIcons ==
  ASSUME NEW m \in Messages
  PROVE  m \in Seq(Icons) /\ ToSet(m) \subseteq Icons
  <1>1. m \in Seq(Icons)
    BY PicturePoolAssumption
  <1> QED
    BY <1>1, Elements

LEMMA NothingIsCalled == <<>> \in Messages /\ ToSet(<<>>) = {}
  BY PicturePoolAssumption, NothingRecorded

\* A message stays, or goes.
MessagesMayGo ==
  \A c \in Callers : message'[c] = message[c] \/ message'[c] = <<>>

\* The operation keeps what it has taken and given up, or has nothing of it.
ClaimsStay ==
  \/ /\ op'.claimed = op.claimed /\ op'.evicted = op.evicted
     /\ op'.who = op.who
  \/ /\ op.at \notin Claiming
     /\ op'.claimed = {} /\ op'.evicted = <<>>

(* What leaves the pool and the claims alone keeps what is said of them.   *)
LEMMA SamePool ==
  ASSUME PoolOK, UNCHANGED pool, MessagesMayGo, ClaimsStay
  PROVE  Fits(pictures', held') /\ EvictedOK' /\ CalledOK'
  <1>1. /\ pictures' = pictures /\ held' = held /\ lost' = lost
        /\ Fits(pictures, held) /\ OpOK /\ EvictedOK /\ CalledOK
    BY DEF pool, PoolOK
  <1>2. ASSUME NEW i, NEW c, InUse(i, c)'
        PROVE  InUse(i, c)
    BY <1>2, NothingIsCalled DEF InUse, MessagesMayGo
  <1>3. CASE /\ op'.claimed = op.claimed /\ op'.evicted = op.evicted
             /\ op'.who = op.who
    <2>1. StillThere' = StillThere /\ Lasting' = Lasting
      BY <1>1, <1>3 DEF StillThere, Lasting
    <2>2. EvictedOK'
      BY <1>1, <1>2, <1>3, <2>1 DEF EvictedOK
    <2>3. CalledOK'
      BY <1>1, <1>3, <2>1, NothingIsCalled DEF CalledOK, MessagesMayGo
    <2> QED
      BY <1>1, <2>2, <2>3
  <1>4. CASE /\ op.at \notin Claiming
             /\ op'.claimed = {} /\ op'.evicted = <<>>
    <2>1. /\ StillThere' = ToSet(pictures) /\ Lasting' = ToSet(pictures)
          /\ StillThere = ToSet(pictures) /\ Lasting = ToSet(pictures)
      BY <1>1, <1>4, NothingRecorded DEF StillThere, Lasting, OpOK
    <2>2. EvictedOK'
      BY <1>4, NothingRecorded DEF EvictedOK
    <2>3. CalledOK'
      BY <1>1, <2>1, NothingIsCalled DEF CalledOK, MessagesMayGo
    <2> QED
      BY <1>1, <2>2, <2>3
  <1> QED
    BY <1>3, <1>4 DEF ClaimsStay

(* Undoing leaves what was to last, and nothing in flight.                 *)
LEMMA UndoneIsAsBefore ==
  ASSUME PoolOK, UndoPool(Took), op'.claimed = {}, op'.evicted = <<>>,
         UNCHANGED <<message, lost>>
  PROVE  /\ Fits(pictures', held') /\ EvictedOK' /\ CalledOK'
         /\ ToSet(pictures') = Lasting
         /\ StillThere' = Lasting /\ Lasting' = Lasting
  <1>1. /\ Fits(pictures, held) /\ OpOK /\ EvictedOK /\ CalledOK
    BY DEF PoolOK
  <1>2. /\ pictures' = Without(pictures, op.claimed) \o op.evicted
        /\ held' = HeldBefore(held, op.claimed, op.evicted)
    BY DEF UndoPool, Took, Restored, HeldBefore
  <1>3. /\ Fits(pictures', held') /\ ToSet(pictures') = Lasting
    <2>1. /\ Apart(op.evicted)
          /\ \A p \in ToSet(op.evicted) : p.icon \notin Recorded(pictures)
          /\ \A p \in ToSet(op.evicted) : \A q \in ToSet(pictures) :
               q.icon \notin op.claimed => p.file # q.file
      BY <1>1 DEF EvictedOK, StillThere
    <2>2. /\ Fits(Without(pictures, op.claimed) \o op.evicted,
                  HeldBefore(held, op.claimed, op.evicted))
          /\ ToSet(Without(pictures, op.claimed) \o op.evicted) =
               {p \in ToSet(pictures) : p.icon \notin op.claimed}
                 \cup ToSet(op.evicted)
      BY <1>1, <2>1, ClaimsAreGivenBack
    <2> QED
      BY <1>2, <2>2 DEF Lasting, StillThere
  <1>4. StillThere' = Lasting /\ Lasting' = Lasting
    <2>1. StillThere' = ToSet(pictures') /\ Lasting' = ToSet(pictures')
      BY NothingRecorded DEF StillThere, Lasting
    <2> QED
      BY <1>3, <2>1
  <1>5. EvictedOK'
    BY NothingRecorded DEF EvictedOK
  <1>6. CalledOK'
    <2>1. IconsIn(StillThere) \subseteq IconsIn(Lasting)
      BY DEF Lasting, IconsIn
    <2>2. ASSUME NEW c \in Callers
          PROVE  ToSet(message'[c]) \subseteq lost' \cup IconsIn(Lasting)
      BY <1>1, <2>1 DEF CalledOK
    <2> QED
      BY <1>4, <2>2 DEF CalledOK
  <1> QED
    BY <1>3, <1>4, <1>5, <1>6

LEMMA HeadAndTail ==
  ASSUME NEW S, NEW s \in Seq(S), s # <<>>
  PROVE  /\ Head(s) \in S /\ Tail(s) \in Seq(S)
         /\ ToSet(s) = {Head(s)} \cup ToSet(Tail(s))
         /\ Distinct(s) => Distinct(Tail(s)) /\ Head(s) \notin ToSet(Tail(s))
  <1>1. /\ Len(s) \in Nat \ {0} /\ Head(s) = s[1] /\ Head(s) \in S
        /\ Tail(s) \in Seq(S) /\ Len(Tail(s)) = Len(s) - 1
        /\ \A n \in 1 .. Len(s) - 1 : Tail(s)[n] = s[n + 1]
    OBVIOUS
  <1>2. /\ ToSet(s) = {s[n] : n \in 1 .. Len(s)}
        /\ ToSet(Tail(s)) = {Tail(s)[n] : n \in 1 .. Len(s) - 1}
    <2>1. ToSet(Tail(s)) = {Tail(s)[n] : n \in 1 .. Len(Tail(s))}
      BY <1>1, Elements
    <2> QED
      BY <1>1, <2>1, Elements
  <1>3. \A n \in 1 .. Len(s) : n = 1 \/ n - 1 \in 1 .. Len(s) - 1
    BY <1>1
  <1>4. \A n \in 1 .. Len(s) - 1 : n + 1 \in 1 .. Len(s) /\ n + 1 # 1
    BY <1>1
  <1>5. 1 \in 1 .. Len(s)
    BY <1>1
  <1>6. ToSet(s) \subseteq {Head(s)} \cup ToSet(Tail(s))
    <2>1. ASSUME NEW n \in 1 .. Len(s), n # 1
          PROVE  s[n] = Tail(s)[n - 1] /\ n - 1 \in 1 .. Len(s) - 1
      BY <1>1, <2>1
    <2> QED
      BY <1>1, <1>2, <2>1, SMTT(30)
  <1>7. {Head(s)} \cup ToSet(Tail(s)) \subseteq ToSet(s)
    BY <1>1, <1>2, <1>4, <1>5
  <1>8. ASSUME Distinct(s)
        PROVE  Distinct(Tail(s)) /\ Head(s) \notin ToSet(Tail(s))
    <2>1. ASSUME NEW a \in 1 .. Len(s) - 1, NEW b \in 1 .. Len(s) - 1, a # b
          PROVE  Tail(s)[a] # Tail(s)[b]
      <3>1. a + 1 # b + 1
        BY <1>1, <2>1
      <3> QED
        BY <1>1, <1>4, <1>8, <3>1 DEF Distinct
    <2>2. \A a \in 1 .. Len(s) - 1 : Tail(s)[a] # Head(s)
      BY <1>1, <1>4, <1>5, <1>8 DEF Distinct
    <2> QED
      BY <1>1, <1>2, <2>1, <2>2 DEF Distinct
  <1> QED
    BY <1>1, <1>6, <1>7, <1>8

LEMMA NextToDraw ==
  ASSUME PoolOK, op.todo # <<>>
  PROVE  /\ op.todo \in Seq(Icons) /\ Head(op.todo) \in Icons
         /\ Tail(op.todo) \in Seq(Icons)
         /\ ToSet(op.todo) = {Head(op.todo)} \cup ToSet(Tail(op.todo))
         /\ Distinct(op.todo) =>
              /\ Distinct(Tail(op.todo))
              /\ Head(op.todo) \notin ToSet(Tail(op.todo))
         /\ \E p \in ToSet(pictures) :
              /\ p.icon = Head(op.todo) /\ p.file \in Files
              /\ FileIn(pictures, Head(op.todo)) = p.file
  <1>1. op.todo \in Seq(Icons) /\ ToSet(op.todo) \subseteq Recorded(pictures)
    BY DEF PoolOK, OpOK, Ops
  <1>2. /\ Head(op.todo) \in Icons
        /\ Tail(op.todo) \in Seq(Icons)
        /\ ToSet(op.todo) = {Head(op.todo)} \cup ToSet(Tail(op.todo))
        /\ Distinct(op.todo) =>
             /\ Distinct(Tail(op.todo))
             /\ Head(op.todo) \notin ToSet(Tail(op.todo))
    BY <1>1, HeadAndTail
  <1>3. PICK p \in ToSet(pictures) : p.icon = Head(op.todo)
    BY <1>1, <1>2 DEF Recorded
  <1>4. p.file \in Files /\ FileIn(pictures, p.icon) = p.file
    BY FilesAreFound, RecordsHavePictures DEF PoolOK, Fits
  <1> QED
    BY <1>1, <1>2, <1>3, <1>4

LEMMA FaultsAreTyped ==
  ASSUME PoolOK, NEW f, Faulty(f)
  PROVE  /\ written' \in SUBSET written /\ owed' \in BOOLEAN
         /\ faults' \in 0 .. MaxFaults
  <1>1. owed \in BOOLEAN /\ faults \in 0 .. MaxFaults /\ MaxFaults \in Nat
    BY PicturePoolAssumption DEF PoolOK, TypeOK
  <1>2. faults < MaxFaults /\ faults' = faults + 1
    BY DEF Faulty
  <1>3. \/ written' = {} /\ owed' = TRUE
        \/ written' = written \ {f} /\ owed' = owed
    BY DEF Faulty
  <1>4. faults' \in 0 .. MaxFaults
    BY <1>1, <1>2
  <1>5. written' \in SUBSET written /\ owed' \in BOOLEAN
    BY <1>1, <1>3
  <1> QED
    BY <1>4, <1>5

(* What a drawing may have left behind is an icon in a file of its own.    *)
LEMMA DrawingsAreTyped ==
  ASSUME PoolOK, MayHaveDrawn
  PROVE  /\ drawn' \in [Files -> Icons \cup {Blank}]
         /\ written' \in SUBSET written /\ owed' \in BOOLEAN
         /\ faults' \in 0 .. MaxFaults
  <1>1. drawn \in [Files -> Icons \cup {Blank}]
    BY DEF PoolOK, TypeOK
  <1>2. /\ written' \in SUBSET written /\ owed' \in BOOLEAN
        /\ faults' \in 0 .. MaxFaults
    BY FaultsAreTyped DEF MayHaveDrawn
  <1>3. CASE op.todo = <<>>
    BY <1>1, <1>2, <1>3 DEF MayHaveDrawn
  <1>4. CASE op.todo # <<>>
    <2>1. drawn' \in [Files -> Icons \cup {Blank}]
      BY <1>1, <1>4, NextToDraw DEF MayHaveDrawn
    <2> QED
      BY <1>2, <1>4, <2>1 DEF MayHaveDrawn
  <1> QED
    BY <1>3, <1>4

\* What PoolOK says of the types, but for the pool's own.
Typed ==
  /\ message \in [Callers -> Messages]
  /\ drawn \in [Files -> Icons \cup {Blank}] /\ written \subseteq Files
  /\ DOMAIN shown = Callers
  /\ dirty \in BOOLEAN /\ doubt \in BOOLEAN /\ owed \in BOOLEAN
  /\ lost \subseteq Icons /\ faults \in 0 .. MaxFaults

LEMMA PoolIs ==
  /\ PoolOK <=> Typed /\ Fits(pictures, held) /\ OpOK /\ EvictedOK /\ CalledOK
  /\ PoolOK' <=> /\ Typed' /\ Fits(pictures', held')
                 /\ OpOK' /\ EvictedOK' /\ CalledOK'
  <1>1. PoolOK <=> Typed /\ Fits(pictures, held) /\ OpOK /\ EvictedOK /\ CalledOK
    BY OpsAreWhole DEF PoolOK, TypeOK, Typed, Fits, Apart, OpOK
  <1>2. PoolOK' <=> /\ Typed' /\ Fits(pictures', held')
                    /\ OpOK' /\ EvictedOK' /\ CalledOK'
    BY OpsAreWhole DEF PoolOK, TypeOK, Typed, Fits, Apart, OpOK
  <1> QED
    BY <1>1, <1>2

LEMMA UndoKeepsThePool ==
  ASSUME PoolOK, UndoPool(Took), Typed', OpOK', op'.claimed = {},
         op'.evicted = <<>>, UNCHANGED <<message, lost>>
  PROVE  PoolOK'
  BY UndoneIsAsBefore, PoolIs

LEMMA IdleIsOK ==
  ASSUME op' = Idle
  PROVE  OpOK' /\ op'.claimed = {} /\ op'.evicted = <<>>
  <1>1. /\ Idle.at = "none" /\ Idle.who = Nobody /\ Idle.claimed = {}
        /\ Idle.evicted = <<>> /\ Idle.todo = <<>> /\ Idle \in Ops
    BY OpsAreWhole DEF Idle
  <1> QED
    BY <1>1, NothingRecorded DEF OpOK, Claiming

LEMMA RefuseKeepsThePool ==
  ASSUME PoolOK, Refuse
  PROVE  PoolOK'
  <1>1. UndoPool(Took) /\ op' = Idle /\ UNCHANGED <<message, lost>>
    BY DEF Refuse, Undo
  <1>2. Typed'
    <2>1. Typed
      BY PoolIs
    <2>2. dirty' \in BOOLEAN
      BY <2>1 DEF Refuse, Undo, Typed
    <2>3. CASE UNCHANGED <<sign, owed, faults>>
      BY <1>1, <2>1, <2>2, <2>3 DEF Typed, sign
    <2>4. CASE /\ op.claimed # {} /\ Faulty(NoFile)
               /\ doubt' = (doubt \/ message[Alert] # <<>>)
               /\ shown' \in {shown, [shown EXCEPT ![Alert] = <<>>]}
               /\ UNCHANGED drawn
      <3>1. doubt' \in BOOLEAN
        BY <2>1, <2>4 DEF Typed
      <3>2. DOMAIN shown' = Callers
        BY <2>1, <2>4 DEF Typed
      <3> QED
        BY <1>1, <2>1, <2>2, <2>4, <3>1, <3>2, FaultsAreTyped DEF Typed
    <2> QED
      BY <2>3, <2>4 DEF Refuse
  <1> QED
    BY <1>1, <1>2, IdleIsOK, UndoKeepsThePool

LEMMA HandBackKeepsThePool ==
  ASSUME PoolOK, HandBack
  PROVE  PoolOK'
  <1>1. Typed /\ OpOK
    BY PoolIs
  <1>2. /\ op.at = "claimed" /\ op' = [op EXCEPT !.at = "draw"]
        /\ UNCHANGED <<pool, message>>
    BY DEF HandBack
  <1>3. /\ op' \in Ops /\ op'.at = "draw" /\ op'.who = op.who
        /\ op'.text = op.text /\ op'.claimed = op.claimed
        /\ op'.evicted = op.evicted /\ op'.todo = op.todo
    BY <1>1, <1>2 DEF OpOK, Ops, Stages
  <1>4. Typed'
    BY <1>1, <1>2 DEF Typed, HandBack, pool
  <1>5. OpOK'
    BY <1>1, <1>2, <1>3 DEF OpOK, Claiming, pool
  <1> QED
    BY <1>2, <1>3, <1>4, <1>5, SamePool, PoolIs DEF ClaimsStay, MessagesMayGo

LEMMA NothingToDrawKeepsThePool ==
  ASSUME PoolOK, NothingToDraw
  PROVE  PoolOK'
  <1>1. Typed /\ OpOK
    BY PoolIs
  <1>2. /\ op.at = "claimed" /\ op' = [op EXCEPT !.at = "write"]
        /\ op.claimed = {}
        /\ UNCHANGED <<pool, message, sign, dirty, owed, faults>>
    BY DEF NothingToDraw
  <1>3. /\ op' \in Ops /\ op'.at = "write" /\ op'.who = op.who
        /\ op'.text = op.text /\ op'.claimed = op.claimed
        /\ op'.evicted = op.evicted /\ op'.todo = op.todo
    BY <1>1, <1>2 DEF OpOK, Ops, Stages
  <1>4. op.todo = <<>>
    <2>1. op.todo \in Seq(Icons) /\ ToSet(op.todo) = {}
      BY <1>1, <1>2 DEF OpOK, Ops, Claiming
    <2>2. ASSUME op.todo # <<>>
          PROVE  FALSE
      <3>1. ToSet(op.todo) = {Head(op.todo)} \cup ToSet(Tail(op.todo))
        BY <2>2, NextToDraw
      <3> QED
        BY <2>1, <3>1
    <2> QED
      BY <2>2
  <1>5. Typed'
    BY <1>1, <1>2 DEF Typed, sign, pool
  <1>6. OpOK'
    BY <1>1, <1>2, <1>3, <1>4 DEF OpOK, Claiming, pool
  <1> QED
    BY <1>2, <1>3, <1>5, <1>6, SamePool, PoolIs DEF ClaimsStay, MessagesMayGo

LEMMA DrawKeepsThePool ==
  ASSUME PoolOK, Draw
  PROVE  PoolOK'
  <1>1. Typed /\ OpOK
    BY PoolIs
  <1> DEFINE i == Head(op.todo)
             f == FileIn(pictures, i)
  <1>2. /\ op.at \in {"draw", "rewrite", "revert"} /\ op.todo # <<>>
        /\ drawn' = [drawn EXCEPT ![f] = i] /\ written' = written \cup {f}
        /\ op' = [op EXCEPT !.todo = Tail(@)]
        /\ UNCHANGED <<pool, message, shown, doubt, dirty, owed, faults>>
    BY DEF Draw
  <1>3. /\ i \in Icons /\ f \in Files /\ Tail(op.todo) \in Seq(Icons)
        /\ ToSet(Tail(op.todo)) \subseteq ToSet(op.todo)
        /\ Distinct(op.todo) => Distinct(Tail(op.todo))
    BY <1>2, NextToDraw
  <1> HIDE DEF i, f
  <1>4. /\ op' \in Ops /\ op'.at = op.at /\ op'.who = op.who
        /\ op'.text = op.text /\ op'.claimed = op.claimed
        /\ op'.evicted = op.evicted /\ op'.todo = Tail(op.todo)
    BY <1>1, <1>2, <1>3 DEF OpOK, Ops
  <1>5. Typed'
    BY <1>1, <1>2, <1>3 DEF Typed, pool
  <1>6. OpOK'
    BY <1>1, <1>2, <1>3, <1>4 DEF OpOK, Claiming, pool
  <1> QED
    BY <1>2, <1>4, <1>5, <1>6, SamePool, PoolIs DEF ClaimsStay, MessagesMayGo

LEMMA PutBackKeepsThePool ==
  ASSUME PoolOK, PutBack
  PROVE  PoolOK'
  <1>1. Typed /\ OpOK
    BY PoolIs
  <1>2. /\ op.todo = <<>>
        /\ op.at \in {"rewrite", "revert"} \/ (op.at = "draw" /\ op.who \in Slots)
        /\ op' = IF op.at = "revert" THEN Idle
                 ELSE [op EXCEPT !.at = IF @ = "draw" THEN "write" ELSE "texts"]
        /\ UNCHANGED <<pool, drawn, written, dirty, owed, faults>>
    BY DEF PutBack
  <1>3. \/ /\ DOMAIN shown' = DOMAIN shown /\ UNCHANGED message
           /\ doubt' = (doubt /\ message[Alert] = <<>>)
        \/ /\ message' = [message EXCEPT ![Alert] = <<>>]
           /\ UNCHANGED <<shown, doubt>>
    BY DEF PutBack
  <1>4. MessagesMayGo
    BY <1>1, <1>3 DEF MessagesMayGo, Typed
  <1>5. Typed'
    <2>1. message' \in [Callers -> Messages]
      BY <1>1, <1>3, NothingIsCalled DEF Typed
    <2>2. doubt' \in BOOLEAN /\ DOMAIN shown' = Callers
      BY <1>1, <1>3 DEF Typed
    <2> QED
      BY <1>1, <1>2, <2>1, <2>2 DEF Typed, pool
  <1>6. CASE op.at = "revert"
    <2>1. op' = Idle
      BY <1>2, <1>6
    <2>2. ClaimsStay
      BY <1>6, <2>1, IdleIsOK DEF ClaimsStay, Claiming
    <2> QED
      BY <1>2, <1>4, <1>5, <2>1, <2>2, IdleIsOK, SamePool, PoolIs
  <1>7. CASE op.at # "revert"
    <2>1. /\ op' \in Ops /\ op'.who = op.who
          /\ op'.at = IF op.at = "draw" THEN "write" ELSE "texts"
          /\ op'.text = op.text /\ op'.claimed = op.claimed
          /\ op'.evicted = op.evicted /\ op'.todo = op.todo
      BY <1>1, <1>2, <1>7 DEF OpOK, Ops, Stages
    <2>2. OpOK'
      BY <1>1, <1>2, <1>7, <2>1 DEF OpOK, Claiming, pool
    <2>3. ClaimsStay
      BY <2>1 DEF ClaimsStay
    <2> QED
      BY <1>2, <1>4, <1>5, <2>2, <2>3, SamePool, PoolIs
  <1> QED
    BY <1>6, <1>7

LEMMA WriteKeepsThePool ==
  ASSUME PoolOK, Write
  PROVE  PoolOK'
  <1>1. Typed /\ OpOK /\ EvictedOK /\ CalledOK /\ Fits(pictures, held)
    BY PoolIs
  <1>2. /\ op.at \in Claiming
        /\ message' = [message EXCEPT ![op.who] = op.text]
        /\ shown' = [shown EXCEPT ![op.who] = Rendered(op.text, pictures)]
        /\ doubt' = (doubt /\ op.who # Alert)
        /\ lost' = lost \ op.claimed /\ op' = Idle
        /\ UNCHANGED <<pictures, held, drawn, written, dirty, owed, faults>>
    BY DEF Write, Claiming
  <1>3. /\ op.who \in Callers /\ op.text \in Messages
        /\ ToSet(op.text) \subseteq Recorded(pictures)
        /\ op.claimed \subseteq Recorded(pictures)
    BY <1>1, <1>2 DEF OpOK, Ops
  <1>4. Typed'
    <2>1. message' \in [Callers -> Messages]
      BY <1>1, <1>2, <1>3 DEF Typed
    <2>2. doubt' \in BOOLEAN /\ DOMAIN shown' = Callers
      BY <1>1, <1>2 DEF Typed
    <2> QED
      BY <1>1, <1>2, <2>1, <2>2 DEF Typed
  <1>5. OpOK' /\ op'.claimed = {} /\ op'.evicted = <<>>
    BY <1>2, IdleIsOK
  <1>6. EvictedOK'
    BY <1>5, NothingRecorded DEF EvictedOK
  <1>7. CalledOK'
    <2>1. StillThere' = ToSet(pictures) /\ Lasting' = ToSet(pictures)
      BY <1>2, <1>5, NothingRecorded DEF StillThere, Lasting
    <2>2. IconsIn(ToSet(pictures)) = Recorded(pictures)
      BY DEF IconsIn, Recorded
    <2>3. ASSUME NEW c \in Callers
          PROVE  ToSet(message'[c]) \subseteq lost' \cup Recorded(pictures)
      <3>1. CASE c = op.who
        BY <1>1, <1>2, <1>3, <3>1 DEF Typed
      <3>2. CASE c # op.who
        <4>1. ToSet(message[c]) \subseteq lost \cup IconsIn(StillThere)
          BY <1>1, <3>2 DEF CalledOK
        <4>2. IconsIn(StillThere) \subseteq Recorded(pictures)
          BY DEF IconsIn, StillThere, Recorded
        <4> QED
          BY <1>1, <1>2, <1>3, <3>2, <4>1, <4>2 DEF Typed
      <3> QED
        BY <3>1, <3>2
    <2> QED
      BY <2>1, <2>2, <2>3 DEF CalledOK
  <1> QED
    BY <1>1, <1>2, <1>4, <1>5, <1>6, <1>7, PoolIs

LEMMA FailDrawingKeepsThePool ==
  ASSUME PoolOK, FailDrawing
  PROVE  PoolOK'
  <1>1. /\ UndoPool(Took) /\ op' = Idle /\ UNCHANGED <<message, lost>>
        /\ MayHaveDrawn
        /\ dirty' = (dirty \/ Took.evicted # <<>>)
    BY DEF FailDrawing, Undo
  <1>2. Typed'
    <2>1. Typed
      BY PoolIs
    <2>2. dirty' \in BOOLEAN
      BY <1>1, <2>1 DEF Typed
    <2>3. doubt' \in BOOLEAN /\ DOMAIN shown' = Callers
      BY <2>1 DEF FailDrawing, Typed
    <2> QED
      BY <1>1, <2>1, <2>2, <2>3, DrawingsAreTyped DEF Typed
  <1> QED
    BY <1>1, <1>2, IdleIsOK, UndoKeepsThePool

LEMMA FailWritingKeepsThePool ==
  ASSUME PoolOK, FailWriting
  PROVE  PoolOK'
  <1>1. /\ UndoPool(Took) /\ op' = Idle /\ dirty' = TRUE /\ Faulty(NoFile)
        /\ UNCHANGED <<message, drawn, doubt, lost>>
        /\ DOMAIN shown' = DOMAIN shown
    BY DEF FailWriting
  <1>2. Typed'
    <2>1. Typed
      BY PoolIs
    <2> QED
      BY <1>1, <2>1, FaultsAreTyped DEF Typed
  <1> QED
    BY <1>1, <1>2, IdleIsOK, UndoKeepsThePool

LEMMA IconsOfARecord ==
  ASSUME NEW ps, Apart(ps)
  PROVE  /\ IconsOf(ps) \in Seq(Icons) /\ ToSet(IconsOf(ps)) = Recorded(ps)
         /\ Distinct(IconsOf(ps))
         /\ ps = <<>> => IconsOf(ps) = <<>>
  <1>1. /\ ps \in Seq(Picture) /\ Len(ps) \in Nat
        /\ \A n \in 1 .. Len(ps) : ps[n].icon \in Icons
        /\ ToSet(ps) = {ps[n] : n \in 1 .. Len(ps)}
    <2>1. ps \in Seq(Picture)
      BY DEF Apart
    <2>2. \A n \in 1 .. Len(ps) : ps[n] \in Picture
      BY <2>1
    <2> QED
      BY <2>1, <2>2, Elements DEF Picture
  <1>2. /\ IconsOf(ps) \in Seq(Icons) /\ Len(IconsOf(ps)) = Len(ps)
        /\ \A n \in 1 .. Len(ps) : IconsOf(ps)[n] = ps[n].icon
    BY <1>1 DEF IconsOf
  <1>3. ToSet(IconsOf(ps)) = Recorded(ps)
    <2>1. ToSet(IconsOf(ps)) = {IconsOf(ps)[n] : n \in 1 .. Len(ps)}
      BY <1>2, Elements
    <2>2. Recorded(ps) = {ps[n].icon : n \in 1 .. Len(ps)}
      BY <1>1 DEF Recorded
    <2> QED
      BY <1>2, <2>1, <2>2
  <1>4. Distinct(IconsOf(ps))
    BY <1>2 DEF Distinct, Apart
  <1>5. ASSUME ps = <<>>
        PROVE  IconsOf(ps) = <<>>
    BY <1>2, <1>5
  <1> QED
    BY <1>2, <1>3, <1>4, <1>5

LEMMA FailAlertKeepsThePool ==
  ASSUME PoolOK, FailAlert
  PROVE  PoolOK'
  <1>1. /\ UndoPool(Took) /\ UNCHANGED <<message, lost>>
        /\ MayHaveDrawn /\ doubt' = TRUE
        /\ dirty' = (dirty \/ Took.evicted # <<>>)
        /\ \/ op' = [Idle EXCEPT !.at = "revert", !.who = Alert,
                                 !.todo = IconsOf(op.evicted)]
           \/ op' = Idle
    BY DEF FailAlert, Undo
  <1>2. Typed'
    <2>1. Typed
      BY PoolIs
    <2>2. dirty' \in BOOLEAN /\ doubt' \in BOOLEAN
      BY <1>1, <2>1 DEF Typed
    <2>3. DOMAIN shown' = Callers
      BY <2>1 DEF FailAlert, Typed
    <2> QED
      BY <1>1, <2>1, <2>2, <2>3, DrawingsAreTyped DEF Typed
  <1>3. CASE op' = Idle
    BY <1>1, <1>2, <1>3, IdleIsOK, UndoKeepsThePool
  <1>4. CASE op' = [Idle EXCEPT !.at = "revert", !.who = Alert,
                                !.todo = IconsOf(op.evicted)]
    <2>1. Apart(op.evicted)
      BY DEF PoolOK, EvictedOK
    <2>2. /\ IconsOf(op.evicted) \in Seq(Icons)
          /\ ToSet(IconsOf(op.evicted)) = Recorded(op.evicted)
          /\ Distinct(IconsOf(op.evicted))
      BY <2>1, IconsOfARecord
    <2>3. /\ op' \in Ops /\ op'.at = "revert" /\ op'.who = Alert
          /\ op'.claimed = {} /\ op'.evicted = <<>>
          /\ op'.todo = IconsOf(op.evicted)
      BY <1>4, <2>2, OpsAreWhole DEF Idle, Ops, Stages, Callers
    <2>4. ToSet(op'.todo) \subseteq Recorded(pictures')
      <3>1. ToSet(pictures') = Lasting
        BY <1>1, <2>3, UndoneIsAsBefore
      <3> QED
        BY <2>2, <2>3, <3>1 DEF Lasting, Recorded
    <2>5. OpOK'
      BY <2>2, <2>3, <2>4 DEF OpOK, Claiming
    <2> QED
      BY <1>1, <1>2, <2>3, <2>5, UndoKeepsThePool
  <1> QED
    BY <1>1, <1>3, <1>4

LEMMA GiveUpKeepsThePool ==
  ASSUME PoolOK, GiveUp
  PROVE  PoolOK'
  <1>1. Typed /\ OpOK /\ EvictedOK /\ CalledOK /\ Fits(pictures, held)
    BY PoolIs
  <1> DEFINE i == Head(op.todo)
  <1>2. /\ op.at = "revert" /\ op.todo # <<>> /\ MayHaveDrawn
        /\ pictures' = Without(pictures, {i})
        /\ held' = [held EXCEPT ![i] = NoFile]
        /\ lost' = lost \cup {i} /\ dirty' = TRUE
        /\ op' = [op EXCEPT !.todo = Tail(@)]
        /\ UNCHANGED <<message, shown, doubt>>
    BY DEF GiveUp
  <1>3. /\ i \in Icons /\ Tail(op.todo) \in Seq(Icons)
        /\ ToSet(op.todo) = {i} \cup ToSet(Tail(op.todo))
        /\ Distinct(Tail(op.todo)) /\ i \notin ToSet(Tail(op.todo))
    BY <1>1, <1>2, NextToDraw DEF OpOK
  <1>4. PICK p \in ToSet(pictures) : p.icon = i
    BY <1>2, NextToDraw
  <1> HIDE DEF i
  <1>5. /\ op' \in Ops /\ op'.at = "revert" /\ op'.who = Alert
        /\ op'.claimed = {} /\ op'.evicted = <<>>
        /\ op.claimed = {} /\ op.evicted = <<>> /\ op.who = Alert
        /\ op'.todo = Tail(op.todo)
    BY <1>1, <1>2, <1>3 DEF OpOK, Ops, Claiming
  <1>6. /\ Fits(pictures', held')
        /\ ToSet(pictures') = ToSet(pictures) \ {p}
        /\ Recorded(pictures') = Recorded(pictures) \ {i}
    BY <1>1, <1>2, <1>4, FileGivenUp
  <1>7. Typed'
    BY <1>1, <1>2, <1>3, DrawingsAreTyped DEF Typed
  <1>8. OpOK'
    <2>1. ToSet(op'.todo) \subseteq Recorded(pictures')
      BY <1>1, <1>3, <1>5, <1>6 DEF OpOK
    <2> QED
      BY <1>3, <1>5, <2>1 DEF OpOK, Claiming
  <1>9. EvictedOK'
    BY <1>5, NothingRecorded DEF EvictedOK
  <1>10. CalledOK'
    <2>1. /\ StillThere = ToSet(pictures) /\ Lasting = ToSet(pictures)
          /\ StillThere' = ToSet(pictures') /\ Lasting' = ToSet(pictures')
      BY <1>5, NothingRecorded DEF StillThere, Lasting
    <2>2. IconsIn(ToSet(pictures)) \subseteq {i} \cup IconsIn(ToSet(pictures'))
      BY <1>4, <1>6 DEF IconsIn
    <2>3. ASSUME NEW c \in Callers
          PROVE  ToSet(message'[c]) \subseteq lost' \cup IconsIn(ToSet(pictures'))
      <3>1. ToSet(message[c]) \subseteq lost \cup IconsIn(ToSet(pictures))
        BY <1>1, <2>1 DEF CalledOK
      <3> QED
        BY <1>2, <2>2, <3>1
    <2> QED
      BY <2>1, <2>3 DEF CalledOK
  <1> QED
    BY <1>6, <1>7, <1>8, <1>9, <1>10, PoolIs

LEMMA LeaveRevertingKeepsThePool ==
  ASSUME PoolOK, LeaveReverting
  PROVE  PoolOK'
  <1>1. Typed /\ OpOK
    BY PoolIs
  <1>2. /\ op.at = "revert" /\ MayHaveDrawn /\ op' = Idle
        /\ UNCHANGED <<pool, message, shown, doubt, dirty>>
    BY DEF LeaveReverting
  <1>3. ClaimsStay /\ MessagesMayGo
    BY <1>2, IdleIsOK DEF ClaimsStay, Claiming, MessagesMayGo
  <1>4. Typed'
    BY <1>1, <1>2, DrawingsAreTyped DEF Typed, pool
  <1> QED
    BY <1>2, <1>3, <1>4, IdleIsOK, SamePool, PoolIs

LEMMA FailRewriteKeepsThePool ==
  ASSUME PoolOK, FailRewrite
  PROVE  PoolOK'
  <1>1. Typed /\ OpOK
    BY PoolIs
  <1>2. /\ op.at \in {"rewrite", "texts"} /\ MayHaveDrawn /\ op' = Idle
        /\ DOMAIN shown' = DOMAIN shown
        /\ UNCHANGED <<pool, message, dirty>>
    BY DEF FailRewrite
  <1>3. ClaimsStay /\ MessagesMayGo
    BY <1>2, IdleIsOK DEF ClaimsStay, Claiming, MessagesMayGo
  <1>4. Typed'
    <2>1. doubt' \in BOOLEAN
      BY <1>1 DEF FailRewrite, Typed
    <2> QED
      BY <1>1, <1>2, <2>1, DrawingsAreTyped DEF Typed, pool
  <1> QED
    BY <1>2, <1>3, <1>4, IdleIsOK, SamePool, PoolIs

LEMMA TakeoffKeepsThePool ==
  ASSUME PoolOK, NEW k \in Slots, Takeoff(k)
  PROVE  PoolOK'
  <1>1. Typed /\ OpOK
    BY PoolIs
  <1>2. /\ op = Idle /\ message' = [message EXCEPT ![k] = <<>>]
        /\ UNCHANGED <<pool, drawn, doubt, op>>
    BY DEF Takeoff
  <1>3. ClaimsStay /\ MessagesMayGo
    BY <1>1, <1>2 DEF ClaimsStay, MessagesMayGo, Typed
  <1>4. OpOK'
    BY <1>2, IdleIsOK
  <1>5. Typed'
    <2>1. message' \in [Callers -> Messages]
      BY <1>1, <1>2, NothingIsCalled DEF Typed
    <2>2. CASE /\ shown' = [shown EXCEPT ![k] = <<>>]
               /\ UNCHANGED <<written, dirty, owed, faults>>
      BY <1>1, <1>2, <2>1, <2>2 DEF Typed, pool
    <2>3. CASE /\ Faulty(NoFile) /\ dirty' \in {dirty, TRUE}
               /\ UNCHANGED shown
      <3>1. dirty' \in BOOLEAN
        BY <1>1, <2>3 DEF Typed
      <3> QED
        BY <1>1, <1>2, <2>1, <2>3, <3>1, FaultsAreTyped DEF Typed, pool
    <2> QED
      BY <2>2, <2>3 DEF Takeoff
  <1> QED
    BY <1>2, <1>3, <1>4, <1>5, SamePool, PoolIs

LEMMA SetActiveKeepsThePool ==
  ASSUME PoolOK, NEW k \in Slots, SetActive(k)
  PROVE  PoolOK'
  <1>1. Typed /\ OpOK
    BY PoolIs
  <1>2. /\ op = Idle /\ DOMAIN shown' = DOMAIN shown
        /\ UNCHANGED <<pool, message, drawn, written, dirty, doubt, owed, op,
                       faults>>
    BY DEF SetActive
  <1>3. ClaimsStay /\ MessagesMayGo
    BY <1>2 DEF ClaimsStay, MessagesMayGo
  <1>4. OpOK'
    BY <1>2, IdleIsOK
  <1>5. Typed'
    BY <1>1, <1>2 DEF Typed, pool
  <1> QED
    BY <1>2, <1>3, <1>4, <1>5, SamePool, PoolIs

LEMMA ReleaseAlertKeepsThePool ==
  ASSUME PoolOK, ReleaseAlert
  PROVE  PoolOK'
  <1>1. Typed /\ OpOK
    BY PoolIs
  <1>2. /\ DOMAIN shown' = DOMAIN shown /\ doubt' \in BOOLEAN
        /\ \/ /\ message' = [message EXCEPT ![Alert] = <<>>]
              /\ UNCHANGED <<written, owed, faults>>
           \/ Faulty(NoFile) /\ UNCHANGED message
        /\ UNCHANGED <<pool, drawn, dirty, op>>
    BY DEF ReleaseAlert
  <1>3. ClaimsStay /\ MessagesMayGo
    BY <1>1, <1>2 DEF ClaimsStay, MessagesMayGo, Typed
  <1>4. OpOK'
    BY <1>1, <1>2 DEF OpOK, pool
  <1>5. Typed'
    <2>1. message' \in [Callers -> Messages]
      BY <1>1, <1>2, NothingIsCalled DEF Typed
    <2>2. written' \subseteq Files /\ owed' \in BOOLEAN /\ faults' \in 0 .. MaxFaults
      BY <1>1, <1>2, FaultsAreTyped DEF Typed
    <2> QED
      BY <1>1, <1>2, <2>1, <2>2 DEF Typed, pool
  <1> QED
    BY <1>2, <1>3, <1>4, <1>5, SamePool, PoolIs

LEMMA ReassertKeepsThePool ==
  ASSUME PoolOK, Reassert
  PROVE  PoolOK'
  <1>1. Typed /\ OpOK
    BY PoolIs
  <1>2. /\ op = Idle /\ DOMAIN shown' = DOMAIN shown /\ doubt' = FALSE
        /\ UNCHANGED <<pool, message, drawn, written, dirty, owed, op, faults>>
    BY DEF Reassert
  <1>3. ClaimsStay /\ MessagesMayGo
    BY <1>2 DEF ClaimsStay, MessagesMayGo
  <1>4. OpOK'
    BY <1>2, IdleIsOK
  <1>5. Typed'
    BY <1>1, <1>2 DEF Typed, pool
  <1> QED
    BY <1>2, <1>3, <1>4, <1>5, SamePool, PoolIs

LEMMA ReconnectedKeepsThePool ==
  ASSUME PoolOK, Reconnected
  PROVE  PoolOK'
  <1>1. Typed /\ OpOK
    BY PoolIs
  <1>2. /\ op = Idle /\ owed' = FALSE /\ dirty' = TRUE
        /\ UNCHANGED <<pool, message, sign, op, faults>>
    BY DEF Reconnected
  <1>3. ClaimsStay /\ MessagesMayGo
    BY <1>2 DEF ClaimsStay, MessagesMayGo
  <1>4. OpOK'
    BY <1>2, IdleIsOK
  <1>5. Typed'
    BY <1>1, <1>2 DEF Typed, pool, sign
  <1> QED
    BY <1>2, <1>3, <1>4, <1>5, SamePool, PoolIs

LEMMA RepushKeepsThePool ==
  ASSUME PoolOK, Repush
  PROVE  PoolOK'
  <1>1. Typed /\ OpOK
    BY PoolIs
  <1>2. /\ op.at = "texts" /\ DOMAIN shown' = DOMAIN shown
        /\ UNCHANGED <<pool, message, drawn, written, doubt, owed, faults>>
    BY DEF Repush
  <1>3. PICK k \in op.texts :
          /\ op' = IF op.texts = {k} THEN Idle
                   ELSE [op EXCEPT !.texts = @ \ {k}]
          /\ dirty' = (dirty /\ op.texts # {k})
    BY DEF Repush
  <1>4. Typed'
    <2>1. dirty' \in BOOLEAN
      BY <1>1, <1>3 DEF Typed
    <2> QED
      BY <1>1, <1>2, <2>1 DEF Typed, pool
  <1>5. MessagesMayGo
    BY <1>2 DEF MessagesMayGo
  <1>6. CASE op' = Idle
    <2>1. ClaimsStay
      BY <1>2, <1>6, IdleIsOK DEF ClaimsStay, Claiming
    <2> QED
      BY <1>2, <1>4, <1>5, <1>6, <2>1, IdleIsOK, SamePool, PoolIs
  <1>7. CASE op' = [op EXCEPT !.texts = @ \ {k}]
    <2>1. /\ op' \in Ops /\ op'.at = op.at /\ op'.who = op.who
          /\ op'.text = op.text /\ op'.claimed = op.claimed
          /\ op'.evicted = op.evicted /\ op'.todo = op.todo
      BY <1>1, <1>7 DEF OpOK, Ops
    <2>2. OpOK'
      BY <1>1, <1>2, <2>1 DEF OpOK, Claiming, pool
    <2>3. ClaimsStay
      BY <2>1 DEF ClaimsStay
    <2> QED
      BY <1>2, <1>4, <1>5, <2>2, <2>3, SamePool, PoolIs
  <1> QED
    BY <1>3, <1>6, <1>7

(* What a claim that went through leaves of what there was.                *)
LEMMA SoundIsFound ==
  ASSUME NEW keeping, NEW c, NEW s, Sound(s, keeping, c)
  PROVE  /\ Fits(s.pictures, s.held) /\ Apart(s.evicted)
         /\ s.claimed \in Seq(Icons) /\ s.evicted \in Seq(Picture)
         /\ ToSet(s.claimed) \subseteq Icons
         /\ ToSet(s.claimed) \subseteq Recorded(s.pictures)
         /\ Kept(s) \cup ToSet(s.evicted) = ToSet(pictures)
         /\ \A p \in ToSet(s.evicted) :
              p.icon \notin Recorded(s.pictures) /\ ~InUse(p.icon, c)
  <1>1. s \in Claims /\ Balanced(s, keeping, c)
    BY DEF Sound, Balanced
  <1>2. s.claimed \in Seq(Icons) /\ s.evicted \in Seq(Picture)
    BY <1>1 DEF Claims
  <1>3. ToSet(s.claimed) \subseteq Icons
    BY <1>2, Elements
  <1> QED
    BY <1>1, <1>2, <1>3 DEF Balanced

(* What is given up has none of the files of what is still there.          *)
LEMMA EvictedFilesAreOthers ==
  ASSUME Apart(pictures), NEW keeping, NEW c, NEW s, Sound(s, keeping, c),
         NEW p \in ToSet(s.evicted), NEW q \in Kept(s)
  PROVE  p.file # q.file
  <1>1. /\ Kept(s) \cup ToSet(s.evicted) = ToSet(pictures)
        /\ p.icon \notin Recorded(s.pictures)
    BY SoundIsFound
  <1>2. p.icon # q.icon
    BY <1>1 DEF Kept, Recorded
  <1>3. p \in ToSet(pictures) /\ q \in ToSet(pictures) /\ p # q
    BY <1>1, <1>2
  <1> QED
    BY <1>3, RecordsHavePictures

(* A refusal leaves the pool as it was.                                    *)
LEMMA RefusedClaimsGoBack ==
  ASSUME Fits(pictures, held), NEW keeping, NEW c, NEW s,
         Sound(s, keeping, c)
  PROVE  LET taken == ToSet(s.claimed)
         IN /\ Fits(Without(s.pictures, taken) \o s.evicted,
                    HeldBefore(s.held, taken, s.evicted))
            /\ ToSet(Without(s.pictures, taken) \o s.evicted) = ToSet(pictures)
  <1> DEFINE taken == ToSet(s.claimed)
  <1>1. /\ Fits(s.pictures, s.held) /\ Apart(s.evicted) /\ Apart(pictures)
        /\ Kept(s) \cup ToSet(s.evicted) = ToSet(pictures)
        /\ \A p \in ToSet(s.evicted) : p.icon \notin Recorded(s.pictures)
    BY SoundIsFound DEF Fits
  <1>2. ASSUME NEW p \in ToSet(s.evicted), NEW q \in ToSet(s.pictures),
               q.icon \notin taken
        PROVE  p.file # q.file
    <2>1. q \in Kept(s)
      BY <1>2 DEF Kept
    <2> QED
      BY <1>1, <2>1, EvictedFilesAreOthers
  <1> HIDE DEF taken
  <1>3. /\ Fits(Without(s.pictures, taken) \o s.evicted,
                HeldBefore(s.held, taken, s.evicted))
        /\ ToSet(Without(s.pictures, taken) \o s.evicted) =
             {p \in ToSet(s.pictures) : p.icon \notin taken} \cup ToSet(s.evicted)
    BY <1>1, <1>2, ClaimsAreGivenBack
  <1> QED
    BY <1>1, <1>3 DEF Kept, taken

LEMMA BeginKeepsThePool ==
  ASSUME PoolOK, NEW c \in Callers, NEW m \in Messages, Begin(c, m)
  PROVE  PoolOK'
  <1> DEFINE s == ClaimsOf(c, m)
             taken == ToSet(s.claimed)
  <1>1. Typed /\ OpOK /\ EvictedOK /\ CalledOK /\ Fits(pictures, held)
    BY PoolIs
  <1>2. m \in Seq(Icons) /\ Apart(pictures)
    BY <1>1, MessagesHaveIcons DEF Fits
  <1>3. /\ Sound(s, ToSet(m), c)
        /\ s.refused = {} => ToSet(m) \subseteq Recorded(s.pictures)
    <2>1. /\ Sound(s, ToSet(m), c)
          /\ FALSE \/ s.refused = {} =>
               ToSet(m) \subseteq Recorded(s.pictures) \cup s.refused
      BY <1>1, <1>2, AllIsClaimed DEF ClaimsOf
    <2> HIDE DEF s
    <2> QED
      BY <2>1
  <1>4. /\ op = Idle
        /\ \/ /\ s.refused = {}
              /\ pictures' = s.pictures /\ held' = s.held
              /\ op' = [Idle EXCEPT !.at = "claimed", !.who = c, !.text = m,
                                    !.claimed = taken,
                                    !.evicted = s.evicted, !.todo = s.claimed]
              /\ UNCHANGED dirty
           \/ /\ UndoPool([s EXCEPT !.claimed = ToSet(@)])
              /\ dirty' = (dirty \/ [s EXCEPT !.claimed = ToSet(@)].evicted # <<>>)
              /\ UNCHANGED op
        /\ UNCHANGED <<message, sign, lost, owed, faults>>
    BY DEF Begin, Undo
  <1>5. /\ Fits(s.pictures, s.held) /\ Apart(s.evicted)
        /\ s.claimed \in Seq(Icons) /\ s.evicted \in Seq(Picture)
        /\ taken \subseteq Icons /\ taken \subseteq Recorded(s.pictures)
        /\ Kept(s) \cup ToSet(s.evicted) = ToSet(pictures)
        /\ \A p \in ToSet(s.evicted) :
             p.icon \notin Recorded(s.pictures) /\ ~InUse(p.icon, c)
    BY <1>3, SoundIsFound
  <1>6. /\ \A p \in ToSet(s.evicted) : \A q \in Kept(s) : p.file # q.file
        /\ Fits(Without(s.pictures, taken) \o s.evicted,
                HeldBefore(s.held, taken, s.evicted))
        /\ ToSet(Without(s.pictures, taken) \o s.evicted) = ToSet(pictures)
    <2> HIDE DEF s
    <2>1. \A p \in ToSet(s.evicted) : \A q \in Kept(s) : p.file # q.file
      BY <1>2, <1>3, EvictedFilesAreOthers
    <2>2. LET gone == ToSet(s.claimed)
          IN /\ Fits(Without(s.pictures, gone) \o s.evicted,
                     HeldBefore(s.held, gone, s.evicted))
             /\ ToSet(Without(s.pictures, gone) \o s.evicted) = ToSet(pictures)
      BY <1>1, <1>3, RefusedClaimsGoBack
    <2> QED
      BY <2>1, <2>2
  <1> HIDE DEF s
  <1>7. s \in Claims
    BY <1>3 DEF Sound, Balanced
  <1>8. /\ StillThere = ToSet(pictures) /\ Lasting = ToSet(pictures)
        /\ op.who = Nobody
    BY <1>4, NothingRecorded DEF StillThere, Lasting, Idle
  <1>9. \A d \in Callers :
          ToSet(message[d]) \subseteq lost \cup IconsIn(ToSet(pictures))
    BY <1>1, <1>8 DEF CalledOK
  <1>10. CASE /\ s.refused = {}
              /\ pictures' = s.pictures /\ held' = s.held
              /\ op' = [Idle EXCEPT !.at = "claimed", !.who = c, !.text = m,
                                    !.claimed = taken,
                                    !.evicted = s.evicted, !.todo = s.claimed]
              /\ UNCHANGED dirty
    <2>1. /\ op'.at = "claimed" /\ op'.who = c /\ op'.text = m
          /\ op'.claimed = taken /\ op'.evicted = s.evicted
          /\ op'.todo = s.claimed /\ op' \in Ops
      BY <1>5, <1>10 DEF Idle, Ops, Stages
    <2>2. OpOK'
      BY <1>3, <1>5, <1>10, <2>1 DEF OpOK, Claiming
    <2>3. Typed'
      BY <1>1, <1>4, <1>10 DEF Typed, sign
    <2>4. StillThere' = Kept(s) /\ Lasting' = ToSet(pictures)
      BY <1>5, <1>10, <2>1 DEF StillThere, Lasting, Kept
    <2>5. EvictedOK'
      BY <1>4, <1>5, <1>6, <1>10, <2>1, <2>4 DEF EvictedOK, InUse
    <2>6. CalledOK'
      <3>1. ASSUME NEW d \in Callers, d # c
            PROVE  ToSet(message[d]) \subseteq lost \cup IconsIn(Kept(s))
        <4>1. \A p \in ToSet(s.evicted) : p.icon \notin ToSet(message[d])
          BY <1>5, <3>1 DEF InUse
        <4> QED
          BY <1>5, <1>9, <4>1 DEF IconsIn
      <3>2. ASSUME NEW d \in Callers
            PROVE  ToSet(message'[d]) \subseteq
                     lost' \cup IconsIn(IF d = op'.who THEN Lasting' ELSE StillThere')
        BY <1>4, <1>9, <2>1, <2>4, <3>1
      <3> QED
        BY <3>2 DEF CalledOK
    <2> QED
      BY <1>5, <1>10, <2>2, <2>3, <2>5, <2>6, PoolIs
  <1>11. CASE /\ UndoPool([s EXCEPT !.claimed = ToSet(@)])
              /\ dirty' = (dirty \/ [s EXCEPT !.claimed = ToSet(@)].evicted # <<>>)
              /\ UNCHANGED op
    <2> DEFINE u == [s EXCEPT !.claimed = ToSet(@)]
    <2>1. /\ u.claimed = taken /\ u.evicted = s.evicted
          /\ u.pictures = s.pictures /\ u.held = s.held
      BY <1>7 DEF Claims
    <2>2. /\ pictures' = Without(s.pictures, taken) \o s.evicted
          /\ held' = HeldBefore(s.held, taken, s.evicted)
      <3>1. UndoPool(u)
        BY <1>11
      <3> HIDE DEF u
      <3>2. /\ pictures' = Without(u.pictures, u.claimed) \o u.evicted
            /\ held' = HeldBefore(u.held, u.claimed, u.evicted)
        BY <3>1 DEF UndoPool, Restored, HeldBefore
      <3> QED
        BY <2>1, <3>2
    <2>3. Fits(pictures', held') /\ ToSet(pictures') = ToSet(pictures)
      BY <1>6, <2>2
    <2>4. Typed'
      <3>1. dirty' \in BOOLEAN
        BY <1>1, <1>11 DEF Typed
      <3> QED
        BY <1>1, <1>4, <3>1 DEF Typed, sign
    <2>5. op' = Idle
      BY <1>4, <1>11
    <2>6. /\ StillThere' = ToSet(pictures) /\ Lasting' = ToSet(pictures)
      BY <2>3, <2>5, IdleIsOK, NothingRecorded DEF StillThere, Lasting
    <2>7. EvictedOK'
      BY <2>5, IdleIsOK, NothingRecorded DEF EvictedOK
    <2>8. CalledOK'
      BY <1>4, <1>9, <2>6 DEF CalledOK
    <2> QED
      BY <2>3, <2>4, <2>5, <2>7, <2>8, IdleIsOK, PoolIs
  <1> QED
    BY <1>4, <1>10, <1>11

LEMMA RewriteKeepsThePool ==
  ASSUME PoolOK, NEW erase \in BOOLEAN, Rewrite(erase)
  PROVE  PoolOK'
  <1> DEFINE s == Reclaimed
             taken == ToSet(s.claimed)
  <1>1. Typed /\ OpOK /\ EvictedOK /\ CalledOK /\ Fits(pictures, held)
    BY PoolIs
  <1>2. message \in [Callers -> Seq(Icons)]
    BY <1>1, PicturePoolAssumption DEF Typed
  <1>3. Sound(s, ToSet(Wanted), Nobody)
    BY <1>1, <1>2, WantedIsCalled, AllIsClaimed DEF Reclaimed
  <1>4. /\ Fits(s.pictures, s.held)
        /\ taken \subseteq Recorded(s.pictures)
        /\ Kept(s) \cup ToSet(s.evicted) = ToSet(pictures)
        /\ \A p \in ToSet(s.evicted) : ~InUse(p.icon, Nobody)
    BY <1>3, SoundIsFound
  <1>5. /\ op = Idle
        /\ pictures' = s.pictures /\ held' = s.held /\ lost' = lost \ taken
        /\ op' = [Idle EXCEPT
                    !.at = IF s.pictures = <<>> THEN "texts" ELSE "rewrite",
                    !.texts = Slots, !.todo = IconsOf(s.pictures)]
        /\ DOMAIN shown' = Callers /\ written' = {}
        /\ drawn' = IF erase THEN [f \in Files |-> Blank] ELSE drawn
        /\ doubt' = (doubt \/ message[Alert] # <<>>)
        /\ UNCHANGED <<message, dirty, owed, faults>>
    BY DEF Rewrite
  <1> HIDE DEF s
  <1>6. /\ IconsOf(s.pictures) \in Seq(Icons)
        /\ ToSet(IconsOf(s.pictures)) = Recorded(s.pictures)
        /\ Distinct(IconsOf(s.pictures))
        /\ s.pictures = <<>> => IconsOf(s.pictures) = <<>>
    BY <1>4, IconsOfARecord DEF Fits
  <1>7. /\ op'.at = IF s.pictures = <<>> THEN "texts" ELSE "rewrite"
        /\ op'.who = Nobody /\ op'.claimed = {} /\ op'.evicted = <<>>
        /\ op'.todo = IconsOf(s.pictures) /\ op' \in Ops
    BY <1>5, <1>6, OpsAreWhole DEF Idle, Ops, Stages
  <1>8. OpOK'
    BY <1>5, <1>6, <1>7 DEF OpOK, Claiming
  <1>9. Typed'
    <2>1. doubt' \in BOOLEAN
      BY <1>1, <1>5 DEF Typed
    <2>2. drawn' \in [Files -> Icons \cup {Blank}]
      BY <1>1, <1>5 DEF Typed
    <2> QED
      BY <1>1, <1>5, <2>1, <2>2 DEF Typed
  <1>10. EvictedOK'
    BY <1>7, NothingRecorded DEF EvictedOK
  <1>11. CalledOK'
    <2>1. /\ StillThere = ToSet(pictures) /\ Lasting = ToSet(pictures)
          /\ op.who = Nobody
      BY <1>5, NothingRecorded DEF StillThere, Lasting, Idle
    <2>2. StillThere' = ToSet(s.pictures) /\ Lasting' = ToSet(s.pictures)
      BY <1>5, <1>7, NothingRecorded DEF StillThere, Lasting
    <2>3. ASSUME NEW c \in Callers
          PROVE  ToSet(message[c]) \subseteq lost' \cup IconsIn(ToSet(s.pictures))
      <3>1. ToSet(message[c]) \subseteq lost \cup IconsIn(ToSet(pictures))
        BY <1>1, <2>1 DEF CalledOK
      <3>2. \A p \in ToSet(s.evicted) : p.icon \notin ToSet(message[c])
        BY <1>4, PicturePoolAssumption DEF InUse
      <3>3. Kept(s) \subseteq ToSet(s.pictures)
        BY DEF Kept
      <3>4. IconsIn(ToSet(s.pictures)) = Recorded(s.pictures)
        BY DEF IconsIn, Recorded
      <3>5. ToSet(message[c]) \cap IconsIn(ToSet(pictures)) \subseteq
              IconsIn(ToSet(s.pictures))
        BY <1>4, <3>2, <3>3 DEF IconsIn
      <3> QED
        BY <1>4, <1>5, <3>1, <3>4, <3>5
    <2> QED
      BY <1>5, <2>2, <2>3 DEF CalledOK
  <1> QED
    BY <1>4, <1>5, <1>8, <1>9, <1>10, <1>11, PoolIs

LEMMA PoolAtFirst == Init => PoolOK
  <1> SUFFICES ASSUME Init PROVE PoolOK
    OBVIOUS
  <1>1. op = Idle /\ op.claimed = {} /\ op.evicted = <<>>
    BY DEF Init, Idle
  <1>2. Typed
    <2>1. message \in [Callers -> Messages]
      BY NothingIsCalled DEF Init
    <2>2. drawn \in [Files -> Icons \cup {Blank}] /\ DOMAIN shown = Callers
      BY DEF Init
    <2>3. faults \in 0 .. MaxFaults
      BY PicturePoolAssumption DEF Init
    <2> QED
      BY <2>1, <2>2, <2>3 DEF Init, Typed
  <1>3. Fits(pictures, held)
    BY NothingRecorded DEF Init, Fits, Recorded
  <1>4. OpOK
    BY <1>1, OpsAreWhole, NothingRecorded DEF OpOK, Claiming, Idle
  <1>5. EvictedOK
    BY <1>1, NothingRecorded DEF EvictedOK
  <1>6. CalledOK
    BY NothingRecorded DEF Init, CalledOK
  <1> QED
    BY <1>2, <1>3, <1>4, <1>5, <1>6, PoolIs

LEMMA StepsKeepThePool == PoolOK /\ [Next]_vars => PoolOK'
  <1> SUFFICES ASSUME PoolOK, [Next]_vars PROVE PoolOK'
    OBVIOUS
  <1>1. ASSUME NEW c \in Callers, NEW m \in Messages, Begin(c, m) PROVE PoolOK'
    BY <1>1, BeginKeepsThePool
  <1>2. CASE Refuse
    BY <1>2, RefuseKeepsThePool
  <1>3. CASE HandBack
    BY <1>3, HandBackKeepsThePool
  <1>4. CASE NothingToDraw
    BY <1>4, NothingToDrawKeepsThePool
  <1>5. CASE Draw
    BY <1>5, DrawKeepsThePool
  <1>6. CASE PutBack
    BY <1>6, PutBackKeepsThePool
  <1>7. CASE Write
    BY <1>7, WriteKeepsThePool
  <1>8. CASE FailDrawing
    BY <1>8, FailDrawingKeepsThePool
  <1>9. CASE FailWriting
    BY <1>9, FailWritingKeepsThePool
  <1>10. CASE FailAlert
    BY <1>10, FailAlertKeepsThePool
  <1>11. CASE GiveUp
    BY <1>11, GiveUpKeepsThePool
  <1>12. CASE LeaveReverting
    BY <1>12, LeaveRevertingKeepsThePool
  <1>13. ASSUME NEW k \in Slots, Takeoff(k) PROVE PoolOK'
    BY <1>13, TakeoffKeepsThePool
  <1>14. ASSUME NEW k \in Slots, SetActive(k) PROVE PoolOK'
    BY <1>14, SetActiveKeepsThePool
  <1>15. CASE ReleaseAlert
    BY <1>15, ReleaseAlertKeepsThePool
  <1>16. CASE Reassert
    BY <1>16, ReassertKeepsThePool
  <1>17. CASE Refresh
    BY <1>17, RewriteKeepsThePool DEF Refresh
  <1>18. CASE Reboot
    BY <1>18, RewriteKeepsThePool DEF Reboot
  <1>19. CASE Repush
    BY <1>19, RepushKeepsThePool
  <1>20. CASE FailRewrite
    BY <1>20, FailRewriteKeepsThePool
  <1>21. CASE Reconnected
    BY <1>21, ReconnectedKeepsThePool
  <1>22. CASE UNCHANGED vars
    BY <1>22 DEF vars, PoolOK, TypeOK, OpOK, EvictedOK, CalledOK, StillThere,
                 Lasting, InUse
  <1> QED
    BY <1>1, <1>2, <1>3, <1>4, <1>5, <1>6, <1>7, <1>8, <1>9, <1>10, <1>11,
       <1>12, <1>13, <1>14, <1>15, <1>16, <1>17, <1>18, <1>19, <1>20, <1>21,
       <1>22 DEF Next

LEMMA PoolIsAsRecorded == PoolOK => PicturePoolInv /\ RefusalIsHonest
  <1> SUFFICES ASSUME PoolOK PROVE PicturePoolInv /\ RefusalIsHonest
    OBVIOUS
  <1>1. TypeOK /\ Fits(pictures, held) /\ CalledOK
    BY DEF PoolOK
  <1>2. CalledIconsAreKept
    <2>1. IconsIn(StillThere) \subseteq Recorded(pictures)
      BY DEF IconsIn, StillThere, Recorded
    <2> QED
      BY <1>1, <2>1 DEF CalledOK, CalledIconsAreKept
  <1>3. message \in [Callers -> Messages]
    BY <1>1 DEF TypeOK
  <1> QED
    BY <1>1, <1>2, <1>3, FittingIsThePool, RefusalsCount DEF PicturePoolInv

(* Whatever was refused, failed or was cancelled, the record of pictures   *)
(* and the pool of files agree, one file for one icon, and an icon that a  *)
(* recorded message calls keeps its file unless it is known to be lost.    *)
THEOREM CalledPicturesStay == Spec => []PicturePoolInv
  <1>1. PoolOK => PicturePoolInv
    BY PoolIsAsRecorded
  <1> QED
    BY <1>1, PoolAtFirst, StepsKeepThePool, PTL DEF Spec

(* A message is refused for want of a file only where more icons are asked *)
(* for than there are files, whatever happened before.                     *)
THEOREM RefusalsAreHonest == Spec => []RefusalIsHonest
  <1>1. PoolOK => RefusalIsHonest
    BY PoolIsAsRecorded
  <1> QED
    BY <1>1, PoolAtFirst, StepsKeepThePool, PTL DEF Spec

-----------------------------------------------------------------------------
(* The sign, and what is believed of it.                                   *)

LEMMA SameClaims ==
  ASSUME PoolOK, UNCHANGED pool, ClaimsStay
  PROVE  /\ StillThere' = StillThere /\ Lasting' = Lasting
         /\ Callable' = Callable
         /\ TakenOK => TakenOK'
  <1>1. pictures' = pictures /\ OpOK
    BY PoolIs DEF pool
  <1>2. CASE op'.claimed = op.claimed /\ op'.evicted = op.evicted
    BY <1>1, <1>2 DEF StillThere, Lasting, Callable, TakenOK
  <1>3. CASE /\ op.at \notin Claiming
             /\ op'.claimed = {} /\ op'.evicted = <<>>
    <2>1. op.claimed = {} /\ op.evicted = <<>>
      BY <1>1, <1>3 DEF OpOK
    <2> QED
      BY <1>1, <1>3, <2>1 DEF StillThere, Lasting, Callable, TakenOK
  <1> QED
    BY <1>2, <1>3 DEF ClaimsStay

\* What a caller's text calls stays as it is, or goes.
TextStays(c) ==
  /\ shown'[c] = shown[c] \/ shown'[c] = <<>>
  /\ message'[c] = message[c] \/ message'[c] = <<>>

LEMMA TextsStay ==
  ASSUME TextsOK,
         \A c \in Callers : TextIsRight(c)' =>
           \/ TextIsRight(c) /\ TextStays(c) /\ Callable \subseteq Callable'
           \/ CallsItsOwn(c)'
  PROVE  TextsOK'
  <1>1. SUFFICES ASSUME NEW c \in Callers, TextIsRight(c), TextStays(c),
                        Callable \subseteq Callable', CallsItsOwn(c),
                        NEW i \in DOMAIN shown'[c] \cap ToSet(message'[c])
                 PROVE  \E p \in Callable' : p.icon = i /\ p.file = shown'[c][i]
    BY DEF TextsOK, CallsItsOwn
  <1>2. shown'[c] = shown[c] /\ message'[c] = message[c]
    BY <1>1, NothingRecorded DEF TextStays
  <1> QED
    BY <1>1, <1>2 DEF CallsItsOwn

(* What is rendered calls the files that are in the record.                *)
LEMMA RenderingsCallTheirOwn ==
  ASSUME NEW ps, Apart(ps), NEW m, NEW i \in DOMAIN Rendered(m, ps)
  PROVE  \E p \in ToSet(ps) :
           p.icon = i /\ p.file = Rendered(m, ps)[i] /\ i \in ToSet(m)
  <1>1. i \in ToSet(m) \cap Recorded(ps) /\ Rendered(m, ps)[i] = FileIn(ps, i)
    BY DEF Rendered
  <1>2. PICK p \in ToSet(ps) : p.icon = i
    BY <1>1 DEF Recorded
  <1> QED
    BY <1>1, <1>2, FilesAreFound

LEMMA RenderedIsOwn ==
  ASSUME NEW c \in Callers, NEW m, NEW ps, Apart(ps),
         shown'[c] = Rendered(m, ps) \/ shown'[c] = <<>>,
         \A p \in ToSet(ps) : p.icon \in ToSet(m) => p \in Callable'
  PROVE  CallsItsOwn(c)'
  <1>1. SUFFICES ASSUME NEW i \in DOMAIN shown'[c] \cap ToSet(message'[c])
                 PROVE  \E p \in Callable' : p.icon = i /\ p.file = shown'[c][i]
    BY DEF CallsItsOwn
  <1>2. shown'[c] = Rendered(m, ps)
    BY <1>1
  <1> QED
    BY <1>1, <1>2, RenderingsCallTheirOwn

(* As long as nothing is known to be wrong, a message that calls what is   *)
(* being claimed for another finds a file that was not given up for it.    *)
LEMMA RecordedAreCallable ==
  ASSUME PoolOK, FullOrAllOK, Right, NEW c \in Callers,
         NEW p \in ToSet(pictures), p.icon \in ToSet(message[c])
  PROVE  p \in Callable
  <1>1. Apart(pictures)
    BY DEF PoolOK, Fits
  <1>2. CASE op.evicted # <<>>
    BY <1>2 DEF Callable
  <1>3. CASE op.evicted = <<>>
    <2>1. Lasting = StillThere
      BY <1>3, NothingRecorded DEF Lasting
    <2>2. CASE \A f \in Files : \E q \in Lasting : q.file = f
      <3>1. p.file \in Files
        BY <1>1, RecordsHavePictures
      <3>2. PICK q \in StillThere : q.file = p.file
        BY <2>1, <2>2, <3>1
      <3>3. q = p
        BY <1>1, <3>2, RecordsHavePictures DEF StillThere
      <3> QED
        BY <2>1, <3>3 DEF Callable
    <2>3. CASE ToSet(message[c]) \subseteq IconsIn(Lasting)
      <3>1. PICK q \in StillThere : q.icon = p.icon
        BY <2>1, <2>3 DEF IconsIn
      <3>2. q = p
        BY <1>1, <3>1, RecordsHavePictures DEF StillThere
      <3> QED
        BY <2>1, <3>2 DEF Callable
    <2> QED
      BY <2>2, <2>3 DEF FullOrAllOK
  <1> QED
    BY <1>2, <1>3

LEMMA FullOrAllStays ==
  ASSUME FullOrAllOK, Lasting' = Lasting, MessagesMayGo, Right' => Right
  PROVE  FullOrAllOK'
  <1>1. SUFFICES ASSUME Right'
                 PROVE  \/ \A f \in Files : \E p \in Lasting : p.file = f
                        \/ \A c \in Callers :
                             ToSet(message'[c]) \subseteq IconsIn(Lasting)
    BY DEF FullOrAllOK
  <1> QED
    BY <1>1, NothingRecorded DEF FullOrAllOK, MessagesMayGo

LEMMA FilesStay ==
  ASSUME FilesOK, pictures' = pictures, drawn' = drawn,
         written' \subseteq written, Right' => Right,
         op.todo = <<>> \/ op'.todo = op.todo,
         op'.at \notin {"rewrite", "revert"}
  PROVE  FilesOK'
  <1>1. \A i : i \in ToSet(op.todo) => i \in ToSet(op'.todo)
    BY NothingRecorded
  <1> QED
    BY <1>1 DEF FilesOK

LEMMA SignWithSamePool ==
  ASSUME PoolOK, SignOK, UNCHANGED pool, MessagesMayGo, ClaimsStay,
         Right' => Right, FilesOK', TextsOK'
  PROVE  SignOK'
  BY SameClaims, FullOrAllStays DEF SignOK

\* The operation that holds the lock is at another of its stages.
LEMMA AdvancedOps ==
  ASSUME PoolOK, NEW at \in Stages, op' = [op EXCEPT !.at = at]
  PROVE  /\ op'.at = at /\ op'.who = op.who /\ op'.claimed = op.claimed
         /\ op'.evicted = op.evicted /\ op'.todo = op.todo
         /\ op'.texts = op.texts /\ op'.text = op.text /\ ClaimsStay
  <1>1. op \in Ops
    BY DEF PoolOK, OpOK
  <1> QED
    BY <1>1 DEF Ops, ClaimsStay

LEMMA HandBackKeepsTheSign ==
  ASSUME PoolOK, SignOK, HandBack
  PROVE  SignOK'
  <1>1. /\ op.at = "claimed" /\ op' = [op EXCEPT !.at = "draw"]
        /\ shown' = [shown EXCEPT ![Alert] = <<>>]
        /\ doubt' = (doubt \/ message[Alert] # <<>>)
        /\ UNCHANGED <<pool, message, drawn, written, dirty, owed, faults>>
    BY DEF HandBack
  <1>2. ClaimsStay /\ op'.at = "draw" /\ op'.todo = op.todo
    BY <1>1, AdvancedOps DEF Stages
  <1>3. MessagesMayGo /\ (Right' => Right) /\ Callable' = Callable
    BY <1>1, <1>2, SameClaims DEF MessagesMayGo, Right
  <1>4. FilesOK'
    BY <1>1, <1>2, <1>3, FilesStay DEF SignOK, pool
  <1>5. TextsOK'
    <2>1. DOMAIN shown = Callers
      BY DEF PoolOK, TypeOK
    <2>2. ASSUME NEW c \in Callers, TextIsRight(c)'
          PROVE  TextIsRight(c) /\ TextStays(c)
      BY <1>1, <1>2, <2>1, <2>2 DEF TextIsRight, TextStays
    <2> QED
      BY <1>3, <2>2, TextsStay DEF SignOK
  <1> QED
    BY <1>1, <1>2, <1>3, <1>4, <1>5, SignWithSamePool

LEMMA NothingToDrawKeepsTheSign ==
  ASSUME PoolOK, SignOK, NothingToDraw
  PROVE  SignOK'
  <1>1. /\ op.at = "claimed" /\ op' = [op EXCEPT !.at = "write"]
        /\ UNCHANGED <<pool, message, sign, dirty, owed, faults>>
    BY DEF NothingToDraw
  <1>2. ClaimsStay /\ op'.at = "write" /\ op'.todo = op.todo
    BY <1>1, AdvancedOps DEF Stages
  <1>3. MessagesMayGo /\ (Right' => Right) /\ Callable' = Callable
    BY <1>1, <1>2, SameClaims DEF MessagesMayGo, Right
  <1>4. FilesOK'
    BY <1>1, <1>2, <1>3, FilesStay DEF SignOK, pool, sign
  <1>5. TextsOK'
    <2>1. ASSUME NEW c \in Callers, TextIsRight(c)'
          PROVE  TextIsRight(c) /\ TextStays(c)
      BY <1>1, <1>2, <2>1 DEF TextIsRight, TextStays, sign
    <2> QED
      BY <1>3, <2>1, TextsStay DEF SignOK
  <1> QED
    BY <1>1, <1>2, <1>3, <1>4, <1>5, SignWithSamePool

LEMMA DrawKeepsTheSign ==
  ASSUME PoolOK, SignOK, Draw
  PROVE  SignOK'
  <1> DEFINE i == Head(op.todo)
             f == FileIn(pictures, i)
  <1>1. /\ op.at \in {"draw", "rewrite", "revert"} /\ op.todo # <<>>
        /\ drawn' = [drawn EXCEPT ![f] = i] /\ written' = written \cup {f}
        /\ op' = [op EXCEPT !.todo = Tail(@)]
        /\ UNCHANGED <<pool, message, shown, doubt, dirty, owed, faults>>
    BY DEF Draw
  <1>2. /\ op'.at = op.at /\ op'.who = op.who /\ op'.texts = op.texts
        /\ op'.claimed = op.claimed /\ op'.evicted = op.evicted
        /\ op'.todo = Tail(op.todo) /\ ClaimsStay
    <2>1. op \in Ops
      BY DEF PoolOK, OpOK
    <2> QED
      BY <1>1, <2>1 DEF Ops, ClaimsStay
  <1>3. PICK q \in ToSet(pictures) : q.icon = i /\ q.file \in Files /\ f = q.file
    BY <1>1, NextToDraw
  <1>4. /\ ToSet(op.todo) = {i} \cup ToSet(Tail(op.todo))
        /\ Distinct(op.todo) => i \notin ToSet(Tail(op.todo))
    BY <1>1, NextToDraw
  <1> HIDE DEF i, f
  <1>5. MessagesMayGo /\ (Right' => Right) /\ Callable' = Callable
    BY <1>1, <1>2, SameClaims DEF MessagesMayGo, Right
  <1>6. DOMAIN drawn = Files /\ Apart(pictures) /\ pictures' = pictures
    BY <1>1 DEF PoolOK, TypeOK, Fits, pool
  <1>7. \A p \in ToSet(pictures) : p.file = f \/ p.icon = i => p = q
    BY <1>3, <1>6, RecordsHavePictures
  <1>8. FilesOK'
    <2>1. ASSUME Right', NEW p \in ToSet(pictures), p.file \in written',
                 p.icon \notin ToSet(op'.todo)
          PROVE  drawn'[p.file] = p.icon
      <3>1. CASE p = q
        BY <1>1, <1>3, <1>6, <3>1
      <3>2. CASE p # q
        <4>1. p.file # f /\ p.icon # i /\ p.file \in Files
          BY <1>3, <1>6, <1>7, <3>2, RecordsHavePictures
        <4>2. p.file \in written /\ p.icon \notin ToSet(op.todo)
          BY <1>1, <1>2, <1>4, <2>1, <4>1
        <4>3. drawn[p.file] = p.icon
          BY <1>5, <2>1, <4>2 DEF SignOK, FilesOK
        <4> QED
          BY <1>1, <1>6, <4>1, <4>3
      <3> QED
        BY <3>1, <3>2
    <2>2. ASSUME op'.at = "rewrite", NEW p \in ToSet(pictures),
                 p.icon \in ToSet(op'.todo)
          PROVE  p.file \notin written'
      <3>1. Distinct(op.todo) /\ op.at = "rewrite"
        BY <1>2, <2>2 DEF PoolOK, OpOK
      <3>2. p.icon # i /\ p.icon \in ToSet(op.todo)
        BY <1>2, <1>4, <2>2, <3>1
      <3>3. p.file # f /\ p.file \notin written
        BY <1>3, <1>7, <3>1, <3>2 DEF SignOK, FilesOK
      <3> QED
        BY <1>1, <3>3
    <2>3. op'.at = "revert" => dirty'
      BY <1>1, <1>2 DEF SignOK, FilesOK
    <2> QED
      BY <1>6, <2>1, <2>2, <2>3 DEF FilesOK
  <1>9. TextsOK'
    <2>1. ASSUME NEW c \in Callers, TextIsRight(c)'
          PROVE  TextIsRight(c) /\ TextStays(c)
      BY <1>1, <1>2, <2>1 DEF TextIsRight, TextStays
    <2> QED
      BY <1>5, <2>1, TextsStay DEF SignOK
  <1> QED
    BY <1>1, <1>2, <1>5, <1>8, <1>9, SignWithSamePool

LEMMA PutBackKeepsTheSign ==
  ASSUME PoolOK, SignOK, PutBack
  PROVE  SignOK'
  <1>1. /\ op.todo = <<>> /\ op.at \in {"rewrite", "revert", "draw"}
        /\ op' = IF op.at = "revert" THEN Idle
                 ELSE [op EXCEPT !.at = IF @ = "draw" THEN "write" ELSE "texts"]
        /\ UNCHANGED <<pool, drawn, written, dirty, owed, faults>>
    BY DEF PutBack
  <1>2. \/ /\ shown' = [shown EXCEPT ![Alert] =
                          Rendered(message[Alert], pictures)]
           /\ doubt' = (doubt /\ message[Alert] = <<>>)
           /\ UNCHANGED message
        \/ /\ message' = [message EXCEPT ![Alert] = <<>>]
           /\ UNCHANGED <<shown, doubt>>
    BY DEF PutBack
  <1>3. /\ DOMAIN shown = Callers /\ message \in [Callers -> Messages]
        /\ Alert \in Callers /\ op \in Ops /\ Apart(pictures)
    BY DEF PoolOK, TypeOK, Callers, OpOK, Fits
  <1>4. /\ ClaimsStay
        /\ op'.at = IF op.at = "revert" THEN "none"
                    ELSE IF op.at = "draw" THEN "write" ELSE "texts"
        /\ op.at # "revert" => op'.texts = op.texts
    <2>1. CASE op.at = "revert"
      <3>1. op' = Idle /\ op'.at = "none"
        BY <1>1, <2>1 DEF Idle
      <3> QED
        BY <2>1, <3>1, IdleIsOK DEF ClaimsStay, Claiming
    <2>2. CASE op.at # "revert"
      BY <1>1, <1>3, <2>2 DEF Ops, ClaimsStay
    <2> QED
      BY <2>1, <2>2
  <1>5. MessagesMayGo
    BY <1>2, <1>3 DEF MessagesMayGo
  <1>6. (Right' => Right) /\ Callable' = Callable
    BY <1>1, <1>4, SameClaims DEF Right
  <1>7. FilesOK'
    BY <1>1, <1>4, <1>6, FilesStay DEF SignOK, pool
  <1>8. TextsOK'
    <2>1. ASSUME NEW c \in Callers, c # Alert, TextIsRight(c)'
          PROVE  TextIsRight(c) /\ TextStays(c)
      <3>1. TextStays(c)
        BY <1>2, <1>3, <2>1 DEF TextStays
      <3>2. TextIsRight(c)
        BY <1>1, <1>4, <2>1 DEF TextIsRight
      <3> QED
        BY <3>1, <3>2
    <2>2. ASSUME TextIsRight(Alert)'
          PROVE  CallsItsOwn(Alert)'
      <3>1. CASE message' = [message EXCEPT ![Alert] = <<>>]
        BY <1>3, <3>1, NothingRecorded DEF CallsItsOwn
      <3>2. CASE shown' = [shown EXCEPT ![Alert] =
                             Rendered(message[Alert], pictures)]
        <4>1. Right
          BY <1>6, <2>2 DEF TextIsRight, Right
        <4>2. \A p \in ToSet(pictures) :
                p.icon \in ToSet(message[Alert]) => p \in Callable'
          BY <1>3, <1>6, <4>1, RecordedAreCallable DEF SignOK
        <4>3. shown'[Alert] = Rendered(message[Alert], pictures)
          BY <1>3, <3>2
        <4> QED
          BY <1>3, <4>2, <4>3, RenderedIsOwn
      <3> QED
        BY <1>2, <3>1, <3>2
    <2>3. \A c \in Callers : TextIsRight(c)' =>
             \/ TextIsRight(c) /\ TextStays(c) /\ Callable \subseteq Callable'
             \/ CallsItsOwn(c)'
      BY <1>6, <2>1, <2>2
    <2> QED
      BY <2>3, TextsStay DEF SignOK
  <1> QED
    BY <1>1, <1>4, <1>5, <1>6, <1>7, <1>8, SignWithSamePool

LEMMA WriteKeepsTheSign ==
  ASSUME PoolOK, SignOK, Write
  PROVE  SignOK'
  <1>1. /\ op.todo = <<>> /\ op.at \in Claiming
        /\ message' = [message EXCEPT ![op.who] = op.text]
        /\ shown' = [shown EXCEPT ![op.who] = Rendered(op.text, pictures)]
        /\ doubt' = (doubt /\ op.who # Alert)
        /\ op' = Idle
        /\ UNCHANGED <<pictures, held, drawn, written, dirty, owed, faults>>
    BY DEF Write, Claiming
  <1>2. /\ DOMAIN shown = Callers /\ message \in [Callers -> Messages]
        /\ op.who \in Callers /\ Apart(pictures)
        /\ ToSet(op.text) \subseteq Recorded(pictures)
        /\ EvictedOK /\ CalledOK
    BY <1>1 DEF PoolOK, TypeOK, OpOK, Fits
  <1>3. /\ op'.at = "none" /\ op'.evicted = <<>> /\ op'.claimed = {}
    BY <1>1 DEF Idle
  <1>4. /\ StillThere' = ToSet(pictures) /\ Lasting' = ToSet(pictures)
        /\ Callable' = ToSet(pictures)
    BY <1>1, <1>3, NothingRecorded DEF StillThere, Lasting, Callable
  <1>5. Right' => Right /\ ~dirty
    BY <1>1, <1>3 DEF Right
  <1>6. FilesOK'
    BY <1>1, <1>3, <1>5, FilesStay DEF SignOK
  <1>7. ASSUME NEW c \in Callers, c # op.who
        PROVE  \A p \in ToSet(op.evicted) : p.icon \notin ToSet(message[c])
    BY <1>2, <1>7 DEF EvictedOK, InUse
  <1>8. StillThere \subseteq ToSet(pictures)
    BY DEF StillThere
  <1>9. TextsOK'
    <2>1. ASSUME NEW c \in Callers, TextIsRight(c)'
          PROVE  CallsItsOwn(c)'
      <3>1. CASE c = op.who
        <4>1. shown'[c] = Rendered(op.text, pictures)
          BY <1>1, <1>2, <3>1
        <4> QED
          BY <1>2, <1>4, <4>1, RenderedIsOwn
      <3>2. CASE c # op.who
        <4>1. shown'[c] = shown[c] /\ message'[c] = message[c]
          BY <1>1, <1>2, <3>2
        <4>2. TextIsRight(c)
          BY <1>1, <1>3, <2>1, <3>2 DEF TextIsRight
        <4>3. CallsItsOwn(c)
          BY <4>2 DEF SignOK, TextsOK
        <4>4. ASSUME NEW p \in Callable, p.icon \in ToSet(message[c])
              PROVE  p \in ToSet(pictures)
          BY <1>7, <1>8, <3>2, <4>4 DEF Callable, Lasting
        <4> QED
          BY <1>4, <4>1, <4>3, <4>4 DEF CallsItsOwn
      <3> QED
        BY <3>1, <3>2
    <2> QED
      BY <2>1 DEF TextsOK
  <1>10. FullOrAllOK'
    <2>1. SUFFICES ASSUME Right'
                   PROVE  \/ \A f \in Files : \E p \in ToSet(pictures) : p.file = f
                          \/ \A c \in Callers :
                               ToSet(message'[c]) \subseteq IconsIn(ToSet(pictures))
      BY <1>4 DEF FullOrAllOK
    <2>2. CASE \A f \in Files : \E p \in Lasting : p.file = f
      <3>1. ASSUME NEW f \in Files
            PROVE  \E p \in ToSet(pictures) : p.file = f
        <4>1. PICK p \in Lasting : p.file = f
          BY <2>2
        <4>2. CASE p \in StillThere
          BY <1>8, <4>1, <4>2
        <4>3. CASE p \in ToSet(op.evicted)
          BY <4>1, <4>3 DEF SignOK, TakenOK
        <4> QED
          BY <4>1, <4>2, <4>3 DEF Lasting
      <3> QED
        BY <3>1
    <2>3. CASE \A c \in Callers : ToSet(message[c]) \subseteq IconsIn(Lasting)
      <3>1. ASSUME NEW c \in Callers
            PROVE  ToSet(message'[c]) \subseteq IconsIn(ToSet(pictures))
        <4>1. CASE c = op.who
          BY <1>1, <1>2, <4>1 DEF IconsIn, Recorded
        <4>2. CASE c # op.who
          <5>1. message'[c] = message[c]
            BY <1>1, <1>2, <4>2
          <5>2. ASSUME NEW j \in ToSet(message[c])
                PROVE  j \in IconsIn(ToSet(pictures))
            <6>1. PICK p \in Lasting : p.icon = j
              BY <2>3 DEF IconsIn
            <6>2. p \in StillThere
              BY <1>7, <4>2, <6>1 DEF Lasting
            <6> QED
              BY <1>8, <6>1, <6>2 DEF IconsIn
          <5> QED
            BY <5>1, <5>2
        <4> QED
          BY <4>1, <4>2
      <3> QED
        BY <3>1
    <2> QED
      BY <1>5, <2>1, <2>2, <2>3 DEF SignOK, FullOrAllOK
  <1>11. TakenOK'
    BY <1>3, NothingRecorded DEF TakenOK
  <1> QED
    BY <1>6, <1>9, <1>10, <1>11 DEF SignOK

(* What a drawing that failed has done to the files.                       *)
LEMMA DrawnElsewhere ==
  ASSUME PoolOK, MayHaveDrawn, NEW p \in ToSet(pictures),
         p.icon \notin ToSet(op.todo)
  PROVE  drawn'[p.file] = drawn[p.file]
  <1>1. CASE op.todo = <<>>
    BY <1>1 DEF MayHaveDrawn
  <1>2. CASE op.todo # <<>>
    <2>1. PICK q \in ToSet(pictures) :
            /\ q.icon = Head(op.todo)
            /\ FileIn(pictures, Head(op.todo)) = q.file
      BY <1>2, NextToDraw
    <2>2. ToSet(op.todo) = {Head(op.todo)} \cup ToSet(Tail(op.todo))
      BY <1>2, NextToDraw
    <2>3. p # q
      BY <2>1, <2>2
    <2>4. p.file # q.file
      BY <2>3, RecordsHavePictures DEF PoolOK, Fits
    <2>5. drawn' \in {drawn, [drawn EXCEPT ![q.file] = Head(op.todo)]}
      BY <1>2, <2>1 DEF MayHaveDrawn
    <2>6. drawn \in [Files -> Icons \cup {Blank}] /\ p.file \in Files
      BY RecordsHavePictures DEF PoolOK, TypeOK, Fits
    <2> QED
      BY <2>4, <2>5, <2>6
  <1> QED
    BY <1>1, <1>2

(* What was claimed goes back, and a file that is given back owns up to    *)
(* the bitmap that may be in it.                                           *)
LEMMA UndoKeepsTheSign ==
  ASSUME PoolOK, SignOK, op.at \in Claiming, UndoPool(Took),
         UNCHANGED <<message, lost>>,
         op'.claimed = {}, op'.evicted = <<>>, op'.at \in {"none", "revert"},
         dirty' = (dirty \/ op.evicted # <<>>) \/ dirty' = TRUE,
         op'.at = "revert" /\ op'.todo # <<>> => op.evicted # <<>>,
         written' \subseteq written,
         \A p \in ToSet(pictures) :
           p.icon \notin ToSet(op.todo) => drawn'[p.file] = drawn[p.file],
         \A c \in Callers :
           \/ shown'[c] = shown[c] /\ (TextIsRight(c)' => TextIsRight(c))
           \/ shown'[c] = <<>>
           \/ shown'[c] = Rendered(message[c], pictures)
           \/ ~TextIsRight(c)'
  PROVE  SignOK'
  <1>1. /\ ToSet(pictures') = Lasting
        /\ StillThere' = Lasting /\ Lasting' = Lasting
    BY UndoneIsAsBefore
  <1>2. ASSUME Right'
        PROVE  /\ ~dirty' /\ Right /\ op.evicted = <<>>
               /\ Lasting = StillThere /\ Callable = Lasting
               /\ Callable' = Lasting
    <2>1. ~dirty' /\ Right /\ op.evicted = <<>>
      BY <1>2 DEF Right
    <2>2. Lasting = StillThere /\ Callable = Lasting
      BY <2>1, NothingRecorded DEF Lasting, Callable
    <2>3. Callable' = Lasting
      BY <1>1 DEF Callable
    <2> QED
      BY <2>1, <2>2, <2>3
  <1>3. FilesOK'
    <2>1. ASSUME Right', NEW p \in ToSet(pictures'), p.file \in written'
          PROVE  drawn'[p.file] = p.icon
      <3>1. p \in StillThere
        BY <1>1, <1>2, <2>1
      <3>2. ToSet(op.todo) \subseteq op.claimed
        BY DEF PoolOK, OpOK
      <3>3. p \in ToSet(pictures) /\ p.icon \notin ToSet(op.todo)
        BY <3>1, <3>2 DEF StillThere
      <3>4. drawn[p.file] = p.icon
        BY <1>2, <2>1, <3>3 DEF SignOK, FilesOK
      <3> QED
        BY <3>3, <3>4
    <2>2. op'.at = "revert" /\ op'.todo # <<>> => dirty'
      OBVIOUS
    <2> QED
      BY <2>1, <2>2 DEF FilesOK
  <1>4. TextsOK'
    <2>1. ASSUME NEW c \in Callers, TextIsRight(c)'
          PROVE  CallsItsOwn(c)'
      <3>1. Right' /\ Apart(pictures)
        BY <2>1 DEF TextIsRight, Right, PoolOK, Fits
      <3>2. CASE shown'[c] = shown[c] /\ TextIsRight(c)
        <4>1. CallsItsOwn(c)
          BY <3>2 DEF SignOK, TextsOK
        <4> QED
          BY <1>2, <3>1, <3>2, <4>1 DEF CallsItsOwn
      <3>3. CASE shown'[c] = <<>> \/ shown'[c] = Rendered(message[c], pictures)
        <4>1. \A p \in ToSet(pictures) :
                p.icon \in ToSet(message[c]) => p \in Callable'
          BY <1>2, <3>1, RecordedAreCallable DEF SignOK
        <4> QED
          BY <3>1, <3>3, <4>1, RenderedIsOwn
      <3> QED
        BY <2>1, <3>2, <3>3
    <2> QED
      BY <2>1 DEF TextsOK
  <1>5. FullOrAllOK'
    BY <1>1, <1>2, FullOrAllStays DEF SignOK, MessagesMayGo
  <1>6. TakenOK'
    BY NothingRecorded DEF TakenOK
  <1> QED
    BY <1>3, <1>4, <1>5, <1>6 DEF SignOK

LEMMA RefuseKeepsTheSign ==
  ASSUME PoolOK, SignOK, Refuse
  PROVE  SignOK'
  <1>1. /\ op.at = "claimed" /\ UndoPool(Took) /\ op' = Idle
        /\ dirty' = (dirty \/ op.evicted # <<>>)
        /\ UNCHANGED <<message, lost>>
    BY DEF Refuse, Undo, Took
  <1>2. op'.at = "none" /\ op'.claimed = {} /\ op'.evicted = <<>>
    BY <1>1 DEF Idle
  <1>3. \/ UNCHANGED <<sign, owed, faults>>
        \/ /\ Faulty(NoFile)
           /\ doubt' = (doubt \/ message[Alert] # <<>>)
           /\ shown' \in {shown, [shown EXCEPT ![Alert] = <<>>]}
           /\ UNCHANGED drawn
    BY DEF Refuse
  <1>4. drawn' = drawn /\ written' \subseteq written
    BY <1>3, FaultsAreTyped DEF sign
  <1>5. DOMAIN shown = Callers
    BY DEF PoolOK, TypeOK
  <1>6. ASSUME NEW c \in Callers
        PROVE  \/ shown'[c] = shown[c] /\ (TextIsRight(c)' => TextIsRight(c))
               \/ shown'[c] = <<>>
    <2>1. TextIsRight(c)' => TextIsRight(c)
      BY <1>1, <1>2, <1>3 DEF TextIsRight, sign
    <2>2. shown'[c] = shown[c] \/ shown'[c] = <<>>
      BY <1>3, <1>5 DEF sign
    <2> QED
      BY <2>1, <2>2
  <1> QED
    BY <1>1, <1>2, <1>4, <1>6, UndoKeepsTheSign DEF Claiming

LEMMA FailDrawingKeepsTheSign ==
  ASSUME PoolOK, SignOK, FailDrawing
  PROVE  SignOK'
  <1>1. /\ op.at = "draw" /\ UndoPool(Took) /\ op' = Idle /\ MayHaveDrawn
        /\ dirty' = (dirty \/ op.evicted # <<>>)
        /\ UNCHANGED <<message, lost>>
        /\ \/ /\ shown' = [shown EXCEPT ![Alert] =
                             Rendered(message[Alert], pictures)]
              /\ doubt' = (doubt /\ message[Alert] = <<>>)
           \/ UNCHANGED <<shown, doubt>>
    BY DEF FailDrawing, Undo, Took
  <1>2. op'.at = "none" /\ op'.claimed = {} /\ op'.evicted = <<>>
    BY <1>1 DEF Idle
  <1>3. DOMAIN shown = Callers
    BY DEF PoolOK, TypeOK
  <1>4. ASSUME NEW c \in Callers
        PROVE  \/ shown'[c] = shown[c] /\ (TextIsRight(c)' => TextIsRight(c))
               \/ shown'[c] = Rendered(message[c], pictures)
    <2>1. CASE UNCHANGED <<shown, doubt>>
      BY <1>1, <1>2, <2>1 DEF TextIsRight
    <2>2. CASE /\ shown' = [shown EXCEPT ![Alert] =
                              Rendered(message[Alert], pictures)]
               /\ c = Alert
      BY <1>3, <2>2
    <2>3. CASE /\ shown' = [shown EXCEPT ![Alert] =
                              Rendered(message[Alert], pictures)]
               /\ c # Alert
      BY <1>1, <1>2, <1>3, <2>3 DEF TextIsRight
    <2> QED
      BY <1>1, <2>1, <2>2, <2>3
  <1> QED
    BY <1>1, <1>2, <1>4, DrawnElsewhere, DrawingsAreTyped, UndoKeepsTheSign
       DEF Claiming

LEMMA FailWritingKeepsTheSign ==
  ASSUME PoolOK, SignOK, FailWriting
  PROVE  SignOK'
  <1>1. /\ op.at = "write" /\ UndoPool(Took) /\ op' = Idle
        /\ dirty' = TRUE /\ Faulty(NoFile)
        /\ UNCHANGED <<message, drawn, lost>>
    BY DEF FailWriting
  <1>2. op'.at = "none" /\ op'.claimed = {} /\ op'.evicted = <<>>
    BY <1>1 DEF Idle
  <1>3. \A c \in Callers : ~TextIsRight(c)'
    BY <1>1, <1>2 DEF TextIsRight
  <1>4. written' \subseteq written
    BY <1>1, FaultsAreTyped
  <1> QED
    BY <1>1, <1>2, <1>3, <1>4, UndoKeepsTheSign DEF Claiming

LEMMA FailAlertKeepsTheSign ==
  ASSUME PoolOK, SignOK, FailAlert
  PROVE  SignOK'
  <1>1. /\ op.at \in {"draw", "write"} /\ op.who = Alert
        /\ UndoPool(Took) /\ MayHaveDrawn /\ doubt' = TRUE
        /\ dirty' = (dirty \/ op.evicted # <<>>)
        /\ UNCHANGED <<message, lost>>
        /\ \/ UNCHANGED shown
           \/ shown' = [shown EXCEPT ![Alert] = Rendered(op.text, pictures)]
        /\ \/ op' = [Idle EXCEPT !.at = "revert", !.who = Alert,
                                 !.todo = IconsOf(op.evicted)]
           \/ op' = Idle
    BY DEF FailAlert, Undo, Took
  <1>2. /\ op'.at \in {"none", "revert"} /\ op'.claimed = {}
        /\ op'.evicted = <<>>
        /\ op'.todo = <<>> \/ op'.todo = IconsOf(op.evicted)
    <2>1. CASE op' = Idle
      BY <2>1 DEF Idle
    <2>2. CASE op' = [Idle EXCEPT !.at = "revert", !.who = Alert,
                                  !.todo = IconsOf(op.evicted)]
      BY <2>2 DEF Idle
    <2> QED
      BY <1>1, <2>1, <2>2
  <1>3. op.evicted = <<>> => IconsOf(op.evicted) = <<>>
    BY IconsOfARecord DEF PoolOK, EvictedOK
  <1>4. DOMAIN shown = Callers
    BY DEF PoolOK, TypeOK
  <1>5. ASSUME NEW c \in Callers
        PROVE  \/ shown'[c] = shown[c] /\ (TextIsRight(c)' => TextIsRight(c))
               \/ ~TextIsRight(c)'
    <2>1. CASE c = Alert
      BY <1>1, <2>1 DEF TextIsRight
    <2>2. CASE c # Alert
      <3>1. shown'[c] = shown[c]
        BY <1>1, <1>4, <2>2
      <3> QED
        BY <1>1, <1>2, <2>2, <3>1 DEF TextIsRight
    <2> QED
      BY <2>1, <2>2
  <1> QED
    BY <1>1, <1>2, <1>3, <1>5, DrawnElsewhere, DrawingsAreTyped,
       UndoKeepsTheSign DEF Claiming

LEMMA GiveUpKeepsTheSign ==
  ASSUME PoolOK, SignOK, GiveUp
  PROVE  SignOK'
  <1>1. op.at = "revert" /\ dirty' = TRUE /\ op' = [op EXCEPT !.todo = Tail(@)]
    BY DEF GiveUp
  <1>2. op'.at = "revert" /\ op'.evicted = <<>>
    BY <1>1 DEF PoolOK, OpOK, Ops, Claiming
  <1>3. ~Right' /\ \A c \in Callers : ~TextIsRight(c)'
    BY <1>1, <1>2 DEF Right, TextIsRight
  <1> QED
    BY <1>1, <1>2, <1>3, NothingRecorded
       DEF SignOK, FilesOK, TextsOK, FullOrAllOK, TakenOK

LEMMA LeaveRevertingKeepsTheSign ==
  ASSUME PoolOK, SignOK, LeaveReverting
  PROVE  SignOK'
  <1>1. /\ op.at = "revert" /\ MayHaveDrawn /\ op' = Idle
        /\ UNCHANGED <<pool, message, shown, doubt, dirty>>
    BY DEF LeaveReverting
  <1>2. ClaimsStay /\ op'.at = "none" /\ MessagesMayGo
    BY <1>1, IdleIsOK DEF ClaimsStay, Claiming, MessagesMayGo, Idle
  <1>3. (Right' => Right /\ ~dirty) /\ Callable' = Callable
    BY <1>1, <1>2, SameClaims DEF Right
  <1>4. FilesOK'
    <2>1. ASSUME Right', NEW p \in ToSet(pictures), p.file \in written'
          PROVE  drawn'[p.file] = p.icon
      <3>1. op.todo = <<>>
        BY <1>1, <1>3, <2>1 DEF SignOK, FilesOK
      <3>2. p.icon \notin ToSet(op.todo) /\ p.file \in written
        BY <1>1, <2>1, <3>1, NothingRecorded, DrawingsAreTyped
      <3>3. drawn[p.file] = p.icon
        BY <1>3, <2>1, <3>2 DEF SignOK, FilesOK
      <3> QED
        BY <1>1, <3>2, <3>3, DrawnElsewhere
    <2> QED
      BY <1>1, <1>2, <2>1 DEF FilesOK, pool
  <1>5. TextsOK'
    <2>1. ASSUME NEW c \in Callers, TextIsRight(c)'
          PROVE  TextIsRight(c) /\ TextStays(c)
      BY <1>1, <1>2, <2>1 DEF TextIsRight, TextStays
    <2> QED
      BY <1>3, <2>1, TextsStay DEF SignOK
  <1> QED
    BY <1>1, <1>2, <1>3, <1>4, <1>5, SignWithSamePool

LEMMA FailRewriteKeepsTheSign ==
  ASSUME PoolOK, SignOK, FailRewrite
  PROVE  SignOK'
  <1>1. /\ op.at \in {"rewrite", "texts"} /\ MayHaveDrawn /\ op' = Idle
        /\ UNCHANGED <<pool, message, dirty>>
        /\ \/ /\ shown' = [shown EXCEPT ![Alert] =
                             Rendered(message[Alert], pictures)]
              /\ doubt' = (doubt /\ message[Alert] = <<>>)
           \/ UNCHANGED <<shown, doubt>>
    BY DEF FailRewrite
  <1>2. ClaimsStay /\ op'.at = "none" /\ MessagesMayGo
    BY <1>1, IdleIsOK DEF ClaimsStay, Claiming, MessagesMayGo, Idle
  <1>3. /\ Right' => Right /\ ~dirty
        /\ Callable' = Callable /\ DOMAIN shown = Callers
        /\ Apart(pictures) /\ Alert \in Callers
    BY <1>1, <1>2, SameClaims DEF Right, PoolOK, TypeOK, Fits, Callers
  <1>4. FilesOK'
    <2>1. ASSUME Right', NEW p \in ToSet(pictures), p.file \in written'
          PROVE  drawn'[p.file] = p.icon
      <3>1. p.file \in written
        BY <1>1, <2>1, DrawingsAreTyped
      <3>2. p.icon \notin ToSet(op.todo)
        <4>1. op.at = "texts" => op.todo = <<>>
          BY DEF PoolOK, OpOK
        <4> QED
          BY <1>1, <3>1, <4>1, NothingRecorded DEF SignOK, FilesOK
      <3>3. drawn[p.file] = p.icon
        BY <1>3, <2>1, <3>1, <3>2 DEF SignOK, FilesOK
      <3> QED
        BY <1>1, <3>2, <3>3, DrawnElsewhere
    <2> QED
      BY <1>1, <1>2, <2>1 DEF FilesOK, pool
  <1>5. TextsOK'
    <2>1. ASSUME NEW c \in Callers, c # Alert \/ UNCHANGED <<shown, doubt>>,
                 TextIsRight(c)'
          PROVE  TextIsRight(c) /\ TextStays(c)
      <3>1. ~dirty
        BY <1>1, <1>2, <2>1 DEF TextIsRight
      <3>2. shown'[c] = shown[c] /\ message'[c] = message[c]
        BY <1>1, <1>3, <2>1
      <3> QED
        BY <2>1, <3>1, <3>2 DEF TextIsRight, TextStays
    <2>2. ASSUME shown' = [shown EXCEPT ![Alert] =
                             Rendered(message[Alert], pictures)],
                 TextIsRight(Alert)'
          PROVE  CallsItsOwn(Alert)'
      <3>1. Right
        BY <1>1, <1>2, <2>2 DEF TextIsRight, Right
      <3>2. \A p \in ToSet(pictures) :
              p.icon \in ToSet(message[Alert]) => p \in Callable'
        BY <1>3, <3>1, RecordedAreCallable DEF SignOK
      <3>3. shown'[Alert] = Rendered(message[Alert], pictures)
        BY <1>3, <2>2
      <3> QED
        BY <1>3, <3>2, <3>3, RenderedIsOwn
    <2>3. \A c \in Callers : TextIsRight(c)' =>
             \/ TextIsRight(c) /\ TextStays(c) /\ Callable \subseteq Callable'
             \/ CallsItsOwn(c)'
      BY <1>1, <1>3, <2>1, <2>2
    <2> QED
      BY <2>3, TextsStay DEF SignOK
  <1> QED
    BY <1>1, <1>2, <1>3, <1>4, <1>5, SignWithSamePool

LEMMA TakeoffKeepsTheSign ==
  ASSUME PoolOK, SignOK, NEW k \in Slots, Takeoff(k)
  PROVE  SignOK'
  <1>1. /\ op = Idle /\ message' = [message EXCEPT ![k] = <<>>]
        /\ \/ /\ shown' = [shown EXCEPT ![k] = <<>>]
              /\ UNCHANGED <<written, dirty, owed, faults>>
           \/ Faulty(NoFile) /\ dirty' \in {dirty, TRUE} /\ UNCHANGED shown
        /\ UNCHANGED <<pool, drawn, doubt, op>>
    BY DEF Takeoff
  <1>2. /\ DOMAIN shown = Callers /\ message \in [Callers -> Messages]
        /\ op.at = "none"
    BY <1>1 DEF PoolOK, TypeOK, Idle
  <1>3. ClaimsStay /\ MessagesMayGo
    BY <1>1, <1>2 DEF ClaimsStay, MessagesMayGo
  <1>4. (Right' => Right) /\ Callable' = Callable /\ written' \subseteq written
    <2>1. dirty => dirty'
      BY <1>1
    <2>2. Right' => Right
      BY <1>1, <2>1 DEF Right
    <2>3. written' \subseteq written
      BY <1>1, FaultsAreTyped
    <2> QED
      BY <1>1, <1>3, <2>2, <2>3, SameClaims
  <1>5. FilesOK'
    BY <1>1, <1>2, <1>4, FilesStay DEF SignOK, pool
  <1>6. TextsOK'
    <2>1. ASSUME NEW c \in Callers, TextIsRight(c)'
          PROVE  TextIsRight(c) /\ TextStays(c)
      <3>1. TextIsRight(c)
        <4>1. dirty => dirty'
          BY <1>1
        <4> QED
          BY <1>1, <2>1, <4>1 DEF TextIsRight
      <3>2. TextStays(c)
        BY <1>1, <1>2 DEF TextStays
      <3> QED
        BY <3>1, <3>2
    <2> QED
      BY <1>4, <2>1, TextsStay DEF SignOK
  <1> QED
    BY <1>1, <1>3, <1>4, <1>5, <1>6, SignWithSamePool

(* One text that is rendered anew calls what is in the record.             *)
LEMMA OneIsRendered ==
  ASSUME PoolOK, SignOK, op.at \notin Claiming, UNCHANGED <<pool, message>>,
         ClaimsStay, NEW d \in Callers,
         shown' \in {[shown EXCEPT ![d] = Rendered(message[d], pictures)],
                     [shown EXCEPT ![d] = <<>>]},
         \A c \in Callers : c # d /\ TextIsRight(c)' => TextIsRight(c)
  PROVE  TextsOK'
  <1>1. Callable' = ToSet(pictures) /\ Callable = ToSet(pictures)
    <2>1. op.evicted = <<>> /\ op.claimed = {}
      BY DEF PoolOK, OpOK
    <2>2. Callable = ToSet(pictures)
      BY <2>1, NothingRecorded DEF Callable, Lasting, StillThere
    <2> QED
      BY <2>2, SameClaims
  <1>2. DOMAIN shown = Callers /\ Apart(pictures)
    BY DEF PoolOK, TypeOK, Fits
  <1>3. ASSUME NEW c \in Callers, c # d, TextIsRight(c)'
        PROVE  TextIsRight(c) /\ TextStays(c)
    BY <1>2, <1>3 DEF TextStays
  <1>4. CallsItsOwn(d)'
    <2>1. shown'[d] = Rendered(message[d], pictures) \/ shown'[d] = <<>>
      BY <1>2
    <2> QED
      BY <1>1, <1>2, <2>1, RenderedIsOwn
  <1>5. \A c \in Callers : TextIsRight(c)' =>
           \/ TextIsRight(c) /\ TextStays(c) /\ Callable \subseteq Callable'
           \/ CallsItsOwn(c)'
    BY <1>1, <1>3, <1>4
  <1> QED
    BY <1>5, TextsStay DEF SignOK

LEMMA SetActiveKeepsTheSign ==
  ASSUME PoolOK, SignOK, NEW k \in Slots, SetActive(k)
  PROVE  SignOK'
  <1>1. /\ op = Idle
        /\ shown' \in {[shown EXCEPT ![k] = Rendered(message[k], pictures)],
                       [shown EXCEPT ![k] = <<>>]}
        /\ UNCHANGED <<pool, message, drawn, written, dirty, doubt, owed, op,
                       faults>>
    BY DEF SetActive
  <1>2. op.at = "none" /\ k \in Callers
    BY <1>1 DEF Idle, Callers
  <1>3. ClaimsStay /\ MessagesMayGo /\ (Right' => Right)
    BY <1>1 DEF ClaimsStay, MessagesMayGo, Right
  <1>4. FilesOK'
    BY <1>1, <1>2, <1>3, FilesStay DEF SignOK, pool
  <1>5. \A c \in Callers : TextIsRight(c)' => TextIsRight(c)
    BY <1>1 DEF TextIsRight
  <1>6. TextsOK'
    BY <1>1, <1>2, <1>3, <1>5, OneIsRendered DEF Claiming
  <1> QED
    BY <1>1, <1>3, <1>4, <1>6, SignWithSamePool

LEMMA ReassertKeepsTheSign ==
  ASSUME PoolOK, SignOK, Reassert
  PROVE  SignOK'
  <1>1. /\ op = Idle /\ doubt' = FALSE
        /\ shown' = [shown EXCEPT ![Alert] = Rendered(message[Alert], pictures)]
        /\ UNCHANGED <<pool, message, drawn, written, dirty, owed, op, faults>>
    BY DEF Reassert
  <1>2. op.at = "none" /\ Alert \in Callers
    BY <1>1 DEF Idle, Callers
  <1>3. ClaimsStay /\ MessagesMayGo /\ (Right' => Right)
    BY <1>1 DEF ClaimsStay, MessagesMayGo, Right
  <1>4. FilesOK'
    BY <1>1, <1>2, <1>3, FilesStay DEF SignOK, pool
  <1>5. \A c \in Callers : c # Alert /\ TextIsRight(c)' => TextIsRight(c)
    BY <1>1 DEF TextIsRight
  <1>6. TextsOK'
    BY <1>1, <1>2, <1>3, <1>5, OneIsRendered DEF Claiming
  <1> QED
    BY <1>1, <1>3, <1>4, <1>6, SignWithSamePool

LEMMA RepushKeepsTheSign ==
  ASSUME PoolOK, SignOK, Repush
  PROVE  SignOK'
  <1>1. PICK k \in op.texts :
          /\ op.at = "texts"
          /\ shown' = [shown EXCEPT ![k] = Rendered(message[k], pictures)]
          /\ op' = IF op.texts = {k} THEN Idle
                   ELSE [op EXCEPT !.texts = @ \ {k}]
          /\ dirty' = (dirty /\ op.texts # {k})
          /\ UNCHANGED <<pool, message, drawn, written, doubt, owed, faults>>
    BY DEF Repush
  <1>2. op \in Ops /\ op.texts \subseteq Slots /\ op.todo = <<>>
    BY <1>1 DEF PoolOK, OpOK, Ops
  <1>3. CASE op.texts = {k}
    <2>1. op' = Idle /\ op'.at = "none" /\ op'.todo = <<>>
      BY <1>1, <1>3 DEF Idle
    <2>2. ClaimsStay /\ MessagesMayGo /\ Right
      BY <1>1, <2>1, IdleIsOK DEF ClaimsStay, Claiming, MessagesMayGo, Right
    <2>3. FilesOK'
      BY <1>1, <1>2, <2>1, <2>2, FilesStay DEF SignOK, pool
    <2>4. \A c \in Callers : c # k /\ TextIsRight(c)' => TextIsRight(c)
      BY <1>1, <1>3 DEF TextIsRight
    <2>5. TextsOK'
      BY <1>1, <1>2, <2>2, <2>4, OneIsRendered DEF Claiming, Callers
    <2> QED
      BY <1>1, <2>2, <2>3, <2>5, SignWithSamePool
  <1>4. CASE op.texts # {k}
    <2>1. op' = [op EXCEPT !.texts = @ \ {k}] /\ (dirty' <=> dirty)
      BY <1>1, <1>4
    <2>2. /\ op'.at = op.at /\ op'.who = op.who /\ op'.claimed = op.claimed
          /\ op'.evicted = op.evicted /\ op'.todo = op.todo
          /\ op'.texts = op.texts \ {k}
      BY <1>2, <2>1 DEF Ops
    <2>3. ClaimsStay /\ MessagesMayGo /\ Right
      BY <1>1, <2>2 DEF ClaimsStay, MessagesMayGo, Right
    <2>4. FilesOK'
      BY <1>1, <1>2, <2>2, <2>3, FilesStay DEF SignOK, pool
    <2>5. \A c \in Callers : c # k /\ TextIsRight(c)' => TextIsRight(c)
      BY <1>1, <2>1, <2>2 DEF TextIsRight
    <2>6. TextsOK'
      BY <1>1, <1>2, <2>3, <2>5, OneIsRendered DEF Claiming, Callers
    <2> QED
      BY <1>1, <2>3, <2>4, <2>6, SignWithSamePool
  <1> QED
    BY <1>3, <1>4

LEMMA ReleaseAlertKeepsTheSign ==
  ASSUME PoolOK, SignOK, ReleaseAlert
  PROVE  SignOK'
  <1>1. /\ op.at \in {"none", "claimed", "texts", "write"}
        /\ \/ /\ message' = [message EXCEPT ![Alert] = <<>>]
              /\ shown' = [shown EXCEPT ![Alert] = <<>>]
              /\ UNCHANGED <<written, owed, faults>>
           \/ /\ Faulty(NoFile) /\ doubt' = TRUE
              /\ shown' \in {shown, [shown EXCEPT ![Alert] = <<>>]}
              /\ UNCHANGED message
        /\ UNCHANGED <<pool, drawn, dirty, op>>
    BY DEF ReleaseAlert
  <1>2. /\ DOMAIN shown = Callers /\ message \in [Callers -> Messages]
        /\ Alert \in Callers
    BY DEF PoolOK, TypeOK, Callers
  <1>3. ClaimsStay /\ MessagesMayGo /\ (Right' => Right)
    BY <1>1, <1>2 DEF ClaimsStay, MessagesMayGo, Right
  <1>4. Callable' = Callable /\ written' \subseteq written
    BY <1>1, <1>3, SameClaims, FaultsAreTyped
  <1>5. FilesOK'
    BY <1>1, <1>3, <1>4, FilesStay DEF SignOK, pool
  <1>6. TextsOK'
    <2>1. ASSUME NEW c \in Callers, c # Alert, TextIsRight(c)'
          PROVE  TextIsRight(c) /\ TextStays(c)
      BY <1>1, <1>2, <2>1 DEF TextIsRight, TextStays
    <2>2. ASSUME TextIsRight(Alert)'
          PROVE  CallsItsOwn(Alert)'
      <3>1. ~doubt'
        BY <2>2 DEF TextIsRight
      <3>2. ToSet(message'[Alert]) = {}
        BY <1>1, <1>2, <3>1, NothingRecorded
      <3> QED
        BY <3>2 DEF CallsItsOwn
    <2>3. \A c \in Callers : TextIsRight(c)' =>
             \/ TextIsRight(c) /\ TextStays(c) /\ Callable \subseteq Callable'
             \/ CallsItsOwn(c)'
      BY <1>4, <2>1, <2>2
    <2> QED
      BY <2>3, TextsStay DEF SignOK
  <1> QED
    BY <1>1, <1>3, <1>5, <1>6, SignWithSamePool

LEMMA ReconnectedKeepsTheSign ==
  ASSUME PoolOK, SignOK, Reconnected
  PROVE  SignOK'
  <1>1. /\ op = Idle /\ dirty' = TRUE /\ op' = op
        /\ UNCHANGED <<pool, message, sign>>
    BY DEF Reconnected
  <1>2. op'.at = "none" /\ op'.evicted = <<>>
    BY <1>1 DEF Idle
  <1>3. ~Right' /\ \A c \in Callers : ~TextIsRight(c)'
    BY <1>1, <1>2 DEF Right, TextIsRight
  <1> QED
    BY <1>1, <1>2, <1>3, NothingRecorded
       DEF SignOK, FilesOK, TextsOK, FullOrAllOK, TakenOK

LEMMA BeginKeepsTheSign ==
  ASSUME PoolOK, SignOK, NEW c \in Callers, NEW m \in Messages, Begin(c, m)
  PROVE  SignOK'
  <1> DEFINE s == ClaimsOf(c, m)
             taken == ToSet(s.claimed)
  <1>1. /\ Fits(pictures, held) /\ Apart(pictures)
    BY DEF PoolOK, Fits
  <1>2. m \in Seq(Icons)
    BY MessagesHaveIcons
  <1>3. Sound(s, ToSet(m), c)
    BY <1>1, <1>2, AllIsClaimed DEF ClaimsOf
  <1>4. /\ op = Idle
        /\ \/ /\ pictures' = s.pictures /\ held' = s.held
              /\ op' = [Idle EXCEPT !.at = "claimed", !.who = c, !.text = m,
                                    !.claimed = taken,
                                    !.evicted = s.evicted, !.todo = s.claimed]
              /\ UNCHANGED dirty
           \/ /\ UndoPool([s EXCEPT !.claimed = ToSet(@)])
              /\ dirty' = (dirty \/ [s EXCEPT !.claimed = ToSet(@)].evicted # <<>>)
              /\ UNCHANGED op
        /\ UNCHANGED <<message, sign, lost, owed, faults>>
    BY DEF Begin, Undo
  <1>5. /\ Fits(s.pictures, s.held)
        /\ Kept(s) \cup ToSet(s.evicted) = ToSet(pictures)
        /\ Kept(s) \subseteq ToSet(s.pictures)
    BY <1>3, SoundIsFound DEF Kept
  <1>6. \A p \in ToSet(s.evicted) : \E q \in ToSet(s.pictures) : q.file = p.file
    <2> HIDE DEF s
    <2>1. Unassigned(s.held) \subseteq Unassigned(held)
      BY <1>3 DEF Sound
    <2>2. ASSUME NEW p \in ToSet(s.evicted)
          PROVE  \E q \in ToSet(s.pictures) : q.file = p.file
      <3>1. p \in ToSet(pictures) /\ p.file \in Files
        BY <1>1, <1>5, RecordsHavePictures
      <3>2. p.file \notin Unassigned(held)
        BY <1>1, <3>1, FreeFiles
      <3> QED
        BY <1>5, <2>1, <3>1, <3>2, FreeFiles
    <2> QED
      BY <2>2
  <1>7. LET gone == ToSet(s.claimed)
        IN ToSet(Without(s.pictures, gone) \o s.evicted) = ToSet(pictures)
    <2> HIDE DEF s
    <2>1. LET gone == ToSet(s.claimed)
          IN /\ Fits(Without(s.pictures, gone) \o s.evicted,
                     HeldBefore(s.held, gone, s.evicted))
             /\ ToSet(Without(s.pictures, gone) \o s.evicted) = ToSet(pictures)
      BY <1>1, <1>3, RefusedClaimsGoBack
    <2> QED
      BY <2>1
  <1> HIDE DEF s
  <1>8. /\ StillThere = ToSet(pictures) /\ Lasting = ToSet(pictures)
        /\ Callable = ToSet(pictures)
        /\ op.at = "none" /\ op.todo = <<>>
    BY <1>4, NothingRecorded DEF StillThere, Lasting, Callable, Idle
  <1>9. MessagesMayGo
    BY <1>4 DEF MessagesMayGo
  <1>10. CASE /\ pictures' = s.pictures /\ held' = s.held
              /\ op' = [Idle EXCEPT !.at = "claimed", !.who = c, !.text = m,
                                    !.claimed = taken,
                                    !.evicted = s.evicted, !.todo = s.claimed]
              /\ UNCHANGED dirty
    <2>1. /\ op'.at = "claimed" /\ op'.claimed = taken
          /\ op'.evicted = s.evicted /\ op'.todo = s.claimed
      BY <1>10 DEF Idle
    <2>2. Right' => Right
      BY <1>10, <2>1 DEF Right
    <2>3. Lasting' = Lasting /\ Callable \subseteq Callable'
      <3>1. Lasting' = ToSet(pictures)
        BY <1>5, <1>10, <2>1 DEF StillThere, Lasting, Kept
      <3> QED
        BY <1>8, <3>1 DEF Callable
    <2>4. FilesOK'
      <3>1. ASSUME Right', NEW p \in ToSet(s.pictures), p.file \in written',
                   p.icon \notin taken
            PROVE  drawn'[p.file] = p.icon
        <4>1. p \in ToSet(pictures)
          BY <1>5, <3>1 DEF Kept
        <4> QED
          BY <1>4, <1>8, <2>2, <3>1, <4>1, NothingRecorded
             DEF SignOK, FilesOK, sign
      <3> QED
        BY <1>10, <2>1, <3>1 DEF FilesOK
    <2>5. TextsOK'
      <3>1. ASSUME NEW d \in Callers, TextIsRight(d)'
            PROVE  TextIsRight(d) /\ TextStays(d)
        BY <1>4, <1>10, <2>1, <3>1 DEF TextIsRight, TextStays, sign
      <3> QED
        BY <2>3, <3>1, TextsStay DEF SignOK
    <2>6. TakenOK'
      BY <1>6, <1>10, <2>1 DEF TakenOK
    <2>7. FullOrAllOK'
      BY <1>9, <2>2, <2>3, FullOrAllStays DEF SignOK
    <2> QED
      BY <2>4, <2>5, <2>6, <2>7 DEF SignOK
  <1>11. CASE /\ UndoPool([s EXCEPT !.claimed = ToSet(@)])
              /\ dirty' = (dirty \/ [s EXCEPT !.claimed = ToSet(@)].evicted # <<>>)
              /\ UNCHANGED op
    <2>1. ToSet(pictures') = ToSet(pictures)
      <3> DEFINE u == [s EXCEPT !.claimed = ToSet(@)]
      <3>1. s \in Claims
        BY <1>3 DEF Sound, Balanced
      <3>2. /\ u.claimed = taken /\ u.evicted = s.evicted
            /\ u.pictures = s.pictures
        BY <3>1 DEF Claims
      <3>3. UndoPool(u)
        BY <1>11
      <3> HIDE DEF u
      <3>4. pictures' = Without(u.pictures, u.claimed) \o u.evicted
        BY <3>3 DEF UndoPool, Restored
      <3> QED
        BY <1>7, <3>2, <3>4
    <2>2. op' = Idle /\ op' = op /\ (dirty => dirty')
      BY <1>4, <1>11
    <2>3. /\ op'.at = "none" /\ op'.evicted = <<>> /\ op'.claimed = {}
          /\ op'.todo = <<>>
      BY <2>2 DEF Idle
    <2>4. (Right' => Right) /\ Lasting' = Lasting /\ Callable' = Callable
      <3>1. Lasting' = ToSet(pictures)
        BY <2>1, <2>3, NothingRecorded DEF Lasting, StillThere
      <3>2. Callable' = ToSet(pictures)
        BY <2>3, <3>1 DEF Callable
      <3> QED
        BY <1>8, <2>2, <3>1, <3>2 DEF Right
    <2>5. FilesOK'
      BY <1>4, <1>8, <2>1, <2>2, <2>3, <2>4 DEF SignOK, FilesOK, sign
    <2>6. TextsOK'
      <3>1. ASSUME NEW d \in Callers, TextIsRight(d)'
            PROVE  TextIsRight(d) /\ TextStays(d)
        BY <1>4, <2>2, <3>1 DEF TextIsRight, TextStays, sign
      <3> QED
        BY <2>4, <3>1, TextsStay DEF SignOK
    <2>7. TakenOK'
      BY <2>3, NothingRecorded DEF TakenOK
    <2>8. FullOrAllOK'
      BY <1>9, <2>4, FullOrAllStays DEF SignOK
    <2> QED
      BY <2>5, <2>6, <2>7, <2>8 DEF SignOK
  <1> QED
    BY <1>4, <1>10, <1>11

LEMMA RewriteKeepsTheSign ==
  ASSUME PoolOK, SignOK, NEW erase \in BOOLEAN, Rewrite(erase)
  PROVE  SignOK'
  <1> DEFINE s == Reclaimed
  <1>1. /\ Fits(pictures, held) /\ message \in [Callers -> Messages]
        /\ DOMAIN shown = Callers
    BY DEF PoolOK, TypeOK
  <1>2. message \in [Callers -> Seq(Icons)]
    BY <1>1, PicturePoolAssumption
  <1>3. /\ Wanted \in Seq(Icons)
        /\ \A c \in Callers : ToSet(message[c]) \subseteq ToSet(Wanted)
    BY <1>2, WantedIsCalled
  <1>4. /\ Sound(s, ToSet(Wanted), Nobody)
        /\ ToSet(Wanted) \subseteq Recorded(s.pictures) \cup s.refused
    <2>1. LET r == ClaimAll(Wanted, Nobody, TRUE)
          IN /\ Sound(r, ToSet(Wanted), Nobody)
             /\ TRUE \/ r.refused = {} =>
                  ToSet(Wanted) \subseteq Recorded(r.pictures) \cup r.refused
      BY <1>1, <1>3, AllIsClaimed
    <2> QED
      BY <2>1 DEF Reclaimed
  <1>5. /\ Fits(s.pictures, s.held)
        /\ Kept(s) \cup ToSet(s.evicted) = ToSet(pictures)
        /\ \A p \in ToSet(s.evicted) : ~InUse(p.icon, Nobody)
        /\ Kept(s) \subseteq ToSet(s.pictures)
    BY <1>4, SoundIsFound DEF Kept
  <1>6. /\ op = Idle
        /\ pictures' = s.pictures /\ held' = s.held
        /\ op' = [Idle EXCEPT
                    !.at = IF s.pictures = <<>> THEN "texts" ELSE "rewrite",
                    !.texts = Slots, !.todo = IconsOf(s.pictures)]
        /\ \A c \in Callers : shown'[c] = shown[c] \/ shown'[c] = <<>>
        /\ written' = {}
        /\ doubt' = (doubt \/ message[Alert] # <<>>)
        /\ UNCHANGED <<message, dirty, owed, faults>>
    BY DEF Rewrite
  <1>7. s.refused # {} => Unassigned(s.held) = {}
    <2> HIDE DEF s
    <2> QED
      BY <1>4 DEF Sound, RefusedWhenFull
  <1> HIDE DEF s
  <1>8. /\ op'.at \in {"rewrite", "texts"} /\ op'.claimed = {}
        /\ op'.evicted = <<>> /\ op'.texts = Slots
    BY <1>6 DEF Idle
  <1>9. /\ Callable = ToSet(pictures)
        /\ Callable' = ToSet(s.pictures) /\ Lasting' = ToSet(s.pictures)
    BY <1>6, <1>8, NothingRecorded DEF StillThere, Lasting, Callable, Idle
  <1>10. FilesOK'
    BY <1>6, <1>8 DEF FilesOK
  <1>11. TextsOK'
    <2>1. ASSUME NEW c \in Callers, TextIsRight(c)'
          PROVE  CallsItsOwn(c)'
      <3>1. CASE c = Alert
        <4>1. message[Alert] = <<>>
          BY <1>6, <2>1, <3>1 DEF TextIsRight
        <4> QED
          BY <1>6, <3>1, <4>1, NothingRecorded DEF CallsItsOwn
      <3>2. CASE c # Alert
        <4>1. c \in Slots /\ ~dirty
          BY <1>6, <1>8, <2>1, <3>2 DEF Callers, TextIsRight
        <4>2. CallsItsOwn(c)
          BY <3>2, <4>1 DEF SignOK, TextsOK, TextIsRight
        <4>3. ASSUME NEW p \in ToSet(pictures), p.icon \in ToSet(message[c])
              PROVE  p \in ToSet(s.pictures)
          BY <1>5, <4>3, PicturePoolAssumption DEF InUse
        <4> QED
          BY <1>6, <1>9, <4>2, <4>3, NothingRecorded DEF CallsItsOwn
      <3> QED
        BY <3>1, <3>2
    <2> QED
      BY <2>1 DEF TextsOK
  <1>12. FullOrAllOK'
    <2>1. CASE s.refused # {}
      <3>1. \A f \in Files : \E p \in ToSet(s.pictures) : p.file = f
        BY <1>5, <1>7, <2>1, FreeFiles
      <3> QED
        BY <1>9, <3>1 DEF FullOrAllOK
    <2>2. CASE s.refused = {}
      <3>1. Recorded(s.pictures) = IconsIn(ToSet(s.pictures))
        BY DEF Recorded, IconsIn
      <3>2. \A c \in Callers : ToSet(message'[c]) \subseteq IconsIn(Lasting')
        BY <1>3, <1>4, <1>6, <1>9, <2>2, <3>1
      <3> QED
        BY <3>2 DEF FullOrAllOK
    <2> QED
      BY <2>1, <2>2
  <1>13. TakenOK'
    BY <1>8, NothingRecorded DEF TakenOK
  <1> QED
    BY <1>10, <1>11, <1>12, <1>13 DEF SignOK

LEMMA SignAtFirst == Init => SignOK
  <1> SUFFICES ASSUME Init PROVE SignOK
    OBVIOUS
  <1>1. op = Idle /\ op.at = "none" /\ op.evicted = <<>>
    BY DEF Init, Idle
  <1>2. FilesOK
    BY <1>1, NothingRecorded DEF Init, FilesOK
  <1>3. TextsOK
    BY NothingRecorded DEF Init, TextsOK, CallsItsOwn
  <1>4. FullOrAllOK
    BY NothingRecorded DEF Init, FullOrAllOK
  <1>5. TakenOK
    BY <1>1, NothingRecorded DEF TakenOK
  <1> QED
    BY <1>2, <1>3, <1>4, <1>5 DEF SignOK

LEMMA StepsKeepTheSign == PoolOK /\ SignOK /\ [Next]_vars => SignOK'
  <1> SUFFICES ASSUME PoolOK, SignOK, [Next]_vars PROVE SignOK'
    OBVIOUS
  <1>1. ASSUME NEW c \in Callers, NEW m \in Messages, Begin(c, m) PROVE SignOK'
    BY <1>1, BeginKeepsTheSign
  <1>2. CASE Refuse
    BY <1>2, RefuseKeepsTheSign
  <1>3. CASE HandBack
    BY <1>3, HandBackKeepsTheSign
  <1>4. CASE NothingToDraw
    BY <1>4, NothingToDrawKeepsTheSign
  <1>5. CASE Draw
    BY <1>5, DrawKeepsTheSign
  <1>6. CASE PutBack
    BY <1>6, PutBackKeepsTheSign
  <1>7. CASE Write
    BY <1>7, WriteKeepsTheSign
  <1>8. CASE FailDrawing
    BY <1>8, FailDrawingKeepsTheSign
  <1>9. CASE FailWriting
    BY <1>9, FailWritingKeepsTheSign
  <1>10. CASE FailAlert
    BY <1>10, FailAlertKeepsTheSign
  <1>11. CASE GiveUp
    BY <1>11, GiveUpKeepsTheSign
  <1>12. CASE LeaveReverting
    BY <1>12, LeaveRevertingKeepsTheSign
  <1>13. ASSUME NEW k \in Slots, Takeoff(k) PROVE SignOK'
    BY <1>13, TakeoffKeepsTheSign
  <1>14. ASSUME NEW k \in Slots, SetActive(k) PROVE SignOK'
    BY <1>14, SetActiveKeepsTheSign
  <1>15. CASE ReleaseAlert
    BY <1>15, ReleaseAlertKeepsTheSign
  <1>16. CASE Reassert
    BY <1>16, ReassertKeepsTheSign
  <1>17. CASE Refresh
    BY <1>17, RewriteKeepsTheSign DEF Refresh
  <1>18. CASE Reboot
    BY <1>18, RewriteKeepsTheSign DEF Reboot
  <1>19. CASE Repush
    BY <1>19, RepushKeepsTheSign
  <1>20. CASE FailRewrite
    BY <1>20, FailRewriteKeepsTheSign
  <1>21. CASE Reconnected
    BY <1>21, ReconnectedKeepsTheSign
  <1>22. CASE UNCHANGED vars
    <2>1. UNCHANGED <<pictures, message, drawn, shown, written, dirty, doubt, op>>
      BY <1>22 DEF vars
    <2>2. FilesOK' /\ TakenOK'
      BY <2>1 DEF SignOK, FilesOK, Right, TakenOK
    <2>3. Lasting' = Lasting /\ Callable' = Callable
      BY <2>1 DEF Lasting, StillThere, Callable
    <2>4. TextsOK' /\ FullOrAllOK'
      BY <2>1, <2>3 DEF SignOK, TextsOK, TextIsRight, CallsItsOwn, FullOrAllOK,
                        Right
    <2> QED
      BY <2>2, <2>4 DEF SignOK
  <1> QED
    BY <1>1, <1>2, <1>3, <1>4, <1>5, <1>6, <1>7, <1>8, <1>9, <1>10, <1>11,
       <1>12, <1>13, <1>14, <1>15, <1>16, <1>17, <1>18, <1>19, <1>20, <1>21,
       <1>22 DEF Next

LEMMA OwnFilesAreCalled == PoolOK /\ SignOK => OwnIconsOnly
  <1> SUFFICES ASSUME PoolOK, SignOK, op = Idle, Settled, ~owed,
                      NEW c \in Callers, c = Alert => ~doubt,
                      NEW i \in DOMAIN shown[c] \cap ToSet(message[c])
               PROVE  drawn[shown[c][i]] = i
    BY DEF OwnIconsOnly
  <1>1. op.claimed = {} /\ op.evicted = <<>> /\ op.todo = <<>> /\ op.at = "none"
    BY DEF Idle
  <1>2. Callable = ToSet(pictures)
    BY <1>1, NothingRecorded DEF Callable, Lasting, StillThere
  <1>3. ~dirty /\ FilesOf(pictures) \subseteq written
    BY DEF Settled
  <1>4. CallsItsOwn(c)
    BY <1>3 DEF SignOK, TextsOK, TextIsRight
  <1>5. PICK p \in ToSet(pictures) : p.icon = i /\ p.file = shown[c][i]
    BY <1>2, <1>4 DEF CallsItsOwn
  <1>6. p.file \in written
    BY <1>3 DEF FilesOf
  <1> QED
    BY <1>1, <1>3, <1>5, <1>6, NothingRecorded DEF SignOK, FilesOK, Right

(* Once nothing is known to be wrong and every picture file has been       *)
(* written since the sign was last in doubt, no text draws another's icon: *)
(* a refresh may ask about one picture and leave the rest alone, and a     *)
(* message may go out without an icon that has its file already.           *)
THEOREM TextsDrawTheirOwnIcons == Spec => []OwnIconsOnly
  <1>1. IInv => OwnIconsOnly
    BY OwnFilesAreCalled DEF IInv
  <1>2. Init => IInv
    BY PoolAtFirst, SignAtFirst DEF IInv
  <1>3. IInv /\ [Next]_vars => IInv'
    BY StepsKeepThePool, StepsKeepTheSign DEF IInv
  <1> QED
    BY <1>1, <1>2, <1>3, PTL DEF Spec
=============================================================================
