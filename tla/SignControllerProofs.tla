------------------------ MODULE SignControllerProofs ------------------------
(***************************************************************************)
(* SignController's invariants, for any tasks, files and contents, any     *)
(* number of threads left behind and any number of reopens.  The inductive *)
(* invariant is ControllerInv; ControllerStep has one step per action, and *)
(* under each the shape of the state (who holds the lock, what is being    *)
(* sent), the truth of the cache, and what is known of the link.           *)
(***************************************************************************)
EXTENDS SignController, TLAPS

LEMMA ControllerInit == Init => ControllerInv
<1> SUFFICES ASSUME Init PROVE ControllerInv
  OBVIOUS
<1>a. NoJob \in Job /\ NoOrphan \in Orphan
  BY DEF NoJob, Job, Kinds, NoOrphan, Orphan
<1>1. TypeOK
  <2>1. /\ cache \in [Files -> Contents \cup {Unknown}]
        /\ pc \in [Tasks -> {"idle", "waiting"} \cup InFlight]
    BY DEF Init, InFlight
  <2>2. job \in [Tasks -> Job] /\ orphans \in [Orphans -> Orphan]
    BY <1>a DEF Init
  <2>3. /\ sign \in [Files -> Contents \cup {Blank}]
        /\ doubt \in [Files -> Doubts]
        /\ opened \in BOOLEAN /\ wanted \in BOOLEAN /\ deaf \in BOOLEAN
        /\ lost \in BOOLEAN /\ cancelled \in BOOLEAN
    BY DEF Init, Doubts
  <2>4. /\ holder \in Tasks \cup {Nobody}
        /\ link \in {"up", "dead", "down"}
        /\ reopens \in 0 .. MaxReopens /\ seen \in 0 .. MaxReopens
    BY ControllerAssumption DEF Init
  <2>5. QED
    BY <2>1, <2>2, <2>3, <2>4 DEF TypeOK
<1> USE ControllerAssumption
    DEF Init, InFlight, NoJob, NoOrphan, SettleIsUninterruptible
<1>2. LockInv /\ JobInv
  BY DEF LockInv, JobInv
<1>3. EntryInv /\ AcceptedInv /\ HonestInv
  BY DEF EntryInv, AcceptedInv, HonestInv
<1>4. ReopenInv /\ UncancelledInv /\ SwallowedIsForgotten /\ DeafSignIsLeftAlone
  BY DEF ReopenInv, LossIsRepaired, UncancelledInv, SwallowedIsForgotten,
         DeafSignIsLeftAlone
<1>5. QED
  BY <1>1, <1>2, <1>3, <1>4 DEF ControllerInv

(* What an accepted write does to the world, whichever way it went: only   *)
(* its own file is touched, which holds what was sent or is in doubt, and  *)
(* bytes vanish only into a connection that is left dead.                  *)
LEMMA AcceptedEffect ==
  ASSUME TypeOK, NEW f \in Files \cup {NoFile}, NEW c \in Contents \cup {Unknown},
         NEW d \in Doubts \ {"swallowed", "deaf"}, f # NoFile => c \in Contents,
         Accepted(f, c, d)
  PROVE  /\ link' \in {"up", "dead"} /\ opened' = opened /\ lost' \in BOOLEAN
         /\ reopens' \in 0 .. MaxReopens /\ reopens' \in {reopens, reopens + 1}
         /\ link # "down"
         /\ link = "up" => link' = "up"
         /\ link = "dead" /\ link' = "up" => reopens' = reopens + 1
         /\ lost' => lost \/ link' = "dead"
         /\ sign' \in [Files -> Contents \cup {Blank}]
         /\ doubt' \in [Files -> Doubts]
         /\ \A g \in Files : g # f => sign'[g] = sign[g] /\ doubt'[g] = doubt[g]
         /\ f \in Files =>
              /\ doubt'[f] = "none" => sign'[f] = c /\ d = "none"
              /\ doubt'[f] = "swallowed" => link' = "dead"
              /\ doubt'[f] = "deaf" => deaf
              /\ deaf' = deaf
         /\ deaf' \in BOOLEAN
<1> USE ControllerAssumption DEF TypeOK, Doubts
<1>a. ASSUME Arrives(f, c, d)
      PROVE  /\ lost' = lost /\ deaf' \in BOOLEAN
             /\ sign' \in [Files -> Contents \cup {Blank}]
             /\ doubt' \in [Files -> Doubts]
             /\ \A g \in Files : g # f => sign'[g] = sign[g] /\ doubt'[g] = doubt[g]
             /\ f \in Files =>
                  /\ doubt'[f] = "none" => sign'[f] = c /\ d = "none"
                  /\ doubt'[f] # "swallowed"
                  /\ doubt'[f] = "deaf" => deaf
                  /\ deaf' = deaf
  <2>1. CASE f = NoFile
    BY <1>a, <2>1 DEF Arrives
  <2>2. CASE f # NoFile /\ deaf
    BY <1>a, <2>2 DEF Arrives
  <2>3. CASE f # NoFile /\ ~deaf
    BY <1>a, <2>3 DEF Arrives
  <2>4. QED
    BY <2>1, <2>2, <2>3
<1>1. CASE link = "up" /\ Arrives(f, c, d) /\ UNCHANGED linkVars
  BY <1>a, <1>1 DEF linkVars
<1>2. CASE link = "dead" /\ Vanishes(f) /\ UNCHANGED linkVars
  BY <1>2 DEF Vanishes, linkVars
<1>3. CASE /\ link = "dead" /\ reopens < MaxReopens /\ reopens' = reopens + 1
           /\ link' = "up" /\ Arrives(f, c, d) /\ UNCHANGED opened
  BY <1>a, <1>3
<1>4. CASE /\ link = "dead" /\ reopens < MaxReopens /\ reopens' = reopens + 1
           /\ link' = "dead" /\ Vanishes(f) /\ UNCHANGED opened
  BY <1>4 DEF Vanishes
<1>5. QED
  BY <1>1, <1>2, <1>3, <1>4 DEF Accepted, Net!Reopen

(* What a refused one does: nothing to the sign, and the link is down,     *)
(* unless another thread has it closed just then.                          *)
LEMMA RefusedEffect ==
  ASSUME TypeOK, NEW others \in BOOLEAN, Refused(others)
  PROVE  /\ link' = "down" \/ (link' = "dead" /\ link = "dead" /\ others)
         /\ reopens' \in 0 .. MaxReopens
         /\ reopens = reopens' \/ link' = "down"
         /\ reopens' \in {reopens, reopens + 1}
         /\ UNCHANGED <<opened, sign, deaf, doubt, lost>>
  BY DEF Refused, Net!Drop, TypeOK

(* Marking the older writes of a file changes nothing else about them.     *)
LEMMA SupersedingEffect ==
  ASSUME TypeOK, NEW f \in Files \cup {NoFile}, orphans' = Superseding(f)
  PROVE  /\ orphans' \in [Orphans -> Orphan]
         /\ \A o \in Orphans :
              /\ orphans'[o].file = orphans[o].file
              /\ orphans'[o].busy = orphans[o].busy
              /\ orphans'[o].contents = orphans[o].contents
              /\ orphans[o].superseded => orphans'[o].superseded
              /\ f # NoFile /\ orphans[o].file = f => orphans'[o].superseded
  BY DEF Superseding, TypeOK, Orphan

LEMMA ControllerStep == ControllerInv /\ [Next]_vars => ControllerInv'
<1> SUFFICES ASSUME ControllerInv, [Next]_vars PROVE ControllerInv'
  OBVIOUS
<1> USE ControllerAssumption
    DEF ControllerInv, Forgotten, linkVars, InFlight, Job, NoJob, Kinds, Orphan,
        NoOrphan, Doubts, LossUnnoticed, SettleIsUninterruptible, SatOut
<1> DEFINE Shape == TypeOK /\ LockInv /\ JobInv
           Truth == EntryInv /\ AcceptedInv /\ HonestInv
           Link == ReopenInv /\ UncancelledInv /\ SwallowedIsForgotten
                   /\ DeafSignIsLeftAlone
<1>1. ASSUME NEW t \in Tasks, NEW f \in Files, NEW c \in Contents, SendIfChanged(t, f, c)
     PROVE  ControllerInv'
  <2>1. Shape'
    BY <1>1 DEF SendIfChanged, Sending, TypeOK, LockInv, JobInv
  <2>2. Truth'
    BY <1>1
    DEF SendIfChanged, Sending, TypeOK, LockInv, JobInv, EntryInv, AcceptedInv,
        HonestInv
  <2>3. Link'
    BY <1>1
    DEF SendIfChanged, Sending, TypeOK, LockInv, JobInv, EntryInv,
        ReopenInv, LossIsRepaired, UncancelledInv, SwallowedIsForgotten,
        DeafSignIsLeftAlone
  <2>4. QED
    BY <2>1, <2>2, <2>3
<1>2. ASSUME NEW t \in Tasks, NEW f \in Files, NEW c \in Contents, SendForced(t, f, c)
     PROVE  ControllerInv'
  <2>1. Shape'
    BY <1>2 DEF SendForced, Sending, TypeOK, LockInv, JobInv
  <2>2. Truth'
    BY <1>2
    DEF SendForced, Sending, TypeOK, LockInv, JobInv, EntryInv, AcceptedInv,
        HonestInv
  <2>3. Link'
    BY <1>2
    DEF SendForced, Sending, TypeOK, LockInv, JobInv, EntryInv,
        ReopenInv, LossIsRepaired, UncancelledInv, SwallowedIsForgotten,
        DeafSignIsLeftAlone
  <2>4. QED
    BY <2>1, <2>2, <2>3
<1>3. ASSUME NEW t \in Tasks, SendSpecial(t)
     PROVE  ControllerInv'
  <2>1. Shape'
    BY <1>3 DEF SendSpecial, TypeOK, LockInv, JobInv
  <2>2. Truth'
    BY <1>3
    DEF SendSpecial, TypeOK, LockInv, JobInv, EntryInv, AcceptedInv,
        HonestInv
  <2>3. Link'
    BY <1>3
    DEF SendSpecial, TypeOK, LockInv, JobInv, EntryInv,
        ReopenInv, LossIsRepaired, UncancelledInv, SwallowedIsForgotten,
        DeafSignIsLeftAlone
  <2>4. QED
    BY <2>1, <2>2, <2>3
<1>4. ASSUME NEW t \in Tasks, TakeLock(t)
     PROVE  ControllerInv'
  <2>1. Shape'
    BY <1>4 DEF TakeLock, TypeOK, LockInv, JobInv
  <2>2. Truth'
    BY <1>4
    DEF TakeLock, TypeOK, LockInv, JobInv, EntryInv, AcceptedInv,
        HonestInv
  <2>3. Link'
    BY <1>4
    DEF TakeLock, TypeOK, LockInv, JobInv, EntryInv,
        ReopenInv, LossIsRepaired, UncancelledInv, SwallowedIsForgotten,
        DeafSignIsLeftAlone
  <2>4. QED
    BY <2>1, <2>2, <2>3
<1>5. ASSUME NEW t \in Tasks, WorkerWrites(t)
     PROVE  ControllerInv'
  <2>1. CASE /\ Accepted(job[t].file, job[t].contents, "none")
             /\ pc' = [pc EXCEPT ![t] = "written"]
             /\ orphans' = Superseding(job[t].file)
    <3> DEFINE f == job[t].file
               c == job[t].contents
    <3>1. f \in Files \cup {NoFile} /\ c \in Contents \cup {Unknown}
          /\ (f # NoFile => c \in Contents)
      BY DEF TypeOK, JobInv
    <3>2. Accepted(f, c, "none")
      BY <2>1
    <3> HIDE DEF f, c
    <3>3. /\ link' \in {"up", "dead"} /\ opened' = opened /\ lost' \in BOOLEAN
          /\ reopens' \in 0 .. MaxReopens /\ reopens' \in {reopens, reopens + 1}
          /\ link # "down"
          /\ link = "up" => link' = "up"
          /\ link = "dead" /\ link' = "up" => reopens' = reopens + 1
          /\ lost' => lost \/ link' = "dead"
          /\ sign' \in [Files -> Contents \cup {Blank}]
          /\ doubt' \in [Files -> Doubts]
          /\ \A g \in Files : g # f => sign'[g] = sign[g] /\ doubt'[g] = doubt[g]
          /\ f \in Files =>
               /\ doubt'[f] = "none" => sign'[f] = c
               /\ doubt'[f] = "swallowed" => link' = "dead"
               /\ doubt'[f] = "deaf" => deaf
               /\ deaf' = deaf
          /\ deaf' \in BOOLEAN
      BY <3>1, <3>2, AcceptedEffect
    <3>4. /\ orphans' \in [Orphans -> Orphan]
          /\ \A o \in Orphans :
               /\ orphans'[o].file = orphans[o].file
               /\ orphans'[o].busy = orphans[o].busy
               /\ orphans'[o].contents = orphans[o].contents
               /\ orphans[o].superseded => orphans'[o].superseded
               /\ f # NoFile /\ orphans[o].file = f => orphans'[o].superseded
      BY <2>1, <3>1, SupersedingEffect DEF f
    <3>5. pc[t] = "writing" /\ UNCHANGED <<cache, holder, job, seen, wanted, cancelled>>
      BY <1>5 DEF WorkerWrites
    <3>6. Shape'
      BY <2>1, <3>3, <3>4, <3>5 DEF TypeOK, LockInv, JobInv
    <3>7. Truth'
      BY <2>1, <3>1, <3>3, <3>4, <3>5
      DEF f, c, TypeOK, LockInv, JobInv, EntryInv, AcceptedInv, HonestInv
    <3>8. ReopenInv' /\ UncancelledInv'
      BY <2>1, <3>1, <3>3, <3>4, <3>5
      DEF f, TypeOK, LockInv, JobInv, ReopenInv, LossIsRepaired, UncancelledInv
    <3>9. SwallowedIsForgotten' /\ DeafSignIsLeftAlone'
      BY <2>1, <3>1, <3>3, <3>5
      DEF TypeOK, LockInv, ReopenInv, UncancelledInv, SwallowedIsForgotten,
          DeafSignIsLeftAlone
    <3>10. QED
      BY <3>6, <3>7, <3>8, <3>9
  <2>2. CASE /\ Refused(\E o \in Orphans : orphans[o].busy)
             /\ pc' = [pc EXCEPT ![t] = "refused"]
             /\ UNCHANGED orphans
    <3>1. /\ link' = "down" \/ (link' = "dead" /\ link = "dead")
          /\ link' = "down" \/ cancelled
          /\ reopens = reopens' \/ link' = "down"
          /\ reopens' \in 0 .. MaxReopens
          /\ reopens' \in {reopens, reopens + 1}
          /\ UNCHANGED <<opened, sign, deaf, doubt, lost>>
      BY <2>2, RefusedEffect DEF UncancelledInv
    <3>2. pc[t] = "writing" /\ UNCHANGED <<cache, holder, job, seen, wanted, cancelled>>
      BY <1>5 DEF WorkerWrites
    <3>3. Shape'
      BY <2>2, <3>1, <3>2 DEF TypeOK, LockInv, JobInv
    <3>4. Truth'
      BY <2>2, <3>1, <3>2
      DEF TypeOK, LockInv, JobInv, EntryInv, AcceptedInv, HonestInv
    <3>5. Link'
      BY <2>2, <3>1, <3>2
      DEF TypeOK, LockInv, JobInv, ReopenInv, LossIsRepaired, UncancelledInv,
          SwallowedIsForgotten, DeafSignIsLeftAlone
    <3>6. QED
      BY <3>3, <3>4, <3>5
  <2>3. QED
    BY <1>5, <2>1, <2>2 DEF WorkerWrites
<1>6. ASSUME NEW o \in Orphans, OrphanWrites(o)
     PROVE  ControllerInv'
  <2> DEFINE f == orphans[o].file
             c == orphans[o].contents
             d == IF orphans[o].superseded THEN "overtaken" ELSE "none"
  <2>1. orphans[o].busy /\ orphans' = [orphans EXCEPT ![o] = NoOrphan]
        /\ UNCHANGED <<cache, holder, pc, job, seen, wanted, cancelled>>
    BY <1>6 DEF OrphanWrites
  <2>2. cancelled
    BY <2>1 DEF TypeOK, UncancelledInv
  <2>3. CASE Accepted(f, c, d)
    <3>1. f \in Files \cup {NoFile} /\ c \in Contents \cup {Unknown}
          /\ (f # NoFile => c \in Contents) /\ d \in Doubts \ {"swallowed", "deaf"}
          /\ (d = "none" => ~orphans[o].superseded)
      BY DEF TypeOK, JobInv
    <3> HIDE DEF f, c, d
    <3>2. /\ link' \in {"up", "dead"} /\ opened' = opened /\ lost' \in BOOLEAN
          /\ reopens' \in 0 .. MaxReopens /\ reopens' \in {reopens, reopens + 1}
          /\ link = "up" => link' = "up"
          /\ link = "dead" /\ link' = "up" => reopens' = reopens + 1
          /\ link # "down"
          /\ lost' => lost \/ link' = "dead"
          /\ sign' \in [Files -> Contents \cup {Blank}]
          /\ doubt' \in [Files -> Doubts]
          /\ \A g \in Files : g # f => sign'[g] = sign[g] /\ doubt'[g] = doubt[g]
          /\ f \in Files => (doubt'[f] = "none" => d = "none")
          /\ deaf' \in BOOLEAN
      BY <2>3, <3>1, AcceptedEffect
    <3>3. Shape'
      BY <2>1, <3>2 DEF TypeOK, LockInv, JobInv
    <3>4. EntryInv'
      BY <2>1 DEF TypeOK, JobInv, EntryInv
    <3>5. AcceptedInv'
      BY <2>1, <3>1, <3>2 DEF f, TypeOK, JobInv, AcceptedInv
    <3>6. HonestInv'
      BY <2>1, <3>1, <3>2 DEF f, TypeOK, JobInv, EntryInv, HonestInv
    <3>7. Link'
      BY <2>1, <2>2, <3>2
      DEF TypeOK, ReopenInv, LossIsRepaired, UncancelledInv,
          SwallowedIsForgotten, DeafSignIsLeftAlone
    <3>8. QED
      BY <3>3, <3>4, <3>5, <3>6, <3>7
  <2>4. CASE Refused(\/ \E p \in Orphans \ {o} : orphans[p].busy
                     \/ \E t \in Tasks : pc[t] = "writing")
    <3>1. /\ link' = "down" \/ (link' = "dead" /\ link = "dead")
          /\ reopens = reopens' \/ link' = "down"
          /\ reopens' \in 0 .. MaxReopens
          /\ reopens' \in {reopens, reopens + 1}
          /\ UNCHANGED <<opened, sign, deaf, doubt, lost>>
      BY <2>4, RefusedEffect
    <3>2. Shape' /\ Truth'
      BY <2>1, <3>1
      DEF TypeOK, LockInv, JobInv, EntryInv, AcceptedInv, HonestInv
    <3>3. Link'
      BY <2>1, <2>2, <3>1
      DEF TypeOK, ReopenInv, LossIsRepaired, UncancelledInv,
          SwallowedIsForgotten, DeafSignIsLeftAlone
    <3>4. QED
      BY <3>2, <3>3
  <2>5. QED
    BY <1>6, <2>3, <2>4 DEF OrphanWrites
<1>7. ASSUME NEW t \in Tasks, Resume(t)
     PROVE  ControllerInv'
  <2>1. Shape'
    <3>1. CASE reopens = seen
      BY <1>7, <3>1 DEF Resume, TypeOK, LockInv, JobInv
    <3>2. CASE reopens # seen
      BY <1>7, <3>2 DEF Resume, TypeOK, LockInv, JobInv
    <3>3. QED
      BY <3>1, <3>2
  <2>2. Truth'
    BY <1>7
    DEF Resume, TypeOK, LockInv, JobInv, EntryInv, AcceptedInv,
        HonestInv
  <2>3. Link'
    BY <1>7
    DEF Resume, TypeOK, LockInv, JobInv, EntryInv,
        ReopenInv, LossIsRepaired, UncancelledInv, SwallowedIsForgotten,
        DeafSignIsLeftAlone
  <2>4. QED
    BY <2>1, <2>2, <2>3
<1>8. ASSUME NEW t \in Tasks, Fail(t)
     PROVE  ControllerInv'
  <2>1. Shape'
    BY <1>8 DEF Fail, TypeOK, LockInv, JobInv
  <2>2. Truth'
    BY <1>8
    DEF Fail, TypeOK, LockInv, JobInv, EntryInv, AcceptedInv,
        HonestInv
  <2>3. Link'
    BY <1>8
    DEF Fail, TypeOK, LockInv, JobInv, EntryInv,
        ReopenInv, LossIsRepaired, UncancelledInv, SwallowedIsForgotten,
        DeafSignIsLeftAlone
  <2>4. QED
    BY <2>1, <2>2, <2>3
<1>9. ASSUME NEW t \in Tasks, Record(t)
     PROVE  ControllerInv'
  <2>1. Shape'
    BY <1>9 DEF Record, TypeOK, LockInv, JobInv
  <2>2. Truth'
    BY <1>9
    DEF Record, TypeOK, LockInv, JobInv, EntryInv, AcceptedInv,
        HonestInv
  <2>3. Link'
    BY <1>9
    DEF Record, TypeOK, LockInv, JobInv, EntryInv,
        ReopenInv, LossIsRepaired, UncancelledInv, SwallowedIsForgotten,
        DeafSignIsLeftAlone
  <2>4. QED
    BY <2>1, <2>2, <2>3
<1>10. ASSUME NEW t \in Tasks, CancelWaiting(t)
     PROVE  ControllerInv'
  <2>1. Shape'
    BY <1>10 DEF CancelWaiting, Drops, TypeOK, LockInv, JobInv
  <2>2. Truth'
    BY <1>10
    DEF CancelWaiting, Drops, TypeOK, LockInv, JobInv, EntryInv, AcceptedInv,
        HonestInv
  <2>3. Link'
    BY <1>10
    DEF CancelWaiting, Drops, TypeOK, LockInv, JobInv, EntryInv,
        ReopenInv, LossIsRepaired, UncancelledInv, SwallowedIsForgotten,
        DeafSignIsLeftAlone
  <2>4. QED
    BY <2>1, <2>2, <2>3
<1>11. ASSUME NEW t \in Tasks, CancelWriting(t)
     PROVE  ControllerInv'
  <2>1. Shape'
    <3>1. CASE UNCHANGED orphans
      BY <1>11, <3>1 DEF CancelWriting, Drops, TypeOK, LockInv, JobInv
    <3>2. ASSUME NEW o \in Orphans,
                 orphans' = [orphans EXCEPT ![o] =
                   [busy |-> TRUE, file |-> job[t].file,
                    contents |-> job[t].contents, superseded |-> FALSE]]
          PROVE  Shape'
      BY <1>11, <3>2 DEF CancelWriting, Drops, TypeOK, LockInv, JobInv
    <3>3. QED
      BY <1>11, <3>1, <3>2 DEF CancelWriting
  <2>2. Truth'
    BY <1>11
    DEF CancelWriting, Drops, TypeOK, LockInv, JobInv, EntryInv, AcceptedInv,
        HonestInv
  <2>3. Link'
    BY <1>11
    DEF CancelWriting, Drops, TypeOK, LockInv, JobInv, EntryInv,
        ReopenInv, LossIsRepaired, UncancelledInv, SwallowedIsForgotten,
        DeafSignIsLeftAlone
  <2>4. QED
    BY <2>1, <2>2, <2>3
<1>12. ASSUME NEW t \in Tasks, CancelPausing(t)
     PROVE  ControllerInv'
  <2>1. Shape'
    BY <1>12 DEF CancelPausing, Drops, TypeOK, LockInv, JobInv
  <2>2. Truth'
    BY <1>12
    DEF CancelPausing, Drops, TypeOK, LockInv, JobInv, EntryInv, AcceptedInv,
        HonestInv
  <2>3. Link'
    BY <1>12
    DEF CancelPausing, Drops, TypeOK, LockInv, JobInv, EntryInv,
        ReopenInv, LossIsRepaired, UncancelledInv, SwallowedIsForgotten,
        DeafSignIsLeftAlone
  <2>4. QED
    BY <2>1, <2>2, <2>3
<1>13. CASE EnsureOpen
  <2>1. Shape'
    BY <1>13 DEF EnsureOpen, Net!Open, TypeOK, LockInv, JobInv
  <2>2. Truth'
    BY <1>13
    DEF EnsureOpen, Net!Open, TypeOK, LockInv, JobInv, EntryInv, AcceptedInv,
        HonestInv
  <2>3. Link'
    BY <1>13
    DEF EnsureOpen, Net!Open, TypeOK, LockInv, JobInv, EntryInv,
        ReopenInv, LossIsRepaired, UncancelledInv, SwallowedIsForgotten,
        DeafSignIsLeftAlone
  <2>4. QED
    BY <2>1, <2>2, <2>3
<1>14. CASE Connect
  <2>1. Shape'
    BY <1>14 DEF Connect, TypeOK, LockInv, JobInv
  <2>2. Truth'
    BY <1>14
    DEF Connect, TypeOK, LockInv, JobInv, EntryInv, AcceptedInv,
        HonestInv
  <2>3. Link'
    BY <1>14
    DEF Connect, TypeOK, LockInv, JobInv, EntryInv,
        ReopenInv, LossIsRepaired, UncancelledInv, SwallowedIsForgotten,
        DeafSignIsLeftAlone
  <2>4. QED
    BY <2>1, <2>2, <2>3
<1>15. CASE BeginRepair
  <2>1. Shape'
    BY <1>15 DEF BeginRepair, TypeOK, LockInv, JobInv
  <2>2. Truth'
    BY <1>15
    DEF BeginRepair, TypeOK, LockInv, JobInv, EntryInv, AcceptedInv,
        HonestInv
  <2>3. Link'
    BY <1>15
    DEF BeginRepair, TypeOK, LockInv, JobInv, EntryInv,
        ReopenInv, LossIsRepaired, UncancelledInv, SwallowedIsForgotten,
        DeafSignIsLeftAlone
  <2>4. QED
    BY <2>1, <2>2, <2>3
<1>16. CASE Forget
  <2>1. Shape'
    BY <1>16 DEF Forget, TypeOK, LockInv, JobInv
  <2>2. Truth'
    BY <1>16
    DEF Forget, TypeOK, LockInv, JobInv, EntryInv, AcceptedInv,
        HonestInv
  <2>3. Link'
    BY <1>16
    DEF Forget, TypeOK, LockInv, JobInv, EntryInv,
        ReopenInv, LossIsRepaired, UncancelledInv, SwallowedIsForgotten,
        DeafSignIsLeftAlone
  <2>4. QED
    BY <2>1, <2>2, <2>3
<1>17. CASE ReadFails
  <2>1. Shape'
    BY <1>17 DEF ReadFails, Net!Drop, TypeOK, LockInv, JobInv
  <2>2. Truth'
    BY <1>17
    DEF ReadFails, Net!Drop, TypeOK, LockInv, JobInv, EntryInv, AcceptedInv,
        HonestInv
  <2>3. Link'
    BY <1>17
    DEF ReadFails, Net!Drop, TypeOK, LockInv, JobInv, EntryInv,
        ReopenInv, LossIsRepaired, UncancelledInv, SwallowedIsForgotten,
        DeafSignIsLeftAlone
  <2>4. QED
    BY <2>1, <2>2, <2>3
<1>18. CASE ConnectionDies
  <2>1. Shape'
    BY <1>18 DEF ConnectionDies, Net!Die, TypeOK, LockInv, JobInv
  <2>2. Truth'
    BY <1>18
    DEF ConnectionDies, Net!Die, TypeOK, LockInv, JobInv, EntryInv, AcceptedInv,
        HonestInv
  <2>3. Link'
    BY <1>18
    DEF ConnectionDies, Net!Die, TypeOK, LockInv, JobInv, EntryInv,
        ReopenInv, LossIsRepaired, UncancelledInv, SwallowedIsForgotten,
        DeafSignIsLeftAlone
  <2>4. QED
    BY <2>1, <2>2, <2>3
<1>19. CASE PowerCycle
  <2>1. Shape'
    BY <1>19 DEF PowerCycle, TypeOK, LockInv, JobInv
  <2>2. Truth'
    BY <1>19
    DEF PowerCycle, TypeOK, LockInv, JobInv, EntryInv, AcceptedInv,
        HonestInv
  <2>3. Link'
    BY <1>19
    DEF PowerCycle, TypeOK, LockInv, JobInv, EntryInv,
        ReopenInv, LossIsRepaired, UncancelledInv, SwallowedIsForgotten,
        DeafSignIsLeftAlone
  <2>4. QED
    BY <2>1, <2>2, <2>3
<1>20. CASE SignListens
  <2>1. Shape'
    BY <1>20 DEF SignListens, TypeOK, LockInv, JobInv
  <2>2. Truth'
    BY <1>20
    DEF SignListens, TypeOK, LockInv, JobInv, EntryInv, AcceptedInv,
        HonestInv
  <2>3. Link'
    BY <1>20
    DEF SignListens, TypeOK, LockInv, JobInv, EntryInv,
        ReopenInv, LossIsRepaired, UncancelledInv, SwallowedIsForgotten,
        DeafSignIsLeftAlone
  <2>4. QED
    BY <2>1, <2>2, <2>3
<1>21. CASE UNCHANGED vars
  BY <1>21 DEF vars, TypeOK, LockInv, JobInv, EntryInv, AcceptedInv, HonestInv,
     ReopenInv, LossIsRepaired, UncancelledInv, SwallowedIsForgotten,
     DeafSignIsLeftAlone
<1>22. QED
  BY <1>1, <1>2, <1>3, <1>4, <1>5, <1>6, <1>7, <1>8, <1>9, <1>10, <1>11, <1>12, <1>13, <1>14, <1>15, <1>16, <1>17, <1>18, <1>19, <1>20, <1>21
  DEF Next, Ask, Continue, Cancel

(* Whatever is written, fails, is cancelled or is orphaned on the way, the *)
(* cache, the lock, the repairs owed and each task's own step agree.       *)
THEOREM ControllerInvariant == Spec => []ControllerInv
  BY ControllerInit, ControllerStep, PTL DEF Spec

(* The cache suppresses a write only if the sign holds those bytes already *)
(* or something the controller has no way of seeing has intervened: what   *)
(* _send_if_changed, _send_locked and forget_sign_contents are for.        *)
THEOREM CacheIsHonest == Spec => []CacheHonest
<1>1. ControllerInv => CacheHonest
  BY ControllerAssumption
  DEF ControllerInv, HonestInv, CacheHonest, Sending, TypeOK, LockInv, InFlight
<1>2. QED
  BY ControllerInvariant, <1>1, PTL

(* A send that vanished down a dead connection is either not noticed yet   *)
(* or owed a repair, until one has begun after it (_notice_a_reopen,       *)
(* _connect).                                                              *)
THEOREM LossesAreRepaired == Spec => []LossIsRepaired
<1>1. ControllerInv => LossIsRepaired
  BY DEF ControllerInv, ReopenInv
<1>2. QED
  BY ControllerInvariant, <1>1, PTL

(* Until a task is cancelled, nothing a dead connection swallowed is       *)
(* believed once its death has been noticed.                               *)
THEOREM SwallowedWritesAreForgotten == Spec => []SwallowedIsForgotten
<1>1. ControllerInv => SwallowedIsForgotten
  BY DEF ControllerInv
<1>2. QED
  BY ControllerInvariant, <1>1, PTL

(* Until a task is cancelled, nothing is sent to a sign that is sitting    *)
(* out a reset or a tone: the settle keeps the lock (send_special).        *)
THEOREM DeafSignsAreLeftAlone == Spec => []DeafSignIsLeftAlone
<1>1. ControllerInv => DeafSignIsLeftAlone
  BY DEF ControllerInv
<1>2. QED
  BY ControllerInvariant, <1>1, PTL
=============================================================================
