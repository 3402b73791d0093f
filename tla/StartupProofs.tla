--------------------------- MODULE StartupProofs ---------------------------
(* What a start finds, and that no file is shared as long as no start is   *)
(* cut off in its reallocation, for any messages, pools and faults.        *)
EXTENDS Startup, FiniteSetTheorems, TLAPS

(* The files held are as many as the keys that hold one.                   *)
LEMMA HoldersAreCounted ==
  ASSUME PoolInv
  PROVE  /\ IsFiniteSet(HeldKeys) /\ Taken \subseteq Pool
         /\ Cardinality(Taken) = Cardinality(HeldKeys)
<1> USE DEF PoolInv, TypeOK
<1> DEFINE f == [k \in HeldKeys |-> assigned[k]]
<1>1. IsFiniteSet(Pool)
  BY MaxLabelsAssumption, FS_Interval DEF Pool, Labels
<1>2. \A k \in HeldKeys : k \in Keys /\ assigned[k] \in Pool /\ assigned[k] # NoFile
  BY DEF HeldKeys, HeldInPool
<1>3. Taken = {assigned[k] : k \in HeldKeys}
  BY DEF Taken, HeldKeys
<1>4. \A j, k \in HeldKeys : f[j] = f[k] => j = k
  BY <1>2 DEF NoSharedFile
<1>5. f \in Injection(HeldKeys, Pool) /\ f \in Injection(HeldKeys, Taken)
  BY <1>2, <1>3, <1>4 DEF Injection, IsInjective
<1>6. f \in Surjection(HeldKeys, Taken)
  BY <1>3 DEF Surjection
<1>7. IsFiniteSet(HeldKeys)
  BY <1>1, <1>5, FS_Injection
<1>8. QED
  BY <1>2, <1>3, <1>5, <1>6, <1>7, FS_Surjection

LEMMA FreeIsCounted ==
  ASSUME PoolInv
  PROVE  FreeCountIsWhatAssignFinds
<1>1. IsFiniteSet(Pool) /\ Cardinality(Pool) = size
  BY MaxLabelsAssumption, FS_Interval DEF PoolInv, TypeOK, Pool, Labels
<1>2. Pool \cap Taken = Taken
  BY HoldersAreCounted
<1>3. Cardinality(Free) = size - Cardinality(Taken)
  BY <1>1, <1>2, FS_Difference DEF Free
<1>4. QED
  BY <1>3, HoldersAreCounted DEF FreeCountIsWhatAssignFinds, FreeCount

-----------------------------------------------------------------------------

(* Where the record and the pool have been brought to agree.               *)
Attached == {"rewriting", "running", "saving", "reclearing", "reconfiguring"}

LabelsNotShared ==
  \A j, k \in Keys : j # k /\ label[j] = label[k] => label[j] = NoFile

(* PoolInv alone is not inductive: what the pool holds is saved from, and  *)
(* restored by way of, the record.                                         *)
StartupInv ==
  /\ PoolInv
  /\ label \in [Keys -> Labels \cup {NoFile}]
  /\ LabelsNotShared
  /\ phase \in Attached => label = assigned

-----------------------------------------------------------------------------
LEMMA BeginIsSound == Begin => StartupInv
  BY MaxLabelsAssumption
  DEF Begin, Nowhere, StartupInv, LabelsNotShared, Attached, PoolInv, TypeOK,
      NoSharedFile, SavedNotShared, HeldInPool, Labels, Pool, NoFile

\* What leaves the pool, the record's files and the state file as they are.
LEMMA Untouched ==
  ASSUME StartupInv, UNCHANGED <<vars, label>>,
         phase' \in Attached => phase \in Attached
  PROVE  StartupInv'
  BY DEF StartupInv, LabelsNotShared, PoolInv, TypeOK, NoSharedFile,
         SavedNotShared, HeldInPool, Pool, vars

LEMMA DownIsSound == ASSUME StartupInv, Down PROVE StartupInv'
  BY MaxLabelsAssumption
  DEF Down, disk, Nowhere, StartupInv, LabelsNotShared, Attached, PoolInv, TypeOK,
      NoSharedFile, SavedNotShared, HeldInPool, Labels, Pool, NoFile

LEMMA SpoilsIsSound == ASSUME StartupInv, Spoils PROVE StartupInv'
  BY MaxLabelsAssumption
  DEF Spoils, service, Nowhere, StartupInv, LabelsNotShared, Attached, PoolInv,
      TypeOK, NoSharedFile, SavedNotShared, HeldInPool, Labels, Pool, NoFile

LEMMA StartIsSound ==
  ASSUME StartupInv, NEW layout \in Layouts, Start(layout) PROVE StartupInv'
<1>1. size' \in Labels
  BY DEF Start, Layouts
<1>2. label' = saved /\ assigned' = Nowhere /\ saved' = saved
  BY DEF Start
<1>3. phase' \notin Attached
  BY DEF Start, Attached
<1>4. PoolInv'
  BY <1>1, <1>2
  DEF StartupInv, Nowhere, PoolInv, TypeOK, NoSharedFile, SavedNotShared,
      HeldInPool, NoFile
<1>5. QED
  BY <1>2, <1>3, <1>4
  DEF StartupInv, LabelsNotShared, PoolInv, TypeOK, SavedNotShared

LEMMA AttachIsSound == ASSUME StartupInv, Attach PROVE StartupInv'
<1>1. assigned' = Restored(label, size) /\ label' = assigned'
  BY DEF Attach
<1>2. UNCHANGED <<size, saved>>
  BY DEF Attach
<1>3. PoolInv'
  BY <1>1, <1>2
  DEF StartupInv, LabelsNotShared, Restored, PoolInv, TypeOK, NoSharedFile,
      SavedNotShared, HeldInPool, Labels, Pool, NoFile
<1>4. QED
  BY <1>1, <1>3
  DEF StartupInv, LabelsNotShared, PoolInv, TypeOK, NoSharedFile

LEMMA AssignIsSound ==
  ASSUME PoolInv, NEW k \in Keys, Assign(k) PROVE PoolInv'
<1>1. PICK l \in Free : assigned' = [assigned EXCEPT ![k] = l]
  BY DEF Assign
<1>2. l \in 1 .. size /\ l \in Labels /\ \A other \in Keys : assigned[other] # l
  BY MaxLabelsAssumption
  DEF Free, Taken, PoolInv, TypeOK, Labels, Pool, NoFile
<1>3. UNCHANGED <<size, saved>>
  BY DEF Assign
<1>4. TypeOK' /\ SavedNotShared' /\ HeldInPool'
  BY <1>1, <1>2, <1>3 DEF PoolInv, TypeOK, SavedNotShared, HeldInPool, Pool
<1>5. NoSharedFile'
  BY <1>1, <1>2 DEF PoolInv, TypeOK, NoSharedFile
<1>6. QED
  BY <1>4, <1>5 DEF PoolInv

LEMMA UpsertIsSound ==
  ASSUME StartupInv, NEW k \in Keys, NEW t \in Texts, Upsert(k, t)
  PROVE  StartupInv'
<1>1. label = assigned /\ label' = [label EXCEPT ![k] = assigned'[k]]
  BY DEF Upsert, StartupInv, Attached
<1>2. PoolInv'
  <2>1. CASE Assign(k)
    BY <2>1, AssignIsSound DEF StartupInv
  <2>2. CASE UNCHANGED vars
    BY <2>2
    DEF StartupInv, PoolInv, TypeOK, NoSharedFile, SavedNotShared, HeldInPool,
        Pool, vars
  <2>3. QED
    BY <2>1, <2>2 DEF Upsert
<1>3. \A j \in Keys \ {k} : assigned'[j] = assigned[j]
  BY DEF Upsert, Assign, vars, StartupInv, PoolInv, TypeOK
<1>4. label' = assigned'
  <2>1. assigned' \in [Keys -> Labels \cup {NoFile}]
    BY <1>2 DEF PoolInv, TypeOK
  <2>2. \A j \in Keys : label'[j] = assigned'[j]
    BY <1>1, <1>3 DEF StartupInv
  <2>3. QED
    BY <1>1, <2>1, <2>2 DEF StartupInv
<1>5. QED
  BY <1>2, <1>4 DEF StartupInv, LabelsNotShared, PoolInv, TypeOK, NoSharedFile

LEMMA RemoveIsSound ==
  ASSUME StartupInv, NEW k \in Keys, Remove(k) PROVE StartupInv'
<1>1. label = assigned
  BY DEF Remove, StartupInv, Attached
<1>2. /\ label' = [label EXCEPT ![k] = NoFile]
      /\ assigned' = [assigned EXCEPT ![k] = NoFile]
      /\ UNCHANGED <<size, saved>>
  BY DEF Remove, Release
<1>3. PoolInv'
  BY <1>2
  DEF StartupInv, PoolInv, TypeOK, NoSharedFile, SavedNotShared, HeldInPool, Pool
<1>4. QED
  BY <1>1, <1>2, <1>3
  DEF StartupInv, LabelsNotShared, PoolInv, TypeOK, NoSharedFile

LEMMA ConfigureIsSound == ASSUME StartupInv, Configure PROVE StartupInv'
<1>1. CASE phase = "configuring"
  <2>1. label' = Nowhere /\ phase' = "attaching" /\ UNCHANGED vars
    BY <1>1 DEF Configure
  <2>2. PoolInv'
    BY <2>1
    DEF StartupInv, PoolInv, TypeOK, NoSharedFile, SavedNotShared, HeldInPool,
        Pool, vars
  <2>3. QED
    BY <2>1, <2>2 DEF StartupInv, LabelsNotShared, Nowhere, Attached, NoFile
<1>2. CASE phase # "configuring"
  <2>1. phase \in Attached /\ UNCHANGED <<vars, label>>
    BY <1>2 DEF Configure, Attached
  <2>2. QED
    BY <2>1, Untouched
<1>3. QED
  BY <1>1, <1>2

\* The rename saves the record, which agrees with the pool.
LEMMA ReplaceIsSound == ASSUME StartupInv, Replace PROVE StartupInv'
<1>1. label = assigned /\ saved' = label /\ UNCHANGED <<size, assigned, label>>
  BY DEF Replace, StartupInv, Attached
<1>2. QED
  BY <1>1
  DEF StartupInv, LabelsNotShared, PoolInv, TypeOK, NoSharedFile,
      SavedNotShared, HeldInPool, Pool

-----------------------------------------------------------------------------
LEMMA ProceedIsSound ==
  ASSUME "start" \notin Troubles, StartupInv, [Proceed]_all PROVE StartupInv'
<1>1. CASE Spoils \/ \E layout \in Layouts : Start(layout)
  BY <1>1, SpoilsIsSound, StartIsSound
<1>2. CASE Measure
  <2>1. CASE Down
    BY <2>1, DownIsSound
  <2>2. CASE ~Down
    BY <1>2, <2>2, Untouched DEF Measure, Attached
  <2>3. QED
    BY <2>1, <2>2
<1>3. CASE Clear
  BY <1>3, Untouched DEF Clear, Attached
<1>4. CASE Configure
  BY <1>4, ConfigureIsSound
<1>5. CASE ReallocationFails
  <2>1. phase \in {"reclearing", "reconfiguring"} /\ UNCHANGED <<vars, label>>
    BY <1>5 DEF ReallocationFails
  <2>2. QED
    BY <2>1, Untouched DEF Attached
<1>6. CASE Attach
  BY <1>6, AttachIsSound
<1>7. CASE Rewrite
  BY <1>7, Untouched DEF Rewrite, Attached
<1>8. CASE RewriteFails
  BY <1>8, Untouched DEF RewriteFails, Attached
<1>9. CASE Operate
  <2>1. ASSUME NEW k \in Keys, Remove(k) PROVE StartupInv'
    BY <2>1, RemoveIsSound
  <2>2. ASSUME NEW k \in Keys, NEW t \in Texts, Upsert(k, t) PROVE StartupInv'
    BY <2>2, UpsertIsSound
  <2>3. ASSUME NEW k \in Keys, NEW t \in Texts, UpsertFails(k, t)
        PROVE StartupInv'
    BY <2>3, Untouched DEF UpsertFails
  <2>4. QED
    BY <1>9, <2>1, <2>2, <2>3 DEF Operate
<1>10. CASE Reboot
  BY <1>10, Untouched DEF Reboot, Attached
<1>11. CASE BeginSave \/ SkipSave \/ FinishWriting \/ SaveFails
  BY <1>11, Untouched
  DEF BeginSave, SkipSave, FinishWriting, SaveFails, service, Attached
<1>12. CASE Replace
  BY <1>12, ReplaceIsSound
<1>13. CASE Stop \/ Crash
  BY <1>13, DownIsSound DEF Stop, Crash
<1>14. CASE UNCHANGED all
  BY <1>14, Untouched DEF all, service
<1>15. QED
  BY <1>1, <1>2, <1>3, <1>4, <1>5, <1>6, <1>7, <1>8, <1>9, <1>10, <1>11, <1>12,
     <1>13, <1>14
  DEF Proceed

(* Through saves that fail, crashes at any point, reboots and pools of     *)
(* other sizes no two messages hold one file, as long as no start loses    *)
(* the link in its reallocation: FilePool.restore and _reattach_labels,    *)
(* which do not look whether a file is taken.                              *)
THEOREM RecordsKeepTheirFiles ==
  ASSUME "start" \notin Troubles PROVE StartupSpec => []NoSharedFile
<1>1. StartupInv => NoSharedFile
  BY DEF StartupInv, PoolInv
<1>2. StartupInv /\ [Proceed]_all => StartupInv'
  BY ProceedIsSound
<1>3. QED
  BY BeginIsSound, <1>1, <1>2, PTL DEF StartupSpec

(* What the API reports as free is what assign would find, through starts, *)
(* reboots and failures that lose no start in its reallocation             *)
(* (FilePool.free_count, FilePool.assign).                                 *)
THEOREM FreeFilesAreCounted ==
  ASSUME "start" \notin Troubles
  PROVE  StartupSpec => []FreeCountIsWhatAssignFinds
<1>1. StartupInv => FreeCountIsWhatAssignFinds
  BY FreeIsCounted DEF StartupInv
<1>2. StartupInv /\ [Proceed]_all => StartupInv'
  BY ProceedIsSound
<1>3. QED
  BY BeginIsSound, <1>1, <1>2, PTL DEF StartupSpec

-----------------------------------------------------------------------------
(* What the sign shows.                                                    *)

Messages == [Keys -> Texts \cup {NoText}]
Played == {label[k] : k \in Shown}

(* Once the service is up its memory is as configured, so every file of    *)
(* the pool is on the sign; and clean is history that only a rewrite makes.*)
ShownInv ==
  /\ slots \in Messages /\ kept.slots \in Messages /\ capacity \in Capacities
  /\ phase \in Attached \cup {"attaching"} => applied = Configured
  /\ phase \in Attached => \A k \in Registered : label[k] # NoFile
  /\ clean => phase \in {"running", "saving", "reclearing"}
  /\ clean /\ memory = applied =>
       sequence = Played /\ \A k \in Shown : text[label[k]] = slots[k]

LEMMA BeginShows == Begin => ShownInv
  BY DEF Begin, ShownInv, Messages, Nothing, Attached

\* What leaves the record and the sign as they are.
LEMMA StillShown ==
  ASSUME ShownInv,
         UNCHANGED <<size, capacity, slots, kept, label, applied, memory, text,
                     sequence>>,
         clean' => clean /\ phase' \in {"running", "saving", "reclearing"},
         phase' \in Attached => phase \in Attached,
         phase' # "attaching"
  PROVE  ShownInv'
  BY DEF ShownInv, Registered, Shown, Played, Configured

LEMMA DownShows == ASSUME ShownInv, Down PROVE ShownInv'
  BY DEF Down, disk, Nothing, Messages, Attached, ShownInv

LEMMA SpoilsShows == ASSUME ShownInv, Spoils PROVE ShownInv'
  BY DEF Spoils, service, sign, Nothing, Messages, Attached, ShownInv,
         Configured, Registered, Shown, Played

LEMMA StartShows ==
  ASSUME ShownInv, NEW layout \in Layouts, Start(layout) PROVE ShownInv'
  BY DEF Start, ShownInv, Attached, NeedsReconfiguration, Configured, Layouts

LEMMA ClearShows == ASSUME ShownInv, Clear PROVE ShownInv'
<1>1. /\ UNCHANGED <<size, capacity, slots, kept, label, applied>> /\ ~clean'
      /\ phase' \in {"configuring", "reconfiguring"}
      /\ phase' = "reconfiguring" => phase = "reclearing"
  BY DEF Clear, vars
<1>2. QED
  BY <1>1 DEF ShownInv, Attached, Configured, Registered

LEMMA ConfigureShows == ASSUME ShownInv, Configure PROVE ShownInv'
<1>1. ~clean' /\ applied' = Configured' /\ UNCHANGED kept
  BY DEF Configure, ShownInv, Configured, vars
<1>2. CASE phase = "configuring"
  BY <1>1, <1>2 DEF Configure, ShownInv, Messages, Nothing, Attached
<1>3. CASE phase # "configuring"
  BY <1>1, <1>3 DEF Configure, ShownInv, Registered, Attached
<1>4. QED
  BY <1>2, <1>3

LEMMA AttachShows == ASSUME StartupInv, ShownInv, Attach PROVE ShownInv'
<1>1. ~clean' /\ applied' = applied /\ Configured' = Configured
      /\ UNCHANGED <<kept, capacity>>
      /\ phase' = "rewriting" /\ phase = "attaching"
  BY DEF Attach, ShownInv, Configured
<1>2. slots' = [k \in Keys |-> IF assigned'[k] = NoFile THEN NoText ELSE slots[k]]
      /\ label' = assigned'
  BY DEF Attach
<1>3. slots' \in Messages
  BY <1>2 DEF ShownInv, Messages
<1>4. \A k \in Registered' : label'[k] # NoFile
  BY <1>2 DEF Registered
<1>5. QED
  BY <1>1, <1>3, <1>4 DEF ShownInv

(* A file that one key alone has, and that the sign has, holds that key's  *)
(* message once it is written; and one that none of them has is left.      *)
LEMMA WritesEffect ==
  ASSUME NEW ks \in SUBSET Keys, Writes(ks),
         NEW k \in Keys, label'[k] \in Labels
  PROVE  /\ k \in ks /\ label'[k] \in Allocated(memory) /\ k \in Shown'
            /\ (\A j \in ks : label'[j] = label'[k] => j = k)
            => text'[label'[k]] = slots'[k]
         /\ (\A j \in ks : label'[j] # label'[k]) => text'[label'[k]] = text[label'[k]]
<1>1. PICK writer \in [Labels -> ks \cup {NoText}] :
        /\ \A l \in Labels :
             LET owners == {j \in ks : label'[j] = l}
             IN IF owners = {} \/ l \notin Allocated(memory)
                  THEN writer[l] = NoText ELSE writer[l] \in owners
        /\ text' = [l \in Labels |->
                      IF writer[l] = NoText THEN text[l] ELSE Body(writer[l])']
  BY DEF Writes
<1>2. NoText \notin Keys
  BY StartupAssumption
<1>3. ASSUME k \in ks, label'[k] \in Allocated(memory), k \in Shown',
             \A j \in ks : label'[j] = label'[k] => j = k
      PROVE  text'[label'[k]] = slots'[k]
  <2>1. writer[label'[k]] = k
    BY <1>1, <1>3
  <2>2. text'[label'[k]] = Body(k)'
    BY <1>1, <1>2, <2>1
  <2>3. QED
    BY <1>3, <2>2 DEF Body
<1>4. ASSUME \A j \in ks : label'[j] # label'[k]
      PROVE  text'[label'[k]] = text[label'[k]]
  BY <1>1, <1>4
<1>5. QED
  BY <1>3, <1>4

(* A sign whose memory is as recorded has every file of the pool.          *)
LEMMA FilesAreAllocated ==
  ASSUME StartupInv, ShownInv, phase \in Attached, memory = applied
  PROVE  /\ Allocated(memory) = 1 .. size
         /\ \A k \in Registered : label[k] \in 1 .. size /\ label[k] \in Labels
                                  /\ label[k] # NoFile
<1>1. memory = <<size, capacity>> /\ memory # NoLayout
  BY StartupAssumption
  DEF ShownInv, Configured, StartupInv, PoolInv, TypeOK
<1>2. \A k \in Registered : label[k] \in 1 .. size /\ label[k] \in Labels
                            /\ label[k] # NoFile
  BY DEF StartupInv, ShownInv, PoolInv, TypeOK, HeldInPool, Pool, Registered
<1>3. QED
  BY <1>1, <1>2 DEF Allocated

LEMMA RewriteShows == ASSUME StartupInv, ShownInv, Rewrite PROVE ShownInv'
<1>1. /\ UNCHANGED <<size, assigned, capacity, slots, kept, label, applied, memory>>
      /\ phase \in {"rewriting", "running"} /\ phase' \in {"saving", "running"}
      /\ Writes(Registered) /\ sequence' = {label'[k] : k \in Shown'}
  BY DEF Rewrite, Plays, vars
<1>2. Registered' = Registered /\ Shown' = Shown /\ Played' = {label'[k] : k \in Shown'}
      /\ Registered \in SUBSET Keys /\ Shown \subseteq Registered
  BY <1>1 DEF Registered, Shown, Played
<1>3. label = assigned /\ \A k \in Registered : label[k] \in 1 .. size
                            /\ label[k] \in Labels /\ label[k] # NoFile
  BY <1>1, <1>2
  DEF StartupInv, ShownInv, PoolInv, TypeOK, HeldInPool, Pool, Attached
<1>4. ASSUME memory = applied, NEW k \in Shown
      PROVE  text'[label[k]] = slots[k]
  <2>1. label[k] \in Allocated(memory)
    BY <1>2, <1>3, <1>4, FilesAreAllocated, <1>1 DEF Attached
  <2>2. \A j \in Registered : label[j] = label[k] => j = k
    BY <1>2, <1>3, <1>4 DEF StartupInv, LabelsNotShared
  <2>3. QED
    BY <1>1, <1>2, <1>3, <1>4, <2>1, <2>2, WritesEffect
<1>5. QED
  BY <1>1, <1>2, <1>4 DEF ShownInv, Attached, Configured

LEMMA UpsertShows ==
  ASSUME StartupInv, StartupInv', ShownInv, NEW k \in Keys, NEW t \in Texts,
         Upsert(k, t)
  PROVE  ShownInv'
<1>1. /\ UNCHANGED <<size, capacity, kept, applied, memory, clean>>
      /\ phase = "running" /\ phase' = "saving" /\ Writes({k})
      /\ slots' = [slots EXCEPT ![k] = t]
      /\ label' = [label EXCEPT ![k] = assigned'[k]]
  BY DEF Upsert, Assign, vars
<1>2. /\ slots' \in Messages /\ slots'[k] = t /\ t # NoText
      /\ \A j \in Keys \ {k} : slots'[j] = slots[j] /\ label'[j] = label[j]
      /\ label'[k] = assigned'[k]
  BY <1>1, StartupAssumption DEF ShownInv, Messages, StartupInv
<1>3. assigned'[k] # NoFile /\ (assigned[k] # NoFile => assigned'[k] = assigned[k])
  BY MaxLabelsAssumption
  DEF Upsert, Assign, Free, Pool, NoFile, vars, StartupInv, PoolInv, TypeOK
<1>4. \A j \in Registered' : label'[j] # NoFile
  BY <1>1, <1>2, <1>3 DEF ShownInv, Attached, Registered
<1>5. /\ \A j \in Keys \ {k} : j \in Shown' <=> j \in Shown
      /\ Shown \in SUBSET Registered /\ Shown' \in SUBSET Registered'
      /\ Registered' \in SUBSET Keys
  BY <1>2 DEF Shown, Registered
<1>6. ASSUME clean, memory = applied
      PROVE  sequence' = {label'[j] : j \in Shown'}
  <2>1. CASE slots[k] = NoText \/ (k \in Shown) # (k \in Shown')
    BY <2>1 DEF Upsert, Plays
  <2>2. CASE slots[k] # NoText /\ (k \in Shown) = (k \in Shown')
    <3>1. sequence' = sequence
      BY <2>2 DEF Upsert
    <3>2. sequence = {label[j] : j \in Shown}
      BY <1>6 DEF ShownInv, Played
    <3>3. k \in Registered /\ label[k] = assigned[k] /\ assigned[k] # NoFile
      BY <1>1, <2>2 DEF Registered, ShownInv, StartupInv, Attached
    <3>4. \A j \in Keys : label'[j] = label[j]
      BY <1>2, <1>3, <3>3
    <3>5. Shown' = Shown
      <4>1. k \in Shown' <=> k \in Shown
        BY <2>2 DEF Shown, Registered
      <4>2. QED
        BY <1>5, <4>1 DEF Registered
    <3>6. QED
      BY <1>5, <3>1, <3>2, <3>4, <3>5
  <2>3. QED
    BY <2>1, <2>2
<1>7. ASSUME clean, memory = applied, NEW j \in Shown'
      PROVE  text'[label'[j]] = slots'[j]
  <2>1. j \in Keys /\ label'[j] \in Labels /\ label'[j] \in 1 .. size
    BY <1>1, <1>4, <1>5
    DEF StartupInv, Attached, PoolInv, TypeOK, HeldInPool, Pool
  <2>2. CASE j = k
    <3>1. label'[k] \in Allocated(memory)
      BY <1>1, <1>7, <2>1, <2>2, FilesAreAllocated DEF Attached
    <3>2. QED
      BY <1>1, <1>7, <2>1, <2>2, <3>1, WritesEffect
  <2>3. CASE j # k
    <3>1. label'[k] # label'[j]
      BY <1>2, <1>3, <2>1, <2>3 DEF StartupInv, LabelsNotShared
    <3>2. text'[label'[j]] = text[label'[j]]
      BY <1>1, <2>1, <3>1, WritesEffect
    <3>3. j \in Shown /\ slots'[j] = slots[j] /\ label'[j] = label[j]
      BY <1>2, <1>5, <2>1, <2>3
    <3>4. QED
      BY <1>7, <3>2, <3>3 DEF ShownInv
  <2>4. QED
    BY <2>2, <2>3
<1>8. QED
  BY <1>1, <1>2, <1>4, <1>6, <1>7 DEF ShownInv, Attached, Configured, Played

LEMMA RemoveShows ==
  ASSUME StartupInv, StartupInv', ShownInv, NEW k \in Keys, Remove(k)
  PROVE  ShownInv'
<1>1. /\ UNCHANGED <<size, capacity, kept, applied, memory, clean>>
      /\ phase = "running" /\ phase' = "saving"
      /\ slots' = [slots EXCEPT ![k] = NoText]
      /\ label' = [label EXCEPT ![k] = NoFile]
      /\ text' = IF label[k] \in Allocated(memory)
                   THEN [text EXCEPT ![label[k]] = NoText] ELSE text
      /\ sequence' = {label'[j] : j \in Shown'}
  BY DEF Remove, Release, Plays
<1>2. /\ slots' \in Messages /\ slots'[k] = NoText
      /\ \A j \in Keys \ {k} : slots'[j] = slots[j] /\ label'[j] = label[j]
  BY <1>1 DEF ShownInv, Messages, StartupInv
<1>3. \A j \in Registered' : j \in Registered /\ j # k
                             /\ label'[j] = label[j] /\ slots'[j] = slots[j]
  BY <1>2 DEF Registered
<1>4. \A j \in Shown' : j \in Shown /\ j \in Registered'
  BY <1>3 DEF Shown
<1>5. ASSUME clean, memory = applied, NEW j \in Shown'
      PROVE  text'[label'[j]] = slots'[j]
  <2>1. label[j] # label[k]
    BY <1>1, <1>3, <1>4
    DEF StartupInv, ShownInv, LabelsNotShared, Attached, Registered
  <2>2. text'[label[j]] = text[label[j]]
    BY <1>1, <2>1
  <2>3. QED
    BY <1>3, <1>4, <1>5, <2>2 DEF ShownInv
<1>6. QED
  BY <1>1, <1>2, <1>3, <1>5 DEF ShownInv, Attached, Configured, Played

LEMMA ProceedShows ==
  ASSUME "start" \notin Troubles, StartupInv, ShownInv, [Proceed]_all
  PROVE  ShownInv'
<1>1. StartupInv'
  BY ProceedIsSound
<1>2. CASE Spoils \/ \E layout \in Layouts : Start(layout)
  BY <1>2, SpoilsShows, StartShows
<1>3. CASE Measure
  <2>1. CASE Down
    BY <2>1, DownShows
  <2>2. CASE ~Down
    <3>1. ~clean
      BY <1>3 DEF Measure, ShownInv
    <3>2. /\ phase' = "clearing" /\ clean' = clean
          /\ UNCHANGED <<size, capacity, slots, kept, label, applied, memory,
                         text, sequence>>
      BY <1>3, <2>2 DEF Measure, vars, sign
    <3>3. QED
      BY <3>1, <3>2, StillShown DEF Attached
  <2>3. QED
    BY <2>1, <2>2
<1>4. CASE Clear \/ Configure \/ Attach \/ Rewrite
  BY <1>4, ClearShows, ConfigureShows, AttachShows, RewriteShows
<1>5. CASE ReallocationFails
  <2>1. phase \in {"reclearing", "reconfiguring"} /\ phase' = "running"
        /\ UNCHANGED <<size, capacity, slots, kept, label, applied, memory, text,
                       sequence, clean>>
    BY <1>5 DEF ReallocationFails, vars, sign
  <2>2. QED
    BY <2>1, StillShown DEF Attached
<1>6. CASE RewriteFails
  <2>1. /\ phase \in {"rewriting", "running"} /\ phase' = "running" /\ ~clean'
        /\ UNCHANGED <<size, capacity, slots, kept, label, applied>>
    BY <1>6 DEF RewriteFails, vars
  <2>2. QED
    BY <2>1 DEF ShownInv, Attached, Configured, Registered
<1>7. CASE Operate
  <2>1. ASSUME NEW k \in Keys, NEW t \in Texts, UpsertFails(k, t)
        PROVE  ShownInv'
    <3>1. /\ phase' = phase /\ ~clean'
          /\ UNCHANGED <<size, capacity, slots, kept, label, applied>>
      BY <2>1 DEF UpsertFails, vars
    <3>2. QED
      BY <3>1 DEF ShownInv, Attached, Configured, Registered
  <2>2. QED
    BY <1>1, <1>7, <2>1, UpsertShows, RemoveShows DEF Operate
<1>8. CASE Reboot
  BY <1>8, StillShown DEF Reboot, Attached, vars, sign
<1>9. CASE BeginSave \/ SkipSave \/ FinishWriting \/ SaveFails
  BY <1>9, StillShown
  DEF BeginSave, SkipSave, FinishWriting, SaveFails, service, vars, sign,
      Attached, ShownInv
<1>10. CASE Replace
  <2>1. /\ phase = "saving" /\ phase' = "running" /\ kept'.slots = slots
        /\ UNCHANGED <<size, capacity, slots, label, applied, memory, text,
                       sequence, clean>>
    BY <1>10 DEF Replace, sign
  <2>2. QED
    BY <2>1 DEF ShownInv, Attached, Configured, Registered, Shown, Played
<1>11. CASE Stop \/ Crash
  BY <1>11, DownShows DEF Stop, Crash
<1>12. CASE UNCHANGED all
  BY <1>12
  DEF all, service, vars, sign, ShownInv, Attached, Configured, Registered,
      Shown, Played
<1>13. QED
  BY <1>2, <1>3, <1>4, <1>5, <1>6, <1>7, <1>8, <1>9, <1>10, <1>11, <1>12
  DEF Proceed

(* A start, a reboot or a refresh that says it has put everything back has:*)
(* on a sign whose memory is as recorded, every message that plays is in   *)
(* its file and the file is played, through any upserts, removals, saves   *)
(* that fail, crashes and pools of other sizes (needs_reconfiguration,     *)
(* _reattach_labels, _rewrite_all).                                        *)
THEOREM RestoredMessagesAreShown ==
  ASSUME "start" \notin Troubles PROVE StartupSpec => []RestoredIsShown
<1>1. StartupInv /\ ShownInv => RestoredIsShown
  BY DEF ShownInv, RestoredIsShown, Played
<1>2. StartupInv /\ ShownInv /\ [Proceed]_all => (StartupInv /\ ShownInv)'
  BY ProceedIsSound, ProceedShows
<1>3. QED
  BY BeginIsSound, BeginShows, <1>1, <1>2, PTL DEF StartupSpec

-----------------------------------------------------------------------------
(* The state file is what the last save that returned wrote, or nothing.   *)
KeptIsWritten == Kept = wrote

LEMMA KeptStep == KeptIsWritten /\ [Proceed]_all => KeptIsWritten'
<1> SUFFICES ASSUME KeptIsWritten, [Proceed]_all PROVE KeptIsWritten'
  OBVIOUS
<1> USE DEF KeptIsWritten, Kept
<1>1. ASSUME UNCHANGED <<saved, kept, wrote>> PROVE KeptIsWritten'
  BY <1>1
<1>2. CASE Replace
  BY <1>2 DEF Replace, Record
<1>3. CASE Operate
  <2>1. UNCHANGED <<saved, kept, wrote>>
    BY <1>3 DEF Operate, Remove, Release, Upsert, Assign, UpsertFails, vars
  <2>2. QED
    BY <2>1, <1>1
<1>4. CASE Down
  BY <1>1, <1>4 DEF Down, disk
<1>5. CASE (\E layout \in Layouts : Start(layout)) \/ Attach
  BY <1>1, <1>5 DEF Start, Attach
<1>6. CASE Measure \/ Clear \/ Configure \/ ReallocationFails
  BY <1>1, <1>4, <1>6 DEF Measure, Clear, Configure, ReallocationFails, vars
<1>7. CASE Rewrite \/ RewriteFails \/ Reboot
  BY <1>1, <1>7 DEF Rewrite, RewriteFails, Reboot, vars
<1>8. CASE BeginSave \/ SkipSave \/ FinishWriting \/ SaveFails
  BY <1>1, <1>8 DEF BeginSave, SkipSave, FinishWriting, SaveFails, vars
<1>9. CASE UNCHANGED all
  BY <1>1, <1>9 DEF all, vars
<1>10. CASE Spoils
  BY <1>10 DEF Spoils
<1>11. QED
  BY <1>2, <1>3, <1>4, <1>5, <1>6, <1>7, <1>8, <1>9, <1>10
  DEF Proceed, Stop, Crash

LEMMA StartReadsIt ==
  ASSUME KeptIsWritten, [Proceed]_all, phase = "down", phase' # "down"
  PROVE  slots' = wrote.slots /\ label' = wrote.label /\ applied' = wrote.layout
<1>1. \E layout \in Layouts : Start(layout)
  BY DEF Proceed, Spoils, Measure, Clear, Configure, ReallocationFails, Attach,
         Rewrite, RewriteFails, Operate, Remove, Upsert, UpsertFails, Reboot, BeginSave,
         SkipSave, FinishWriting, Replace, SaveFails, Stop, Crash, Down, all,
         service
<1>2. slots' = kept.slots /\ label' = saved /\ applied' = kept.layout
  BY <1>1 DEF Start
<1>3. QED
  BY <1>2 DEF KeptIsWritten, Kept

(* A start finds what the last save that returned wrote, and nothing of a  *)
(* later one that was cut off, wherever in writing, flushing or renaming   *)
(* the process died, or nothing at all of a file that was spoilt from      *)
(* outside: StateStore.save and StateStore.load.                           *)
THEOREM StartsFindTheLastSave == StartupSpec => StartFindsWhatWasSaved
<1>1. Begin => KeptIsWritten
  BY DEF Begin, KeptIsWritten
<1>2. KeptIsWritten /\ [Proceed]_all =>
        [phase = "down" /\ phase' # "down" =>
           slots' = wrote.slots /\ label' = wrote.label
             /\ applied' = wrote.layout]_all
  BY StartReadsIt
<1>3. QED
  BY <1>1, <1>2, KeptStep, PTL DEF StartupSpec, StartFindsWhatWasSaved
=============================================================================
