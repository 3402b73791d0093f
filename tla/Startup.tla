------------------------------ MODULE Startup ------------------------------
(***************************************************************************)
(* The life of the service between one start and the next: the state file  *)
(* (sign/state.py) that is written beside itself and renamed, the start    *)
(* (api/app.py, SlotRegistry.restore) that reallocates the sign only when  *)
(* its pool changed, reattaches files to messages and puts everything back,*)
(* the reboot that reallocates on request, and what of all this a crash, a *)
(* failed save or a link that fails half way through leaves behind.  The   *)
(* pool the messages take their files from is FilePool's.                  *)
(***************************************************************************)
EXTENDS FilePool

CONSTANTS
  Texts,       \* what messages say
  Hidden,      \* those of them that are registered and not played
  Capacities,  \* the slot capacities that may be configured
  PerFile,     \* MEASURED_FILE_OVERHEAD_BYTES
  Once,        \* MEASURED_POOL_OVERHEAD_BYTES
  SignMemory,  \* the memory pool the sign has
  Assumed,     \* ASSUMED_SIGN_MEMORY_POOL, where it does not answer
  Troubles,    \* of "crash", "save", "write", "reboot", "start", "spoil"
  NoText,      \* a key with no message; a file with nothing in it
  NoLayout     \* a sign, or a record, with no memory configuration

ASSUME StartupAssumption ==
  /\ Capacities \subseteq Nat
  /\ {PerFile, Once, SignMemory, Assumed} \subseteq Nat
  /\ Troubles \subseteq {"crash", "save", "write", "reboot", "start", "spoil"}
  /\ NoText \notin Texts \cup Keys /\ Hidden \subseteq Texts
  /\ NoLayout \notin Labels \X Capacities

VARIABLES
  capacity,  \* Settings.slot_capacity; size is slot_count
  phase,     \* where the service is: "down", on its way up, "running" or saving
  slots,     \* ServiceState.slots: the message of each key
  label,     \* ServiceState.slots: its file, which assigned should agree with
  applied,   \* ServiceState.layout
  kept,      \* the state file: slots and layout; saved has the labels
  temporary, \* the file a save is writing: "none", "partial", "whole"
  memory,    \* the sign: the memory configuration it has
  text,      \* the sign: what its files hold
  sequence,  \* the sign: the files it plays
  clean,     \* history: nothing has failed since everything was put back
  wrote      \* history: what the last save that returned had to write, or
             \* nothing, if the state file was spoilt since

service == <<capacity, phase, slots, label, applied>>
disk == <<kept, saved, temporary>>
sign == <<memory, text, sequence>>
all == <<vars, service, kept, temporary, sign, clean, wrote>>

Configured == <<size, capacity>>
Layouts == Labels \X Capacities
Registered == {k \in Keys : slots[k] # NoText}
Shown == {k \in Registered : slots[k] \notin Hidden}
Nothing == [k \in Keys |-> NoText]
Nowhere == [k \in Keys |-> NoFile]
Blank == [l \in Labels |-> NoText]
Allocated(layout) == IF layout = NoLayout THEN {} ELSE 1 .. layout[1]

\* What memory_claimed adds up for a configuration.
Claimed(layout) == layout[1] * (layout[2] + PerFile) + Once

Record == [slots |-> slots, label |-> label, layout |-> applied]
Kept == [slots |-> kept.slots, label |-> saved, layout |-> kept.layout]

Begin ==
  /\ size \in Labels /\ assigned = Nowhere /\ saved = Nowhere
  /\ capacity \in Capacities /\ phase = "down"
  /\ slots = Nothing /\ label = Nowhere /\ applied = NoLayout
  /\ kept = [slots |-> Nothing, layout |-> NoLayout]
  /\ temporary = "none" /\ wrote = Kept
  /\ memory = NoLayout /\ text = Blank /\ sequence = {} /\ clean = FALSE

-----------------------------------------------------------------------------
(* The sign.  A write to a file it has no place for is discarded.          *)

\* What the file of a key is given: a hidden message too, while another plays.
Body(k) == IF k \in Shown \/ Shown # {} THEN slots[k] ELSE NoText

\* The files of the keys in ks are written, one of those that share a file last.
Writes(ks) ==
  \E writer \in [Labels -> ks \cup {NoText}] :
    /\ \A l \in Labels :
         LET owners == {k \in ks : label'[k] = l}
         IN IF owners = {} \/ l \notin Allocated(memory)
              THEN writer[l] = NoText ELSE writer[l] \in owners
    /\ text' = [l \in Labels |->
                  IF writer[l] = NoText THEN text[l] ELSE Body(writer[l])']

\* Every message that is not hidden plays; no file may be named twice.
Plays ==
  /\ \A j, k \in Shown' : j # k => label'[j] # label'[k]
  /\ sequence' = {label'[k] : k \in Shown'}

-----------------------------------------------------------------------------
(* Starting.                                                               *)

\* A mistake to refute: only the count of files is compared.
NeedsByCapacity(layout) ==
  layout = NoLayout \/ layout[2] # capacity'

\* Layout.needs_reconfiguration.
NeedsReconfiguration(layout) == layout = NoLayout \/ layout # <<size', capacity'>>

\* Something spoils the state file: load cannot read it, and finds nothing.
Spoils ==
  /\ "spoil" \in Troubles /\ phase = "down"
  /\ kept' = [slots |-> Nothing, layout |-> NoLayout] /\ saved' = Nowhere
  /\ wrote' = Kept'
  /\ UNCHANGED <<size, assigned, service, temporary, sign, clean>>

\* The process starts with settings of the day and loads the state file.
Start(layout) ==
  /\ phase = "down"
  /\ Claimed(layout) <= Assumed
  /\ size' = layout[1] /\ capacity' = layout[2]
  /\ slots' = kept.slots /\ label' = saved /\ applied' = kept.layout
  /\ assigned' = Nowhere
  /\ temporary' = "none"
  /\ phase' = IF NeedsReconfiguration(kept.layout) THEN "measuring" ELSE "attaching"
  /\ clean' = FALSE
  /\ UNCHANGED <<saved, kept, sign, wrote>>

Down ==
  /\ phase' = "down"
  /\ slots' = Nothing /\ label' = Nowhere /\ applied' = NoLayout
  /\ assigned' = Nowhere /\ clean' = FALSE
  /\ UNCHANGED <<size, capacity, disk, sign, wrote>>

\* pool.measure and pool.check_fits: a sign too small is left as it was.
Measure ==
  /\ phase = "measuring"
  /\ \E budget \in {SignMemory, Assumed} :
       IF Claimed(Configured) <= budget
         THEN /\ phase' = "clearing"
              /\ UNCHANGED <<vars, capacity, slots, label, applied, kept,
                             temporary, sign, clean, wrote>>
         ELSE Down

\* apply_memory_config: the clear, then the configuration.
Clear ==
  /\ phase \in {"clearing", "reclearing"}
  /\ memory' = NoLayout /\ text' = Blank
  /\ phase' = IF phase = "clearing" THEN "configuring" ELSE "reconfiguring"
  /\ clean' = FALSE
  /\ UNCHANGED <<vars, capacity, slots, label, applied, kept, temporary, sequence, wrote>>

\* At a start the messages were on a sign that is no more; at a reboot they stay.
Configure ==
  /\ phase \in {"configuring", "reconfiguring"}
  /\ memory' = Configured /\ text' = Blank /\ applied' = Configured
  /\ IF phase = "configuring"
       THEN slots' = Nothing /\ label' = Nowhere /\ phase' = "attaching"
       ELSE UNCHANGED <<slots, label>> /\ phase' = "rewriting"
  /\ UNCHANGED <<vars, capacity, kept, temporary, sequence, clean, wrote>>

\* The link fails under the reallocation: the service goes on without it.
ReallocationFails ==
  /\ phase \in {"clearing", "configuring", "reclearing", "reconfiguring"}
  /\ (IF phase \in {"clearing", "configuring"} THEN "start" ELSE "reboot") \in Troubles
  /\ phase' = "running"
  /\ UNCHANGED <<vars, capacity, slots, label, applied, kept, temporary, sign,
                 clean, wrote>>

\* _reattach_labels: what is outside the pool is dropped from the record.
Attach ==
  /\ phase = "attaching" /\ phase' = "rewriting"
  /\ assigned' = Restored(label, size)
  /\ label' = assigned'
  /\ slots' = [k \in Keys |-> IF assigned'[k] = NoFile THEN NoText ELSE slots[k]]
  /\ UNCHANGED <<size, saved, capacity, applied, kept, temporary, sign, clean, wrote>>

\* _rewrite_all, at a start, at a reboot and by the refresh.
Rewrite ==
  /\ phase \in {"rewriting", "running"}
  /\ UNCHANGED <<vars, capacity, slots, label, applied, kept, temporary, memory, wrote>>
  /\ Writes(Registered) /\ Plays
  /\ phase' = IF phase = "rewriting" THEN "saving" ELSE "running"
  /\ clean' = TRUE

\* It fails part of the way, and so does the start or the reboot: nothing is saved.
RewriteFails ==
  /\ "write" \in Troubles
  /\ phase \in {"rewriting", "running"}
  /\ UNCHANGED <<vars, capacity, slots, label, applied, kept, temporary, memory,
                 sequence, wrote>>
  /\ \E ks \in SUBSET Registered : Writes(ks)
  /\ phase' = "running" /\ clean' = FALSE

-----------------------------------------------------------------------------
(* Running.                                                                *)

\* upsert of a key that keeps its file, or takes the first free one.
Upsert(k, t) ==
  /\ phase = "running"
  /\ Assign(k) \/ (assigned[k] # NoFile /\ UNCHANGED vars)
  /\ slots' = [slots EXCEPT ![k] = t]
  /\ label' = [label EXCEPT ![k] = assigned'[k]]
  /\ UNCHANGED <<capacity, applied, kept, temporary, memory, wrote>>
  /\ Writes({k})
  /\ IF slots[k] = NoText \/ (k \in Shown) # (k \in Shown')
       THEN Plays ELSE UNCHANGED sequence
  /\ phase' = "saving" /\ UNCHANGED clean

\* The record and the pool are put back; the file may have been written.
UpsertFails(k, t) ==
  /\ "write" \in Troubles /\ phase = "running"
  /\ \E l \in Free \cup {assigned[k]} :
       /\ l # NoFile /\ (assigned[k] # NoFile => l = assigned[k])
       /\ \/ text' = text
          \/ l \in Allocated(memory) /\ text' = [text EXCEPT ![l] = t]
  /\ clean' = FALSE
  /\ UNCHANGED <<vars, capacity, phase, slots, label, applied, kept, temporary,
                 memory, sequence, wrote>>

Remove(k) ==
  /\ phase = "running" /\ slots[k] # NoText
  /\ slots' = [slots EXCEPT ![k] = NoText]
  /\ label' = [label EXCEPT ![k] = NoFile]
  /\ Release(k)
  /\ text' = IF label[k] \in Allocated(memory)
               THEN [text EXCEPT ![label[k]] = NoText] ELSE text
  /\ Plays
  /\ phase' = "saving"
  /\ UNCHANGED <<capacity, applied, kept, temporary, memory, clean, wrote>>

\* POST /sign/reboot, after it has measured the pool as a start does.
Reboot ==
  /\ phase = "running"
  /\ \E budget \in {SignMemory, Assumed} : Claimed(Configured) <= budget
  /\ phase' = "reclearing"
  /\ UNCHANGED <<vars, capacity, slots, label, applied, kept, temporary, sign,
                 clean, wrote>>

-----------------------------------------------------------------------------
(* The state file: written beside itself, flushed, and renamed.            *)

\* A mistake to refute: the state file itself is opened and written.
BeginSaveInPlace ==
  /\ phase = "saving" /\ temporary = "none"
  /\ temporary' = "partial"
  /\ kept' = [slots |-> Nothing, layout |-> NoLayout] /\ saved' = Nowhere
  /\ UNCHANGED <<size, assigned, service, sign, clean, wrote>>

BeginSave ==
  /\ phase = "saving" /\ temporary = "none"
  /\ temporary' = "partial"
  /\ UNCHANGED <<vars, service, kept, sign, clean, wrote>>

FinishWriting ==
  /\ temporary = "partial" /\ phase = "saving"
  /\ temporary' = "whole"
  /\ UNCHANGED <<vars, service, kept, sign, clean, wrote>>

\* A save of what the last one wrote is skipped.
SkipSave ==
  /\ phase = "saving" /\ temporary = "none" /\ Record = Kept
  /\ phase' = "running"
  /\ UNCHANGED <<vars, capacity, slots, label, applied, kept, temporary, sign,
                 clean, wrote>>

\* The rename, and the save returns.
Replace ==
  /\ phase = "saving" /\ temporary = "whole"
  /\ kept' = [slots |-> slots, layout |-> applied] /\ saved' = label
  /\ wrote' = Record
  /\ temporary' = "none" /\ phase' = "running"
  /\ UNCHANGED <<size, assigned, capacity, slots, label, applied, sign, clean>>

\* A save that raises, and the temporary file it leaves, removed or not.
SaveFails ==
  /\ "save" \in Troubles /\ phase = "saving" /\ temporary # "none"
  /\ temporary' = "none" /\ phase' = "running"
  /\ UNCHANGED <<vars, capacity, slots, label, applied, kept, sign, clean, wrote>>

\* The process is stopped, or dies, with whatever it was writing half written.
Stop == phase = "running" /\ Down
Crash == "crash" \in Troubles /\ phase \notin {"down", "running"} /\ Down

Operate ==
  \E k \in Keys : Remove(k) \/ \E t \in Texts : Upsert(k, t) \/ UpsertFails(k, t)

Proceed ==
  \/ Spoils \/ \E layout \in Layouts : Start(layout)
  \/ Measure \/ Clear \/ Configure \/ ReallocationFails
  \/ Attach \/ Rewrite \/ RewriteFails
  \/ Operate \/ Reboot
  \/ BeginSave \/ SkipSave \/ FinishWriting \/ Replace \/ SaveFails
  \/ Stop \/ Crash

StartupSpec == Begin /\ [][Proceed]_all

-----------------------------------------------------------------------------
(* A start finds what the last save that returned wrote, all of it and     *)
(* nothing of a later one that was cut off, unless the file was spoilt from*)
(* outside, and then it finds nothing: StateStore.save and load.           *)
StartFindsWhatWasSaved ==
  [][phase = "down" /\ phase' # "down" =>
       slots' = wrote.slots /\ label' = wrote.label /\ applied' = wrote.layout]_all

(* A start or a refresh that says it has put everything back has: on a     *)
(* sign whose memory is as the record has it, every message is in a file   *)
(* the sign plays, through upserts, removals and changes of the pool:      *)
(* needs_reconfiguration, _reattach_labels and _rewrite_all.               *)
RestoredIsShown ==
  phase = "running" /\ clean /\ memory = applied =>
    \A k \in Shown : label[k] \in sequence /\ text[label[k]] = slots[k]

(* No two messages are recorded in one file of the sign.  create_app says  *)
(* of a start on an unreachable sign that what is put back "happens again  *)
(* on the next reconnect"; the reallocation and the reattaching do not.    *)
RecordsDoNotShare ==
  \A j, k \in Registered : j # k => label[j] # label[k]

=============================================================================
