------------------------------ MODULE FilePool ------------------------------
(***************************************************************************)
(* One of the sign's three fixed pools of files (TEXT, STRING or PICTURE)  *)
(* and the keys that hold them: class FilePool of                          *)
(* readerboard/sign/layout.py.  A key is assigned a file and later         *)
(* released, and a pool that has just been built, perhaps of another size, *)
(* is given back what a record says.  What drives it, and what is recorded *)
(* and saved of it when, is in Startup.                                    *)
(***************************************************************************)
EXTENDS Naturals, FiniteSets

CONSTANTS Keys,      \* messages, variables or icons that may want a file
          MaxLabels  \* how many labels the protocol offers this pool

ASSUME MaxLabelsAssumption == MaxLabels \in Nat \ {0}

\* A label is its position in the pool's tuple of labels; no key holds NoFile.
NoFile == 0
Labels == 1 .. MaxLabels

VARIABLES
  size,      \* the configured count: the pool is the first size labels
  assigned,  \* FilePool._assigned, NoFile where the dict has no entry
  saved      \* which file the state file says each key holds

vars == <<size, assigned, saved>>

Pool == 1 .. size
Taken == {assigned[k] : k \in Keys} \ {NoFile}

\* A mistake to refute: a search that does not look at who holds what.
FreeIgnoringHolders == Pool

Free == Pool \ Taken

\* free_count as the code computes it: a subtraction, not a search.
HeldKeys == {k \in Keys : assigned[k] # NoFile}
FreeCount == size - Cardinality(HeldKeys)

TypeOK ==
  /\ size \in Labels
  /\ assigned \in [Keys -> Labels \cup {NoFile}]
  /\ saved \in [Keys -> Labels \cup {NoFile}]

-----------------------------------------------------------------------------
(* assign: a key that holds a file keeps it, another takes the first free. *)

Assign(k) ==
  /\ assigned[k] = NoFile
  /\ \E l \in Free :
       /\ \A other \in Free : l <= other
       /\ assigned' = [assigned EXCEPT ![k] = l]
  /\ UNCHANGED <<size, saved>>

Release(k) ==
  /\ assigned' = [assigned EXCEPT ![k] = NoFile]
  /\ UNCHANGED <<size, saved>>

\* What restore makes of what the state file held in a pool of n files.
Restored(held, n) ==
  [k \in Keys |-> IF held[k] \in 1 .. n THEN held[k] ELSE NoFile]

-----------------------------------------------------------------------------
(* No two keys hold the same file, however the pool was resized and        *)
(* whatever was saved when the process stopped: FilePool.assign searches   *)
(* for a free label, FilePool.restore does not look whether its label is   *)
(* taken.                                                                  *)
NoSharedFile ==
  \A k1, k2 \in Keys :
    k1 # k2 /\ assigned[k1] = assigned[k2] => assigned[k1] = NoFile

(* The count the API reports as free is the number of files assign would   *)
(* still hand out, so a caller told one is free is never refused by        *)
(* LayoutFull: FilePool.free_count against the search in FilePool.assign.  *)
FreeCountIsWhatAssignFinds == FreeCount = Cardinality(Free)

-----------------------------------------------------------------------------
(* What the proof carries along: the saved mapping is as good as the live  *)
(* one, and nothing is held outside the pool.                              *)
SavedNotShared ==
  \A k1, k2 \in Keys :
    k1 # k2 /\ saved[k1] = saved[k2] => saved[k1] = NoFile

HeldInPool == \A k \in Keys : assigned[k] \in Pool \cup {NoFile}

PoolInv == TypeOK /\ NoSharedFile /\ SavedNotShared /\ HeldInPool

=============================================================================
