-------------------------- MODULE LockFileValidator --------------------------
(***************************************************************************)
(* package_manager/src/Validator/LockFileValidator.php: the hash of the    *)
(* active composer.lock is stored in site state when a stage is created,   *)
(* and the operations on the stage are refused unless the file still has   *)
(* that hash.  There is ONE state key for the whole site, whichever stage  *)
(* stored it.                                                              *)
(***************************************************************************)

CONSTANTS Hash,            \* contents of a composer.lock file
          None             \* a missing value: PHP's NULL and FALSE

ASSUME NoneNotHash == None \notin Hash

VARIABLES activeHash,      \* composer.lock of the active directory
          lockHash         \* state key package_manager.lock_hash

MaybeHash == Hash \cup {None}

LockFileTypeOK == activeHash \in MaybeHash /\ lockHash \in MaybeHash

LockFileInit == activeHash \in Hash /\ lockHash = None

\* Mutant of StoreHash: a hash that is already stored is kept.
StoreHashOnce ==
  activeHash # None /\ lockHash' = IF lockHash = None THEN activeHash ELSE lockHash

(***************************************************************************)
(* storeHash() on PreCreateEvent: a validation error if composer.lock      *)
(* cannot be read.                                                         *)
(***************************************************************************)
StoreHash == activeHash # None /\ lockHash' = activeHash

(***************************************************************************)
(* validateStagePreOperation() adds no error on PreRequireEvent iff both   *)
(* hashes are known and equal ...                                          *)
(***************************************************************************)
ActiveUnchanged == /\ activeHash # None
                   /\ lockHash # None
                   /\ lockHash = activeHash

(***************************************************************************)
(* ... and on PreApplyEvent the staged lock file, if it can be read, must  *)
(* differ from the active one ("There are no pending Composer operations").*)
(***************************************************************************)
PendingChanges(stageHash) == ActiveUnchanged /\ stageHash # activeHash

\* deleteHash() on PostDestroyEvent.
DeleteHash == lockHash' = None

=============================================================================
