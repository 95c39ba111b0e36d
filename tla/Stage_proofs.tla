---------------------------- MODULE Stage_proofs ----------------------------
(***************************************************************************)
(* Proofs about Stage.tla for any number of requests, actors and IDs.      *)
(***************************************************************************)
EXTENDS Stage, TLAPS

\* Calls during which $this->lock is set.
Holding ==
  {"create_pre", "create_undo", "create_unlock", "create_copy", "creating",
   "require_stage", "requiring", "apply_time", "apply_pre", "apply_release",
   "apply_mark", "apply_commit", "applying", "apply_unmark", "apply_clear",
   "apply_own", "apply_meta", "post_apply"}

Destroying ==
  {"destroy_delete", "destroying", "destroy_info", "destroy_undo",
   "destroy_unlock", "destroy_post"}

(***************************************************************************)
(* What the local variables of a request hold at each point of its calls.  *)
(***************************************************************************)
Control ==
  \A r \in Request :
    /\ pc[r] = "idle" => held[r] = None
    /\ pc[r] # "idle" => actor[r] \in Actor
    /\ pc[r] \in {"create_lock", "create_claim"} => arg[r] \in Id
    /\ pc[r] \in Holding => held[r] \in Id
    /\ pc[r] \in Destroying => arg[r] \in BOOLEAN

(***************************************************************************)
(* OwnerOnly is not inductive: what claim() compares is the stored lock,   *)
(* so the lock's actor must be the creator of its ID, also while the ID is *)
(* on its way into the lock.                                               *)
(***************************************************************************)
Owned ==
  /\ lock # None => creator[lock.id] = lock.actor
  /\ \A r \in Request :
       pc[r] \in {"create_lock", "create_claim"} => creator[arg[r]] = actor[r]
  /\ OwnerOnly

-----------------------------------------------------------------------------
(* Types, and what the local variables hold. *)

USE ConstantsAssumption, NoneNotHash

LEMMA InitTypes == Init => TypeOK /\ Control
<1> SUFFICES ASSUME Init PROVE TypeOK /\ Control
  OBVIOUS
<1>1. MarkerTypeOK /\ LockFileTypeOK /\ dir \in [Id -> Dir]
  BY DEF Init, MarkerInit, LockFileInit, MarkerTypeOK, LockFileTypeOK,
         MaybeHash, Dir, DirState, NoDir
<1>2. 0 \in Time
  BY DEF Time
<1>3. pc \in [Request -> PC]
  BY DEF Init, PC
<1>4. TypeOK
  BY <1>1, <1>2, <1>3 DEF Init, TypeOK, MaybeHash
<1>5. Control
  BY DEF Init, Control, Holding, Destroying
<1> QED
  BY <1>4, <1>5

LEMMA StepTypes == TypeOK /\ Control /\ [Next]_vars => TypeOK' /\ Control'
<1> SUFFICES ASSUME TypeOK, Control, [Next]_vars PROVE TypeOK' /\ Control'
  OBVIOUS
<1> USE DEF TypeOK, Control, MarkerTypeOK, LockFileTypeOK, MaybeHash, Lock,
            Message, Time, PC, Between, Holding, Destroying, At, Goto,
            GotoOneOf, tempstore, hashes, files, request, history
<1>1. ASSUME NEW r \in Request, StartRequest(r) PROVE TypeOK' /\ Control'
  BY <1>1 DEF StartRequest
<1>2. ASSUME NEW r \in Request, EndRequest(r) PROVE TypeOK' /\ Control'
  BY <1>2 DEF EndRequest, Forget
<1>3. ASSUME NEW r \in Request, Crash(r) PROVE TypeOK' /\ Control'
  BY <1>3 DEF Crash, Forget
<1>4. ASSUME NEW r \in Request, Claim(r) PROVE TypeOK' /\ Control'
  BY <1>4 DEF Claim
<1>5. ASSUME NEW r \in Request, Create(r) PROVE TypeOK' /\ Control'
  BY <1>5 DEF Create
<1>6. ASSUME NEW r \in Request, CreateLock(r) PROVE TypeOK' /\ Control'
  BY <1>6 DEF CreateLock
<1>7. ASSUME NEW r \in Request, CreateClaim(r) PROVE TypeOK' /\ Control'
  BY <1>7 DEF CreateClaim
<1>8. ASSUME NEW r \in Request, CreatePathsFail(r) PROVE TypeOK' /\ Control'
  BY <1>8 DEF CreatePathsFail
<1>9. ASSUME NEW r \in Request, PreCreate(r) PROVE TypeOK' /\ Control'
  BY <1>9 DEF PreCreate, StoreHash
<1>10. ASSUME NEW r \in Request, PreCreateFail(r) PROVE TypeOK' /\ Control'
  BY <1>10 DEF PreCreateFail
<1>11. ASSUME NEW r \in Request, CreateCopy(r) PROVE TypeOK' /\ Control'
  <2>1. [state |-> "copying", hash |-> None] \in Dir
    BY DEF Dir, DirState
  <2>2. TypeOK'
    BY <1>11, <2>1 DEF CreateCopy
  <2>3. Control'
    BY <1>11 DEF CreateCopy
  <2> QED
    BY <2>2, <2>3
<1>12. ASSUME NEW r \in Request, CreateCopied(r) PROVE TypeOK' /\ Control'
  BY <1>12 DEF CreateCopied, Dir, DirState
<1>13. ASSUME NEW r \in Request, CreateCopyFail(r) PROVE TypeOK' /\ Control'
  <2>1. CASE UNCHANGED dir
    BY <1>13, <2>1 DEF CreateCopyFail
  <2>2. CASE dir' = [dir EXCEPT ![held[r]].state = "copying"]
    BY <1>13, <2>2, SMTT(30) DEF CreateCopyFail, Dir, DirState
  <2> QED
    BY <1>13, <2>1, <2>2 DEF CreateCopyFail
<1>14. ASSUME NEW r \in Request, DeleteMetadata(r) PROVE TypeOK' /\ Control'
  BY <1>14 DEF DeleteMetadata
<1>15. ASSUME NEW r \in Request, DeleteLock(r) PROVE TypeOK' /\ Control'
  BY <1>15 DEF DeleteLock
<1>16. ASSUME NEW r \in Request, Require(r) PROVE TypeOK' /\ Control'
  BY <1>16 DEF Require, CheckOwnership
<1>17. ASSUME NEW r \in Request, RequireStage(r) PROVE TypeOK' /\ Control'
  <2>1. dir' \in [Id -> Dir]
    BY <1>17 DEF RequireStage, Dir, DirState
  <2>2. TypeOK'
    BY <1>17, <2>1 DEF RequireStage
  <2>3. Control'
    BY <1>17 DEF RequireStage
  <2> QED
    BY <2>2, <2>3
<1>18. ASSUME NEW r \in Request, Required(r) PROVE TypeOK' /\ Control'
  BY <1>18 DEF Required, Dir, DirState
<1>19. ASSUME NEW r \in Request, RequireFail(r) PROVE TypeOK' /\ Control'
  BY <1>19 DEF RequireFail, Dir, DirState
<1>20. ASSUME NEW r \in Request, Apply(r) PROVE TypeOK' /\ Control'
  BY <1>20 DEF Apply, CheckOwnership
<1>21. ASSUME NEW r \in Request, SetApplyTime(r) PROVE TypeOK' /\ Control'
  BY <1>21 DEF SetApplyTime
<1>22. ASSUME NEW r \in Request, PreApply(r) PROVE TypeOK' /\ Control'
  BY <1>22 DEF PreApply
<1>23. ASSUME NEW r \in Request, ApplyRelease(r) PROVE TypeOK' /\ Control'
  BY <1>23 DEF ApplyRelease
<1>24. ASSUME NEW r \in Request, WriteMarker(r) PROVE TypeOK' /\ Control'
  BY <1>24 DEF WriteMarker, Write
<1>25. ASSUME NEW r \in Request, Commit(r) PROVE TypeOK' /\ Control'
  BY <1>25 DEF Commit
<1>26. ASSUME NEW r \in Request, Committed(r) PROVE TypeOK' /\ Control'
  BY <1>26 DEF Committed, Dir
<1>27. ASSUME NEW r \in Request, CommitFail(r) PROVE TypeOK' /\ Control'
  BY <1>27 DEF CommitFail, Dir
<1>28. ASSUME NEW r \in Request, ClearMarker(r) PROVE TypeOK' /\ Control'
  <2>1. pc' \in [Request -> PC]
    BY <1>28 DEF ClearMarker
  <2>2. TypeOK'
    BY <1>28, <2>1 DEF ClearMarker, Clear
  <2>3. Control'
    BY <1>28 DEF ClearMarker
  <2> QED
    BY <2>2, <2>3
<1>29. ASSUME NEW r \in Request, ApplyOwnership(r) PROVE TypeOK' /\ Control'
  BY <1>29 DEF ApplyOwnership
<1>30. ASSUME NEW r \in Request, SetChangesApplied(r) PROVE TypeOK' /\ Control'
  BY <1>30 DEF SetChangesApplied
<1>31. ASSUME NEW r \in Request, PostApply(r) PROVE TypeOK' /\ Control'
  BY <1>31 DEF PostApply, CheckOwnership
<1>32. ASSUME NEW r \in Request, PostApplyRelease(r) PROVE TypeOK' /\ Control'
  BY <1>32 DEF PostApplyRelease
<1>33. ASSUME NEW r \in Request, NEW force \in BOOLEAN, Destroy(r, force) PROVE TypeOK' /\ Control'
  BY <1>33 DEF Destroy
<1>34. ASSUME NEW r \in Request, DeleteRoot(r) PROVE TypeOK' /\ Control'
  BY <1>34 DEF DeleteRoot, Dir, DirState, NoDir
<1>35. ASSUME NEW r \in Request, RootDeleted(r) PROVE TypeOK' /\ Control'
  BY <1>35 DEF RootDeleted, Dir, DirState, NoDir
<1>36. ASSUME NEW r \in Request, StoreDestroyInfo(r) PROVE TypeOK' /\ Control'
  BY <1>36 DEF StoreDestroyInfo, DestroyMessage, ChangesAppliedKey
<1>37. ASSUME NEW r \in Request, PostDestroy(r) PROVE TypeOK' /\ Control'
  BY <1>37 DEF PostDestroy, DeleteHash
<1>38. ASSUME Tick PROVE TypeOK' /\ Control'
  BY <1>38 DEF Tick
<1>39. ASSUME ExternalComposer PROVE TypeOK' /\ Control'
  BY <1>39 DEF ExternalComposer
<1>40. ASSUME Expire PROVE TypeOK' /\ Control'
  BY <1>40 DEF Expire
<1>41. ASSUME RestoreBackup PROVE TypeOK' /\ Control'
  BY <1>41 DEF RestoreBackup, Clear
<1>42. CASE UNCHANGED vars
  BY <1>42 DEF vars
<1> HIDE DEF TypeOK, Control, At, Goto, GotoOneOf
<1> QED
  BY <1>1, <1>2, <1>3, <1>4, <1>5, <1>6, <1>7, <1>8, <1>9, <1>10, <1>11, <1>12, <1>13, <1>14, <1>15, <1>16, <1>17, <1>18, <1>19, <1>20, <1>21, <1>22, <1>23, <1>24, <1>25, <1>26, <1>27, <1>28, <1>29, <1>30, <1>31, <1>32, <1>33, <1>34, <1>35, <1>36, <1>37, <1>38, <1>39, <1>40, <1>41, <1>42 DEF Next, Environment, Work, CreateStep, RequireStep, ApplyStep, DestroyStep

(***************************************************************************)
(* Every variable of the model has its type, for any number of requests    *)
(* that overlap in any way.                                                *)
(***************************************************************************)
THEOREM TypeCorrect == Spec => [](TypeOK /\ Control)
<1>1. Init => TypeOK /\ Control
  BY InitTypes
<1>2. TypeOK /\ Control /\ [Next]_vars => TypeOK' /\ Control'
  BY StepTypes
<1> QED
  BY <1>1, <1>2, PTL DEF Spec

-----------------------------------------------------------------------------
(* Ownership. *)

LEMMA StepOwned == TypeOK /\ Control /\ Owned /\ [Next]_vars => Owned'
<1> SUFFICES ASSUME TypeOK, Control, Owned, [Next]_vars PROVE Owned'
  OBVIOUS
<1> USE DEF TypeOK, Control, Owned, OwnerOnly, Lock, At, Goto, GotoOneOf,
            tempstore, hashes, files, request, history
<1>1. ASSUME NEW r \in Request, StartRequest(r)
      PROVE  Owned'
  BY <1>1 DEF StartRequest
<1>2. ASSUME NEW r \in Request, EndRequest(r) \/ Crash(r)
      PROVE  Owned'
  BY <1>2 DEF EndRequest, Crash, Forget
<1>3. ASSUME NEW r \in Request, Create(r)
      PROVE  Owned'
  BY <1>3 DEF Create, Fresh
<1>4. ASSUME NEW r \in Request, CreateLock(r)
      PROVE  Owned'
  BY <1>4 DEF CreateLock
<1>5. ASSUME NEW r \in Request, CreateClaim(r)
      PROVE  Owned'
  BY <1>5 DEF CreateClaim, CanClaim, Stores
<1>6. ASSUME NEW r \in Request,
               \/ CreatePathsFail(r) \/ PreCreate(r) \/ PreCreateFail(r)
               \/ CreateCopy(r) \/ CreateCopied(r) \/ CreateCopyFail(r)
      PROVE  Owned'
  BY <1>6 DEF CreatePathsFail, PreCreate, PreCreateFail, CreateCopy,
         CreateCopied, CreateCopyFail
<1>7. ASSUME NEW r \in Request, DeleteMetadata(r)
      PROVE  Owned'
  BY <1>7 DEF DeleteMetadata
<1>8. ASSUME NEW r \in Request, DeleteLock(r)
      PROVE  Owned'
  BY <1>8 DEF DeleteLock
<1>9. ASSUME NEW r \in Request, Claim(r)
      PROVE  Owned'
  BY <1>9 DEF Claim, CanClaim, Stores
<1>10. ASSUME NEW r \in Request,
               \/ Require(r) \/ RequireStage(r) \/ Required(r)
               \/ RequireFail(r)
      PROVE  Owned'
  BY <1>10 DEF Require, RequireStage, Required, RequireFail
<1>11. ASSUME NEW r \in Request,
               \/ Apply(r) \/ SetApplyTime(r) \/ PreApply(r)
               \/ ApplyRelease(r) \/ WriteMarker(r) \/ Commit(r)
               \/ Committed(r) \/ CommitFail(r)
      PROVE  Owned'
  BY <1>11 DEF Apply, SetApplyTime, PreApply, ApplyRelease, WriteMarker,
         Commit, Committed, CommitFail
<1>12. ASSUME NEW r \in Request,
               \/ ClearMarker(r) \/ ApplyOwnership(r) \/ SetChangesApplied(r)
               \/ PostApply(r) \/ PostApplyRelease(r)
      PROVE  Owned'
  BY <1>12 DEF ClearMarker, ApplyOwnership, SetChangesApplied, PostApply,
         PostApplyRelease
<1>13. ASSUME NEW r \in Request, NEW force \in BOOLEAN, Destroy(r, force)
      PROVE  Owned'
  BY <1>13 DEF Destroy
<1>14. ASSUME NEW r \in Request,
               \/ DeleteRoot(r) \/ RootDeleted(r) \/ StoreDestroyInfo(r)
      PROVE  Owned'
  BY <1>14 DEF DeleteRoot, RootDeleted, StoreDestroyInfo
<1>15. ASSUME NEW r \in Request, PostDestroy(r)
      PROVE  Owned'
  BY <1>15 DEF PostDestroy
<1>16. CASE Environment
  BY <1>16 DEF Environment, Tick, ExternalComposer, Expire, RestoreBackup
<1>17. CASE UNCHANGED vars
  BY <1>17 DEF vars
<1> HIDE DEF TypeOK, Control, Owned, At, Goto, GotoOneOf
<1> QED
  BY <1>1, <1>2, <1>3, <1>4, <1>5, <1>6, <1>7, <1>8, <1>9, <1>10, <1>11,
     <1>12, <1>13, <1>14, <1>15, <1>16, <1>17
     DEF Next, Work, CreateStep, RequireStep, ApplyStep, DestroyStep

(***************************************************************************)
(* The stage is only ever worked on by the actor that created it, for any  *)
(* number of overlapping requests of any number of users, whatever crashes *)
(* and whatever is destroyed in between.                                   *)
(***************************************************************************)
THEOREM Ownership == Spec => []OwnerOnly
<1>1. Init => Owned
  BY DEF Init, Owned, OwnerOnly
<1>2. TypeOK /\ Control /\ Owned /\ [Next]_vars => Owned'
  BY StepOwned
<1>3. Owned => OwnerOnly
  BY DEF Owned
<1> QED
  BY <1>1, <1>2, <1>3, TypeCorrect, PTL DEF Spec

-----------------------------------------------------------------------------
(***************************************************************************)
(* A server where no two requests overlap, for any number of users, stages *)
(* and crashes, and any time.  Overlapping requests refute what the        *)
(* theorems from here on state: see README.md.                             *)
(***************************************************************************)

OneRequest == \A r, s \in Request : r = s

\* Points at which a request goes on to use the active code or a stage.
Working ==
  {"create_lock", "create_claim", "create_pre", "create_copy", "creating",
   "require_stage", "requiring", "apply_time", "apply_pre", "apply_mark",
   "apply_commit", "applying", "apply_unmark", "apply_clear", "apply_own",
   "apply_meta"}

Works(r) == pc[r] \in Working \/ (pc[r] = "ready" /\ held[r] # None)

\* From the writing of the marker to its clearing, or to a failed commit.
Committing == {"apply_commit", "applying", "apply_unmark", "apply_clear"}

(***************************************************************************)
(* HalfCommittedIsMarked and NoFalseAlarm, strengthened: the marker may only be cleared by  *)
(* a request that knows the code to be whole, because it claimed its stage *)
(* when there was no marker and has not failed since.                      *)
(***************************************************************************)
Intact ==
  /\ HalfCommittedIsMarked
  /\ \A r \in Request :
       /\ pc[r] = "apply_commit" => marker
       /\ Works(r) => ~broken
       /\ held[r] # None /\ pc[r] \notin Committing => (marker => broken)
       /\ pc[r] = "destroy_post" => held[r] = None

\* No directory but what is left of failed deletions and expired locks.
Cleared == \A i \in Id : Exists(i) => i \in orphans

(***************************************************************************)
(* DirectoryIsLocked, strengthened: the stored lock is the one a creation  *)
(* wrote as long as that goes on, and it is only given up when there is no *)
(* directory.                                                              *)
(***************************************************************************)
Housed ==
  /\ DirectoryIsLocked
  /\ \A r \in Request :
       /\ pc[r] = "create_lock" => lock = None
       /\ pc[r] = "create_claim" => lock # None /\ lock.id = arg[r]
       /\ pc[r] \in {"create_pre", "create_copy", "creating"}
            => lock # None /\ lock.id = held[r]
       /\ pc[r] \in {"create_lock", "create_claim", "create_pre",
                     "create_undo", "create_unlock", "destroy_info",
                     "destroy_undo", "destroy_unlock"} => Cleared
       /\ pc[r] = "destroying"
            => \A i \in Id : Exists(i) => dir[i].state = "removing"

(***************************************************************************)
(* What ApplyOnBaseline rests on: the one stored hash, if there is one, is *)
(* that of the stage in the lock, once its ID was handed out.              *)
(***************************************************************************)
Based ==
  /\ lock # None /\ lock.id \in returned
       => lockHash \in {None, baseline[lock.id]}
  /\ \A i \in returned : creator[i] # None
  /\ \A r \in Request :
       /\ pc[r] \in {"create_lock", "create_claim"} => arg[r] \notin returned
       /\ pc[r] = "create_pre" => held[r] \notin returned
       /\ pc[r] \in {"create_copy", "creating"} => lockHash = baseline[held[r]]
       /\ pc[r] \in {"ready", "require_stage", "requiring"} /\ held[r] # None
            => held[r] \in returned
       /\ pc[r] \in {"apply_time", "apply_pre"}
            => lockHash \in {None, baseline[held[r]]}

USE ConstantsAssumption, NoneNotHash

-----------------------------------------------------------------------------
(* The failure marker. *)

LEMMA StepIntact ==
  OneRequest /\ TypeOK /\ Control /\ Intact /\ [Next]_vars => Intact'
<1> SUFFICES ASSUME OneRequest, TypeOK, Control, Intact, [Next]_vars
             PROVE  Intact'
  OBVIOUS
<1> USE DEF TypeOK, Control, OneRequest, Intact, HalfCommittedIsMarked,
            Works, Working, Committing, Holding, At, Goto, GotoOneOf,
            tempstore, hashes, files, request, history
<1>1. ASSUME NEW r \in Request, StartRequest(r)
      PROVE  Intact'
  BY <1>1 DEF StartRequest
<1>2. ASSUME NEW r \in Request, EndRequest(r)
      PROVE  Intact'
  BY <1>2 DEF EndRequest, Forget
<1>3. ASSUME NEW r \in Request, Crash(r)
      PROVE  Intact'
  BY <1>3 DEF Crash, Forget
<1>4. ASSUME NEW r \in Request, Claim(r)
      PROVE  Intact'
  BY <1>4 DEF Claim, CanClaim, AssertNotExists
<1>5. ASSUME NEW r \in Request, Create(r)
      PROVE  Intact'
  BY <1>5 DEF Create, AssertNotExists
<1>6. ASSUME NEW r \in Request, CreateLock(r)
      PROVE  Intact'
  BY <1>6 DEF CreateLock
<1>7. ASSUME NEW r \in Request, CreateClaim(r)
      PROVE  Intact'
  BY <1>7 DEF CreateClaim, CanClaim, AssertNotExists
<1>8. ASSUME NEW r \in Request, CreatePathsFail(r)
      PROVE  Intact'
  BY <1>8 DEF CreatePathsFail
<1>9. ASSUME NEW r \in Request, PreCreate(r)
      PROVE  Intact'
  BY <1>9 DEF PreCreate, StoreHash
<1>10. ASSUME NEW r \in Request, PreCreateFail(r)
      PROVE  Intact'
  BY <1>10 DEF PreCreateFail
<1>11. ASSUME NEW r \in Request, CreateCopy(r)
      PROVE  Intact'
  BY <1>11 DEF CreateCopy
<1>12. ASSUME NEW r \in Request, CreateCopied(r)
      PROVE  Intact'
  BY <1>12 DEF CreateCopied
<1>13. ASSUME NEW r \in Request, CreateCopyFail(r)
      PROVE  Intact'
  BY <1>13 DEF CreateCopyFail
<1>14. ASSUME NEW r \in Request, DeleteMetadata(r)
      PROVE  Intact'
  BY <1>14 DEF DeleteMetadata
<1>15. ASSUME NEW r \in Request, DeleteLock(r)
      PROVE  Intact'
  BY <1>15 DEF DeleteLock
<1>16. ASSUME NEW r \in Request, Require(r)
      PROVE  Intact'
  BY <1>16 DEF Require, CheckOwnership
<1>17. ASSUME NEW r \in Request, RequireStage(r)
      PROVE  Intact'
  BY <1>17 DEF RequireStage
<1>18. ASSUME NEW r \in Request, Required(r)
      PROVE  Intact'
  BY <1>18 DEF Required
<1>19. ASSUME NEW r \in Request, RequireFail(r)
      PROVE  Intact'
  BY <1>19 DEF RequireFail
<1>20. ASSUME NEW r \in Request, Apply(r)
      PROVE  Intact'
  BY <1>20 DEF Apply, CheckOwnership
<1>21. ASSUME NEW r \in Request, SetApplyTime(r)
      PROVE  Intact'
  BY <1>21 DEF SetApplyTime
<1>22. ASSUME NEW r \in Request, PreApply(r)
      PROVE  Intact'
  BY <1>22 DEF PreApply
<1>23. ASSUME NEW r \in Request, ApplyRelease(r)
      PROVE  Intact'
  BY <1>23 DEF ApplyRelease
<1>24. ASSUME NEW r \in Request, WriteMarker(r)
      PROVE  Intact'
  BY <1>24 DEF WriteMarker, Write
<1>25. ASSUME NEW r \in Request, Commit(r)
      PROVE  Intact'
  BY <1>25 DEF Commit
<1>26. ASSUME NEW r \in Request, Committed(r)
      PROVE  Intact'
  BY <1>26 DEF Committed
<1>27. ASSUME NEW r \in Request, CommitFail(r)
      PROVE  Intact'
  BY <1>27 DEF CommitFail
<1>28. ASSUME NEW r \in Request, ClearMarker(r)
      PROVE  Intact'
  BY <1>28 DEF ClearMarker, Clear
<1>29. ASSUME NEW r \in Request, ApplyOwnership(r)
      PROVE  Intact'
  BY <1>29 DEF ApplyOwnership
<1>30. ASSUME NEW r \in Request, SetChangesApplied(r)
      PROVE  Intact'
  BY <1>30 DEF SetChangesApplied
<1>31. ASSUME NEW r \in Request, PostApply(r)
      PROVE  Intact'
  BY <1>31 DEF PostApply
<1>32. ASSUME NEW r \in Request, PostApplyRelease(r)
      PROVE  Intact'
  BY <1>32 DEF PostApplyRelease
<1>33. ASSUME NEW r \in Request, NEW force \in BOOLEAN, Destroy(r, force)
      PROVE  Intact'
  BY <1>33 DEF Destroy, Between
<1>34. ASSUME NEW r \in Request, DeleteRoot(r)
      PROVE  Intact'
  BY <1>34 DEF DeleteRoot
<1>35. ASSUME NEW r \in Request, RootDeleted(r)
      PROVE  Intact'
  BY <1>35 DEF RootDeleted
<1>36. ASSUME NEW r \in Request, StoreDestroyInfo(r)
      PROVE  Intact'
  BY <1>36 DEF StoreDestroyInfo
<1>37. ASSUME NEW r \in Request, PostDestroy(r)
      PROVE  Intact'
  BY <1>37 DEF PostDestroy, DeleteHash
<1>38. CASE Tick
  BY <1>38 DEF Tick
<1>39. CASE ExternalComposer
  BY <1>39 DEF ExternalComposer
<1>40. CASE Expire
  BY <1>40 DEF Expire
<1>41. CASE RestoreBackup
  BY <1>41 DEF RestoreBackup, Clear, Quiet
<1>42. CASE UNCHANGED vars
  BY <1>42 DEF vars
<1> HIDE DEF TypeOK, Control, OneRequest, Intact, HalfCommittedIsMarked,
             Works, Working, Committing, Holding, At, Goto, GotoOneOf,
             tempstore, hashes, files, request, history
<1> QED
  BY <1>1, <1>2, <1>3, <1>4, <1>5, <1>6, <1>7, <1>8, <1>9, <1>10, <1>11,
     <1>12, <1>13, <1>14, <1>15, <1>16, <1>17, <1>18, <1>19, <1>20, <1>21,
     <1>22, <1>23, <1>24, <1>25, <1>26, <1>27, <1>28, <1>29, <1>30, <1>31,
     <1>32, <1>33, <1>34, <1>35, <1>36, <1>37, <1>38, <1>39, <1>40, <1>41,
     <1>42
     DEF Next, Environment, Work, CreateStep, RequireStep, ApplyStep,
         DestroyStep

LEMMA StepHoused ==
  OneRequest /\ TypeOK /\ Control /\ Housed /\ [Next]_vars => Housed'
<1> SUFFICES ASSUME OneRequest, TypeOK, Control, Housed, [Next]_vars
             PROVE  Housed'
  OBVIOUS
<1> USE DEF TypeOK, Control, OneRequest, Housed, DirectoryIsLocked, Cleared,
            Exists, Holding, Dir, At, Goto, GotoOneOf, tempstore, hashes,
            files, request, history
<1>1. ASSUME NEW r \in Request, StartRequest(r)
      PROVE  Housed'
  BY <1>1 DEF StartRequest
<1>2. ASSUME NEW r \in Request, EndRequest(r)
      PROVE  Housed'
  BY <1>2 DEF EndRequest, Forget
<1>3. ASSUME NEW r \in Request, Crash(r)
      PROVE  Housed'
  BY <1>3 DEF Crash, Forget
<1>4. ASSUME NEW r \in Request, Claim(r)
      PROVE  Housed'
  BY <1>4 DEF Claim, CanClaim, AssertNotExists
<1>5. ASSUME NEW r \in Request, Create(r)
      PROVE  Housed'
  BY <1>5 DEF Create, AssertNotExists, IsAvailable
<1>6. ASSUME NEW r \in Request, CreateLock(r)
      PROVE  Housed'
  BY <1>6 DEF CreateLock
<1>7. ASSUME NEW r \in Request, CreateClaim(r)
      PROVE  Housed'
  BY <1>7 DEF CreateClaim, CanClaim, Stores
<1>8. ASSUME NEW r \in Request, CreatePathsFail(r)
      PROVE  Housed'
  BY <1>8 DEF CreatePathsFail
<1>9. ASSUME NEW r \in Request, PreCreate(r)
      PROVE  Housed'
  BY <1>9 DEF PreCreate, StoreHash
<1>10. ASSUME NEW r \in Request, PreCreateFail(r)
      PROVE  Housed'
  BY <1>10 DEF PreCreateFail
<1>11. ASSUME NEW r \in Request, CreateCopy(r)
      PROVE  Housed'
  BY <1>11 DEF CreateCopy
<1>12. ASSUME NEW r \in Request, CreateCopied(r)
      PROVE  Housed'
  BY <1>12 DEF CreateCopied
<1>13. ASSUME NEW r \in Request, CreateCopyFail(r)
      PROVE  Housed'
  BY <1>13 DEF CreateCopyFail
<1>14. ASSUME NEW r \in Request, DeleteMetadata(r)
      PROVE  Housed'
  BY <1>14 DEF DeleteMetadata
<1>15. ASSUME NEW r \in Request, DeleteLock(r)
      PROVE  Housed'
  BY <1>15 DEF DeleteLock
<1>16. ASSUME NEW r \in Request, Require(r)
      PROVE  Housed'
  BY <1>16 DEF Require
<1>17. ASSUME NEW r \in Request, RequireStage(r)
      PROVE  Housed'
  BY <1>17 DEF RequireStage
<1>18. ASSUME NEW r \in Request, Required(r)
      PROVE  Housed'
  BY <1>18 DEF Required
<1>19. ASSUME NEW r \in Request, RequireFail(r)
      PROVE  Housed'
  BY <1>19 DEF RequireFail
<1>20. ASSUME NEW r \in Request, Apply(r)
      PROVE  Housed'
  BY <1>20 DEF Apply
<1>21. ASSUME NEW r \in Request, SetApplyTime(r)
      PROVE  Housed'
  BY <1>21 DEF SetApplyTime
<1>22. ASSUME NEW r \in Request, PreApply(r)
      PROVE  Housed'
  BY <1>22 DEF PreApply
<1>23. ASSUME NEW r \in Request, ApplyRelease(r)
      PROVE  Housed'
  BY <1>23 DEF ApplyRelease
<1>24. ASSUME NEW r \in Request, WriteMarker(r)
      PROVE  Housed'
  BY <1>24 DEF WriteMarker, Write
<1>25. ASSUME NEW r \in Request, Commit(r)
      PROVE  Housed'
  BY <1>25 DEF Commit
<1>26. ASSUME NEW r \in Request, Committed(r)
      PROVE  Housed'
  BY <1>26 DEF Committed
<1>27. ASSUME NEW r \in Request, CommitFail(r)
      PROVE  Housed'
  BY <1>27 DEF CommitFail
<1>28. ASSUME NEW r \in Request, ClearMarker(r)
      PROVE  Housed'
  BY <1>28 DEF ClearMarker, Clear
<1>29. ASSUME NEW r \in Request, ApplyOwnership(r)
      PROVE  Housed'
  BY <1>29 DEF ApplyOwnership
<1>30. ASSUME NEW r \in Request, SetChangesApplied(r)
      PROVE  Housed'
  BY <1>30 DEF SetChangesApplied
<1>31. ASSUME NEW r \in Request, PostApply(r)
      PROVE  Housed'
  BY <1>31 DEF PostApply
<1>32. ASSUME NEW r \in Request, PostApplyRelease(r)
      PROVE  Housed'
  BY <1>32 DEF PostApplyRelease
<1>33. ASSUME NEW r \in Request, NEW force \in BOOLEAN, Destroy(r, force)
      PROVE  Housed'
  BY <1>33 DEF Destroy
<1>34. ASSUME NEW r \in Request, DeleteRoot(r)
      PROVE  Housed'
  BY <1>34 DEF DeleteRoot, NoDir
<1>35. ASSUME NEW r \in Request, RootDeleted(r)
      PROVE  Housed'
  BY <1>35 DEF RootDeleted, NoDir
<1>36. ASSUME NEW r \in Request, StoreDestroyInfo(r)
      PROVE  Housed'
  BY <1>36 DEF StoreDestroyInfo
<1>37. ASSUME NEW r \in Request, PostDestroy(r)
      PROVE  Housed'
  BY <1>37 DEF PostDestroy, DeleteHash
<1>38. CASE Tick
  BY <1>38 DEF Tick
<1>39. CASE ExternalComposer
  BY <1>39 DEF ExternalComposer
<1>40. CASE Expire
  BY <1>40 DEF Expire, Quiet
<1>41. CASE RestoreBackup
  BY <1>41 DEF RestoreBackup, Clear, Quiet
<1>42. CASE UNCHANGED vars
  BY <1>42 DEF vars
<1> HIDE DEF TypeOK, Control, OneRequest, Housed, DirectoryIsLocked, Cleared,
             Exists, Holding, Dir, At, Goto, GotoOneOf, tempstore, hashes,
             files, request, history
<1> QED
  BY <1>1, <1>2, <1>3, <1>4, <1>5, <1>6, <1>7, <1>8, <1>9, <1>10, <1>11,
     <1>12, <1>13, <1>14, <1>15, <1>16, <1>17, <1>18, <1>19, <1>20, <1>21,
     <1>22, <1>23, <1>24, <1>25, <1>26, <1>27, <1>28, <1>29, <1>30, <1>31,
     <1>32, <1>33, <1>34, <1>35, <1>36, <1>37, <1>38, <1>39, <1>40, <1>41,
     <1>42
     DEF Next, Environment, Work, CreateStep, RequireStep, ApplyStep,
         DestroyStep

LEMMA StepBased ==
  OneRequest /\ TypeOK /\ Control /\ Owned /\ Intact /\ Housed /\ Based /\ [Next]_vars => Based'
<1> SUFFICES ASSUME OneRequest, TypeOK, Control, Owned, Intact, Housed,
                   Based, [Next]_vars
             PROVE  Based'
  OBVIOUS
<1> USE DEF TypeOK, Control, OneRequest, Intact, Housed, Works, Working,
            Based, Holding, At, Goto, GotoOneOf, tempstore, hashes, files,
            request, history
<1>1. ASSUME NEW r \in Request, StartRequest(r)
      PROVE  Based'
  BY <1>1 DEF StartRequest
<1>2. ASSUME NEW r \in Request, EndRequest(r)
      PROVE  Based'
  BY <1>2 DEF EndRequest, Forget
<1>3. ASSUME NEW r \in Request, Crash(r)
      PROVE  Based'
  BY <1>3 DEF Crash, Forget
<1>4. ASSUME NEW r \in Request, Claim(r)
      PROVE  Based'
  BY <1>4 DEF Claim, CanClaim, AssertNotExists, Stores
<1>5. ASSUME NEW r \in Request, Create(r)
      PROVE  Based'
  BY <1>5 DEF Create, AssertNotExists, Fresh
<1>6. ASSUME NEW r \in Request, CreateLock(r)
      PROVE  Based'
  BY <1>6 DEF CreateLock
<1>7. ASSUME NEW r \in Request, CreateClaim(r)
      PROVE  Based'
  BY <1>7 DEF CreateClaim, CanClaim
<1>8. ASSUME NEW r \in Request, CreatePathsFail(r)
      PROVE  Based'
  BY <1>8 DEF CreatePathsFail
<1>9. ASSUME NEW r \in Request, PreCreate(r)
      PROVE  Based'
  BY <1>9 DEF PreCreate, StoreHash
<1>10. ASSUME NEW r \in Request, PreCreateFail(r)
      PROVE  Based'
  BY <1>10 DEF PreCreateFail
<1>11. ASSUME NEW r \in Request, CreateCopy(r)
      PROVE  Based'
  BY <1>11 DEF CreateCopy
<1>12. ASSUME NEW r \in Request, CreateCopied(r)
      PROVE  Based'
  <2>1. CASE UNCHANGED returned
    BY <1>12, <2>1 DEF CreateCopied
  <2>2. CASE returned' = returned \cup {held[r]}
    <3>1. lockHash = baseline[held[r]] /\ lock.id = held[r]
      BY <1>12 DEF CreateCopied
    <3>2. UNCHANGED <<lock, lockHash, baseline, creator, held, arg>>
      BY <1>12 DEF CreateCopied
    <3>3. creator[held[r]] # None
      BY <1>12 DEF CreateCopied, Owned, OwnerOnly
    <3>4. pc' = [pc EXCEPT ![r] = "ready"] \/ pc' = [pc EXCEPT ![r] = "create_failed"]
      BY <1>12 DEF CreateCopied
    <3> QED
      BY <1>12, <2>2, <3>1, <3>2, <3>3, <3>4
  <2> QED
    BY <1>12, <2>1, <2>2 DEF CreateCopied
<1>13. ASSUME NEW r \in Request, CreateCopyFail(r)
      PROVE  Based'
  BY <1>13 DEF CreateCopyFail
<1>14. ASSUME NEW r \in Request, DeleteMetadata(r)
      PROVE  Based'
  BY <1>14 DEF DeleteMetadata
<1>15. ASSUME NEW r \in Request, DeleteLock(r)
      PROVE  Based'
  BY <1>15 DEF DeleteLock
<1>16. ASSUME NEW r \in Request, Require(r)
      PROVE  Based'
  BY <1>16 DEF Require, CheckOwnership, Stores
<1>17. ASSUME NEW r \in Request, RequireStage(r)
      PROVE  Based'
  BY <1>17 DEF RequireStage
<1>18. ASSUME NEW r \in Request, Required(r)
      PROVE  Based'
  BY <1>18 DEF Required
<1>19. ASSUME NEW r \in Request, RequireFail(r)
      PROVE  Based'
  BY <1>19 DEF RequireFail
<1>20. ASSUME NEW r \in Request, Apply(r)
      PROVE  Based'
  BY <1>20 DEF Apply, CheckOwnership, Stores
<1>21. ASSUME NEW r \in Request, SetApplyTime(r)
      PROVE  Based'
  BY <1>21 DEF SetApplyTime
<1>22. ASSUME NEW r \in Request, PreApply(r)
      PROVE  Based'
  BY <1>22 DEF PreApply
<1>23. ASSUME NEW r \in Request, ApplyRelease(r)
      PROVE  Based'
  BY <1>23 DEF ApplyRelease
<1>24. ASSUME NEW r \in Request, WriteMarker(r)
      PROVE  Based'
  BY <1>24 DEF WriteMarker, Write
<1>25. ASSUME NEW r \in Request, Commit(r)
      PROVE  Based'
  BY <1>25 DEF Commit
<1>26. ASSUME NEW r \in Request, Committed(r)
      PROVE  Based'
  BY <1>26 DEF Committed
<1>27. ASSUME NEW r \in Request, CommitFail(r)
      PROVE  Based'
  BY <1>27 DEF CommitFail
<1>28. ASSUME NEW r \in Request, ClearMarker(r)
      PROVE  Based'
  BY <1>28 DEF ClearMarker, Clear
<1>29. ASSUME NEW r \in Request, ApplyOwnership(r)
      PROVE  Based'
  BY <1>29 DEF ApplyOwnership
<1>30. ASSUME NEW r \in Request, SetChangesApplied(r)
      PROVE  Based'
  BY <1>30 DEF SetChangesApplied
<1>31. ASSUME NEW r \in Request, PostApply(r)
      PROVE  Based'
  BY <1>31 DEF PostApply
<1>32. ASSUME NEW r \in Request, PostApplyRelease(r)
      PROVE  Based'
  BY <1>32 DEF PostApplyRelease
<1>33. ASSUME NEW r \in Request, NEW force \in BOOLEAN, Destroy(r, force)
      PROVE  Based'
  BY <1>33 DEF Destroy
<1>34. ASSUME NEW r \in Request, DeleteRoot(r)
      PROVE  Based'
  BY <1>34 DEF DeleteRoot
<1>35. ASSUME NEW r \in Request, RootDeleted(r)
      PROVE  Based'
  BY <1>35 DEF RootDeleted
<1>36. ASSUME NEW r \in Request, StoreDestroyInfo(r)
      PROVE  Based'
  BY <1>36 DEF StoreDestroyInfo
<1>37. ASSUME NEW r \in Request, PostDestroy(r)
      PROVE  Based'
  BY <1>37 DEF PostDestroy, DeleteHash
<1>38. CASE Tick
  BY <1>38 DEF Tick
<1>39. CASE ExternalComposer
  BY <1>39 DEF ExternalComposer
<1>40. CASE Expire
  BY <1>40 DEF Expire, Quiet
<1>41. CASE RestoreBackup
  BY <1>41 DEF RestoreBackup, Clear, Quiet
<1>42. CASE UNCHANGED vars
  BY <1>42 DEF vars
<1> HIDE DEF TypeOK, Control, OneRequest, Intact, Housed, Works, Working,
             Based, Holding, At, Goto, GotoOneOf, tempstore, hashes, files,
             request, history
<1> QED
  BY <1>1, <1>2, <1>3, <1>4, <1>5, <1>6, <1>7, <1>8, <1>9, <1>10, <1>11,
     <1>12, <1>13, <1>14, <1>15, <1>16, <1>17, <1>18, <1>19, <1>20, <1>21,
     <1>22, <1>23, <1>24, <1>25, <1>26, <1>27, <1>28, <1>29, <1>30, <1>31,
     <1>32, <1>33, <1>34, <1>35, <1>36, <1>37, <1>38, <1>39, <1>40, <1>41,
     <1>42
     DEF Next, Environment, Work, CreateStep, RequireStep, ApplyStep,
         DestroyStep

-----------------------------------------------------------------------------
(* The theorems. *)

SerialInv == TypeOK /\ Control /\ Owned /\ Intact /\ Housed /\ Based

LEMMA InitSerial == Init => SerialInv
<1> SUFFICES ASSUME Init PROVE SerialInv
  OBVIOUS
<1>1. TypeOK /\ Control
  BY InitTypes
<1>2. Owned /\ Intact
  BY DEF Init, Owned, OwnerOnly, Intact, HalfCommittedIsMarked, Works,
         Working, At
<1>3. Housed
  BY DEF Init, Housed, DirectoryIsLocked, Cleared, Exists, NoDir
<1>4. Based
  BY DEF Init, Based
<1> QED
  BY <1>1, <1>2, <1>3, <1>4 DEF SerialInv

THEOREM SerialInvariant == OneRequest => (Spec => []SerialInv)
<1> SUFFICES ASSUME OneRequest PROVE Spec => []SerialInv
  OBVIOUS
<1>1. Init => SerialInv
  BY InitSerial
<1>2. SerialInv /\ [Next]_vars => SerialInv'
  BY StepTypes, StepOwned, StepIntact, StepHoused, StepBased DEF SerialInv
<1> QED
  BY <1>1, <1>2, PTL DEF Spec

(***************************************************************************)
(* Whatever error or crash cuts a commit short, the marker is on disk.     *)
(***************************************************************************)
THEOREM MarkerTellsHalfCommit == OneRequest => (Spec => []HalfCommittedIsMarked)
<1> SUFFICES ASSUME OneRequest PROVE Spec => []HalfCommittedIsMarked
  OBVIOUS
<1>1. SerialInv => HalfCommittedIsMarked
  BY DEF SerialInv, Intact
<1> QED
  BY <1>1, SerialInvariant, PTL

(***************************************************************************)
(* A live request that comes back from apply() leaves the marker only if   *)
(* the commit was cut short.                                               *)
(***************************************************************************)
THEOREM MarkerTellsNothingElse == OneRequest => (Spec => []NoFalseAlarm)
<1> SUFFICES ASSUME OneRequest PROVE Spec => []NoFalseAlarm
  OBVIOUS
<1>1. SerialInv => NoFalseAlarm
  BY DEF SerialInv, Intact, NoFalseAlarm, Between, Committing
<1> QED
  BY <1>1, SerialInvariant, PTL

(***************************************************************************)
(* No directory is left in the stage root but the locked stage's, those    *)
(* whose deletion failed and those whose lock expired.                     *)
(***************************************************************************)
THEOREM NoStrayDirectory == OneRequest => (Spec => []DirectoryIsLocked)
<1> SUFFICES ASSUME OneRequest PROVE Spec => []DirectoryIsLocked
  OBVIOUS
<1>1. SerialInv => DirectoryIsLocked
  BY DEF SerialInv, Housed
<1> QED
  BY <1>1, SerialInvariant, PTL

(***************************************************************************)
(* Nothing is begun on a half-committed code base.                         *)
(***************************************************************************)
LEMMA StepNoWork ==
  ASSUME SerialInv, [Next]_vars, broken, NEW q \in Request PROVE ~Begins(q)
<1> SUFFICES ASSUME Begins(q) PROVE FALSE
  OBVIOUS
<1> USE DEF At, Goto, GotoOneOf, TypeOK
<1> pc \in [Request -> PC]
  BY DEF SerialInv
<1>1. pc[q] \in {"create_copy", "require_stage", "apply_commit"}
  <2>1. ASSUME NEW r \in Request,
               \/ StartRequest(r) \/ EndRequest(r) \/ Crash(r)
               \/ Claim(r)
        PROVE  pc[q] \in {"create_copy", "require_stage", "apply_commit"}
    BY <2>1 DEF StartRequest, EndRequest, Crash, Claim, Forget, Forget, Begins
  <2>2. ASSUME NEW r \in Request,
               \/ Create(r) \/ CreateLock(r) \/ CreateClaim(r)
               \/ CreatePathsFail(r) \/ PreCreate(r) \/ PreCreateFail(r)
               \/ CreateCopy(r) \/ CreateCopied(r) \/ CreateCopyFail(r)
        PROVE  pc[q] \in {"create_copy", "require_stage", "apply_commit"}
    BY <2>2 DEF Create, CreateLock, CreateClaim, CreatePathsFail, PreCreate,
           PreCreateFail, CreateCopy, CreateCopied, CreateCopyFail, Begins
  <2>3. ASSUME NEW r \in Request,
               \/ Require(r) \/ RequireStage(r) \/ Required(r)
               \/ RequireFail(r)
        PROVE  pc[q] \in {"create_copy", "require_stage", "apply_commit"}
    BY <2>3 DEF Require, RequireStage, Required, RequireFail, Begins
  <2>4. ASSUME NEW r \in Request,
               \/ Apply(r) \/ SetApplyTime(r) \/ PreApply(r)
               \/ ApplyRelease(r) \/ WriteMarker(r) \/ Commit(r)
               \/ Committed(r) \/ CommitFail(r)
        PROVE  pc[q] \in {"create_copy", "require_stage", "apply_commit"}
    BY <2>4 DEF Apply, SetApplyTime, PreApply, ApplyRelease, WriteMarker,
           Commit, Committed, CommitFail, Begins
  <2>5. ASSUME NEW r \in Request,
               \/ ClearMarker(r) \/ ApplyOwnership(r) \/ SetChangesApplied(r)
               \/ PostApply(r) \/ PostApplyRelease(r)
        PROVE  pc[q] \in {"create_copy", "require_stage", "apply_commit"}
    BY <2>5 DEF ClearMarker, ApplyOwnership, SetChangesApplied, PostApply,
           PostApplyRelease, Begins
  <2>6. ASSUME NEW r \in Request, NEW force \in BOOLEAN, Destroy(r, force)
        PROVE  pc[q] \in {"create_copy", "require_stage", "apply_commit"}
    BY <2>6 DEF Destroy, Begins
  <2>7. ASSUME NEW r \in Request,
               \/ DeleteRoot(r) \/ RootDeleted(r) \/ StoreDestroyInfo(r)
               \/ DeleteMetadata(r) \/ DeleteLock(r) \/ PostDestroy(r)
        PROVE  pc[q] \in {"create_copy", "require_stage", "apply_commit"}
    BY <2>7 DEF DeleteRoot, RootDeleted, StoreDestroyInfo, DeleteMetadata,
           DeleteLock, PostDestroy, Begins
  <2>8. CASE Environment \/ UNCHANGED vars
    BY <2>8 DEF Environment, Tick, ExternalComposer, Expire, RestoreBackup,
           vars, Begins
  <2> HIDE DEF At, Goto, GotoOneOf, TypeOK
  <2> QED
    BY <2>1, <2>2, <2>3, <2>4, <2>5, <2>6, <2>7, <2>8
       DEF Next, Environment, Work, CreateStep, RequireStep, ApplyStep,
           DestroyStep
<1> QED
  BY <1>1 DEF SerialInv, Intact, Works, Working

THEOREM BrokenCodeIsLeftAlone == OneRequest => (Spec => NoWorkOnBrokenCode)
<1> SUFFICES ASSUME OneRequest PROVE Spec => NoWorkOnBrokenCode
  OBVIOUS
<1>1. SerialInv /\ [Next]_vars
        => [broken => \A r \in Request : ~Begins(r)]_vars
  BY StepNoWork
<1> QED
  BY <1>1, SerialInvariant, PTL DEF Spec, NoWorkOnBrokenCode

(***************************************************************************)
(* Staged changes are only applied to the composer.lock they were staged   *)
(* against.                                                                *)
(***************************************************************************)
LEMMA StepOnBaseline ==
  ASSUME SerialInv, [Next]_vars, NEW q \in Request,
         At(q, "apply_pre"), pc'[q] = "apply_mark"
  PROVE  activeHash = baseline[held[q]]
<1> USE DEF At, Goto, GotoOneOf, TypeOK
<1> pc \in [Request -> PC]
  BY DEF SerialInv
<1>1. PreApply(q)
  <2>1. ASSUME NEW r \in Request,
               \/ StartRequest(r) \/ EndRequest(r) \/ Crash(r)
               \/ Claim(r)
        PROVE  PreApply(q)
    BY <2>1 DEF StartRequest, EndRequest, Crash, Claim, Forget, Forget
  <2>2. ASSUME NEW r \in Request,
               \/ Create(r) \/ CreateLock(r) \/ CreateClaim(r)
               \/ CreatePathsFail(r) \/ PreCreate(r) \/ PreCreateFail(r)
               \/ CreateCopy(r) \/ CreateCopied(r) \/ CreateCopyFail(r)
        PROVE  PreApply(q)
    BY <2>2 DEF Create, CreateLock, CreateClaim, CreatePathsFail, PreCreate,
           PreCreateFail, CreateCopy, CreateCopied, CreateCopyFail
  <2>3. ASSUME NEW r \in Request,
               \/ Require(r) \/ RequireStage(r) \/ Required(r)
               \/ RequireFail(r)
        PROVE  PreApply(q)
    BY <2>3 DEF Require, RequireStage, Required, RequireFail
  <2>4. ASSUME NEW r \in Request,
               \/ Apply(r) \/ SetApplyTime(r) \/ PreApply(r)
               \/ ApplyRelease(r) \/ WriteMarker(r) \/ Commit(r)
               \/ Committed(r) \/ CommitFail(r)
        PROVE  PreApply(q)
    BY <2>4 DEF Apply, SetApplyTime, PreApply, ApplyRelease, WriteMarker,
           Commit, Committed, CommitFail
  <2>5. ASSUME NEW r \in Request,
               \/ ClearMarker(r) \/ ApplyOwnership(r) \/ SetChangesApplied(r)
               \/ PostApply(r) \/ PostApplyRelease(r)
        PROVE  PreApply(q)
    BY <2>5 DEF ClearMarker, ApplyOwnership, SetChangesApplied, PostApply,
           PostApplyRelease
  <2>6. ASSUME NEW r \in Request, NEW force \in BOOLEAN, Destroy(r, force)
        PROVE  PreApply(q)
    BY <2>6 DEF Destroy
  <2>7. ASSUME NEW r \in Request,
               \/ DeleteRoot(r) \/ RootDeleted(r) \/ StoreDestroyInfo(r)
               \/ DeleteMetadata(r) \/ DeleteLock(r) \/ PostDestroy(r)
        PROVE  PreApply(q)
    BY <2>7 DEF DeleteRoot, RootDeleted, StoreDestroyInfo, DeleteMetadata,
           DeleteLock, PostDestroy
  <2>8. CASE Environment \/ UNCHANGED vars
    BY <2>8 DEF Environment, Tick, ExternalComposer, Expire, RestoreBackup,
           vars
  <2> HIDE DEF At, Goto, GotoOneOf, TypeOK
  <2> QED
    BY <2>1, <2>2, <2>3, <2>4, <2>5, <2>6, <2>7, <2>8
       DEF Next, Environment, Work, CreateStep, RequireStep, ApplyStep,
           DestroyStep
<1>2. activeHash # None /\ lockHash = activeHash
  BY <1>1 DEF PreApply, PendingChanges, ActiveUnchanged
<1> QED
  BY <1>2 DEF SerialInv, Based

THEOREM AppliedOnBaseline == OneRequest => (Spec => ApplyOnBaseline)
<1> SUFFICES ASSUME OneRequest PROVE Spec => ApplyOnBaseline
  OBVIOUS
<1>1. SerialInv /\ [Next]_vars
        => [\A r \in Request : At(r, "apply_pre") /\ pc'[r] = "apply_mark"
              => activeHash = baseline[held[r]]]_vars
  BY StepOnBaseline
<1> QED
  BY <1>1, SerialInvariant, PTL DEF Spec, ApplyOnBaseline

=============================================================================
