----------------------- MODULE StageRefinement_proofs -----------------------
(***************************************************************************)
(* The proof that Stage.tla implements StageLifeCycle.tla on a server where*)
(* no two requests overlap, for any number of stages, actors, hashes and   *)
(* crashes.                                                                *)
(***************************************************************************)
EXTENDS Stage_proofs, StageRefinement

\* From here to the end of the call the lock is the one that was claimed.
Locked ==
  {"require_stage", "requiring", "apply_time", "apply_pre", "apply_mark",
   "apply_commit", "applying", "apply_unmark", "apply_clear"}

(***************************************************************************)
(* What SerialInv does not say and the abstract steps need: a new ID has   *)
(* no directory yet, a request that works on a stage has its lock, and the *)
(* committer has a directory to read.                                      *)
(***************************************************************************)
Kept ==
  /\ \A i \in Id : Exists(i) => creator[i] # None
  /\ \A r \in Request :
       /\ pc[r] \in {"create_lock", "create_claim"}
            => creator[arg[r]] # None /\ ~Exists(arg[r])
       /\ pc[r] \in {"create_pre", "create_copy"} => ~Exists(held[r])
       /\ pc[r] \in {"create_pre", "create_copy", "creating"}
            => creator[held[r]] # None
       /\ pc[r] \in Locked => lock # None /\ lock.id = held[r]
       /\ pc[r] \in {"creating", "applying"} => Exists(held[r])

\* A step of the life cycle, or one that it does not see.
AbstractStep == [LifeCycle!Next]_(LifeCycle!vars)

USE ConstantsAssumption, NoneNotHash

-----------------------------------------------------------------------------

LEMMA SameCopy ==
  ASSUME TypeOK, lock' = lock, \A i \in Id : Exists(i)' <=> Exists(i)
  PROVE  Copied' = Copied
BY DEF TypeOK, Copied, Lock

LEMMA LessCopy ==
  ASSUME TypeOK, lock' = lock, \A i \in Id : Exists(i)' => Exists(i)
  PROVE  Copied' => Copied
BY DEF TypeOK, Copied, Lock

LEMMA StepKept == OneRequest /\ SerialInv /\ Kept /\ [Next]_vars => Kept'
<1> SUFFICES ASSUME OneRequest, TypeOK, Control, Housed, Kept, [Next]_vars
             PROVE  Kept'
  BY DEF SerialInv
<1> USE DEF TypeOK, Control, OneRequest, Housed, Kept, Locked, Exists, Lock,
            Holding, Dir, At, Goto, GotoOneOf, tempstore, hashes, files,
            request, history
<1>1. ASSUME NEW r \in Request, StartRequest(r)
      PROVE  Kept'
  BY <1>1 DEF StartRequest
<1>2. ASSUME NEW r \in Request, EndRequest(r)
      PROVE  Kept'
  BY <1>2 DEF EndRequest, Forget
<1>3. ASSUME NEW r \in Request, Crash(r)
      PROVE  Kept'
  BY <1>3 DEF Crash, Forget
<1>4. ASSUME NEW r \in Request, Claim(r)
      PROVE  Kept'
  BY <1>4 DEF Claim, CanClaim, Stores, AssertNotExists
<1>5. ASSUME NEW r \in Request, Create(r)
      PROVE  Kept'
  BY <1>5 DEF Create, AssertNotExists, IsAvailable, Fresh
<1>6. ASSUME NEW r \in Request, CreateLock(r)
      PROVE  Kept'
  BY <1>6 DEF CreateLock
<1>7. ASSUME NEW r \in Request, CreateClaim(r)
      PROVE  Kept'
  BY <1>7 DEF CreateClaim, CanClaim, Stores
<1>8. ASSUME NEW r \in Request, CreatePathsFail(r)
      PROVE  Kept'
  BY <1>8 DEF CreatePathsFail
<1>9. ASSUME NEW r \in Request, PreCreate(r)
      PROVE  Kept'
  BY <1>9 DEF PreCreate, StoreHash
<1>10. ASSUME NEW r \in Request, PreCreateFail(r)
      PROVE  Kept'
  BY <1>10 DEF PreCreateFail
<1>11. ASSUME NEW r \in Request, CreateCopy(r)
      PROVE  Kept'
  <2>1. held[r] \in Id
    BY <1>11 DEF CreateCopy
  <2>2. \A i \in Id \ {held[r]} : dir'[i] = dir[i]
    BY <1>11, <2>1 DEF CreateCopy
  <2>3. dir' = dir \/ pc' = [pc EXCEPT ![r] = "creating"]
    BY <1>11, <2>1 DEF CreateCopy
  <2> QED
    BY <1>11, <2>1, <2>2, <2>3 DEF CreateCopy
<1>12. ASSUME NEW r \in Request, CreateCopied(r)
      PROVE  Kept'
  BY <1>12 DEF CreateCopied
<1>13. ASSUME NEW r \in Request, CreateCopyFail(r)
      PROVE  Kept'
  <2>1. \A i \in Id : Exists(i)' <=> Exists(i)
    BY <1>13 DEF CreateCopyFail
  <2>2. UNCHANGED <<creator, lock, arg, held>>
    BY <1>13 DEF CreateCopyFail
  <2>3. /\ pc'[r] = "create_failed"
        /\ \A s \in Request : s = r
    BY <1>13 DEF CreateCopyFail
  <2> HIDE DEF Exists
  <2> QED
    BY <2>1, <2>2, <2>3
<1>14. ASSUME NEW r \in Request, DeleteMetadata(r)
      PROVE  Kept'
  BY <1>14 DEF DeleteMetadata
<1>15. ASSUME NEW r \in Request, DeleteLock(r)
      PROVE  Kept'
  BY <1>15 DEF DeleteLock
<1>16. ASSUME NEW r \in Request, Require(r)
      PROVE  Kept'
  BY <1>16 DEF Require, CheckOwnership, Stores
<1>17. ASSUME NEW r \in Request, RequireStage(r)
      PROVE  Kept'
  <2>1. held[r] \in Id
    BY <1>17 DEF RequireStage
  <2>2. \A i \in Id \ {held[r]} : dir'[i] = dir[i]
    BY <1>17, <2>1 DEF RequireStage
  <2>3. Exists(held[r])' => Exists(held[r])
    BY <1>17, <2>1 DEF RequireStage
  <2> QED
    BY <1>17, <2>1, <2>2, <2>3 DEF RequireStage
<1>18. ASSUME NEW r \in Request, Required(r)
      PROVE  Kept'
  BY <1>18 DEF Required
<1>19. ASSUME NEW r \in Request, RequireFail(r)
      PROVE  Kept'
  BY <1>19 DEF RequireFail
<1>20. ASSUME NEW r \in Request, Apply(r)
      PROVE  Kept'
  BY <1>20 DEF Apply, CheckOwnership, Stores
<1>21. ASSUME NEW r \in Request, SetApplyTime(r)
      PROVE  Kept'
  BY <1>21 DEF SetApplyTime
<1>22. ASSUME NEW r \in Request, PreApply(r)
      PROVE  Kept'
  BY <1>22 DEF PreApply
<1>23. ASSUME NEW r \in Request, ApplyRelease(r)
      PROVE  Kept'
  BY <1>23 DEF ApplyRelease
<1>24. ASSUME NEW r \in Request, WriteMarker(r)
      PROVE  Kept'
  BY <1>24 DEF WriteMarker, Write
<1>25. ASSUME NEW r \in Request, Commit(r)
      PROVE  Kept'
  BY <1>25 DEF Commit
<1>26. ASSUME NEW r \in Request, Committed(r)
      PROVE  Kept'
  BY <1>26 DEF Committed
<1>27. ASSUME NEW r \in Request, CommitFail(r)
      PROVE  Kept'
  BY <1>27 DEF CommitFail
<1>28. ASSUME NEW r \in Request, ClearMarker(r)
      PROVE  Kept'
  BY <1>28 DEF ClearMarker, Clear
<1>29. ASSUME NEW r \in Request, ApplyOwnership(r)
      PROVE  Kept'
  BY <1>29 DEF ApplyOwnership
<1>30. ASSUME NEW r \in Request, SetChangesApplied(r)
      PROVE  Kept'
  BY <1>30 DEF SetChangesApplied
<1>31. ASSUME NEW r \in Request, PostApply(r)
      PROVE  Kept'
  BY <1>31 DEF PostApply
<1>32. ASSUME NEW r \in Request, PostApplyRelease(r)
      PROVE  Kept'
  BY <1>32 DEF PostApplyRelease
<1>33. ASSUME NEW r \in Request, NEW force \in BOOLEAN, Destroy(r, force)
      PROVE  Kept'
  BY <1>33 DEF Destroy
<1>34. ASSUME NEW r \in Request, DeleteRoot(r)
      PROVE  Kept'
  BY <1>34 DEF DeleteRoot, NoDir
<1>35. ASSUME NEW r \in Request, RootDeleted(r)
      PROVE  Kept'
  BY <1>35 DEF RootDeleted, NoDir
<1>36. ASSUME NEW r \in Request, StoreDestroyInfo(r)
      PROVE  Kept'
  BY <1>36 DEF StoreDestroyInfo
<1>37. ASSUME NEW r \in Request, PostDestroy(r)
      PROVE  Kept'
  BY <1>37 DEF PostDestroy, DeleteHash
<1>38. CASE Tick
  BY <1>38 DEF Tick
<1>39. CASE ExternalComposer
  BY <1>39 DEF ExternalComposer
<1>40. CASE Expire
  BY <1>40 DEF Expire, Quiet
<1>41. CASE RestoreBackup
  BY <1>41 DEF RestoreBackup, Clear, Quiet
<1>42. CASE UNCHANGED vars
  BY <1>42 DEF vars
<1> HIDE DEF TypeOK, Control, OneRequest, Housed, Kept, Locked, Exists, Lock,
             Holding, Dir, At, Goto, GotoOneOf, tempstore, hashes, files,
             request, history
<1> QED
  BY <1>1, <1>2, <1>3, <1>4, <1>5, <1>6, <1>7, <1>8, <1>9, <1>10, <1>11,
     <1>12, <1>13, <1>14, <1>15, <1>16, <1>17, <1>18, <1>19, <1>20, <1>21,
     <1>22, <1>23, <1>24, <1>25, <1>26, <1>27, <1>28, <1>29, <1>30, <1>31,
     <1>32, <1>33, <1>34, <1>35, <1>36, <1>37, <1>38, <1>39, <1>40, <1>41,
     <1>42
     DEF Next, Environment, Work, CreateStep, RequireStep, ApplyStep,
         DestroyStep

(***************************************************************************)
(* Every step is a step of the life cycle or changes nothing it sees.      *)
(***************************************************************************)
LEMMA StepRefines ==
  ASSUME OneRequest, SerialInv, Kept, [Next]_vars
  PROVE  AbstractStep
<1> USE DEF TypeOK, Control, OneRequest, At, Goto, GotoOneOf, Copied, Code,
            Exists, Holding, Dir, LifeCycle!vars, tempstore, hashes, files, request, history
<1> TypeOK /\ Control /\ Intact /\ Housed
  BY DEF SerialInv
<1>1. ASSUME NEW r \in Request, StartRequest(r)
      PROVE  AbstractStep
  BY <1>1 DEF AbstractStep, StartRequest
<1>2. ASSUME NEW r \in Request, EndRequest(r)
      PROVE  AbstractStep
  <2>1. Code' = Code
    BY <1>2 DEF EndRequest, Forget, Between
  <2>2. Copied' = Copied
    BY <1>2 DEF EndRequest, Forget, Between
  <2> QED
    BY <1>2, <2>1, <2>2 DEF AbstractStep, EndRequest, Forget, Between
<1>3. ASSUME NEW r \in Request, Crash(r)
      PROVE  AbstractStep
  BY <1>3 DEF AbstractStep, Crash, Forget, Intact, Works, Working, LifeCycle!Next,
     LifeCycle!EndChange
<1>4. ASSUME NEW r \in Request, Claim(r)
      PROVE  AbstractStep
  BY <1>4 DEF AbstractStep, Claim
<1>5. ASSUME NEW r \in Request, Create(r)
      PROVE  AbstractStep
  BY <1>5 DEF AbstractStep, Create
<1>6. ASSUME NEW r \in Request, CreateLock(r)
      PROVE  AbstractStep
  BY <1>6 DEF AbstractStep, CreateLock, Intact, Works, Working, Housed, Kept, Lock,
     LifeCycle!Next, LifeCycle!Reserve
<1>7. ASSUME NEW r \in Request, CreateClaim(r)
      PROVE  AbstractStep
  BY <1>7 DEF AbstractStep, CreateClaim
<1>8. ASSUME NEW r \in Request, CreatePathsFail(r)
      PROVE  AbstractStep
  BY <1>8 DEF AbstractStep, CreatePathsFail
<1>9. ASSUME NEW r \in Request, PreCreate(r)
      PROVE  AbstractStep
  BY <1>9 DEF AbstractStep, PreCreate, StoreHash
<1>10. ASSUME NEW r \in Request, PreCreateFail(r)
      PROVE  AbstractStep
  BY <1>10 DEF AbstractStep, PreCreateFail
<1>11. ASSUME NEW r \in Request, CreateCopy(r)
      PROVE  AbstractStep
  BY <1>11 DEF AbstractStep, CreateCopy, Intact, Works, Working, Housed, Kept, Lock,
     LifeCycle!Next, LifeCycle!Copy
<1>12. ASSUME NEW r \in Request, CreateCopied(r)
      PROVE  AbstractStep
  BY <1>12 DEF AbstractStep, CreateCopied
<1>13. ASSUME NEW r \in Request, CreateCopyFail(r)
      PROVE  AbstractStep
  <2>1. held[r] \in Id
    BY <1>13 DEF CreateCopyFail, Housed, Intact, Works, Working
  <2>2. \A i \in Id : Exists(i)' <=> Exists(i)
    BY <1>13, <2>1 DEF CreateCopyFail, Kept
  <2>3. Copied' = Copied
    BY <1>13, <2>2, SameCopy DEF CreateCopyFail
  <2>4. Code' = Code
    BY <1>13 DEF CreateCopyFail, Housed, Intact, Works, Working
  <2> QED
    BY <1>13, <2>3, <2>4 DEF AbstractStep, CreateCopyFail, Housed, Intact, Works, Working
<1>14. ASSUME NEW r \in Request, DeleteMetadata(r)
      PROVE  AbstractStep
  BY <1>14 DEF AbstractStep, DeleteMetadata
<1>15. ASSUME NEW r \in Request, DeleteLock(r)
      PROVE  AbstractStep
  BY <1>15 DEF AbstractStep, DeleteLock, LifeCycle!Next, LifeCycle!Release
<1>16. ASSUME NEW r \in Request, Require(r)
      PROVE  AbstractStep
  BY <1>16 DEF AbstractStep, Require
<1>17. ASSUME NEW r \in Request, RequireStage(r)
      PROVE  AbstractStep
  <2>1. held[r] \in Id
    BY <1>17 DEF RequireStage
  <2>2. \A i \in Id : Exists(i)' <=> Exists(i)
    BY <1>17, <2>1 DEF RequireStage
  <2>3. Copied' = Copied
    BY <1>17, <2>2, SameCopy DEF RequireStage
  <2>4. Code' = Code
    BY <1>17 DEF RequireStage
  <2> QED
    BY <1>17, <2>3, <2>4 DEF AbstractStep, RequireStage
<1>18. ASSUME NEW r \in Request, Required(r)
      PROVE  AbstractStep
  BY <1>18 DEF AbstractStep, Required
<1>19. ASSUME NEW r \in Request, RequireFail(r)
      PROVE  AbstractStep
  <2>1. held[r] \in Id
    BY <1>19 DEF RequireFail
  <2>2. \A i \in Id : Exists(i)' <=> Exists(i)
    BY <1>19, <2>1 DEF RequireFail
  <2>3. Copied' = Copied
    BY <1>19, <2>2, SameCopy DEF RequireFail
  <2>4. Code' = Code
    BY <1>19 DEF RequireFail
  <2> QED
    BY <1>19, <2>3, <2>4 DEF AbstractStep, RequireFail
<1>20. ASSUME NEW r \in Request, Apply(r)
      PROVE  AbstractStep
  BY <1>20 DEF AbstractStep, Apply
<1>21. ASSUME NEW r \in Request, SetApplyTime(r)
      PROVE  AbstractStep
  BY <1>21 DEF AbstractStep, SetApplyTime
<1>22. ASSUME NEW r \in Request, PreApply(r)
      PROVE  AbstractStep
  BY <1>22 DEF AbstractStep, PreApply
<1>23. ASSUME NEW r \in Request, ApplyRelease(r)
      PROVE  AbstractStep
  BY <1>23 DEF AbstractStep, ApplyRelease
<1>24. ASSUME NEW r \in Request, WriteMarker(r)
      PROVE  AbstractStep
  <2>1. lock # None /\ ~broken
    BY <1>24 DEF WriteMarker, Kept, Locked, Intact, Works, Working
  <2>2. Code = "whole" /\ Code' = "whole"
    BY <1>24, <2>1 DEF WriteMarker
  <2>3. Copied' = Copied
    BY <1>24 DEF WriteMarker
  <2> QED
    BY <1>24, <2>1, <2>2, <2>3
       DEF AbstractStep, WriteMarker, Write, LifeCycle!Next, LifeCycle!Mark
<1>25. ASSUME NEW r \in Request, Commit(r)
      PROVE  AbstractStep
  BY <1>25 DEF AbstractStep, Commit, Intact, Works, Working, Kept, Locked,
     LifeCycle!Next, LifeCycle!BeginChange
<1>26. ASSUME NEW r \in Request, Committed(r)
      PROVE  AbstractStep
  BY <1>26 DEF AbstractStep, Committed, Intact, Works, Working, LifeCycle!Next,
     LifeCycle!EndChange
<1>27. ASSUME NEW r \in Request, CommitFail(r)
      PROVE  AbstractStep
  BY <1>27 DEF AbstractStep, CommitFail, Intact, Works, Working, LifeCycle!Next,
     LifeCycle!EndChange
<1>28. ASSUME NEW r \in Request, ClearMarker(r)
      PROVE  AbstractStep
  BY <1>28 DEF AbstractStep, ClearMarker, Clear, Intact, Works, Working,
     LifeCycle!Next, LifeCycle!Unmark
<1>29. ASSUME NEW r \in Request, ApplyOwnership(r)
      PROVE  AbstractStep
  BY <1>29 DEF AbstractStep, ApplyOwnership
<1>30. ASSUME NEW r \in Request, SetChangesApplied(r)
      PROVE  AbstractStep
  BY <1>30 DEF AbstractStep, SetChangesApplied
<1>31. ASSUME NEW r \in Request, PostApply(r)
      PROVE  AbstractStep
  BY <1>31 DEF AbstractStep, PostApply
<1>32. ASSUME NEW r \in Request, PostApplyRelease(r)
      PROVE  AbstractStep
  BY <1>32 DEF AbstractStep, PostApplyRelease
<1>33. ASSUME NEW r \in Request, NEW force \in BOOLEAN, Destroy(r, force)
      PROVE  AbstractStep
  <2>1. Code' = Code
    BY <1>33 DEF Destroy, Between
  <2>2. Copied' = Copied
    BY <1>33 DEF Destroy, Between
  <2> QED
    BY <1>33, <2>1, <2>2 DEF AbstractStep, Destroy, Between
<1>34. ASSUME NEW r \in Request, DeleteRoot(r)
      PROVE  AbstractStep
  <2>1. \A i \in Id : Exists(i)' <=> Exists(i)
    BY <1>34 DEF DeleteRoot, NoDir
  <2>2. Copied' = Copied
    BY <1>34, <2>1, SameCopy DEF DeleteRoot
  <2>3. Code' = Code
    BY <1>34 DEF DeleteRoot
  <2> QED
    BY <1>34, <2>2, <2>3 DEF AbstractStep, DeleteRoot
<1>35. ASSUME NEW r \in Request, RootDeleted(r)
      PROVE  AbstractStep
  <2>1. \A i \in Id : Exists(i)' => Exists(i)
    BY <1>35 DEF RootDeleted, NoDir
  <2>2. Copied' => Copied
    BY <1>35, <2>1, LessCopy DEF RootDeleted
  <2>3. Code' = Code /\ Code # "changing"
    BY <1>35 DEF RootDeleted
  <2>4. Copied \in BOOLEAN /\ Copied' \in BOOLEAN
    BY DEF Copied
  <2>5. UNCHANGED <<lock, marker>>
    BY <1>35 DEF RootDeleted
  <2> HIDE DEF Copied, Code
  <2> QED
    BY <2>2, <2>3, <2>4, <2>5
       DEF AbstractStep, LifeCycle!Next, LifeCycle!Discard
<1>36. ASSUME NEW r \in Request, StoreDestroyInfo(r)
      PROVE  AbstractStep
  BY <1>36 DEF AbstractStep, StoreDestroyInfo
<1>37. ASSUME NEW r \in Request, PostDestroy(r)
      PROVE  AbstractStep
  BY <1>37 DEF AbstractStep, PostDestroy, DeleteHash
<1>38. CASE Tick
  BY <1>38 DEF AbstractStep, Tick
<1>39. CASE ExternalComposer
  BY <1>39 DEF AbstractStep, ExternalComposer
<1>40. CASE Expire
  BY <1>40 DEF AbstractStep, Expire, Quiet, LifeCycle!Next, LifeCycle!Release
<1>41. CASE RestoreBackup
  BY <1>41 DEF AbstractStep, RestoreBackup, Clear, Quiet, LifeCycle!Next, LifeCycle!Restore
<1>42. CASE UNCHANGED vars
  BY <1>42 DEF AbstractStep, vars
<1> HIDE DEF TypeOK, Control, OneRequest, At, Goto, GotoOneOf, Copied, Code,
             Exists, Holding, Dir, LifeCycle!vars, tempstore, hashes, files, request, history
<1> QED
  BY <1>1, <1>2, <1>3, <1>4, <1>5, <1>6, <1>7, <1>8, <1>9, <1>10, <1>11,
     <1>12, <1>13, <1>14, <1>15, <1>16, <1>17, <1>18, <1>19, <1>20, <1>21,
     <1>22, <1>23, <1>24, <1>25, <1>26, <1>27, <1>28, <1>29, <1>30, <1>31,
     <1>32, <1>33, <1>34, <1>35, <1>36, <1>37, <1>38, <1>39, <1>40, <1>41,
     <1>42
     DEF Next, Environment, Work, CreateStep, RequireStep, ApplyStep,
         DestroyStep

-----------------------------------------------------------------------------

(***************************************************************************)
(* The life cycle of a stage, as five PHP methods and their error handlers *)
(* implement it (Stage.php), is the abstract one: one holder, changes from *)
(* the holder's copy only, under the marker.                               *)
(***************************************************************************)
THEOREM StageImplementsLifeCycle == OneRequest => (Spec => ImplementsLifeCycle)
<1> SUFFICES ASSUME OneRequest PROVE Spec => LifeCycle!Spec
  BY DEF ImplementsLifeCycle
<1>1. Init => LifeCycle!Init
  BY DEF Init, LifeCycle!Init, MarkerInit, Copied, Code, At
<1>2. Init => Kept
  BY DEF Init, Kept, Locked, Exists, NoDir
<1>3. SerialInv /\ Kept /\ [Next]_vars => Kept'
  BY StepKept
<1>4. SerialInv /\ Kept /\ [Next]_vars => [LifeCycle!Next]_(LifeCycle!vars)
  BY StepRefines DEF AbstractStep
<1>5. Spec => []SerialInv
  BY SerialInvariant
<1> QED
  BY <1>1, <1>2, <1>3, <1>4, <1>5, PTL DEF Spec, LifeCycle!Spec

(***************************************************************************)
(* What the life cycle promises, it promises of the code: a copy belongs   *)
(* to the lock, a commit reads from a directory, and the marker is on disk *)
(* during a commit and after a failed one.                                 *)
(***************************************************************************)
THEOREM PromiseKept == OneRequest => (Spec => []LifeCycle!Promise)
<1> SUFFICES ASSUME OneRequest PROVE Spec => []LifeCycle!Promise
  OBVIOUS
<1>1. LifeCycle!Init => LifeCycle!Promise
  BY DEF LifeCycle!Init, LifeCycle!Promise
<1>2. LifeCycle!Promise /\ [LifeCycle!Next]_(LifeCycle!vars)
        => LifeCycle!Promise'
  BY DEF LifeCycle!Promise, LifeCycle!Next, LifeCycle!vars,
         LifeCycle!Reserve, LifeCycle!Copy, LifeCycle!Discard,
         LifeCycle!Release, LifeCycle!Mark, LifeCycle!Unmark,
         LifeCycle!BeginChange, LifeCycle!EndChange, LifeCycle!Restore
<1>3. LifeCycle!Spec => []LifeCycle!Promise
  BY <1>1, <1>2, PTL DEF LifeCycle!Spec
<1>4. Spec => LifeCycle!Spec
  BY StageImplementsLifeCycle DEF ImplementsLifeCycle
<1> QED
  BY <1>3, <1>4, PTL

=============================================================================
