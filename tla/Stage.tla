-------------------------------- MODULE Stage --------------------------------
(***************************************************************************)
(* package_manager/src/Stage.php: the stage life cycle (create, require,   *)
(* apply, postApply, destroy), as the PHP requests that call it see it.    *)
(*                                                                         *)
(* A request is a slot of Request: StartRequest gives it an actor and a    *)
(* request time, and it then calls the methods of one Stage object, whose  *)
(* $lock property is held[r].  The shared state is the one tempstore       *)
(* collection of the site (package_manager_stage), the LockFileValidator's *)
(* hash, the failure marker, the active directory and the stage root       *)
(* directory.  Every write to shared state is a step of its own;           *)
(* consecutive reads of one call are one step; a long-running operation    *)
(* (copy, composer, commit, recursive deletion) is a step that begins it   *)
(* and one that ends it.  A request may die between any two steps.         *)
(***************************************************************************)
EXTENDS Integers, FiniteSets, FailureMarker, LockFileValidator

CONSTANTS Request,         \* slots for requests that run at the same time
          Actor,           \* (user or session, Stage class) pairs
          Id,              \* the random stage IDs create() draws
          Window,          \* the 3600 seconds of isApplying(), in ticks
          MaxTime          \* bound on the clock

ASSUME ConstantsAssumption ==
  /\ None \notin Id \cup Actor \cup Nat \cup [id : Id, actor : Actor]
  /\ Window \in Nat \ {0}
  /\ MaxTime \in Nat

VARIABLES
  \* The tempstore keys, None when absent.
  lock,                    \* TEMPSTORE_LOCK_KEY: the ID and the owner
  metadata,                \* TEMPSTORE_METADATA_KEY: the keys set in it
  applyTime,               \* TEMPSTORE_APPLY_TIME_KEY
  destroyed,               \* TEMPSTORE_DESTROYED_STAGES_INFO_PREFIX . id
  \* The file system.
  dir,                     \* the stage directory of each ID
  broken,                  \* a commit into the active directory was cut short
  \* The requests.
  pc, actor, start, held,
  arg,                     \* the argument of the call: create()'s new $id,
                           \* destroy()'s $force
  clock,
  \* History, read by the properties and by the callers' choice of an ID.
  creator,                 \* the actor whose create() drew an ID
  returned,                \* IDs that create() has returned
  baseline,                \* activeHash when the PreCreate event of an ID ran
  orphans                  \* directories whose lock expired or whose
                           \* deletion failed

tempstore == <<lock, metadata, applyTime, destroyed>>
hashes    == <<activeHash, lockHash>>
files     == <<dir, broken, marker>>
request   == <<actor, start>>
history   == <<creator, returned, baseline, orphans>>
vars == <<lock, metadata, applyTime, destroyed, activeHash, lockHash, dir,
          broken, marker, pc, actor, start, held, arg, clock, creator,
          returned, baseline, orphans>>

Time == 0 .. MaxTime
Lock == [id : Id, actor : Actor]
Message == {"applied", "forced", "canceled"}
DirState == {"absent", "copying", "staging", "whole", "removing"}
Dir == [state : DirState, hash : MaybeHash]

\* Where a request that is between two calls stands: may it go on working?
Between == {"ready", "create_failed", "failed", "applied"}
PC == Between \cup
  {"idle", "create_lock", "create_claim", "create_pre", "create_undo",
   "create_unlock", "create_copy", "creating", "require_stage", "requiring",
   "apply_time", "apply_pre", "apply_release", "apply_mark", "apply_commit",
   "applying", "apply_unmark", "apply_clear", "apply_own", "apply_meta",
   "post_apply", "destroy_delete", "destroying", "destroy_info",
   "destroy_undo", "destroy_unlock", "destroy_post"}

TypeOK ==
  /\ MarkerTypeOK
  /\ LockFileTypeOK
  /\ lock \in Lock \cup {None}
  /\ metadata \in SUBSET {"changes_applied"}
  /\ applyTime \in Time \cup {None}
  /\ destroyed \in [Id -> Message \cup {None}]
  /\ dir \in [Id -> Dir]
  /\ broken \in BOOLEAN
  /\ pc \in [Request -> PC]
  /\ actor \in [Request -> Actor \cup {None}]
  /\ start \in [Request -> Time]
  /\ held \in [Request -> Id \cup {None}]
  /\ arg \in [Request -> Id \cup BOOLEAN \cup {None}]
  /\ clock \in Time
  /\ creator \in [Id -> Actor \cup {None}]
  /\ returned \in SUBSET Id
  /\ baseline \in [Id -> MaybeHash]
  /\ orphans \in SUBSET Id

NoDir == [state |-> "absent", hash |-> None]

Init ==
  /\ MarkerInit
  /\ LockFileInit
  /\ lock = None
  /\ metadata = {}
  /\ applyTime = None
  /\ destroyed = [i \in Id |-> None]
  /\ dir = [i \in Id |-> NoDir]
  /\ broken = FALSE
  /\ pc = [r \in Request |-> "idle"]
  /\ actor = [r \in Request |-> None]
  /\ start = [r \in Request |-> 0]
  /\ held = [r \in Request |-> None]
  /\ arg = [r \in Request |-> None]
  /\ clock = 0
  /\ creator = [i \in Id |-> None]
  /\ returned = {}
  /\ baseline = [i \in Id |-> None]
  /\ orphans = {}

-----------------------------------------------------------------------------
(* Reads of the shared state. *)

IsAvailable == lock = None

\* Mutant of Stores: get() in place of getIfOwner(), any actor matches.
StoresForAnyone(r, i) == lock # None /\ lock.id = i

\* getIfOwner() compares the user, the comparison that follows it in claim()
\* and in checkOwnership() the ID and the class: both say "not yours".
Stores(r, i) == lock = [id |-> i, actor |-> actor[r]]

\* Mutant of CanClaim: claim() does not look for the failure marker.
CanClaimUnmarked(r, i) == Stores(r, i)

CanClaim(r, i) == AssertNotExists /\ Stores(r, i)

CheckOwnership(r) == held[r] # None /\ Stores(r, held[r])

\* Mutant of IsApplying: no hour, the flag alone.
IsApplyingForever(r) == applyTime # None

IsApplying(r) == applyTime # None /\ start[r] - applyTime < Window

Exists(i) == dir[i].state # "absent"

\* Crypt::randomBytesBase64() never repeats an ID.
Fresh(i) == creator[i] = None

-----------------------------------------------------------------------------
(* Control of a request. *)

At(r, label) == pc[r] = label
Goto(r, label) == pc' = [pc EXCEPT ![r] = label]
GotoOneOf(r, labels) == \E l \in labels : Goto(r, l)

StartRequest(r) ==
  /\ At(r, "idle")
  /\ Goto(r, "ready")
  /\ \E a \in Actor : actor' = [actor EXCEPT ![r] = a]
  /\ start' = [start EXCEPT ![r] = clock]
  /\ UNCHANGED <<tempstore, hashes, files, held, arg, clock, history>>

\* The Stage object goes away with the request.
Forget(r) ==
  /\ Goto(r, "idle")
  /\ held' = [held EXCEPT ![r] = None]
  /\ arg' = [arg EXCEPT ![r] = None]
  /\ actor' = [actor EXCEPT ![r] = None]
  /\ start' = [start EXCEPT ![r] = 0]

EndRequest(r) ==
  /\ pc[r] \in Between
  /\ Forget(r)
  /\ UNCHANGED <<tempstore, hashes, files, clock, history>>

\* The PHP process is killed: a time limit, a fatal error, a reboot.
Crash(r) ==
  /\ pc[r] \notin Between \cup {"idle"}
  /\ broken' = (broken \/ At(r, "applying"))
  /\ Forget(r)
  /\ UNCHANGED <<tempstore, hashes, dir, marker, clock, history>>

-----------------------------------------------------------------------------
(* create() *)

\* Mutant of Create: isAvailable() is not called.
CreateTaken(r) ==
  /\ At(r, "ready")
  /\ AssertNotExists
  /\ \E i \in Id :
       /\ Fresh(i)
       /\ arg' = [arg EXCEPT ![r] = i]
       /\ creator' = [creator EXCEPT ![i] = actor[r]]
  /\ Goto(r, "create_lock")
  /\ UNCHANGED <<tempstore, hashes, files, request, held, clock, returned,
                 baseline, orphans>>

\* The marker and the lock are read, and the ID is drawn.
Create(r) ==
  /\ At(r, "ready")
  /\ AssertNotExists
  /\ IsAvailable
  /\ \E i \in Id :
       /\ Fresh(i)
       /\ arg' = [arg EXCEPT ![r] = i]
       /\ creator' = [creator EXCEPT ![i] = actor[r]]
  /\ Goto(r, "create_lock")
  /\ UNCHANGED <<tempstore, hashes, files, request, held, clock, returned,
                 baseline, orphans>>

\* The lock is written without another look at it.
CreateLock(r) ==
  /\ At(r, "create_lock")
  /\ lock' = [id |-> arg[r], actor |-> actor[r]]
  /\ Goto(r, "create_claim")
  /\ UNCHANGED <<metadata, applyTime, destroyed, hashes, files, request, held,
                 arg, clock, history>>

CreateClaim(r) ==
  /\ At(r, "create_claim")
  /\ IF CanClaim(r, arg[r])
     THEN /\ held' = [held EXCEPT ![r] = arg[r]]
          /\ Goto(r, "create_pre")
     ELSE /\ Goto(r, "create_failed")
          /\ UNCHANGED held
  /\ arg' = [arg EXCEPT ![r] = None]
  /\ UNCHANGED <<tempstore, hashes, files, request, clock, history>>

\* A CollectIgnoredPathsEvent subscriber throws: nobody undoes the lock.
CreatePathsFail(r) ==
  /\ At(r, "create_pre")
  /\ Goto(r, "create_failed")
  /\ UNCHANGED <<tempstore, hashes, files, request, held, arg, clock, history>>

\* dispatch(PreCreateEvent) with markAsAvailable() as its error callback.
PreCreate(r) ==
  /\ At(r, "create_pre")
  /\ StoreHash
  /\ baseline' = [baseline EXCEPT ![held[r]] = activeHash]
  /\ GotoOneOf(r, {"create_copy", "create_undo"})
  /\ UNCHANGED <<tempstore, activeHash, files, request, held, arg, clock,
                 creator, returned, orphans>>

\* A subscriber threw before storeHash() ran, or composer.lock is unreadable.
PreCreateFail(r) ==
  /\ At(r, "create_pre")
  /\ Goto(r, "create_undo")
  /\ UNCHANGED <<tempstore, hashes, files, request, held, arg, clock, history>>

\* The beginner checks its preconditions and starts to copy.
CreateCopy(r) ==
  /\ At(r, "create_copy")
  /\ \/ /\ dir' = [dir EXCEPT ![held[r]] = [state |-> "copying", hash |-> None]]
        /\ Goto(r, "creating")
     \/ /\ Goto(r, "create_failed")
        /\ UNCHANGED dir
  /\ UNCHANGED <<tempstore, hashes, broken, marker, request, held, arg, clock,
                 history>>

\* The copy is complete (unless the directory was deleted under it), and the
\* PostCreateEvent passes, or throws.
CreateCopied(r) ==
  /\ At(r, "creating")
  /\ dir[held[r]].state = "copying"
  /\ dir' = [dir EXCEPT ![held[r]] = [state |-> "whole", hash |-> activeHash]]
  /\ \/ /\ returned' = returned \cup {held[r]}
        /\ Goto(r, "ready")
     \/ /\ Goto(r, "create_failed")
        /\ UNCHANGED returned
  /\ UNCHANGED <<tempstore, hashes, broken, marker, request, held, arg, clock,
                 creator, baseline, orphans>>

\* Mutant of CreateCopyFail: a failed copy marks the stage as available.
CreateCopyFailUnlocks(r) ==
  /\ At(r, "creating")
  /\ Goto(r, "create_undo")
  /\ UNCHANGED <<tempstore, hashes, files, request, held, arg, clock, history>>

\* The beginner throws: no space, a time limit, files that vanished.  It may
\* have gone on writing into a directory that was deleted under it.
CreateCopyFail(r) ==
  /\ At(r, "creating")
  /\ \/ UNCHANGED dir
     \/ /\ dir[held[r]].state # "copying"
        /\ dir' = [dir EXCEPT ![held[r]].state = "copying"]
  /\ Goto(r, "create_failed")
  /\ UNCHANGED <<tempstore, hashes, broken, marker, request, held, arg, clock,
                 history>>

-----------------------------------------------------------------------------
(* markAsAvailable(): after a PreCreateEvent error, and in destroy() *)

DeleteMetadata(r) ==
  /\ \/ At(r, "create_undo")  /\ Goto(r, "create_unlock")
     \/ At(r, "destroy_undo") /\ Goto(r, "destroy_unlock")
  /\ metadata' = {}
  /\ UNCHANGED <<lock, applyTime, destroyed, hashes, files, request, held, arg,
                 clock, history>>

\* Whatever lock is stored by now is deleted.
DeleteLock(r) ==
  /\ \/ At(r, "create_unlock")  /\ Goto(r, "create_failed")
     \/ At(r, "destroy_unlock") /\ Goto(r, "destroy_post")
  /\ lock' = None
  /\ held' = [held EXCEPT ![r] = None]
  /\ UNCHANGED <<metadata, applyTime, destroyed, hashes, files, request, arg,
                 clock, history>>

-----------------------------------------------------------------------------
(* claim(), require() *)

\* The caller has the ID from the create() that returned it: it is kept in
\* the session, in the URL of the confirmation form or of the cron subrequest.
Claim(r) ==
  /\ At(r, "ready")
  /\ \E i \in returned : CanClaim(r, i) /\ held' = [held EXCEPT ![r] = i]
  /\ UNCHANGED <<tempstore, hashes, files, pc, request, arg, clock, history>>

Require(r) ==
  /\ At(r, "ready")
  /\ CheckOwnership(r)
  /\ \/ ActiveUnchanged /\ Goto(r, "require_stage")
     \/ Goto(r, "failed")
  /\ UNCHANGED <<tempstore, hashes, files, request, held, arg, clock, history>>

\* The stager's precondition is that the directory exists.
RequireStage(r) ==
  /\ At(r, "require_stage")
  /\ \/ /\ Exists(held[r])
        /\ dir' = [dir EXCEPT ![held[r]].state = "staging"]
        /\ Goto(r, "requiring")
     \/ /\ Goto(r, "failed")
        /\ UNCHANGED dir
  /\ UNCHANGED <<tempstore, hashes, broken, marker, request, held, arg, clock,
                 history>>

\* All Composer commands ran, and the PostRequireEvent passes, or throws.
Required(r) ==
  /\ At(r, "requiring")
  /\ dir[held[r]].state = "staging"
  /\ \E h \in Hash :
       dir' = [dir EXCEPT ![held[r]] = [state |-> "whole", hash |-> h]]
  /\ GotoOneOf(r, {"ready", "failed"})
  /\ UNCHANGED <<tempstore, hashes, broken, marker, request, held, arg, clock,
                 history>>

\* A Composer command fails; composer.lock may have been written before.
RequireFail(r) ==
  /\ At(r, "requiring")
  /\ \/ UNCHANGED dir
     \/ /\ dir[held[r]].state = "staging"
        /\ \E h \in Hash : dir' = [dir EXCEPT ![held[r]].hash = h]
  /\ Goto(r, "failed")
  /\ UNCHANGED <<tempstore, hashes, broken, marker, request, held, arg, clock,
                 history>>

-----------------------------------------------------------------------------
(* apply(), postApply() *)

Apply(r) ==
  /\ At(r, "ready")
  /\ CheckOwnership(r)
  /\ Goto(r, "apply_time")
  /\ UNCHANGED <<tempstore, hashes, files, request, held, arg, clock, history>>

\* Mutant of SetApplyTime: the end of the hour is stored, not its beginning.
SetApplyDeadline(r) ==
  /\ At(r, "apply_time")
  /\ applyTime' = start[r] + Window
  /\ Goto(r, "apply_pre")
  /\ UNCHANGED <<lock, metadata, destroyed, hashes, files, request, held, arg,
                 clock, history>>

\* The REQUEST time is stored, however long the request has been running.
SetApplyTime(r) ==
  /\ At(r, "apply_time")
  /\ applyTime' = start[r]
  /\ Goto(r, "apply_pre")
  /\ UNCHANGED <<lock, metadata, destroyed, hashes, files, request, held, arg,
                 clock, history>>

\* dispatch(PreApplyEvent), with setNotApplying() as its error callback.
PreApply(r) ==
  /\ At(r, "apply_pre")
  /\ \/ PendingChanges(dir[held[r]].hash) /\ Goto(r, "apply_mark")
     \/ Goto(r, "apply_release")
  /\ UNCHANGED <<tempstore, hashes, files, request, held, arg, clock, history>>

\* setNotApplying()(), when PreApplyEvent or the commit failed.
ApplyRelease(r) ==
  /\ At(r, "apply_release")
  /\ applyTime' = None
  /\ Goto(r, "failed")
  /\ UNCHANGED <<lock, metadata, destroyed, hashes, files, request, held, arg,
                 clock, history>>

WriteMarker(r) ==
  /\ At(r, "apply_mark")
  /\ Write
  /\ Goto(r, "apply_commit")
  /\ UNCHANGED <<tempstore, hashes, dir, broken, request, held, arg, clock,
                 history>>

\* The committer checks its preconditions; from here to Committed the
\* active directory is a mixture of the old and the new code.
Commit(r) ==
  /\ At(r, "apply_commit")
  /\ \/ Exists(held[r]) /\ Goto(r, "applying")
     \/ Goto(r, "apply_unmark")
  /\ UNCHANGED <<tempstore, hashes, files, request, held, arg, clock, history>>

Committed(r) ==
  /\ At(r, "applying")
  /\ dir[held[r]].state \notin {"absent", "removing"}
  /\ activeHash' = dir[held[r]].hash
  /\ Goto(r, "apply_clear")
  /\ UNCHANGED <<tempstore, lockHash, files, request, held, arg, clock, history>>

\* Mutant of CommitFail: the marker is cleared for every kind of exception.
CommitFailUnmarks(r) ==
  /\ At(r, "applying")
  /\ activeHash' \in {activeHash, dir[held[r]].hash}
  /\ broken' = TRUE
  /\ Clear
  /\ Goto(r, "apply_release")
  /\ UNCHANGED <<tempstore, lockHash, dir, request, held, arg, clock, history>>

\* Any other Throwable: ApplyFailedException.  The marker stays.
CommitFail(r) ==
  /\ At(r, "applying")
  /\ activeHash' \in {activeHash, dir[held[r]].hash}
  /\ broken' = TRUE
  /\ Goto(r, "apply_release")
  /\ UNCHANGED <<tempstore, lockHash, dir, marker, request, held, arg, clock,
                 history>>

\* Mutant of ClearMarker: nothing is cleared when the commit did not start.
ClearMarkerLate(r) ==
  \/ /\ At(r, "apply_unmark")
     /\ Goto(r, "failed")
     /\ UNCHANGED <<tempstore, hashes, files, request, held, arg, clock,
                    history>>
  \/ /\ At(r, "apply_clear")
     /\ Goto(r, "apply_own")
     /\ Clear
     /\ UNCHANGED <<tempstore, hashes, dir, broken, request, held, arg, clock,
                    history>>

\* clear(): after a commit that did not start (PreconditionException or
\* InvalidArgumentException), and after one that succeeded.
ClearMarker(r) ==
  /\ \/ At(r, "apply_unmark") /\ Goto(r, "failed")
     \/ At(r, "apply_clear")  /\ Goto(r, "apply_own")
  /\ Clear
  /\ UNCHANGED <<tempstore, hashes, dir, broken, request, held, arg, clock,
                 history>>

\* setMetadata(TEMPSTORE_CHANGES_APPLIED): the ownership, then the write.
ApplyOwnership(r) ==
  /\ At(r, "apply_own")
  /\ Goto(r, IF CheckOwnership(r) THEN "apply_meta" ELSE "failed")
  /\ UNCHANGED <<tempstore, hashes, files, request, held, arg, clock, history>>

SetChangesApplied(r) ==
  /\ At(r, "apply_meta")
  /\ metadata' = metadata \cup {"changes_applied"}
  /\ Goto(r, "applied")
  /\ UNCHANGED <<lock, applyTime, destroyed, hashes, files, request, held, arg,
                 clock, history>>

\* A request that changed the code, or failed to, does not go on with other
\* operations of the life cycle: it runs postApply(), or destroys the stage.
PostApply(r) ==
  /\ pc[r] \in {"ready", "applied"}
  /\ CheckOwnership(r)
  /\ Goto(r, "post_apply")
  /\ UNCHANGED <<tempstore, hashes, files, request, held, arg, clock, history>>

\* setNotApplying()() runs whether or not PostApplyEvent subscribers throw.
PostApplyRelease(r) ==
  /\ At(r, "post_apply")
  /\ applyTime' = None
  /\ Goto(r, "applied")
  /\ UNCHANGED <<lock, metadata, destroyed, hashes, files, request, held, arg,
                 clock, history>>

-----------------------------------------------------------------------------
(* destroy() *)

\* The ownership (unless forced) and isApplying() are read, and the
\* PreDestroyEvent passes, before anything is written.
Destroy(r, force) ==
  /\ pc[r] \in Between
  /\ force \/ CheckOwnership(r)
  /\ ~IsApplying(r)
  /\ Goto(r, "destroy_delete")
  /\ arg' = [arg EXCEPT ![r] = force]
  /\ UNCHANGED <<tempstore, hashes, files, request, held, clock, history>>

\* deleteRecursive() takes the whole stage root directory, every stage in it.
DeleteRoot(r) ==
  /\ At(r, "destroy_delete")
  /\ dir' = [i \in Id |-> IF Exists(i) THEN [dir[i] EXCEPT !.state = "removing"]
                                       ELSE NoDir]
  /\ Goto(r, "destroying")
  /\ UNCHANGED <<tempstore, hashes, broken, marker, request, held, arg, clock,
                 history>>

\* What is left over, if anything, raised a FileException that is swallowed,
\* or was written after the deletion had begun.
RootDeleted(r) ==
  /\ At(r, "destroying")
  /\ \E kept \in SUBSET {i \in Id : Exists(i)} :
       /\ dir' = [i \in Id |-> IF i \in kept THEN dir[i] ELSE NoDir]
       /\ orphans' = {i \in kept : i \in orphans \/ dir[i].state = "removing"}
  /\ Goto(r, "destroy_info")
  /\ UNCHANGED <<tempstore, hashes, broken, marker, request, held, arg, clock,
                 creator, returned, baseline>>

\* storeDestroyInfo() looks for "changes_applied" among the tempstore's own
\* keys, where no code puts it: setMetadata() puts it inside "metadata".
ChangesAppliedKey == FALSE

DestroyMessage(force) ==
  IF ChangesAppliedKey THEN "applied"
  ELSE IF force THEN "forced" ELSE "canceled"

\* The message goes to the ID in the lock that is stored by now, if any.
StoreDestroyInfo(r) ==
  /\ At(r, "destroy_info")
  /\ destroyed' = [i \in Id |-> IF lock # None /\ lock.id = i
                                THEN DestroyMessage(arg[r]) ELSE destroyed[i]]
  /\ Goto(r, "destroy_undo")
  /\ UNCHANGED <<lock, metadata, applyTime, hashes, files, request, held, arg,
                 clock, history>>

\* dispatch(PostDestroyEvent): LockFileValidator::deleteHash().
PostDestroy(r) ==
  /\ At(r, "destroy_post")
  /\ DeleteHash
  /\ arg' = [arg EXCEPT ![r] = None]
  /\ Goto(r, "ready")
  /\ UNCHANGED <<tempstore, activeHash, files, request, held, clock, history>>

-----------------------------------------------------------------------------
(* The environment. *)

Tick ==
  /\ clock < MaxTime
  /\ clock' = clock + 1
  /\ UNCHANGED <<tempstore, hashes, files, pc, request, held, arg, history>>

\* Composer, a deployment or a person changes the active composer.lock.
ExternalComposer ==
  /\ activeHash' \in MaybeHash \ {activeHash}
  /\ UNCHANGED <<tempstore, lockHash, files, pc, request, held, arg, clock,
                 history>>

Quiet == \A r \in Request : At(r, "idle")

\* A shared tempstore entry expires a week after it was last written.
Expire ==
  /\ Quiet
  /\ \/ /\ lock # None
        /\ lock' = None
        /\ orphans' = orphans \cup {i \in {lock.id} : Exists(i)}
        /\ UNCHANGED <<metadata, applyTime>>
     \/ metadata # {} /\ metadata' = {} /\ UNCHANGED <<lock, applyTime, orphans>>
     \/ /\ applyTime # None
        /\ applyTime' = None
        /\ UNCHANGED <<lock, metadata, orphans>>
  /\ UNCHANGED <<destroyed, hashes, files, pc, request, held, arg, clock,
                 creator, returned, baseline>>

\* What the failure marker's message asks for: the code is restored from a
\* backup, and the database too if it was backed up (before the stage was).
RestoreBackup ==
  /\ Quiet
  /\ marker
  /\ Clear
  /\ broken' = FALSE
  /\ activeHash' \in Hash
  /\ \/ UNCHANGED <<lock, metadata, applyTime, lockHash, orphans>>
     \/ /\ lock' = None
        /\ metadata' = {}
        /\ applyTime' = None
        /\ lockHash' = None
        /\ orphans' = {i \in Id : Exists(i)}
  /\ UNCHANGED <<destroyed, dir, pc, request, held, arg, clock, creator,
                 returned, baseline>>

-----------------------------------------------------------------------------

CreateStep(r) ==
  \/ Create(r) \/ CreateLock(r) \/ CreateClaim(r) \/ CreatePathsFail(r)
  \/ PreCreate(r) \/ PreCreateFail(r)
  \/ CreateCopy(r) \/ CreateCopied(r) \/ CreateCopyFail(r)

RequireStep(r) ==
  Require(r) \/ RequireStage(r) \/ Required(r) \/ RequireFail(r)

ApplyStep(r) ==
  \/ Apply(r) \/ SetApplyTime(r) \/ PreApply(r) \/ ApplyRelease(r)
  \/ WriteMarker(r) \/ Commit(r) \/ Committed(r) \/ CommitFail(r)
  \/ ClearMarker(r) \/ ApplyOwnership(r) \/ SetChangesApplied(r)
  \/ PostApply(r) \/ PostApplyRelease(r)

DestroyStep(r) ==
  \/ \E force \in BOOLEAN : Destroy(r, force)
  \/ DeleteRoot(r) \/ RootDeleted(r) \/ StoreDestroyInfo(r)
  \/ DeleteMetadata(r) \/ DeleteLock(r) \/ PostDestroy(r)

Work(r) ==
  \/ StartRequest(r) \/ EndRequest(r) \/ Claim(r)
  \/ CreateStep(r) \/ RequireStep(r) \/ ApplyStep(r) \/ DestroyStep(r)

Environment == Tick \/ ExternalComposer \/ Expire \/ RestoreBackup

Next == Environment \/ \E r \in Request : Work(r) \/ Crash(r)

Spec == Init /\ [][Next]_vars

-----------------------------------------------------------------------------
(* Properties. *)

(***************************************************************************)
(* While the active code base is a mixture, because a commit is running or *)
(* was cut short by an error or a crash, the failure marker is on disk:    *)
(* the next claim() or create() knows (FailureMarker.php, "This allows us  *)
(* to know if a commit operation failed midway through").                  *)
(***************************************************************************)
HalfCommittedIsMarked ==
  broken \/ (\E r \in Request : At(r, "applying")) => marker

(***************************************************************************)
(* The marker cries wolf to nobody: a request that holds a stage and is    *)
(* still alive between two calls, after a commit that did not start as     *)
(* after one that succeeded, finds the marker only if the code is half     *)
(* committed (Stage.php:503-507, "we can clear the failure marker").       *)
(***************************************************************************)
NoFalseAlarm ==
  \A r \in Request :
    pc[r] \in Between /\ held[r] # None /\ marker => broken

(***************************************************************************)
(* Once a commit was cut short, and until the site is restored, no request *)
(* copies the active code into a stage, runs Composer in one, or commits   *)
(* one, whatever IDs and whatever lock the failed request left behind.     *)
(***************************************************************************)
Begins(r) == /\ pc[r] # pc'[r]
             /\ pc'[r] \in {"creating", "requiring", "applying"}

NoWorkOnBrokenCode == [][broken => \A r \in Request : ~Begins(r)]_vars

(***************************************************************************)
(* A stage passes PreApply only if the active composer.lock is what it was *)
(* when the PreCreateEvent of that very stage ran, although the site keeps *)
(* a single hash for all its stages (LockFileValidator).                   *)
(***************************************************************************)
ApplyOnBaseline ==
  [][\A r \in Request : At(r, "apply_pre") /\ pc'[r] = "apply_mark"
                          => activeHash = baseline[held[r]]]_vars

(***************************************************************************)
(* A directory in the stage root belongs to the stage that holds the lock, *)
(* unless its deletion failed or its lock expired: no sequence of errors,  *)
(* crashes and forced destructions leaves another one behind.              *)
(***************************************************************************)
DirectoryIsLocked ==
  \A i \in Id : Exists(i) => i \in orphans \/ (lock # None /\ lock.id = i)

(***************************************************************************)
(* Whoever works on a stage is the user or session that created it, using  *)
(* the class that created it (Stage::claim(), Stage::checkOwnership()).    *)
(***************************************************************************)
OwnerOnly == \A r \in Request : held[r] # None => creator[held[r]] = actor[r]

-----------------------------------------------------------------------------
(* What the documentation says, and requests that overlap refute. *)

(***************************************************************************)
(* "Only one stage directory can exist at any given time" (Stage.php:51),  *)
(* what is left of failed deletions and expired locks aside.               *)
(***************************************************************************)
OneStageDirectory ==
  \A i, j \in Id \ orphans : Exists(i) /\ Exists(j) => i = j

(***************************************************************************)
(* A stage directory is not deleted while it is being applied to the       *)
(* active directory, for an hour after the request that applies it began   *)
(* (Stage.php:565 and the exception thrown by destroy()).                  *)
(***************************************************************************)
NotDeletedWhileApplied ==
  \A r \in Request :
    At(r, "applying") /\ clock - start[r] < Window
      => dir[held[r]].state \notin {"absent", "removing"}
=============================================================================
