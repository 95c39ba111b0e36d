--------------------------- MODULE AutomaticUpdates ---------------------------
(***************************************************************************)
(* automatic_updates: who drives the one stage of the site.  Cron runs a   *)
(* whole update in one request and its post-apply tasks in a subrequest    *)
(* (CronUpdater); an administrator runs it as two batches of requests with *)
(* a page in between (UpdaterForm, BatchProcessor, UpdateReady), which     *)
(* also turn maintenance mode on and off.                                  *)
(*                                                                         *)
(* A call of a Stage method is one step here (Stage.tla has its steps),    *)
(* except for begin(), which writes the metadata before it calls create(). *)
(* Between two calls anything may happen, and a request may end.           *)
(***************************************************************************)
EXTENDS FiniteSets

CONSTANTS User,            \* sessions of administrators
          Cron,            \* the unattended updater
          Id,              \* bound: stage IDs; one is drawn again when nobody
                           \* knows it
          Version,         \* releases of Drupal core to update to
          Latest,          \* the one that the ReleaseChooser has for cron
          None

ASSUME ConstantsAssumption ==
  /\ Cron \notin User
  /\ Latest \in Version
  /\ None \notin Id \cup Version \cup User \cup {Cron}
  /\ Version \cap {"copy", "partial"} = {}

Actor == User \cup {Cron}

VARIABLES
  \* package_manager's tempstore and files.
  lock,                    \* the ID of the stage and the actor that owns it
  packages,                \* the metadata key "packages": a version
  stage,                   \* what the stage directory holds
  applying,                \* apply_time: absent, or less or more than an hour ago
  marker,                  \* the failure marker
  \* The site.
  secure,                  \* isInstalledVersionSafe()
  pending,                 \* database updates are pending
  maintenance,             \* system.maintenance_mode: "off", or on since an
                           \* administrator or an update turned it on
  \* The requests and sessions.
  pc,                      \* what an actor does next
  arg,                     \* ... and with which version or stage ID
  held,                    \* the $lock of the CronUpdater object
  page,                    \* the form a user has open, or the ID of the
                           \* confirmation form
  session,                 \* STAGE_ID_SESSION_KEY
  key,                     \* MAINTENANCE_MODE_SESSION_KEY
  \* History, read by the properties only.
  asked,                   \* the version its begin() was called with, of the
                           \* stage that is locked
  overwritten,             \* begin() changed the metadata of another's stage
  leftBehind,              \* a request of cron ended and could not clean up
  before                   \* the mode when a user confirmed the update, unless
                           \* it was changed from outside since

store   == <<lock, packages, stage, applying, marker>>
site    == <<secure, pending>>
browser == <<page, session>>
modes   == <<maintenance, key, before>>
ghosts  == <<asked, overwritten>>
vars == <<lock, packages, stage, applying, marker, secure, pending,
          maintenance, pc, arg, held, page, session, key, asked, overwritten,
          leftBehind, before>>

PC == {"idle", "begin", "create", "stage", "apply", "post_apply", "clean",
       "forced_destroy", "finish", "update_php"}

TypeOK ==
  /\ lock \in [id : Id, owner : Actor] \cup {None}
  /\ packages \in Version \cup {None}
  /\ stage \in Version \cup {None, "copy", "partial"}
  /\ applying \in {"no", "recent", "old"}
  /\ {marker, secure, pending} \subseteq BOOLEAN
  /\ maintenance \in {"off", "administrator", "update"}
  /\ pc \in [Actor -> PC]
  /\ arg \in [Actor -> Version \cup Id \cup {None}]
  /\ held \in Id \cup {None}
  /\ page \in [User -> Id \cup {"none", "offer", "taken"}]
  /\ session \in [User -> Id \cup {None}]
  /\ key \in [User -> BOOLEAN \cup {None}]
  /\ asked \in Version \cup {None}
  /\ {overwritten, leftBehind} \subseteq BOOLEAN
  /\ before \in [User -> BOOLEAN \cup {None}]

Init ==
  /\ lock = None /\ packages = None /\ stage = None
  /\ applying = "no" /\ marker = FALSE
  /\ secure \in BOOLEAN /\ pending = FALSE
  /\ maintenance = "off"
  /\ pc = [a \in Actor |-> "idle"]
  /\ arg = [a \in Actor |-> None]
  /\ held = None
  /\ page = [u \in User |-> "none"]
  /\ session = [u \in User |-> None]
  /\ key = [u \in User |-> None]
  /\ asked = None
  /\ overwritten = FALSE /\ leftBehind = FALSE
  /\ before = [u \in User |-> None]

-----------------------------------------------------------------------------
(* package_manager, one call at a time. *)

IsAvailable == lock = None
IsApplying == applying = "recent"

\* Mutant of Claims: only the owner is compared, not the ID.
ClaimsByOwner(a, i) == ~marker /\ lock # None /\ lock.owner = a

\* claim(), for the requests of a user; Stage.tla has its parts.
Claims(a, i) ==
  ~marker /\ ~IsAvailable /\ i # None /\ lock = [id |-> i, owner |-> a]

\* checkOwnership() in the one request of cron, which claimed in create().
Owns == held # None /\ ~IsAvailable /\ lock = [id |-> held, owner |-> Cron]

\* The first batch takes the ID from the session, the second from the form.
MayWork(a) ==
  IF a = Cron THEN Owns
  ELSE Claims(a, IF pc[a] = "stage" THEN session[a] ELSE arg[a])

\* markAsAvailable() at the end of destroy(); apply_time stays what it is.
Release ==
  /\ lock' = None /\ packages' = None /\ stage' = None
  /\ asked' = None
  /\ overwritten' = (overwritten /\ \E a \in Actor : pc[a] = "create")
  /\ leftBehind' = FALSE

InMaintenance == maintenance # "off"

\* create() draws an ID that nobody knows; which one makes no difference.
Known == {page[u] : u \in User} \cup {session[u] : u \in User}
           \cup {arg[a] : a \in Actor} \cup {held}
           \cup {i \in Id : lock # None /\ lock.id = i}

HasNewId == Id \ Known # {}
NewId == CHOOSE i \in Id \ Known : TRUE

Goto(a, step) == pc' = [pc EXCEPT ![a] = step]

\* A request ends and its object with it.
Done(a) == /\ Goto(a, "idle")
           /\ arg' = [arg EXCEPT ![a] = None]
           /\ held' = IF a = Cron THEN None ELSE held

\* Mutant of Fail: performUpdate() only logs what went wrong.
FailUncleaned(a) == Done(a) /\ session' = session

\* An exception: performUpdate() catches it and cleans up; a batch ends in its
\* finish callback, of which only finishCommit() forgets the stage ID.
Fail(a) ==
  \/ /\ a = Cron
     /\ Goto(a, "clean")
     /\ UNCHANGED <<arg, held, session>>
  \/ /\ a \in User
     /\ Done(a)
     /\ session' = IF pc[a] \in {"apply", "post_apply", "clean"}
                   THEN [session EXCEPT ![a] = None] ELSE session

-----------------------------------------------------------------------------
(* Updater::begin(): metadata first, then create(). *)

\* Mutant of BeginMetadata: what an earlier begin() left is kept.
BeginMetadataOnce(a) ==
  /\ pc[a] = "begin"
  /\ packages' = IF packages = None THEN arg[a] ELSE packages
  /\ overwritten' = (lock # None \/ \E b \in Actor \ {a} : pc[b] = "create")
  /\ Goto(a, "create")
  /\ UNCHANGED <<lock, stage, applying, marker, asked, arg, held, leftBehind>>
  /\ UNCHANGED <<site, browser, modes>>

BeginMetadata(a) ==
  /\ pc[a] = "begin"
  /\ packages' = arg[a]
  /\ overwritten' = (lock # None \/ \E b \in Actor \ {a} : pc[b] = "create")
  /\ Goto(a, "create")
  /\ UNCHANGED <<lock, stage, applying, marker, asked, arg, held, leftBehind>>
  /\ UNCHANGED <<site, browser, modes>>

\* The marker is there, or somebody else was faster.
CreateRefused(a) ==
  /\ pc[a] = "create"
  /\ marker \/ ~IsAvailable
  /\ Fail(a)
  /\ UNCHANGED <<store, site, page, modes, ghosts, leftBehind>>

\* The lock is written, the object holds the stage, the code is copied.
Created(a) ==
  /\ pc[a] = "create"
  /\ ~marker /\ IsAvailable /\ HasNewId
  /\ lock' = [id |-> NewId, owner |-> a]
  /\ asked' = arg[a]
  /\ held' = IF a = Cron THEN NewId ELSE held
  /\ session' = IF a = Cron THEN session ELSE [session EXCEPT ![a] = NewId]
  /\ arg' = [arg EXCEPT ![a] = None]
  /\ stage' = "copy"
  /\ Goto(a, "stage")
  /\ UNCHANGED <<packages, applying, marker, overwritten, leftBehind, site, page,
                 modes>>

\* A PreCreate error makes the site available again.
PreCreateFails(a) ==
  /\ pc[a] = "create"
  /\ ~marker /\ IsAvailable
  /\ packages' = None
  /\ Fail(a)
  /\ UNCHANGED <<lock, stage, applying, marker, site, page, modes, ghosts,
                 leftBehind>>

\* Any other error of create() leaves the stage locked. Cron's object holds it;
\* a user's session has not got its ID.
CreateBreaks(a) ==
  /\ pc[a] = "create"
  /\ ~marker /\ IsAvailable /\ HasNewId
  /\ lock' = [id |-> NewId, owner |-> a]
  /\ asked' = arg[a]
  /\ IF a = Cron THEN Goto(a, "clean") /\ held' = NewId /\ UNCHANGED arg
     ELSE Done(a)
  /\ stage' = "partial"
  /\ UNCHANGED <<packages, applying, marker, overwritten, leftBehind, site,
                 browser, modes>>

-----------------------------------------------------------------------------
(* Updater::stage(). *)

\* The batch of a user goes on to the confirmation form.
Staged(a) ==
  /\ pc[a] = "stage"
  /\ MayWork(a)
  /\ packages # None
  /\ stage' = packages
  /\ IF a = Cron
     THEN Goto(a, "apply") /\ UNCHANGED <<arg, held, page>>
     ELSE Done(a) /\ page' = [page EXCEPT ![a] = session[a]]
  /\ UNCHANGED <<lock, packages, applying, marker, session, leftBehind>>
  /\ UNCHANGED <<site, modes, ghosts>>

\* The metadata is gone, a validator objects or Composer fails. The batch of a
\* user destroys the stage at once, if the PreDestroy event lets it.
StageFails(a) ==
  /\ pc[a] = "stage"
  /\ MayWork(a)
  /\ stage' \in {stage, "partial"}
  /\ Fail(a)
  /\ UNCHANGED <<lock, packages, applying, marker, page, leftBehind>>
  /\ UNCHANGED <<site, modes, ghosts>>

StageFailsCleaned(u) ==
  /\ pc[u] = "stage"
  /\ MayWork(u)
  /\ ~IsApplying
  /\ Release
  /\ Fail(u)
  /\ UNCHANGED <<applying, marker, page, site, modes>>

\* The stage was destroyed, is another's by now, or the marker is there.
NotMine(a) ==
  /\ pc[a] \in {"stage", "apply", "post_apply"}
  /\ ~MayWork(a)
  /\ Fail(a)
  /\ UNCHANGED <<store, site, page, modes, ghosts, leftBehind>>

-----------------------------------------------------------------------------
(* Stage::apply(). *)

\* Validators require changes in the stage directory, and a directory.
MayCommit(a) ==
  /\ pc[a] = "apply"
  /\ MayWork(a)
  /\ stage \in Version \cup {"partial"}

\* The latest release is secure; about others nothing is known.
Committed(a) ==
  /\ MayCommit(a)
  /\ applying' = "recent"
  /\ marker' = FALSE
  /\ secure' \in IF stage = Latest THEN {TRUE} ELSE BOOLEAN
  /\ pending' \in {pending, TRUE}
  /\ Goto(a, "post_apply")
  /\ UNCHANGED <<lock, packages, stage, arg, held, leftBehind>>
  /\ UNCHANGED <<browser, modes, ghosts>>

\* Nothing was committed, and apply_time goes unless the committer refused.
ApplyFails(a) ==
  /\ pc[a] = "apply"
  /\ MayWork(a)
  /\ \/ applying' = "no"
     \/ MayCommit(a) /\ applying' = "recent"
  /\ Fail(a)
  /\ UNCHANGED <<lock, packages, stage, marker, page, leftBehind>>
  /\ UNCHANGED <<site, modes, ghosts>>

\* The commit is cut short by an error, which keeps the request going, or by
\* its death.
CommitFails(a) ==
  /\ MayCommit(a)
  /\ marker' = TRUE
  /\ \/ applying' = "no" /\ Fail(a) /\ UNCHANGED leftBehind
     \/ /\ applying' = "recent"
        /\ Done(a)
        /\ leftBehind' = (leftBehind \/ a = Cron)
        /\ UNCHANGED session
  /\ UNCHANGED <<lock, packages, stage, page, site, modes, ghosts>>

-----------------------------------------------------------------------------
(* CronUpdater: one request, and the subrequest that it waits for. *)

CronStep(step) ==
  /\ Goto(Cron, step)
  /\ UNCHANGED <<store, site, browser, modes, ghosts, leftBehind, held>>

\* performUpdate(): a stage that is in the way stays if it is being applied
\* or if there is no hurry.
CronBegin ==
  /\ pc[Cron] = "idle"
  /\ IsAvailable \/ (secure /\ IsApplying)
  /\ CronStep("begin")
  /\ arg' = [arg EXCEPT ![Cron] = Latest]

CronTakesOver ==
  /\ pc[Cron] = "idle"
  /\ ~IsAvailable /\ ~secure /\ ~IsApplying
  /\ CronStep("forced_destroy")
  /\ arg' = [arg EXCEPT ![Cron] = Latest]

\* Mutant of ForcedDestroy: the stage must be cron's own.
ForcedDestroyOwn ==
  /\ pc[Cron] = "forced_destroy"
  /\ ~IsApplying
  /\ lock # None /\ lock.owner = Cron
  /\ Release
  /\ Goto(Cron, "begin")
  /\ UNCHANGED <<applying, marker, arg, held>>
  /\ UNCHANGED <<site, browser, modes>>

ForcedDestroy ==
  /\ pc[Cron] = "forced_destroy"
  /\ ~IsApplying
  /\ Release
  /\ Goto(Cron, "begin")
  /\ UNCHANGED <<applying, marker, arg, held>>
  /\ UNCHANGED <<site, browser, modes>>

\* destroy() throws outside of the try block: the hook ends.
ForcedDestroyFails ==
  /\ pc[Cron] = "forced_destroy"
  /\ Done(Cron)
  /\ UNCHANGED <<store, site, browser, modes, ghosts, leftBehind>>

\* handlePostApply() in the subrequest: postApply() may fail, and early enough
\* to leave apply_time; destroy() follows all the same.
CronPostApply ==
  /\ pc[Cron] = "post_apply"
  /\ Claims(Cron, held)
  /\ applying' \in {"no", applying}
  /\ Goto(Cron, "clean")
  /\ UNCHANGED <<lock, packages, stage, marker, arg, held, leftBehind>>
  /\ UNCHANGED <<site, browser, modes, ghosts>>

\* The subrequest never arrives, or cannot claim the stage: only logged.
SubrequestLost ==
  /\ pc[Cron] = "post_apply"
  /\ Done(Cron)
  /\ leftBehind' = (leftBehind \/ Owns)
  /\ UNCHANGED <<store, site, browser, modes, ghosts>>

CronDestroys ==
  /\ pc[Cron] = "clean"
  /\ Owns /\ ~IsApplying
  /\ Release
  /\ Done(Cron)
  /\ UNCHANGED <<applying, marker, site, browser, modes>>

\* There is nothing to destroy, or the stage is not the one this object
\* claimed, or destroy() refuses.
CronCannotDestroy ==
  /\ pc[Cron] = "clean"
  /\ Done(Cron)
  /\ leftBehind' = (leftBehind \/ Owns)
  /\ UNCHANGED <<store, site, browser, modes, ghosts>>

-----------------------------------------------------------------------------
(* The forms and batches of an administrator. *)

Show(u, p) ==
  /\ page' = [page EXCEPT ![u] = p]
  /\ UNCHANGED <<store, site, session, modes, ghosts, leftBehind, pc, arg, held>>

\* UpdaterForm: back to the confirmation form if the stage is this session's.
OpenUpdateForm(u) ==
  /\ pc[u] = "idle"
  /\ ~marker
  /\ IF IsAvailable THEN Show(u, "offer")
     ELSE IF Claims(u, session[u]) THEN Show(u, session[u])
     ELSE Show(u, "taken")

\* A form that may be old by now is built again when it is submitted: with an
\* update button if no stage exists, with the delete button if one does, or,
\* as OpenUpdateForm(u), as a redirect to the stage of this session.  Drupal
\* takes the first button for the one pressed if that one is gone.
Rebuilds(u) ==
  /\ pc[u] = "idle"
  /\ page[u] \in {"offer", "taken"}
  /\ ~marker

SubmitUpdate(u, v) ==
  /\ Rebuilds(u)
  /\ IsAvailable
  /\ Goto(u, "begin")
  /\ arg' = [arg EXCEPT ![u] = v]
  /\ page' = [page EXCEPT ![u] = "none"]
  /\ UNCHANGED <<store, site, session, modes, ghosts, leftBehind, held>>

DeleteExistingUpdate(u) ==
  /\ Rebuilds(u)
  /\ ~IsAvailable /\ ~Claims(u, session[u])
  /\ ~IsApplying
  /\ Release
  /\ page' = [page EXCEPT ![u] = "none"]
  /\ UNCHANGED <<applying, marker, pc, arg, held, session, site, modes>>

Cancel(u) ==
  /\ pc[u] = "idle"
  /\ Claims(u, page[u])
  /\ ~IsApplying
  /\ Release
  /\ page' = [page EXCEPT ![u] = "none"]
  /\ UNCHANGED <<applying, marker, pc, arg, held, session, site, modes>>

\* Mutant of SavedMode: the mode is saved after it was changed.
SavedLate(inMaintenance) == InMaintenance \/ inMaintenance

\* UpdateReady::submitForm() saves the mode before it changes it.
SavedMode(inMaintenance) == InMaintenance

\* The form has a checkbox when the site is online.
SubmitReady(u, inMaintenance) ==
  /\ pc[u] = "idle"
  /\ Claims(u, page[u])
  /\ stage # None
  /\ key' = [key EXCEPT ![u] = SavedMode(inMaintenance)]
  /\ maintenance' = IF inMaintenance /\ ~InMaintenance THEN "update"
                    ELSE maintenance
  /\ before' = [w \in User |-> IF w = u THEN InMaintenance
                  ELSE IF maintenance' # maintenance THEN None ELSE before[w]]
  /\ Goto(u, "apply")
  /\ arg' = [arg EXCEPT ![u] = page[u]]
  /\ page' = [page EXCEPT ![u] = "none"]
  /\ UNCHANGED <<store, site, session, ghosts, leftBehind, held>>

\* postApply() throws before or after it releases apply_time, or not at all.
UserPostApply(u) ==
  /\ pc[u] = "post_apply"
  /\ Claims(u, arg[u])
  /\ \/ applying' = "no" /\ Goto(u, "clean") /\ UNCHANGED <<arg, held, session>>
     \/ applying' \in {"no", applying} /\ Fail(u)
  /\ UNCHANGED <<lock, packages, stage, marker, page, leftBehind>>
  /\ UNCHANGED <<site, modes, ghosts>>

\* clean() and finishCommit().
UserDestroys(u) ==
  /\ pc[u] = "clean"
  /\ Claims(u, arg[u]) /\ ~IsApplying
  /\ Release
  /\ Goto(u, "finish")
  /\ session' = [session EXCEPT ![u] = None]
  /\ UNCHANGED <<applying, marker, arg, held, page>>
  /\ UNCHANGED <<site, modes>>

UserCannotDestroy(u) ==
  /\ pc[u] = "clean"
  /\ Fail(u)
  /\ UNCHANGED <<store, site, page, modes, ghosts, leftBehind>>

\* "Put the site back online if it was previously not in maintenance mode":
\* remove() of an absent key answers NULL.
RestoreMode(u) ==
  /\ maintenance' = IF key[u] = TRUE THEN maintenance ELSE "off"
  /\ key' = [key EXCEPT ![u] = None]
  /\ before' = [w \in User |->
                  IF w = u \/ maintenance' # maintenance THEN None ELSE before[w]]

\* UpdateController::onFinish(), with or without a detour to update.php.
FinishOnline(u) ==
  /\ pc[u] = "finish"
  /\ ~pending
  /\ RestoreMode(u)
  /\ Done(u)
  /\ UNCHANGED <<store, site, browser, ghosts, leftBehind>>

FinishPending(u) ==
  /\ pc[u] = "finish"
  /\ pending
  /\ Goto(u, "update_php")
  /\ UNCHANGED <<store, site, browser, modes, ghosts, leftBehind, arg, held>>

\* The database updates of update.php, which any administrator may run: core
\* restores the mode it found, and dbUpdateBatchFinished() follows.
RunDatabaseUpdates(u) ==
  /\ pc[u] \in {"idle", "update_php"}
  /\ pending
  /\ pending' = FALSE
  /\ RestoreMode(u)
  /\ Done(u)
  /\ UNCHANGED <<store, secure, browser, ghosts, leftBehind>>

-----------------------------------------------------------------------------
(* Everything else. *)

\* A request dies, or a browser with a batch in it is closed.
Abandon(a) ==
  /\ pc[a] # "idle"
  /\ stage' \in IF pc[a] = "stage" /\ MayWork(a) THEN {stage, "partial"}
                ELSE {stage}
  /\ leftBehind' = (leftBehind \/ (a = Cron /\ Owns))
  /\ Done(a)
  /\ UNCHANGED <<lock, packages, applying, marker, site, browser, modes, ghosts>>

\* An hour passes.
Age ==
  /\ applying = "recent"
  /\ applying' = "old"
  /\ UNCHANGED <<lock, packages, stage, marker, site, browser, modes, ghosts,
                 leftBehind, pc, arg, held>>

\* Core has a security release.
Advisory ==
  /\ secure
  /\ secure' = FALSE
  /\ UNCHANGED <<store, pending, browser, modes, ghosts, leftBehind, pc, arg, held>>

SetMaintenance ==
  /\ maintenance' = IF InMaintenance THEN "off" ELSE "administrator"
  /\ before' = [u \in User |-> None]
  /\ UNCHANGED <<store, site, browser, key, ghosts, leftBehind, pc, arg, held>>

\* The code is restored by hand after a failed commit.
RestoreBackup ==
  /\ marker
  /\ marker' = FALSE
  /\ UNCHANGED <<lock, packages, stage, applying, site, browser, modes, ghosts,
                 leftBehind, pc, arg, held>>

\* A step of an update that succeeds.
Progress(a) == BeginMetadata(a) \/ Created(a) \/ Staged(a) \/ Committed(a)

Failure(a) ==
  \/ CreateRefused(a) \/ PreCreateFails(a) \/ CreateBreaks(a)
  \/ StageFails(a) \/ NotMine(a) \/ ApplyFails(a) \/ CommitFails(a)
  \/ Abandon(a)

UserNext(u) ==
  \/ OpenUpdateForm(u) \/ DeleteExistingUpdate(u) \/ Cancel(u)
  \/ \E v \in Version : SubmitUpdate(u, v)
  \/ \E b \in BOOLEAN : SubmitReady(u, b)
  \/ StageFailsCleaned(u)
  \/ UserPostApply(u) \/ UserDestroys(u) \/ UserCannotDestroy(u)
  \/ FinishOnline(u) \/ FinishPending(u) \/ RunDatabaseUpdates(u)

\* The steps of an unattended update that nobody and nothing disturbs.
Undisturbed ==
  \/ CronBegin \/ CronTakesOver \/ ForcedDestroy \/ Progress(Cron)
  \/ CronPostApply \/ CronDestroys

CronFails ==
  ForcedDestroyFails \/ SubrequestLost \/ CronCannotDestroy \/ Failure(Cron)

Environment == Age \/ Advisory \/ SetMaintenance \/ RestoreBackup

Next ==
  \/ Undisturbed \/ CronFails
  \/ \E u \in User : Progress(u) \/ Failure(u) \/ UserNext(u)
  \/ Environment

Spec == Init /\ [][Next]_vars

\* Cron is run again and again, its requests end, and an hour passes.
FairSpec == Spec /\ WF_vars(Undisturbed \/ CronFails) /\ WF_vars(Age)

-----------------------------------------------------------------------------

(***************************************************************************)
(* What is committed is the version begin() was asked for by the actor     *)
(* that commits, unless another begin() wrote over the metadata meanwhile; *)
(* and only a user, who was shown a confirmation form in between, can      *)
(* commit a stage that Composer did not finish (Updater.php:83, 108;       *)
(* Stage.php:445).                                                         *)
(***************************************************************************)
AppliedAsAsked ==
  [][\A a \in Actor : Committed(a) =>
       \/ stage = asked
       \/ overwritten
       \/ a \in User /\ stage = "partial"]_vars

(***************************************************************************)
(* An unattended update leaves no stage behind, whatever fails in it and   *)
(* whoever interferes, unless its request died, the subrequest was lost or *)
(* destroy() refused a stage that it did hold (CronUpdater.php:208,        *)
(* "destroy the stage regardless of whether the update succeeds").         *)
(***************************************************************************)
CronCleansUp ==
  pc[Cron] = "idle" /\ lock # None /\ lock.owner = Cron => leftBehind

(***************************************************************************)
(* At the end of an update the site is in the mode it was in when the user *)
(* confirmed it, if nobody else changed the mode meanwhile, through        *)
(* database updates and all (UpdateReady.php:207, BatchProcessor.php:271). *)
(***************************************************************************)
ModeRestored ==
  [][\A u \in User :
       FinishOnline(u) \/ (pc[u] = "update_php" /\ RunDatabaseUpdates(u))
         => before[u] \in {None, InMaintenance'}]_vars

(***************************************************************************)
(* Left alone, with nothing failing that need not fail, cron makes an      *)
(* insecure site secure, whatever stages, dead requests and half-finished  *)
(* batches it finds; only a failed commit stops it (CronUpdater.php:184,   *)
(* "so it was destroyed to allow updating the site to a secure version").  *)
(***************************************************************************)
LeftAlone == Undisturbed \/ Age \/ (CronFails /\ ~ENABLED Undisturbed)

InsecureIsUpdated == <>[][LeftAlone]_vars => []<>(secure \/ marker)
=============================================================================
