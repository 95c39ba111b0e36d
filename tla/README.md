# pointkft.hu: a verification project

This directory holds TLA+ models of the parts of the pointkft.hu code base that
keep state other requests rely on, the TLC configurations that check them on
small instances, and TLAPS proofs of what holds for every instance.

Run everything from this directory:

    tlasany Stage.tla
    tlc -workers 2 -config StageSerial.cfg MCStage
    tlapm Stage_proofs.tla

`PROJECT.json` lists the components, the runs, the theorems, a mutant of the
code for every checked property, the source lines each definition stands for,
the findings and the hazards.

## 1. The system and its components

pointkft.hu is a Drupal 9.5 site without code of its own. What is in the
repository besides the code that Composer or an archive would install again
(`libraries`, `themes`, database dumps, update scripts) is 48 contributed
modules under `modules/contrib`. Drupal core and `php-tuf/composer-stager`,
which the modules call, are not in the repository; the models take what those do
from how the modules use it.

The module whose mistakes cost the most is `automatic_updates` with its part
`package_manager`: it copies the site, runs Composer in the copy, and copies the
result over the code that is running, across several HTTP requests, cron runs
and subrequests, with its state in tempstores, the key-value store, a marker
file and a directory tree. It is the core of this project. Besides it the models
cover two programs that run in the browser and keep state there across events
and answers: the file manager `imce`, and `webform_cards`, which shows a form one
card at a time.

| Component | State it keeps | Operations | Modelled by |
|---|---|---|---|
| Stage (`package_manager/src/Stage.php`) | tempstore keys lock, metadata, apply_time, destroyed-stage messages; the stage root directory; `$lock` of a Stage object | create, claim, require, apply, postApply, destroy, isApplying | `Stage.tla` |
| FailureMarker | a file in the active directory | write, clear, assertNotExists | `FailureMarker.tla`, used by `Stage.tla` |
| LockFileValidator | state key `package_manager.lock_hash` | storeHash, validateStagePreOperation, deleteHash | `LockFileValidator.tla`, used by `Stage.tla` |
| Status checks: StatusChecker, StatusCheckMailer, ConfigSubscriber, `automatic_updates_cron()` | key-value entries `status_check_last_run` (expires) and `status_check_timestamp`; two configuration objects | run, runIfNoStoredResults, getResults, clearStoredResults, sendFailureNotifications, onConfigSave, the cron hook | `StatusCheck.tla` |
| Updater, CronUpdater | package versions in the stage's metadata, the `$lock` of the cron object | begin, stage, performUpdate, handlePostApply | `AutomaticUpdates.tla` |
| BatchProcessor, UpdaterForm, UpdateReady, UpdateController | stage ID in the session, maintenance mode | the batch steps, the forms, onFinish, the end of update.php | `AutomaticUpdates.tla` |
| imce upload queue (`imce.UploadQueue.js`, `imce.upload.js`) | the queue, its active item, the button | select, add, start, cancel, complete | `ImceUploadQueue.tla` |
| imce folders and requests (`imce.js`, `imce.Folder.js`, `imce.Item.js`, plugins) | folder objects, the tree, the active folder, the selection, requests in flight | browse, expand, select, delete, create, upload, the answers | `Imce.tla` (partly) |
| webform_cards (`webform_cards.js`) | the active card, answers, hidden cards, buttons, links, delayed clicks | next, previous, links, auto-forward, arrow keys, show all, preview | `WebformCards.tla` (partly) |
| VersionPolicyValidator and its rules, ReleaseChooser, ProjectInfo | none (pure) | which releases may be installed | no: a constant in `AutomaticUpdates.tla` |
| other validators and path excluders | none | add errors or ignored paths to an event | a free choice of outcome in `Stage.tla`, of reported problems in `StatusCheck.tla` |
| automatic_updates_extensions | a second Stage class with forms of its own | as Updater | an `Actor` of `Stage.tla` is a user together with such a class |
| scheduler, redirect and pathauto, captcha, webform (but for cards), backup_migrate | entities, aliases, captcha sessions, submissions, backups | see the notes in `PROJECT.json` | no; candidates |
| content editing, presentation and administration modules, libraries, themes, dumps, scripts | configuration, rendered output | | no: no protocol state |

### How they interact

A **request** (a page, a form submission, a batch step, cron, the subrequest for
post-apply tasks) creates a `Stage` subclass object. `create()` draws an ID and
writes the lock; the caller keeps the ID in the session or a URL; later requests
`claim()` the stage with it. Every life cycle method checks ownership against
the tempstore, dispatches an event before and after its work, and on errors
calls a callback. `LockFileValidator` is one of the subscribers to these events
and `FailureMarker` is called from `apply()`, `claim()` and `create()`.
`StatusChecker` runs the validators on an event of its own, stores the results,
and drops them on `PostApplyEvent` and, through `ConfigSubscriber`, when settings
change. The cron hook first updates the site, then reads the stored results, runs
the checks if an hour has passed, and hands the results before and after to
`StatusCheckMailer`. `Updater` is a Stage class that an administrator's session
drives in two batches, `CronUpdater` one that cron drives in a single request
with a subrequest at its end; both contend for the one stage. Nothing but the core's cron lock and the stage lock keeps
requests apart; neither `isAvailable()`/`set()` nor `get()`/`setWithExpire()` is
atomic.

In the browser one event runs at a time, but what it starts comes back later:
imce keeps several requests in flight and applies each answer to the folder
*object* it was sent for, which may have left the tree by then; its upload queue
goes on inside the very calls that change it; auto-forward and the arrow keys of
`webform_cards` click a button 250 ms later, whatever is on the screen.

### What is hard about it

* requests overlap: PHP workers share the tempstore, the marker, the one stored
  hash and the stage root directory, and read them long before they write;
* a request may die anywhere: time limits, fatal errors (it replaces the code it
  runs), reboots. What it stored stays;
* each step of several can fail, and the error paths undo different subsets;
* clocks: an apply is forgotten after 3600 seconds, measured between the *request*
  times of two requests; results expire after 24 hours, tempstores after a week;
* one piece of state serves several purposes: one lock hash for all stages, one
  result cache for pages, for cron's memory and for its mail;
* in the browser, answers come late, out of order or never, and a delayed click
  lands on another card than it was meant for;
* recovery: an administrator who keeps asking must get rid of a stage in the end.

For each hazard `PROJECT.json` names the line and the properties that would
catch it, or why none does yet.

### What makes each component correct

* Stage: one stage directory at a time and none left behind; only its creator
  works on a stage; a half-applied code base is marked and left alone; a stage
  is applied to the code it was copied from; a stage is not deleted while it is
  applied; a stuck stage can be removed.
* Status checks: the stored results are those of the settings in force; cron has
  results when it mails; a failure is mailed, and mailed once.
* Updaters: what is committed is what the actor that commits asked for; cron
  leaves no stage behind and makes an insecure site secure; maintenance mode is
  restored.
* imce uploads: one at a time, in order, none forgotten.
* imce: the selection is in the active folder; nothing stays busy; the view is
  that of the server unless something interfered.
* webform_cards: no card that must be answered is passed over; the buttons tell
  where one can go; there is always a way on.

## 2. The modules

### Stage.tla (with FailureMarker.tla and LockFileValidator.tla)

The shared state is that of the code, name by name: `lock`, `metadata`,
`applyTime`, `destroyed` are the tempstore keys; `lockHash` the state key;
`activeHash` the content of the active `composer.lock`; `marker` the failure
marker; `dir[i]` the stage directory of ID `i`, with its progress (`copying`,
`staging`, `whole`, `removing`) and the content of its `composer.lock`; `broken`
records that a commit was cut short.

`Request` is a set of slots for requests that run at the same time. A slot has
an `actor` (a user or session together with a Stage class, which is what
ownership compares), a `start` (the request time), `held` (`Stage::$lock`),
`arg` (the argument of the call) and `pc`. The granularity is:

* every write to shared state is a step of its own;
* consecutive reads of one call, with no write between them, are one step;
* a long operation (copying, Composer, committing, recursive deletion) is a step
  that begins it and one that ends it, and other requests run in between;
* a request may die (`Crash`) between any two steps.

| Code | Actions |
|---|---|
| `create()` | `Create` (reads, draws the ID), `CreateLock`, `CreateClaim`, `CreatePathsFail`, `PreCreate`, `PreCreateFail`, `CreateCopy`, `CreateCopied`, `CreateCopyFail` |
| `markAsAvailable()` | `DeleteMetadata`, `DeleteLock`, in both callers |
| `claim()`, `checkOwnership()` | `CanClaim`, `CheckOwnership`, `Claim` |
| `require()` | `Require`, `RequireStage`, `Required`, `RequireFail` |
| `apply()` | `Apply`, `SetApplyTime`, `PreApply`, `ApplyRelease`, `WriteMarker`, `Commit`, `Committed`, `CommitFail`, `ClearMarker`, `ApplyOwnership`, `SetChangesApplied` |
| `postApply()` | `PostApply`, `PostApplyRelease` |
| `destroy()` | `Destroy`, `DeleteRoot`, `RootDeleted`, `StoreDestroyInfo`, then `markAsAvailable()`, `PostDestroy` |
| the rest of the world | `Tick`, `ExternalComposer`, `Expire`, `RestoreBackup` |

The events that subscribers answer are choices: any event may be refused. The
exceptions are the `LockFileValidator`, whose state and conditions are modelled,
and which subscribers ran before a refusal (`PreCreate` with an error after
`storeHash()`, `PreCreateFail` with one before). `RestoreBackup` is what the
failure marker's message tells the administrator to do.

What callers do is modelled as the contract of the class: the ID a request
claims is one that `create()` returned; after a create, require or apply that
threw, or after an apply that succeeded, the same request only destroys the
stage, runs `postApply()`, or ends (Stage.php:452-462 asks this, `CronUpdater`
and `BatchProcessor` do it).

`creator`, `returned`, `baseline` and `orphans` are history: the actor that drew
an ID, the IDs handed out, the `composer.lock` at PreCreate, and the directories
left by a failed deletion or an expired lock.

Left out: wording of messages and the message shown for a destroyed stage,
package names and versions, the `staging_root` path (all stages are in one root,
which `destroy()` deletes whole, as in the code), the ignored paths, dispatching
order among subscribers beyond the above, Composer's own behaviour in `require()`
(any lock file may result).

### StatusCheck.tla

`stored` is the entry `status_check_last_run` with its expiry, `lastRun` the
entry `status_check_timestamp`, `settings` and `composer` the configuration,
`site` the problems the validators would find now. A request has a `kind`, a
`start` (every expiry is judged by request time), `conf` (the settings it loaded
first; the configuration factory keeps them), `last` and `found` (local
variables).

| Code | Actions |
|---|---|
| `automatic_updates_cron()` | `CronBegin`, `HandleCron`, `ReadLastResults`, then `run()`, `Notify`, `EndCron` |
| `StatusChecker::run()` | `Run`, `RunIfNoStoredResults`, `CheckStatus`, `StoreResults`, `StoreTimestamp` |
| `getResults()`, `getLastRunTime()` | `GetResults`, `RunNeeded` |
| `StatusCheckMailer` | `Filtered`, `Different`, `SendFailureNotifications` |
| `ConfigSubscriber::onConfigSave()` | `SaveSettings`, `SaveComposerPath`, `DropsResults`, `DropResults` |
| `clearStoredResults()` | `ClearStoredResults`, in `DropResults`, `PostApply` and `HandleCron` |
| the rest of the world | `Crash`, `SiteChanges`, `Tick` |

A problem is a model value of `Problem`; those in `Errors` are errors, the others
warnings; those in `CronOnly` are reported only when the checks run for the cron
updater. Results form a set: that two validators report the same message twice
is out of scope (`resultsAreDifferent()` counts the results and then compares in
one direction only, which would then not be a comparison of sets).

History: the last notification (`mail`), whether anything was found since
(`news`), what was ever notified of while stored (`told`), what cron will not
notify of for a reason outside its own code (`missed`: another caller stored it
first, or a request died), `repeated`, `interrupted`, and the tags `forCron`
and `composer` of stored results.

Left out: recipients and the text of mails, displays,
`CronFrequencyValidator::validateLastCronRun()` (which reports outside cron
only), and a change from `security` to `patch` mode, which in the code drops
nothing and here therefore does nothing but change the mode.

### StageLifeCycle.tla and StageRefinement.tla

`StageLifeCycle` is what `Stage` promises, in four variables and nine actions:
somebody reserves the site, has a copy of its code, changes the code from the
copy, and a marker tells whether the change was completed. `StageRefinement`
maps `Stage` onto it: the holder is the lock, the copy is the directory of the
locked stage, the code is "changing" while a request runs the committer. On a
server whose requests do not overlap `Stage` implements it (`ImplementsLifeCycle`).

### AutomaticUpdates.tla

One level above `Stage`: a call of a Stage method is one step, except that
`begin()` writes the metadata before it calls `create()` (`BeginMetadata`). The
stage is one record of the tempstore (`lock`, `packages`, `applying`, `marker`)
with the version its directory holds. Actors are administrators' sessions and
cron; each has a `pc`.

| Code | Actions |
|---|---|
| `CronUpdater::handleCron()`, `performUpdate()` | `CronBegin`, `CronTakesOver`, `ForcedDestroy`, `CronDestroys`, `CronCannotDestroy` |
| `handlePostApply()` and its subrequest | `CronPostApply`, `SubrequestLost` |
| `Updater::begin()`, `create()` | `BeginMetadata`, `Created`, `CreateRefused`, `PreCreateFails`, `CreateBreaks` |
| `stage()`, `apply()` | `Staged`, `StageFails`, `NotMine`, `Committed`, `ApplyFails`, `CommitFails` |
| UpdaterForm, UpdateReady, BatchProcessor | `OpenUpdateForm`, `SubmitUpdate`, `DeleteExistingUpdate`, `SubmitReady`, `Cancel`, `UserPostApply`, `UserDestroys`, `FinishOnline`, `FinishPending`, `RunDatabaseUpdates` |
| the rest of the world | `Abandon` (a request or a user gives up), `Age` (an hour passes), `Advisory`, `SetMaintenance`, `RestoreBackup` |

A form that was built before the stage changed is built again when it is
submitted, from the state of that moment (`Rebuilds`): a form to start an update
has no such button any more once a stage exists, and one to delete a stage none
when the stage is gone.

Which release the chooser finds is the constant `Latest`; the policy, the
contents of the release and the mails are left out.

### ImceUploadQueue.tla

The queue as an object with its active item, `running` and the upload button;
`picked` is what is left of a selection, since `selectFiles()` is a loop over
files that may abort an upload, complete it and start the next one in the
middle. Folders come and go (`FolderGone`, `FolderAdded`): an item whose folder
is missing is passed over. Form data, progress and the iframe for old browsers
are left out; which names and sizes pass is the constant `Valid`.

### Imce.tla and MCImce.tla

Each event handler is an operator from one state of the browser to the next, in
the order of its calls, because handlers call one another with the folder tree
half changed. What the code does by recursion over the tree, or to one item after
the other, is said of all the folders concerned at once: those that can be reached
(`Above`, `Below`, `Removed`), the names that each of them loses (`Cuts`), the
objects for new paths (`Objects`). A folder is an object with a `parent`, and the map `tree` from
paths to objects is what `getFolder()` reads: the two differ when an answer
comes for an object that was removed. `Serve` is the server at work, `Deliver`
its answer, `Lose` an error, `OthersChange` another user.

Every request starts on the server by making the predefined folders that are
missing (`Ensured`; that this can fail is left out) and checks that the folder it
is about exists and has a configuration (`InConf`, `Unknown`). A new folder may not
come about, and an upload may be refused or get another name (`Makes`); a folder may be
deleted in part. The answer tells what came of it, and that is what the browser
works with. The root has a configuration of its own only if it is predefined;
without one it is disabled (`Bare`). Nothing is sent for a selection in a folder out
of the tree, since `validatePermissions()` throws there.

| Code | Operators and actions |
|---|---|
| `removeItem()`, `setPath(null)`, `updateSubtree()` | `RemoveItems` (`Removed`, `Cuts`, `Deselect`, `Leave`, `ForgetPaths`, `Cut`, `UpdateSubtrees`) |
| `appendItem()`, `prepareSubtree()`, `setPath()` | `Graft` (`NewFolder`, `Extended`, `Register`) |
| `addFolder()`, `addContent()`, `setContent()` | `AddFolder`, `AddContent` and `SelectAll`, `SetContent` |
| `activate()`, `setLoading()`, `load()`, `open()` | `Activate`, `StartLoading` and `EndLoading`, `Load`, `Open` |
| `eTreeUp()`, `eTreeDown()` | `Walk` (`WalkUp`, `WalkDown`: by siblings, also below a branch that is not expanded) |
| `ajaxProcessRemoved()`, `ajaxProcessAdded()`, `ajaxComplete()` | `ProcessRemoved`, `ProcessAdded`, `Complete` |
| `ImceFM::getInitError()`, `folderInConf()`, `opBrowse()`, `opDelete()`, `opNewfolder()`, `opUpload()` | `Serve` (`Ensured`, `Unknown`, `Content`, `Makes`) |

Left out: resizing, permissions (all are granted), files changed in place, drag and
drop, previews, messages and layout.

### WebformCards.tla and MCWebformCards.tla

`form` is the form as the server renders it (kinds of questions, which must be
answered, which card depends on which, the options), `active` the card with the
class `webform-card--active`, `hidden` the cards with an inline `display: none`,
`shown` the visible buttons, `links` the links of the progress bar, `showAll` the
class `webform-cards-toggle-show`. `clicks` are the delayed clicks and `looks` the
calls that a click on a radio button puts off until its value has changed.

| Code | Actions and operators |
|---|---|
| `setActiveCard()`, `trackActions()`, `trackProgress()` | `SetActive`, `Buttons`, `Links` |
| `stateVisibleEventHandler()` | `Track` |
| `autoForwardEventHandler()`, `hideAutoForwardNextButton()` | `Forwards`, `Look`, `PressEnter`; `HidesNext` |
| keyboard handler | `PressArrow`, `FireClick`, `PreviewFire` |
| click handlers of the buttons | `ClickPrevious`, `ClickNext` (`GoPrevious`, `GoNext`) |
| `toggleEventHandler()` | `Toggle` |
| errors found by the server, `setPreviewLinks()`, `initialize()` | `Correct`; `PreviewLink`, `PreviewBack`, `Return` |

External are the browser's validation (`FormValid`), the evaluation of conditions
by Drupal core (`HiddenBy`) and the server's answer (`Post`), which accepts a form
without unanswered questions or returns a page with errors, possibly of its own.
A condition depends on an earlier card. The inputs of a hidden card keep their
values, while `webform.states.js` clears them and restores them later; that matters
only to a card whose condition looks at a card with a condition, and the
conditions of the runs look at the first card, which has none. The form is sent
as a page of its own: in a form sent by Ajax the timers and the keyboard
handler would survive the answer. Left out: cards that slide in and out
(`visible-slide`: the buttons are then updated before the animation hides the
card), effects, focus, labels, the page in the URL, drafts.

### MC modules and proof modules

`MCStage.tla` and `MCStatusCheck.tla` add symmetry, the restricted
specifications `RequestsOnly` and `Recovering`, and the liveness property;
`MCImce.tla` and `MCWebformCards.tla` give the constants. `Stage_proofs.tla`,
`StageRefinement_proofs.tla`, `StatusCheck_proofs.tla`,
`AutomaticUpdates_proofs.tla`, `ImceUploadQueue_proofs.tla`, `Imce_proofs.tla`,
`ImceView_proofs.tla` and `WebformCards_proofs.tla` hold the theorems.

## 3. The runs

Runs that pass show what holds. Runs marked *violated* show that the code does not
do what one of its comments or tests says, each for one property; the findings in
`PROJECT.json` quote the line.

| Run | Configuration | Result |
|---|---|---|
| serial | StageSerial.cfg | `TypeOK`, `HalfCommittedIsMarked`, `NoFalseAlarm`, `DirectoryIsLocked`, `NoWorkOnBrokenCode`, `ApplyOnBaseline` and the refinement `ImplementsLifeCycle` hold (about 2.5 million states) |
| concurrent | StageConcurrent.cfg | `OwnerOnly` holds with two overlapping requests of two actors (about 2.4 million states) |
| recovery | StageRecovery.cfg | `Recoverable` holds |
| two_directories | StageTwoDirectories.cfg | `OneStageDirectory` violated |
| deleted_in_apply | StageDeletedInApply.cfg | `NotDeletedWhileApplied` violated |
| status_serial | StatusCheckSerial.cfg | `TypeOK`, `ResultsFitSettings`, `ResultsToNotify`, `NoRepeatedMail`, `FailuresAreMailed` hold (about 3.7 million states) |
| updates | Updates.cfg | `TypeOK`, `CronCleansUp`, `AppliedAsAsked`, `ModeRestored`, `InsecureIsUpdated` hold |
| imce_upload | ImceUploadQueue.cfg | `TypeOK`, `OneUpload`, `NothingForgotten`, `InOrder`, `GetsItsTurn` hold (15 thousand states) |
| imce | Imce.cfg | `TypeOK`, `SelectionIsActive`, `BusyIsPending`, `ExpandedHasSubfolders`, `ViewIsCurrent` hold (420 thousand states) |
| imce_ghost | ImceGhostFolder.cfg | `ActiveIsInTree` violated |
| cards | WebformCards.cfg | `TypeOK`, `EarlierCardsAnswered`, `ButtonsFollowCards`, `CanGoOn`, `GoesToVisibleCards` hold (870 thousand states) |
| cards_show_all | WebformCardsShowAll.cfg | `OnlySubmitInShowAll` violated |

### What they show

With **one request at a time**, whatever fails or dies, a half-applied code base
is always marked and nobody builds on it, no directory is left without the lock
that accounts for it, and no stage is applied to code other than the code at its
creation, even though there is one hash key for all stages. Nor does the marker
stop anybody for nothing: `apply()` never returns alive with the marker there and
the code whole. `apply_time` is another matter: a commit whose preconditions are
not met clears the marker but leaves `apply_time` (503-508), unlike the other error
paths of `apply()`, so that `destroy()` is refused for an hour "while it is being
applied". `Recoverable` shows that it is not refused for longer. With
**overlapping requests** only ownership survives:

* `two_directories`: both requests read `isAvailable()` (Stage.php:371) before
  either writes the lock (387). The second overwrites the first's lock, both copy
  the site.
* `deleted_in_apply`: `destroy()` reads `isApplying()` once (573), then deletes
  the root. An `apply()` that begins in between commits from a directory that is
  being deleted.

In the window of `deleted_in_apply` the ownership that `destroy()` checked goes
stale as well: it then deletes a lock that another user has just taken. And
`apply()` looks neither for the marker nor for `apply_time`, so that a double
submission applies the stage twice, and the first `clear()` removes the marker while
the other commit is running: `HalfCommittedIsMarked` needs requests that do not
overlap.

**Status checks**, one request at a time: the results in the store fit the
settings, cron never calls the mailer without results, and a failure is never
mailed twice. It is mailed, too, but for the failures that `FailuresAreMailed`
counts as `missed`. What these properties leave open is not kept as runs, although
TLC finds a counterexample to each in seconds when asked:

* The cache of the results is also cron's memory of what it mailed. A failure that
  the status report, a rerun by hand, or a hook that died before it could send mail
  was the first to store is taken for old by the next hook, and nobody is told as
  long as it lasts (`missed`).
* At the level "all" an empty set of results is one more set that may differ from
  the previous one (StatusCheckMailer.php:120), and a site without problems, or one
  whose last problem was just solved, is told by mail that it has failed its checks.
* `ResultsFitSettings` needs requests that do not overlap: a request runs slow checks
  under the old settings, another saves new settings and drops the results, the first
  then stores its own. The comment at ConfigSubscriber.php:68-71 explains why results
  must not survive; these do, for up to 24 hours.
* So does `ResultsToNotify`: results dropped between `run()` and the second
  `getResults()` of the cron hook (automatic_updates.module:192) make the latter
  return NULL, which the parameter `array $current_results` refuses.

**Updates**, cron and an administrator at once, with failures anywhere: what is
committed is what its actor asked for, unless a `begin()` that was refused wrote
over the metadata meanwhile; cron cleans up after itself unless its request dies; maintenance mode is what it was when the
update was confirmed, if nobody else changes it; and a site that is left alone
becomes secure, whatever stage it finds. The exception (`overwritten`) is reached:
`begin()` writes first (Updater.php:83) and `create()` refuses
afterwards, and by then the stage that is there, cron's for instance, is going to
require the other one's version.

**imce**: the upload queue keeps its promises even when a file is selected again
during its own upload and its folder disappears. Of the folders, `imce_ghost`
shows that `removeItem()` removes descendants while it iterates over the list
that the removal shortens, so that every other one stays; if one of these is
active, it remains active outside of the tree. What
`ViewIsCurrent` says nothing of is overlap: two requests of one folder, or of folders above each other, share one busy flag, and the content of
the one may replace what the other has just added (`disturbed`).

**webform_cards**: a late click may pass over a card nobody has looked at, but
none that must be answered, and it never leads to a hidden one. `cards_show_all`:
while all cards are shown, a condition or an arrow key updates the buttons as if
one card were shown, and the submit button disappears. `CanGoOn` leaves out cards
with "Other...": with `hide_next`, once "Other..." is chosen the card does not
forward itself any more, and the next button stays hidden until something else
updates the buttons.

### Bounds, and why they are enough

* `Request`: one slot is a server without overlap, but any number of requests
  follow one another in it. Two slots give every pairwise race.
* `Id` bounds the number of stages ever created. Two are needed for one stage to
  be confused with another; with no more than two locks, hashes or directories
  in any property, a third adds nothing that a second does not show.
* `Hash`: two contents of `composer.lock` tell changed from unchanged. Runs that
  need no distinction use one.
* `Actor`: two in the ownership run; one in the serial run, whose properties do
  not mention actors.
* `Window = 1`, `MaxTime = 1`: a tick is the hour after which an apply is
  forgotten; both sides of it are reached. `MaxTime = 0` in runs where time must
  not matter (all requests within the hour).
* `Hour = 1`, `TimeToLive = 3`, `MaxTime = 3`: results need to be younger than an
  hour, older than an hour but unexpired (a rerun with previous results), and
  expired. `TimeToLive` must be at least `Hour + 2` for the middle case, as 24
  hours are to 1 in the code.
* `Problem = {error, warning}` with the error found for cron only: it separates
  the severities and the modes. Two Composer paths make one stale.

* `updates`: one session and cron; two versions, so that one can be mistaken for
  the other; three IDs, for the stages that the lock, a session and a page may
  know of at a time (an ID nobody knows is drawn again, so updates go on for
  ever; when all are known, no stage is created: `HasNewId`).
* `imce_upload`: two folders and two valid names give four items, in any order;
  a selection has one or two files.
* `imce`: a root, a folder and two subfolders (every other descendant needs two;
  the second is created by the user or by others), one file; two requests in flight
  after each other's answers; one change by others. The root is predefined and there is one name for files: folders without configuration and
  uploads under another name are covered by the theorems, which hold for any
  predefined folders and names.
* The violated runs take the smallest instance that has the two actors, or the one
  error, which the counterexample needs.
* `cards`: three cards (an earlier, an active and a later one), one or two of which
  depend on the first; four or five kinds of questions; every combination of
  options; two delayed clicks.

Deadlock is checked in the runs of Stage and StatusCheck. The other systems may
stop: an update that nobody starts, a browser whose user has finished, a form
that was sent. Symmetry is declared only on sets whose
members are compared for equality. In `Recovering` it is not used, since it is
unsound for liveness.

### Fairness

`Recovering`, the updates and the upload queue state some. In `Recovering`,
`WF(Tick)`: time passes. `WF(Work(r))`: a request
that runs goes on; PHP's and the process timeouts end long operations, with an
error (`...Fail`) if not otherwise. `SF(EndRequest(r))`: no request lives for
ever, so a slot keeps becoming free for the next. `SF(Destroy(r, TRUE))`: the
administrator keeps asking for a forced deletion, and it is refused at times
(while an apply is under way). Crashes are finitely many. The last `apply()`
begins a `Window` before the clock's bound, as real time has none. This says
nothing of fair scheduling between actors or of anyone's good will, only that
somebody keeps trying; without the one-hour rule of `isApplying()` the property
is false, which its mutant shows.

`AutomaticUpdates!FairSpec`: cron is run again and again and its requests end
(`WF(Undisturbed \/ CronFails)`), and hours pass (`WF(Age)`). `InsecureIsUpdated`
is about a site that is left alone from some point on. `ImceUploadQueue!FairSpec`:
a handler runs to its end, and a request is answered or fails (strong fairness,
since each abort starts another one).

`Imce` states none. That folders do not stay busy is the invariant
`BusyIsPending`: a busy folder has a request in flight, and a request ends when
the browser gets its answer or gives up. `WebformCards` states none: a timer
fires, but no property here depends on when.

## 4. What is proved

All theorems are checked by tlapm to the last leaf. They assume only the named
assumptions on the constants (`None` is not a value of the other kind, times are
naturals, the window is positive, `Errors` and `CronOnly` are problems, the
contents of a copy that is not complete are no version), and hold for any sets of
requests, actors, IDs, hashes, versions, problems and paths, and any times. Those
of `Imce` also assume what a file system gives: the parent of a path is a folder,
no path is a file and a folder, predefined folders are finitely many and exist in
the beginning, the names
that a site has are listed in a finite sequence, and there is room for a request.

**Stage, any number of overlapping requests** (`Stage_proofs.tla`)

* `TypeCorrect`: `TypeOK`, with `Control`, which says what each local variable
  holds at each point of a call.
* `Ownership`: `OwnerOnly`. What `claim()` compares is the *stored* lock, so the
  invariant is `Owned`: the lock's actor is the creator of its ID, also while the
  ID is still on its way from `Create` to `CreateLock`. That the lock can be
  overwritten at any time does not matter: each request keeps its own ID.

**Stage, one request at a time** (`Stage_proofs.tla`, under `OneRequest`:
all slots are equal)

The inductive invariant `SerialInv` is the conjunction of `TypeOK`, `Control`,
`Owned` and

* `Intact`: a request at work (`Works`) knows that the code is not `broken`,
  because it claimed its stage when there was no marker. Without it the step that
  clears the marker cannot be justified.
* `Housed`: as long as a creation goes on the stored lock is its own; and a lock
  is given up only when there is no directory but orphans (`Cleared`). The
  property alone does not know who will copy into which directory next.
* `Based`: the one stored hash, if any, is the baseline of the stage in the lock
  once its ID was handed out. It needs `Housed` (the lock is the one whose
  PreCreate stored the hash) and `Intact`.

From it follow `MarkerTellsHalfCommit`, `MarkerTellsNothingElse` (`NoFalseAlarm`),
`NoStrayDirectory`, and by one more
inspection of each step `BrokenCodeIsLeftAlone` and `AppliedOnBaseline`, which are
action properties. `OneRequest` cannot be dropped from `MarkerTellsHalfCommit`:
two `apply()` calls of one owner are the counterexample.

**Refinement** (`StageRefinement_proofs.tla`, under `OneRequest`):
`StageImplementsLifeCycle` shows that every step of `Stage` is a step of
`StageLifeCycle` or none, from `SerialInv` and the fact that the directory of a
stage is not touched unless its lock is held; `PromiseKept` proves that
`StageLifeCycle` keeps `Promise`: a copy belongs to its holder, a change comes
from a copy and under the marker.

**Status checks** (`StatusCheck_proofs.tla`)

* `TypeCorrect` and `NotMailedTwice` (`NoRepeatedMail`) for any number of
  overlapping requests. The invariant `Remembered` says that, as long as there is
  no news, the stored results and those the one running cron hook has read are
  those of the last notification: the hook then compares equal sets. TLC checks this property
  with one request only (two are too many states): the theorem covers the rest.
* Under `OneRequest`: `StoredResultsFit` (invariant `Fitting`: a request that
  runs the checks has loaded the settings in force), `CronHasResults` (`Lasting`:
  results that a request read or stored do not expire while it runs, because
  every expiry is judged by its own request time), and `FailuresMailed`
  (`Announced`: between hooks every stored failure was told or is missed, and
  while a hook has yet to compare the results it stored, so is every failure that
  it is going to take for an old one).

**Updates** (`AutomaticUpdates_proofs.tla`), for any sets of sessions, IDs and
versions

* `TypeCorrect`: `TypeOK`, with `Control`: a request that has yet to begin or to
  create a stage carries the version it was asked for.
* `CronAlwaysCleansUp` (`CronCleansUp`). The property is about cron at rest; the
  invariant `Kept` says the same of cron at work: its stage is in the hands of the
  request that created it (`held`), and at a step from which `destroy()` follows.
* `AlwaysAppliedAsAsked` (`AppliedAsAsked`). `claim()` compares owners and IDs, not
  versions, so three facts carry the proof: `BeginAlone` (between the metadata that
  `begin()` writes and `create()` there is no stage and no second `begin()`, or the
  write counts as `overwritten`), `StagedAsAsked` (metadata and copy of the locked
  stage hold what its `begin()` was asked for) and `CronStagedAll` (cron applies
  nothing that Composer did not finish).
* `AlwaysModeRestored` (`ModeRestored`). The property speaks of the end of an update
  only; `ModeKnown` says that until then the session knows the mode from before it,
  and that a site that was offline has not been put online.

**Upload queue** (`ImceUploadQueue_proofs.tla`), for any folders, names and
selections: `TypeCorrect`, `OneUploadAtATime`, `NobodyForgotten` (what is waiting
in a queue that stands still was missing its folder; inductive because `end()`
is only reached when `next()` finds nothing to start) and `UploadsInOrder`.

**imce** (`Imce_proofs.tla`), for any names, files and trees of folders, any number
of requests in flight and any changes by others: `TypeCorrect`,
`SelectionAlwaysActive` (`SelectionIsActive`), `BusyAlwaysPending`
(`BusyIsPending`) and `ExpandedAlwaysHasSubfolders` (`ExpandedHasSubfolders`).

None of the three properties is inductive: what a removal leaves behind depends on
the shape of the tree, and `imce_ghost` shows that the shape is not what one would
like. The invariant `IInv` says what is left of it.

* `Families`: a folder listed in another is there under its name and knows it as
  its parent, and the other way round. It makes whatever is above a folder have a
  subfolder, so that `activate()` expands no leaf, and it makes what `removeItem()`
  leaves out (`Removed`) a part of what is below.
* `Paths`: the tree has each folder under its own path, and the root; without a
  parent only the root has a path. A removed folder that another request still
  refers to is thereby never found by path.
* `Pending` is `BusyIsPending`; it survives because no handler makes a folder busier
  but `Send` (`NotBusier`), a removal frees the folder, and a new object is never one
  that a request refers to (`FreshFacts`).
* `Answered`: what an answer adds it adds to a path without `"undefined"` in it,
  since the server has such a folder; `addFolder()` then creates no nonsense.

Each operator has a lemma with its effect (`ItemsRemoved`, `Grafted`,
`FolderAdded`, `ContentSet`, `Completed`, `Collected`), and the steps are put
together from those. That reachability is closed and the least such set
(`ReachFacts`) takes the place of induction over the tree.

**What imce shows** (`ImceView_proofs.tla`), for the same instances:
`ViewAlwaysCurrent` (`ViewIsCurrent`): once all requests are answered, each loaded
folder lists what the server has, whatever was deleted, created, uploaded and
reloaded and in whatever order the answers came, unless the history was
`disturbed`: somebody else changed the server, an answer was lost, or two requests
were in flight for one folder or for folders above each other. The property speaks
of a browser at rest. The invariant `ViewInv` adds to `IInv` that an undisturbed
browser is `Synced` with the server at any time:

* `Behind`: a loaded folder lacks only names that an answer on its way adds
  (`ToCome`), and has only names too many that such an answer removes (`ToGo`) or
  that lead to a predefined folder. Nothing is said of a folder that an answer will
  remove with its parent (`Doomed`).
* `Truthful`: what the answer of a request says of its folder is still so. `Serve`
  of another request cannot belie it, since the two are not `Tangled`, and since the
  predefined folders, which every request would make again, are on the server all
  the time: nobody deletes one in an undisturbed history.
* `Placed`: the folders that have a path are those of the tree, under the path they
  were made for; a folder has one exactly if the folder it is listed in has one,
  and the predefined folders are among them. It ties the paths that requests and
  answers carry to folder objects, which outlive their removal.

Each event leaves the folders alone but for marks (`Still`), or changes the content
of one folder and removes what is below it (`Affects`); `EventSynced`,
`ServeSynced` and `DeliverStepSynced` follow from what these two do to `Synced`.

**webform_cards** (`WebformCards_proofs.tla`), for any number of cards, any forms
whose conditions look back, any options and any number of delayed clicks:
`TypeCorrect`; `NothingPassedOver` (`EarlierCardsAnswered`) and
`MovesToVisibleCards` from the invariant `Passed`: links lead back and not to hidden
cards, what is hidden follows from the answers, and the preview comes after all
cards are answered; `ButtonsTellTheTruth` (`ButtonsFollowCards`), inductive as it
stands; `AlwaysAWayOn` (`CanGoOn`), for which the invariant `LedOn` adds that a card
without a button is one that auto-forward leaves and that it is shown alone, and
that nothing but radio buttons with "Other..." can wait for a text.

**Only model-checked**: `Recoverable`, `InsecureIsUpdated` and `GetsItsTurn`, since
liveness under fairness is beyond the prover. Every safety invariant and action
property of the passing runs is proved. The violations need no proof.

## 5. Not modelled, and the plan

What is not modelled, with the reason, is in `PROJECT.json` under `components`.

Done: `FailureMarker`, `LockFileValidator`, `Stage`, `StageLifeCycle` and the
refinement; `StatusCheck`; `AutomaticUpdates`; `ImceUploadQueue`, `Imce`;
`WebformCards`.

Left, the most important first:

1. `VersionPolicy.tla`: `ReleaseChooser`, `ProjectInfo::getInstallableReleases()`
   and the policy rules as operators over a small set of releases, checked against
   a reference definition; lemmas about them.
2. `Imce`: resizing, permissions, files changed in place; `WebformCards`: cards
   that slide, drafts that reopen in the middle of a form.
3. Further modules as far as they keep state between requests: `scheduler` (cron
   against editors), `redirect` and `pathauto` (loops, unique aliases), captcha
   sessions, submission limits of `webform`, scheduled backups.

Vendored libraries (`libraries`: pdf.js, jQuery and others) and themes make up most
of the JavaScript of the repository; they are not the site's own logic and are
left to their projects.

A further abstract specification worth stating: a mailer that
announces each failure once, which `StatusCheck` implements when cron alone runs
the checks.
